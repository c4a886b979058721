------------------------------ MODULE WorkerPool ------------------------------
(***************************************************************************)
(* A pool of hot inference servers and the callers that fail over between  *)
(* its workers (internal/inference/local/pool.go, and the request loops of *)
(* local.go: synthesizeServer, asrTranscriptServer, interpretGemmaServer   *)
(* and, with a single attempt, transcribeServer, which shares the asr pool *)
(* with asrTranscriptServer).                                              *)
(*                                                                         *)
(* The idle queue is a Go channel of worker pointers.  That a worker is in *)
(* it once at most is due only to how add, checkout and release use it.    *)
(* A worker is named by its url: the supervisor never reuses a port.       *)
(***************************************************************************)
EXTENDS Integers, Sequences, FiniteSets

CONSTANTS
    Workers,   \* the workers ever given to add
    Callers,   \* the goroutines that serve requests on this pool
    Capacity,  \* capacity of the idle queue: admission cap plus external urls
    None       \* no worker

ASSUME PoolAssumption ==
    /\ IsFiniteSet(Workers)
    /\ Capacity \in Nat \ {0}
    /\ None \notin Workers

MaxAttempts == 3

VARIABLES
    all,      \* pool.all: the members
    removed,  \* the workers whose removed flag is set
    idle,     \* pool.idle: the channel of idle workers, oldest first
    adding,   \* the workers whose add registered them and has still to queue them
    pc,       \* pc[c]: the step of caller c
    hand,     \* hand[c]: the worker c's request runs on
    held,     \* held[c]: workers c must release when it returns
    giving,   \* giving[c]: the worker whose release has yet to queue it
    tries     \* tries[c]: attempts c has left

poolVars   == <<all, removed, idle, adding>>
callerVars == <<pc, hand, held, giving, tries>>
vars       == <<poolVars, callerVars>>

Steps == {"idle", "sizing", "checkout", "calling", "releasing", "requeue"}

TypeOK ==
    /\ all \in SUBSET Workers /\ removed \in SUBSET Workers
    /\ idle \in Seq(Workers) /\ Len(idle) <= Capacity
    /\ adding \in SUBSET Workers
    /\ pc \in [Callers -> Steps]
    /\ hand \in [Callers -> Workers \cup {None}]
    /\ held \in [Callers -> SUBSET Workers]
    /\ giving \in [Callers -> Workers \cup {None}]
    /\ tries \in [Callers -> 0..MaxAttempts]

Init ==
    /\ all = {} /\ removed = {} /\ adding = {} /\ idle = <<>>
    /\ pc = [c \in Callers |-> "idle"]
    /\ hand = [c \in Callers |-> None]
    /\ held = [c \in Callers |-> {}]
    /\ giving = [c \in Callers |-> None]
    /\ tries = [c \in Callers |-> 0]

-----------------------------------------------------------------------------
(***************************************************************************)
(* The idle channel and the membership.                                    *)
(***************************************************************************)

\* A send on the channel; it blocks while the channel is full.  There is room for all
\* members, but the place of a removed one is free only after a checkout has met it.
Enqueue(w) ==
    /\ Len(idle) < Capacity
    /\ idle' = Append(idle, w)

\* pool.remove: flag the worker and forget it; its place in the queue remains.
Forget(w) ==
    /\ all' = all \ {w}
    /\ removed' = IF w \in all THEN removed \cup {w} ELSE removed

\* pool.add, first half: register under the lock.  The admin API admits no more
\* members than the queue has room for (SetReplicas against TTSMaxReplicas).
Register(w) ==
    /\ w \notin all \cup removed
    /\ Cardinality(all) < Capacity
    /\ all' = all \cup {w}
    /\ adding' = adding \cup {w}
    /\ UNCHANGED <<removed, idle, callerVars>>

\* pool.add, second half: mark the worker idle.
Announce(w) ==
    /\ w \in adding
    /\ Enqueue(w)
    /\ adding' = adding \ {w}
    /\ UNCHANGED <<all, removed, callerVars>>

\* The admin API scales down.
Remove(w) ==
    /\ w \in all
    /\ Forget(w)
    /\ UNCHANGED <<idle, adding, callerVars>>

-----------------------------------------------------------------------------
(***************************************************************************)
(* A caller.                                                               *)
(***************************************************************************)

\* Route the request to this pool, which must have workers.
Route(c) ==
    /\ pc[c] = "idle" /\ all # {}
    /\ pc' = [pc EXCEPT ![c] = "sizing"]
    /\ UNCHANGED <<poolVars, hand, held, giving, tries>>

\* The attempts a request makes: one, or as many as the pool has workers when it
\* looks, but one at least and three at most.
Attempts ==
    {1, IF all = {} THEN 1
        ELSE IF Cardinality(all) < MaxAttempts THEN Cardinality(all) ELSE MaxAttempts}

Size(c) ==
    /\ pc[c] = "sizing"
    /\ \E n \in Attempts : tries' = [tries EXCEPT ![c] = n]
    /\ pc' = [pc EXCEPT ![c] = "checkout"]
    /\ UNCHANGED <<poolVars, hand, held, giving>>

\* Mutant of Take: the removed flag is not looked at.
TakeAny(c) ==
    /\ pc[c] = "checkout" /\ idle # <<>>
    /\ idle' = Tail(idle)
    /\ pc' = [pc EXCEPT ![c] = "calling"]
    /\ hand' = [hand EXCEPT ![c] = Head(idle)]
    /\ UNCHANGED <<all, removed, adding, held, giving, tries>>

\* checkout takes the oldest idle worker, and drops it if its worker was removed.  Between
\* the receive and the look at the flag only this caller has it.
Take(c) ==
    /\ pc[c] = "checkout" /\ idle # <<>>
    /\ idle' = Tail(idle)
    /\ IF Head(idle) \in removed
       THEN UNCHANGED <<pc, hand>>
       ELSE /\ pc' = [pc EXCEPT ![c] = "calling"]
            /\ hand' = [hand EXCEPT ![c] = Head(idle)]
    /\ UNCHANGED <<all, removed, adding, held, giving, tries>>


\* checkout returns because the request's context is done.
GiveUp(c) ==
    /\ pc[c] = "checkout"
    /\ pc' = [pc EXCEPT ![c] = "releasing"]
    /\ UNCHANGED <<poolVars, hand, held, giving, tries>>

\* The server answered: release it, and what is held, and return.
Succeed(c) ==
    /\ pc[c] = "calling"
    /\ held' = [held EXCEPT ![c] = @ \cup {hand[c]}]
    /\ hand' = [hand EXCEPT ![c] = None]
    /\ pc' = [pc EXCEPT ![c] = "releasing"]
    /\ UNCHANGED <<poolVars, giving, tries>>

\* Mutant of NextAttempt: one attempt too many.
OneMoreAttempt(c) ==
    /\ tries' = [tries EXCEPT ![c] = @ - 1]
    /\ pc' = [pc EXCEPT ![c] = IF tries[c] >= 1 THEN "checkout" ELSE "releasing"]
    /\ hand' = [hand EXCEPT ![c] = None]

\* An attempt failed: another one, or return the last error.
NextAttempt(c) ==
    /\ tries' = [tries EXCEPT ![c] = @ - 1]
    /\ pc' = [pc EXCEPT ![c] = IF tries[c] > 1 THEN "checkout" ELSE "releasing"]
    /\ hand' = [hand EXCEPT ![c] = None]

\* Mutant of Evict: the dead worker stays a member, though nobody releases it.
EvictNobody(c) ==
    /\ pc[c] = "calling"
    /\ NextAttempt(c)
    /\ UNCHANGED <<poolVars, held, giving>>

\* The dial failed: evict the worker.
Evict(c) ==
    /\ pc[c] = "calling"
    /\ Forget(hand[c])
    /\ NextAttempt(c)
    /\ UNCHANGED <<idle, adding, held, giving>>

\* The server answered with an error: hold it out of this call's rotation.
Hold(c) ==
    /\ pc[c] = "calling"
    /\ held' = [held EXCEPT ![c] = @ \cup {hand[c]}]
    /\ NextAttempt(c)
    /\ UNCHANGED <<poolVars, giving>>

\* release, first half: a worker that was removed meanwhile is dropped.
Release(c, w) ==
    /\ pc[c] = "releasing" /\ w \in held[c]
    /\ held' = [held EXCEPT ![c] = @ \ {w}]
    /\ IF w \in removed
       THEN UNCHANGED <<pc, giving>>
       ELSE /\ giving' = [giving EXCEPT ![c] = w]
            /\ pc' = [pc EXCEPT ![c] = "requeue"]
    /\ UNCHANGED <<poolVars, hand, tries>>

\* release, second half, outside the lock.
Requeue(c) ==
    /\ pc[c] = "requeue"
    /\ Enqueue(giving[c])
    /\ giving' = [giving EXCEPT ![c] = None]
    /\ pc' = [pc EXCEPT ![c] = "releasing"]
    /\ UNCHANGED <<all, removed, adding, hand, held, tries>>

Return(c) ==
    /\ pc[c] = "releasing" /\ held[c] = {}
    /\ pc' = [pc EXCEPT ![c] = "idle"]
    /\ UNCHANGED <<poolVars, hand, held, giving, tries>>

Caller(c) ==
    \/ Size(c) \/ Take(c) \/ GiveUp(c) \/ Succeed(c) \/ Evict(c) \/ Hold(c) \/ Requeue(c) \/ Return(c)
    \/ \E w \in Workers : Release(c, w)

Next ==
    \/ \E w \in Workers : Register(w) \/ Announce(w) \/ Remove(w)
    \/ \E c \in Callers : Route(c) \/ Caller(c)

\* Goroutines run, servers answer within the HTTP client's timeout, and a
\* request's context ends at the latest when its client's timeout does.  A Go channel
\* gives a place that becomes free to the sender that has waited for it longest, before
\* anyone else may send: a sender that finds room again and again is served.
Fairness ==
    /\ \A c \in Callers : WF_vars(Caller(c)) /\ SF_vars(Requeue(c))
    /\ \A w \in Workers : SF_vars(Announce(w))

Spec == Init /\ [][Next]_vars /\ Fairness

-----------------------------------------------------------------------------
(***************************************************************************)
(* Properties.                                                             *)
(***************************************************************************)

\* The workers in the idle queue.
Queued == {idle[i] : i \in 1..Len(idle)}

\* Caller c has worker w: its request runs on it, or c has yet to give it back.
Has(c, w) == hand[c] = w \/ w \in held[c] \/ giving[c] = w

\* No worker is lost and none is duplicated: a member is in the idle queue once,
\* or its add has still to queue it, or exactly one caller has it, however
\* evictions, scale-downs and releases interleave.
OneHome ==
    /\ \A i, j \in 1..Len(idle) : idle[i] = idle[j] => i = j
    /\ \A w \in all : w \in Queued \/ w \in adding \/ \E c \in Callers : Has(c, w)
    /\ \A w \in adding : w \notin Queued
    /\ \A c \in Callers, w \in Workers : Has(c, w) => w \notin Queued /\ w \notin adding
    /\ \A c, d \in Callers, w \in Workers : Has(c, w) /\ Has(d, w) => c = d

\* Caller c's release has found the queue full, although there is room for all members:
\* a worker that was removed still has a place in it, or was removed just after release
\* had looked at its flag.
BlockedByRemoved(c) ==
    /\ pc[c] = "requeue" /\ Len(idle) = Capacity
    /\ (Queued \cup {giving[c]}) \cap removed # {}


\* The pool implements leases: one caller at a time has a worker, and a removed
\* worker is not handed out again ("never handed out again", pool.go).
LeaseState == [w \in Workers |-> IF w \in all THEN "member"
                                 ELSE IF w \in removed THEN "gone" ELSE "absent"]
Leases == {p \in Callers \X Workers : Has(p[1], p[2])}

Lease == INSTANCE WorkerLease WITH state <- LeaseState, lease <- Leases

KeepsLeases == Lease!Spec

\* The callers that want another worker while they keep those that failed them.
Retrying == {c \in Callers : pc[c] = "checkout" /\ held[c] # {}}

\* Attempts are bounded "so a systemic outage still fails fast" (synthesizeServer):
\* several requests that fail over never wait for workers that only they keep out
\* of the queue, with nobody else at work on the pool.
NoHoldAndWait ==
    Cardinality(Retrying) > 1 =>
        \/ idle # <<>> \/ adding # {}
        \/ \E c \in Callers : pc[c] \in {"sizing", "calling", "releasing", "requeue"}

=============================================================================
