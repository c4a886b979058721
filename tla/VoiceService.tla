----------------------------- MODULE VoiceService -----------------------------
(***************************************************************************)
(* How a user's voice note reaches an agent: voice.Service.ListenVoice and *)
(* voice.Service.HandleIncomingVoice over the JSON store                   *)
(* (internal/voice/service.go, internal/store/jsonstore.go).               *)
(*                                                                         *)
(* Every ListenVoice call runs in the goroutine of its HTTP request, every *)
(* HandleIncomingVoice call in the one goroutine of the Telegram poller.   *)
(* A step is what one store call, one critical section of Service.mu, one  *)
(* channel operation or one call of the inference engine does; between two *)
(* steps the other goroutines run.  The process may also crash and be      *)
(* restarted: everything but the store's file is then lost.                *)
(***************************************************************************)
EXTENDS Integers, FiniteSets

CONSTANTS
    Calls,        \* the ListenVoice calls; a call's request is named after it
    Voices,       \* the voice notes the user records
    Chats,        \* the chats the transport's allowlist admits
    Home,         \* Config.DefaultChatID, the chat every session is bound to
    ChatOf,       \* ChatOf[v]: the chat v is recorded in
    None,         \* Go's nil or "", and nothing else's name
    MaxOpen,      \* bound: calls running at the same time
    MaxRestarts,  \* bound: crashes of the process
    MaxFaults     \* bound: failed writes of the store's file

ASSUME ServiceAssumption ==
    /\ Home \in Chats
    /\ ChatOf \in [Voices -> Chats]
    /\ None \notin Calls \cup Voices
    /\ MaxOpen \in Nat /\ MaxRestarts \in Nat /\ MaxFaults \in Nat

VARIABLES
    db,        \* jsonStore.db
    disk,      \* the database the store's file holds
    asked,     \* how many requests were created, and
    reqAt,     \*   CreatedAt of each (0: not created)
    arrived,   \* how many voice messages were created, and
    voiceAt,   \*   CreatedAt of each (0: not arrived)
    waiters,   \* Service.waiters: the calls whose channel it holds
    chan,      \* chan[c]: what the one-place channel of c holds
    pc,        \* pc[c]: the step call c takes next
    held,      \* held[c]: the VoiceMessage in c's hands
    outcome,   \* outcome[c]: what c returns
    handler,   \* the step and the locals of HandleIncomingVoice
    restarts, faults

storeVars == <<db, disk, asked, reqAt, arrived, voiceAt, faults>>
callVars  == <<waiters, chan, pc, held, outcome>>
vars      == <<storeVars, callVars, handler, restarts>>

-----------------------------------------------------------------------------
(***************************************************************************)
(* Types.  "none" stands for a record that is not in the database.         *)
(***************************************************************************)
VoiceStatus   == {"none", "pending", "claimed", "processing", "consumed", "failed"}
RequestStatus == {"none", "waiting", "completed", "expired"}

\* A stored VoiceMessage: Status and RequestID.
VoiceRecord == [status : VoiceStatus, req : Calls \cup {None}]
\* A VoiceMessage in memory: which voice, and its RequestID.
Message     == [id : Voices, req : Calls \cup {None}]
ASSUME NilAssumption == None \notin Message

Database    == [req : [Calls -> RequestStatus], voice : [Voices -> VoiceRecord]]

\* The steps of a call whose goroutine runs.
OpenSteps == {"asking", "registering", "waiting", "begin", "interpreting",
              "completing", "expiring", "leaving"}
Steps     == OpenSteps \cup {"idle", "returned", "dead"}
Outcomes  == {"none", "delivered", "failed", "timeout", "error"}

IsOpen(c) == pc[c] \in OpenSteps

EmptyDb     == [req   |-> [c \in Calls |-> "none"],
                voice |-> [v \in Voices |-> [status |-> "none", req |-> None]]]
IdleHandler == [step |-> "idle", voice |-> None, req |-> None]

TypeOK ==
    /\ db \in Database /\ disk \in Database
    /\ asked \in Nat /\ reqAt \in [Calls -> Nat]
    /\ arrived \in Nat /\ voiceAt \in [Voices -> Nat]
    /\ waiters \in SUBSET Calls
    /\ chan \in [Calls -> Message \cup {None}]
    /\ pc \in [Calls -> Steps]
    /\ held \in [Calls -> Message \cup {None}]
    /\ outcome \in [Calls -> Outcomes]
    /\ handler \in [step  : {"idle", "stored", "binding", "bound", "sending"},
                    voice : Voices \cup {None}, req : Calls \cup {None}]
    /\ restarts \in 0..MaxRestarts /\ faults \in 0..MaxFaults

Init ==
    /\ db = EmptyDb /\ disk = EmptyDb
    /\ asked = 0 /\ reqAt = [c \in Calls |-> 0]
    /\ arrived = 0 /\ voiceAt = [v \in Voices |-> 0]
    /\ waiters = {}
    /\ chan = [c \in Calls |-> None]
    /\ pc = [c \in Calls |-> "idle"]
    /\ held = [c \in Calls |-> None]
    /\ outcome = [c \in Calls |-> "none"]
    /\ handler = IdleHandler
    /\ restarts = 0 /\ faults = 0

-----------------------------------------------------------------------------
(***************************************************************************)
(* The store.  A method changes the database in memory and then writes all *)
(* of it to a temporary file that it renames over the old one: the write   *)
(* either replaces the file or leaves it as it was, and a write that fails *)
(* does not undo the change in memory.                                     *)
(***************************************************************************)
\* Mutant of Saved: the change stays in memory.
SavedNever(d) == db' = d /\ UNCHANGED <<disk, faults>>

Saved(d)    == db' = d /\ disk' = d /\ UNCHANGED faults
NotSaved(d) == /\ db' = d /\ UNCHANGED disk
               /\ faults < MaxFaults /\ faults' = faults + 1

\* A write whose error the caller ignores.
Write(d) == Saved(d) \/ NotSaved(d)

WithRequest(c, s)  == [db EXCEPT !.req[c] = s]
WithVoice(v, s, r) == [db EXCEPT !.voice[v] = [status |-> s, req |-> r]]

\* Sessions are all bound to the home chat, so another chat has no requests.
WaitingRequests(chat) ==
    {c \in Calls : db.req[c] = "waiting" /\ chat = Home}

\* Mutants of PendingVoices: any chat's voices; those in progress as well.
PendingAnywhere(chat) == {v \in Voices : db.voice[v].status = "pending"}
PendingOrProcessing(chat) ==
    {v \in Voices : db.voice[v].status \in {"pending", "processing"} /\ ChatOf[v] = chat}

PendingVoices(chat) ==
    {v \in Voices : db.voice[v].status = "pending" /\ ChatOf[v] = chat}

IsOldest(x, S, at) == x \in S /\ \A y \in S : at[x] <= at[y]

-----------------------------------------------------------------------------
(***************************************************************************)
(* ListenVoice.                                                            *)
(***************************************************************************)

\* The call begins and takes a copy of the oldest pending voice, if any.
Open(c) ==
    /\ pc[c] = "idle"
    /\ Cardinality({d \in Calls : IsOpen(d)}) < MaxOpen
    /\ \/ /\ PendingVoices(Home) = {}
          /\ pc' = [pc EXCEPT ![c] = "asking"]
          /\ UNCHANGED held
       \/ \E v \in Voices :
             /\ IsOldest(v, PendingVoices(Home), voiceAt)
             /\ held' = [held EXCEPT ![c] = [id |-> v, req |-> db.voice[v].req]]
             /\ pc' = [pc EXCEPT ![c] = "begin"]
    /\ UNCHANGED <<storeVars, waiters, chan, outcome, handler, restarts>>

\* No pending voice: store a waiting request.  When the file cannot be written
\* the call returns an error, and the request stays in memory.
CreateRequest(c) ==
    /\ pc[c] = "asking"
    /\ asked' = asked + 1
    /\ reqAt' = [reqAt EXCEPT ![c] = asked + 1]
    /\ \/ /\ Saved(WithRequest(c, "waiting"))
          /\ pc' = [pc EXCEPT ![c] = "registering"]
          /\ UNCHANGED outcome
       \/ /\ NotSaved(WithRequest(c, "waiting"))
          /\ pc' = [pc EXCEPT ![c] = "returned"]
          /\ outcome' = [outcome EXCEPT ![c] = "error"]
    /\ UNCHANGED <<arrived, voiceAt, waiters, chan, held, handler, restarts>>

\* Make the channel and publish it under Service.mu.
Register(c) ==
    /\ pc[c] = "registering"
    /\ waiters' = waiters \cup {c}
    /\ pc' = [pc EXCEPT ![c] = "waiting"]
    /\ UNCHANGED <<storeVars, chan, held, outcome, handler, restarts>>

\* The select: a voice was delivered, or the wait timeout elapsed or the
\* caller's context is done.  With both possible, select takes either.
Receive(c) ==
    /\ pc[c] = "waiting" /\ chan[c] # None
    /\ held' = [held EXCEPT ![c] = chan[c]]
    /\ chan' = [chan EXCEPT ![c] = None]
    /\ pc' = [pc EXCEPT ![c] = "begin"]
    /\ UNCHANGED <<storeVars, waiters, outcome, handler, restarts>>

\* Mutants of GiveUp: leave without expireRequest; no timeout, only an answer.
GiveUpSilently(c) ==
    /\ pc[c] = "waiting"
    /\ pc' = [pc EXCEPT ![c] = "leaving"]
    /\ outcome' = [outcome EXCEPT ![c] = "timeout"]
    /\ UNCHANGED <<storeVars, waiters, chan, held, handler, restarts>>

GiveUpAnswered(c) ==
    /\ pc[c] = "waiting" /\ chan[c] # None
    /\ pc' = [pc EXCEPT ![c] = "expiring"]
    /\ outcome' = [outcome EXCEPT ![c] = "timeout"]
    /\ UNCHANGED <<storeVars, waiters, chan, held, handler, restarts>>

GiveUp(c) ==
    /\ pc[c] = "waiting"
    /\ pc' = [pc EXCEPT ![c] = "expiring"]
    /\ outcome' = [outcome EXCEPT ![c] = "timeout"]
    /\ UNCHANGED <<storeVars, waiters, chan, held, handler, restarts>>

\* Mutant of Expire: the status is one the store's readers do not know.
ExpireCancelled(c) ==
    /\ pc[c] = "expiring"
    /\ pc' = [pc EXCEPT ![c] = "leaving"]
    /\ Write(WithRequest(c, "cancelled"))
    /\ UNCHANGED <<asked, reqAt, arrived, voiceAt, waiters, chan, held, outcome,
                   handler, restarts>>

\* expireRequest: only a request that is still waiting expires.
Expire(c) ==
    /\ pc[c] = "expiring"
    /\ pc' = [pc EXCEPT ![c] = "leaving"]
    /\ IF db.req[c] = "waiting" THEN Write(WithRequest(c, "expired"))
                                ELSE UNCHANGED <<db, disk, faults>>
    /\ UNCHANGED <<asked, reqAt, arrived, voiceAt, waiters, chan, held, outcome,
                   handler, restarts>>

\* processVoice marks its copy of the voice and writes all of it.
BeginProcessing(c) ==
    /\ pc[c] = "begin"
    /\ Write(WithVoice(held[c].id, "processing", held[c].req))
    /\ pc' = [pc EXCEPT ![c] = "interpreting"]
    /\ UNCHANGED <<asked, reqAt, arrived, voiceAt, waiters, chan, held, outcome,
                   handler, restarts>>

\* The engine's answer decides the voice's last status and the call's result.
Interpret(c) ==
    /\ pc[c] = "interpreting"
    /\ \E ok \in BOOLEAN :
          /\ Write(WithVoice(held[c].id, IF ok THEN "consumed" ELSE "failed", held[c].req))
          /\ outcome' = [outcome EXCEPT ![c] = IF ok THEN "delivered" ELSE "failed"]
    /\ pc' = [pc EXCEPT ![c] = "completing"]
    /\ UNCHANGED <<asked, reqAt, arrived, voiceAt, waiters, chan, held, handler, restarts>>

\* Mutant of Complete: a failed interpretation leaves the request alone.
CompleteAnswered(c) ==
    /\ pc[c] = "completing"
    /\ IF held[c].req # None /\ outcome[c] = "delivered"
       THEN Write(WithRequest(held[c].req, "completed"))
       ELSE UNCHANGED <<db, disk, faults>>
    /\ pc' = [pc EXCEPT ![c] = "leaving"]
    /\ UNCHANGED <<asked, reqAt, arrived, voiceAt, waiters, chan, held, outcome,
                   handler, restarts>>

\* completeRequest, for the request the message names.
Complete(c) ==
    /\ pc[c] = "completing"
    /\ LET r == held[c].req IN
          IF r # None /\ db.req[r] # "none" THEN Write(WithRequest(r, "completed"))
                                            ELSE UNCHANGED <<db, disk, faults>>
    /\ pc' = [pc EXCEPT ![c] = "leaving"]
    /\ UNCHANGED <<asked, reqAt, arrived, voiceAt, waiters, chan, held, outcome,
                   handler, restarts>>

\* The deferred delete, and the return.
Leave(c) ==
    /\ pc[c] = "leaving"
    /\ waiters' = waiters \ {c}
    /\ pc' = [pc EXCEPT ![c] = "returned"]
    /\ UNCHANGED <<storeVars, chan, held, outcome, handler, restarts>>

-----------------------------------------------------------------------------
(***************************************************************************)
(* HandleIncomingVoice.                                                    *)
(***************************************************************************)

\* A voice note is stored as pending; the handler returns if that fails.
StoreVoice(v) ==
    /\ handler.step = "idle"
    /\ voiceAt[v] = 0
    /\ arrived' = arrived + 1
    /\ voiceAt' = [voiceAt EXCEPT ![v] = arrived + 1]
    /\ \/ /\ Saved(WithVoice(v, "pending", None))
          /\ handler' = [step |-> "stored", voice |-> v, req |-> None]
       \/ /\ NotSaved(WithVoice(v, "pending", None))
          /\ UNCHANGED handler
    /\ UNCHANGED <<asked, reqAt, callVars, restarts>>

\* Pick the oldest waiting request of the voice's chat; none: leave it pending.
PickRequest ==
    /\ handler.step = "stored"
    /\ LET waiting == WaitingRequests(ChatOf[handler.voice]) IN
          \/ waiting = {} /\ handler' = IdleHandler
          \/ \E c \in Calls : /\ IsOldest(c, waiting, reqAt)
                              /\ handler' = [step |-> "binding", voice |-> handler.voice, req |-> c]
    /\ UNCHANGED <<storeVars, callVars, restarts>>

\* Write the whole message back as claimed by that request.
ClaimVoice ==
    /\ handler.step = "binding"
    /\ Write(WithVoice(handler.voice, "claimed", handler.req))
    /\ handler' = [handler EXCEPT !.step = "bound"]
    /\ UNCHANGED <<asked, reqAt, arrived, voiceAt, callVars, restarts>>

\* Read the waiter's channel under Service.mu; none: the voice stays claimed.
FindWaiter ==
    /\ handler.step = "bound"
    /\ handler' = IF handler.req \in waiters THEN [handler EXCEPT !.step = "sending"]
                                             ELSE IdleHandler
    /\ UNCHANGED <<storeVars, callVars, restarts>>

\* Mutants of Send: a send that blocks on a full channel; a send that is
\* followed by another attempt to route the same voice.
SendBlocking ==
    /\ handler.step = "sending"
    /\ chan[handler.req] = None
    /\ chan' = [chan EXCEPT ![handler.req] = [id |-> handler.voice, req |-> handler.req]]
    /\ handler' = IdleHandler
    /\ UNCHANGED <<storeVars, waiters, pc, held, outcome, restarts>>

SendAgain ==
    /\ handler.step = "sending"
    /\ IF chan[handler.req] = None
       THEN chan' = [chan EXCEPT ![handler.req] = [id |-> handler.voice, req |-> handler.req]]
       ELSE UNCHANGED chan
    /\ handler' = [step |-> "stored", voice |-> handler.voice, req |-> None]
    /\ UNCHANGED <<storeVars, waiters, pc, held, outcome, restarts>>

\* The non-blocking send: a full channel drops the message.
Send ==
    /\ handler.step = "sending"
    /\ IF chan[handler.req] = None
       THEN chan' = [chan EXCEPT ![handler.req] = [id |-> handler.voice, req |-> handler.req]]
       ELSE UNCHANGED chan
    /\ handler' = IdleHandler
    /\ UNCHANGED <<storeVars, waiters, pc, held, outcome, restarts>>

-----------------------------------------------------------------------------
\* The process dies and is started again: store.Open reads the file.
Restart ==
    /\ restarts < MaxRestarts
    /\ restarts' = restarts + 1
    /\ db' = disk
    /\ waiters' = {}
    /\ chan' = [c \in Calls |-> None]
    /\ pc' = [c \in Calls |-> IF IsOpen(c) THEN "dead" ELSE pc[c]]
    /\ handler' = IdleHandler
    /\ held' = [c \in Calls |-> IF IsOpen(c) THEN None ELSE held[c]]
    /\ outcome' = [c \in Calls |-> IF IsOpen(c) THEN "none" ELSE outcome[c]]
    /\ UNCHANGED <<disk, asked, reqAt, arrived, voiceAt, faults>>

\* What the goroutine of call c does once it runs.
Listener(c) ==
    \/ CreateRequest(c) \/ Register(c) \/ Receive(c) \/ GiveUp(c) \/ Expire(c)
    \/ BeginProcessing(c) \/ Interpret(c) \/ Complete(c) \/ Leave(c)

\* What HandleIncomingVoice does once a voice is in.
Handler == PickRequest \/ ClaimVoice \/ FindWaiter \/ Send

Next ==
    \/ \E c \in Calls : Open(c) \/ Listener(c)
    \/ \E v \in Voices : StoreVoice(v)
    \/ Handler
    \/ Restart

\* Goroutines that can run do run, the engine answers (its HTTP client has a
\* timeout) and the wait timeout elapses.  Nobody has to call or to speak.
Fairness == (\A c \in Calls : WF_vars(Listener(c))) /\ WF_vars(Handler)

Spec == Init /\ [][Next]_vars /\ Fairness

-----------------------------------------------------------------------------
(***************************************************************************)
(* Properties.                                                             *)
(***************************************************************************)

\* No agent is handed a voice of another chat: the routing filters of
\* OldestPendingVoice and WaitingRequests and the channels never mix chats up.
NoForeignVoice ==
    \A c \in Calls : held[c] # None => ChatOf[held[c].id] = Home

\* ListenVoice leaves no waiting request behind on any path (answer, failed
\* interpretation, timeout, cancellation): only a call that still runs, or that
\* died with the process, has one.  An orphan would swallow a later voice.
NoOrphanRequest ==
    faults = 0 =>
        \A c \in Calls : db.req[c] = "waiting" => IsOpen(c) \/ pc[c] = "dead"

SettledAs(c) == IF outcome[c] = "timeout"  THEN "expired"
                ELSE IF held[c].req = None THEN "none"
                ELSE "completed"

\* What a call returned and what the store says of its request agree, however
\* the voice, the timeout and the handler raced: completed if it was answered
\* live, expired if it gave up, no request if a pending voice answered it.
OutcomeMatchesRequest ==
    \A c \in Calls : faults = 0 /\ pc[c] = "returned" => db.req[c] = SettledAs(c)

\* A voice is handed to one call live, whoever else waits, times out or returns
\* while the handler routes it.
OneLiveAnswer ==
    \A c, d \in Calls :
        /\ held[c] # None /\ held[c].req # None
        /\ held[d] # None /\ held[d].req # None
        /\ held[c].id = held[d].id
        => c = d

\* A request that was settled is never reopened, not by a late voice and not by
\* a crash and restart, as long as every write of the file succeeded.
SettledForGood ==
    [][\A c \in Calls : faults' = 0 /\ db.req[c] \in {"completed", "expired"}
                            => db'.req[c] = db.req[c]]_vars

\* Every ListenVoice call that begins ends: with an answer, an error, or dead.
EveryCallEnds == \A c \in Calls : IsOpen(c) ~> ~IsOpen(c)

\* HandleIncomingVoice always returns, so that the poller goes on, also when
\* the request's call is gone or its channel is full.
PollerNeverStalls == handler.step # "idle" ~> handler.step = "idle"

\* "none -> keep pending" (doc/QUIETVOICE.md): a voice is bound to a request
\* only while the call that waits for it runs.
BindsToOpenCall ==
    [][handler.step = "stored" /\ handler'.step = "binding"
          => IsOpen(handler'.req)]_vars

\* A voice answers one call: "consumes" it (ListenVoice's comment).
OneAnswerPerVoice ==
    \A c, d \in Calls :
        /\ pc[c] = "returned" /\ outcome[c] = "delivered"
        /\ pc[d] = "returned" /\ outcome[d] = "delivered"
        /\ held[c].id = held[d].id
        => c = d

(***************************************************************************)
(* With one agent that calls again only after its last call ended, the     *)
(* service implements ListenPromise, across crashes and a failed write.    *)
(* (Two failed writes in a row, of processing and of consumed, and a crash *)
(* after them bring an answered voice back as pending.)                    *)
(***************************************************************************)
HomeVoices == {v \in Voices : ChatOf[v] = Home}

\* No answer is taken for nil.
ASSUME AnswerAssumption == None \notin [voice : Voices, live : BOOLEAN]

CallState(c) ==
    CASE pc[c] = "idle" -> "idle"
      [] pc[c] = "dead" -> "cut"
      [] pc[c] = "returned" -> IF outcome[c] = "delivered" THEN "answered" ELSE "error"
      [] OTHER -> "open"

Promise == INSTANCE ListenPromise WITH
    recorded <- {v \in HomeVoices : voiceAt[v] # 0},
    call     <- [c \in Calls |-> CallState(c)],
    answer   <- [c \in Calls |->
                    IF CallState(c) # "answered" THEN None
                    ELSE [voice |-> held[c].id, live |-> held[c].req # None]]

KeepsPromise == Promise!Spec

=============================================================================
