------------------------------ MODULE WorkerLease ------------------------------
(***************************************************************************)
(* What a pool of inference servers promises: a server works for one       *)
(* caller at a time, and one that left the pool is never handed out again. *)
(***************************************************************************)
CONSTANTS Workers, Callers

VARIABLES
    state,  \* state[w]: not yet a member, a member, or gone
    lease   \* the pairs <<c, w>> such that caller c has worker w

vars == <<state, lease>>

TypeOK ==
    /\ state \in [Workers -> {"absent", "member", "gone"}]
    /\ lease \in SUBSET (Callers \X Workers)

Init ==
    /\ state = [w \in Workers |-> "absent"]
    /\ lease = {}

Join(w) ==
    /\ state[w] = "absent"
    /\ state' = [state EXCEPT ![w] = "member"]
    /\ UNCHANGED lease

Retire(w) ==
    /\ state[w] = "member"
    /\ state' = [state EXCEPT ![w] = "gone"]
    /\ UNCHANGED lease

Lease(c, w) ==
    /\ state[w] = "member"
    /\ \A d \in Callers : <<d, w>> \notin lease
    /\ lease' = lease \cup {<<c, w>>}
    /\ UNCHANGED state

Return(c, w) ==
    /\ <<c, w>> \in lease
    /\ lease' = lease \ {<<c, w>>}
    /\ UNCHANGED state

\* A caller found its worker dead: it leaves the pool and comes back to nobody.
Discard(c, w) ==
    /\ <<c, w>> \in lease
    /\ lease' = lease \ {<<c, w>>}
    /\ state' = [state EXCEPT ![w] = "gone"]

Next ==
    \/ \E w \in Workers : Join(w) \/ Retire(w)
    \/ \E c \in Callers, w \in Workers : Lease(c, w) \/ Return(c, w) \/ Discard(c, w)

Spec == Init /\ [][Next]_vars
=============================================================================
