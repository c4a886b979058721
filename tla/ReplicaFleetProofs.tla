-------------------------- MODULE ReplicaFleetProofs --------------------------
(***************************************************************************)
(* Proofs about ReplicaFleet, for any requests, pools, voices, external    *)
(* servers, cap and number of launches: types, and that while the node     *)
(* runs no server process is forgotten (NoStray) and none is stopped       *)
(* twice (StoppedOnce).                                                    *)
(*                                                                         *)
(* A server that is launched is new because ports only grow (Fresh); from  *)
(* then on it is in one place: in the hands of the request that starts or  *)
(* stops it, on the supervisor's list, or among the shutdown's victims.    *)
(*                                                                         *)
(* The second part is what an operator who waits for each answer may rely  *)
(* on: the cap, the number of replicas and the pools.  The last part is    *)
(* about the voices of the tts servers, however requests overlap.          *)
(***************************************************************************)
EXTENDS ReplicaFleet, FiniteSetTheorems, SequenceTheorems, TLAPS

USE FleetAssumption

\* A request has a server between its launch and its registration, and while it
\* stops it; a loop that stops replicas has at least one to go.
Bound ==
    \A r \in Requests :
        /\ pc[r] \in {"health", "add", "provision", "replay", "kill", "remove"} => srv[r] \in Ports
        /\ pc[r] \in {"kill", "remove"} => at[r] >= 1

TypeInv == TypeOK /\ Bound

-----------------------------------------------------------------------------
(***************************************************************************)
(* Lemmas on the supervisor's list.                                        *)
(***************************************************************************)

\* The number of replicas of a pool is a natural number.
LEMMA CountType == ASSUME TypeOK, NEW k \in Pools PROVE Count(k) \in Nat
<1> DEFINE S == {i \in 1..Len(replicas) : poolOf[replicas[i]] = k}
<1>1. Len(replicas) \in Nat
  BY LenProperties DEF TypeOK
<1>2. IsFiniteSet(1..Len(replicas))
  BY <1>1, FS_Interval
<1>3. IsFiniteSet(S)
  BY <1>2, FS_Subset
<1> QED
  BY <1>3, FS_CardinalityType DEF Count

\* The list without its i-th replica.
Without(i) == [j \in 1..(Len(replicas) - 1) |-> replicas[IF j < i THEN j ELSE j + 1]]

LEMMA WithoutType ==
    ASSUME TypeOK, NEW i \in 1..Len(replicas)
    PROVE  /\ Without(i) \in Seq(Ports)
           /\ Len(Without(i)) = Len(replicas) - 1
           /\ replicas[i] \in Ports
<1>1. Len(replicas) \in Nat /\ replicas \in [1..Len(replicas) -> Ports]
  BY LenProperties DEF TypeOK
<1>2. Len(replicas) - 1 \in Nat
  BY <1>1
<1>3. \A j \in 1..(Len(replicas) - 1) : (IF j < i THEN j ELSE j + 1) \in 1..Len(replicas)
  BY <1>1
<1>4. \A j \in 1..(Len(replicas) - 1) : replicas[IF j < i THEN j ELSE j + 1] \in Ports
  BY <1>1, <1>3
<1>5. Without(i) \in Seq(Ports)
  BY <1>2, <1>4 DEF Without
<1>6. Len(Without(i)) = Len(replicas) - 1
  BY <1>2 DEF Without
<1> QED
  BY <1>1, <1>5, <1>6

\* Both admin requests arrive as a request for some number of replicas.
LEMMA AdminArrives ==
    ASSUME TypeOK, NEW r \in Requests, AdminSet(r) \/ AdminDelete(r)
    PROVE  \E k \in Pools, n \in Int : Arrive(r, k, n)
<1>1. Asked \subseteq Int
  BY DEF Asked
<1>2. CASE AdminSet(r)
  BY <1>1, <1>2 DEF AdminSet
<1>3. CASE AdminDelete(r)
  <2>1. PICK k \in Pools, n \in Asked : Arrive(r, k, IF Count(k) - n < 0 THEN 0 ELSE Count(k) - n)
    BY <1>3 DEF AdminDelete
  <2>2. (IF Count(k) - n < 0 THEN 0 ELSE Count(k) - n) \in Int
    BY <1>1, CountType
  <2> QED
    BY <2>1, <2>2
<1> QED
  BY <1>2, <1>3

-----------------------------------------------------------------------------
(***************************************************************************)
(* Type correctness.                                                       *)
(***************************************************************************)
LEMMA TypeInit == Init => TypeInv
<1>1. NoPool \in Pools
  BY DEF NoPool
<1>2. NoFan \in Fan
  BY DEF NoFan, Fan
<1> QED
  BY <1>1, <1>2, EmptySeq DEF Init, TypeInv, TypeOK, Bound, Ports, Servers, Steps

LEMMA TypeStep == TypeInv /\ [Next]_vars => TypeInv'
<1> SUFFICES ASSUME TypeInv, [Next]_vars PROVE TypeInv'
  OBVIOUS
<1> USE DEF TypeInv, TypeOK, Bound, Steps, Goto, Reply, exitVars, fleetVars, cacheVars, voiceVars
<1>1. ASSUME NEW r \in Requests, NEW k \in Pools, NEW n \in Int, Arrive(r, k, n) PROVE TypeInv'
  BY <1>1 DEF Arrive
<1>2. ASSUME NEW r \in Requests, AdminSet(r) \/ AdminDelete(r) PROVE TypeInv'
  BY <1>1, <1>2, AdminArrives
<1>3. ASSUME NEW s \in Servers, NEW vs \in SUBSET Voices, Miss(s, vs)
      PROVE  missed' \in [Servers -> SUBSET Voices]
  BY <1>3 DEF Miss
<1>a. ASSUME NEW s \in Servers, NEW v \in Voices, NEW taken \in BOOLEAN, Post(s, v, taken)
      PROVE  has' \in [Servers -> SUBSET Voices] /\ missed' \in [Servers -> SUBSET Voices]
  <2>1. CASE taken
    <3>1. /\ has' = [has EXCEPT ![s] = has[s] \cup {v}]
          /\ missed' = [missed EXCEPT ![s] = missed[s] \ {v}]
      BY <1>a, <2>1 DEF Post
    <3>2. has[s] \cup {v} \in SUBSET Voices /\ missed[s] \ {v} \in SUBSET Voices
      OBVIOUS
    <3> QED
      BY <3>1, <3>2
  <2>2. CASE ~taken
    <3>1. {v} \in SUBSET Voices /\ Miss(s, {v}) /\ has' = has
      BY <1>a, <2>2 DEF Post
    <3>2. missed' \in [Servers -> SUBSET Voices]
      BY <1>3, <3>1
    <3> QED
      BY <3>1, <3>2
  <2> QED
    BY <2>1, <2>2
<1>4. ASSUME NEW r \in Requests, ReadCount(r) PROVE TypeInv'
  <2>1. Count(pool[r]) \in Nat
    BY CountType
  <2> QED
    BY <1>4, <2>1 DEF ReadCount
<1>5. ASSUME NEW r \in Requests, CheckCap(r) PROVE TypeInv'
  <2>1. CASE Reply(r, FALSE)
    BY <1>5, <2>1 DEF CheckCap
  <2>2. CASE Goto(r, "scale") /\ UNCHANGED ok
    BY <1>5, <2>2 DEF CheckCap
  <2> QED
    BY <1>5, <2>1, <2>2 DEF CheckCap
<1>6. ASSUME NEW r \in Requests, ScaleDone(r) PROVE TypeInv'
  BY <1>6 DEF ScaleDone
<1>7. ASSUME NEW r \in Requests, CannotLaunch(r) PROVE TypeInv'
  BY <1>7 DEF CannotLaunch
<1>8. ASSUME NEW r \in Requests, Launch(r) PROVE TypeInv'
  BY <1>8 DEF Launch, Ports
<1>9. ASSUME NEW r \in Requests, Healthy(r) PROVE TypeInv'
  BY <1>9, AppendProperties DEF Healthy
<1>10. ASSUME NEW r \in Requests, Unhealthy(r) PROVE TypeInv'
  BY <1>10 DEF Unhealthy, Die
<1>11. ASSUME NEW r \in Requests, AddMember(r) PROVE TypeInv'
  <2>1. srv[r] \in Servers
    BY <1>11 DEF AddMember, Servers
  <2>2. CASE pool[r] \in TTS
    BY <1>11, <2>1, <2>2 DEF AddMember
  <2>3. CASE pool[r] \notin TTS
    <3>1. /\ pc[r] = "add" /\ pc' = [pc EXCEPT ![r] = "scale"]
          /\ at' = [at EXCEPT ![r] = at[r] + 1] /\ at[r] \in Nat
          /\ members' = members \cup {srv[r]}
          /\ UNCHANGED <<running, replicas, nextPort, poolOf, exitVars, pool, want, srv, ok,
                         replay, voiceVars, fan, alone>>
      BY <1>11, <2>3 DEF AddMember
    <3>2. TypeOK'
      BY <2>1, <3>1
    <3>3. Bound'
      BY <3>1
    <3> QED
      BY <3>2, <3>3
  <2> QED
    BY <2>2, <2>3
<1>12. ASSUME NEW r \in Requests, Provision(r) PROVE TypeInv'
  <2>1. srv[r] \in Servers
    BY <1>12 DEF Provision, Servers
  <2>2. {fan[q].voice : q \in {p \in Requests : pc[p] = "fan"}} \in SUBSET Voices
    BY DEF Fan
  <2>3. missed' \in [Servers -> SUBSET Voices]
    BY <1>3, <1>12, <2>1, <2>2 DEF Provision
  <2> QED
    BY <1>12, <2>3 DEF Provision
<1>13. ASSUME NEW r \in Requests, NEW v \in Voices, Replay(r, v) PROVE TypeInv'
  <2>1. srv[r] \in Servers
    BY <1>13 DEF Replay, Servers
  <2>2. PICK taken \in BOOLEAN : Post(srv[r], v, taken)
    BY <1>13 DEF Replay
  <2>3. has' \in [Servers -> SUBSET Voices] /\ missed' \in [Servers -> SUBSET Voices]
    BY <1>a, <2>1, <2>2
  <2> QED
    BY <1>13, <2>3 DEF Replay
<1>14. ASSUME NEW r \in Requests, Replayed(r) PROVE TypeInv'
  BY <1>14 DEF Replayed
<1>15. ASSUME NEW r \in Requests, StopLast(r) PROVE TypeInv'
  <2>1. CASE UNCHANGED <<replicas, srv>> /\ Reply(r, TRUE)
    BY <1>15, <2>1 DEF StopLast
  <2>2. ASSUME NEW i \in 1..Len(replicas), srv' = [srv EXCEPT ![r] = replicas[i]],
               replicas' = Without(i), Goto(r, "kill"), UNCHANGED ok
        PROVE  TypeInv'
    <3>1. replicas' \in Seq(Ports) /\ replicas[i] \in Ports
      BY <2>2, WithoutType
    <3>2. at[r] >= 1
      BY <1>15 DEF StopLast
    <3> QED
      BY <1>15, <2>2, <3>1, <3>2 DEF StopLast
  <2> QED
    BY <1>15, <2>1, <2>2 DEF StopLast, OfPool, Without
<1>16. ASSUME NEW r \in Requests, Kill(r) PROVE TypeInv'
  BY <1>16 DEF Kill, Die
<1>17. ASSUME NEW r \in Requests, RemoveMember(r) PROVE TypeInv'
  BY <1>17 DEF RemoveMember
<1>18. ASSUME NEW r \in Requests, Done(r) PROVE TypeInv'
  BY <1>18 DEF Done, NoPool
<1>19. ASSUME NEW r \in Requests, NEW v \in Voices, UploadVoice(r, v) PROVE TypeInv'
  BY <1>19 DEF UploadVoice, TTSMembers, Fan
<1>20. ASSUME NEW r \in Requests, NEW s \in Servers, NEW taken \in BOOLEAN, UploadTo(r, s, taken)
       PROVE  TypeInv'
  <2>1. fan[r].voice \in Voices
    BY DEF Fan
  <2>2. has' \in [Servers -> SUBSET Voices] /\ missed' \in [Servers -> SUBSET Voices]
    BY <1>a, <1>20, <2>1 DEF UploadTo
  <2> QED
    BY <1>20, <2>2 DEF UploadTo, Fan
<1>21. ASSUME NEW r \in Requests, RememberVoice(r) PROVE TypeInv'
  BY <1>21 DEF RememberVoice, NoFan, Fan
<1>22. ASSUME NEW s \in Servers, Crash(s) PROVE TypeInv'
  BY <1>22 DEF Crash, Die, adminVars
<1>23. ASSUME NEW s \in Servers, Evict(s) PROVE TypeInv'
  BY <1>23 DEF Evict, adminVars
<1>24. ASSUME NEW s \in Servers, KillVictim(s) PROVE TypeInv'
  BY <1>24 DEF KillVictim, Die, adminVars
<1>25. ASSUME Shutdown \/ Sweep PROVE TypeInv'
  <2>1. /\ replicas' = <<>> /\ victims' = Managed /\ phase' \in {"stopping", "sweeping"}
        /\ UNCHANGED <<running, nextPort, poolOf, members, adminVars, voiceVars, alone>>
    BY <1>25 DEF Shutdown, Sweep, StopAll
  <2>2. replicas' \in Seq(Ports) /\ victims' \in SUBSET Ports
    BY <2>1, LenProperties DEF Managed
  <2> QED
    BY <2>1, <2>2 DEF adminVars
<1>26. ASSUME Exit PROVE TypeInv'
  BY <1>26 DEF Exit
<1>27. CASE UNCHANGED vars
  BY <1>27 DEF vars, adminVars
<1> QED
  BY <1>2, <1>4, <1>5, <1>6, <1>7, <1>8, <1>9, <1>10, <1>11, <1>12, <1>13, <1>14, <1>15,
     <1>16, <1>17, <1>18, <1>19, <1>20, <1>21, <1>22, <1>23, <1>24, <1>25, <1>26, <1>27
  DEF Next, AdminStep, UploadStep

\* The types of the fleet, the requests and the voices.
THEOREM TypeCorrect == Spec => []TypeOK
<1>1. TypeInv => TypeOK
  BY DEF TypeInv
<1> QED
  BY <1>1, TypeInit, TypeStep, PTL DEF Spec

-----------------------------------------------------------------------------
(***************************************************************************)
(* Where the servers are.                                                  *)
(***************************************************************************)
Holds(r) == pc[r] \in {"health", "kill"}

Listed(p) == \E i \in 1..Len(replicas) : replicas[i] = p
Distinct  == \A i, j \in 1..Len(replicas) : replicas[i] = replicas[j] => i = j

Fresh ==
    /\ \A p \in running \cup victims : p < nextPort
    /\ \A p \in Ports : Listed(p) => p < nextPort
    /\ \A r \in Requests : Holds(r) => srv[r] < nextPort
    /\ phase = "up" => victims = {}

Placed ==
    /\ Distinct
    /\ \A p \in Ports : Listed(p) => p \notin victims
    /\ \A r \in Requests : Holds(r) => ~Listed(srv[r]) /\ srv[r] \notin victims
    /\ \A r, q \in Requests : Holds(r) /\ Holds(q) /\ srv[r] = srv[q] => r = q
    /\ phase # "exited" =>
          \A p \in running : \/ Listed(p) \/ p \in victims
                             \/ \E r \in Requests : Holds(r) /\ srv[r] = p

IInv == TypeInv /\ Fresh /\ Placed

\* The list gets a server that it does not have.
LEMMA AfterRecord ==
    ASSUME TypeOK, Distinct, NEW p \in Ports, ~Listed(p), replicas' = Append(replicas, p)
    PROVE  /\ Distinct'
           /\ \A q \in Ports : Listed(q)' <=> Listed(q) \/ q = p
<1>1. /\ Len(replicas) \in Nat /\ Len(replicas') = Len(replicas) + 1
      /\ replicas'[Len(replicas) + 1] = p
      /\ \A i \in 1..Len(replicas) : replicas'[i] = replicas[i]
  BY AppendProperties, LenProperties DEF TypeOK
<1>2. \A i \in 1..Len(replicas') : i \in 1..Len(replicas) \/ i = Len(replicas) + 1
  BY <1>1
<1>3. \A i \in 1..Len(replicas) : i \in 1..Len(replicas')
  BY <1>1
<1>4. Len(replicas) + 1 \in 1..Len(replicas')
  BY <1>1
<1>5. Distinct'
  BY <1>1, <1>2 DEF Distinct, Listed
<1> QED
  BY <1>1, <1>2, <1>3, <1>4, <1>5 DEF Listed

\* The list loses its i-th server.
LEMMA AfterStop ==
    ASSUME TypeOK, Distinct, NEW i \in 1..Len(replicas), replicas' = Without(i)
    PROVE  /\ Distinct'
           /\ \A q \in Ports : Listed(q)' <=> Listed(q) /\ q # replicas[i]
<1>1. Len(replicas) \in Nat /\ Len(replicas') = Len(replicas) - 1
  BY WithoutType, LenProperties DEF TypeOK
<1>2. \A j \in 1..Len(replicas') : replicas'[j] = replicas[IF j < i THEN j ELSE j + 1]
  BY <1>1 DEF Without
<1>3. \A j \in 1..Len(replicas') : /\ (IF j < i THEN j ELSE j + 1) \in 1..Len(replicas)
                                   /\ (IF j < i THEN j ELSE j + 1) # i
  BY <1>1
<1>4. \A j \in 1..Len(replicas) :
          j # i => \E l \in 1..Len(replicas') : replicas'[l] = replicas[j]
  <2>1. SUFFICES ASSUME NEW j \in 1..Len(replicas), j # i
                 PROVE  \E l \in 1..Len(replicas') : replicas'[l] = replicas[j]
    OBVIOUS
  <2>2. CASE j < i
    <3>1. j \in 1..Len(replicas')
      BY <1>1, <2>2
    <3> QED
      BY <1>2, <2>2, <3>1
  <2>3. CASE j > i
    <3>1. j - 1 \in 1..Len(replicas') /\ ~(j - 1 < i) /\ (j - 1) + 1 = j
      BY <1>1, <2>3
    <3> QED
      BY <1>2, <3>1
  <2> QED
    BY <2>1, <2>2, <2>3
<1>5. Distinct'
  <2>1. SUFFICES ASSUME NEW j \in 1..Len(replicas'), NEW l \in 1..Len(replicas'),
                        replicas'[j] = replicas'[l]
                 PROVE  j = l
    BY DEF Distinct
  <2>2. (IF j < i THEN j ELSE j + 1) = (IF l < i THEN l ELSE l + 1)
    BY <1>2, <1>3, <2>1 DEF Distinct
  <2> QED
    BY <1>1, <2>2
<1>6. \A q \in Ports : Listed(q)' => Listed(q) /\ q # replicas[i]
  BY <1>2, <1>3 DEF Listed, Distinct
<1>7. \A q \in Ports : Listed(q) /\ q # replicas[i] => Listed(q)'
  BY <1>4 DEF Listed
<1> QED
  BY <1>5, <1>6, <1>7

\* Steps that neither launch nor record nor stop a server.
LEMMA Frame ==
    ASSUME IInv, TypeInv', UNCHANGED <<replicas, victims, phase>>,
           running' \subseteq running, nextPort' >= nextPort,
           \A r \in Requests : (Holds(r)' <=> Holds(r)) /\ (Holds(r) => srv'[r] = srv[r])
    PROVE  IInv'
<1>1. Distinct' /\ \A p \in Ports : Listed(p)' <=> Listed(p)
  BY DEF IInv, Placed, Distinct, Listed
<1>2. nextPort \in Int /\ nextPort' \in Int
  BY DEF IInv, TypeInv, TypeOK
<1>3. \A r \in Requests : Holds(r) => srv[r] \in Ports
  BY DEF IInv, TypeInv, Bound, Holds
<1>4. running \subseteq Ports /\ victims \subseteq Ports /\ Ports \subseteq Int
  BY DEF IInv, TypeInv, TypeOK, Ports
<1>5. \A p \in Int : p < nextPort => p < nextPort'
  BY <1>2
<1>6. /\ \A p \in (running \cup victims)' : p < nextPort'
      /\ \A p \in Ports : Listed(p)' => p < nextPort'
  BY <1>1, <1>4, <1>5 DEF IInv, Fresh
<1>7. \A r \in Requests : Holds(r)' => srv'[r] < nextPort'
  BY <1>3, <1>4, <1>5 DEF IInv, Fresh
<1>8. Fresh'
  BY <1>6, <1>7 DEF IInv, Fresh
<1>9. Placed'
  BY <1>1, <1>3, <1>4 DEF IInv, Placed
<1> QED
  BY <1>8, <1>9 DEF IInv

LEMMA IInvInit == Init => IInv
<1>1. ASSUME Init PROVE Fresh /\ Placed
  BY <1>1, EmptySeq DEF Init, Fresh, Placed, Listed, Distinct, Holds
<1> QED
  BY <1>1, TypeInit DEF IInv

\* Every step keeps each server in its one place.
LEMMA IInvStep == IInv /\ [Next]_vars => IInv'
<1> SUFFICES ASSUME IInv, [Next]_vars PROVE IInv'
  OBVIOUS
<1>a. TypeInv'
  BY TypeStep DEF IInv
<1>b. /\ TypeOK /\ pc \in [Requests -> Steps] /\ srv \in [Requests -> Ports \cup {NoServer}]
      /\ nextPort \in Int /\ Ports \subseteq Int /\ running \subseteq Ports /\ victims \subseteq Ports
      /\ \A r \in Requests : Holds(r) => srv[r] \in Ports
  BY DEF IInv, TypeInv, TypeOK, Bound, Holds, Ports
<1>1. ASSUME NEW r \in Requests, NEW k \in Pools, NEW n \in Int, Arrive(r, k, n) PROVE IInv'
  <2>1. \A q \in Requests : Holds(q)' <=> Holds(q)
    BY <1>1, <1>b DEF Arrive, Goto, Holds
  <2> QED
    BY <1>1, <1>a, <1>b, <2>1, Frame DEF Arrive, fleetVars, exitVars
<1>2. ASSUME NEW r \in Requests, AdminSet(r) \/ AdminDelete(r) PROVE IInv'
  BY <1>1, <1>2, <1>b, AdminArrives
<1>3. ASSUME NEW r \in Requests,
             \/ ReadCount(r) \/ CheckCap(r) \/ ScaleDone(r) \/ AddMember(r) \/ Provision(r)
             \/ Replayed(r) \/ RemoveMember(r) \/ RememberVoice(r)
      PROVE  IInv'
  <2>1. /\ pc[r] \in {"count", "cap", "scale", "add", "provision", "replay", "remove", "fan"}
        /\ \E step \in {"cap", "scale", "provision", "replay", "reply", "idle"} :
              pc' = [pc EXCEPT ![r] = step]
        /\ UNCHANGED <<replicas, victims, phase, running, nextPort, srv>>
    BY <1>3 DEF ReadCount, CheckCap, ScaleDone, AddMember, Provision, Replayed, RemoveMember,
                RememberVoice, Goto, Reply, fleetVars, exitVars
  <2>2. \A q \in Requests : Holds(q)' <=> Holds(q)
    BY <1>b, <2>1 DEF Holds
  <2> QED
    BY <1>a, <1>b, <2>1, <2>2, Frame
<1>4. ASSUME NEW r \in Requests, CannotLaunch(r) PROVE IInv'
  <2>1. \A q \in Requests : Holds(q)' <=> Holds(q)
    BY <1>4, <1>b DEF CannotLaunch, Goto, Reply, Holds
  <2>2. nextPort' >= nextPort
    BY <1>4, <1>b DEF CannotLaunch
  <2> QED
    BY <1>4, <1>a, <1>b, <2>1, <2>2, Frame DEF CannotLaunch, exitVars
<1>5. ASSUME NEW r \in Requests, Launch(r) PROVE IInv'
  <2>1. PICK p \in Ports : p = nextPort
    BY <1>5, <1>b DEF Launch, IInv, TypeInv, TypeOK, Ports
  <2>2. /\ ~Holds(r) /\ nextPort' = p + 1 /\ running' = running \cup {p}
        /\ UNCHANGED <<replicas, victims, phase>>
        /\ \A q \in Requests : /\ Holds(q)' <=> Holds(q) \/ q = r
                               /\ srv'[q] = IF q = r THEN p ELSE srv[q]
    BY <1>5, <1>b, <2>1 DEF Launch, Goto, Holds, exitVars
  <2>3. Distinct' /\ \A q \in Ports : Listed(q)' <=> Listed(q)
    BY <2>2 DEF IInv, Placed, Distinct, Listed
  <2>4. p \notin running /\ p \notin victims /\ ~Listed(p) /\ \A q \in Requests : Holds(q) => srv[q] # p
    BY <1>b, <2>1 DEF IInv, Fresh
  <2>5. \A q \in Ports : q < p => q < p + 1
    BY <1>b
  <2>6. Fresh'
    <3>1. p \in Int /\ p < p + 1
      BY <1>b, <2>1
    <3>2. \A q \in running' \cup victims' : q < nextPort'
      BY <1>b, <2>1, <2>2, <2>5, <3>1 DEF IInv, Fresh
    <3>3. \A q \in Ports : Listed(q)' => q < nextPort'
      BY <2>1, <2>2, <2>3, <2>5 DEF IInv, Fresh
    <3>4. \A q \in Requests : Holds(q)' => srv'[q] < nextPort'
      BY <1>b, <2>1, <2>2, <2>5, <3>1 DEF IInv, Fresh
    <3> QED
      BY <2>2, <3>2, <3>3, <3>4 DEF IInv, Fresh
  <2>7. Placed'
    <3>1. \A q \in Ports : Listed(q)' => q \notin victims'
      BY <2>2, <2>3 DEF IInv, Placed
    <3>2. \A q \in Requests : Holds(q)' => ~Listed(srv[q])' /\ srv'[q] \notin victims'
      <4>1. ASSUME NEW q \in Requests, Holds(q)', q # r
            PROVE  srv'[q] = srv[q] /\ srv[q] \in Ports /\ ~Listed(srv[q]) /\ srv[q] \notin victims
        BY <1>b, <2>2, <4>1 DEF IInv, Placed
      <4>2. srv'[r] = p
        BY <2>2
      <4> QED
        BY <2>1, <2>2, <2>3, <2>4, <4>1, <4>2 DEF Listed
    <3>3. \A q, t \in Requests : Holds(q)' /\ Holds(t)' /\ srv'[q] = srv'[t] => q = t
      BY <2>2, <2>4 DEF IInv, Placed
    <3>4. ASSUME phase' # "exited", NEW q \in running'
          PROVE  \/ Listed(q)' \/ q \in victims'
                 \/ \E t \in Requests : Holds(t)' /\ srv'[t] = q
      BY <1>b, <2>2, <2>3, <3>4 DEF IInv, Placed
    <3> QED
      BY <2>3, <3>1, <3>2, <3>3, <3>4 DEF Placed
  <2> QED
    BY <1>a, <2>6, <2>7 DEF IInv
<1>6. ASSUME NEW r \in Requests, Healthy(r) PROVE IInv'
  <2>1. PICK p \in Ports : p = srv[r]
    BY <1>6, <1>b DEF Healthy, Holds
  <2>2. /\ Holds(r) /\ replicas' = Append(replicas, p)
        /\ UNCHANGED <<victims, phase, running, nextPort, srv>>
        /\ \A q \in Requests : Holds(q)' <=> Holds(q) /\ q # r
    BY <1>6, <1>b, <2>1 DEF Healthy, Goto, Holds, exitVars
  <2>3. ~Listed(p) /\ Distinct /\ p \notin victims /\ p < nextPort
    BY <2>1, <2>2 DEF IInv, Placed, Fresh
  <2>4. Distinct' /\ \A q \in Ports : Listed(q)' <=> Listed(q) \/ q = p
    BY <1>b, <2>2, <2>3, AfterRecord
  <2>5. Fresh'
    BY <1>b, <2>2, <2>3, <2>4 DEF IInv, Fresh
  <2>6. Placed'
    BY <1>b, <2>1, <2>2, <2>3, <2>4 DEF IInv, Placed
  <2> QED
    BY <1>a, <2>5, <2>6 DEF IInv
<1>7. ASSUME NEW r \in Requests, Unhealthy(r) \/ Kill(r) PROVE IInv'
  <2>1. PICK p \in Ports : p = srv[r]
    BY <1>7, <1>b DEF Unhealthy, Kill, Holds
  <2>2. /\ Holds(r) /\ running' = running \ {p}
        /\ UNCHANGED <<replicas, victims, phase, nextPort, srv>>
        /\ \A q \in Requests : Holds(q)' <=> Holds(q) /\ q # r
    BY <1>7, <1>b, <2>1 DEF Unhealthy, Kill, Die, Goto, Reply, Holds, exitVars
  <2>3. Distinct' /\ \A q \in Ports : Listed(q)' <=> Listed(q)
    BY <2>2 DEF IInv, Placed, Distinct, Listed
  <2>4. Fresh'
    BY <1>b, <2>2, <2>3 DEF IInv, Fresh
  <2>5. Placed'
    BY <1>b, <2>1, <2>2, <2>3 DEF IInv, Placed
  <2> QED
    BY <1>a, <2>4, <2>5 DEF IInv
<1>8. ASSUME NEW r \in Requests, StopLast(r) PROVE IInv'
  <2>1. CASE UNCHANGED <<replicas, srv>> /\ Reply(r, TRUE)
    <3>1. \A q \in Requests : Holds(q)' <=> Holds(q)
      BY <1>8, <1>b, <2>1 DEF StopLast, Goto, Reply, Holds
    <3> QED
      BY <1>8, <1>a, <1>b, <2>1, <3>1, Frame DEF StopLast, exitVars
  <2>2. ASSUME NEW i \in 1..Len(replicas), srv' = [srv EXCEPT ![r] = replicas[i]],
               replicas' = Without(i), Goto(r, "kill")
        PROVE  IInv'
    <3>1. PICK p \in Ports : p = replicas[i]
      BY <1>b, WithoutType
    <3>2. /\ ~Holds(r) /\ UNCHANGED <<victims, phase, running, nextPort>>
          /\ \A q \in Requests : /\ Holds(q)' <=> Holds(q) \/ q = r
                                 /\ srv'[q] = IF q = r THEN p ELSE srv[q]
      BY <1>8, <1>b, <2>2, <3>1 DEF StopLast, Goto, Holds, exitVars
    <3>3. Listed(p) /\ p \notin victims /\ p < nextPort /\ \A q \in Requests : Holds(q) => srv[q] # p
      BY <3>1 DEF IInv, Placed, Fresh, Listed
    <3>4. Distinct' /\ \A q \in Ports : Listed(q)' <=> Listed(q) /\ q # p
      BY <1>b, <2>2, <3>1, AfterStop DEF IInv, Placed
    <3>5. Fresh'
      BY <1>b, <3>2, <3>3, <3>4 DEF IInv, Fresh
    <3>6. Placed'
      <4>1. \A q \in Ports : Listed(q)' => q \notin victims'
        BY <3>2, <3>4 DEF IInv, Placed
      <4>2. \A q \in Requests : Holds(q)' => ~Listed(srv[q])' /\ srv'[q] \notin victims'
        <5>1. ASSUME NEW q \in Requests, Holds(q)', q # r
              PROVE  srv'[q] = srv[q] /\ srv[q] \in Ports /\ ~Listed(srv[q]) /\ srv[q] \notin victims
          BY <1>b, <3>2, <5>1 DEF IInv, Placed
        <5>2. srv'[r] = p
          BY <3>2
        <5> QED
          BY <3>1, <3>2, <3>3, <3>4, <5>1, <5>2 DEF Listed
      <4>3. \A q, t \in Requests : Holds(q)' /\ Holds(t)' /\ srv'[q] = srv'[t] => q = t
        BY <3>2, <3>3 DEF IInv, Placed
      <4>4. ASSUME phase' # "exited", NEW q \in running'
            PROVE  \/ Listed(q)' \/ q \in victims'
                   \/ \E t \in Requests : Holds(t)' /\ srv'[t] = q
        BY <1>b, <3>2, <3>4, <4>4 DEF IInv, Placed
      <4> QED
        BY <3>4, <4>1, <4>2, <4>3, <4>4 DEF Placed
    <3> QED
      BY <1>a, <3>5, <3>6 DEF IInv
  <2> QED
    BY <1>8, <2>1, <2>2 DEF StopLast, OfPool, Without
<1>9. ASSUME NEW r \in Requests, Done(r) PROVE IInv'
  <2>1. \A q \in Requests : /\ Holds(q)' <=> Holds(q)
                            /\ Holds(q) => srv'[q] = srv[q]
    BY <1>9, <1>b DEF Done, Goto, Holds
  <2> QED
    BY <1>9, <1>a, <1>b, <2>1, Frame DEF Done, fleetVars, exitVars
<1>10. ASSUME NEW r \in Requests, NEW v \in Voices, Replay(r, v) PROVE IInv'
  BY <1>10, <1>a, <1>b, Frame DEF Replay, Holds, fleetVars, exitVars
<1>11. ASSUME NEW r \in Requests, NEW v \in Voices, UploadVoice(r, v) PROVE IInv'
  <2>1. \A q \in Requests : Holds(q)' <=> Holds(q)
    BY <1>11, <1>b DEF UploadVoice, Goto, Holds
  <2> QED
    BY <1>11, <1>a, <1>b, <2>1, Frame DEF UploadVoice, fleetVars, exitVars
<1>12. ASSUME NEW r \in Requests, NEW s \in Servers, NEW taken \in BOOLEAN, UploadTo(r, s, taken)
       PROVE  IInv'
  BY <1>12, <1>a, <1>b, Frame DEF UploadTo, Holds, fleetVars, exitVars
<1>13. ASSUME NEW s \in Servers, Crash(s) \/ Evict(s) PROVE IInv'
  BY <1>13, <1>a, <1>b, Frame DEF Crash, Evict, Die, Holds, exitVars, adminVars
<1>14. ASSUME NEW s \in Servers, KillVictim(s) PROVE IInv'
  <2>1. /\ victims' = victims \ {s} /\ running' = running \ {s} /\ phase # "up"
        /\ UNCHANGED <<replicas, phase, nextPort, pc, srv>>
    BY <1>14 DEF KillVictim, Die, adminVars, IInv, Fresh
  <2>2. Distinct' /\ (\A q \in Ports : Listed(q)' <=> Listed(q)) /\ \A q \in Requests : Holds(q)' <=> Holds(q)
    BY <2>1 DEF IInv, Placed, Distinct, Listed, Holds
  <2>3. Fresh' /\ Placed'
    BY <1>b, <2>1, <2>2 DEF IInv, Fresh, Placed
  <2> QED
    BY <1>a, <2>3 DEF IInv
<1>15. ASSUME Shutdown \/ Sweep PROVE IInv'
  <2>1. /\ victims' = Managed /\ replicas' = <<>> /\ phase' \in {"stopping", "sweeping"}
        /\ victims = {} /\ phase # "exited"
        /\ UNCHANGED <<running, nextPort, pc, srv>>
    BY <1>15 DEF Shutdown, Sweep, StopAll, adminVars, IInv, Fresh
  <2>2. \A q \in Ports : q \in Managed <=> Listed(q)
    BY DEF Managed, Listed
  <2>3. Managed \subseteq Ports
    BY <1>a, <2>1 DEF TypeInv, TypeOK
  <2>4. Distinct' /\ (\A q \in Ports : ~Listed(q)') /\ \A q \in Requests : Holds(q)' <=> Holds(q)
    BY <2>1, EmptySeq DEF Distinct, Listed, Holds
  <2>5. Fresh'
    BY <1>b, <2>1, <2>2, <2>3, <2>4 DEF IInv, Fresh
  <2>6. ASSUME NEW q \in Requests, Holds(q)' PROVE ~Listed(srv[q])' /\ srv[q] \notin Managed
    BY <1>b, <2>1, <2>2, <2>4, <2>6 DEF IInv, Placed
  <2>7. ASSUME NEW q \in running'
        PROVE  q \in Managed \/ \E t \in Requests : Holds(t)' /\ srv'[t] = q
    <3>1. q \in Ports /\ q \in running /\ phase # "exited"
      BY <1>b, <2>1, <2>7
    <3>2. Listed(q) \/ \E t \in Requests : Holds(t) /\ srv[t] = q
      BY <2>1, <3>1 DEF IInv, Placed
    <3> QED
      BY <2>1, <2>2, <2>4, <3>1, <3>2
  <2>8. \A q, t \in Requests : Holds(q)' /\ Holds(t)' /\ srv'[q] = srv'[t] => q = t
    BY <2>1, <2>4 DEF IInv, Placed
  <2>9. Placed'
    BY <2>1, <2>4, <2>6, <2>7, <2>8 DEF Placed
  <2> QED
    BY <1>a, <2>5, <2>9 DEF IInv
<1>16. ASSUME Exit PROVE IInv'
  <2>1. /\ phase' = "exited" /\ UNCHANGED <<replicas, victims, running, nextPort>>
        /\ \A q \in Requests : ~Holds(q)'
    BY <1>16 DEF Exit, Holds, fleetVars
  <2>2. Distinct' /\ \A q \in Ports : Listed(q)' <=> Listed(q)
    BY <2>1 DEF IInv, Placed, Distinct, Listed
  <2>3. Fresh' /\ Placed'
    BY <2>1, <2>2 DEF IInv, Fresh, Placed
  <2> QED
    BY <1>a, <2>3 DEF IInv
<1>17. CASE UNCHANGED vars
  BY <1>17, <1>a, <1>b, Frame DEF vars, Holds, fleetVars, exitVars, adminVars
<1> QED
  BY <1>2, <1>3, <1>4, <1>5, <1>6, <1>7, <1>8, <1>9, <1>10, <1>11, <1>12, <1>13, <1>14, <1>15,
     <1>16, <1>17 DEF Next, AdminStep, UploadStep

LEMMA IInvAlways == Spec => []IInv
  BY IInvInit, IInvStep, PTL DEF Spec

\* While the node runs, every server process that is alive is on the list, in the
\* hands of the request that starts or stops it, or about to be shut down.
THEOREM NoStrayAlways == Spec => []NoStray
<1>1. IInv => NoStray
  <2>1. SUFFICES ASSUME IInv, phase # "exited", NEW p \in running
                 PROVE  p \in Managed \cup victims \cup UNION {InHand(r) : r \in Requests}
    BY DEF NoStray
  <2>2. Listed(p) => p \in Managed
    BY DEF Listed, Managed
  <2>3. ASSUME NEW r \in Requests, Holds(r), srv[r] = p PROVE p \in InHand(r)
    BY <2>3 DEF Holds, InHand
  <2> QED
    BY <2>1, <2>2, <2>3 DEF IInv, Placed
<1> QED
  BY <1>1, IInvAlways, PTL

\* No server is stopped by two requests, stopped by one and by a sweep of the shutdown
\* too, or recorded by one request while another one stops it: also not when the second
\* sweep takes the list beside requests that are still in progress.
THEOREM StoppedOnceAlways == Spec => []StoppedOnce
<1>1. IInv => StoppedOnce
  <2>1. SUFFICES ASSUME IInv PROVE StoppedOnce
    OBVIOUS
  <2>2. \A i \in 1..Len(replicas) : replicas[i] \in Ports
    BY <2>1, LenProperties DEF IInv, TypeInv, TypeOK
  <2>3. \A p \in Managed : p \in Ports /\ Listed(p)
    BY <2>2 DEF Managed, Listed
  <2>4. \A r \in Requests : \A p \in InHand(r) : Holds(r) /\ p = srv[r]
    BY DEF InHand, Holds
  <2>5. Managed \cap victims = {}
    BY <2>1, <2>3 DEF IInv, Placed
  <2>6. \A r \in Requests : InHand(r) \cap (Managed \cup victims) = {}
    BY <2>1, <2>3, <2>4 DEF IInv, Placed
  <2>7. \A r, q \in Requests : r # q => InHand(r) \cap InHand(q) = {}
    BY <2>1, <2>4 DEF IInv, Placed
  <2> QED
    BY <2>1, <2>5, <2>6, <2>7 DEF StoppedOnce, IInv, Placed, Distinct
<1> QED
  BY <1>1, IInvAlways, PTL

-----------------------------------------------------------------------------
(***************************************************************************)
(* Requests that do not overlap: the cap is kept, n replicas are asked for *)
(* and n are there, and the pools hand out managed servers only.           *)
(*                                                                         *)
(* As long as requests did not overlap only one of them is in progress     *)
(* (Solo), so what it read is still true when it acts: the list has room   *)
(* for what it still starts (Budget), its loop variable follows the number *)
(* of the pool's replicas (Tally), and the server it adds is on the list   *)
(* (Served).                                                               *)
(***************************************************************************)
Adding   == {"add", "provision", "replay"}
Stopping == {"kill", "remove"}

Solo == alone => \A r, q \in Requests : pc[r] # "idle" /\ pc[q] # "idle" => r = q

\* The replicas that request r has still to record.
Budget ==
    \A r \in Requests :
        /\ alone /\ pc[r] \in {"scale", "health"} /\ at[r] < want[r]
              => Len(replicas) + (want[r] - at[r]) <= MaxReplicas
        /\ alone /\ pc[r] \in Adding => Len(replicas) + (want[r] - at[r] - 1) <= MaxReplicas
        /\ pc[r] \in {"health"} \cup Adding => at[r] < want[r]
        /\ pc[r] \in Stopping => at[r] > want[r]

Cap == alone => Len(replicas) <= MaxReplicas

CapInv == TypeInv /\ Solo /\ Budget /\ Cap

-----------------------------------------------------------------------------
(***************************************************************************)
(* One request at a time.                                                  *)
(***************************************************************************)
LEMMA SoloStep == TypeInv /\ Solo /\ [Next]_vars => Solo'
<1> SUFFICES ASSUME TypeInv, Solo, [Next]_vars PROVE Solo'
  OBVIOUS
<1>1. pc \in [Requests -> Steps]
  BY DEF TypeInv, TypeOK
<1>2. ASSUME NEW r \in Requests, NEW step \in Steps, pc[r] # "idle", Goto(r, step), UNCHANGED alone
      PROVE  Solo'
  BY <1>1, <1>2 DEF Solo, Goto
<1>3. ASSUME NEW r \in Requests, NEW step \in Steps, alone' = (alone /\ Quiet), Goto(r, step)
      PROVE  Solo'
  BY <1>1, <1>3 DEF Solo, Goto, Quiet
<1>4. ASSUME UNCHANGED <<pc, alone>> PROVE Solo'
  BY <1>4 DEF Solo
<1>5. ASSUME NEW r \in Requests, AdminSet(r) \/ AdminDelete(r) PROVE Solo'
  BY <1>3, <1>5 DEF AdminSet, AdminDelete, Arrive, Steps
<1>6. ASSUME NEW r \in Requests, AdminStep(r) PROVE Solo'
  <2>1. ASSUME NEW v \in Voices, Replay(r, v) PROVE Solo'
    BY <1>4, <2>1 DEF Replay
  <2>2. CASE \/ ReadCount(r) \/ CheckCap(r) \/ ScaleDone(r) \/ CannotLaunch(r) \/ Launch(r)
             \/ Healthy(r) \/ Unhealthy(r) \/ AddMember(r)
    BY <1>2, <2>2 DEF ReadCount, CheckCap, ScaleDone, CannotLaunch, Launch, Healthy, Unhealthy,
       AddMember, Reply, Steps
  <2>3. CASE \/ Provision(r) \/ Replayed(r) \/ StopLast(r) \/ Kill(r) \/ RemoveMember(r) \/ Done(r)
    BY <1>2, <2>3 DEF Provision, Replayed, StopLast, Kill, RemoveMember, Done, Reply, Steps
  <2> QED
    BY <1>6, <2>1, <2>2, <2>3 DEF AdminStep
<1>7. ASSUME NEW r \in Requests, UploadStep(r) PROVE Solo'
  BY <1>2, <1>4, <1>7 DEF UploadStep, RememberVoice, UploadTo, Steps
<1>8. ASSUME NEW r \in Requests, NEW v \in Voices, UploadVoice(r, v) PROVE Solo'
  BY <1>3, <1>8 DEF UploadVoice, Steps
<1>9. ASSUME NEW s \in Servers, Crash(s) \/ Evict(s) \/ KillVictim(s) PROVE Solo'
  BY <1>4, <1>9 DEF Crash, Evict, KillVictim, adminVars
<1>10. CASE Shutdown \/ Sweep
  BY <1>4, <1>10 DEF Shutdown, Sweep, StopAll, adminVars
<1>11. CASE Exit
  BY <1>11 DEF Exit, Solo
<1>12. CASE UNCHANGED vars
  BY <1>4, <1>12 DEF vars, adminVars
<1> QED
  BY <1>5, <1>6, <1>7, <1>8, <1>9, <1>10, <1>11, <1>12 DEF Next

-----------------------------------------------------------------------------
(***************************************************************************)
(* The cap.                                                                *)
(***************************************************************************)
LEMMA CapInit == Init => CapInv
<1> SUFFICES ASSUME Init PROVE CapInv
  OBVIOUS
<1>1. Len(replicas) = 0 /\ \A r \in Requests : pc[r] = "idle"
  BY EmptySeq DEF Init
<1> QED
  BY <1>1, TypeInit DEF CapInv, Solo, Budget, Cap, Adding, Stopping

\* Steps that leave the list, or empty it, and only move requests to where nothing is
\* owed.
LEMMA CapFrame ==
    ASSUME CapInv, TypeInv', Solo', alone' => alone, Len(replicas') <= Len(replicas),
           \A r \in Requests : \/ pc'[r] \in {"idle", "count", "cap", "reply", "fan"}
                               \/ pc'[r] = pc[r] /\ at'[r] = at[r] /\ want'[r] = want[r]
    PROVE  CapInv'
<1>1. Len(replicas) \in Nat /\ Len(replicas') \in Nat
  BY LenProperties DEF CapInv, TypeInv, TypeOK
<1>2. Cap'
  BY <1>1 DEF CapInv, Cap
<1>3. ASSUME NEW r \in Requests PROVE at[r] \in Nat /\ want[r] \in Nat
  BY DEF CapInv, TypeInv, TypeOK
<1>4. Budget'
  BY <1>1, <1>3 DEF CapInv, Budget, Adding, Stopping
<1> QED
  BY <1>2, <1>4 DEF CapInv

LEMMA CapStep == CapInv /\ [Next]_vars => CapInv'
<1> SUFFICES ASSUME CapInv, [Next]_vars PROVE CapInv'
  OBVIOUS
<1>a. TypeInv' /\ Solo'
  BY TypeStep, SoloStep DEF CapInv
<1>b. /\ pc \in [Requests -> Steps] /\ at \in [Requests -> Nat] /\ want \in [Requests -> Nat]
      /\ replicas \in Seq(Ports) /\ Len(replicas) \in Nat
  BY LenProperties DEF CapInv, TypeInv, TypeOK
<1>c. ASSUME NEW r \in Requests, NEW step \in {"count", "fan"}, alone' = (alone /\ Quiet),
             Goto(r, step), UNCHANGED <<replicas, at>>,
             \A q \in Requests \ {r} : want'[q] = want[q]
      PROVE  CapInv'
  <2>1. alone' => alone
    BY <1>c
  <2>2. \A q \in Requests : \/ pc'[q] \in {"idle", "count", "cap", "reply", "fan"}
                            \/ pc'[q] = pc[q] /\ at'[q] = at[q] /\ want'[q] = want[q]
    BY <1>b, <1>c DEF Goto
  <2> QED
    BY <1>a, <1>b, <1>c, <2>1, <2>2, CapFrame
<1>1. ASSUME NEW r \in Requests, AdminSet(r) \/ AdminDelete(r) PROVE CapInv'
  <2>1. PICK k \in Pools, n \in Int : Arrive(r, k, n)
    BY <1>1, AdminArrives DEF CapInv, TypeInv
  <2> QED
    BY <1>b, <1>c, <2>1 DEF Arrive, fleetVars
<1>2. ASSUME NEW r \in Requests,
             ReadCount(r) \/ ScaleDone(r) \/ CannotLaunch(r) \/ Unhealthy(r) \/ Done(r)
      PROVE  CapInv'
  BY <1>2, <1>a, <1>b, CapFrame
     DEF ReadCount, ScaleDone, CannotLaunch, Unhealthy, Done, Goto, Reply, fleetVars
<1>3. ASSUME NEW r \in Requests, CheckCap(r) PROVE CapInv'
  <2>1. CASE Reply(r, FALSE)
    BY <1>3, <1>a, <1>b, <2>1, CapFrame DEF CheckCap, Goto, Reply, fleetVars
  <2>2. CASE Goto(r, "scale") /\ ~(want[r] > at[r] /\ Total + (want[r] - at[r]) > MaxReplicas)
    BY <1>3, <1>a, <1>b, <2>2 DEF CheckCap, Goto, Total, fleetVars, CapInv, Budget, Cap, Adding, Stopping
  <2> QED
    BY <1>3, <2>1, <2>2 DEF CheckCap
<1>4. ASSUME NEW r \in Requests, Launch(r) PROVE CapInv'
  BY <1>4, <1>a, <1>b DEF Launch, Goto, CapInv, Budget, Cap, Adding, Stopping
<1>5. ASSUME NEW r \in Requests, Healthy(r) PROVE CapInv'
  <2>1. Len(replicas') = Len(replicas) + 1
    BY <1>5, <1>a, <1>b, AppendProperties DEF Healthy, CapInv, TypeInv, Bound
  <2>2. /\ pc[r] = "health" /\ pc' = [pc EXCEPT ![r] = "add"]
        /\ UNCHANGED <<at, want, alone>>
    BY <1>5 DEF Healthy, Goto
  <2>3. \A q \in Requests : alone' /\ q # r => pc'[q] = "idle"
    BY <1>a, <1>b, <2>2 DEF Solo
  <2>4. Cap'
    BY <1>b, <2>1, <2>2 DEF CapInv, Budget, Cap
  <2>5. Budget'
    BY <1>b, <2>1, <2>2, <2>3 DEF CapInv, Budget, Adding, Stopping
  <2> QED
    BY <1>a, <2>4, <2>5 DEF CapInv
<1>6. ASSUME NEW r \in Requests, AddMember(r) \/ Replayed(r) PROVE CapInv'
  <2>1. /\ pc[r] \in Adding /\ UNCHANGED <<replicas, want, alone>>
        /\ \/ pc' = [pc EXCEPT ![r] = "provision"] /\ UNCHANGED at
           \/ pc' = [pc EXCEPT ![r] = "scale"] /\ at' = [at EXCEPT ![r] = at[r] + 1]
    BY <1>6 DEF AddMember, Replayed, Goto, Adding, fleetVars
  <2> QED
    BY <1>a, <1>b, <2>1 DEF CapInv, Budget, Cap, Adding, Stopping
<1>7. ASSUME NEW r \in Requests, Provision(r) PROVE CapInv'
  BY <1>7, <1>a, <1>b DEF Provision, Goto, fleetVars, CapInv, Budget, Cap, Adding, Stopping
<1>8. ASSUME NEW r \in Requests, NEW v \in Voices, Replay(r, v) PROVE CapInv'
  BY <1>8, <1>a, <1>b, CapFrame DEF Replay, fleetVars
<1>9. ASSUME NEW r \in Requests, StopLast(r) PROVE CapInv'
  <2>1. CASE UNCHANGED <<replicas, srv>> /\ Reply(r, TRUE)
    BY <1>9, <1>a, <1>b, <2>1, CapFrame DEF StopLast, Goto, Reply
  <2>2. ASSUME NEW i \in 1..Len(replicas), replicas' = Without(i), Goto(r, "kill") PROVE CapInv'
    <3>1. Len(replicas') = Len(replicas) - 1
      BY <2>2, WithoutType DEF CapInv, TypeInv
    <3>2. pc[r] = "scale" /\ at[r] > want[r] /\ UNCHANGED <<at, want, alone>>
      BY <1>9 DEF StopLast
    <3> QED
      BY <1>a, <1>b, <2>2, <3>1, <3>2 DEF Goto, CapInv, Budget, Cap, Adding, Stopping
  <2> QED
    BY <1>9, <2>1, <2>2 DEF StopLast, OfPool, Without
<1>10. ASSUME NEW r \in Requests, Kill(r) PROVE CapInv'
  BY <1>10, <1>a, <1>b DEF Kill, Goto, CapInv, Budget, Cap, Adding, Stopping
<1>11. ASSUME NEW r \in Requests, RemoveMember(r) PROVE CapInv'
  BY <1>11, <1>a, <1>b DEF RemoveMember, Goto, CapInv, Budget, Cap, Adding, Stopping
<1>12. ASSUME NEW r \in Requests, UploadStep(r) PROVE CapInv'
  BY <1>12, <1>a, <1>b, CapFrame DEF UploadStep, RememberVoice, UploadTo, Goto, fleetVars
<1>13. ASSUME NEW r \in Requests, NEW v \in Voices, UploadVoice(r, v) PROVE CapInv'
  BY <1>c, <1>13 DEF UploadVoice, fleetVars
<1>14. ASSUME NEW s \in Servers, Crash(s) \/ Evict(s) \/ KillVictim(s) PROVE CapInv'
  BY <1>14, <1>a, <1>b, CapFrame DEF Crash, Evict, KillVictim, adminVars
<1>15. CASE Shutdown \/ Sweep
  <2>1. Len(replicas') = 0
    BY <1>15, EmptySeq DEF Shutdown, Sweep, StopAll
  <2> QED
    BY <1>15, <1>a, <1>b, <2>1, CapFrame DEF Shutdown, Sweep, StopAll, adminVars
<1>16. CASE Exit
  BY <1>16, <1>a, <1>b, CapFrame DEF Exit, fleetVars
<1>17. CASE UNCHANGED vars
  BY <1>17, <1>a, <1>b, CapFrame DEF vars, adminVars, fleetVars
<1> QED
  BY <1>1, <1>2, <1>3, <1>4, <1>5, <1>6, <1>7, <1>8, <1>9, <1>10, <1>11, <1>12, <1>13, <1>14,
     <1>15, <1>16, <1>17 DEF Next, AdminStep

LEMMA CapInvAlways == Spec => []CapInv
  BY CapInit, CapStep, PTL DEF Spec

\* Requests that never overlap keep the admission cap on managed replicas
\* (SetReplicas), whatever fails, crashes or is shut down.
THEOREM CapKept == Spec => []CapKeptAlone
<1>1. CapInv => CapKeptAlone
  BY DEF CapInv, Cap, CapKeptAlone, Total
<1> QED
  BY <1>1, CapInvAlways, PTL

-----------------------------------------------------------------------------
(***************************************************************************)
(* New servers.  Ports are not given twice, so a launch changes the pool   *)
(* of no server that is in use.                                            *)
(***************************************************************************)
Young ==
    /\ \A p \in members \cap Ports : p < nextPort
    /\ \A r \in Requests :
          pc[r] \in {"health"} \cup Adding => srv[r] < nextPort /\ poolOf[srv[r]] = pool[r]

BaseInv == IInv /\ Solo /\ Young

\* Steps that launch no server and add none to a pool.
LEMMA YoungFrame ==
    ASSUME BaseInv, nextPort' >= nextPort, nextPort' \in Int, poolOf' = poolOf,
           members' \subseteq members,
           \A r \in Requests : pc'[r] \in {"health"} \cup Adding =>
               /\ pc[r] \in {"health"} \cup Adding
               /\ srv'[r] = srv[r] /\ pool'[r] = pool[r]
    PROVE  Young'
<1>1. nextPort \in Int /\ Ports \subseteq Int
  BY DEF BaseInv, IInv, TypeInv, TypeOK, Ports
<1>2. \A p \in Int : p < nextPort => p < nextPort'
  BY <1>1
<1>3. \A r \in Requests : pc[r] \in {"health"} \cup Adding => srv[r] \in Ports
  BY DEF BaseInv, IInv, TypeInv, Bound, Adding
<1>4. \A p \in members' \cap Ports : p < nextPort'
  BY <1>1, <1>2 DEF BaseInv, Young
<1>5. ASSUME NEW r \in Requests, pc'[r] \in {"health"} \cup Adding
      PROVE  srv'[r] < nextPort' /\ poolOf'[srv'[r]] = pool'[r]
  BY <1>1, <1>2, <1>3, <1>5 DEF BaseInv, Young
<1> QED
  BY <1>4, <1>5 DEF Young

LEMMA YoungStep == BaseInv /\ [Next]_vars => Young'
<1> SUFFICES ASSUME BaseInv, [Next]_vars PROVE Young'
  OBVIOUS
<1>a. /\ pc \in [Requests -> Steps] /\ srv \in [Requests -> Ports \cup {NoServer}]
      /\ pool \in [Requests -> Pools] /\ poolOf \in [Ports -> Pools]
      /\ nextPort \in Int /\ nextPort \in 1..(MaxPort + 1) /\ Ports \subseteq Int
  BY DEF BaseInv, IInv, TypeInv, TypeOK, Ports
<1>b. nextPort >= nextPort
  BY <1>a
<1> USE <1>a, <1>b DEF Goto, Reply, Adding
<1>1. ASSUME NEW r \in Requests, AdminSet(r) \/ AdminDelete(r) PROVE Young'
  BY <1>1, YoungFrame DEF AdminSet, AdminDelete, Arrive, fleetVars
<1>2. ASSUME NEW r \in Requests, ReadCount(r) \/ CheckCap(r) \/ ScaleDone(r) PROVE Young'
  BY <1>2, YoungFrame DEF ReadCount, CheckCap, ScaleDone, fleetVars
<1>3. ASSUME NEW r \in Requests, CannotLaunch(r) PROVE Young'
  <2>1. nextPort' >= nextPort /\ nextPort' \in Int
    BY <1>3 DEF CannotLaunch
  <2> QED
    BY <1>3, <2>1, YoungFrame DEF CannotLaunch
<1>4. ASSUME NEW r \in Requests, Launch(r) PROVE Young'
  <2>1. PICK p \in Ports : p = nextPort
    BY <1>4 DEF Launch, Ports
  <2>2. /\ nextPort' = p + 1 /\ poolOf' = [poolOf EXCEPT ![p] = pool[r]]
        /\ srv' = [srv EXCEPT ![r] = p] /\ pc' = [pc EXCEPT ![r] = "health"]
        /\ UNCHANGED <<members, pool>>
    BY <1>4, <2>1 DEF Launch
  <2>3. \A q \in Ports : q < p => q < p + 1 /\ q # p
    OBVIOUS
  <2>4. \A q \in Requests : pc[q] \in {"health"} \cup Adding => srv[q] \in Ports
    BY DEF BaseInv, IInv, TypeInv, Bound
  <2>5. p < p + 1
    BY <2>1
  <2>6. \A q \in members' \cap Ports : q < nextPort'
    BY <2>1, <2>2, <2>3 DEF BaseInv, Young
  <2>7. ASSUME NEW q \in Requests, q # r, pc'[q] \in {"health"} \cup Adding
        PROVE  srv'[q] < nextPort' /\ poolOf'[srv'[q]] = pool'[q]
    <3>1. srv'[q] = srv[q] /\ pc[q] \in {"health"} \cup Adding
      BY <2>2, <2>7
    <3>2. srv[q] \in Ports /\ srv[q] < p /\ poolOf[srv[q]] = pool[q]
      BY <2>1, <2>4, <3>1 DEF BaseInv, Young
    <3> QED
      BY <2>2, <2>3, <3>1, <3>2
  <2>8. srv'[r] < nextPort' /\ poolOf'[srv'[r]] = pool'[r]
    BY <2>1, <2>2, <2>5
  <2> QED
    BY <2>6, <2>7, <2>8 DEF Young
<1>5. ASSUME NEW r \in Requests, Healthy(r) \/ Unhealthy(r) PROVE Young'
  BY <1>5, YoungFrame DEF Healthy, Unhealthy
<1>6. ASSUME NEW r \in Requests, AddMember(r) PROVE Young'
  <2>1. /\ members' = members \cup {srv[r]} /\ pc[r] = "add"
        /\ \A q \in Requests \ {r} : pc'[q] = pc[q]
        /\ UNCHANGED <<nextPort, poolOf, pool, srv>>
    BY <1>6 DEF AddMember
  <2> QED
    BY <2>1 DEF BaseInv, Young
<1>7. ASSUME NEW r \in Requests, Provision(r) \/ Replayed(r) PROVE Young'
  BY <1>7, YoungFrame DEF Provision, Replayed, fleetVars
<1>8. ASSUME NEW r \in Requests, NEW v \in Voices, Replay(r, v) PROVE Young'
  BY <1>8, YoungFrame DEF Replay, fleetVars
<1>9. ASSUME NEW r \in Requests, StopLast(r) PROVE Young'
  <2>1. \A q \in Requests \ {r} : pc'[q] = pc[q] /\ srv'[q] = srv[q]
    BY <1>9 DEF StopLast
  <2>2. pc'[r] \in {"reply", "kill"}
    BY <1>9 DEF StopLast
  <2> QED
    BY <1>9, <2>1, <2>2, YoungFrame DEF StopLast
<1>10. ASSUME NEW r \in Requests, Kill(r) \/ RemoveMember(r) PROVE Young'
  BY <1>10, YoungFrame DEF Kill, RemoveMember
<1>11. ASSUME NEW r \in Requests, Done(r) PROVE Young'
  BY <1>11, YoungFrame DEF Done, fleetVars
<1>12. ASSUME NEW r \in Requests, UploadStep(r) PROVE Young'
  BY <1>12, YoungFrame DEF UploadStep, RememberVoice, UploadTo, fleetVars
<1>13. ASSUME NEW r \in Requests, NEW v \in Voices, UploadVoice(r, v) PROVE Young'
  BY <1>13, YoungFrame DEF UploadVoice, fleetVars
<1>14. ASSUME NEW s \in Servers, Crash(s) \/ Evict(s) \/ KillVictim(s) PROVE Young'
  BY <1>14, YoungFrame DEF Crash, Evict, KillVictim, adminVars
<1>15. CASE Shutdown \/ Sweep
  BY <1>15, YoungFrame DEF Shutdown, Sweep, StopAll, adminVars
<1>16. CASE Exit
  BY <1>16, YoungFrame DEF Exit, fleetVars
<1>17. CASE UNCHANGED vars
  BY <1>17, YoungFrame DEF vars, adminVars, fleetVars
<1> QED
  BY <1>1, <1>2, <1>3, <1>4, <1>5, <1>6, <1>7, <1>8, <1>9, <1>10, <1>11, <1>12, <1>13, <1>14,
     <1>15, <1>16, <1>17 DEF Next, AdminStep

LEMMA BaseInit == Init => BaseInv
<1> SUFFICES ASSUME Init PROVE BaseInv
  OBVIOUS
<1>1. members \cap Ports = {} /\ \A r \in Requests : pc[r] = "idle"
  BY DEF Init, Ports
<1> QED
  BY <1>1, IInvInit DEF BaseInv, Solo, Young, Adding

LEMMA BaseStep == BaseInv /\ [Next]_vars => BaseInv'
  BY IInvStep, SoloStep, YoungStep DEF BaseInv, IInv

-----------------------------------------------------------------------------
(***************************************************************************)
(* Counting a pool's replicas.                                             *)
(***************************************************************************)
LEMMA OfPoolType ==
    ASSUME TypeOK, NEW k \in Pools
    PROVE  IsFiniteSet(OfPool(k)) /\ Count(k) = Cardinality(OfPool(k)) /\ Count(k) \in Nat
<1>1. Len(replicas) \in Nat
  BY LenProperties DEF TypeOK
<1>2. IsFiniteSet(OfPool(k))
  <2>1. IsFiniteSet(1..Len(replicas)) /\ OfPool(k) \subseteq 1..Len(replicas)
    BY <1>1, FS_Interval DEF OfPool
  <2> QED
    BY <2>1, FS_Subset
<1> QED
  BY <1>2, FS_CardinalityType DEF OfPool, Count

\* The list and the pools of its servers stay.
LEMMA CountSame ==
    ASSUME TypeOK, NEW k \in Pools, UNCHANGED replicas,
           \A i \in 1..Len(replicas) : poolOf'[replicas[i]] = poolOf[replicas[i]]
    PROVE  Count(k)' = Count(k)
<1>1. OfPool(k)' = OfPool(k)
  BY DEF OfPool
<1> QED
  BY <1>1 DEF OfPool, Count

\* The list gets a server of the pool.
LEMMA CountRecord ==
    ASSUME TypeOK, NEW k \in Pools, NEW p \in Ports, replicas' = Append(replicas, p),
           UNCHANGED poolOf, poolOf[p] = k
    PROVE  Count(k)' = Count(k) + 1
<1>1. /\ Len(replicas) \in Nat /\ Len(replicas') = Len(replicas) + 1
      /\ replicas'[Len(replicas) + 1] = p
      /\ \A i \in 1..Len(replicas) : replicas'[i] = replicas[i]
  BY AppendProperties, LenProperties DEF TypeOK
<1>2. 1..Len(replicas') = 1..Len(replicas) \cup {Len(replicas) + 1}
  BY <1>1
<1>3. OfPool(k)' = OfPool(k) \cup {Len(replicas) + 1}
  BY <1>1, <1>2 DEF OfPool
<1>4. Len(replicas) + 1 \notin OfPool(k)
  BY <1>1 DEF OfPool
<1>5. Cardinality(OfPool(k)') = Cardinality(OfPool(k)) + 1
  <2>1. IsFiniteSet(OfPool(k))
    BY OfPoolType
  <2>2. Cardinality(OfPool(k) \cup {Len(replicas) + 1}) = Cardinality(OfPool(k)) + 1
    BY <1>4, <2>1, FS_AddElement
  <2> QED
    BY <1>3, <2>2
<1> QED
  BY <1>5, OfPoolType DEF OfPool, Count

\* The list loses a server of the pool.
LEMMA CountStop ==
    ASSUME TypeOK, NEW k \in Pools, NEW i \in OfPool(k), replicas' = Without(i), UNCHANGED poolOf
    PROVE  Count(k)' = Count(k) - 1
<1> DEFINE old(j) == IF j < i THEN j ELSE j + 1
<1> DEFINE T == OfPool(k) \ {i}
<1> DEFINE f == [j \in OfPool(k)' |-> old(j)]
<1>1. i \in 1..Len(replicas) /\ Len(replicas) \in Nat /\ Len(replicas') = Len(replicas) - 1
  BY WithoutType, LenProperties DEF TypeOK, OfPool
<1>2. \A j \in 1..Len(replicas') : replicas'[j] = replicas[old(j)]
  BY <1>1 DEF Without
<1>3. \A j \in 1..Len(replicas') : old(j) \in 1..Len(replicas) /\ old(j) # i
  BY <1>1
<1>4. \A j \in OfPool(k)' : j \in 1..Len(replicas') /\ f[j] = old(j) /\ f[j] \in T
  BY <1>2, <1>3 DEF OfPool
<1>5. \A j, l \in OfPool(k)' : f[j] = f[l] => j = l
  <2>1. \A j, l \in 1..Len(replicas') : old(j) = old(l) => j = l
    BY <1>1
  <2> QED
    BY <1>4, <2>1
<1>6. ASSUME NEW t \in T PROVE \E j \in OfPool(k)' : f[j] = t
  <2>1. t \in 1..Len(replicas) /\ t # i /\ poolOf[replicas[t]] = k
    BY <1>6 DEF OfPool
  <2>2. PICK j \in 1..Len(replicas') : old(j) = t
    <3>1. CASE t < i
      BY <1>1, <2>1, <3>1
    <3>2. CASE t > i
      <4>1. t - 1 \in 1..Len(replicas') /\ old(t - 1) = t
        BY <1>1, <2>1, <3>2
      <4> QED
        BY <4>1
    <3> QED
      BY <1>1, <2>1, <3>1, <3>2
  <2>3. j \in OfPool(k)'
    BY <1>2, <2>1, <2>2 DEF OfPool
  <2> QED
    BY <1>4, <2>2, <2>3
<1>7. f \in Bijection(OfPool(k)', T)
  <2> HIDE DEF f, T
  <2>1. DOMAIN f = OfPool(k)' /\ f = [j \in OfPool(k)' |-> f[j]]
    BY DEF f
  <2>2. f \in [OfPool(k)' -> T]
    BY <1>4, <2>1
  <2>3. f \in Injection(OfPool(k)', T)
    BY <1>5, <2>1, <2>2 DEF Injection, IsInjective
  <2>4. f \in Surjection(OfPool(k)', T)
    BY <1>6, <2>2 DEF Surjection
  <2> QED
    BY <2>3, <2>4 DEF Bijection
<1>8. IsFiniteSet(T) /\ Cardinality(T) = Cardinality(OfPool(k)) - 1
  <2>1. IsFiniteSet(OfPool(k))
    BY OfPoolType
  <2> QED
    BY <2>1, FS_RemoveElement
<1>9. IsFiniteSet(OfPool(k)')
  <2>1. Len(replicas') \in Int
    BY <1>1
  <2>2. IsFiniteSet(1..Len(replicas'))
    BY <2>1, FS_Interval
  <2>3. OfPool(k)' \subseteq 1..Len(replicas')
    BY DEF OfPool
  <2> QED
    BY <2>2, <2>3, FS_Subset
<1>10. ExistsBijection(OfPool(k)', T)
  BY <1>7 DEF ExistsBijection
<1>11. Cardinality(T) = Cardinality(OfPool(k)')
  BY <1>9, <1>10, FS_Bijection
<1> QED
  BY <1>8, <1>11, OfPoolType DEF OfPool, Count

-----------------------------------------------------------------------------
(***************************************************************************)
(* The count that was asked for.                                           *)
(***************************************************************************)
Tally ==
    alone /\ phase = "up" =>
        \A r \in Requests :
            /\ pc[r] \in {"cap", "scale", "health"} => at[r] = Count(pool[r])
            /\ pc[r] \in Adding => at[r] + 1 = Count(pool[r])
            /\ pc[r] \in Stopping => at[r] = Count(pool[r]) + 1
            /\ pc[r] = "reply" /\ ok[r] => Count(pool[r]) = want[r]

\* As long as nothing overlapped, the step of request r leaves the others idle.
LEMMA OthersIdle ==
    ASSUME Solo', alone', NEW r \in Requests, pc'[r] # "idle", NEW q \in Requests, q # r
    PROVE  pc'[q] = "idle"
  BY DEF Solo

\* Steps that leave the lists and only move requests to where no count is owed.
LEMMA TallyFrame ==
    ASSUME TypeOK, Tally, alone' => alone, phase' = "up" => phase = "up",
           phase' = "up" => UNCHANGED <<replicas, poolOf>>,
           \A r \in Requests :
               \/ pc'[r] \in {"idle", "count", "fan"} \/ (pc'[r] = "reply" /\ ~ok'[r])
               \/ /\ pc'[r] = pc[r] /\ at'[r] = at[r] /\ want'[r] = want[r] /\ pool'[r] = pool[r]
                  /\ ok'[r] = ok[r]
    PROVE  Tally'
<1> SUFFICES ASSUME alone', phase' = "up" PROVE Tally'
  BY DEF Tally
<1>1. alone /\ phase = "up" /\ UNCHANGED <<replicas, poolOf>>
  OBVIOUS
<1>2. \A r \in Requests : pool[r] \in Pools
  BY DEF TypeOK
<1>3. \A k \in Pools : Count(k)' = Count(k)
  BY <1>1, CountSame
<1> QED
  BY <1>1, <1>2, <1>3 DEF Tally, Adding, Stopping

LEMMA TallyStep == BaseInv /\ Tally /\ [Next]_vars => Tally'
<1> SUFFICES ASSUME BaseInv, Tally, [Next]_vars PROVE Tally'
  OBVIOUS
<1>a. /\ pc \in [Requests -> Steps] /\ at \in [Requests -> Nat] /\ want \in [Requests -> Nat]
      /\ srv \in [Requests -> Ports \cup {NoServer}] /\ pool \in [Requests -> Pools]
      /\ ok \in [Requests -> BOOLEAN] /\ TypeOK
      /\ \A k \in Pools : Count(k) \in Nat
  BY OfPoolType DEF BaseInv, IInv, TypeInv, TypeOK
<1>b. Solo'
  BY BaseStep DEF BaseInv
<1> USE <1>a DEF Goto, Reply
<1>c. ASSUME NEW r \in Requests, NEW step \in {"count", "fan"}, alone' = (alone /\ Quiet),
             Goto(r, step), UNCHANGED <<replicas, poolOf, phase, at, ok>>,
             \A q \in Requests \ {r} : want'[q] = want[q] /\ pool'[q] = pool[q]
      PROVE  Tally'
  <2>1. alone' => alone
    BY <1>c
  <2>2. \A q \in Requests :
            \/ pc'[q] \in {"idle", "count", "fan"}
            \/ /\ pc'[q] = pc[q] /\ at'[q] = at[q] /\ want'[q] = want[q] /\ pool'[q] = pool[q]
               /\ ok'[q] = ok[q]
    BY <1>c
  <2> QED
    BY <1>c, <2>1, <2>2, TallyFrame
\* The request that acts is the only one, and its own line is kept.
<1>d. ASSUME NEW r \in Requests, NEW step \in Steps \ {"idle"}, pc' = [pc EXCEPT ![r] = step],
             alone' /\ phase' = "up" =>
                 /\ step \in {"cap", "scale", "health"} => at'[r] = Count(pool[r])'
                 /\ step \in Adding => at'[r] + 1 = Count(pool[r])'
                 /\ step \in Stopping => at'[r] = Count(pool[r])' + 1
                 /\ step = "reply" /\ ok'[r] => Count(pool[r])' = want'[r]
      PROVE  Tally'
  <2> SUFFICES ASSUME alone', phase' = "up" PROVE Tally'
    BY DEF Tally
  <2>1. pc'[r] = step /\ \A q \in Requests : q # r => pc'[q] = "idle"
    BY <1>b, <1>d, OthersIdle
  <2> QED
    BY <1>d, <2>1 DEF Tally, Adding, Stopping
<1>e. ASSUME UNCHANGED <<replicas, poolOf>> PROVE \A k \in Pools : Count(k)' = Count(k)
  BY <1>e, CountSame
<1>1. ASSUME NEW r \in Requests, AdminSet(r) \/ AdminDelete(r) PROVE Tally'
  <2>1. PICK k \in Pools, n \in Int : Arrive(r, k, n)
    BY <1>1, AdminArrives
  <2> QED
    BY <1>c, <2>1 DEF Arrive, fleetVars, exitVars
<1>2. ASSUME NEW r \in Requests, ReadCount(r) PROVE Tally'
  <2>1. /\ UNCHANGED <<replicas, poolOf, pool>> /\ pc' = [pc EXCEPT ![r] = "cap"]
        /\ at'[r] = Count(pool[r])
    BY <1>2 DEF ReadCount, fleetVars
  <2> QED
    BY <1>d, <1>e, <2>1 DEF Steps, Adding, Stopping
<1>3. ASSUME NEW r \in Requests, CheckCap(r) PROVE Tally'
  <2>1. UNCHANGED <<replicas, poolOf, pool, at, want, phase, alone>> /\ pc[r] = "cap"
    BY <1>3 DEF CheckCap, fleetVars, exitVars
  <2>2. CASE pc' = [pc EXCEPT ![r] = "reply"] /\ ok' = [ok EXCEPT ![r] = FALSE]
    BY <2>1, <2>2, TallyFrame
  <2>3. CASE pc' = [pc EXCEPT ![r] = "scale"]
    <3>1. alone' /\ phase' = "up" => at'[r] = Count(pool[r])'
      BY <1>e, <2>1 DEF Tally
    <3> QED
      BY <1>d, <2>3, <3>1 DEF Steps, Adding, Stopping
  <2> QED
    BY <1>3, <2>2, <2>3 DEF CheckCap
<1>4. ASSUME NEW r \in Requests, ScaleDone(r) PROVE Tally'
  <2>1. /\ UNCHANGED <<replicas, poolOf, pool, at, want, phase, alone>>
        /\ pc[r] = "scale" /\ at[r] = want[r] /\ pc' = [pc EXCEPT ![r] = "reply"]
    BY <1>4 DEF ScaleDone, fleetVars, exitVars
  <2>2. alone' /\ phase' = "up" => Count(pool[r])' = want'[r]
    BY <1>e, <2>1 DEF Tally
  <2> QED
    BY <1>d, <2>1, <2>2 DEF Steps, Adding, Stopping
<1>5. ASSUME NEW r \in Requests, CannotLaunch(r) \/ Unhealthy(r) PROVE Tally'
  BY <1>5, TallyFrame DEF CannotLaunch, Unhealthy, exitVars
<1>6. ASSUME NEW r \in Requests, Launch(r) PROVE Tally'
  <2>1. PICK p \in Ports : p = nextPort
    BY <1>6 DEF Launch, Ports, TypeOK
  <2>2. /\ UNCHANGED <<replicas, pool, at, want, phase, alone>> /\ pc[r] = "scale"
        /\ pc' = [pc EXCEPT ![r] = "health"] /\ poolOf' = [poolOf EXCEPT ![p] = pool[r]]
    BY <1>6, <2>1 DEF Launch, exitVars
  <2>3. ASSUME NEW i \in 1..Len(replicas) PROVE poolOf'[replicas[i]] = poolOf[replicas[i]]
    <3>1. replicas[i] \in Ports /\ Listed(replicas[i])
      BY LenProperties DEF Listed, TypeOK
    <3>2. replicas[i] # p
      <4>1. replicas[i] < nextPort
        BY <3>1 DEF BaseInv, IInv, Fresh
      <4> QED
        BY <2>1, <3>1, <4>1 DEF Ports
    <3> QED
      BY <2>2, <3>1, <3>2 DEF TypeOK
  <2>4. alone' /\ phase' = "up" => at'[r] = Count(pool[r])'
    BY <2>2, <2>3, CountSame DEF Tally
  <2> QED
    BY <1>d, <2>2, <2>4 DEF Steps, Adding, Stopping
<1>7. ASSUME NEW r \in Requests, Healthy(r) PROVE Tally'
  <2>1. /\ UNCHANGED <<poolOf, pool, at, want, phase, alone>> /\ pc[r] = "health"
        /\ replicas' = Append(replicas, srv[r]) /\ pc' = [pc EXCEPT ![r] = "add"]
    BY <1>7 DEF Healthy, exitVars
  <2>2. srv[r] \in Ports /\ poolOf[srv[r]] = pool[r]
    BY <2>1 DEF BaseInv, IInv, TypeInv, Bound, Young
  <2>3. Count(pool[r])' = Count(pool[r]) + 1
    <3>1. PICK k \in Pools : k = pool[r] /\ pool'[r] = k
      BY <2>1
    <3>2. Count(k)' = Count(k) + 1
      BY <2>1, <2>2, <3>1, CountRecord
    <3> QED
      BY <3>1, <3>2
  <2>4. alone' /\ phase' = "up" => at'[r] + 1 = Count(pool[r])'
    BY <2>1, <2>3 DEF Tally
  <2> QED
    BY <1>d, <2>1, <2>4 DEF Steps, Adding, Stopping
<1>8. ASSUME NEW r \in Requests, AddMember(r) \/ Provision(r) \/ Replayed(r) PROVE Tally'
  <2>1. /\ UNCHANGED <<replicas, poolOf, pool, want, phase, alone>> /\ pc[r] \in Adding
        /\ \/ (\E step \in Adding : pc' = [pc EXCEPT ![r] = step]) /\ UNCHANGED at
           \/ pc' = [pc EXCEPT ![r] = "scale"] /\ at' = [at EXCEPT ![r] = at[r] + 1]
    BY <1>8 DEF AddMember, Provision, Replayed, Adding, fleetVars, exitVars
  <2>2. alone' /\ phase' = "up" => at[r] + 1 = Count(pool[r])'
    BY <1>e, <2>1 DEF Tally
  <2>3. CASE (\E step \in Adding : pc' = [pc EXCEPT ![r] = step]) /\ UNCHANGED at
    BY <1>d, <2>2, <2>3 DEF Steps, Adding, Stopping
  <2>4. CASE pc' = [pc EXCEPT ![r] = "scale"] /\ at' = [at EXCEPT ![r] = at[r] + 1]
    BY <1>d, <2>2, <2>4 DEF Steps, Adding, Stopping
  <2> QED
    BY <2>1, <2>3, <2>4
<1>9. ASSUME NEW r \in Requests, NEW v \in Voices, Replay(r, v) PROVE Tally'
  BY <1>9, TallyFrame DEF Replay, fleetVars, exitVars
<1>10. ASSUME NEW r \in Requests, StopLast(r) PROVE Tally'
  <2>1. /\ UNCHANGED <<poolOf, pool, at, want, phase, alone>>
        /\ pc[r] = "scale" /\ at[r] > want[r]
    BY <1>10 DEF StopLast, exitVars
  <2>2. CASE OfPool(pool[r]) = {} /\ UNCHANGED <<replicas, srv>> /\ Reply(r, TRUE)
    <3>1. Count(pool[r]) = 0
      BY <2>2, FS_EmptySet DEF OfPool, Count
    <3>2. ~(alone' /\ phase' = "up")
      BY <2>1, <3>1 DEF Tally
    <3> QED
      BY <3>2 DEF Tally
  <2>3. ASSUME NEW i \in OfPool(pool[r]), replicas' = Without(i), Goto(r, "kill") PROVE Tally'
    <3>1. PICK k \in Pools : k = pool[r] /\ pool'[r] = k
      BY <2>1
    <3>2. Count(k)' = Count(k) - 1
      BY <2>1, <2>3, <3>1, CountStop
    <3>3. alone' /\ phase' = "up" => at'[r] = Count(pool[r])' + 1
      BY <2>1, <3>1, <3>2 DEF Tally
    <3> QED
      BY <1>d, <2>3, <3>3 DEF Steps, Adding, Stopping
  <2> QED
    BY <1>10, <2>2, <2>3 DEF StopLast, Without
<1>11. ASSUME NEW r \in Requests, Kill(r) \/ RemoveMember(r) PROVE Tally'
  <2>1. /\ UNCHANGED <<replicas, poolOf, pool, want, phase, alone>> /\ pc[r] \in Stopping
        /\ \/ pc' = [pc EXCEPT ![r] = "remove"] /\ UNCHANGED at
           \/ pc' = [pc EXCEPT ![r] = "scale"] /\ at' = [at EXCEPT ![r] = at[r] - 1]
    BY <1>11 DEF Kill, RemoveMember, Stopping, exitVars
  <2>2. alone' /\ phase' = "up" => at[r] = Count(pool[r])' + 1
    BY <1>e, <2>1 DEF Tally
  <2>3. \A k \in Pools : Count(k)' \in Nat
    BY <1>e, <2>1
  <2>4. CASE pc' = [pc EXCEPT ![r] = "remove"] /\ UNCHANGED at
    BY <1>d, <2>2, <2>4 DEF Steps, Adding, Stopping
  <2>5. CASE pc' = [pc EXCEPT ![r] = "scale"] /\ at' = [at EXCEPT ![r] = at[r] - 1]
    <3>1. alone' /\ phase' = "up" => at'[r] = Count(pool[r])'
      BY <2>1, <2>2, <2>3, <2>5
    <3> QED
      BY <1>d, <2>5, <3>1 DEF Steps, Adding, Stopping
  <2> QED
    BY <2>1, <2>4, <2>5
<1>12. ASSUME NEW r \in Requests, Done(r) PROVE Tally'
  BY <1>12, TallyFrame DEF Done, fleetVars, exitVars
<1>13. ASSUME NEW r \in Requests, UploadStep(r) PROVE Tally'
  BY <1>13, TallyFrame DEF UploadStep, RememberVoice, UploadTo, fleetVars, exitVars
<1>14. ASSUME NEW r \in Requests, NEW v \in Voices, UploadVoice(r, v) PROVE Tally'
  BY <1>c, <1>14 DEF UploadVoice, fleetVars, exitVars
<1>15. ASSUME NEW s \in Servers, Crash(s) \/ Evict(s) \/ KillVictim(s) PROVE Tally'
  BY <1>15, TallyFrame DEF Crash, Evict, KillVictim, adminVars, exitVars
<1>16. CASE Shutdown \/ Sweep \/ Exit
  BY <1>16 DEF Shutdown, Sweep, StopAll, Exit, Tally
<1>17. CASE UNCHANGED vars
  BY <1>17, TallyFrame DEF vars, adminVars, fleetVars, exitVars
<1> QED
  BY <1>1, <1>2, <1>3, <1>4, <1>5, <1>6, <1>7, <1>8, <1>9, <1>10, <1>11, <1>12, <1>13, <1>14,
     <1>15, <1>16, <1>17 DEF Next, AdminStep

\* While requests did not overlap, one that replies without an error leaves exactly
\* the number of managed replicas it was asked for (SetReplicas), whatever crashed or
\* was evicted meanwhile.
THEOREM ExactlyN == Spec => []ExactlyNAlone
<1>1. Init => BaseInv /\ Tally
  BY BaseInit DEF Init, Tally, Adding, Stopping
<1>2. (BaseInv /\ Tally) /\ [Next]_vars => (BaseInv /\ Tally)'
  BY BaseStep, TallyStep
<1>3. BaseInv /\ Tally => ExactlyNAlone
  BY DEF Tally, ExactlyNAlone
<1> QED
  BY <1>1, <1>2, <1>3, PTL DEF Spec

-----------------------------------------------------------------------------
(***************************************************************************)
(* The members of the pools.                                               *)
(***************************************************************************)
Served ==
    alone /\ phase = "up" =>
        /\ \A r \in Requests : pc[r] = "add" => Listed(srv[r])
        /\ \A p \in members \cap Ports :
              Listed(p) \/ \E r \in Requests : pc[r] \in Stopping /\ srv[r] = p

\* Steps that leave the list, that add no member, and in which no request takes up or
\* lets go of a server.
LEMMA ServedFrame ==
    ASSUME Served, alone' => alone, phase' = "up" => phase = "up" /\ UNCHANGED replicas,
           members' \subseteq members,
           \A r \in Requests :
               /\ pc'[r] = "add" => pc[r] = "add" /\ srv'[r] = srv[r]
               /\ pc[r] \in Stopping => pc'[r] \in Stopping /\ srv'[r] = srv[r]
    PROVE  Served'
<1> SUFFICES ASSUME alone', phase' = "up" PROVE Served'
  BY DEF Served
<1>1. \A p : Listed(p)' <=> Listed(p)
  BY DEF Listed
<1> QED
  BY <1>1 DEF Served

LEMMA ServedStep == BaseInv /\ Served /\ [Next]_vars => Served'
<1> SUFFICES ASSUME BaseInv, Served, [Next]_vars PROVE Served'
  OBVIOUS
<1>a. /\ pc \in [Requests -> Steps] /\ srv \in [Requests -> Ports \cup {NoServer}]
      /\ TypeOK /\ replicas \in Seq(Ports)
  BY DEF BaseInv, IInv, TypeInv, TypeOK
<1>b. Solo'
  BY BaseStep DEF BaseInv
<1> USE <1>a DEF Goto, Reply, Stopping
<1>c. ASSUME NEW r \in Requests, NEW step \in {"count", "fan"}, pc[r] = "idle",
             alone' = (alone /\ Quiet), Goto(r, step), UNCHANGED <<replicas, members, phase, srv>>
      PROVE  Served'
  <2>1. alone' => alone
    BY <1>c
  <2> QED
    BY <1>c, <2>1, ServedFrame
<1>1. ASSUME NEW r \in Requests, AdminSet(r) \/ AdminDelete(r) PROVE Served'
  <2>1. PICK k \in Pools, n \in Int : Arrive(r, k, n)
    BY <1>1, AdminArrives DEF BaseInv, IInv, TypeInv
  <2> QED
    BY <1>c, <2>1 DEF Arrive, fleetVars, exitVars
<1>2. ASSUME NEW r \in Requests,
             \/ ReadCount(r) \/ CheckCap(r) \/ ScaleDone(r) \/ CannotLaunch(r) \/ Launch(r)
             \/ Unhealthy(r) \/ Provision(r) \/ Replayed(r)
      PROVE  Served'
  <2>1. /\ pc[r] \in {"count", "cap", "scale", "health", "provision", "replay"}
        /\ pc'[r] # "add"
        /\ \A q \in Requests \ {r} : pc'[q] = pc[q] /\ srv'[q] = srv[q]
        /\ UNCHANGED <<replicas, members, phase, alone>>
    BY <1>2 DEF ReadCount, CheckCap, ScaleDone, CannotLaunch, Launch, Unhealthy, Provision,
       Replayed, fleetVars, exitVars
  <2> QED
    BY <2>1, ServedFrame
<1>3. ASSUME NEW r \in Requests, NEW v \in Voices, Replay(r, v) PROVE Served'
  BY <1>3, ServedFrame DEF Replay, fleetVars, exitVars
\* The server is recorded, and joins the pool afterwards.
<1>4. ASSUME NEW r \in Requests, Healthy(r) PROVE Served'
  <2>1. /\ replicas' = Append(replicas, srv[r]) /\ pc[r] = "health"
        /\ pc' = [pc EXCEPT ![r] = "add"] /\ UNCHANGED <<members, phase, alone, srv>>
    BY <1>4 DEF Healthy, exitVars
  <2>2. srv[r] \in Ports /\ Distinct /\ ~Listed(srv[r])
    BY <2>1 DEF BaseInv, IInv, TypeInv, Bound, Placed, Holds
  <2>3. \A p \in Ports : Listed(p)' <=> Listed(p) \/ p = srv[r]
    BY <2>1, <2>2, AfterRecord
  <2>4. ASSUME alone', phase' = "up" PROVE \A q \in Requests : q # r => pc'[q] = "idle"
    BY <1>b, <2>1, <2>4, OthersIdle
  <2>5. ASSUME alone', phase' = "up", NEW q \in Requests, pc'[q] = "add" PROVE Listed(srv[q])'
    <3>1. q = r
      BY <2>4, <2>5
    <3>2. PICK p \in Ports : p = srv[r] /\ p = srv'[q]
      BY <2>1, <2>2, <3>1
    <3>3. Listed(p)'
      BY <2>3, <3>2
    <3> QED
      BY <3>2, <3>3 DEF Listed
  <2> QED
    BY <2>1, <2>3, <2>5 DEF Served
<1>5. ASSUME NEW r \in Requests, AddMember(r) PROVE Served'
  <2>1. /\ members' = members \cup {srv[r]} /\ pc[r] = "add" /\ pc'[r] # "add"
        /\ \A q \in Requests \ {r} : pc'[q] = pc[q]
        /\ UNCHANGED <<replicas, phase, alone, srv>>
    BY <1>5 DEF AddMember, exitVars
  <2>2. \A p : Listed(p)' <=> Listed(p)
    BY <2>1 DEF Listed
  <2> QED
    BY <2>1, <2>2 DEF Served
\* The server leaves the list in the hands of the request.
<1>6. ASSUME NEW r \in Requests, StopLast(r) PROVE Served'
  <2>1. pc[r] = "scale" /\ UNCHANGED <<members, phase, alone>>
    BY <1>6 DEF StopLast, exitVars
  <2>2. CASE UNCHANGED <<replicas, srv>> /\ Reply(r, TRUE)
    BY <2>1, <2>2, ServedFrame
  <2>3. ASSUME NEW i \in 1..Len(replicas), srv' = [srv EXCEPT ![r] = replicas[i]],
               replicas' = Without(i), Goto(r, "kill")
        PROVE  Served'
    <3>1. Distinct
      BY DEF BaseInv, IInv, Placed
    <3>2. \A p \in Ports : Listed(p)' <=> Listed(p) /\ p # replicas[i]
      BY <2>3, <3>1, AfterStop
    <3>3. \A q \in Requests : q # r => pc'[q] = pc[q] /\ srv'[q] = srv[q]
      BY <2>3
    <3>4. pc'[r] = "kill" /\ srv'[r] = replicas[i]
      BY <2>3
    <3>5. ASSUME alone', phase' = "up" PROVE \A q \in Requests : q # r => pc'[q] = "idle"
      BY <1>b, <3>4, <3>5, OthersIdle
    <3>6. ASSUME alone', phase' = "up", NEW p \in members \cap Ports
          PROVE  Listed(p)' \/ \E q \in Requests : pc'[q] \in Stopping /\ srv'[q] = p
      <4>1. CASE Listed(p)
        BY <3>2, <3>4, <4>1
      <4>2. CASE \E q \in Requests : pc[q] \in Stopping /\ srv[q] = p
        BY <2>1, <3>3, <4>2
      <4> QED
        BY <2>1, <3>6, <4>1, <4>2 DEF Served
    <3> QED
      BY <2>1, <3>4, <3>5, <3>6 DEF Served
  <2> QED
    BY <1>6, <2>2, <2>3 DEF StopLast, OfPool, Without
<1>7. ASSUME NEW r \in Requests, Kill(r) PROVE Served'
  BY <1>7, ServedFrame DEF Kill, exitVars
<1>8. ASSUME NEW r \in Requests, RemoveMember(r) PROVE Served'
  <2>1. /\ members' = members \ {srv[r]} /\ pc' = [pc EXCEPT ![r] = "scale"]
        /\ UNCHANGED <<replicas, phase, alone, srv>>
    BY <1>8 DEF RemoveMember, exitVars
  <2>2. \A p : Listed(p)' <=> Listed(p)
    BY <2>1 DEF Listed
  <2> QED
    BY <2>1, <2>2 DEF Served
<1>9. ASSUME NEW r \in Requests, Done(r) PROVE Served'
  BY <1>9, ServedFrame DEF Done, fleetVars, exitVars
<1>10. ASSUME NEW r \in Requests, UploadStep(r) PROVE Served'
  BY <1>10, ServedFrame DEF UploadStep, RememberVoice, UploadTo, fleetVars, exitVars
<1>11. ASSUME NEW r \in Requests, NEW v \in Voices, UploadVoice(r, v) PROVE Served'
  BY <1>c, <1>11 DEF UploadVoice, fleetVars, exitVars
<1>12. ASSUME NEW s \in Servers, Crash(s) \/ Evict(s) \/ KillVictim(s) PROVE Served'
  BY <1>12, ServedFrame DEF Crash, Evict, KillVictim, adminVars, exitVars
<1>13. CASE Shutdown \/ Sweep \/ Exit
  BY <1>13 DEF Shutdown, Sweep, StopAll, Exit, Served
<1>14. CASE UNCHANGED vars
  BY <1>14, ServedFrame DEF vars, adminVars, fleetVars, exitVars
<1> QED
  BY <1>1, <1>2, <1>3, <1>4, <1>5, <1>6, <1>7, <1>8, <1>9, <1>10, <1>11, <1>12, <1>13, <1>14
     DEF Next, AdminStep

\* Without overlapping requests a pool hands out no managed server that the supervisor
\* has forgotten, except one that a request is just stopping (SetReplicas, stopLast).
THEOREM MembersManaged == Spec => []MembersManagedAlone
<1>1. Init => BaseInv /\ Served
  BY BaseInit DEF Init, Served, Ports
<1>2. (BaseInv /\ Served) /\ [Next]_vars => (BaseInv /\ Served)'
  BY BaseStep, ServedStep
<1>3. BaseInv /\ Served => MembersManagedAlone
  BY DEF Served, Listed, Managed, MembersManagedAlone, Stopping
<1> QED
  BY <1>1, <1>2, <1>3, PTL DEF Spec

-----------------------------------------------------------------------------
(***************************************************************************)
(* The voices of the tts servers.  Uploads and launches overlap here.      *)
(*                                                                         *)
(* A server that enters its pool is given to provisionVoices at once, so   *)
(* every remembered voice is one that it has, or missed, or that its       *)
(* launcher has still to give it (Owed).  An upload chose its servers when *)
(* it began: each of them is on its list, has been dealt with, or came     *)
(* later and will note the voice when the remembered ones are read for it. *)
(***************************************************************************)
InService == TTSMembers \cap running
Noted(s)  == has[s] \cup missed[s]

\* Request r has still to give server s the voice v.
Owed(r, s, v) ==
    srv[r] = s /\ (pc[r] = "provision" \/ (pc[r] = "replay" /\ v \in replay[r]))

\* Request r will read the remembered voices for server s.
Reading(r, s) == srv[r] = s /\ pc[r] = "provision"

Voiced ==
    phase # "exited" =>
        \A s \in InService :
            /\ \A v \in voices : v \in Noted(s) \/ \E r \in Requests : Owed(r, s, v)
            /\ \A r \in Requests : pc[r] = "fan" =>
                  \/ s \in fan[r].left \/ fan[r].voice \in Noted(s)
                  \/ \E q \in Requests : Reading(q, s)

\* Steps that bring no server into service, make none forget what it noted, and leave
\* the uploads and the provisioning as they are.
LEMMA VoicedFrame ==
    ASSUME Voiced, phase' # "exited" => phase # "exited",
           UNCHANGED <<voices, fan>>, InService' \subseteq InService,
           \A s \in InService' : Noted(s) \subseteq Noted(s)',
           \A r \in Requests :
               /\ pc'[r] = "fan" => pc[r] = "fan"
               /\ pc[r] \in {"provision", "replay"} =>
                     pc'[r] = pc[r] /\ srv'[r] = srv[r] /\ replay'[r] = replay[r]
    PROVE  Voiced'
<1>1. \A r \in Requests, s \in InService' :
          /\ \A v \in voices : Owed(r, s, v) => Owed(r, s, v)'
          /\ Reading(r, s) => Reading(r, s)'
  BY DEF Owed, Reading
<1> QED
  BY <1>1 DEF Voiced

\* An upload that ends is noted by its server; no server forgets.
LEMMA PostNoted ==
    ASSUME TypeOK, NEW s \in Servers, NEW v \in Voices, NEW taken \in BOOLEAN, Post(s, v, taken)
    PROVE  /\ \A t \in Servers : Noted(t) \subseteq Noted(t)'
           /\ s \in running => v \in Noted(s)'
<1>1. has \in [Servers -> SUBSET Voices] /\ missed \in [Servers -> SUBSET Voices]
  BY DEF TypeOK
<1>2. CASE taken
  BY <1>1, <1>2 DEF Post, Noted
<1>3. CASE ~taken
  BY <1>1, <1>3 DEF Post, Miss, Alive, Noted
<1> QED
  BY <1>2, <1>3

LEMMA VoicedStep == BaseInv /\ Voiced /\ [Next]_vars => Voiced'
<1> SUFFICES ASSUME BaseInv, Voiced, [Next]_vars PROVE Voiced'
  OBVIOUS
<1>a. /\ TypeOK /\ pc \in [Requests -> Steps] /\ srv \in [Requests -> Ports \cup {NoServer}]
      /\ replay \in [Requests -> SUBSET Voices] /\ fan \in [Requests -> Fan]
      /\ has \in [Servers -> SUBSET Voices] /\ missed \in [Servers -> SUBSET Voices]
      /\ members \subseteq Servers /\ running \subseteq Ports /\ poolOf \in [Ports -> Pools]
      /\ Ports \cap External = {} /\ Ports \subseteq Servers /\ voices \subseteq Voices
  BY DEF BaseInv, IInv, TypeInv, TypeOK, Ports, Servers
<1>b. InService \subseteq Ports /\ InService \subseteq Servers
  BY <1>a DEF InService
<1> USE <1>a DEF Goto, Reply
\* A server that dies is out of service; the others keep what they noted.
<1>d. ASSUME NEW p \in Servers, Die(p), members' \subseteq members, UNCHANGED poolOf
      PROVE  InService' \subseteq InService /\ \A s \in InService' : Noted(s) \subseteq Noted(s)'
  <2>1. running' \subseteq running \ {p}
    BY <1>d DEF Die
  <2>2. InService' \subseteq InService \ {p}
    BY <1>d, <2>1 DEF InService, TTSMembers
  <2>3. \A s \in InService \ {p} : has'[s] = has[s] /\ missed'[s] = missed[s]
    BY <1>b, <1>d DEF Die
  <2> QED
    BY <2>2, <2>3 DEF Noted
\* Steps that leave the voices and the servers.
<1>e. ASSUME UNCHANGED <<poolOf, running, cacheVars>>, members' \subseteq members
      PROVE  InService' \subseteq InService /\ \A s \in InService' : Noted(s) \subseteq Noted(s)'
  BY <1>e DEF InService, TTSMembers, Noted, cacheVars
<1>1. ASSUME NEW r \in Requests, AdminSet(r) \/ AdminDelete(r) PROVE Voiced'
  <2>1. PICK k \in Pools, n \in Int : Arrive(r, k, n)
    BY <1>1, AdminArrives
  <2> QED
    BY <1>e, <2>1, VoicedFrame DEF Arrive, fleetVars, exitVars, voiceVars
<1>2. ASSUME NEW r \in Requests,
             \/ ReadCount(r) \/ CheckCap(r) \/ ScaleDone(r) \/ CannotLaunch(r) \/ Healthy(r)
             \/ StopLast(r) \/ RemoveMember(r) \/ Done(r)
      PROVE  Voiced'
  <2>1. /\ pc[r] \notin {"provision", "replay"} /\ pc'[r] # "fan"
        /\ \A q \in Requests \ {r} : pc'[q] = pc[q] /\ srv'[q] = srv[q]
        /\ members' \subseteq members
        /\ UNCHANGED <<poolOf, running, voices, cacheVars, fan, replay, phase>>
    BY <1>2 DEF ReadCount, CheckCap, ScaleDone, CannotLaunch, Healthy, StopLast, RemoveMember,
       Done, fleetVars, exitVars, voiceVars
  <2> QED
    BY <1>e, <2>1, VoicedFrame
<1>3. ASSUME NEW r \in Requests, Launch(r) PROVE Voiced'
  <2>1. PICK p \in Ports : p = nextPort
    BY <1>3 DEF Launch, Ports, BaseInv, IInv, TypeInv, TypeOK
  <2>2. /\ poolOf' = [poolOf EXCEPT ![p] = pool[r]] /\ running' = running \cup {p}
        /\ pc[r] = "scale" /\ pc' = [pc EXCEPT ![r] = "health"]
        /\ srv' = [srv EXCEPT ![r] = p]
        /\ UNCHANGED <<members, voices, cacheVars, fan, replay, phase>>
    BY <1>3, <2>1 DEF Launch, exitVars, voiceVars
  <2>3. p \notin members
    <3>1. ~(p < p)
      BY <2>1 DEF Ports
    <3> QED
      BY <2>1, <3>1 DEF BaseInv, Young
  <2>4. InService' \subseteq InService /\ \A s \in InService' : Noted(s) \subseteq Noted(s)'
    BY <2>2, <2>3 DEF InService, TTSMembers, Noted, cacheVars
  <2> QED
    BY <2>2, <2>4, VoicedFrame
<1>4. ASSUME NEW r \in Requests, Unhealthy(r) \/ Kill(r) PROVE Voiced'
  <2>1. srv[r] \in Servers /\ Die(srv[r])
    BY <1>4 DEF Unhealthy, Kill, BaseInv, IInv, TypeInv, Bound
  <2>2. /\ pc[r] \in {"health", "kill"} /\ pc'[r] \in {"reply", "remove"}
        /\ \A q \in Requests \ {r} : pc'[q] = pc[q]
        /\ UNCHANGED <<poolOf, members, voices, fan, replay, srv, phase>>
    BY <1>4 DEF Unhealthy, Kill, exitVars
  <2>3. InService' \subseteq InService /\ \A s \in InService' : Noted(s) \subseteq Noted(s)'
    BY <1>d, <2>1, <2>2
  <2> QED
    BY <2>2, <2>3, VoicedFrame
<1>5. ASSUME NEW r \in Requests, AddMember(r) PROVE Voiced'
  <2>1. /\ pc[r] = "add" /\ members' = members \cup {srv[r]}
        /\ UNCHANGED <<poolOf, running, voices, cacheVars, fan, replay, srv, phase>>
        /\ \A q \in Requests \ {r} : pc'[q] = pc[q]
        /\ pc'[r] = IF pool[r] \in TTS THEN "provision" ELSE "scale"
    BY <1>5 DEF AddMember, exitVars, voiceVars
  <2>2. srv[r] \in Ports /\ srv[r] \notin External /\ poolOf[srv[r]] = pool[r]
    BY <2>1 DEF BaseInv, IInv, TypeInv, Bound, Young, Adding
  <2>3. \A q \in Requests, s \in Servers : /\ \A v \in voices : Owed(q, s, v) => Owed(q, s, v)'
                                           /\ Reading(q, s) => Reading(q, s)'
    BY <2>1 DEF Owed, Reading
  <2>4. \A s \in Servers : Noted(s)' = Noted(s)
    BY <2>1 DEF Noted, cacheVars
  <2>5. \A s \in InService' \ InService : s = srv[r] /\ pool[r] \in TTS
    BY <2>1, <2>2 DEF InService, TTSMembers
  <2>6. \A s \in InService' \ InService : Reading(r, s)' /\ \A v \in voices : Owed(r, s, v)'
    BY <2>1, <2>5 DEF Owed, Reading
  <2>7. \A q \in Requests : pc'[q] = "fan" => pc[q] = "fan"
    BY <2>1
  <2> QED
    BY <1>b, <2>1, <2>3, <2>4, <2>6, <2>7 DEF Voiced
<1>6. ASSUME NEW r \in Requests, Provision(r) PROVE Voiced'
  <2> DEFINE U == {fan[q].voice : q \in {t \in Requests : pc[t] = "fan"}}
  <2>1. /\ pc[r] = "provision" /\ pc' = [pc EXCEPT ![r] = "replay"]
        /\ replay' = [replay EXCEPT ![r] = voices]
        /\ UNCHANGED <<poolOf, running, members, voices, has, fan, srv, phase>>
    BY <1>6 DEF Provision, fleetVars, exitVars
  <2>2. Miss(srv[r], U)
    BY <1>6 DEF Provision
  <2>3. InService' = InService
    BY <2>1 DEF InService, TTSMembers
  <2>4. \A s \in InService : Noted(s) \subseteq Noted(s)' /\ (s = srv[r] => U \subseteq Noted(s)')
    BY <1>b, <2>1, <2>2 DEF Miss, Alive, Noted, InService
  <2>5. \A q \in Requests, s \in InService, v \in voices : Owed(q, s, v) => Owed(q, s, v)'
    BY <2>1 DEF Owed
  <2>6. \A q \in Requests : pc'[q] = "fan" => pc[q] = "fan" /\ fan[q].voice \in U
    BY <2>1
  <2> HIDE DEF U
  <2>7. ASSUME phase' # "exited", NEW s \in InService, NEW t \in Requests, pc'[t] = "fan"
        PROVE  \/ s \in fan[t].left \/ fan[t].voice \in Noted(s)'
               \/ \E q \in Requests : Reading(q, s)'
    <3>1. CASE s = srv[r]
      BY <2>4, <2>6, <2>7, <3>1
    <3>2. CASE s # srv[r]
      <4>1. \A q \in Requests : Reading(q, s) => Reading(q, s)'
        BY <2>1, <3>2 DEF Reading
      <4> QED
        BY <2>1, <2>4, <2>6, <2>7, <4>1 DEF Voiced
    <3> QED
      BY <3>1, <3>2
  <2> QED
    BY <2>1, <2>3, <2>4, <2>5, <2>7 DEF Voiced
<1>7. ASSUME NEW r \in Requests, NEW v \in Voices, Replay(r, v) PROVE Voiced'
  <2>1. /\ pc[r] = "replay" /\ replay' = [replay EXCEPT ![r] = replay[r] \ {v}]
        /\ UNCHANGED <<poolOf, running, members, voices, fan, srv, pc, phase>>
    BY <1>7 DEF Replay, fleetVars, exitVars
  <2>2. PICK p \in Servers : p = srv[r]
    BY <2>1 DEF BaseInv, IInv, TypeInv, Bound
  <2>3. PICK taken \in BOOLEAN : Post(p, v, taken)
    BY <1>7, <2>2 DEF Replay
  <2>4. /\ \A s \in InService : Noted(s) \subseteq Noted(s)'
        /\ p \in InService => v \in Noted(p)'
    BY <1>b, <2>3, PostNoted DEF InService
  <2>5. InService' = InService
    BY <2>1 DEF InService, TTSMembers
  <2>6. \A q \in Requests, s \in InService, u \in voices :
            Owed(q, s, u) => Owed(q, s, u)' \/ u \in Noted(s)'
    BY <2>1, <2>2, <2>4 DEF Owed
  <2>7. \A q \in Requests, s \in InService : Reading(q, s) => Reading(q, s)'
    BY <2>1 DEF Reading
  <2> QED
    BY <2>1, <2>4, <2>5, <2>6, <2>7 DEF Voiced
<1>8. ASSUME NEW r \in Requests, Replayed(r) PROVE Voiced'
  <2>1. /\ pc[r] = "replay" /\ replay[r] = {} /\ pc' = [pc EXCEPT ![r] = "scale"]
        /\ UNCHANGED <<poolOf, running, members, voices, cacheVars, fan, srv, replay, phase>>
    BY <1>8 DEF Replayed, fleetVars, exitVars, voiceVars
  <2>2. InService' = InService /\ \A s \in InService : Noted(s)' = Noted(s)
    BY <2>1 DEF InService, TTSMembers, Noted, cacheVars
  <2>3. \A q \in Requests, s \in InService : /\ \A v \in voices : Owed(q, s, v) => Owed(q, s, v)'
                                             /\ Reading(q, s) => Reading(q, s)'
    BY <2>1 DEF Owed, Reading
  <2>4. \A q \in Requests : pc'[q] = "fan" => pc[q] = "fan"
    BY <2>1
  <2> QED
    BY <2>1, <2>2, <2>3, <2>4 DEF Voiced
<1>9. ASSUME NEW r \in Requests, NEW v \in Voices, UploadVoice(r, v) PROVE Voiced'
  <2>1. /\ pc[r] = "idle" /\ pc' = [pc EXCEPT ![r] = "fan"]
        /\ fan' = [fan EXCEPT ![r] = [voice |-> v, left |-> TTSMembers, ok |-> FALSE]]
        /\ UNCHANGED <<poolOf, running, members, voices, cacheVars, srv, replay, phase>>
    BY <1>9 DEF UploadVoice, fleetVars, exitVars, voiceVars
  <2>2. InService' = InService /\ \A s \in InService : Noted(s)' = Noted(s)
    BY <2>1 DEF InService, TTSMembers, Noted, cacheVars
  <2>3. fan'[r].left = TTSMembers /\ \A q \in Requests : q # r => fan'[q] = fan[q] /\ pc'[q] = pc[q]
    BY <2>1
  <2>4. \A s \in InService : s \in TTSMembers
    BY DEF InService
  <2>5. \A q \in Requests, s \in InService : /\ \A u \in voices : Owed(q, s, u) => Owed(q, s, u)'
                                             /\ Reading(q, s) => Reading(q, s)'
    BY <2>1 DEF Owed, Reading
  <2> QED
    BY <2>1, <2>2, <2>3, <2>4, <2>5 DEF Voiced
<1>10. ASSUME NEW r \in Requests, NEW s \in Servers, NEW taken \in BOOLEAN, UploadTo(r, s, taken)
       PROVE  Voiced'
  <2> DEFINE v == fan[r].voice
  <2>1. /\ pc[r] = "fan" /\ v \in Voices /\ Post(s, v, taken)
        /\ fan'[r].voice = v /\ fan'[r].left = fan[r].left \ {s}
        /\ \A q \in Requests : q # r => fan'[q] = fan[q]
        /\ UNCHANGED <<poolOf, running, members, voices, srv, replay, pc, phase>>
    BY <1>10 DEF UploadTo, Fan, fleetVars, exitVars
  <2>2. InService' = InService
    BY <2>1 DEF InService, TTSMembers
  <2>3. /\ \A t \in InService : Noted(t) \subseteq Noted(t)'
        /\ s \in InService => v \in Noted(s)'
    BY <1>b, <2>1, PostNoted DEF InService
  <2>4. \A q \in Requests, t \in InService : /\ \A u \in voices : Owed(q, t, u) => Owed(q, t, u)'
                                             /\ Reading(q, t) => Reading(q, t)'
    BY <2>1 DEF Owed, Reading
  <2>5. \A q \in Requests : fan'[q].voice = fan[q].voice
    BY <2>1
  <2>6. \A t \in InService, q \in Requests :
            t \in fan[q].left => t \in fan'[q].left \/ (t = s /\ q = r)
    BY <2>1
  <2>7. ASSUME phase' # "exited", NEW t \in InService, NEW q \in Requests, pc'[q] = "fan"
        PROVE  \/ t \in fan'[q].left \/ fan'[q].voice \in Noted(t)'
               \/ \E y \in Requests : Reading(y, t)'
    <3>1. \/ t \in fan[q].left \/ fan[q].voice \in Noted(t)
          \/ \E y \in Requests : Reading(y, t)
      BY <2>1, <2>7 DEF Voiced
    <3> QED
      BY <2>3, <2>4, <2>5, <2>6, <3>1
  <2> QED
    BY <2>1, <2>2, <2>3, <2>4, <2>7 DEF Voiced
<1>11. ASSUME NEW r \in Requests, RememberVoice(r) PROVE Voiced'
  <2>1. /\ pc[r] = "fan" /\ fan[r].left = {} /\ pc' = [pc EXCEPT ![r] = "idle"]
        /\ voices' \subseteq voices \cup {fan[r].voice}
        /\ \A q \in Requests : q # r => fan'[q] = fan[q]
        /\ UNCHANGED <<poolOf, running, members, cacheVars, srv, replay, phase>>
    BY <1>11 DEF RememberVoice, fleetVars, exitVars
  <2>2. InService' = InService /\ \A s \in InService : Noted(s)' = Noted(s)
    BY <2>1 DEF InService, TTSMembers, Noted, cacheVars
  <2>3. \A q \in Requests, s \in InService : /\ \A v : Owed(q, s, v) => Owed(q, s, v)'
                                             /\ Reading(q, s) => Reading(q, s)'
                                             /\ \A v : Reading(q, s) => Owed(q, s, v)
    BY <2>1 DEF Owed, Reading
  <2>4. \A q \in Requests : pc'[q] = "fan" => q # r /\ pc[q] = "fan"
    BY <2>1
  <2>5. ASSUME phase' # "exited", NEW s \in InService, NEW v \in voices'
        PROVE  v \in Noted(s)' \/ \E q \in Requests : Owed(q, s, v)'
    <3>1. CASE v \in voices
      BY <2>1, <2>2, <2>3, <2>5, <3>1 DEF Voiced
    <3>2. CASE v = fan[r].voice
      BY <2>1, <2>2, <2>3, <2>5, <3>2 DEF Voiced
    <3> QED
      BY <2>1, <3>1, <3>2
  <2>6. ASSUME phase' # "exited", NEW s \in InService, NEW t \in Requests, pc'[t] = "fan"
        PROVE  \/ s \in fan'[t].left \/ fan'[t].voice \in Noted(s)'
               \/ \E q \in Requests : Reading(q, s)'
    BY <2>1, <2>2, <2>3, <2>4, <2>6 DEF Voiced
  <2> QED
    BY <2>2, <2>5, <2>6 DEF Voiced
<1>12. ASSUME NEW s \in Servers, Crash(s) \/ KillVictim(s) PROVE Voiced'
  BY <1>d, <1>12, VoicedFrame DEF Crash, KillVictim, adminVars, exitVars
<1>13. ASSUME NEW s \in Servers, Evict(s) PROVE Voiced'
  BY <1>e, <1>13, VoicedFrame DEF Evict, adminVars, exitVars, voiceVars
<1>14. CASE Shutdown \/ Sweep
  BY <1>e, <1>14, VoicedFrame DEF Shutdown, Sweep, StopAll, adminVars, voiceVars
<1>15. CASE Exit
  BY <1>15 DEF Exit, Voiced
<1>16. CASE UNCHANGED vars
  BY <1>e, <1>16, VoicedFrame DEF vars, adminVars, fleetVars, exitVars, voiceVars
<1> QED
  BY <1>1, <1>2, <1>3, <1>4, <1>5, <1>6, <1>7, <1>8, <1>9, <1>10, <1>11, <1>12, <1>13, <1>14,
     <1>15, <1>16 DEF Next, AdminStep, UploadStep

\* However uploads, launches, crashes and the shutdown overlap, a tts server in service
\* that provisionVoices is done with lacks a remembered voice only if an upload of it to
\* that server failed, or was under way when the remembered ones were read for it.
THEOREM VoicesProvisionedAlways == Spec => []VoicesProvisioned
<1>1. Init => BaseInv /\ Voiced
  BY BaseInit DEF Init, Voiced
<1>2. (BaseInv /\ Voiced) /\ [Next]_vars => (BaseInv /\ Voiced)'
  BY BaseStep, VoicedStep
<1>3. Voiced => VoicesProvisioned
  BY DEF Voiced, Owed, Noted, InService, VoicesProvisioned
<1> QED
  BY <1>1, <1>2, <1>3, PTL DEF Spec

=============================================================================
