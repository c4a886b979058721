-------------------------- MODULE VoiceServiceProofs --------------------------
(***************************************************************************)
(* Proofs about VoiceService for any calls, voices and chats and any       *)
(* number of crashes and failed writes.                                    *)
(*                                                                         *)
(* The argument: a VoiceMessage in memory names either no request or the   *)
(* request of the call that holds it (Routed), so a call only ever         *)
(* completes its own request, and the step a call is at determines its     *)
(* request's status (Ledger) as long as no write of the file failed.       *)
(*                                                                         *)
(* An agent that calls again only when its last call has ended gets what   *)
(* ListenPromise says: every voice at most once from the backlog (Once,    *)
(* Durable) and at most once live (LiveOnce).                              *)
(***************************************************************************)
EXTENDS VoiceService, FiniteSetTheorems, TLAPS

-----------------------------------------------------------------------------
(***************************************************************************)
(* Type correctness.                                                       *)
(***************************************************************************)

\* The two ways a step changes the database keep its type.
LEMMA UpdateType ==
    ASSUME db \in Database
    PROVE  /\ \A c \in Calls, s \in RequestStatus : WithRequest(c, s) \in Database
           /\ \A v \in Voices, s \in VoiceStatus, r \in Calls \cup {None} :
                 WithVoice(v, s, r) \in Database
  BY DEF Database, WithRequest, WithVoice, VoiceRecord

\* A write, saved or not, keeps the types of the store's variables.
LEMMA WriteType ==
    ASSUME TypeOK, NEW d \in Database, Write(d)
    PROVE  db' \in Database /\ disk' \in Database /\ faults' \in 0..MaxFaults
  BY ServiceAssumption DEF TypeOK, Write, Saved, NotSaved


\* What the types of a step's arguments rest on: a call that processes a voice
\* holds one, and the handler has the voice it routes and the request it picked.
Holding ==
    /\ \A c \in Calls : pc[c] \in {"begin", "interpreting", "completing"} => held[c] # None
    /\ handler.step # "idle" => handler.voice \in Voices
    /\ handler.step \in {"binding", "bound", "sending"} => handler.req \in Calls

TypeInv == TypeOK /\ Holding

LEMMA TypeInit == Init => TypeInv
  BY ServiceAssumption
     DEF Init, TypeInv, TypeOK, Holding, EmptyDb, IdleHandler, Database, VoiceRecord,
         VoiceStatus, RequestStatus, Steps, OpenSteps, Outcomes

\* Every step keeps TypeInv.
LEMMA TypeStep == TypeInv /\ [Next]_vars => TypeInv'
<1> SUFFICES ASSUME TypeInv, [Next]_vars PROVE TypeInv'
  OBVIOUS
<1> USE DEF TypeInv, TypeOK, Holding
<1>1. ASSUME NEW c \in Calls, Open(c) PROVE TypeInv'
  <2>1. CASE PendingVoices(Home) = {} /\ pc' = [pc EXCEPT ![c] = "asking"] /\ held' = held
    BY <1>1, <2>1 DEF Open, storeVars, Steps, OpenSteps
  <2>2. ASSUME NEW v \in Voices,
               held' = [held EXCEPT ![c] = [id |-> v, req |-> db.voice[v].req]],
               pc' = [pc EXCEPT ![c] = "begin"]
        PROVE  TypeInv'
    <3>1. [id |-> v, req |-> db.voice[v].req] \in Message
      BY DEF Message, Database, VoiceRecord
    <3>2. [id |-> v, req |-> db.voice[v].req] # None
      BY <3>1, NilAssumption
    <3> QED BY <1>1, <2>2, <3>1, <3>2 DEF Open, storeVars, Steps, OpenSteps
  <2> QED BY <1>1, <2>1, <2>2 DEF Open
<1>2. ASSUME NEW c \in Calls, CreateRequest(c) PROVE TypeInv'
  <2>1. WithRequest(c, "waiting") \in Database
    BY UpdateType DEF RequestStatus
  <2>2. db' \in Database /\ disk' \in Database /\ faults' \in 0..MaxFaults
    BY <1>2, <2>1, WriteType DEF CreateRequest, Write
  <2>3. pc' \in [Calls -> Steps] /\ outcome' \in [Calls -> Outcomes]
    BY <1>2 DEF CreateRequest, Steps, OpenSteps, Outcomes
  <2> QED BY <1>2, <2>2, <2>3 DEF CreateRequest
<1>3. ASSUME NEW c \in Calls, Register(c) PROVE TypeInv'
  BY <1>3 DEF Register, Steps, OpenSteps, storeVars
<1>4. ASSUME NEW c \in Calls, Receive(c) PROVE TypeInv'
  BY <1>4 DEF Receive, Steps, OpenSteps, storeVars
<1>5. ASSUME NEW c \in Calls, GiveUp(c) PROVE TypeInv'
  BY <1>5 DEF GiveUp, Steps, OpenSteps, Outcomes, storeVars
<1>6. ASSUME NEW c \in Calls, Expire(c) PROVE TypeInv'
  <2>1. WithRequest(c, "expired") \in Database
    BY UpdateType DEF RequestStatus
  <2>2. db' \in Database /\ disk' \in Database /\ faults' \in 0..MaxFaults
    BY <1>6, <2>1, WriteType DEF Expire
  <2> QED BY <1>6, <2>2 DEF Expire, Steps, OpenSteps
<1>7. ASSUME NEW c \in Calls, BeginProcessing(c) PROVE TypeInv'
  <2>1. held[c].id \in Voices /\ held[c].req \in Calls \cup {None}
    BY <1>7 DEF BeginProcessing, Message
  <2>2. WithVoice(held[c].id, "processing", held[c].req) \in Database
    BY <2>1, UpdateType DEF VoiceStatus
  <2>3. db' \in Database /\ disk' \in Database /\ faults' \in 0..MaxFaults
    BY <1>7, <2>2, WriteType DEF BeginProcessing
  <2> QED BY <1>7, <2>3 DEF BeginProcessing, Steps, OpenSteps
<1>8. ASSUME NEW c \in Calls, Interpret(c) PROVE TypeInv'
  <2>1. held[c].id \in Voices /\ held[c].req \in Calls \cup {None}
    BY <1>8 DEF Interpret, Message
  <2>2. PICK ok \in BOOLEAN :
          /\ Write(WithVoice(held[c].id, IF ok THEN "consumed" ELSE "failed", held[c].req))
          /\ outcome' = [outcome EXCEPT ![c] = IF ok THEN "delivered" ELSE "failed"]
    BY <1>8 DEF Interpret
  <2>3. WithVoice(held[c].id, IF ok THEN "consumed" ELSE "failed", held[c].req) \in Database
    BY <2>1, UpdateType DEF VoiceStatus
  <2>4. db' \in Database /\ disk' \in Database /\ faults' \in 0..MaxFaults
    BY <2>2, <2>3, WriteType
  <2>5. outcome' \in [Calls -> Outcomes]
    BY <2>2 DEF Outcomes
  <2> QED BY <1>8, <2>4, <2>5 DEF Interpret, Steps, OpenSteps
<1>9. ASSUME NEW c \in Calls, Complete(c) PROVE TypeInv'
  <2>1. held[c].req \in Calls \cup {None}
    BY <1>9 DEF Complete, Message
  <2>2. held[c].req # None => WithRequest(held[c].req, "completed") \in Database
    BY <2>1, UpdateType DEF RequestStatus
  <2>3. db' \in Database /\ disk' \in Database /\ faults' \in 0..MaxFaults
    BY <1>9, <2>2, WriteType DEF Complete
  <2> QED BY <1>9, <2>3 DEF Complete, Steps, OpenSteps
<1>10. ASSUME NEW c \in Calls, Leave(c) PROVE TypeInv'
  BY <1>10 DEF Leave, Steps, OpenSteps, storeVars
<1>11. ASSUME NEW v \in Voices, StoreVoice(v) PROVE TypeInv'
  <2>1. WithVoice(v, "pending", None) \in Database
    BY UpdateType DEF VoiceStatus
  <2>2. db' \in Database /\ disk' \in Database /\ faults' \in 0..MaxFaults
    BY <1>11, <2>1, WriteType DEF StoreVoice, Write
  <2> QED BY <1>11, <2>2 DEF StoreVoice, IdleHandler, callVars
<1>12. ASSUME PickRequest PROVE TypeInv'
  <2>1. CASE handler' = IdleHandler
    BY <1>12, <2>1 DEF PickRequest, IdleHandler, storeVars, callVars
  <2>2. ASSUME NEW c \in Calls,
               handler' = [step |-> "binding", voice |-> handler.voice, req |-> c]
        PROVE  TypeInv'
    <3>1. handler.voice \in Voices
      BY <1>12 DEF PickRequest
    <3> QED BY <1>12, <2>2, <3>1 DEF PickRequest, storeVars, callVars
  <2> QED BY <1>12, <2>1, <2>2 DEF PickRequest
<1>13. ASSUME ClaimVoice PROVE TypeInv'
  <2>1. WithVoice(handler.voice, "claimed", handler.req) \in Database
    BY <1>13, UpdateType DEF ClaimVoice, VoiceStatus
  <2>2. db' \in Database /\ disk' \in Database /\ faults' \in 0..MaxFaults
    BY <1>13, <2>1, WriteType DEF ClaimVoice
  <2> QED BY <1>13, <2>2 DEF ClaimVoice, callVars
<1>14. ASSUME FindWaiter PROVE TypeInv'
  BY <1>14 DEF FindWaiter, IdleHandler, storeVars, callVars
<1>15. ASSUME Send PROVE TypeInv'
  <2>1. [id |-> handler.voice, req |-> handler.req] \in Message
    BY <1>15 DEF Send, Message
  <2> QED BY <1>15, <2>1 DEF Send, IdleHandler, storeVars
<1>16. ASSUME Restart PROVE TypeInv'
  BY <1>16, ServiceAssumption
     DEF Restart, IdleHandler, Steps, OpenSteps, Outcomes, IsOpen
<1>17. CASE UNCHANGED vars
  BY <1>17 DEF vars, storeVars, callVars
<1> QED
  BY <1>1, <1>2, <1>3, <1>4, <1>5, <1>6, <1>7, <1>8, <1>9, <1>10, <1>11, <1>12,
     <1>13, <1>14, <1>15, <1>16, <1>17 DEF Next, Listener, Handler

\* Every variable keeps its type: in particular no status is ever one that the
\* store's readers do not know, and the channels only carry voice messages.
THEOREM TypeCorrect == Spec => []TypeOK
<1>1. Spec => []TypeInv
  BY TypeInit, TypeStep, PTL DEF Spec
<1>2. TypeInv => TypeOK
  BY DEF TypeInv
<1> QED BY <1>1, <1>2, PTL

-----------------------------------------------------------------------------
(***************************************************************************)
(* Routing: whose voice a message in memory is.                            *)
(***************************************************************************)

\* What a write of one voice, or of one request, does to memory and to the file.
LEMMA VoiceWrite ==
    ASSUME TypeOK, NEW v \in Voices, NEW s \in VoiceStatus, NEW r \in Calls \cup {None},
           Write(WithVoice(v, s, r))
    PROVE  /\ db'.req = db.req
           /\ db'.voice = [db.voice EXCEPT ![v] = [status |-> s, req |-> r]]
           /\ disk' = db' \/ disk' = disk
           /\ faults' = 0 => faults = 0 /\ disk' = db'
  BY ServiceAssumption DEF TypeOK, Database, Write, Saved, NotSaved, WithVoice

LEMMA RequestWrite ==
    ASSUME TypeOK, NEW c \in Calls, NEW s \in RequestStatus, Write(WithRequest(c, s))
    PROVE  /\ db'.voice = db.voice
           /\ db'.req = [db.req EXCEPT ![c] = s]
           /\ disk' = db' \/ disk' = disk
           /\ faults' = 0 => faults = 0 /\ disk' = db'
  BY ServiceAssumption DEF TypeOK, Database, Write, Saved, NotSaved, WithRequest

\* A pending voice names no request, a bound one is of the home chat, and a
\* message that reached a call names that call's request or none.
PendingUnbound(d) ==
    \A v \in Voices : d.voice[v].status = "pending" => d.voice[v].req = None

Routed ==
    /\ PendingUnbound(db) /\ PendingUnbound(disk)
    /\ handler.step \in {"binding", "bound", "sending"} => ChatOf[handler.voice] = Home
    /\ \A c \in Calls :
          /\ chan[c] # None => chan[c].req = c /\ ChatOf[chan[c].id] = Home
          /\ held[c] # None => held[c].req \in {None, c} /\ ChatOf[held[c].id] = Home

\* A write keeps PendingUnbound, unless it writes a pending voice with a request.
LEMMA WriteUnbound ==
    ASSUME TypeOK, PendingUnbound(db), PendingUnbound(disk)
    PROVE  /\ \A c \in Calls, s \in RequestStatus :
                 Write(WithRequest(c, s)) => PendingUnbound(db') /\ PendingUnbound(disk')
           /\ \A v \in Voices, s \in VoiceStatus, r \in Calls \cup {None} :
                 Write(WithVoice(v, s, r)) /\ (s = "pending" => r = None)
                    => PendingUnbound(db') /\ PendingUnbound(disk')
<1>1. ASSUME NEW c \in Calls, NEW s \in RequestStatus, Write(WithRequest(c, s))
      PROVE  PendingUnbound(db') /\ PendingUnbound(disk')
  BY <1>1, RequestWrite DEF PendingUnbound
<1>2. ASSUME NEW v \in Voices, NEW s \in VoiceStatus, NEW r \in Calls \cup {None},
             Write(WithVoice(v, s, r)), s = "pending" => r = None
      PROVE  PendingUnbound(db') /\ PendingUnbound(disk')
  <2>1. /\ db'.voice = [db.voice EXCEPT ![v] = [status |-> s, req |-> r]]
        /\ disk' = db' \/ disk' = disk
    BY <1>2, VoiceWrite
  <2>2. DOMAIN db.voice = Voices
    BY DEF TypeOK, Database
  <2>3. PendingUnbound(db')
    BY <1>2, <2>1, <2>2 DEF PendingUnbound
  <2> QED BY <2>1, <2>3 DEF PendingUnbound
<1> QED BY <1>1, <1>2

LEMMA RoutedInit == Init => Routed
  BY DEF Init, Routed, PendingUnbound, EmptyDb, IdleHandler

LEMMA RoutedStep == TypeInv /\ Routed /\ [Next]_vars => Routed'
<1> SUFFICES ASSUME TypeInv, Routed, [Next]_vars PROVE Routed'
  OBVIOUS
<1>0. TypeOK /\ Holding
  BY DEF TypeInv
<1> USE DEF Routed
<1>1. ASSUME NEW c \in Calls, Open(c) PROVE Routed'
  <2>1. CASE held' = held
    BY <1>1, <2>1 DEF Open, storeVars, PendingUnbound
  <2>2. ASSUME NEW v \in PendingVoices(Home),
               held' = [held EXCEPT ![c] = [id |-> v, req |-> db.voice[v].req]]
        PROVE  Routed'
    <3>1. db.voice[v].req = None /\ ChatOf[v] = Home
      BY <2>2 DEF PendingVoices, PendingUnbound
    <3>2. held' = [held EXCEPT ![c] = [id |-> v, req |-> None]]
      BY <2>2, <3>1
    <3> QED BY <1>0, <1>1, <3>1, <3>2 DEF Open, storeVars, PendingUnbound, TypeOK
  <2> QED BY <1>1, <2>1, <2>2 DEF Open, IsOldest
<1>2. ASSUME NEW c \in Calls, CreateRequest(c) PROVE Routed'
  <2>1. Write(WithRequest(c, "waiting"))
    BY <1>2 DEF CreateRequest, Write
  <2>2. PendingUnbound(db') /\ PendingUnbound(disk')
    BY <1>0, <2>1, WriteUnbound DEF RequestStatus, PendingUnbound
  <2> QED BY <1>2, <2>2 DEF CreateRequest, PendingUnbound
<1>3. ASSUME NEW c \in Calls, Register(c) PROVE Routed'
  BY <1>3 DEF Register, storeVars, PendingUnbound
<1>4. ASSUME NEW c \in Calls, Receive(c) PROVE Routed'
  BY <1>0, <1>4 DEF Receive, storeVars, PendingUnbound, TypeOK
<1>5. ASSUME NEW c \in Calls, GiveUp(c) PROVE Routed'
  BY <1>5 DEF GiveUp, storeVars, PendingUnbound
<1>6. ASSUME NEW c \in Calls, Expire(c) PROVE Routed'
  <2>1. Write(WithRequest(c, "expired")) \/ UNCHANGED <<db, disk, faults>>
    BY <1>6 DEF Expire
  <2>2. PendingUnbound(db') /\ PendingUnbound(disk')
    BY <1>0, <2>1, WriteUnbound DEF RequestStatus, PendingUnbound
  <2> QED BY <1>6, <2>2 DEF Expire, PendingUnbound
<1>7. ASSUME NEW c \in Calls, BeginProcessing(c) PROVE Routed'
  <2>1. held[c].id \in Voices /\ held[c].req \in Calls \cup {None}
    BY <1>0, <1>7 DEF BeginProcessing, TypeOK, Holding, Message
  <2>2. PendingUnbound(db') /\ PendingUnbound(disk')
    BY <1>0, <1>7, <2>1, WriteUnbound DEF BeginProcessing, VoiceStatus
  <2> QED BY <1>7, <2>2 DEF BeginProcessing, PendingUnbound
<1>8. ASSUME NEW c \in Calls, Interpret(c) PROVE Routed'
  <2>1. held[c].id \in Voices /\ held[c].req \in Calls \cup {None}
    BY <1>0, <1>8 DEF Interpret, TypeOK, Holding, Message
  <2>2. PICK s \in {"consumed", "failed"} : Write(WithVoice(held[c].id, s, held[c].req))
    BY <1>8 DEF Interpret
  <2>3. PendingUnbound(db') /\ PendingUnbound(disk')
    BY <1>0, <2>1, <2>2, WriteUnbound DEF VoiceStatus
  <2> QED BY <1>8, <2>3 DEF Interpret, PendingUnbound
<1>9. ASSUME NEW c \in Calls, Complete(c) PROVE Routed'
  <2>1. held[c].req # None => held[c].req \in Calls
    BY <1>0, <1>9 DEF Complete, TypeOK, Holding, Message
  <2>2. (held[c].req # None /\ Write(WithRequest(held[c].req, "completed")))
          \/ UNCHANGED <<db, disk, faults>>
    BY <1>9 DEF Complete
  <2>3. PendingUnbound(db') /\ PendingUnbound(disk')
    BY <1>0, <2>1, <2>2, WriteUnbound DEF RequestStatus, PendingUnbound
  <2> QED BY <1>9, <2>3 DEF Complete, PendingUnbound
<1>10. ASSUME NEW c \in Calls, Leave(c) PROVE Routed'
  BY <1>10 DEF Leave, storeVars, PendingUnbound
<1>11. ASSUME NEW v \in Voices, StoreVoice(v) PROVE Routed'
  <2>1. Write(WithVoice(v, "pending", None))
    BY <1>11 DEF StoreVoice, Write
  <2>2. PendingUnbound(db') /\ PendingUnbound(disk')
    BY <1>0, <2>1, WriteUnbound DEF VoiceStatus
  <2> QED BY <1>11, <2>2 DEF StoreVoice, PendingUnbound, callVars
<1>12. ASSUME PickRequest PROVE Routed'
  BY <1>12 DEF PickRequest, IdleHandler, IsOldest, WaitingRequests, storeVars, callVars,
               PendingUnbound
<1>13. ASSUME ClaimVoice PROVE Routed'
  <2>1. PendingUnbound(db') /\ PendingUnbound(disk')
    BY <1>0, <1>13, WriteUnbound DEF ClaimVoice, Holding, VoiceStatus
  <2> QED BY <1>0, <1>13, <2>1 DEF ClaimVoice, PendingUnbound, callVars, TypeOK
<1>14. ASSUME FindWaiter PROVE Routed'
  BY <1>0, <1>14 DEF FindWaiter, IdleHandler, storeVars, callVars, PendingUnbound, TypeOK
<1>15. ASSUME Send PROVE Routed'
  BY <1>0, <1>15 DEF Send, IdleHandler, storeVars, PendingUnbound, TypeOK
<1>16. ASSUME Restart PROVE Routed'
  BY <1>16 DEF Restart, IdleHandler, PendingUnbound
<1>17. CASE UNCHANGED vars
  BY <1>17 DEF vars, storeVars, callVars, PendingUnbound
<1> QED
  BY <1>1, <1>2, <1>3, <1>4, <1>5, <1>6, <1>7, <1>8, <1>9, <1>10, <1>11, <1>12,
     <1>13, <1>14, <1>15, <1>16, <1>17 DEF Next, Listener, Handler

\* No agent is ever handed a voice of another chat than the one it is bound to.
THEOREM NoForeignVoiceAlways == Spec => []NoForeignVoice
<1>1. Spec => [](TypeInv /\ Routed)
  BY TypeInit, TypeStep, RoutedInit, RoutedStep, PTL DEF Spec
<1>2. Routed => NoForeignVoice
  BY DEF Routed, NoForeignVoice
<1> QED BY <1>1, <1>2, PTL

-----------------------------------------------------------------------------
(***************************************************************************)
(* The ledger: the step a call is at determines its request's status.      *)
(***************************************************************************)

\* The status of c's request while c is at its step.
LedgerOf(c) ==
    /\ pc[c] \in {"idle", "asking"} => db.req[c] = "none"
    /\ pc[c] \in {"registering", "waiting", "expiring"} => db.req[c] = "waiting"
    /\ pc[c] \in {"begin", "interpreting", "completing"} =>
          db.req[c] = IF held[c].req = None THEN "none" ELSE "waiting"
    /\ pc[c] \in {"leaving", "returned"} => db.req[c] = SettledAs(c)
    /\ pc[c] = "expiring" => outcome[c] = "timeout"
    /\ pc[c] = "completing" => outcome[c] # "timeout"

Ledger == faults = 0 => disk = db /\ \A c \in Calls : LedgerOf(c)

LEMMA LedgerInit == Init => Ledger
  BY DEF Init, Ledger, LedgerOf, EmptyDb

\* A step that leaves c's locals and request alone keeps its part of the ledger.
LEMMA LedgerFrame ==
    ASSUME NEW c \in Calls, LedgerOf(c), db'.req[c] = db.req[c], pc'[c] = pc[c],
           held'[c] = held[c], outcome'[c] = outcome[c]
    PROVE  LedgerOf(c)'
  BY DEF LedgerOf, SettledAs

LEMMA LedgerStep == TypeInv /\ Routed /\ Ledger /\ [Next]_vars => Ledger'
<1> SUFFICES ASSUME TypeInv, Routed, Ledger, [Next]_vars, faults' = 0
             PROVE  disk' = db' /\ \A c \in Calls : LedgerOf(c)'
  BY DEF Ledger
<1>0. TypeOK /\ Holding
  BY DEF TypeInv
<1>a. ASSUME UNCHANGED <<db, disk, faults>>
      PROVE  disk' = db' /\ \A d \in Calls : LedgerOf(d)
  BY <1>a DEF Ledger
<1>b. ASSUME NEW c \in Calls, NEW s \in RequestStatus, Write(WithRequest(c, s))
      PROVE  /\ disk' = db' /\ \A d \in Calls : LedgerOf(d)
             /\ db'.req[c] = s /\ \A d \in Calls \ {c} : db'.req[d] = db.req[d]
  <2>1. db'.req = [db.req EXCEPT ![c] = s] /\ faults = 0 /\ disk' = db'
    BY <1>0, <1>b, RequestWrite
  <2>2. DOMAIN db.req = Calls
    BY <1>0 DEF TypeOK, Database
  <2> QED BY <2>1, <2>2 DEF Ledger
<1>c. ASSUME NEW v \in Voices, NEW s \in VoiceStatus, NEW r \in Calls \cup {None},
             Write(WithVoice(v, s, r))
      PROVE  disk' = db' /\ db'.req = db.req /\ \A d \in Calls : LedgerOf(d)
  BY <1>0, <1>c, VoiceWrite DEF Ledger
<1>1. ASSUME NEW c \in Calls, Open(c) PROVE disk' = db' /\ \A d \in Calls : LedgerOf(d)'
  <2>1. disk' = db' /\ db' = db /\ \A d \in Calls : LedgerOf(d)
    BY <1>1, <1>a DEF Open, storeVars
  <2>2. LedgerOf(c)'
    <3>1. CASE pc' = [pc EXCEPT ![c] = "asking"]
      BY <1>0, <1>1, <2>1, <3>1 DEF Open, LedgerOf, TypeOK
    <3>2. ASSUME NEW v \in Voices, v \in PendingVoices(Home),
                 held' = [held EXCEPT ![c] = [id |-> v, req |-> db.voice[v].req]],
                 pc' = [pc EXCEPT ![c] = "begin"]
          PROVE  LedgerOf(c)'
      <4>1. db.voice[v].req = None
        BY <3>2 DEF Routed, PendingVoices, PendingUnbound
      <4>2. held'[c].req = None /\ pc'[c] = "begin"
        BY <1>0, <3>2, <4>1 DEF TypeOK
      <4> QED BY <1>1, <2>1, <4>2 DEF Open, LedgerOf
    <3> QED BY <1>1, <3>1, <3>2 DEF Open, IsOldest
  <2>3. ASSUME NEW d \in Calls \ {c} PROVE LedgerOf(d)'
    BY <1>0, <1>1, <2>1, LedgerFrame DEF Open, TypeOK
  <2> QED BY <2>1, <2>2, <2>3
<1>2. ASSUME NEW c \in Calls, CreateRequest(c)
      PROVE  disk' = db' /\ \A d \in Calls : LedgerOf(d)'
  <2>1. Write(WithRequest(c, "waiting")) /\ pc' = [pc EXCEPT ![c] = "registering"]
    BY <1>0, <1>2 DEF CreateRequest, Write, NotSaved, TypeOK
  <2>2. /\ disk' = db' /\ \A d \in Calls : LedgerOf(d)
        /\ db'.req[c] = "waiting" /\ \A d \in Calls \ {c} : db'.req[d] = db.req[d]
    BY <2>1, <1>b DEF RequestStatus
  <2>3. outcome'[c] = outcome[c] \/ pc'[c] = "registering"
    BY <1>0, <2>1 DEF TypeOK
  <2>4. LedgerOf(c)'
    BY <1>0, <2>1, <2>2 DEF LedgerOf, TypeOK
  <2>5. ASSUME NEW d \in Calls \ {c} PROVE LedgerOf(d)'
    BY <1>0, <1>2, <2>2, LedgerFrame DEF CreateRequest, TypeOK
  <2> QED BY <2>2, <2>4, <2>5
<1>3. ASSUME NEW c \in Calls, Register(c) \/ GiveUp(c)
      PROVE  disk' = db' /\ \A d \in Calls : LedgerOf(d)'
  <2>1. disk' = db' /\ db' = db /\ \A d \in Calls : LedgerOf(d)
    BY <1>3, <1>a DEF Register, GiveUp, storeVars
  <2>2. LedgerOf(c)'
    BY <1>0, <1>3, <2>1 DEF Register, GiveUp, LedgerOf, TypeOK
  <2>3. ASSUME NEW d \in Calls \ {c} PROVE LedgerOf(d)'
    BY <1>0, <1>3, <2>1, LedgerFrame DEF Register, GiveUp, TypeOK
  <2> QED BY <2>1, <2>2, <2>3
<1>4. ASSUME NEW c \in Calls, Receive(c) PROVE disk' = db' /\ \A d \in Calls : LedgerOf(d)'
  <2>1. disk' = db' /\ db' = db /\ \A d \in Calls : LedgerOf(d)
    BY <1>4, <1>a DEF Receive, storeVars
  <2>2. held'[c].req = c /\ pc'[c] = "begin" /\ c # None
    BY <1>0, <1>4, ServiceAssumption DEF Receive, TypeOK, Routed
  <2>3. LedgerOf(c)'
    BY <1>4, <2>1, <2>2 DEF Receive, LedgerOf
  <2>4. ASSUME NEW d \in Calls \ {c} PROVE LedgerOf(d)'
    BY <1>0, <1>4, <2>1, LedgerFrame DEF Receive, TypeOK
  <2> QED BY <2>1, <2>3, <2>4
<1>5. ASSUME NEW c \in Calls, Expire(c) PROVE disk' = db' /\ \A d \in Calls : LedgerOf(d)'
  <2>1. db.req[c] = "waiting" /\ outcome[c] = "timeout"
    BY <1>0, <1>5, ServiceAssumption DEF Expire, Ledger, LedgerOf, TypeOK, Write, Saved, NotSaved
  <2>2. /\ disk' = db' /\ \A d \in Calls : LedgerOf(d)
        /\ db'.req[c] = "expired" /\ \A d \in Calls \ {c} : db'.req[d] = db.req[d]
    BY <1>5, <2>1, <1>b DEF Expire, RequestStatus
  <2>3. LedgerOf(c)'
    BY <1>0, <1>5, <2>1, <2>2 DEF Expire, LedgerOf, SettledAs, TypeOK
  <2>4. ASSUME NEW d \in Calls \ {c} PROVE LedgerOf(d)'
    BY <1>0, <1>5, <2>2, LedgerFrame DEF Expire, TypeOK
  <2> QED BY <2>2, <2>3, <2>4
<1>6. ASSUME NEW c \in Calls, BeginProcessing(c) \/ Interpret(c)
      PROVE  disk' = db' /\ \A d \in Calls : LedgerOf(d)'
  <2>1. held[c].id \in Voices /\ held[c].req \in Calls \cup {None}
    BY <1>0, <1>6 DEF BeginProcessing, Interpret, TypeOK, Holding, Message
  <2>2. PICK s \in VoiceStatus : Write(WithVoice(held[c].id, s, held[c].req))
    BY <1>6 DEF BeginProcessing, Interpret, VoiceStatus
  <2>3. disk' = db' /\ db'.req = db.req /\ \A d \in Calls : LedgerOf(d)
    BY <2>1, <2>2, <1>c
  <2>4. LedgerOf(c)'
    BY <1>0, <1>6, <2>3 DEF BeginProcessing, Interpret, LedgerOf, TypeOK
  <2>5. ASSUME NEW d \in Calls \ {c} PROVE LedgerOf(d)'
    BY <1>0, <1>6, <2>3, LedgerFrame DEF BeginProcessing, Interpret, TypeOK
  <2> QED BY <2>3, <2>4, <2>5
<1>7. ASSUME NEW c \in Calls, Complete(c) PROVE disk' = db' /\ \A d \in Calls : LedgerOf(d)'
  <2>0. held[c] # None /\ held[c].req \in {None, c}
    BY <1>0, <1>7 DEF Complete, Holding, Routed
  <2>1. CASE held[c].req = None
    <3>1. disk' = db' /\ db' = db /\ \A d \in Calls : LedgerOf(d)
      BY <1>7, <2>1, <1>a DEF Complete
    <3>2. LedgerOf(c)'
      BY <1>0, <1>7, <2>1, <3>1 DEF Complete, LedgerOf, SettledAs, TypeOK
    <3>3. ASSUME NEW d \in Calls \ {c} PROVE LedgerOf(d)'
      BY <1>0, <1>7, <3>1, LedgerFrame DEF Complete, TypeOK
    <3> QED BY <3>1, <3>2, <3>3
  <2>2. CASE held[c].req = c /\ c # None
    <3>0. faults = 0
      BY <1>0, <1>7, ServiceAssumption DEF Complete, TypeOK, Write, Saved, NotSaved
    <3>1. db.req[c] = "waiting"
      BY <1>7, <2>2, <3>0 DEF Complete, Ledger, LedgerOf
    <3>2. Write(WithRequest(c, "completed"))
      BY <1>7, <2>2, <3>1 DEF Complete
    <3>3. /\ disk' = db' /\ \A d \in Calls : LedgerOf(d)
          /\ db'.req[c] = "completed" /\ \A d \in Calls \ {c} : db'.req[d] = db.req[d]
      BY <3>2, <1>b DEF RequestStatus
    <3>4. LedgerOf(c)'
      BY <1>0, <1>7, <2>2, <3>3 DEF Complete, LedgerOf, SettledAs, TypeOK
    <3>5. ASSUME NEW d \in Calls \ {c} PROVE LedgerOf(d)'
      BY <1>0, <1>7, <3>3, LedgerFrame DEF Complete, TypeOK
    <3> QED BY <3>3, <3>4, <3>5
  <2> QED BY <2>0, <2>1, <2>2
<1>8. ASSUME NEW c \in Calls, Leave(c) PROVE disk' = db' /\ \A d \in Calls : LedgerOf(d)'
  <2>1. disk' = db' /\ db' = db /\ \A d \in Calls : LedgerOf(d)
    BY <1>8, <1>a DEF Leave, storeVars
  <2>2. LedgerOf(c)'
    BY <1>0, <1>8, <2>1 DEF Leave, LedgerOf, SettledAs, TypeOK
  <2>3. ASSUME NEW d \in Calls \ {c} PROVE LedgerOf(d)'
    BY <1>0, <1>8, <2>1, LedgerFrame DEF Leave, TypeOK
  <2> QED BY <2>1, <2>2, <2>3
<1>9. ASSUME NEW v \in Voices, StoreVoice(v)
      PROVE  disk' = db' /\ \A d \in Calls : LedgerOf(d)'
  <2>1. Write(WithVoice(v, "pending", None))
    BY <1>9 DEF StoreVoice, Write
  <2>2. disk' = db' /\ db'.req = db.req /\ \A d \in Calls : LedgerOf(d)
    BY <2>1, <1>c DEF VoiceStatus
  <2> QED BY <1>9, <2>2, LedgerFrame DEF StoreVoice, callVars
<1>10. ASSUME ClaimVoice PROVE disk' = db' /\ \A d \in Calls : LedgerOf(d)'
  <2>1. Write(WithVoice(handler.voice, "claimed", handler.req))
    BY <1>10 DEF ClaimVoice
  <2>2. disk' = db' /\ db'.req = db.req /\ \A d \in Calls : LedgerOf(d)
    BY <1>0, <1>10, <2>1, <1>c DEF ClaimVoice, Holding, VoiceStatus
  <2> QED BY <1>10, <2>2, LedgerFrame DEF ClaimVoice, callVars
<1>11. ASSUME PickRequest \/ FindWaiter \/ Send
       PROVE  disk' = db' /\ \A d \in Calls : LedgerOf(d)'
  <2>1. disk' = db' /\ db' = db /\ \A d \in Calls : LedgerOf(d)
    BY <1>11, <1>a DEF PickRequest, FindWaiter, Send, storeVars
  <2>2. UNCHANGED <<pc, held, outcome>>
    BY <1>11 DEF PickRequest, FindWaiter, Send, callVars
  <2> QED BY <2>1, <2>2, LedgerFrame
<1>12. ASSUME Restart PROVE disk' = db' /\ \A d \in Calls : LedgerOf(d)'
  <2>1. disk' = db' /\ db' = db /\ \A d \in Calls : LedgerOf(d)
    BY <1>12 DEF Restart, Ledger
  <2>2. ASSUME NEW d \in Calls PROVE LedgerOf(d)'
    <3>1. CASE IsOpen(d)
      BY <1>12, <3>1 DEF Restart, LedgerOf
    <3>2. CASE ~IsOpen(d)
      BY <1>12, <2>1, <3>2, LedgerFrame DEF Restart
    <3> QED BY <3>1, <3>2
  <2> QED BY <2>1, <2>2
<1>13. CASE UNCHANGED vars
  <2>1. UNCHANGED <<db, disk, faults, pc, held, outcome>>
    BY <1>13 DEF vars, storeVars, callVars
  <2> QED BY <1>a, <2>1, LedgerFrame
<1> QED
  BY <1>1, <1>2, <1>3, <1>4, <1>5, <1>6, <1>7, <1>8, <1>9, <1>10, <1>11, <1>12, <1>13
     DEF Next, Listener, Handler

IInv == TypeInv /\ Routed /\ Ledger

\* The inductive invariant of VoiceService.
LEMMA IInvAlways == Spec => []IInv
<1>1. Init => IInv
  BY TypeInit, RoutedInit, LedgerInit DEF IInv
<1>2. IInv /\ [Next]_vars => IInv'
  BY TypeStep, RoutedStep, LedgerStep DEF IInv
<1> QED BY <1>1, <1>2, PTL DEF Spec

\* ListenVoice leaves no waiting request behind, on any path.
THEOREM NoOrphanRequestAlways == Spec => []NoOrphanRequest
<1>1. IInv => NoOrphanRequest
  <2> SUFFICES ASSUME IInv, faults = 0, NEW c \in Calls, db.req[c] = "waiting"
               PROVE  IsOpen(c) \/ pc[c] = "dead"
    BY DEF NoOrphanRequest
  <2>1. LedgerOf(c) /\ pc[c] \in Steps
    BY DEF IInv, TypeInv, TypeOK, Ledger
  <2> QED BY <2>1 DEF LedgerOf, SettledAs, IsOpen, Steps
<1> QED BY <1>1, IInvAlways, PTL

\* What a call returned and the status of its request agree.
THEOREM OutcomeMatchesRequestAlways == Spec => []OutcomeMatchesRequest
<1>1. IInv => OutcomeMatchesRequest
  BY DEF IInv, Ledger, LedgerOf, OutcomeMatchesRequest
<1> QED BY <1>1, IInvAlways, PTL

\* Failed writes are counted and never forgotten.
LEMMA FaultsGrow == [Next]_vars => faults' \in {faults, faults + 1}
<1> SUFFICES ASSUME [Next]_vars PROVE faults' \in {faults, faults + 1}
  OBVIOUS
<1>1. ASSUME NEW d, Write(d) PROVE faults' \in {faults, faults + 1}
  BY <1>1 DEF Write, Saved, NotSaved
<1>2. ASSUME NEW c \in Calls,
             Open(c) \/ Register(c) \/ Receive(c) \/ GiveUp(c) \/ Leave(c)
      PROVE  faults' = faults
  BY <1>2 DEF Open, Register, Receive, GiveUp, Leave, storeVars
<1>3. ASSUME NEW c \in Calls, CreateRequest(c) PROVE faults' \in {faults, faults + 1}
  BY <1>3 DEF CreateRequest, Saved, NotSaved
<1>4. ASSUME NEW c \in Calls, Expire(c) \/ BeginProcessing(c) \/ Interpret(c) \/ Complete(c)
      PROVE  faults' \in {faults, faults + 1}
  BY <1>1, <1>4 DEF Expire, BeginProcessing, Interpret, Complete
<1>5. ASSUME NEW v \in Voices, StoreVoice(v) PROVE faults' \in {faults, faults + 1}
  BY <1>5 DEF StoreVoice, Saved, NotSaved
<1>6. ASSUME ClaimVoice PROVE faults' \in {faults, faults + 1}
  BY <1>1, <1>6 DEF ClaimVoice
<1>7. ASSUME PickRequest \/ FindWaiter \/ Send \/ Restart \/ UNCHANGED vars
      PROVE  faults' = faults
  BY <1>7 DEF PickRequest, FindWaiter, Send, Restart, vars, storeVars
<1> QED BY <1>2, <1>3, <1>4, <1>5, <1>6, <1>7 DEF Next, Listener, Handler

\* A settled request is never reopened, across crashes as well.
THEOREM SettledForGoodAlways == Spec => SettledForGood
<1> DEFINE Kept == \A c \in Calls : faults' = 0 /\ db.req[c] \in {"completed", "expired"}
                                       => db'.req[c] = db.req[c]
<1>1. IInv /\ [Next]_vars => [Kept]_vars
  <2> SUFFICES ASSUME IInv, [Next]_vars, faults' = 0,
                      NEW c \in Calls, db.req[c] \in {"completed", "expired"}
               PROVE  db'.req[c] = db.req[c]
    OBVIOUS
  <2>0. TypeOK /\ Holding /\ Routed /\ Ledger
    BY DEF IInv, TypeInv
  <2>1. faults = 0 /\ disk = db /\ \A d \in Calls : LedgerOf(d)
    <3>1. faults = 0
      BY <2>0, FaultsGrow, ServiceAssumption DEF TypeOK
    <3> QED BY <2>0, <3>1 DEF Ledger
  <2>2. ASSUME NEW d \in Calls, NEW s \in RequestStatus, Write(WithRequest(d, s)), d # c
        PROVE  db'.req[c] = db.req[c]
    <3>1. db'.req = [db.req EXCEPT ![d] = s]
      BY <2>0, <2>2, RequestWrite
    <3> QED BY <2>2, <3>1
  <2>3. ASSUME NEW v \in Voices, NEW s \in VoiceStatus, NEW r \in Calls \cup {None},
               Write(WithVoice(v, s, r))
        PROVE  db'.req[c] = db.req[c]
    BY <2>0, <2>3, VoiceWrite
  <2>4. ASSUME NEW d \in Calls, CreateRequest(d) PROVE db'.req[c] = db.req[c]
    <3>1. Write(WithRequest(d, "waiting")) /\ d # c
      BY <2>1, <2>4 DEF CreateRequest, Write, LedgerOf
    <3> QED BY <2>2, <3>1 DEF RequestStatus
  <2>5. ASSUME NEW d \in Calls, Expire(d) PROVE db'.req[c] = db.req[c]
    <3>1. (Write(WithRequest(d, "expired")) /\ d # c) \/ db' = db
      BY <2>5 DEF Expire
    <3> QED BY <2>2, <3>1 DEF RequestStatus
  <2>6. ASSUME NEW d \in Calls, Complete(d) PROVE db'.req[c] = db.req[c]
    <3>1. held[d].req \in {None, d}
      BY <2>0, <2>6 DEF Complete, Holding, Routed
    <3>2. (Write(WithRequest(d, "completed")) /\ d # c) \/ db' = db
      BY <2>1, <2>6, <3>1 DEF Complete, LedgerOf
    <3> QED BY <2>2, <3>2 DEF RequestStatus
  <2>7. ASSUME NEW d \in Calls, BeginProcessing(d) \/ Interpret(d)
        PROVE  db'.req[c] = db.req[c]
    <3>1. held[d].id \in Voices /\ held[d].req \in Calls \cup {None}
      BY <2>0, <2>7 DEF BeginProcessing, Interpret, TypeOK, Holding, Message
    <3>2. \E s \in VoiceStatus : Write(WithVoice(held[d].id, s, held[d].req))
      BY <2>7 DEF BeginProcessing, Interpret, VoiceStatus
    <3> QED BY <2>3, <3>1, <3>2
  <2>8. ASSUME NEW v \in Voices, StoreVoice(v) PROVE db'.req[c] = db.req[c]
    <3>1. Write(WithVoice(v, "pending", None))
      BY <2>8 DEF StoreVoice, Write
    <3> QED BY <2>3, <3>1 DEF VoiceStatus
  <2>9. ASSUME ClaimVoice PROVE db'.req[c] = db.req[c]
    BY <2>0, <2>3, <2>9 DEF ClaimVoice, Holding, VoiceStatus
  <2>10. ASSUME Restart PROVE db'.req[c] = db.req[c]
    BY <2>1, <2>10 DEF Restart
  <2>11. ASSUME NEW d \in Calls, Open(d) \/ Register(d) \/ Receive(d) \/ GiveUp(d) \/ Leave(d)
         PROVE  db'.req[c] = db.req[c]
    BY <2>11 DEF Open, Register, Receive, GiveUp, Leave, storeVars
  <2>12. ASSUME PickRequest \/ FindWaiter \/ Send PROVE db'.req[c] = db.req[c]
    BY <2>12 DEF PickRequest, FindWaiter, Send, storeVars
  <2>13. CASE UNCHANGED vars
    BY <2>13 DEF vars, storeVars
  <2> QED
    BY <2>4, <2>5, <2>6, <2>7, <2>8, <2>9, <2>10, <2>11, <2>12, <2>13
       DEF Next, Listener, Handler
<1> QED BY <1>1, IInvAlways, PTL DEF Spec, SettledForGood

-----------------------------------------------------------------------------
(***************************************************************************)
(* A voice is live, in a channel or received from one, at one call only.   *)
(***************************************************************************)
Live(c, v) ==
    \/ chan[c] # None /\ chan[c].id = v
    \/ held[c] # None /\ held[c].req # None /\ held[c].id = v

LiveOnce ==
    \A v \in Voices :
        /\ \A c, d \in Calls : Live(c, v) /\ Live(d, v) => c = d
        /\ handler.step # "idle" /\ handler.voice = v => \A c \in Calls : ~Live(c, v)
        /\ voiceAt[v] = 0 => /\ \A c \in Calls : ~Live(c, v)
                             /\ handler.step # "idle" => handler.voice # v

LEMMA LiveOnceInit == Init => LiveOnce
  BY DEF Init, LiveOnce, Live, IdleHandler

LEMMA LiveOnceStep == TypeInv /\ Routed /\ LiveOnce /\ [Next]_vars => LiveOnce'
<1> SUFFICES ASSUME TypeInv, Routed, LiveOnce, [Next]_vars PROVE LiveOnce'
  OBVIOUS
<1>0. TypeOK /\ Holding
  BY DEF TypeInv
\* It suffices that no call gains a live voice and the handler keeps its own.
<1>a. ASSUME \A c \in Calls, v \in Voices : Live(c, v)' => Live(c, v),
             voiceAt' = voiceAt,
             handler'.step # "idle" => handler.step # "idle" /\ handler'.voice = handler.voice
      PROVE  LiveOnce'
  BY <1>a DEF LiveOnce
<1>1. ASSUME NEW c \in Calls, Open(c) PROVE LiveOnce'
  <2>1. \A v \in PendingVoices(Home) : db.voice[v].req = None
    BY DEF Routed, PendingVoices, PendingUnbound
  <2>2. \/ held' = held
        \/ \E v \in Voices : held' = [held EXCEPT ![c] = [id |-> v, req |-> None]]
    BY <1>1, <2>1 DEF Open, IsOldest
  <2>3. \A d \in Calls, v \in Voices : Live(d, v)' => Live(d, v)
    BY <1>0, <1>1, <2>2 DEF Open, Live, TypeOK
  <2> QED BY <1>1, <1>a, <2>3 DEF Open, storeVars
<1>2. ASSUME NEW c \in Calls, Receive(c) PROVE LiveOnce'
  <2>1. \A d \in Calls, v \in Voices : Live(d, v)' => Live(d, v)
    BY <1>0, <1>2 DEF Receive, Live, TypeOK
  <2> QED BY <1>2, <1>a, <2>1 DEF Receive, storeVars
<1>3. ASSUME NEW c \in Calls,
             CreateRequest(c) \/ Register(c) \/ GiveUp(c) \/ Expire(c) \/ BeginProcessing(c)
                \/ Interpret(c) \/ Complete(c) \/ Leave(c)
      PROVE  LiveOnce'
  <2>1. UNCHANGED <<chan, held, voiceAt, handler>>
    BY <1>3 DEF CreateRequest, Register, GiveUp, Expire, BeginProcessing, Interpret,
                Complete, Leave, storeVars
  <2> QED BY <1>a, <2>1 DEF Live
<1>4. ASSUME NEW v \in Voices, StoreVoice(v) PROVE LiveOnce'
  <2>1. \A c \in Calls, w \in Voices : Live(c, w)' <=> Live(c, w)
    BY <1>4 DEF StoreVoice, callVars, Live
  <2>2. voiceAt[v] = 0 /\ voiceAt'[v] # 0 /\ \A w \in Voices \ {v} : voiceAt'[w] = voiceAt[w]
    BY <1>0, <1>4 DEF StoreVoice, TypeOK
  <2>3. handler.step = "idle" /\ (handler'.step # "idle" => handler'.voice = v)
    BY <1>4 DEF StoreVoice
  <2> QED BY <2>1, <2>2, <2>3 DEF LiveOnce
<1>5. ASSUME PickRequest \/ ClaimVoice \/ FindWaiter PROVE LiveOnce'
  <2>1. UNCHANGED <<chan, held, voiceAt>>
    BY <1>5 DEF PickRequest, ClaimVoice, FindWaiter, storeVars, callVars
  <2>2. handler'.step # "idle" => handler.step # "idle" /\ handler'.voice = handler.voice
    BY <1>0, <1>5 DEF PickRequest, ClaimVoice, FindWaiter, IdleHandler, TypeOK
  <2> QED BY <1>a, <2>1, <2>2 DEF Live
<1>6. ASSUME Send PROVE LiveOnce'
  <2>1. handler.step # "idle" /\ handler.voice \in Voices /\ voiceAt' = voiceAt
    BY <1>0, <1>6 DEF Send, Holding, storeVars
  <2>2. handler'.step = "idle"
    BY <1>6 DEF Send, IdleHandler
  <2>3. \A c \in Calls, v \in Voices :
           Live(c, v)' => Live(c, v) \/ (c = handler.req /\ v = handler.voice)
    BY <1>0, <1>6 DEF Send, Live, TypeOK
  <2>4. voiceAt[handler.voice] # 0 /\ \A c \in Calls : ~Live(c, handler.voice)
    BY <2>1 DEF LiveOnce
  <2> QED BY <2>1, <2>2, <2>3, <2>4 DEF LiveOnce
<1>7. ASSUME Restart PROVE LiveOnce'
  <2>1. \A c \in Calls, v \in Voices : Live(c, v)' => Live(c, v)
    BY <1>7 DEF Restart, Live
  <2> QED BY <1>7, <1>a, <2>1 DEF Restart, IdleHandler
<1>8. CASE UNCHANGED vars
  <2>1. UNCHANGED <<chan, held, voiceAt, handler>>
    BY <1>8 DEF vars, storeVars, callVars
  <2> QED BY <1>a, <2>1 DEF Live
<1> QED
  BY <1>1, <1>2, <1>3, <1>4, <1>5, <1>6, <1>7, <1>8 DEF Next, Listener, Handler

\* A voice is handed to one call live, whatever the routing raced with.
THEOREM OneLiveAnswerAlways == Spec => []OneLiveAnswer
<1>1. Spec => [](TypeInv /\ Routed /\ LiveOnce)
  BY TypeInit, TypeStep, RoutedInit, RoutedStep, LiveOnceInit, LiveOnceStep, PTL DEF Spec
<1>2. TypeInv /\ LiveOnce => OneLiveAnswer
  BY DEF TypeInv, TypeOK, LiveOnce, Live, OneLiveAnswer, Message
<1> QED BY <1>1, <1>2, PTL

-----------------------------------------------------------------------------
(***************************************************************************)
(* The promise to one agent.  A call is begun once its voice is marked in  *)
(* memory; from then on the voice is pending nowhere, or only in the file  *)
(* and only until the next write, which must succeed after a failed one.   *)
(***************************************************************************)

\* What a step does to the store.
LEMMA StoreStep ==
    ASSUME TypeInv, [Next]_vars
    PROVE  \/ UNCHANGED <<db, disk, faults>>
           \/ \E c \in Calls, s \in RequestStatus : Write(WithRequest(c, s))
           \/ \E v \in Voices, s \in VoiceStatus \ {"pending"}, r \in Calls \cup {None} :
                 Write(WithVoice(v, s, r))
           \/ \E v \in Voices : StoreVoice(v)
           \/ Restart
<1> USE DEF TypeInv, RequestStatus, VoiceStatus
<1>1. ASSUME NEW c \in Calls,
             Open(c) \/ Register(c) \/ Receive(c) \/ GiveUp(c) \/ Leave(c)
      PROVE  UNCHANGED <<db, disk, faults>>
  BY <1>1 DEF Open, Register, Receive, GiveUp, Leave, storeVars
<1>2. ASSUME NEW c \in Calls, CreateRequest(c)
      PROVE  Write(WithRequest(c, "waiting"))
  BY <1>2 DEF CreateRequest, Write
<1>3. ASSUME NEW c \in Calls, Expire(c)
      PROVE  Write(WithRequest(c, "expired")) \/ UNCHANGED <<db, disk, faults>>
  BY <1>3 DEF Expire
<1>4. ASSUME NEW c \in Calls, BeginProcessing(c) \/ Interpret(c)
      PROVE  \E v \in Voices, s \in VoiceStatus \ {"pending"}, r \in Calls \cup {None} :
                Write(WithVoice(v, s, r))
  <2>1. held[c].id \in Voices /\ held[c].req \in Calls \cup {None}
    BY <1>4 DEF BeginProcessing, Interpret, TypeOK, Holding, Message
  <2>2. \E s \in VoiceStatus \ {"pending"} : Write(WithVoice(held[c].id, s, held[c].req))
    BY <1>4 DEF BeginProcessing, Interpret
  <2> QED
    BY <2>1, <2>2
<1>5. ASSUME NEW c \in Calls, Complete(c)
      PROVE  \/ UNCHANGED <<db, disk, faults>>
             \/ \E d \in Calls : Write(WithRequest(d, "completed"))
  <2>1. held[c].req \in Calls \cup {None}
    BY <1>5 DEF Complete, TypeOK, Holding, Message
  <2> QED
    BY <1>5, <2>1 DEF Complete
<1>6. ASSUME ClaimVoice
      PROVE  \E v \in Voices, r \in Calls : Write(WithVoice(v, "claimed", r))
  BY <1>6 DEF ClaimVoice, Holding
<1>7. ASSUME PickRequest \/ FindWaiter \/ Send \/ UNCHANGED vars
      PROVE  UNCHANGED <<db, disk, faults>>
  BY <1>7 DEF PickRequest, FindWaiter, Send, vars, storeVars
<1> QED
  BY <1>1, <1>2, <1>3, <1>4, <1>5, <1>6, <1>7 DEF Next, Listener, Handler

\* A voice becomes pending when it is stored, or when the file says so.
LEMMA PendingStep ==
    ASSUME TypeInv, [Next]_vars, ~Restart,
           NEW v \in Voices, voiceAt[v] # 0, db.voice[v].status # "pending"
    PROVE  /\ db'.voice[v].status # "pending"
           /\ disk'.voice[v].status = "pending" => disk' = disk
<1> USE DEF TypeInv, TypeOK, Database
<1>1. ASSUME NEW w \in Voices, NEW s \in VoiceStatus, NEW r \in Calls \cup {None},
             Write(WithVoice(w, s, r)), w = v => s # "pending"
      PROVE  /\ db'.voice[v].status # "pending"
             /\ disk'.voice[v].status = "pending" => disk' = disk
  <2>1. /\ db'.voice = [db.voice EXCEPT ![w] = [status |-> s, req |-> r]]
        /\ disk' = db' \/ disk' = disk
    BY <1>1, VoiceWrite
  <2>2. db'.voice[v].status # "pending"
    BY <1>1, <2>1
  <2> QED
    BY <2>1, <2>2
<1>2. ASSUME NEW c \in Calls, NEW s \in RequestStatus, Write(WithRequest(c, s))
      PROVE  /\ db'.voice[v].status # "pending"
             /\ disk'.voice[v].status = "pending" => disk' = disk
  BY <1>2, RequestWrite
<1>3. ASSUME NEW w \in Voices, StoreVoice(w)
      PROVE  w # v /\ Write(WithVoice(w, "pending", None))
  BY <1>3 DEF StoreVoice, Write
<1> QED
  BY <1>1, <1>2, <1>3, StoreStep DEF VoiceStatus

\* One call runs.
Alone == \A c, d \in Calls : IsOpen(c) /\ IsOpen(d) => c = d

\* What a call has in its hands, and what it has not yet.
Hands ==
    /\ \A c \in Calls : held[c] # None =>
          pc[c] \in {"begin", "interpreting", "completing", "leaving", "returned"}
    /\ \A c \in Calls : outcome[c] = "delivered" =>
          held[c] # None /\ pc[c] \in {"completing", "leaving", "returned"}

Backlog(c) == held[c] # None /\ held[c].req = None
Begun(c)   == Backlog(c) /\ pc[c] # "begin"

Arrived ==
    \A v \in Voices : voiceAt[v] = 0 =>
        /\ db.voice[v].status # "pending" /\ disk.voice[v].status # "pending"
        /\ \A c \in Calls : Backlog(c) => held[c].id # v

Once ==
    /\ \A c, d \in Calls : Backlog(c) /\ Backlog(d) /\ held[c].id = held[d].id => c = d
    /\ \A c \in Calls : Begun(c) => db.voice[held[c].id].status # "pending"

Durable ==
    MaxFaults <= 1 =>
        \A c \in Calls : Begun(c) /\ disk.voice[held[c].id].status = "pending" =>
            pc[c] = "interpreting" /\ faults = 1

PromiseInv == TypeInv /\ Routed /\ LiveOnce /\ Alone /\ Hands /\ Arrived /\ Once /\ Durable

LEMMA PromiseInit == ASSUME Init, MaxOpen = 1 PROVE Alone /\ Hands /\ Arrived /\ Once /\ Durable
  BY DEF Init, EmptyDb, Alone, IsOpen, OpenSteps, Hands, Arrived, Backlog, Once, Begun, Durable

\* A call that begins is the only one.
LEMMA FirstOpen ==
    ASSUME TypeInv, Alone, MaxOpen = 1, NEW c \in Calls, Open(c)
    PROVE  \A d \in Calls : ~IsOpen(d)
<1> DEFINE O == {d \in Calls : IsOpen(d)}
<1>1. ASSUME NEW d \in O PROVE Cardinality(O) = 1
  <2>1. O = {d}
    BY DEF Alone
  <2> QED
    BY <2>1, FS_Singleton
<1>2. Cardinality(O) < 1
  BY DEF Open
<1> QED
  BY <1>1, <1>2

LEMMA AloneStep ==
    ASSUME TypeInv, Alone, MaxOpen = 1, [Next]_vars
    PROVE  Alone'
<1> USE DEF TypeInv, TypeOK, IsOpen, OpenSteps
<1>a. ASSUME \A d \in Calls : IsOpen(d)' => IsOpen(d) PROVE Alone'
  BY <1>a DEF Alone
<1>1. ASSUME NEW c \in Calls, Open(c) PROVE Alone'
  <2>1. \A d \in Calls : ~IsOpen(d)
    BY <1>1, FirstOpen
  <2>2. \A d \in Calls \ {c} : pc'[d] = pc[d]
    BY <1>1 DEF Open
  <2> QED
    BY <2>1, <2>2 DEF Alone
<1>2. ASSUME NEW c \in Calls, Listener(c) PROVE Alone'
  <2>1. IsOpen(c) /\ \A d \in Calls \ {c} : pc'[d] = pc[d]
    BY <1>2 DEF Listener, CreateRequest, Register, Receive, GiveUp, Expire, BeginProcessing,
                Interpret, Complete, Leave
  <2> QED
    BY <2>1, <1>a
<1>3. ASSUME Restart PROVE Alone'
  BY <1>3, <1>a DEF Restart
<1>4. ASSUME Handler \/ (\E v \in Voices : StoreVoice(v)) \/ UNCHANGED vars PROVE Alone'
  <2>1. pc' = pc
    BY <1>4 DEF Handler, PickRequest, ClaimVoice, FindWaiter, Send, StoreVoice, vars, callVars
  <2> QED
    BY <2>1, <1>a
<1> QED
  BY <1>1, <1>2, <1>3, <1>4 DEF Next

LEMMA HandsStep == ASSUME TypeInv, Hands, [Next]_vars PROVE Hands'
<1> USE DEF TypeInv, TypeOK, Hands
<1>1. ASSUME NEW c \in Calls, Open(c) PROVE Hands'
  <2>1. CASE held' = held /\ pc' = [pc EXCEPT ![c] = "asking"]
    BY <1>1, <2>1 DEF Open
  <2>2. CASE pc' = [pc EXCEPT ![c] = "begin"]
    <3>1. held'[c] # None /\ \A d \in Calls \ {c} : held'[d] = held[d]
      <4>1. PICK v \in Voices : held' = [held EXCEPT ![c] = [id |-> v, req |-> db.voice[v].req]]
        BY <1>1, <2>2 DEF Open
      <4>2. [id |-> v, req |-> db.voice[v].req] \in Message
        BY DEF Message, Database, VoiceRecord
      <4> QED
        BY <4>1, <4>2, NilAssumption
    <3> QED
      BY <1>1, <2>2, <3>1 DEF Open
  <2> QED
    BY <1>1, <2>1, <2>2 DEF Open
<1>2. ASSUME NEW c \in Calls, CreateRequest(c) \/ Register(c) \/ Receive(c) \/ GiveUp(c) \/ Expire(c)
      PROVE  Hands'
  BY <1>2 DEF CreateRequest, Register, Receive, GiveUp, Expire
<1>3. ASSUME NEW c \in Calls, BeginProcessing(c) \/ Complete(c) \/ Leave(c) PROVE Hands'
  BY <1>3 DEF BeginProcessing, Complete, Leave, Holding
<1>4. ASSUME NEW c \in Calls, Interpret(c) PROVE Hands'
  <2>1. /\ held[c] # None /\ held' = held /\ pc' = [pc EXCEPT ![c] = "completing"]
        /\ \A d \in Calls \ {c} : outcome'[d] = outcome[d]
    BY <1>4 DEF Interpret, Holding
  <2> QED
    BY <1>4, <2>1 DEF Interpret
<1>5. ASSUME Restart PROVE Hands'
  BY <1>5 DEF Restart, IsOpen, OpenSteps
<1>6. ASSUME Handler \/ (\E v \in Voices : StoreVoice(v)) \/ UNCHANGED vars PROVE Hands'
  BY <1>6 DEF Handler, PickRequest, ClaimVoice, FindWaiter, Send, StoreVoice, vars, callVars
<1> QED
  BY <1>1, <1>2, <1>3, <1>4, <1>5, <1>6 DEF Next, Listener

LEMMA ArrivedStep == ASSUME TypeInv, LiveOnce, Arrived, [Next]_vars PROVE Arrived'
<1> SUFFICES ASSUME NEW v \in Voices, voiceAt'[v] = 0
             PROVE  /\ db'.voice[v].status # "pending" /\ disk'.voice[v].status # "pending"
                    /\ \A c \in Calls : Backlog(c)' => held'[c].id # v
  BY DEF Arrived
<1> USE DEF TypeInv, TypeOK, Database
<1>1. voiceAt[v] = 0 /\ ~StoreVoice(v)
  <2>1. CASE \E w \in Voices : StoreVoice(w)
    BY <2>1 DEF StoreVoice
  <2>2. CASE ~\E w \in Voices : StoreVoice(w)
    BY <2>2 DEF Next, Listener, Open, CreateRequest, Register, Receive, GiveUp, Expire,
       BeginProcessing, Interpret, Complete, Leave, Handler, PickRequest, ClaimVoice,
       FindWaiter, Send, Restart, vars, storeVars
  <2> QED
    BY <2>1, <2>2
<1>2. /\ db.voice[v].status # "pending" /\ disk.voice[v].status # "pending"
      /\ \A c \in Calls : Backlog(c) => held[c].id # v
  BY <1>1 DEF Arrived
<1>3. db'.voice[v].status # "pending" /\ disk'.voice[v].status # "pending"
  <2>1. ASSUME NEW w \in Voices, NEW s \in VoiceStatus, NEW r \in Calls \cup {None},
               Write(WithVoice(w, s, r)), w = v => s # "pending"
        PROVE  db'.voice[v].status # "pending" /\ disk'.voice[v].status # "pending"
    <3>1. /\ db'.voice = [db.voice EXCEPT ![w] = [status |-> s, req |-> r]]
          /\ disk' = db' \/ disk' = disk
      BY <2>1, VoiceWrite
    <3> QED
      BY <1>2, <2>1, <3>1
  <2>2. ASSUME NEW c \in Calls, NEW s \in RequestStatus, Write(WithRequest(c, s))
        PROVE  db'.voice[v].status # "pending" /\ disk'.voice[v].status # "pending"
    BY <1>2, <2>2, RequestWrite
  <2>3. ASSUME NEW w \in Voices, StoreVoice(w)
        PROVE  w # v /\ Write(WithVoice(w, "pending", None))
    BY <1>1, <2>3 DEF StoreVoice, Write
  <2>4. ASSUME Restart PROVE db' = disk /\ disk' = disk
    BY <2>4 DEF Restart
  <2> QED
    BY <1>2, <2>1, <2>2, <2>3, <2>4, StoreStep DEF VoiceStatus
<1>4. ASSUME NEW c \in Calls, Open(c) PROVE \A d \in Calls : Backlog(d)' => held'[d].id # v
  <2>1. CASE held' = held
    BY <1>2, <2>1 DEF Backlog
  <2>2. ASSUME NEW w \in PendingVoices(Home),
               held' = [held EXCEPT ![c] = [id |-> w, req |-> db.voice[w].req]]
        PROVE  \A d \in Calls : Backlog(d)' => held'[d].id # v
    <3>1. w # v
      BY <1>2 DEF PendingVoices
    <3> QED
      BY <1>2, <2>2, <3>1 DEF Backlog
  <2> QED
    BY <1>4, <2>1, <2>2 DEF Open, IsOldest
<1>5. ASSUME NEW c \in Calls, Receive(c) PROVE \A d \in Calls : Backlog(d)' => held'[d].id # v
  <2>1. held'[c].id # v
    BY <1>1, <1>5 DEF Receive, LiveOnce, Live
  <2> QED
    BY <1>2, <1>5, <2>1 DEF Receive, Backlog
<1>6. ASSUME Restart PROVE \A d \in Calls : Backlog(d)' => held'[d].id # v
  BY <1>2, <1>6 DEF Restart, Backlog
<1>7. ASSUME held' = held PROVE \A d \in Calls : Backlog(d)' => held'[d].id # v
  BY <1>2, <1>7 DEF Backlog
<1> QED
  BY <1>3, <1>4, <1>5, <1>6, <1>7
     DEF Next, Listener, CreateRequest, Register, GiveUp, Expire, BeginProcessing, Interpret,
         Complete, Leave, Handler, PickRequest, ClaimVoice, FindWaiter, Send, StoreVoice,
         vars, callVars

\* Steps that give no call a voice of the backlog and begin none.
LEMMA OnceFrame ==
    ASSUME TypeInv, Arrived, Once, [Next]_vars, ~Restart,
           \A c \in Calls : Backlog(c)' => Backlog(c) /\ held'[c] = held[c],
           \A c \in Calls : Begun(c)' => Begun(c)
    PROVE  Once'
<1>1. \A c, d \in Calls : Backlog(c)' /\ Backlog(d)' /\ held'[c].id = held'[d].id => c = d
  BY DEF Once
<1>2. ASSUME NEW c \in Calls, Begun(c)' PROVE db'.voice[held'[c].id].status # "pending"
  <2>1. held'[c] = held[c] /\ Begun(c) /\ held[c].id \in Voices
    BY <1>2 DEF Begun, Backlog, TypeInv, TypeOK, Message
  <2>2. db.voice[held[c].id].status # "pending" /\ voiceAt[held[c].id] # 0
    BY <2>1 DEF Once, Arrived, Begun
  <2> QED
    BY <2>1, <2>2, PendingStep
<1> QED
  BY <1>1, <1>2 DEF Once

LEMMA OnceStep ==
    ASSUME PromiseInv, [Next]_vars, MaxOpen = 1, MaxFaults <= 1 \/ MaxRestarts = 0
    PROVE  Once'
<1>0. TypeInv /\ TypeOK /\ Holding /\ Routed /\ Alone /\ Hands /\ Arrived /\ Once /\ Durable
  BY DEF PromiseInv, TypeInv
<1>1. ASSUME NEW c \in Calls, Open(c) PROVE Once'
  <2>1. CASE held' = held /\ pc' = [pc EXCEPT ![c] = "asking"]
    <3>1. ~Backlog(c)
      BY <1>0, <1>1 DEF Open, Hands, Backlog
    <3>2. \A d \in Calls : /\ Backlog(d)' => Backlog(d) /\ held'[d] = held[d]
                           /\ Begun(d)' => Begun(d)
      BY <1>0, <2>1, <3>1 DEF Begun, Backlog, TypeOK
    <3>3. ~Restart
      BY <1>0, <1>1 DEF Restart, Open, TypeOK
    <3> QED
      BY <1>0, <3>2, <3>3, OnceFrame
  <2>2. ASSUME NEW v \in PendingVoices(Home),
               held' = [held EXCEPT ![c] = [id |-> v, req |-> db.voice[v].req]],
               pc' = [pc EXCEPT ![c] = "begin"]
        PROVE  Once'
    <3>1. db' = db
      BY <1>1 DEF Open, storeVars
    <3>2. \A d \in Calls \ {c} : held'[d] = held[d] /\ pc'[d] = pc[d]
      BY <1>0, <2>2 DEF TypeOK
    <3>3. held'[c].id = v /\ pc'[c] = "begin" /\ v \in Voices
      BY <1>0, <2>2 DEF TypeOK, PendingVoices
    <3>4. ASSUME NEW d \in Calls \ {c}, Backlog(d) PROVE held[d].id # v
      <4>1. pc[d] # "begin"
        BY <1>0, <1>1, FirstOpen DEF IsOpen, OpenSteps
      <4>2. db.voice[held[d].id].status # "pending"
        BY <1>0, <3>4, <4>1 DEF Once, Begun
      <4> QED
        BY <4>2 DEF PendingVoices
    <3> QED
      BY <1>0, <3>1, <3>2, <3>3, <3>4 DEF Once, Backlog, Begun
  <2> QED
    BY <1>1, <2>1, <2>2 DEF Open, IsOldest
<1>2. ASSUME NEW c \in Calls, Receive(c) PROVE Once'
  <2>1. held'[c] # None /\ held'[c].req = c /\ c # None
    BY <1>0, <1>2, ServiceAssumption DEF Receive, Routed, TypeOK
  <2>2. \A d \in Calls \ {c} : held'[d] = held[d] /\ pc'[d] = pc[d]
    BY <1>0, <1>2 DEF Receive, TypeOK
  <2>3. db' = db
    BY <1>2 DEF Receive, storeVars
  <2> QED
    BY <1>0, <2>1, <2>2, <2>3 DEF Once, Backlog, Begun
<1>3. ASSUME NEW c \in Calls, BeginProcessing(c) PROVE Once'
  <2>0. held[c] # None /\ held[c].id \in Voices /\ held[c].req \in Calls \cup {None}
    BY <1>0, <1>3 DEF BeginProcessing, TypeOK, Holding, Message
  <2>1. db'.voice = [db.voice EXCEPT ![held[c].id] = [status |-> "processing", req |-> held[c].req]]
    BY <1>0, <1>3, <2>0, VoiceWrite DEF BeginProcessing, VoiceStatus
  <2>2. held' = held /\ \A d \in Calls \ {c} : pc'[d] = pc[d]
    BY <1>3 DEF BeginProcessing
  <2>3. DOMAIN db.voice = Voices
    BY <1>0 DEF TypeOK, Database
  <2>4. ASSUME NEW d \in Calls, Begun(d)' PROVE db'.voice[held'[d].id].status # "pending"
    <3>1. d = c \/ (Begun(d) /\ held[d].id # held[c].id)
                \/ (Begun(d) /\ held[d].id = held[c].id)
      BY <2>2, <2>4 DEF Begun, Backlog
    <3>2. Begun(d) => db.voice[held[d].id].status # "pending"
      BY <1>0 DEF Once
    <3> QED
      BY <2>0, <2>1, <2>2, <2>3, <3>1, <3>2
  <2> QED
    BY <1>0, <2>2, <2>4 DEF Once, Backlog
<1>4. ASSUME NEW c \in Calls,
             \/ CreateRequest(c) \/ Register(c) \/ GiveUp(c) \/ Expire(c)
             \/ Interpret(c) \/ Complete(c) \/ Leave(c)
      PROVE  Once'
  <2>1. held' = held /\ restarts' = restarts /\ pc[c] # "begin"
    BY <1>4 DEF CreateRequest, Register, GiveUp, Expire, Interpret, Complete, Leave
  <2>2. \A d \in Calls \ {c} : pc'[d] = pc[d]
    <3>1. \E s \in Steps : pc' = [pc EXCEPT ![c] = s]
      BY <1>4 DEF CreateRequest, Register, GiveUp, Expire, Interpret, Complete, Leave,
         Steps, OpenSteps
    <3> QED
      BY <3>1
  <2>3. ~Restart
    BY <1>0, <2>1 DEF Restart, TypeOK
  <2>4. \A d \in Calls : /\ Backlog(d)' => Backlog(d) /\ held'[d] = held[d]
                         /\ Begun(d)' => Begun(d)
    BY <2>1, <2>2 DEF Begun, Backlog
  <2> QED
    BY <1>0, <2>3, <2>4, OnceFrame
<1>5. ASSUME Restart PROVE Once'
  <2>1. MaxFaults <= 1
    BY <1>0, <1>5, ServiceAssumption DEF Restart, TypeOK
  <2>2. ASSUME NEW c \in Calls, Backlog(c)'
        PROVE  Backlog(c) /\ held'[c] = held[c] /\ pc[c] = "returned"
    BY <1>0, <1>5, <2>2 DEF Restart, Backlog, Hands, IsOpen, OpenSteps
  <2>3. ASSUME NEW c \in Calls, Begun(c)' PROVE db'.voice[held'[c].id].status # "pending"
    <3>1. Begun(c) /\ held'[c] = held[c] /\ pc[c] = "returned"
      BY <2>2, <2>3 DEF Begun
    <3> QED
      BY <1>0, <1>5, <2>1, <3>1 DEF Durable, Restart
  <2> QED
    BY <1>0, <2>2, <2>3 DEF Once
<1>6. ASSUME Handler \/ (\E v \in Voices : StoreVoice(v)) \/ UNCHANGED vars PROVE Once'
  <2>1. held' = held /\ pc' = pc /\ restarts' = restarts
    BY <1>6 DEF Handler, PickRequest, ClaimVoice, FindWaiter, Send, StoreVoice, vars, callVars
  <2>2. ~Restart
    BY <1>0, <2>1 DEF Restart, TypeOK
  <2> QED
    BY <1>0, <2>1, <2>2, OnceFrame DEF Begun, Backlog
<1> QED
  BY <1>1, <1>2, <1>3, <1>4, <1>5, <1>6 DEF Next, Listener

LEMMA DurableStep ==
    ASSUME PromiseInv, [Next]_vars, TypeInv', faults' \in {faults, faults + 1}
    PROVE  Durable'
<1> SUFFICES ASSUME MaxFaults <= 1, NEW c \in Calls, Begun(c)',
                    disk'.voice[held'[c].id].status = "pending"
             PROVE  pc'[c] = "interpreting" /\ faults' = 1
  BY DEF Durable
<1>0. TypeInv /\ TypeOK /\ Holding /\ Hands /\ Arrived /\ Once /\ Durable
  BY DEF PromiseInv, TypeInv
<1>1. faults \in 0..1 /\ faults' \in 0..1
  BY <1>0, ServiceAssumption DEF TypeInv, TypeOK
\* A call that had begun, and does not end its interpretation now.
<1>2. ASSUME Begun(c), held'[c] = held[c], pc[c] = "interpreting" => pc'[c] = "interpreting", ~Restart
      PROVE  pc'[c] = "interpreting" /\ faults' = 1
  <2>1. held[c].id \in Voices /\ voiceAt[held[c].id] # 0 /\ db.voice[held[c].id].status # "pending"
    BY <1>0, <1>2 DEF Begun, Backlog, Arrived, Once, TypeOK, Message
  <2>2. disk' = disk
    BY <1>0, <1>2, <2>1, PendingStep
  <2>3. pc[c] = "interpreting" /\ faults = 1
    BY <1>0, <1>2, <2>2 DEF Durable
  <2> QED
    BY <1>1, <1>2, <2>3
<1>3. ASSUME NEW d \in Calls, BeginProcessing(d) \/ Interpret(d), d = c
      PROVE  pc'[c] = "interpreting" /\ faults' = 1
  <2>0. held'[c] = held[c] /\ held[c] # None /\ held[c].id \in Voices /\ held[c].req \in Calls \cup {None}
    BY <1>0, <1>3 DEF BeginProcessing, Interpret, TypeOK, Holding, Message
  <2>1. PICK s \in VoiceStatus \ {"pending"} : Write(WithVoice(held[c].id, s, held[c].req))
    BY <1>3 DEF BeginProcessing, Interpret, VoiceStatus
  <2>2. db'.voice = [db.voice EXCEPT ![held[c].id] = [status |-> s, req |-> held[c].req]]
    BY <1>0, <2>0, <2>1, VoiceWrite
  <2>3. db'.voice[held[c].id].status # "pending"
    BY <1>0, <2>0, <2>1, <2>2 DEF TypeOK, Database
  <2>4. faults = 0 /\ faults' = 1 /\ disk' = disk
    BY <1>1, <2>0, <2>1, <2>3 DEF Write, Saved, NotSaved
  <2>5. CASE BeginProcessing(c)
    BY <1>0, <2>4, <2>5 DEF BeginProcessing, TypeOK
  <2>6. CASE Interpret(c)
    <3>1. Begun(c)
      BY <1>0, <2>0, <2>6 DEF Interpret, Begun, Backlog
    <3> QED
      BY <1>0, <2>0, <2>4, <3>1 DEF Durable
  <2> QED
    BY <1>3, <2>5, <2>6
<1>4. ASSUME Restart PROVE pc'[c] = "interpreting" /\ faults' = 1
  <2>1. pc[c] = "returned" /\ held'[c] = held[c] /\ disk' = disk
    BY <1>0, <1>4 DEF Restart, Begun, Backlog, Hands, IsOpen, OpenSteps
  <2> QED
    BY <1>0, <2>1 DEF Begun, Backlog, Durable
<1>5. ASSUME ~Restart, Begun(c), held'[c] = held[c], pc'[c] = pc[c]
      PROVE  pc'[c] = "interpreting" /\ faults' = 1
  BY <1>2, <1>5
<1>6. ASSUME NEW d \in Calls, d # c, Open(d) \/ Listener(d)
      PROVE  Begun(c) /\ held'[c] = held[c] /\ pc'[c] = pc[c] /\ ~Restart
  <2>1. held'[c] = held[c] /\ pc'[c] = pc[c] /\ restarts' = restarts
    BY <1>0, <1>6 DEF TypeOK, Open, Listener, CreateRequest, Register, Receive, GiveUp, Expire,
       BeginProcessing, Interpret, Complete, Leave
  <2> QED
    BY <1>0, <2>1 DEF Begun, Backlog, Restart, TypeOK
<1>7. ASSUME Open(c) \/ Receive(c) PROVE FALSE
  <2>1. pc'[c] = "begin" \/ (held'[c] = held[c] /\ pc[c] = "idle")
    BY <1>0, <1>7 DEF Open, Receive, TypeOK
  <2> QED
    BY <1>0, <2>1 DEF Begun, Backlog, Hands
<1>8. ASSUME CreateRequest(c) \/ Register(c) \/ GiveUp(c) \/ Expire(c) PROVE FALSE
  BY <1>0, <1>8 DEF CreateRequest, Register, GiveUp, Expire, Begun, Backlog, Hands
<1>9. ASSUME Complete(c) \/ Leave(c) PROVE pc'[c] = "interpreting" /\ faults' = 1
  <2>1. held' = held /\ restarts' = restarts /\ pc[c] \in {"completing", "leaving"}
    BY <1>9 DEF Complete, Leave
  <2> QED
    BY <1>0, <1>2, <2>1 DEF Begun, Backlog, Restart, TypeOK
<1>10. ASSUME Handler \/ (\E v \in Voices : StoreVoice(v)) \/ UNCHANGED vars
       PROVE  Begun(c) /\ held'[c] = held[c] /\ pc'[c] = pc[c] /\ ~Restart
  <2>1. held' = held /\ pc' = pc /\ restarts' = restarts
    BY <1>10 DEF Handler, PickRequest, ClaimVoice, FindWaiter, Send, StoreVoice, vars, callVars
  <2> QED
    BY <1>0, <2>1 DEF Begun, Backlog, Restart, TypeOK
<1> QED
  BY <1>3, <1>4, <1>5, <1>6, <1>7, <1>8, <1>9, <1>10 DEF Next, Listener

OneAgent == MaxOpen = 1 /\ (MaxFaults <= 1 \/ MaxRestarts = 0)

\* The invariant that the promise rests on.
LEMMA PromiseInvAlways == ASSUME OneAgent PROVE Spec => []PromiseInv
<1>1. Init => PromiseInv
  BY OneAgent, TypeInit, RoutedInit, LiveOnceInit, PromiseInit DEF PromiseInv, OneAgent
<1>2. PromiseInv /\ [Next]_vars => PromiseInv'
  <2> SUFFICES ASSUME PromiseInv, [Next]_vars PROVE PromiseInv'
    OBVIOUS
  <2>1. TypeInv' /\ Routed' /\ LiveOnce'
    BY TypeStep, RoutedStep, LiveOnceStep DEF PromiseInv
  <2>2. Alone' /\ Hands' /\ Arrived' /\ Once'
    BY OneAgent, AloneStep, HandsStep, ArrivedStep, OnceStep DEF PromiseInv, OneAgent
  <2>3. Durable'
    BY <2>1, FaultsGrow, DurableStep
  <2> QED
    BY <2>1, <2>2, <2>3 DEF PromiseInv
<1> QED
  BY <1>1, <1>2, PTL DEF Spec

LEMMA PromiseInitStep == Init => Promise!Init
<1> SUFFICES ASSUME Init PROVE Promise!Init
  OBVIOUS
<1>1. \A c \in Calls : CallState(c) = "idle"
  BY DEF Init, CallState
<1>2. {v \in HomeVoices : voiceAt[v] # 0} = {}
  BY DEF Init, HomeVoices
<1> QED
  BY <1>1, <1>2 DEF Promise!Init

\* Steps that leave alone what the promise sees.
LEMMA PromiseStutter ==
    ASSUME voiceAt' = voiceAt,
           \A c \in Calls : CallState(c)' = CallState(c),
           \A c \in Calls : CallState(c) = "answered" => held'[c] = held[c]
    PROVE  UNCHANGED Promise!vars
  BY DEF Promise!vars

\* The answer of a call that returns, and that no other call gave it.
LEMMA AnswerIsNew ==
    ASSUME PromiseInv, NEW c \in Calls, held[c] # None, pc[c] = "leaving",
           NEW d \in Calls, CallState(d) = "answered"
    PROVE  [voice |-> held[d].id, live |-> held[d].req # None]
              # [voice |-> held[c].id, live |-> held[c].req # None]
<1>1. d # c
  BY DEF CallState
<1>2. held[d] # None /\ held[c].id \in Voices
  BY DEF CallState, PromiseInv, Hands, TypeInv, TypeOK, Message
<1>3. held[c].id = held[d].id => (held[c].req # None) # (held[d].req # None)
  BY <1>1, <1>2 DEF PromiseInv, LiveOnce, Live, Once, Backlog
<1> QED
  BY <1>3

LEMMA PromiseStep == PromiseInv /\ [Next]_vars => [Promise!Next]_Promise!vars
<1> SUFFICES ASSUME PromiseInv, [Next]_vars PROVE [Promise!Next]_Promise!vars
  OBVIOUS
<1>0. TypeInv /\ TypeOK /\ Holding /\ Routed /\ LiveOnce /\ Hands /\ Arrived
  BY DEF PromiseInv, TypeInv
<1> DEFINE Rec == {v \in HomeVoices : voiceAt[v] # 0}
           St  == [c \in Calls |-> CallState(c)]
           An  == [c \in Calls |->
                     IF CallState(c) # "answered" THEN None
                     ELSE [voice |-> held[c].id, live |-> held[c].req # None]]
<1>1. ASSUME NEW c \in Calls, Open(c) PROVE Promise!Next
  <2>1. CallState(c) = "idle" /\ CallState(c)' = "open"
    BY <1>0, <1>1 DEF Open, CallState, TypeOK
  <2>2. \A d \in Calls \ {c} : CallState(d)' = CallState(d) /\ held'[d] = held[d]
    BY <1>0, <1>1 DEF Open, CallState, TypeOK
  <2>3. voiceAt' = voiceAt
    BY <1>1 DEF Open, storeVars
  <2>4. Promise!Begin(c)
    BY <2>1, <2>2, <2>3 DEF Promise!Begin
  <2> QED
    BY <2>4 DEF Promise!Next
\* A call that returns without an answer.
<1>a. ASSUME NEW c \in Calls, CallState(c) = "open", CallState(c)' = "error",
             \A d \in Calls \ {c} : CallState(d)' = CallState(d),
             UNCHANGED <<voiceAt, held>>
      PROVE  Promise!Next
  <2>1. Promise!Refuse(c)
    BY <1>a DEF Promise!Refuse
  <2> QED
    BY <2>1 DEF Promise!Next
<1>2. ASSUME NEW c \in Calls, CreateRequest(c) PROVE [Promise!Next]_Promise!vars
  <2>1. UNCHANGED <<voiceAt, held>>
    BY <1>2 DEF CreateRequest
  <2>2. CASE pc' = [pc EXCEPT ![c] = "registering"] /\ outcome' = outcome
    <3>1. \A d \in Calls : CallState(d)' = CallState(d)
      BY <1>0, <1>2, <2>2 DEF CreateRequest, CallState, TypeOK
    <3> QED
      BY <2>1, <3>1, PromiseStutter
  <2>3. CASE pc' = [pc EXCEPT ![c] = "returned"] /\ outcome' = [outcome EXCEPT ![c] = "error"]
    <3>1. CallState(c) = "open" /\ CallState(c)' = "error"
      BY <1>0, <1>2, <2>3 DEF CreateRequest, CallState, TypeOK
    <3>2. \A d \in Calls \ {c} : CallState(d)' = CallState(d)
      BY <1>0, <2>3 DEF CallState, TypeOK
    <3> QED
      BY <1>a, <2>1, <3>1, <3>2
  <2> QED
    BY <1>2, <2>2, <2>3 DEF CreateRequest
<1>3. ASSUME NEW c \in Calls,
             \/ Register(c) \/ Receive(c) \/ GiveUp(c) \/ Expire(c) \/ BeginProcessing(c)
             \/ Interpret(c) \/ Complete(c)
      PROVE  UNCHANGED Promise!vars
  <2>1. voiceAt' = voiceAt
    BY <1>3 DEF Register, Receive, GiveUp, Expire, BeginProcessing, Interpret, Complete, storeVars
  <2>2. /\ pc[c] \in OpenSteps /\ pc'[c] \in OpenSteps
        /\ \A d \in Calls \ {c} : pc'[d] = pc[d] /\ outcome'[d] = outcome[d] /\ held'[d] = held[d]
    <3>1. pc[c] \in OpenSteps /\ \E s \in OpenSteps : pc' = [pc EXCEPT ![c] = s]
      BY <1>3 DEF Register, Receive, GiveUp, Expire, BeginProcessing, Interpret, Complete, OpenSteps
    <3>2. \A d \in Calls \ {c} : outcome'[d] = outcome[d] /\ held'[d] = held[d]
      BY <1>0, <1>3 DEF Register, Receive, GiveUp, Expire, BeginProcessing, Interpret, Complete, TypeOK
    <3> QED
      BY <1>0, <3>1, <3>2 DEF TypeOK
  <2>3. \A d \in Calls : CallState(d)' = CallState(d)
    BY <2>2 DEF CallState, OpenSteps
  <2>4. \A d \in Calls : CallState(d) = "answered" => held'[d] = held[d]
    BY <2>2 DEF CallState, OpenSteps
  <2> QED
    BY <2>1, <2>3, <2>4, PromiseStutter
<1>4. ASSUME NEW c \in Calls, Leave(c) PROVE Promise!Next
  <2>1. /\ UNCHANGED <<voiceAt, held, outcome>> /\ pc[c] = "leaving"
        /\ pc' = [pc EXCEPT ![c] = "returned"]
    BY <1>4 DEF Leave, storeVars
  <2>2. /\ CallState(c) = "open"
        /\ CallState(c)' = IF outcome[c] = "delivered" THEN "answered" ELSE "error"
    BY <1>0, <2>1 DEF CallState, TypeOK
  <2>3. \A d \in Calls \ {c} : CallState(d)' = CallState(d)
    BY <1>0, <2>1 DEF CallState, TypeOK
  <2>4. CASE outcome[c] # "delivered"
    BY <1>a, <2>1, <2>2, <2>3, <2>4
  <2>5. CASE outcome[c] = "delivered"
    <3>0. PICK a : a = [voice |-> held[c].id, live |-> held[c].req # None]
      OBVIOUS
    <3>1. held[c] # None /\ held[c].id \in HomeVoices /\ voiceAt[held[c].id] # 0
      BY <1>0, <2>5 DEF Hands, HomeVoices, Routed, TypeOK, Message, Arrived, LiveOnce, Live, Backlog
    <3>2. a \in Promise!Answers /\ a # None
      <4>1. \A v \in HomeVoices, b \in BOOLEAN :
               /\ [voice |-> v, live |-> b] \in [voice : HomeVoices, live : BOOLEAN]
               /\ [voice |-> v, live |-> b] # None
        BY AnswerAssumption DEF HomeVoices
      <4>2. (held[c].req # None) \in BOOLEAN
        OBVIOUS
      <4> QED
        BY <3>0, <3>1, <4>1, <4>2 DEF Promise!Answers
    <3>3. \A d \in Calls : An[d] # a
      BY <2>1, <3>0, <3>1, <3>2, AnswerIsNew
    <3>4. St' = [St EXCEPT ![c] = "answered"] /\ An' = [An EXCEPT ![c] = a] /\ Rec' = Rec
      BY <2>1, <2>2, <2>3, <2>5, <3>0
    <3>5. a.voice \in Rec
      BY <3>0, <3>1
    <3>6. Promise!Answer(c, a)
      BY <2>2, <3>3, <3>4, <3>5 DEF Promise!Answer
    <3> QED
      BY <3>2, <3>6 DEF Promise!Next
  <2> QED
    BY <2>4, <2>5
<1>5. ASSUME NEW v \in Voices, StoreVoice(v) PROVE [Promise!Next]_Promise!vars
  <2>1. /\ voiceAt' = [voiceAt EXCEPT ![v] = arrived + 1] /\ arrived + 1 # 0
        /\ UNCHANGED <<pc, outcome, held>>
    BY <1>0, <1>5 DEF StoreVoice, callVars, TypeOK
  <2>2. St' = St /\ An' = An
    BY <2>1 DEF CallState
  <2>3. CASE v \in HomeVoices
    <3>1. Rec' = Rec \cup {v}
      BY <1>0, <2>1, <2>3 DEF TypeOK, HomeVoices
    <3>2. Promise!Record(v)
      BY <2>2, <3>1 DEF Promise!Record
    <3> QED
      BY <2>3, <3>2 DEF Promise!Next
  <2>4. CASE v \notin HomeVoices
    <3>1. Rec' = Rec
      BY <1>0, <2>1, <2>4 DEF TypeOK, HomeVoices
    <3> QED
      BY <2>2, <3>1 DEF Promise!vars
  <2> QED
    BY <2>3, <2>4
<1>6. ASSUME Restart PROVE Promise!Next
  <2>1. voiceAt' = voiceAt
    BY <1>6 DEF Restart
  <2>2. \A c \in Calls : /\ CallState(c)' = IF CallState(c) = "open" THEN "cut" ELSE CallState(c)
                         /\ CallState(c) = "answered" => held'[c] = held[c]
    BY <1>0, <1>6 DEF Restart, CallState, IsOpen, OpenSteps, Steps, TypeOK
  <2>3. Promise!Cut
    BY <2>1, <2>2 DEF Promise!Cut
  <2> QED
    BY <2>3 DEF Promise!Next
<1>7. ASSUME Handler \/ UNCHANGED vars PROVE UNCHANGED Promise!vars
  <2>1. UNCHANGED <<voiceAt, pc, outcome, held>>
    BY <1>7 DEF Handler, PickRequest, ClaimVoice, FindWaiter, Send, vars, storeVars, callVars
  <2>2. \A c \in Calls : CallState(c)' = CallState(c)
    BY <2>1 DEF CallState
  <2> QED
    BY <2>1, <2>2, PromiseStutter
<1> QED
  BY <1>1, <1>2, <1>3, <1>4, <1>5, <1>6, <1>7 DEF Next, Listener

\* One agent at a time gets what listen_voice promises: every voice of the backlog once and
\* every live voice once, only voices that were recorded in the home chat, also across
\* crashes as long as at most one write of the file fails, and without crashes always.
THEOREM OneAgentKeepsPromise == ASSUME OneAgent PROVE Spec => KeepsPromise
<1>1. Init => Promise!Init
  BY PromiseInitStep
<1>2. PromiseInv /\ [Next]_vars => [Promise!Next]_Promise!vars
  BY PromiseStep
<1>3. Spec => []PromiseInv
  BY OneAgent, PromiseInvAlways
<1> QED
  BY <1>1, <1>2, <1>3, PTL DEF Spec, KeepsPromise, Promise!Spec

-----------------------------------------------------------------------------
(***************************************************************************)
(* What the handler binds a voice to, while the process runs.              *)
(***************************************************************************)
Up == \A c \in Calls : pc[c] # "dead"

LEMMA UpStep == ASSUME TypeInv, Up, MaxRestarts = 0, [Next]_vars PROVE Up'
<1>1. restarts \in 0..0 /\ pc \in [Calls -> Steps]
  BY DEF TypeInv, TypeOK
<1>2. ASSUME NEW c \in Calls, Open(c) \/ Listener(c) PROVE Up'
  <2>1. \E s \in Steps \ {"dead"} : pc' = [pc EXCEPT ![c] = s]
    BY <1>2 DEF Open, Listener, CreateRequest, Register, Receive, GiveUp, Expire,
       BeginProcessing, Interpret, Complete, Leave, Steps, OpenSteps
  <2> QED
    BY <1>1, <2>1 DEF Up
<1>3. ~Restart
  BY <1>1 DEF Restart
<1>4. ASSUME Handler \/ (\E v \in Voices : StoreVoice(v)) \/ UNCHANGED vars PROVE Up'
  BY <1>4 DEF Handler, PickRequest, ClaimVoice, FindWaiter, Send, StoreVoice, vars, callVars, Up
<1> QED
  BY <1>2, <1>3, <1>4 DEF Next

\* A voice is bound to a request only while the call that waits for it runs, unless the
\* process has crashed or a write of the file failed (run voice_restart shows the former).
THEOREM BindsToOpenCallUncrashed ==
    ASSUME MaxRestarts = 0, MaxFaults = 0
    PROVE  Spec => BindsToOpenCall
<1>1. Init => Up
  BY DEF Init, Up
<1>2. IInv /\ Up /\ [Next]_vars => Up'
  BY MaxRestarts = 0, UpStep DEF IInv
<1>3. IInv /\ Up /\ [Next]_vars
        => [handler.step = "stored" /\ handler'.step = "binding" => IsOpen(handler'.req)]_vars
  <2> SUFFICES ASSUME IInv, Up, [Next]_vars,
                      handler.step = "stored", handler'.step = "binding"
               PROVE  IsOpen(handler'.req)
    OBVIOUS
  <2>0. TypeInv /\ TypeOK /\ Holding
    BY DEF IInv, TypeInv
  <2>1. PickRequest
    <3>1. ASSUME NEW c \in Calls, Open(c) \/ Listener(c) PROVE handler' = handler
      BY <3>1 DEF Open, Listener, CreateRequest, Register, Receive, GiveUp, Expire,
         BeginProcessing, Interpret, Complete, Leave
    <3>2. ~(ClaimVoice \/ FindWaiter \/ Send \/ (\E v \in Voices : StoreVoice(v)) \/ Restart)
      BY <2>0 DEF ClaimVoice, FindWaiter, Send, StoreVoice, Restart, IdleHandler, TypeOK
    <3>3. ~UNCHANGED vars
      BY DEF vars
    <3> QED
      BY <3>1, <3>2, <3>3 DEF Next, Handler
  <2>2. PICK c \in Calls : db.req[c] = "waiting" /\ handler'.req = c
    BY <2>1 DEF PickRequest, IsOldest, WaitingRequests, IdleHandler
  <2>3. faults = 0
    BY <2>0, MaxFaults = 0 DEF TypeOK
  <2>4. LedgerOf(c) /\ pc[c] \in Steps /\ pc[c] # "dead"
    BY <2>0, <2>3 DEF IInv, Ledger, TypeOK, Up
  <2> QED
    BY <2>2, <2>4 DEF LedgerOf, SettledAs, IsOpen, Steps
<1> QED
  BY <1>1, <1>2, <1>3, IInvAlways, PTL DEF Spec, BindsToOpenCall
=============================================================================
