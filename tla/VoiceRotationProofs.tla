-------------------------- MODULE VoiceRotationProofs --------------------------
(***************************************************************************)
(* Proofs about VoiceRotation, for any calls, sessions, voices, hash and   *)
(* number of faults and changes.                                           *)
(*                                                                         *)
(* One voice per session: while the calls of a session do not overlap, the *)
(* copy of the one that runs is the stored session (Faithful), so a voice  *)
(* is only chosen for a session that has none, and none was heard in it.   *)
(*                                                                         *)
(* Known voices: Say goes past EnsureVoice only when the node has the      *)
(* configured voice, if there is a WAV of it (Ready); a rotated voice comes from the node's list,   *)
(* directly, through the cached pool or through the store, and as long as  *)
(* the node is not replaced it forgets nothing (Listed).                   *)
(***************************************************************************)
EXTENDS VoiceRotation, FiniteSetTheorems, SequenceTheorems, TLAPS

USE RotationAssumption

\* A call that runs names a session, and uploads only a configured voice.
Named ==
    \A c \in Calls :
        /\ pc[c] # "idle" => sess[c] \in Sessions
        /\ pc[c] \in {"hasVoice", "upload"} => Ensures

\* The calls of a session that is not mixed do not overlap.
Single ==
    \A c, d \in Calls :
        pc[c] # "idle" /\ pc[d] # "idle" /\ sess[c] = sess[d] /\ sess[c] \notin mixed => c = d

\* In such a session a call's copy is the stored record, what the user heard is the
\* stored voice, and a voice is only looked for if there is none.
Agrees(c) ==
    /\ copy[c] = db[sess[c]]
    /\ pc[c] \in {"list", "cache", "assign"} => copy[c] = NoVoice
    /\ pc[c] = "synthesize" /\ voice[c] # NoVoice => voice[c] = db[sess[c]]

Faithful ==
    /\ \A c \in Calls : pc[c] # "idle" /\ sess[c] \notin mixed => Agrees(c)
    /\ \A s \in Sessions \ mixed : spoken[s] \subseteq {db[s]}

\* Past EnsureVoice the node has the configured voice, if there is a WAV of it.
Ready ==
    \A c \in Calls :
        Ensures /\ pc[c] \in Provided /\ c \notin moved => Configured \in node

\* Every voice in the process and in the store was on the node.
Listed ==
    ~replaced =>
        /\ \A s \in Sessions : db[s] \in node \cup {NoVoice} /\ disk[s] \in node \cup {NoVoice}
        /\ \A i \in 1..Len(voicePool) : voicePool[i] \in node
        /\ \A c \in Calls :
              /\ copy[c] \in node \cup {NoVoice} /\ voice[c] \in node \cup {NoVoice}
              /\ \A i \in 1..Len(view[c]) : view[c][i] \in node

TypeInv == TypeOK /\ Named
OneInv == TypeInv /\ Single /\ Faithful
KnownInv == TypeInv /\ Ready /\ Listed

-----------------------------------------------------------------------------
(***************************************************************************)
(* Lemmas.                                                                 *)
(***************************************************************************)

\* The node lists its own voices, and at least one if it has any.
LEMMA ListingType ==
    ASSUME TypeOK, NEW q \in Listings
    PROVE  /\ q \in Seq(Voices)
           /\ \A i \in 1..Len(q) : q[i] \in node
           /\ node # {} => q # <<>>
<1>1. IsFiniteSet(node) /\ node \subseteq Voices
  BY FS_Subset DEF TypeOK
<1>2. Cardinality(node) \in Nat
  BY <1>1, FS_CardinalityType
<1>3. q \in [1..Cardinality(node) -> node]
  BY DEF Listings
<1>4. q \in Seq(node) /\ q \in Seq(Voices) /\ Len(q) = Cardinality(node)
  BY <1>1, <1>2, <1>3
<1>5. node # {} => Cardinality(node) # 0
  BY <1>1, FS_EmptySet
<1> QED
  BY <1>2, <1>3, <1>4, <1>5

\* The hash picks a voice of the list.
LEMMA ChosenType ==
    ASSUME TypeInv, NEW c \in Calls, pc[c] = "assign"
    PROVE  /\ Chosen(c) \in Voices
           /\ \E i \in 1..Len(view[c]) : Chosen(c) = view[c][i]
<1>1. view[c] \in Seq(Voices) /\ view[c] # <<>> /\ sess[c] \in Sessions
  BY DEF TypeInv, TypeOK, Named
<1>2. Len(view[c]) \in Nat \ {0} /\ \A i \in 1..Len(view[c]) : view[c][i] \in Voices
  BY <1>1
<1>3. Hash[sess[c]] \in Nat
  BY <1>1
<1>4. \A h \in Nat, n \in Nat \ {0} : (h % n) + 1 \in 1..n
  OBVIOUS
<1>5. (Hash[sess[c]] % Len(view[c])) + 1 \in 1..Len(view[c])
  BY <1>2, <1>3, <1>4
<1> QED
  BY <1>2, <1>5 DEF Chosen

-----------------------------------------------------------------------------
(***************************************************************************)
(* Type correctness.                                                       *)
(***************************************************************************)
LEMMA TypeInit == Init => TypeInv
<1> SUFFICES ASSUME Init PROVE TypeInv
  OBVIOUS
<1> USE DEF Init, Steps, Files
<1>1. TypeOK
  <2>1. <<>> \in Seq(Voices)
    BY EmptySeq
  <2>2. /\ db \in [Sessions -> Voices \cup {NoVoice}]
        /\ disk \in [Sessions -> Voices \cup {NoVoice}]
        /\ copy \in [Calls -> Voices \cup {NoVoice}] /\ voice \in [Calls -> Voices \cup {NoVoice}]
        /\ sess \in [Calls -> Sessions \cup {NoSession}]
    OBVIOUS
  <2>3. pc \in [Calls -> Steps] /\ kind \in [Calls -> {"say", "listen"}]
    OBVIOUS
  <2>4. \A c \in Calls : pc[c] \in {"cache", "assign"} => view[c] # <<>>
    OBVIOUS
  <2>5. spoken \in [Sessions -> SUBSET Voices] /\ view \in [Calls -> Seq(Voices)]
    BY <2>1
  <2>6. faults \in 0..MaxFaults /\ changes \in 0..MaxChanges
    OBVIOUS
  <2> QED
    BY <2>1, <2>2, <2>3, <2>4, <2>5, <2>6 DEF TypeOK
<1>2. Named
  BY DEF Named
<1> QED
  BY <1>1, <1>2 DEF TypeInv

\* Writing a session keeps the types of the store and of the count of faults.
LEMMA StoreType ==
    ASSUME TypeOK, NEW s \in Sessions, NEW v \in Voices \cup {NoVoice}, UpsertSession(s, v)
    PROVE  /\ db' \in [Sessions -> Voices \cup {NoVoice}]
           /\ disk' \in [Sessions -> Voices \cup {NoVoice}]
           /\ faults' \in 0..MaxFaults
<1>1. db' \in [Sessions -> Voices \cup {NoVoice}]
  BY DEF TypeOK, UpsertSession
<1>2. disk' = db' \/ disk' = disk
  BY DEF UpsertSession
<1>3. faults' = faults \/ (faults < MaxFaults /\ faults' = faults + 1)
  BY DEF UpsertSession, Fault
<1> QED
  BY <1>1, <1>2, <1>3 DEF TypeOK

LEMMA TypeStep == TypeInv /\ [Next]_vars => TypeInv'
<1> SUFFICES ASSUME TypeInv, [Next]_vars PROVE TypeInv'
  OBVIOUS
<1> USE DEF TypeInv, TypeOK, Named, Ensures, Steps, Goto, store, service, locals, past
<1>e. <<>> \in Seq(Voices)
  BY EmptySeq
<1>1. ASSUME NEW c \in Calls, NEW s \in Sessions, NEW k \in {"say", "listen"}, GetSession(c, s, k)
      PROVE TypeInv'
  BY <1>1 DEF GetSession
<1>2. ASSUME NEW c \in Calls, Touch(c) PROVE TypeInv'
  <2>1. sess[c] \in Sessions /\ copy[c] \in Voices \cup {NoVoice}
    BY <1>2 DEF Touch
  <2>2. /\ db' \in [Sessions -> Voices \cup {NoVoice}]
        /\ disk' \in [Sessions -> Voices \cup {NoVoice}]
        /\ faults' \in 0..MaxFaults
    BY <1>2, <2>1, StoreType DEF Touch
  <2> QED
    BY <1>2, <2>2 DEF Touch
<1>3. ASSUME NEW c \in Calls, TouchListen(c) PROVE TypeInv'
  BY <1>3, <1>e, StoreType DEF TouchListen, Return
<1>4. ASSUME NEW c \in Calls, HasVoice(c) PROVE TypeInv'
  <2>1. faults' \in 0..MaxFaults
    BY <1>4 DEF HasVoice, Lacking, Fault
  <2>2. \E step \in {"choose", "upload"} : Goto(c, step)
    BY <1>4 DEF HasVoice, Lacking
  <2> QED
    BY <1>4, <2>1, <2>2 DEF HasVoice
<1>4a. ASSUME NEW c \in Calls, NoTranscript(c) PROVE TypeInv'
  BY <1>4a, <1>e DEF NoTranscript, Lacking, Return, Fault
<1>5. ASSUME NEW c \in Calls, Upload(c) PROVE TypeInv'
  BY <1>5 DEF Upload
<1>6. ASSUME NEW c \in Calls, UploadFails(c) PROVE TypeInv'
  <2>1. node' \in SUBSET Voices /\ faults' \in 0..MaxFaults
    BY <1>6 DEF UploadFails, Fault
  <2> QED
    BY <1>6, <1>e, <2>1 DEF UploadFails, Return
<1>7. ASSUME NEW c \in Calls, ChooseOld(c) PROVE TypeInv'
  BY <1>7 DEF ChooseOld, Speak
<1>8. ASSUME NEW c \in Calls, ChooseNew(c) PROVE TypeInv'
  BY <1>8 DEF ChooseNew
<1>9. ASSUME NEW c \in Calls, ListVoices(c) PROVE TypeInv'
  <2>1. PICK q \in Listings : view' = [view EXCEPT ![c] = q]
    BY <1>9 DEF ListVoices
  <2>2. q \in Seq(Voices) /\ q # <<>>
    BY <1>9, ListingType DEF ListVoices
  <2> QED
    BY <1>9, <2>1, <2>2 DEF ListVoices
<1>10. ASSUME NEW c \in Calls, ListFails(c) PROVE TypeInv'
  BY <1>10 DEF ListFails, Speak, Fault
<1>11. ASSUME NEW c \in Calls, Cache(c) PROVE TypeInv'
  BY <1>11 DEF Cache
<1>12. ASSUME NEW c \in Calls, Assign(c) PROVE TypeInv'
  <2>1. Chosen(c) \in Voices
    BY <1>12, ChosenType DEF Assign
  <2> QED
    BY <1>12, <1>e, <2>1, StoreType DEF Assign, Speak
<1>13. ASSUME NEW c \in Calls, Synthesize(c) PROVE TypeInv'
  BY <1>13, <1>e DEF Synthesize, Return
<1>14. ASSUME NEW c \in Calls, SynthesizeFails(c) PROVE TypeInv'
  BY <1>14, <1>e DEF SynthesizeFails, Fault, Return
<1>15. ASSUME NEW v \in Voices, Register(v) PROVE TypeInv'
  BY <1>15 DEF Register, Change
<1>16. ASSUME NEW V \in SUBSET Voices, Replace(V) PROVE TypeInv'
  BY <1>16 DEF Replace, Change
<1>17. ASSUME Restart PROVE TypeInv'
  <2>1. \A c \in Calls : pc'[c] = "idle"
    BY <1>17 DEF Restart
  <2>2. changes' \in 0..MaxChanges /\ mixed' \in SUBSET Sessions
    BY <1>17 DEF Restart, Change
  <2>3. TypeOK'
    BY <1>17, <1>e, <2>1, <2>2 DEF Restart
  <2>4. Named'
    BY <2>1
  <2> QED
    BY <2>3, <2>4, Zenon
<1>18. ASSUME UNCHANGED vars PROVE TypeInv'
  <2>1. TypeOK'
    BY <1>18 DEF vars
  <2>2. Named'
    BY <1>18 DEF vars
  <2> QED
    BY <2>1, <2>2, Zenon
<1> HIDE DEF TypeInv
<1>19. ASSUME NEW c \in Calls, Call(c) PROVE TypeInv'
  BY <1>1, <1>2, <1>3, <1>4, <1>4a, <1>5, <1>6, <1>7, <1>8, <1>9, <1>10, <1>11, <1>12, <1>13,
     <1>14, <1>19 DEF Call
<1> QED
  BY <1>15, <1>16, <1>17, <1>18, <1>19 DEF Next

LEMMA TypeAlways == Spec => []TypeInv
<1>1. Init => TypeInv
  BY TypeInit
<1>2. TypeInv /\ [Next]_vars => TypeInv'
  BY TypeStep
<1> QED
  BY <1>1, <1>2, PTL DEF Spec

\* The types of the sessions, the calls and the node are kept by every step of a
\* call, of the node and of the process (ensureSession, chooseVoice, Open).
THEOREM TypeCorrect == Spec => []TypeOK
<1>1. TypeInv => TypeOK
  BY DEF TypeInv
<1> QED
  BY <1>1, TypeAlways, PTL
-----------------------------------------------------------------------------
(***************************************************************************)
(* One voice per session.                                                  *)
(***************************************************************************)
LEMMA OneInit == Init => OneInv
  BY TypeInit DEF Init, OneInv, Single, Faithful

LEMMA SingleStep == OneInv /\ TypeInv' /\ [Next]_vars => Single'
<1> SUFFICES ASSUME OneInv, TypeInv', [Next]_vars PROVE Single'
  OBVIOUS
<1> USE DEF OneInv, TypeInv, TypeOK, Steps, Single, Goto, store, service, locals, past
<1>1. ASSUME NEW c \in Calls, NEW s \in Sessions, NEW k \in {"say", "listen"}, GetSession(c, s, k)
      PROVE Single'
  BY <1>1 DEF GetSession, Open
<1>2. ASSUME NEW c \in Calls, Touch(c) PROVE Single'
  BY <1>2 DEF Touch, UpsertSession
<1>3. ASSUME NEW c \in Calls, TouchListen(c) PROVE Single'
  BY <1>3 DEF TouchListen, UpsertSession, Return
<1>4. ASSUME NEW c \in Calls, HasVoice(c) PROVE Single'
  <2>1. \E step \in {"choose", "upload"} : Goto(c, step)
    BY <1>4 DEF HasVoice, Lacking
  <2> QED
    BY <1>4, <2>1 DEF HasVoice
<1>4a. ASSUME NEW c \in Calls, NoTranscript(c) PROVE Single'
  BY <1>4a DEF NoTranscript, Lacking, Return
<1>5. ASSUME NEW c \in Calls, Upload(c) PROVE Single'
  BY <1>5 DEF Upload
<1>6. ASSUME NEW c \in Calls, UploadFails(c) PROVE Single'
  BY <1>6 DEF UploadFails, Return
<1>7. ASSUME NEW c \in Calls, ChooseOld(c) PROVE Single'
  BY <1>7 DEF ChooseOld, Speak
<1>8. ASSUME NEW c \in Calls, ChooseNew(c) PROVE Single'
  BY <1>8 DEF ChooseNew
<1>9. ASSUME NEW c \in Calls, ListVoices(c) PROVE Single'
  BY <1>9 DEF ListVoices
<1>10. ASSUME NEW c \in Calls, ListFails(c) PROVE Single'
  BY <1>10 DEF ListFails, Speak
<1>11. ASSUME NEW c \in Calls, Cache(c) PROVE Single'
  BY <1>11 DEF Cache
<1>12. ASSUME NEW c \in Calls, Assign(c) PROVE Single'
  BY <1>12 DEF Assign, Speak, UpsertSession
<1>13. ASSUME NEW c \in Calls, Synthesize(c) PROVE Single'
  BY <1>13 DEF Synthesize, Return
<1>14. ASSUME NEW c \in Calls, SynthesizeFails(c) PROVE Single'
  BY <1>14 DEF SynthesizeFails, Return
<1>15. ASSUME NEW v \in Voices, Register(v) PROVE Single'
  BY <1>15 DEF Register
<1>16. ASSUME NEW V \in SUBSET Voices, Replace(V) PROVE Single'
  BY <1>16 DEF Replace
<1>17. ASSUME Restart PROVE Single'
  BY <1>17 DEF Restart
<1>18. ASSUME UNCHANGED vars PROVE Single'
  BY <1>18 DEF vars
<1>19. ASSUME NEW c \in Calls, Call(c) PROVE Single'
  BY <1>1, <1>2, <1>3, <1>4, <1>4a, <1>5, <1>6, <1>7, <1>8, <1>9, <1>10, <1>11, <1>12, <1>13,
     <1>14, <1>19 DEF Call
<1> QED
  BY <1>15, <1>16, <1>17, <1>18, <1>19 DEF Next

LEMMA FaithfulStep == OneInv /\ TypeInv' /\ [Next]_vars => Faithful'
<1> SUFFICES ASSUME OneInv, TypeInv', [Next]_vars PROVE Faithful'
  OBVIOUS
<1> USE DEF OneInv, TypeInv, TypeOK, Steps, Named, Single, Faithful, Agrees, Goto, store, service,
            locals, past
<1>1. ASSUME NEW c \in Calls, NEW s \in Sessions, NEW k \in {"say", "listen"}, GetSession(c, s, k)
      PROVE Faithful'
  BY <1>1 DEF GetSession, Open
<1>2. ASSUME NEW c \in Calls, Touch(c) PROVE Faithful'
  BY <1>2 DEF Touch, UpsertSession
<1>3. ASSUME NEW c \in Calls, TouchListen(c) PROVE Faithful'
  BY <1>3 DEF TouchListen, UpsertSession, Return
<1>4. ASSUME NEW c \in Calls, HasVoice(c) PROVE Faithful'
  BY <1>4 DEF HasVoice, Lacking
<1>4a. ASSUME NEW c \in Calls, NoTranscript(c) PROVE Faithful'
  BY <1>4a DEF NoTranscript, Lacking, Return
<1>5. ASSUME NEW c \in Calls, Upload(c) PROVE Faithful'
  BY <1>5 DEF Upload
<1>6. ASSUME NEW c \in Calls, UploadFails(c) PROVE Faithful'
  BY <1>6 DEF UploadFails, Return
<1>7. ASSUME NEW c \in Calls, ChooseOld(c) PROVE Faithful'
  BY <1>7 DEF ChooseOld, Speak
<1>8. ASSUME NEW c \in Calls, ChooseNew(c) PROVE Faithful'
  BY <1>8 DEF ChooseNew
<1>9. ASSUME NEW c \in Calls, ListVoices(c) PROVE Faithful'
  BY <1>9 DEF ListVoices
<1>10. ASSUME NEW c \in Calls, ListFails(c) PROVE Faithful'
  BY <1>10 DEF ListFails, Speak
<1>11. ASSUME NEW c \in Calls, Cache(c) PROVE Faithful'
  BY <1>11 DEF Cache
<1>12. ASSUME NEW c \in Calls, Assign(c) PROVE Faithful'
  BY <1>12 DEF Assign, Speak, UpsertSession
<1>13. ASSUME NEW c \in Calls, Synthesize(c) PROVE Faithful'
  BY <1>13 DEF Synthesize, Return
<1>14. ASSUME NEW c \in Calls, SynthesizeFails(c) PROVE Faithful'
  BY <1>14 DEF SynthesizeFails, Return
<1>15. ASSUME NEW v \in Voices, Register(v) PROVE Faithful'
  BY <1>15 DEF Register
<1>16. ASSUME NEW V \in SUBSET Voices, Replace(V) PROVE Faithful'
  BY <1>16 DEF Replace
<1>17. ASSUME Restart PROVE Faithful'
  BY <1>17 DEF Restart
<1>18. ASSUME UNCHANGED vars PROVE Faithful'
  BY <1>18 DEF vars
<1>19. ASSUME NEW c \in Calls, Call(c) PROVE Faithful'
  BY <1>1, <1>2, <1>3, <1>4, <1>4a, <1>5, <1>6, <1>7, <1>8, <1>9, <1>10, <1>11, <1>12, <1>13,
     <1>14, <1>19 DEF Call
<1> QED
  BY <1>15, <1>16, <1>17, <1>18, <1>19 DEF Next

-----------------------------------------------------------------------------
(***************************************************************************)
(* Known voices.                                                           *)
(***************************************************************************)
LEMMA KnownInit == Init => KnownInv
  BY TypeInit DEF Init, KnownInv, Ready, Listed, Provided

LEMMA ReadyStep == KnownInv /\ TypeInv' /\ [Next]_vars => Ready'
<1> SUFFICES ASSUME KnownInv, TypeInv', [Next]_vars PROVE Ready'
  OBVIOUS
<1> USE DEF KnownInv, TypeInv, TypeOK, Steps, Provided, Ensures, Ready, Goto, store, service, locals, past
<1>1. ASSUME NEW c \in Calls, NEW s \in Sessions, NEW k \in {"say", "listen"}, GetSession(c, s, k)
      PROVE Ready'
  BY <1>1 DEF GetSession, Open
<1>2. ASSUME NEW c \in Calls, Touch(c) PROVE Ready'
  BY <1>2 DEF Touch, UpsertSession
<1>3. ASSUME NEW c \in Calls, TouchListen(c) PROVE Ready'
  BY <1>3 DEF TouchListen, UpsertSession, Return
<1>4. ASSUME NEW c \in Calls, HasVoice(c) PROVE Ready'
  BY <1>4 DEF HasVoice, Lacking
<1>4a. ASSUME NEW c \in Calls, NoTranscript(c) PROVE Ready'
  BY <1>4a DEF NoTranscript, Lacking, Return
<1>5. ASSUME NEW c \in Calls, Upload(c) PROVE Ready'
  BY <1>5 DEF Upload
<1>6. ASSUME NEW c \in Calls, UploadFails(c) PROVE Ready'
  BY <1>6 DEF UploadFails, Return
<1>7. ASSUME NEW c \in Calls, ChooseOld(c) PROVE Ready'
  BY <1>7 DEF ChooseOld, Speak
<1>8. ASSUME NEW c \in Calls, ChooseNew(c) PROVE Ready'
  BY <1>8 DEF ChooseNew
<1>9. ASSUME NEW c \in Calls, ListVoices(c) PROVE Ready'
  BY <1>9 DEF ListVoices
<1>10. ASSUME NEW c \in Calls, ListFails(c) PROVE Ready'
  BY <1>10 DEF ListFails, Speak
<1>11. ASSUME NEW c \in Calls, Cache(c) PROVE Ready'
  BY <1>11 DEF Cache
<1>12. ASSUME NEW c \in Calls, Assign(c) PROVE Ready'
  BY <1>12 DEF Assign, Speak, UpsertSession
<1>13. ASSUME NEW c \in Calls, Synthesize(c) PROVE Ready'
  BY <1>13 DEF Synthesize, Return
<1>14. ASSUME NEW c \in Calls, SynthesizeFails(c) PROVE Ready'
  BY <1>14 DEF SynthesizeFails, Return
<1>15. ASSUME NEW v \in Voices, Register(v) PROVE Ready'
  BY <1>15 DEF Register
<1>16. ASSUME NEW V \in SUBSET Voices, Replace(V) PROVE Ready'
  BY <1>16 DEF Replace
<1>17. ASSUME Restart PROVE Ready'
  BY <1>17 DEF Restart
<1>18. ASSUME UNCHANGED vars PROVE Ready'
  BY <1>18 DEF vars
<1>19. ASSUME NEW c \in Calls, Call(c) PROVE Ready'
  BY <1>1, <1>2, <1>3, <1>4, <1>4a, <1>5, <1>6, <1>7, <1>8, <1>9, <1>10, <1>11, <1>12, <1>13,
     <1>14, <1>19 DEF Call
<1> QED
  BY <1>15, <1>16, <1>17, <1>18, <1>19 DEF Next

LEMMA ListedStep == KnownInv /\ TypeInv' /\ [Next]_vars => Listed'
<1> SUFFICES ASSUME KnownInv, TypeInv', [Next]_vars PROVE Listed'
  OBVIOUS
<1> USE DEF KnownInv, TypeInv, TypeOK, Steps, Listed, Goto, store, service, locals, past
<1>1. ASSUME NEW c \in Calls, NEW s \in Sessions, NEW k \in {"say", "listen"}, GetSession(c, s, k)
      PROVE Listed'
  BY <1>1 DEF GetSession, Open
<1>2. ASSUME NEW c \in Calls, Touch(c) PROVE Listed'
  BY <1>2 DEF Touch, UpsertSession
<1>3. ASSUME NEW c \in Calls, TouchListen(c) PROVE Listed'
  BY <1>3 DEF TouchListen, UpsertSession, Return
<1>4. ASSUME NEW c \in Calls, HasVoice(c) PROVE Listed'
  BY <1>4 DEF HasVoice, Lacking
<1>4a. ASSUME NEW c \in Calls, NoTranscript(c) PROVE Listed'
  BY <1>4a DEF NoTranscript, Lacking, Return
<1>5. ASSUME NEW c \in Calls, Upload(c) PROVE Listed'
  BY <1>5 DEF Upload
<1>6. ASSUME NEW c \in Calls, UploadFails(c) PROVE Listed'
  BY <1>6 DEF UploadFails, Return
<1>7. ASSUME NEW c \in Calls, ChooseOld(c) PROVE Listed'
  BY <1>7 DEF ChooseOld, Speak
<1>8. ASSUME NEW c \in Calls, ChooseNew(c) PROVE Listed'
  BY <1>8 DEF ChooseNew
<1>9. ASSUME NEW c \in Calls, ListVoices(c) PROVE Listed'
  <2>1. PICK q \in Listings : view' = [view EXCEPT ![c] = q]
    BY <1>9 DEF ListVoices
  <2>2. \A i \in 1..Len(q) : q[i] \in node
    BY ListingType
  <2> QED
    BY <1>9, <2>1, <2>2 DEF ListVoices
<1>10. ASSUME NEW c \in Calls, ListFails(c) PROVE Listed'
  BY <1>10 DEF ListFails, Speak
<1>11. ASSUME NEW c \in Calls, Cache(c) PROVE Listed'
  BY <1>11 DEF Cache
<1>12. ASSUME NEW c \in Calls, Assign(c) PROVE Listed'
  <2>1. ~replaced => Chosen(c) \in node
    BY <1>12, ChosenType DEF Assign
  <2>2. sess[c] \in Sessions
    BY <1>12 DEF Assign, Named
  <2>3. ~replaced => \A s \in Sessions :
            db'[s] \in node \cup {NoVoice} /\ disk'[s] \in node \cup {NoVoice}
    BY <1>12, <2>1, <2>2 DEF Assign, UpsertSession
  <2>4. \A d \in Calls : view'[d] = IF d = c THEN <<>> ELSE view[d]
    BY <1>12 DEF Assign
  <2>5. ~replaced => \A d \in Calls :
            copy'[d] \in node \cup {NoVoice} /\ voice'[d] \in node \cup {NoVoice}
    BY <1>12, <2>1 DEF Assign, Speak
  <2>6. Len(<<>>) = 0
    BY EmptySeq
  <2>7. replaced' = replaced /\ node' = node /\ voicePool' = voicePool
    BY <1>12 DEF Assign
  <2> QED
    BY <2>3, <2>4, <2>5, <2>6, <2>7
<1>13. ASSUME NEW c \in Calls, Synthesize(c) PROVE Listed'
  BY <1>13 DEF Synthesize, Return
<1>14. ASSUME NEW c \in Calls, SynthesizeFails(c) PROVE Listed'
  BY <1>14 DEF SynthesizeFails, Return
<1>15. ASSUME NEW v \in Voices, Register(v) PROVE Listed'
  BY <1>15 DEF Register
<1>16. ASSUME NEW V \in SUBSET Voices, Replace(V) PROVE Listed'
  BY <1>16 DEF Replace
<1>17. ASSUME Restart PROVE Listed'
  BY <1>17 DEF Restart
<1>18. ASSUME UNCHANGED vars PROVE Listed'
  BY <1>18 DEF vars
<1> HIDE DEF KnownInv, Listed
<1>19. ASSUME NEW c \in Calls, Call(c) PROVE Listed'
  BY <1>1, <1>2, <1>3, <1>4, <1>4a, <1>5, <1>6, <1>7, <1>8, <1>9, <1>10, <1>11, <1>12, <1>13,
     <1>14, <1>19 DEF Call
<1> QED
  BY <1>15, <1>16, <1>17, <1>18, <1>19 DEF Next

-----------------------------------------------------------------------------
(***************************************************************************)
(* The theorems.                                                           *)
(***************************************************************************)
LEMMA OneInvAlways == Spec => []OneInv
<1>1. Init => OneInv
  BY OneInit
<1>2. OneInv /\ [Next]_vars => OneInv'
  BY TypeStep, SingleStep, FaithfulStep DEF OneInv
<1> QED
  BY <1>1, <1>2, PTL DEF Spec

LEMMA KnownInvAlways == Spec => []KnownInv
<1>1. Init => KnownInv
  BY KnownInit
<1>2. KnownInv /\ [Next]_vars => KnownInv'
  BY TypeStep, ReadyStep, ListedStep DEF KnownInv
<1> QED
  BY <1>1, <1>2, PTL DEF Spec

\* A session whose calls do not overlap, and whose voice was not lost by a failed
\* write before a restart, is heard with one rotated voice (chooseVoice), whatever
\* other sessions do, however the node's voices change, and across restarts.
THEOREM OneVoiceAlways == Spec => []OneVoice
<1>1. ASSUME OneInv PROVE OneVoice
  <2>1. ASSUME NEW s \in Sessions \ mixed PROVE Cardinality(spoken[s]) <= 1
    <3>1. spoken[s] \subseteq {db[s]}
      BY <1>1, <2>1 DEF OneInv, Faithful
    <3>2. IsFiniteSet({db[s]}) /\ Cardinality({db[s]}) = 1
      BY FS_Singleton
    <3> QED
      BY <3>1, <3>2, FS_Subset
  <2> QED
    BY <2>1 DEF OneVoice
<1> QED
  BY <1>1, OneInvAlways, PTL

\* The node is asked for a voice it has: the configured one if there is a WAV of it and
\* the node was not replaced after EnsureVoice, a rotated one unless it was ever replaced
\* (voicePoolSnapshot, chooseVoice).  Of a voice configured by its name alone, nothing is
\* claimed.
THEOREM VoiceKnownAlways == Spec => []VoiceKnown
<1>1. KnownInv => VoiceKnown
  BY DEF KnownInv, Ready, Listed, Provided, VoiceKnown, Wanted
<1> QED
  BY <1>1, KnownInvAlways, PTL

=============================================================================
