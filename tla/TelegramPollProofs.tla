-------------------------- MODULE TelegramPollProofs --------------------------
(***************************************************************************)
(* Proofs about TelegramPoll, for any allowlists, messages, batch size and *)
(* number of updates, faults and restarts: types, the order in which notes *)
(* are handled, that Telegram forgets only notes that are settled, and     *)
(* that the files handed over are whole.                                   *)
(*                                                                         *)
(* All rests on one number, Confirmed: what Telegram will have forgotten   *)
(* after the next getUpdates.  The rest of the batch follows it without a  *)
(* gap (Along), everything up to it is settled or about to be (Settled),   *)
(* and what was handled lies below it, in order (Ordered).                 *)
(***************************************************************************)
EXTENDS TelegramPoll, SequenceTheorems, TLAPS

USE PollAssumption

Downloading == pc \in {"getFile", "create", "fetch", "handle"}

Along ==
    /\ Confirmed <= Len(inbox)
    /\ \A i \in 1..Len(batch) : batch[i] = Confirmed + i
    /\ Downloading => cur = Confirmed /\ cur > acked

Settled ==
    \A u \in 1..Confirmed :
        IsNote(u) => \/ u \in recorded \cup missed
                     \/ Downloading /\ u = cur
                     \/ ctx = "cancelled" /\ u > acked

Ordered ==
    /\ HandledInOrder
    /\ \A i \in 1..Len(handled) : /\ handled[i] <= Confirmed
                                  /\ Downloading => handled[i] < cur

Whole ==
    /\ HandledWhole
    /\ pc = "handle" => files[cur] = "whole"

IInv == TypeOK /\ Along /\ Settled /\ Ordered /\ Whole

-----------------------------------------------------------------------------
LEMMA ConfirmedType ==
    ASSUME TypeOK
    PROVE  /\ Confirmed \in Nat /\ acked \in Nat /\ acked <= Confirmed /\ Confirmed \in 0..MaxUpdates
           /\ Len(inbox) \in Nat /\ Len(inbox) <= MaxUpdates
           /\ Len(batch) \in Nat /\ Len(handled) \in Nat
  BY LenProperties DEF TypeOK, Confirmed

LEMMA IInvInit == Init => IInv
<1>1. ASSUME Init PROVE TypeOK
  BY <1>1, EmptySeq DEF Init, Fresh, TypeOK, NoUpdate
<1>2. ASSUME Init PROVE Along /\ Settled /\ Ordered /\ Whole
  BY <1>2, EmptySeq DEF Init, Fresh, Confirmed, Downloading, Along, Settled, Ordered, Whole,
                        HandledInOrder, HandledWhole
<1> QED
  BY <1>1, <1>2 DEF IInv

\* Steps of the loop that do not touch an update.
LEMMA Frame ==
    ASSUME IInv, TypeOK', UNCHANGED <<inbox, batch, cur, files, handled, recorded, missed>>,
           Confirmed' = Confirmed, acked' >= acked, ~Downloading, ~Downloading',
           ctx = "cancelled" => ctx' = "cancelled" /\ acked' = acked
    PROVE  IInv'
<1>1. /\ Confirmed \in Nat /\ acked \in Nat /\ acked' \in Nat
      /\ pc' # "handle"
  BY ConfirmedType DEF IInv, TypeOK, Downloading
<1>2. Along'
  BY DEF IInv, Along
<1>3. Settled'
  BY <1>1 DEF IInv, Settled, IsNote
<1>4. Ordered'
  BY DEF IInv, Ordered, HandledInOrder
<1>5. Whole'
  BY <1>1 DEF IInv, Whole, HandledWhole
<1> QED
  BY <1>2, <1>3, <1>4, <1>5 DEF IInv

\* The download or the failure of the update in dispatch.
LEMMA Ends ==
    ASSUME IInv, TypeOK', Downloading, pc' = "loop", Fails,
           UNCHANGED <<inbox, acked, ctx, offset, batch, cur, files, handled, recorded>>
    PROVE  IInv'
<1>1. Confirmed' = Confirmed /\ ~Downloading' /\ cur = Confirmed /\ cur > acked /\ pc' # "handle"
  BY DEF Confirmed, Downloading, IInv, Along
<1>2. missed \subseteq missed' /\ (cur \in missed' \/ ctx = "cancelled")
  BY DEF Fails
<1>3. Along'
  BY <1>1 DEF IInv, Along
<1>4. Settled'
  BY <1>1, <1>2 DEF IInv, Settled, IsNote
<1>5. Ordered'
  BY <1>1 DEF IInv, Ordered, HandledInOrder
<1>6. Whole'
  BY <1>1 DEF IInv, Whole, HandledWhole
<1> QED
  BY <1>3, <1>4, <1>5, <1>6 DEF IInv

\* A step of the download that goes on.
LEMMA GoesOn ==
    ASSUME IInv, TypeOK', Downloading, Downloading',
           UNCHANGED <<inbox, acked, ctx, offset, batch, cur, past, bounds>>,
           \A u \in Updates : u # cur => files'[u] = files[u],
           pc' = "handle" => files'[cur] = "whole"
    PROVE  IInv'
<1>1. Confirmed' = Confirmed
  BY DEF Confirmed
<1>2. Along'
  BY <1>1 DEF IInv, Along
<1>3. Settled'
  BY <1>1 DEF IInv, Settled, IsNote, past
<1>4. Ordered'
  BY <1>1 DEF IInv, Ordered, HandledInOrder, past
<1>5. Whole'
  <2>1. ASSUME NEW i \in 1..Len(handled) PROVE handled[i] \in Updates /\ handled[i] # cur
    <3>1. handled[i] \in Updates /\ handled[i] < cur
      BY ElementOfSeq DEF IInv, TypeOK, Ordered
    <3>2. handled[i] \in Int
      BY <3>1 DEF Updates
    <3> QED
      BY <3>1, <3>2
  <2> QED
    BY <2>1 DEF IInv, Whole, HandledWhole, past
<1> QED
  BY <1>2, <1>3, <1>4, <1>5 DEF IInv

-----------------------------------------------------------------------------
LEMMA TypeStep == IInv /\ [Next]_vars => TypeOK'
<1> SUFFICES ASSUME IInv, [Next]_vars PROVE TypeOK'
  OBVIOUS
<1> USE DEF TypeOK, Goto, Fault, locals, past, bounds
<1>a. /\ TypeOK /\ Along
  BY DEF IInv
<1>b. /\ Confirmed \in Nat /\ Confirmed \in 0..MaxUpdates /\ Len(inbox) \in Nat
      /\ Len(inbox) <= MaxUpdates /\ Confirmed <= Len(inbox)
  BY <1>a, ConfirmedType DEF Along
<1>1. ASSUME NEW m \in Incoming, Send(m) PROVE TypeOK'
  <2>1. inbox' \in Seq(Incoming) /\ Len(inbox') = Len(inbox) + 1
    BY <1>a, <1>1, AppendProperties DEF Send
  <2>2. batch \in Seq(1..Len(inbox'))
    <3>1. 1..Len(inbox) \subseteq 1..Len(inbox')
      BY <1>b, <2>1
    <3>2. Len(batch) \in Nat /\ batch \in [1..Len(batch) -> 1..Len(inbox)]
      BY <1>a, LenProperties
    <3>3. batch \in [1..Len(batch) -> 1..Len(inbox')]
      BY <3>1, <3>2
    <3> HIDE DEF TypeOK
    <3> QED
      BY <3>2, <3>3, SeqDef
  <2> QED
    BY <1>a, <1>b, <1>1, <2>1, <2>2 DEF Send
<1>2. ASSUME Answer PROVE TypeOK'
  <2> DEFINE n == Len(inbox) - Confirmed
             k == IF n < Limit THEN n ELSE Limit
  <2>1. k \in Nat /\ Confirmed + k <= Len(inbox)
    BY <1>b
  <2>2. \A i \in 1..k : Confirmed + i \in 1..Len(inbox)
    BY <1>b, <2>1
  <2>3. batch' = [i \in 1..k |-> Confirmed + i]
    BY <1>2 DEF Answer
  <2>4. batch' \in Seq(1..Len(inbox))
    BY <2>1, <2>2, <2>3
  <2> QED
    BY <1>a, <1>b, <1>2, <2>4 DEF Answer
<1>3. ASSUME PollFails PROVE TypeOK'
  BY <1>a, <1>b, <1>3 DEF PollFails
<1>4. ASSUME Retry \/ Return \/ Drained PROVE TypeOK'
  BY <1>a, <1>4 DEF Retry, Return, Drained
<1>5. ASSUME Dispatch PROVE TypeOK'
  <2>1. Head(batch) \in 1..Len(inbox) /\ Tail(batch) \in Seq(1..Len(inbox))
    BY <1>a, <1>5, HeadTailProperties DEF Dispatch
  <2>2. Head(batch) \in Updates /\ Head(batch) + 1 \in 0..(MaxUpdates + 1)
    BY <1>b, <2>1 DEF Updates
  <2> QED
    BY <1>a, <1>5, <2>1, <2>2 DEF Dispatch
<1>6. ASSUME GetFile PROVE TypeOK'
  BY <1>a, <1>6 DEF GetFile
<1>7. ASSUME GetFileFails \/ FetchFails PROVE TypeOK'
  <2>1. cur \in Updates
    BY <1>a, <1>b, <1>7 DEF GetFileFails, FetchFails, Along, Downloading, Updates
  <2> QED
    BY <1>a, <1>7, <2>1 DEF GetFileFails, FetchFails, Fails
<1>8. ASSUME Create \/ Fetch PROVE TypeOK'
  BY <1>a, <1>8 DEF Create, Fetch
<1>9. ASSUME Handle PROVE TypeOK'
  <2>1. cur \in Updates
    BY <1>a, <1>b, <1>9 DEF Handle, Along, Downloading, Updates
  <2>2. Append(handled, cur) \in Seq(Updates)
    BY <1>a, <2>1, AppendProperties
  <2> QED
    BY <1>a, <1>9, <2>1, <2>2 DEF Handle
<1>10. ASSUME Cancel PROVE TypeOK'
  BY <1>a, <1>10 DEF Cancel
<1>11. ASSUME Restart PROVE TypeOK'
  BY <1>a, <1>11, EmptySeq DEF Restart
<1>12. CASE UNCHANGED vars
  BY <1>a, <1>12 DEF vars
<1> QED
  BY <1>1, <1>2, <1>3, <1>4, <1>5, <1>6, <1>7, <1>8, <1>9, <1>10, <1>11, <1>12 DEF Next, Poll

\* Every step keeps the batch behind Confirmed, and what lies up to it settled.
LEMMA IInvStep == IInv /\ [Next]_vars => IInv'
<1> SUFFICES ASSUME IInv, [Next]_vars PROVE IInv'
  OBVIOUS
<1>a. TypeOK'
  BY TypeStep
<1>b. /\ TypeOK /\ Along /\ Settled /\ Ordered /\ Whole
  BY DEF IInv
<1>c. /\ Confirmed \in Nat /\ acked \in Nat /\ acked <= Confirmed
      /\ Len(inbox) \in Nat /\ Len(batch) \in Nat /\ Len(handled) \in Nat
  BY <1>b, ConfirmedType
<1>1. ASSUME NEW m \in Incoming, Send(m) PROVE IInv'
  <2>1. /\ Len(inbox') = Len(inbox) + 1
        /\ \A u \in 1..Len(inbox) : inbox'[u] = inbox[u]
        /\ UNCHANGED <<acked, ctx, pc, offset, batch, cur, files, handled, recorded, missed>>
    BY <1>b, <1>1, AppendProperties DEF Send, TypeOK, locals, past
  <2>2. Confirmed' = Confirmed /\ (Downloading' <=> Downloading)
    BY <2>1 DEF Confirmed, Downloading
  <2>3. \A u \in 1..Confirmed : IsNote(u)' <=> IsNote(u)
    <3>1. \A u \in 1..Confirmed : u \in 1..Len(inbox)
      BY <1>b, <1>c DEF Along
    <3> QED
      BY <2>1, <3>1 DEF IsNote
  <2>4. Along'
    BY <1>b, <1>c, <2>1, <2>2 DEF Along
  <2>5. Settled'
    BY <1>b, <2>1, <2>2, <2>3 DEF Settled
  <2>6. Ordered' /\ Whole'
    BY <1>b, <2>1, <2>2 DEF Ordered, Whole, HandledInOrder, HandledWhole
  <2> QED
    BY <1>a, <2>4, <2>5, <2>6 DEF IInv
<1>2. ASSUME Answer PROVE IInv'
  <2> DEFINE n == Len(inbox) - Confirmed
             k == IF n < Limit THEN n ELSE Limit
  <2>1. /\ pc = "poll" /\ ctx = "live" /\ acked' = Confirmed
        /\ batch' = [i \in 1..k |-> Confirmed + i] /\ k \in Nat
        /\ pc' = "loop"
        /\ UNCHANGED <<inbox, ctx, offset, cur, files, handled, recorded, missed>>
    BY <1>b, <1>c, <1>2 DEF Answer, Goto, past, Along
  <2>2. Confirmed' = Confirmed
    BY <1>b, <1>c, <2>1 DEF Confirmed, TypeOK
  <2>3. ~Downloading /\ ~Downloading' /\ pc' # "handle"
    BY <2>1 DEF Downloading
  <2>4. Len(batch') = k /\ \A i \in 1..Len(batch') : batch'[i] = Confirmed + i
    BY <2>1
  <2>5. Along'
    BY <1>b, <2>1, <2>2, <2>3, <2>4 DEF Along
  <2>6. Settled'
    BY <1>b, <2>1, <2>2, <2>3 DEF Settled, IsNote
  <2>7. Ordered'
    BY <1>b, <2>1, <2>2, <2>3 DEF Ordered, HandledInOrder
  <2>8. Whole'
    BY <1>b, <2>1, <2>3 DEF Whole, HandledWhole
  <2> QED
    BY <1>a, <2>5, <2>6, <2>7, <2>8 DEF IInv
<1>3. ASSUME PollFails PROVE IInv'
  <2>1. Confirmed' = Confirmed /\ acked' >= acked
    BY <1>b, <1>c, <1>3 DEF PollFails, Confirmed, TypeOK
  <2> QED
    BY <1>3, <1>a, <2>1, Frame DEF PollFails, Goto, Downloading, past
<1>4. ASSUME Retry \/ Return \/ Drained PROVE IInv'
  <2>1. Confirmed' = Confirmed /\ acked' >= acked /\ acked' = acked
    BY <1>c, <1>4 DEF Retry, Return, Drained, Confirmed
  <2> QED
    BY <1>4, <1>a, <2>1, Frame DEF Retry, Return, Drained, Goto, Downloading, past
<1>5. ASSUME Dispatch PROVE IInv'
  <2>1. PICK u \in Nat : u = Confirmed + 1
    BY <1>c
  <2>2. batch # <<>> /\ Len(batch) >= 1 /\ Head(batch) = u
    BY <1>b, <1>c, <1>5, <2>1, HeadTailProperties DEF Dispatch, TypeOK, Along
  <2>3. /\ cur' = u /\ offset' = u + 1 /\ pc = "loop"
        /\ pc' = IF IsNote(u) THEN "getFile" ELSE "loop"
        /\ UNCHANGED <<inbox, acked, ctx, files, handled, recorded, missed>>
    BY <1>5, <2>2 DEF Dispatch, Goto, past
  <2>4. Confirmed' = u /\ u > acked
    BY <1>c, <2>1, <2>3 DEF Confirmed
  <2>5. u <= Len(inbox)
    BY <1>b, <1>c, <2>2, HeadTailProperties DEF TypeOK
  <2>6. /\ Len(batch') = Len(batch) - 1
        /\ \A i \in 1..Len(batch') : batch'[i] = batch[i + 1] /\ i + 1 \in 1..Len(batch)
    BY <1>b, <1>c, <1>5, <2>2, HeadTailProperties DEF Dispatch, TypeOK
  <2>7. \A i \in 1..Len(batch') : batch'[i] = u + i
    BY <1>b, <1>c, <2>1, <2>6 DEF Along
  <2>8. ~Downloading /\ (Downloading' <=> IsNote(u)) /\ pc' # "handle"
    BY <2>3 DEF Downloading
  <2>9. Along'
    BY <2>3, <2>4, <2>5, <2>7 DEF Along
  <2>10. Settled'
    <3>1. \A v \in 1..u : v \in 1..Confirmed \/ v = u
      BY <1>c, <2>1
    <3> QED
      BY <1>b, <2>3, <2>4, <2>8, <3>1 DEF Settled, IsNote
  <2>11. Ordered'
    <3>1. ASSUME NEW i \in 1..Len(handled) PROVE handled[i] < u
      <4>1. handled[i] \in Updates /\ handled[i] <= Confirmed
        BY <1>b, ElementOfSeq DEF TypeOK, Ordered
      <4> QED
        BY <1>c, <2>1, <4>1 DEF Updates
    <3>2. \A i \in 1..Len(handled) : handled[i] <= u
      <4>1. \A i \in 1..Len(handled) : handled[i] \in Int
        BY <1>b, ElementOfSeq DEF TypeOK, Updates
      <4> QED
        BY <3>1, <4>1, <2>1
    <3> QED
      BY <1>b, <2>3, <2>4, <3>1, <3>2 DEF Ordered, HandledInOrder
  <2>12. Whole'
    BY <1>b, <2>3, <2>8 DEF Whole, HandledWhole
  <2> QED
    BY <1>a, <2>9, <2>10, <2>11, <2>12 DEF IInv
<1>6. ASSUME GetFile PROVE IInv'
  BY <1>6, <1>a, GoesOn DEF GetFile, Goto, Downloading
<1>7. ASSUME GetFileFails \/ FetchFails PROVE IInv'
  BY <1>7, <1>a, Ends DEF GetFileFails, FetchFails, Goto, Downloading
<1>8. ASSUME Create \/ Fetch PROVE IInv'
  <2>1. cur \in Updates
    BY <1>a, <1>b, <1>c, <1>8, ConfirmedType DEF Create, Fetch, Along, Downloading, Updates
  <2>2. /\ \A u \in Updates : u # cur => files'[u] = files[u]
        /\ pc' = "handle" => files'[cur] = "whole"
    BY <1>b, <1>8, <2>1 DEF Create, Fetch, Goto, TypeOK
  <2> QED
    BY <1>8, <1>a, <2>2, GoesOn DEF Create, Fetch, Goto, Downloading
<1>9. ASSUME Handle PROVE IInv'
  <2>1. /\ pc = "handle" /\ Downloading /\ ~Downloading' /\ pc' # "handle"
        /\ recorded' = recorded \cup {cur}
        /\ UNCHANGED <<inbox, acked, ctx, offset, batch, cur, files, missed>>
    BY <1>9 DEF Handle, Goto, Downloading
  <2>2. cur \in Updates /\ cur = Confirmed /\ Confirmed' = Confirmed
    BY <1>b, <1>c, <2>1, ConfirmedType DEF Along, Updates, Confirmed
  <2>3. /\ Len(handled') = Len(handled) + 1 /\ handled'[Len(handled) + 1] = cur
        /\ \A i \in 1..Len(handled) : handled'[i] = handled[i]
    BY <1>b, <1>9, <2>2, AppendProperties DEF Handle, TypeOK
  <2>4. \A i \in 1..Len(handled') : i \in 1..Len(handled) \/ i = Len(handled) + 1
    BY <1>c, <2>3
  <2>5. Along'
    BY <1>b, <2>1, <2>2 DEF Along
  <2>6. Settled'
    BY <1>b, <2>1, <2>2 DEF Settled, IsNote
  <2>7. \A i \in 1..Len(handled) : handled[i] < cur /\ handled[i] <= Confirmed
    BY <1>b, <2>1 DEF Ordered
  <2>8. HandledInOrder'
    <3>1. SUFFICES ASSUME NEW i \in 1..Len(handled'), NEW j \in 1..Len(handled'), i < j
                   PROVE  handled'[i] < handled'[j]
      BY DEF HandledInOrder
    <3>2. i \in 1..Len(handled)
      BY <1>c, <2>3, <3>1
    <3>3. CASE j = Len(handled) + 1
      BY <2>3, <2>7, <3>2, <3>3
    <3>4. CASE j \in 1..Len(handled)
      BY <1>b, <2>3, <3>1, <3>2, <3>4 DEF Ordered, HandledInOrder
    <3> QED
      BY <2>4, <3>3, <3>4
  <2>9. Ordered'
    BY <1>c, <2>1, <2>2, <2>3, <2>4, <2>7, <2>8 DEF Ordered
  <2>10. Whole'
    BY <1>b, <2>1, <2>3, <2>4 DEF Whole, HandledWhole
  <2> QED
    BY <1>a, <2>5, <2>6, <2>9, <2>10 DEF IInv
<1>10. ASSUME Cancel PROVE IInv'
  <2>1. /\ ctx' = "cancelled"
        /\ UNCHANGED <<inbox, acked, pc, offset, batch, cur, files, handled, recorded, missed>>
    BY <1>10 DEF Cancel, locals, past
  <2>2. Confirmed' = Confirmed /\ (Downloading' <=> Downloading)
    BY <2>1 DEF Confirmed, Downloading
  <2>3. Along' /\ Settled' /\ Ordered' /\ Whole'
    BY <1>b, <2>1, <2>2 DEF Along, Settled, IsNote, Ordered, Whole, HandledInOrder, HandledWhole
  <2> QED
    BY <1>a, <2>3 DEF IInv
<1>11. ASSUME Restart PROVE IInv'
  <2>1. /\ pc' = "poll" /\ offset' = 0 /\ batch' = <<>> /\ handled' = <<>>
        /\ UNCHANGED <<inbox, acked, files, recorded, missed>>
    BY <1>11 DEF Restart
  <2>2. Confirmed' = acked /\ ~Downloading' /\ pc' # "handle"
    BY <1>c, <2>1 DEF Confirmed, Downloading
  <2>3. Along'
    BY <1>b, <1>c, <2>1, <2>2, EmptySeq DEF Along
  <2>4. Settled'
    <3>1. \A u \in 1..acked : u \in 1..Confirmed /\ ~(u > acked) /\ ~(Downloading /\ u = cur)
      BY <1>b, <1>c DEF Along
    <3> QED
      BY <1>b, <2>1, <2>2, <3>1 DEF Settled, IsNote
  <2>5. Ordered' /\ Whole'
    BY <2>1, <2>2, EmptySeq DEF Ordered, Whole, HandledInOrder, HandledWhole
  <2> QED
    BY <1>a, <2>3, <2>4, <2>5 DEF IInv
<1>12. CASE UNCHANGED vars
  <2>1. UNCHANGED <<inbox, acked, ctx, pc, offset, batch, cur, files, handled, recorded, missed>>
    BY <1>12 DEF vars, locals, past
  <2>2. Confirmed' = Confirmed /\ (Downloading' <=> Downloading)
    BY <2>1 DEF Confirmed, Downloading
  <2>3. Along' /\ Settled' /\ Ordered' /\ Whole'
    BY <1>b, <2>1, <2>2 DEF Along, Settled, IsNote, Ordered, Whole, HandledInOrder, HandledWhole
  <2> QED
    BY <1>a, <2>3 DEF IInv
<1> QED
  BY <1>1, <1>2, <1>3, <1>4, <1>5, <1>6, <1>7, <1>8, <1>9, <1>10, <1>11, <1>12 DEF Next, Poll

LEMMA IInvAlways == Spec => []IInv
  BY IInvInit, IInvStep, PTL DEF Spec

-----------------------------------------------------------------------------
\* The types of the poller's state.
THEOREM TypeCorrect == Spec => []TypeOK
<1>1. IInv => TypeOK
  BY DEF IInv
<1> QED
  BY <1>1, IInvAlways, PTL

\* A process handles each note at most once, in the order of the updates.
THEOREM HandledInOrderAlways == Spec => []HandledInOrder
<1>1. IInv => HandledInOrder
  BY DEF IInv, Ordered
<1> QED
  BY <1>1, IInvAlways, PTL

\* Telegram forgets a note only when the service has it or its download failed on
\* its own, across crashes and shutdowns.
THEOREM AckedIsSettledAlways == Spec => []AckedIsSettled
<1>1. IInv => AckedIsSettled
  <2>1. SUFFICES ASSUME IInv, NEW u \in 1..acked, IsNote(u) PROVE u \in recorded \cup missed
    BY DEF AckedIsSettled
  <2>2. acked \in Nat /\ Confirmed \in Nat /\ acked <= Confirmed
    BY <2>1, ConfirmedType DEF IInv
  <2>3. u \in 1..Confirmed /\ ~(u > acked)
    BY <2>2
  <2>4. ~(Downloading /\ u = cur)
    BY <2>1, <2>3 DEF IInv, Along
  <2> QED
    BY <2>1, <2>3, <2>4 DEF IInv, Settled
<1> QED
  BY <1>1, IInvAlways, PTL

\* The files of the notes that the process handed over are whole.
THEOREM HandledWholeAlways == Spec => []HandledWhole
<1>1. IInv => HandledWhole
  BY DEF IInv, Whole
<1> QED
  BY <1>1, IInvAlways, PTL

=============================================================================
