--------------------------- MODULE WorkerPoolProofs ---------------------------
(***************************************************************************)
(* Proofs about WorkerPool, for any finite set of workers, any callers and *)
(* any capacity: types, OneHome (no worker lost, none handed to two        *)
(* callers), and that the pool implements WorkerLease.                     *)
(*                                                                         *)
(* OneHome is not inductive: a release is only safe because hand, held and *)
(* giving agree with pc (Tagged), and a worker of the queue that has not   *)
(* been removed is a member only because nothing but add brings a worker   *)
(* into circulation (Known).                                               *)
(***************************************************************************)
EXTENDS WorkerPool, FiniteSetTheorems, SequenceTheorems, TLAPS

USE PoolAssumption

Tagged ==
    \A c \in Callers :
        /\ pc[c] = "calling" <=> hand[c] # None
        /\ pc[c] = "requeue" <=> giving[c] # None
        /\ pc[c] \in {"checkout", "calling"} => tries[c] >= 1

Known ==
    /\ all \cap removed = {}
    /\ adding \subseteq all \cup removed
    /\ Queued \subseteq all \cup removed
    /\ \A c \in Callers, w \in Workers : Has(c, w) => w \in all \cup removed

\* A caller has a worker in one way only.
Apart ==
    \A c \in Callers :
        /\ hand[c] \notin held[c]
        /\ giving[c] \notin held[c]

IInv == TypeOK /\ Tagged /\ Known /\ Apart /\ OneHome

-----------------------------------------------------------------------------
\* The size of a pool is a natural number, positive when the pool has members.
LEMMA SizeOfMembers ==
    ASSUME TypeOK
    PROVE  /\ Cardinality(all) \in Nat
           /\ all # {} => Cardinality(all) > 0
<1>1. IsFiniteSet(all)
  BY FS_Subset DEF TypeOK
<1>2. Cardinality(all) \in Nat
  BY <1>1, FS_CardinalityType
<1>3. all # {} => Cardinality(all) # 0
  BY <1>1, FS_EmptySet
<1> QED
  BY <1>2, <1>3

\* The number of attempts of a request.
LEMMA AttemptsBound ==
    ASSUME TypeOK
    PROVE  Attempts \subseteq 1..MaxAttempts
<1>1. Cardinality(all) \in Nat /\ (all # {} => Cardinality(all) > 0)
  BY SizeOfMembers
<1> QED
  BY <1>1 DEF Attempts, MaxAttempts

\* What a receive leaves in the channel.
LEMMA Received ==
    ASSUME NEW s \in Seq(Workers), s # <<>>
    PROVE  /\ Tail(s) \in Seq(Workers) /\ Len(Tail(s)) = Len(s) - 1 /\ Len(s) \in Nat \ {0}
           /\ Head(s) \in Workers /\ Head(s) = s[1]
           /\ \A i \in 1..Len(Tail(s)) : i + 1 \in 1..Len(s) /\ Tail(s)[i] = s[i + 1]
           /\ \A i \in 1..Len(s) : i # 1 => i - 1 \in 1..Len(Tail(s))
<1>1. Len(s) \in Nat \ {0} /\ Tail(s) \in Seq(Workers) /\ Len(Tail(s)) = Len(s) - 1
  BY HeadTailProperties, EmptySeq
<1>2. Head(s) \in Workers /\ Head(s) = s[1]
  BY HeadTailProperties
<1>3. \A i \in 1..Len(Tail(s)) : Tail(s)[i] = s[i + 1]
  BY <1>1
<1> QED
  BY <1>1, <1>2, <1>3

\* What a send leaves in it.
LEMMA Sent ==
    ASSUME NEW s \in Seq(Workers), NEW w \in Workers
    PROVE  /\ Append(s, w) \in Seq(Workers) /\ Len(Append(s, w)) = Len(s) + 1 /\ Len(s) \in Nat
           /\ \A i \in 1..Len(s) : Append(s, w)[i] = s[i]
           /\ Append(s, w)[Len(s) + 1] = w
  BY AppendProperties, LenProperties

-----------------------------------------------------------------------------
(***************************************************************************)
(* Types, and the agreement of pc with what a caller has.                  *)
(***************************************************************************)
LEMMA TypeInit == Init => TypeOK /\ Tagged
  BY EmptySeq DEF Init, TypeOK, Tagged, Steps, MaxAttempts

LEMMA TypeStep == TypeOK /\ Tagged /\ [Next]_vars => TypeOK' /\ Tagged'
<1> SUFFICES ASSUME TypeOK, Tagged, [Next]_vars
             PROVE  TypeOK' /\ Tagged'
  OBVIOUS
<1> USE DEF TypeOK, Tagged, Steps
<1>1. ASSUME NEW w \in Workers, Register(w) PROVE TypeOK' /\ Tagged'
  BY <1>1 DEF Register, callerVars
<1>2. ASSUME NEW w \in Workers, Announce(w) PROVE TypeOK' /\ Tagged'
  <2>1. Append(idle, w) \in Seq(Workers) /\ Len(Append(idle, w)) = Len(idle) + 1
    BY Sent
  <2> QED
    BY <1>2, <2>1, LenProperties DEF Announce, Enqueue, callerVars
<1>3. ASSUME NEW w \in Workers, Remove(w) PROVE TypeOK' /\ Tagged'
  BY <1>3 DEF Remove, Forget, callerVars
<1>4. ASSUME NEW c \in Callers, Route(c) PROVE TypeOK' /\ Tagged'
  BY <1>4 DEF Route, poolVars
<1>5. ASSUME NEW c \in Callers, Size(c) PROVE TypeOK' /\ Tagged'
  <2>1. Attempts \subseteq 1..MaxAttempts
    BY AttemptsBound
  <2>2. PICK n \in 1..MaxAttempts : tries' = [tries EXCEPT ![c] = n]
    BY <1>5, <2>1 DEF Size
  <2> QED
    BY <1>5, <2>2 DEF Size, poolVars, MaxAttempts
<1>6. ASSUME NEW c \in Callers, Take(c) PROVE TypeOK' /\ Tagged'
  <2>1. /\ Tail(idle) \in Seq(Workers) /\ Len(Tail(idle)) = Len(idle) - 1
        /\ Len(idle) \in Nat /\ Head(idle) \in Workers
    BY <1>6, Received DEF Take
  <2>2. CASE Head(idle) \in removed
    BY <1>6, <2>1, <2>2 DEF Take
  <2>3. CASE Head(idle) \notin removed
    <3>1. PICK w \in Workers : w = Head(idle)
      BY <2>1
    <3>2. /\ pc[c] = "checkout" /\ pc' = [pc EXCEPT ![c] = "calling"]
          /\ hand' = [hand EXCEPT ![c] = w] /\ idle' = Tail(idle)
          /\ UNCHANGED <<all, removed, adding, held, giving, tries>>
      BY <1>6, <2>3, <3>1 DEF Take
    <3>3. TypeOK'
      BY <2>1, <3>2
    <3>4. Tagged'
      BY <3>2
    <3> QED
      BY <3>3, <3>4
  <2> QED
    BY <2>2, <2>3
<1>7. ASSUME NEW c \in Callers, GiveUp(c) PROVE TypeOK' /\ Tagged'
  BY <1>7 DEF GiveUp, poolVars
<1>8. ASSUME NEW c \in Callers, Succeed(c) PROVE TypeOK' /\ Tagged'
  BY <1>8 DEF Succeed, poolVars
<1>9. ASSUME NEW c \in Callers, Evict(c) PROVE TypeOK' /\ Tagged'
  <2>1. TypeOK'
    BY <1>9 DEF Evict, Forget, NextAttempt, MaxAttempts
  <2>2. Tagged'
    BY <1>9 DEF Evict, NextAttempt, MaxAttempts
  <2> QED
    BY <2>1, <2>2
<1>10. ASSUME NEW c \in Callers, Hold(c) PROVE TypeOK' /\ Tagged'
  <2>1. TypeOK'
    BY <1>10 DEF Hold, NextAttempt, poolVars, MaxAttempts
  <2>2. Tagged'
    BY <1>10 DEF Hold, NextAttempt, MaxAttempts
  <2> QED
    BY <2>1, <2>2
<1>11. ASSUME NEW c \in Callers, NEW w \in Workers, Release(c, w) PROVE TypeOK' /\ Tagged'
  <2>1. CASE w \in removed
    BY <1>11, <2>1 DEF Release, poolVars
  <2>2. CASE w \notin removed
    <3>1. /\ pc[c] = "releasing" /\ pc' = [pc EXCEPT ![c] = "requeue"]
          /\ giving' = [giving EXCEPT ![c] = w] /\ held' = [held EXCEPT ![c] = @ \ {w}]
          /\ UNCHANGED <<all, removed, idle, adding, hand, tries>>
      BY <1>11, <2>2 DEF Release, poolVars
    <3>2. TypeOK'
      BY <3>1
    <3>3. Tagged'
      BY <3>1
    <3> QED
      BY <3>2, <3>3
  <2> QED
    BY <2>1, <2>2
<1>12. ASSUME NEW c \in Callers, Requeue(c) PROVE TypeOK' /\ Tagged'
  <2>1. giving[c] \in Workers
    BY <1>12 DEF Requeue
  <2>2. /\ Append(idle, giving[c]) \in Seq(Workers)
        /\ Len(Append(idle, giving[c])) = Len(idle) + 1
    BY <2>1, Sent
  <2> QED
    BY <1>12, <2>2, LenProperties DEF Requeue, Enqueue
<1>13. ASSUME NEW c \in Callers, Return(c) PROVE TypeOK' /\ Tagged'
  BY <1>13 DEF Return, poolVars
<1>14. CASE UNCHANGED vars
  BY <1>14 DEF vars, poolVars, callerVars
<1> QED
  BY <1>1, <1>2, <1>3, <1>4, <1>5, <1>6, <1>7, <1>8, <1>9, <1>10, <1>11, <1>12, <1>13, <1>14
  DEF Next, Caller

\* No step leaves the types of the pool and its callers.
THEOREM TypeCorrect == Spec => []TypeOK
<1>1. Init => TypeOK /\ Tagged
  BY TypeInit
<1>2. TypeOK /\ Tagged /\ [Next]_vars => TypeOK' /\ Tagged'
  BY TypeStep
<1> QED
  BY <1>1, <1>2, PTL DEF Spec

-----------------------------------------------------------------------------
(***************************************************************************)
(* Where the workers are.                                                  *)
(***************************************************************************)

\* The channel holds a worker once.
Distinct == \A i, j \in 1..Len(idle) : idle[i] = idle[j] => i = j

LEMMA SameQueue ==
    idle' = idle /\ Distinct => Distinct' /\ Queued' = Queued
  BY DEF Distinct, Queued

LEMMA AfterSend ==
    TypeOK => \A w \in Workers :
        Distinct /\ w \notin Queued /\ Enqueue(w) => Distinct' /\ Queued' = Queued \cup {w}
<1> SUFFICES ASSUME TypeOK, NEW w \in Workers, Distinct, w \notin Queued, Enqueue(w)
             PROVE  Distinct' /\ Queued' = Queued \cup {w}
  OBVIOUS
<1>1. /\ Len(idle') = Len(idle) + 1 /\ Len(idle) \in Nat
      /\ \A i \in 1..Len(idle) : idle'[i] = idle[i]
      /\ idle'[Len(idle) + 1] = w
  BY Sent DEF Enqueue, TypeOK
<1>2. \A i \in 1..Len(idle) : idle[i] # w
  BY DEF Queued
<1>3. Distinct'
  BY <1>1, <1>2 DEF Distinct
<1>4. Queued' \subseteq Queued \cup {w}
  BY <1>1 DEF Queued
<1>5. Queued \cup {w} \subseteq Queued'
  BY <1>1 DEF Queued
<1> QED
  BY <1>3, <1>4, <1>5

LEMMA AfterReceive ==
    TypeOK /\ Distinct /\ idle # <<>> /\ idle' = Tail(idle) =>
        Distinct' /\ Head(idle) \in Queued /\ Queued' = Queued \ {Head(idle)}
<1> SUFFICES ASSUME TypeOK, Distinct, idle # <<>>, idle' = Tail(idle)
             PROVE  Distinct' /\ Head(idle) \in Queued /\ Queued' = Queued \ {Head(idle)}
  OBVIOUS
<1>1. /\ Len(idle') = Len(idle) - 1 /\ Len(idle) \in Nat \ {0}
      /\ Head(idle) = idle[1]
      /\ \A i \in 1..Len(idle') : i + 1 \in 1..Len(idle) /\ idle'[i] = idle[i + 1]
      /\ \A i \in 1..Len(idle) : i # 1 => i - 1 \in 1..Len(idle')
  BY Received DEF TypeOK
<1>2. Distinct'
  BY <1>1 DEF Distinct
<1>3. Head(idle) \in Queued
  BY <1>1 DEF Queued
<1>4. Queued' \subseteq Queued \ {Head(idle)}
  BY <1>1 DEF Queued, Distinct
<1>5. ASSUME NEW w \in Queued, w # Head(idle) PROVE w \in Queued'
  <2>1. PICK i \in 1..Len(idle) : w = idle[i]
    BY DEF Queued
  <2>2. i # 1 /\ i - 1 \in 1..Len(idle') /\ idle'[i - 1] = w
    BY <1>1, <1>5, <2>1
  <2> QED
    BY <2>2 DEF Queued
<1> QED
  BY <1>2, <1>3, <1>4, <1>5

LEMMA HomeInit == Init => Known /\ Apart /\ OneHome
  BY DEF Init, Known, Apart, OneHome, Has, Queued

LEMMA HomeStep ==
    TypeOK /\ Tagged /\ Known /\ Apart /\ OneHome /\ [Next]_vars =>
        Known' /\ Apart' /\ OneHome'
<1> SUFFICES ASSUME TypeOK, Tagged, Known, Apart, OneHome, [Next]_vars
             PROVE  Known' /\ Apart' /\ OneHome'
  OBVIOUS
<1> DEFINE Goal == Known' /\ Apart' /\ OneHome'
<1>a. Distinct
  BY DEF OneHome, Distinct
<1>b. idle' = idle => Distinct' /\ Queued' = Queued
  BY <1>a, SameQueue
<1>1. ASSUME NEW w \in Workers, Register(w) PROVE Goal
  <2>1. w \notin Queued /\ \A c \in Callers : ~Has(c, w)
    BY <1>1 DEF Register, Known
  <2> QED
    BY <1>1, <1>b, <2>1 DEF Register, callerVars, TypeOK, Known, Apart, OneHome, Has, Distinct
<1>2. ASSUME NEW w \in Workers, Announce(w) PROVE Goal
  <2>1. w \notin Queued /\ w \in all \cup removed
    BY <1>2 DEF Announce, OneHome, Known
  <2>2. Distinct' /\ Queued' = Queued \cup {w}
    BY <1>2, <1>a, <2>1, AfterSend DEF Announce
  <2> QED
    BY <1>2, <2>1, <2>2 DEF Announce, callerVars, TypeOK, Known, Apart, OneHome, Has, Distinct
<1>3. ASSUME NEW w \in Workers, Remove(w) PROVE Goal
  BY <1>3, <1>b DEF Remove, Forget, callerVars, TypeOK, Known, Apart, OneHome, Has, Distinct
<1>4. ASSUME NEW c \in Callers, Route(c) PROVE Goal
  BY <1>4, <1>b DEF Route, poolVars, Known, Apart, OneHome, Has, Distinct
<1>5. ASSUME NEW c \in Callers, Size(c) PROVE Goal
  BY <1>5, <1>b DEF Size, poolVars, Known, Apart, OneHome, Has, Distinct
<1>6. ASSUME NEW c \in Callers, Take(c) PROVE Goal
  <2>1. PICK h \in Workers : h = Head(idle)
    BY <1>6, Received DEF Take, TypeOK
  <2>2. Distinct' /\ h \in Queued /\ Queued' = Queued \ {h}
    BY <1>6, <1>a, <2>1, AfterReceive DEF Take
  <2>3. CASE h \in removed
    <3>1. h \notin all
      BY <2>3 DEF Known
    <3> QED
      BY <1>6, <2>1, <2>2, <2>3, <3>1 DEF Take, TypeOK, Known, Apart, OneHome, Has, Distinct
  <2>4. CASE h \notin removed
    <3>1. /\ hand[c] = None /\ hand' = [hand EXCEPT ![c] = h]
          /\ UNCHANGED <<all, removed, adding, held, giving>>
      BY <1>6, <2>1, <2>4 DEF Take, Tagged
    <3>2. h \in all /\ h \notin adding /\ \A d \in Callers : ~Has(d, h)
      BY <2>2, <2>4 DEF Known, OneHome
    <3>3. \A d \in Callers, w \in Workers : Has(d, w)' <=> Has(d, w) \/ (d = c /\ w = h)
      BY <3>1 DEF TypeOK, Has
    <3>4. Known'
      BY <2>2, <3>1, <3>2, <3>3 DEF Known
    <3>5. Apart'
      BY <3>1, <3>2 DEF Apart, Has, TypeOK
    <3>6. \A w \in all : w \in Queued' \/ w \in adding \/ \E d \in Callers : Has(d, w)'
      BY <2>2, <3>3 DEF OneHome, TypeOK
    <3>7. \A d \in Callers, w \in Workers : Has(d, w)' => w \notin Queued' /\ w \notin adding
      BY <2>2, <3>2, <3>3 DEF OneHome
    <3>8. \A d, e \in Callers, w \in Workers : Has(d, w)' /\ Has(e, w)' => d = e
      BY <3>2, <3>3 DEF OneHome
    <3>9. OneHome'
      BY <2>2, <3>1, <3>6, <3>7, <3>8 DEF OneHome, Distinct
    <3> QED
      BY <3>4, <3>5, <3>9
  <2> QED
    BY <2>3, <2>4
<1>7. ASSUME NEW c \in Callers, GiveUp(c) PROVE Goal
  BY <1>7, <1>b DEF GiveUp, poolVars, Known, Apart, OneHome, Has, Distinct
<1>8. ASSUME NEW c \in Callers, Succeed(c) PROVE Goal
  <2>1. /\ hand[c] \in Workers /\ held' = [held EXCEPT ![c] = @ \cup {hand[c]}]
        /\ hand' = [hand EXCEPT ![c] = None]
        /\ UNCHANGED <<all, removed, idle, adding, giving>>
    BY <1>8 DEF Succeed, poolVars, Tagged, TypeOK
  <2>2. \A d \in Callers, w \in Workers : Has(d, w)' <=> Has(d, w)
    BY <2>1 DEF TypeOK, Has
  <2>3. giving[c] # hand[c]
    BY <1>8, <2>1 DEF Succeed, Tagged
  <2>4. Apart'
    BY <2>1, <2>3 DEF Apart, TypeOK
  <2> QED
    BY <1>b, <2>1, <2>2, <2>4 DEF TypeOK, Known, OneHome, Distinct
<1>9. ASSUME NEW c \in Callers, Evict(c) PROVE Goal
  <2>1. PICK h \in Workers : h = hand[c]
    BY <1>9 DEF Evict, Tagged, TypeOK
  <2>2. /\ hand' = [hand EXCEPT ![c] = None] /\ all' = all \ {h}
        /\ all' \cup removed' = all \cup removed /\ all' \cap removed' = {}
        /\ UNCHANGED <<idle, adding, held, giving>>
    BY <1>9, <2>1 DEF Evict, Forget, NextAttempt, Known
  <2>3. \A d \in Callers, w \in Workers : Has(d, w)' => Has(d, w)
    BY <2>2 DEF TypeOK, Has
  <2>4. \A d \in Callers, w \in Workers \ {h} : Has(d, w) => Has(d, w)'
    BY <2>1, <2>2 DEF TypeOK, Has
  <2>5. Known'
    BY <1>b, <2>2, <2>3 DEF Known
  <2>6. Apart'
    BY <2>2 DEF Apart, TypeOK
  <2>7. OneHome'
    BY <1>b, <2>2, <2>3, <2>4 DEF OneHome, Distinct, TypeOK
  <2> QED
    BY <2>5, <2>6, <2>7
<1>10. ASSUME NEW c \in Callers, Hold(c) PROVE Goal
  <2>1. /\ hand[c] \in Workers /\ held' = [held EXCEPT ![c] = @ \cup {hand[c]}]
        /\ hand' = [hand EXCEPT ![c] = None]
        /\ UNCHANGED <<all, removed, idle, adding, giving>>
    BY <1>10 DEF Hold, NextAttempt, poolVars, Tagged, TypeOK
  <2>2. \A d \in Callers, w \in Workers : Has(d, w)' <=> Has(d, w)
    BY <2>1 DEF TypeOK, Has
  <2>3. giving[c] # hand[c]
    BY <1>10, <2>1 DEF Hold, Tagged
  <2>4. Apart'
    BY <2>1, <2>3 DEF Apart, TypeOK
  <2> QED
    BY <1>b, <2>1, <2>2, <2>4 DEF TypeOK, Known, OneHome, Distinct
<1>11. ASSUME NEW c \in Callers, NEW w \in Workers, Release(c, w) PROVE Goal
  <2>1. /\ w \in held[c] /\ held' = [held EXCEPT ![c] = @ \ {w}]
        /\ giving[c] = None /\ hand[c] = None
        /\ UNCHANGED <<all, removed, idle, adding, hand>>
    BY <1>11 DEF Release, poolVars, Tagged
  <2>2. CASE w \in removed
    <3>1. giving' = giving /\ w \notin all
      BY <1>11, <2>2 DEF Release, Known
    <3>2. \A d \in Callers, x \in Workers : Has(d, x)' => Has(d, x)
      BY <2>1, <3>1 DEF TypeOK, Has
    <3>3. \A d \in Callers, x \in Workers \ {w} : Has(d, x) => Has(d, x)'
      BY <2>1, <3>1 DEF TypeOK, Has
    <3>4. Apart'
      BY <2>1, <3>1 DEF Apart, TypeOK
    <3> QED
      BY <1>b, <2>1, <3>1, <3>2, <3>3, <3>4 DEF Known, OneHome, Distinct, TypeOK
  <2>3. CASE w \notin removed
    <3>1. giving' = [giving EXCEPT ![c] = w]
      BY <1>11, <2>3 DEF Release
    <3>2. \A d \in Callers, x \in Workers : Has(d, x)' <=> Has(d, x)
      BY <2>1, <3>1 DEF TypeOK, Has
    <3>3. Apart'
      BY <2>1, <3>1 DEF Apart, TypeOK
    <3> QED
      BY <1>b, <2>1, <3>2, <3>3 DEF TypeOK, Known, OneHome, Distinct
  <2> QED
    BY <2>2, <2>3
<1>12. ASSUME NEW c \in Callers, Requeue(c) PROVE Goal
  <2>1. PICK w \in Workers : w = giving[c]
    BY <1>12 DEF Requeue, Tagged, TypeOK
  <2>2. /\ Enqueue(w) /\ giving' = [giving EXCEPT ![c] = None] /\ Has(c, w)
        /\ hand[c] # w /\ w \notin held[c]
        /\ UNCHANGED <<all, removed, adding, hand, held>>
    BY <1>12, <2>1 DEF Requeue, Has, Apart, Tagged
  <2>3. w \notin Queued /\ w \notin adding /\ w \in all \cup removed
    BY <2>2 DEF OneHome, Known
  <2>4. Distinct' /\ Queued' = Queued \cup {w}
    BY <1>a, <2>2, <2>3, AfterSend
  <2>5. \A d \in Callers, x \in Workers : Has(d, x)' <=> Has(d, x) /\ x # w
    BY <2>1, <2>2 DEF TypeOK, Has, OneHome
  <2>6. Apart'
    BY <2>2 DEF Apart, TypeOK
  <2> QED
    BY <2>2, <2>3, <2>4, <2>5, <2>6 DEF Known, OneHome, Distinct, TypeOK
<1>13. ASSUME NEW c \in Callers, Return(c) PROVE Goal
  BY <1>13, <1>b DEF Return, poolVars, Known, Apart, OneHome, Has, Distinct
<1>14. CASE UNCHANGED vars
  BY <1>14, <1>b DEF vars, poolVars, callerVars, Known, Apart, OneHome, Has, Distinct
<1> QED
  BY <1>1, <1>2, <1>3, <1>4, <1>5, <1>6, <1>7, <1>8, <1>9, <1>10, <1>11, <1>12, <1>13, <1>14
  DEF Next, Caller

LEMMA IInvAlways == Spec => []IInv
<1>1. Init => IInv
  BY TypeInit, HomeInit DEF IInv
<1>2. IInv /\ [Next]_vars => IInv'
  BY TypeStep, HomeStep DEF IInv
<1> QED
  BY <1>1, <1>2, PTL DEF Spec

\* No worker is lost and none is with two callers, nor with a caller and in the
\* idle queue at once.
THEOREM OneHomeAlways == Spec => []OneHome
<1>1. IInv => OneHome
  BY DEF IInv
<1> QED
  BY <1>1, IInvAlways, PTL

-----------------------------------------------------------------------------
(***************************************************************************)
(* The pool implements the lease.  A lease starts when a checkout returns  *)
(* and ends when the worker is back in the queue, dropped or evicted.      *)
(***************************************************************************)
LEMMA LeaseInit == Init => Lease!Init
<1> SUFFICES ASSUME Init PROVE Lease!Init
  OBVIOUS
<1>1. LeaseState = [w \in Workers |-> "absent"]
  BY DEF Init, LeaseState
<1>2. Leases = {}
  BY DEF Init, Leases, Has
<1> QED
  BY <1>1, <1>2 DEF Lease!Init

\* A step that keeps every worker where it is, is invisible.
LEMMA LeaseStutter ==
    UNCHANGED <<all, removed>> /\ (\A c \in Callers, w \in Workers : Has(c, w)' <=> Has(c, w))
        => UNCHANGED Lease!vars
<1> SUFFICES ASSUME UNCHANGED <<all, removed>>,
                    \A c \in Callers, w \in Workers : Has(c, w)' <=> Has(c, w)
             PROVE  UNCHANGED Lease!vars
  OBVIOUS
<1>1. LeaseState' = LeaseState
  BY DEF LeaseState
<1>2. Leases' = Leases
  BY DEF Leases
<1> QED
  BY <1>1, <1>2 DEF Lease!vars

\* A caller loses a worker, and nothing else changes hands.
LEMMA LeaseEnds ==
    TypeOK => \A c \in Callers, w \in Workers :
        (\A d \in Callers, x \in Workers : Has(d, x)' <=> Has(d, x) /\ <<d, x>> # <<c, w>>)
        => Leases' = Leases \ {<<c, w>>}
  BY DEF Leases

LEMMA LeaseStep == IInv /\ [Next]_vars => [Lease!Next]_Lease!vars
<1> SUFFICES ASSUME IInv, [Next]_vars
             PROVE  Lease!Next \/ UNCHANGED Lease!vars
  OBVIOUS
<1> DEFINE Goal == Lease!Next \/ UNCHANGED Lease!vars
<1>a. TypeOK /\ Tagged /\ Known /\ Apart /\ OneHome
  BY DEF IInv
<1>b. \A w \in Workers : LeaseState[w] = IF w \in all THEN "member"
                                        ELSE IF w \in removed THEN "gone" ELSE "absent"
  BY DEF LeaseState
<1>1. ASSUME NEW w \in Workers, Register(w) PROVE Goal
  <2>1. LeaseState[w] = "absent" /\ LeaseState' = [LeaseState EXCEPT ![w] = "member"]
    BY <1>1 DEF Register, LeaseState
  <2>2. Leases' = Leases
    BY <1>1 DEF Register, callerVars, Leases, Has
  <2> QED
    BY <2>1, <2>2 DEF Lease!Join, Lease!Next
<1>2. ASSUME NEW w \in Workers, Announce(w) PROVE Goal
  BY <1>2, LeaseStutter DEF Announce, callerVars, Has
<1>3. ASSUME NEW w \in Workers, Remove(w) PROVE Goal
  <2>1. LeaseState[w] = "member" /\ LeaseState' = [LeaseState EXCEPT ![w] = "gone"]
    BY <1>3, <1>a DEF Remove, Forget, LeaseState, Known
  <2>2. Leases' = Leases
    BY <1>3 DEF Remove, callerVars, Leases, Has
  <2> QED
    BY <2>1, <2>2 DEF Lease!Retire, Lease!Next
<1>4. ASSUME NEW c \in Callers, Route(c) PROVE Goal
  BY <1>4, LeaseStutter DEF Route, poolVars, Has
<1>5. ASSUME NEW c \in Callers, Size(c) PROVE Goal
  BY <1>5, LeaseStutter DEF Size, poolVars, Has
<1>6. ASSUME NEW c \in Callers, Take(c) PROVE Goal
  <2>1. PICK h \in Workers : h = Head(idle)
    BY <1>6, <1>a, Received DEF Take, TypeOK
  <2>2. CASE h \in removed
    BY <1>6, <2>1, <2>2, LeaseStutter DEF Take, Has
  <2>3. CASE h \notin removed
    <3>1. /\ hand[c] = None /\ hand' = [hand EXCEPT ![c] = h]
          /\ UNCHANGED <<all, removed, adding, held, giving>>
      BY <1>6, <1>a, <2>1, <2>3 DEF Take, Tagged
    <3>2. h \in Queued
      BY <1>6, <1>a, <2>1, AfterReceive DEF Take, OneHome, Distinct
    <3>3. h \in all /\ \A d \in Callers : ~Has(d, h)
      BY <1>a, <2>3, <3>2 DEF Known, OneHome
    <3>4. \A d \in Callers, w \in Workers : Has(d, w)' <=> Has(d, w) \/ (d = c /\ w = h)
      BY <1>a, <3>1 DEF TypeOK, Has
    <3>5. Leases' = Leases \cup {<<c, h>>}
      BY <3>4 DEF Leases
    <3>6. LeaseState[h] = "member" /\ LeaseState' = LeaseState
      BY <3>1, <3>3 DEF LeaseState
    <3>7. \A d \in Callers : <<d, h>> \notin Leases
      BY <3>3 DEF Leases
    <3> QED
      BY <3>5, <3>6, <3>7 DEF Lease!Lease, Lease!Next
  <2> QED
    BY <2>2, <2>3
<1>7. ASSUME NEW c \in Callers, GiveUp(c) PROVE Goal
  BY <1>7, LeaseStutter DEF GiveUp, poolVars, Has
<1>8. ASSUME NEW c \in Callers, Succeed(c) \/ Hold(c) PROVE Goal
  <2>1. /\ hand[c] \in Workers /\ held' = [held EXCEPT ![c] = @ \cup {hand[c]}]
        /\ hand' = [hand EXCEPT ![c] = None]
        /\ UNCHANGED <<all, removed, giving>>
    BY <1>8, <1>a DEF Succeed, Hold, NextAttempt, poolVars, Tagged, TypeOK
  <2>2. \A d \in Callers, w \in Workers : Has(d, w)' <=> Has(d, w)
    BY <1>a, <2>1 DEF TypeOK, Has
  <2> QED
    BY <2>1, <2>2, LeaseStutter
<1>9. ASSUME NEW c \in Callers, Evict(c) PROVE Goal
  <2>1. PICK h \in Workers : h = hand[c]
    BY <1>9, <1>a DEF Evict, Tagged, TypeOK
  <2>2. /\ hand' = [hand EXCEPT ![c] = None] /\ Has(c, h)
        /\ giving[c] = None /\ h \notin held[c]
        /\ UNCHANGED <<held, giving>>
    BY <1>9, <1>a, <2>1 DEF Evict, NextAttempt, Tagged, Apart, Has
  <2>3. h \in all \cup removed /\ all \cap removed = {}
    BY <1>a, <2>2 DEF Known
  <2>4. LeaseState' = [LeaseState EXCEPT ![h] = "gone"]
    BY <1>9, <2>1, <2>3 DEF Evict, Forget, LeaseState
  <2>5. \A d \in Callers, x \in Workers : Has(d, x)' <=> Has(d, x) /\ <<d, x>> # <<c, h>>
    BY <1>a, <2>1, <2>2 DEF TypeOK, Has
  <2>6. <<c, h>> \in Leases
    BY <2>2 DEF Leases
  <2>7. Leases' = Leases \ {<<c, h>>}
    BY <1>a, <2>5, LeaseEnds
  <2> QED
    BY <2>4, <2>6, <2>7 DEF Lease!Discard, Lease!Next
<1>10. ASSUME NEW c \in Callers, NEW w \in Workers, Release(c, w) PROVE Goal
  <2>1. /\ w \in held[c] /\ held' = [held EXCEPT ![c] = @ \ {w}]
        /\ giving[c] = None /\ hand[c] = None
        /\ UNCHANGED <<all, removed, hand>>
    BY <1>10, <1>a DEF Release, poolVars, Tagged
  <2>2. CASE w \in removed
    <3>1. giving' = giving
      BY <1>10, <2>2 DEF Release
    <3>2. \A d \in Callers, x \in Workers : Has(d, x)' <=> Has(d, x) /\ <<d, x>> # <<c, w>>
      BY <1>a, <2>1, <3>1 DEF TypeOK, Has
    <3>3. <<c, w>> \in Leases
      BY <2>1 DEF Leases, Has
    <3>4. Leases' = Leases \ {<<c, w>>}
      BY <1>a, <3>2, LeaseEnds
    <3>5. LeaseState' = LeaseState
      BY <2>1 DEF LeaseState
    <3> QED
      BY <3>3, <3>4, <3>5 DEF Lease!Return, Lease!Next
  <2>3. CASE w \notin removed
    <3>1. giving' = [giving EXCEPT ![c] = w]
      BY <1>10, <2>3 DEF Release
    <3>2. \A d \in Callers, x \in Workers : Has(d, x)' <=> Has(d, x)
      BY <1>a, <2>1, <3>1 DEF TypeOK, Has
    <3> QED
      BY <2>1, <3>2, LeaseStutter
  <2> QED
    BY <2>2, <2>3
<1>11. ASSUME NEW c \in Callers, Requeue(c) PROVE Goal
  <2>1. PICK w \in Workers : w = giving[c]
    BY <1>11, <1>a DEF Requeue, Tagged, TypeOK
  <2>2. /\ giving' = [giving EXCEPT ![c] = None] /\ Has(c, w)
        /\ hand[c] = None /\ w \notin held[c]
        /\ UNCHANGED <<all, removed, hand, held>>
    BY <1>11, <1>a, <2>1 DEF Requeue, Has, Apart, Tagged
  <2>3. \A d \in Callers, x \in Workers : Has(d, x)' <=> Has(d, x) /\ <<d, x>> # <<c, w>>
    BY <1>a, <2>1, <2>2 DEF TypeOK, Has
  <2>4. <<c, w>> \in Leases
    BY <2>2 DEF Leases
  <2>5. Leases' = Leases \ {<<c, w>>}
    BY <1>a, <2>3, LeaseEnds
  <2>6. LeaseState' = LeaseState
    BY <2>2 DEF LeaseState
  <2> QED
    BY <2>4, <2>5, <2>6 DEF Lease!Return, Lease!Next
<1>12. ASSUME NEW c \in Callers, Return(c) PROVE Goal
  BY <1>12, LeaseStutter DEF Return, poolVars, Has
<1>13. CASE UNCHANGED vars
  BY <1>13, LeaseStutter DEF vars, poolVars, callerVars, Has
<1> QED
  BY <1>1, <1>2, <1>3, <1>4, <1>5, <1>6, <1>7, <1>8, <1>9, <1>10, <1>11, <1>12, <1>13
  DEF Next, Caller

\* The pool implements the lease: a worker has one caller at a time, and a worker
\* that was removed or evicted is never handed out again.
THEOREM PoolImplementsLease == Spec => KeepsLeases
<1>1. Init => Lease!Init
  BY LeaseInit
<1>2. IInv /\ [Next]_vars => [Lease!Next]_Lease!vars
  BY LeaseStep
<1> QED
  BY <1>1, <1>2, IInvAlways, PTL DEF Spec, KeepsLeases, Lease!Spec

=============================================================================
