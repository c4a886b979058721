---------------------------- MODULE SaySpeechProofs ----------------------------
(***************************************************************************)
(* Proofs about SaySpeech, for any texts, any number of chunks and any     *)
(* bounds on attempts and concurrency.                                     *)
(*                                                                         *)
(* splitText cuts sentences and packs them, or their words, up to a        *)
(* target: after each of them the chunks that are cut off and the builder  *)
(* hold the words so far, in order (Joined), and each of them fits (Fits). *)
(* So the chunks are the words of the text, under the cap.                 *)
(*                                                                         *)
(* A WAV file on the disk is always named by its own place in wavs, and    *)
(* once wg.Wait has returned no goroutine makes another one (Tidy): so the *)
(* cleanup removes them all.  A goroutine that ends without a WAV has seen *)
(* a context that was cancelled, and it was cancelled by fail, after       *)
(* firstErr was set, or by the caller (Honest).                            *)
(***************************************************************************)
EXTENDS SaySpeech, SequenceFolds

GoSteps == {"queued", "attempt", "calling", "failing", "cancelling", "done"}
Gathered == {"join", "transcode", "deliver", "succeed", "fail"}

\* The types the arguments below need.
Typed ==
    /\ text \in Texts /\ chunks = Chunks(text)
    /\ pc \in {"begin", "chunks", "spoken", "error"} \cup Gathered
    /\ ended \in BOOLEAN /\ cancelled \in BOOLEAN /\ failed \in BOOLEAN
    /\ g \in [Parts -> GoSteps]
    /\ wavs \in [Parts -> Parts \cup {NoWav}]
    /\ files \in SUBSET Parts

Tidy ==
    /\ \A i \in Parts : wavs[i] \in {NoWav, i}
    /\ \A i \in files : wavs[i] = i
    /\ pc = "begin" => files = {} /\ \A i \in Parts : g[i] = "queued"
    /\ pc \in Gathered => \A i \in Parts : g[i] = "done"
    /\ pc \in {"spoken", "error"} => files = {} /\ \A i \in Parts : g[i] \in {"queued", "done"}

Honest ==
    /\ \A i \in Parts : g[i] = "cancelling" => failed
    /\ cancelled /\ pc \in {"begin", "chunks"} => failed
    /\ \A i \in Parts : g[i] = "done" /\ wavs[i] = NoWav => ended \/ failed
    /\ pc \in {"join", "transcode"} => ~failed

IInv == Typed /\ Tidy /\ Honest

\* No chunk has the number 0.
LEMMA PartsPositive == \A i \in Parts : i # NoWav
  BY DEF Parts, NoWav

-----------------------------------------------------------------------------
LEMMA IInvInit == Init => IInv
  BY DEF Init, IInv, Typed, Tidy, Honest, Parts, GoSteps, Gathered, NoWav

\* Every step keeps the invariant.
LEMMA IInvStep == IInv /\ [Next]_vars => IInv'
<1> SUFFICES ASSUME IInv, [Next]_vars PROVE IInv'
  OBVIOUS
<1>a. ASSUME UNCHANGED chunks PROVE Parts' = Parts
  BY <1>a DEF Parts
<1>b. \A i \in Parts : i # NoWav
  BY PartsPositive
<1> USE <1>a, <1>b DEF IInv, Typed, Tidy, Honest, GoSteps, Gathered
<1>1. ASSUME NEW i \in Parts, Acquire(i) PROVE IInv'
  BY <1>1 DEF Acquire, Goto
<1>2. ASSUME NEW i \in Parts, Abandon(i) PROVE IInv'
  BY <1>2 DEF Abandon, Goto, ContextDone
<1>3. ASSUME NEW i \in Parts, Attempt(i) PROVE IInv'
  <2>1. pc = "chunks"
    BY <1>3 DEF Attempt
  <2> QED
    BY <1>3, <2>1 DEF Attempt, Goto, ContextDone
<1>4. ASSUME NEW i \in Parts, Synthesized(i) PROVE IInv'
  BY <1>4 DEF Synthesized, Goto
<1>5. ASSUME NEW i \in Parts, NoAudio(i) PROVE IInv'
  BY <1>5 DEF NoAudio, Goto
<1>6. ASSUME NEW i \in Parts, Fail(i) PROVE IInv'
  BY <1>6 DEF Fail, Goto
<1>7. ASSUME NEW i \in Parts, Cancel(i) PROVE IInv'
  BY <1>7 DEF Cancel, Goto
<1>8. ASSUME Begin PROVE IInv'
  BY <1>8 DEF Begin
<1>9. ASSUME Gather PROVE IInv'
  BY <1>9 DEF Gather
<1>10. ASSUME Join PROVE IInv'
  BY <1>10 DEF Join
<1>11. ASSUME Transcode PROVE IInv'
  BY <1>11 DEF Transcode
<1>12. ASSUME Deliver PROVE IInv'
  BY <1>12 DEF Deliver
<1>13. ASSUME Cleanup PROVE IInv'
  BY <1>13 DEF Cleanup
<1>14. ASSUME EndContext PROVE IInv'
  BY <1>14 DEF EndContext
<1>15. CASE UNCHANGED vars
  BY <1>15 DEF vars
<1> QED
  BY <1>1, <1>2, <1>3, <1>4, <1>5, <1>6, <1>7, <1>8, <1>9, <1>10, <1>11, <1>12, <1>13, <1>14,
     <1>15 DEF Next, Say, Goroutine

LEMMA IInvAlways == Spec => []IInv
  BY IInvInit, IInvStep, PTL DEF Spec

\* A chunk that is missing was reported as an error, or the caller hung up.
THEOREM NoSilentGapAlways == Spec => []NoSilentGap
<1>1. IInv => NoSilentGap
  BY DEF IInv, Tidy, Honest, NoSilentGap, Gathered
<1> QED
  BY <1>1, IInvAlways, PTL

\* When Say has returned, none of the chunks' WAV files is left.
THEOREM WavsRemovedAlways == Spec => []WavsRemoved
<1>1. IInv => WavsRemoved
  BY DEF IInv, Tidy, WavsRemoved
<1> QED
  BY <1>1, IInvAlways, PTL

-----------------------------------------------------------------------------
(***************************************************************************)
(* splitText.  Its loops over words and sentences are folds, whose values  *)
(* after k elements SequenceFolds gives.                                   *)
(***************************************************************************)

\* G[k] is what Length has counted after k words.
Counts(t, s, G) ==
    /\ G \in [0..Len(s) -> Int]
    /\ G[0] = Len(s) - 1 /\ G[Len(s)] = Length(t, s)
    /\ \A k \in 1..Len(s) : G[k] = G[k - 1] + t[s[k]].size

LEMMA LengthCounts ==
    ASSUME NEW t \in Seq(Token), NEW s \in Seq(1..Len(t))
    PROVE  \E G : Counts(t, s, G)
<1> DEFINE n == Len(s)
           F == [vx \in Int \X (1..Len(t)) |-> vx[1] + t[vx[2]].size]
           rec(it) == [S \in SUBSET DOMAIN s |->
             IF S = {} THEN Len(s) - 1
             ELSE it[S \ {Max(S)}] + t[s[Max(S)]].size]
           c == CHOOSE it : it = rec(it)
<1>1. n \in Nat /\ n - 1 \in Int /\ DOMAIN s = 1..n /\ \A k \in 1..n : s[k] \in 1..Len(t)
  OBVIOUS
<1>2. \A i \in 1..Len(t) : t[i].size \in Int
  <2>1. \A i \in 1..Len(t) : t[i] \in Token
    OBVIOUS
  <2> QED
    BY <2>1 DEF Token
<1>3. \A v \in Int, x \in 1..Len(t) : F[<<v, x>>] = v + t[x].size /\ F[<<v, x>>] \in Int
  BY <1>2
<1>b. \A v \in Int, x \in 1..Len(t) : F[<<v, x>>] \in Int
  BY <1>3
<1>a. \A k \in 1..n : s[k] \in 1..Len(t)
  OBVIOUS
<1>c. Foldable(Int, 1..Len(t), F, n - 1, s, n)
  <2> HIDE DEF F, n
  <2> QED
    BY <1>1, <1>b DEF Foldable
<1>4. \A S \in SUBSET (1..n) : S # {} => Max(S) \in 1..n
  BY <1>1, MaxUpTo
<1>5. PICK it \in [SUBSET (1..n) -> Int] : IsFold(F, n - 1, s, n, it)
  <2> HIDE DEF F, n
  <2> QED
    BY <1>c, FoldExists
<1>6. it = rec(it)
  <2> HIDE DEF F
  <2>1. ASSUME NEW S \in SUBSET (1..n), S # {}
        PROVE  it[S] = it[S \ {Max(S)}] + t[s[Max(S)]].size
    <3>1. it[S \ {Max(S)}] \in Int /\ s[Max(S)] \in 1..Len(t)
      BY <2>1, <1>4, <1>5, <1>1
    <3> QED
      BY <2>1, <1>5, <3>1, <1>3 DEF IsFold
  <2>2. it[{}] = n - 1
    BY <1>5 DEF IsFold
  <2> QED
    BY <1>1, <2>1, <2>2
<1>7. c = rec(c)
  <2> HIDE DEF rec
  <2> QED
    BY <1>6
<1>8. Length(t, s) = c[1..n]
  BY <1>1 DEF Length, FoldLeft, MapThenFoldSet
<1> HIDE DEF c
<1>9. c[{}] = n - 1
  BY <1>1, <1>7
<1>10. \A S \in SUBSET (1..n) :
         S # {} => c[S] = c[S \ {Max(S)}] + t[s[Max(S)]].size
  BY <1>1, <1>7
<1>11. \A S \in SUBSET (1..n) :
         S # {} /\ c[S \ {Max(S)}] \in Int => c[S] = F[<<c[S \ {Max(S)}], s[Max(S)]>>]
  <2> HIDE DEF F
  <2> QED
    BY <1>1, <1>3, <1>4, <1>10
<1>d. Advances(Int, F, n - 1, s, n, c)
  <2> HIDE DEF F, n
  <2> QED
    BY <1>9, <1>11 DEF Advances
<1>12. PICK G : Reaches(Int, F, n - 1, s, n, G) /\ G[n] = c[1..n]
  <2> HIDE DEF F, n
  <2> QED
    BY <1>c, <1>d, FoldSteps
<1>13. ASSUME NEW k \in 1..n PROVE G[k] = G[k - 1] + t[s[k]].size
  <2> HIDE DEF F
  <2>1. k - 1 \in 0..n
    BY <1>1
  <2> HIDE DEF n
  <2>2. G[k - 1] \in Int
    BY <2>1, <1>12 DEF Reaches
  <2>3. G[k] = F[<<G[k - 1], s[k]>>]
    BY <1>12 DEF Reaches
  <2> QED
    BY <2>2, <2>3, <1>a, <1>3
<1> HIDE DEF F, rec
<1> QED
  BY <1>8, <1>12, <1>13 DEF Counts, Reaches

LEMMA LengthEmpty == ASSUME NEW t \in Seq(Token) PROVE Length(t, <<>>) = -1
<1>1. <<>> \in Seq(1..Len(t)) /\ Len(<<>>) = 0
  BY EmptySeq
<1>2. PICK G : Counts(t, <<>>, G)
  BY <1>1, LengthCounts
<1> QED
  BY <1>1, <1>2 DEF Counts

LEMMA LengthType ==
    ASSUME NEW t \in Seq(Token), NEW s \in Seq(1..Len(t))
    PROVE  Length(t, s) \in Int
<1>1. PICK G : Counts(t, s, G)
  BY LengthCounts
<1>2. Len(s) \in 0..Len(s)
  BY LenProperties
<1> QED
  BY <1>1, <1>2 DEF Counts

LEMMA SizeType ==
    ASSUME NEW t \in Seq(Token), NEW i \in 1..Len(t)
    PROVE  t[i].size \in Nat \ {0}
<1>1. t[i] \in Token
  BY ElementOfSeq
<1> QED
  BY <1>1 DEF Token

LEMMA LengthAppend ==
    ASSUME NEW t \in Seq(Token), NEW s \in Seq(1..Len(t)), NEW x \in 1..Len(t)
    PROVE  Length(t, Append(s, x)) = Length(t, s) + 1 + t[x].size
<1> DEFINE n == Len(s)
           u == Append(s, x)
<1>1. /\ n \in Nat /\ u \in Seq(1..Len(t)) /\ Len(u) = n + 1
      /\ u[n + 1] = x /\ \A i \in 1..n : u[i] = s[i]
  BY AppendProperties, LenProperties
<1> HIDE DEF u
<1>2. PICK G : Counts(t, s, G)
  BY LengthCounts
<1>3. PICK H : Counts(t, u, H)
  BY <1>1, LengthCounts
<1>4. ASSUME NEW k \in 0..n PROVE G[k] \in Int /\ H[k] \in Int
  <2>1. k \in 0..Len(u)
    BY <1>1
  <2> QED
    BY <2>1, <1>2, <1>3 DEF Counts
<1> DEFINE T == {k \in 0..n : H[k] = G[k] + 1}
<1>5. 0 \in T
  BY <1>1, <1>2, <1>3 DEF Counts
<1>6. ASSUME NEW k \in 1..n, k - 1 \in T PROVE k \in T
  <2>1. G[k] = G[k - 1] + t[s[k]].size
    BY <1>2 DEF Counts
  <2>2. k \in 1..Len(u) /\ k \in 0..n /\ k - 1 \in 0..n
    BY <1>1
  <2>3. H[k] = H[k - 1] + t[u[k]].size
    BY <1>3, <2>2 DEF Counts
  <2>4. s[k] \in 1..Len(t)
    BY ElementOfSeq
  <2>5. t[s[k]].size \in Int
    BY <2>4, SizeType
  <2>6. G[k - 1] \in Int /\ H[k - 1] = G[k - 1] + 1 /\ u[k] = s[k]
    BY <1>1, <1>4, <1>6, <2>2
  <2>7. H[k] = G[k] + 1
    BY <2>1, <2>3, <2>5, <2>6
  <2> QED
    BY <2>7, <2>2
<1>7. n \in T
  <2>1. n \in 0..n
    BY <1>1
  <2> HIDE DEF T, n
  <2> QED
    BY <2>1, <1>1, <1>5, <1>6, UpTo
<1>8. H[n + 1] = H[(n + 1) - 1] + t[u[n + 1]].size
  <2>1. n + 1 \in 1..Len(u)
    BY <1>1
  <2> HIDE DEF n
  <2> QED
    BY <2>1, <1>3 DEF Counts
<1>9. (n + 1) - 1 = n
  BY <1>1
<1> QED
  BY <1>1, <1>2, <1>3, <1>7, <1>8, <1>9 DEF Counts, u

LEMMA LengthConcat ==
    ASSUME NEW t \in Seq(Token), NEW s \in Seq(1..Len(t)), NEW u \in Seq(1..Len(t))
    PROVE  Length(t, s \o u) = Length(t, s) + 1 + Length(t, u)
<1> DEFINE n == Len(u)
           ls == Length(t, s)
           T == {k \in 0..n : Length(t, s \o SubSeq(u, 1, k))
                                = ls + 1 + Length(t, SubSeq(u, 1, k))}
<1>1. n \in Nat /\ n \in 0..n /\ SubSeq(u, 1, n) = u
  BY LenProperties, SubSeqFull
<1>2. ls \in Int
  BY LengthType
<1>3. 0 \in T
  <2>1. SubSeq(u, 1, 0) = <<>>
    BY SubSeqEmpty
  <2>2. s \o <<>> = s
    BY ConcatEmptySeq
  <2>3. Length(t, s \o SubSeq(u, 1, 0)) = ls /\ Length(t, SubSeq(u, 1, 0)) = -1
    BY <2>1, <2>2, LengthEmpty
  <2> QED
    BY <2>3, <1>1, <1>2
<1> HIDE DEF ls
<1>4. ASSUME NEW k \in 1..n, k - 1 \in T PROVE k \in T
  <2> DEFINE v == SubSeq(u, 1, k - 1)
             w == SubSeq(u, 1, k)
             lv == Length(t, v)
             size == t[u[k]].size
  <2>1. v \in Seq(1..Len(t)) /\ u[k] \in 1..Len(t) /\ w = Append(v, u[k])
    BY PrefixGrows
  <2>2. s \o w = Append(s \o v, u[k])
    BY ConcatGrows
  <2>3. Length(t, s \o v) = ls + 1 + lv
    BY <1>4
  <2> HIDE DEF v, w
  <2>4. s \o v \in Seq(1..Len(t))
    BY <2>1, ConcatProperties
  <2>5. Length(t, s \o w) = Length(t, s \o v) + 1 + size
    BY <2>1, <2>2, <2>4, LengthAppend
  <2>6. Length(t, w) = lv + 1 + size
    BY <2>1, LengthAppend
  <2>7. lv \in Int /\ size \in Int
    BY <2>1, LengthType, SizeType
  <2> HIDE DEF lv, size
  <2>8. Length(t, s \o w) = ls + 1 + Length(t, w)
    BY <2>3, <2>5, <2>6, <2>7, <1>2
  <2>9. k \in 0..n
    OBVIOUS
  <2> QED
    BY <2>8, <2>9 DEF w
<1>5. n \in T
  <2> HIDE DEF T, n
  <2> QED
    BY <1>1, <1>3, <1>4, UpTo
<1> QED
  BY <1>1, <1>5 DEF ls

-----------------------------------------------------------------------------
\* What is cut off and what the builder holds, of the elements of W.
Cuts(W) == [done : Lists(W), cur : Seq(W)]

\* The words of a cut, in order.
Joined(p) == FlattenSeq(p.done) \o p.cur

LEMMA CutDone == ASSUME NEW W, NEW p \in Cuts(W) PROVE FlattenSeq(p.done) \in Seq(W)
  BY FlattenType DEF Cuts, Lists

LEMMA JoinedType == ASSUME NEW W, NEW p \in Cuts(W) PROVE Joined(p) \in Seq(W)
<1>1. p.cur \in Seq(W)
  BY DEF Cuts
<1>2. FlattenSeq(p.done) \in Seq(W)
  BY CutDone
<1> QED
  BY <1>1, <1>2, ConcatProperties DEF Joined

LEMMA NothingJoined ==
    ASSUME NEW W
    PROVE  NothingCut \in Cuts(W) /\ Joined(NothingCut) = <<>>
<1>1. <<>> \in Lists(W) /\ <<>> \in Seq(W)
  BY EmptySeq DEF Lists
<1>2. NothingCut.done = <<>> /\ NothingCut.cur = <<>>
  BY DEF NothingCut
<1>3. <<>> \o <<>> = <<>>
  BY <1>1, ConcatEmptySeq
<1>4. Joined(NothingCut) = <<>>
  BY <1>2, <1>3, FlattenEmpty DEF Joined
<1> QED
  BY <1>1, <1>4 DEF Cuts, NothingCut

\* Words that come to an empty builder.
LEMMA JoinedBegin ==
    ASSUME NEW W, NEW p \in Cuts(W), NEW s \in Seq(W), p.cur = <<>>
    PROVE  FlattenSeq(p.done) \o s = Joined(p) \o s
<1>1. FlattenSeq(p.done) \in Seq(W)
  BY CutDone
<1>2. FlattenSeq(p.done) \o <<>> = FlattenSeq(p.done)
  BY <1>1, ConcatEmptySeq
<1> QED
  BY <1>2 DEF Joined

\* Words that are added to the builder.
LEMMA JoinedAdd ==
    ASSUME NEW W, NEW p \in Cuts(W), NEW s \in Seq(W)
    PROVE  FlattenSeq(p.done) \o (p.cur \o s) = Joined(p) \o s
<1> DEFINE a == FlattenSeq(p.done)
           b == p.cur
<1>1. a \in Seq(W) /\ b \in Seq(W)
  BY CutDone DEF Cuts
<1>2. Joined(p) = a \o b
  BY DEF Joined
<1> HIDE DEF a, b
<1>3. (a \o b) \o s = a \o (b \o s)
  BY <1>1, ConcatThree
<1> QED
  BY <1>2, <1>3 DEF a, b

\* The builder's words are cut off.
LEMMA JoinedCut ==
    ASSUME NEW W, NEW p \in Cuts(W)
    PROVE  FlattenSeq(Append(p.done, p.cur)) = Joined(p) /\ Append(p.done, p.cur) \in Lists(W)
<1>1. p.done \in Lists(W) /\ p.cur \in Seq(W)
  BY DEF Cuts
<1>2. FlattenSeq(Append(p.done, p.cur)) = FlattenSeq(p.done) \o p.cur
  BY <1>1, FlattenAppend DEF Lists
<1> QED
  BY <1>1, <1>2, AppendProperties DEF Joined, Lists

LEMMA FlushJoins ==
    ASSUME NEW W, NEW p \in Cuts(W)
    PROVE  /\ Flush(p) \in Cuts(W) /\ Flush(p).cur = <<>>
           /\ Joined(Flush(p)) = Joined(p)
           /\ FlattenSeq(Flush(p).done) = Joined(p)
<1>1. CASE p.cur = <<>>
  <2>1. <<>> \in Seq(W)
    BY EmptySeq
  <2>2. FlattenSeq(p.done) \in Seq(W)
    BY CutDone
  <2>3. FlattenSeq(p.done) \o <<>> = FlattenSeq(p.done)
    BY <2>2, ConcatEmptySeq
  <2> QED
    BY <1>1, <2>3 DEF Flush, Joined
<1>2. CASE p.cur # <<>>
  <2> DEFINE d == Append(p.done, p.cur)
             q == [done |-> d, cur |-> <<>>]
  <2>1. Flush(p) = q
    BY <1>2 DEF Flush
  <2>2. FlattenSeq(d) = Joined(p) /\ d \in Lists(W)
    BY JoinedCut
  <2> HIDE DEF d
  <2>3. <<>> \in Seq(W)
    BY EmptySeq
  <2>4. q \in Cuts(W) /\ q.cur = <<>> /\ q.done = d
    BY <2>2, <2>3 DEF Cuts
  <2>5. Joined(p) \in Seq(W)
    BY JoinedType
  <2>6. Joined(p) \o <<>> = Joined(p)
    BY <2>5, ConcatEmptySeq
  <2>7. Joined(q) = Joined(p)
    BY <2>2, <2>4, <2>6 DEF Joined
  <2> QED
    BY <2>1, <2>2, <2>4, <2>7
<1> QED
  BY <1>1, <1>2

LEMMA PackJoins ==
    ASSUME NEW t, NEW W, NEW p \in Cuts(W), NEW s \in Seq(W)
    PROVE  Pack(t, p, s) \in Cuts(W) /\ Joined(Pack(t, p, s)) = Joined(p) \o s
<1>0. p.done \in Lists(W) /\ p.cur \in Seq(W) /\ p = [done |-> p.done, cur |-> p.cur]
  BY DEF Cuts
<1>1. CASE p.cur = <<>>
  <2> DEFINE q == [done |-> p.done, cur |-> s]
  <2>1. Pack(t, p, s) = q
    BY <1>0, <1>1 DEF Pack
  <2>2. q \in Cuts(W) /\ q.done = p.done /\ q.cur = s
    BY <1>0 DEF Cuts
  <2>3. FlattenSeq(p.done) \o s = Joined(p) \o s
    BY <1>1, JoinedBegin
  <2> HIDE DEF q
  <2>4. Joined(q) = Joined(p) \o s
    BY <2>2, <2>3 DEF Joined
  <2> QED
    BY <2>1, <2>2, <2>4
<1>2. CASE p.cur # <<>> /\ Length(t, p.cur) + 1 + Length(t, s) <= ChunkTarget
  <2> DEFINE q == [done |-> p.done, cur |-> p.cur \o s]
  <2>1. Pack(t, p, s) = q
    BY <1>0, <1>2 DEF Pack
  <2>a. p.cur \o s \in Seq(W)
    BY <1>0, ConcatProperties
  <2>2. q \in Cuts(W) /\ q.done = p.done /\ q.cur = p.cur \o s
    BY <1>0, <2>a DEF Cuts
  <2>3. FlattenSeq(p.done) \o (p.cur \o s) = Joined(p) \o s
    BY JoinedAdd
  <2> HIDE DEF q
  <2>4. Joined(q) = Joined(p) \o s
    BY <2>2, <2>3 DEF Joined
  <2> QED
    BY <2>1, <2>2, <2>4
<1>3. CASE p.cur # <<>> /\ ~(Length(t, p.cur) + 1 + Length(t, s) <= ChunkTarget)
  <2> DEFINE d == Append(p.done, p.cur)
             q == [done |-> d, cur |-> s]
  <2>1. Pack(t, p, s) = q
    BY <1>3 DEF Pack
  <2>2. FlattenSeq(d) = Joined(p) /\ d \in Lists(W)
    BY JoinedCut
  <2> HIDE DEF d
  <2>3. q \in Cuts(W) /\ q.done = d /\ q.cur = s
    BY <2>2 DEF Cuts
  <2> HIDE DEF q
  <2>4. Joined(q) = Joined(p) \o s
    BY <2>2, <2>3 DEF Joined
  <2> QED
    BY <2>1, <2>3, <2>4
<1> QED
  BY <1>1, <1>2, <1>3

-----------------------------------------------------------------------------
\* s is under the cap, or one word.
Fits(t, s) == Len(s) > 1 => Length(t, s) <= ChunkHardCap

\* The cuts of t whose parts all fit.
FitCuts(t) ==
    {p \in Cuts(1..Len(t)) : Fits(t, p.cur) /\ \A i \in 1..Len(p.done) : Fits(t, p.done[i])}

LEMMA NothingFits == ASSUME NEW t PROVE NothingCut \in FitCuts(t)
<1>1. NothingCut \in Cuts(1..Len(t))
  BY NothingJoined
<1>2. NothingCut.cur = <<>> /\ NothingCut.done = <<>> /\ Len(<<>>) = 0
  BY DEF NothingCut
<1> QED
  BY <1>1, <1>2 DEF FitCuts, Fits

LEMMA AppendFits ==
    ASSUME NEW t, NEW d \in Lists(1..Len(t)), NEW s \in Seq(1..Len(t)), Fits(t, s),
           \A i \in 1..Len(d) : Fits(t, d[i])
    PROVE  \A i \in 1..Len(Append(d, s)) : Fits(t, Append(d, s)[i])
<1> DEFINE e == Append(d, s)
<1>1. /\ Len(d) \in Nat /\ Len(e) = Len(d) + 1 /\ e[Len(d) + 1] = s
      /\ \A i \in 1..Len(d) : e[i] = d[i]
  BY AppendProperties, LenProperties DEF Lists
<1> HIDE DEF e
<1>2. ASSUME NEW i \in 1..Len(e) PROVE Fits(t, e[i])
  BY <1>1
<1> QED
  BY <1>2 DEF e

LEMMA FlushFits ==
    ASSUME NEW t, NEW p \in FitCuts(t)
    PROVE  Flush(p) \in FitCuts(t)
<1>1. p \in Cuts(1..Len(t))
  BY DEF FitCuts
<1>2. CASE p.cur = <<>>
  BY <1>2 DEF Flush
<1>3. CASE p.cur # <<>>
  <2> DEFINE q == [done |-> Append(p.done, p.cur), cur |-> <<>>]
  <2>1. Flush(p) = q /\ q \in Cuts(1..Len(t))
    BY <1>1, <1>3, FlushJoins DEF Flush
  <2>2. p.done \in Lists(1..Len(t)) /\ p.cur \in Seq(1..Len(t)) /\ Fits(t, p.cur)
        /\ \A i \in 1..Len(p.done) : Fits(t, p.done[i])
    BY DEF FitCuts, Cuts
  <2>3. \A i \in 1..Len(Append(p.done, p.cur)) : Fits(t, Append(p.done, p.cur)[i])
    BY <2>2, AppendFits
  <2>4. Fits(t, q.cur)
    BY DEF Fits
  <2> QED
    BY <2>1, <2>3, <2>4 DEF FitCuts
<1> QED
  BY <1>2, <1>3

LEMMA PackFits ==
    ASSUME NEW t \in Seq(Token), NEW p \in FitCuts(t), NEW s \in Seq(1..Len(t)), Fits(t, s)
    PROVE  Pack(t, p, s) \in FitCuts(t)
<1>0. p.done \in Lists(1..Len(t)) /\ p.cur \in Seq(1..Len(t)) /\ Fits(t, p.cur)
      /\ (\A i \in 1..Len(p.done) : Fits(t, p.done[i])) /\ p \in Cuts(1..Len(t))
      /\ p = [done |-> p.done, cur |-> p.cur]
  BY DEF FitCuts, Cuts
<1>1. Pack(t, p, s) \in Cuts(1..Len(t))
  BY <1>0, PackJoins
<1>2. CASE p.cur = <<>>
  BY <1>0, <1>1, <1>2 DEF FitCuts, Pack
<1>3. CASE p.cur # <<>> /\ Length(t, p.cur) + 1 + Length(t, s) <= ChunkTarget
  <2> DEFINE q == [done |-> p.done, cur |-> p.cur \o s]
  <2>1. Pack(t, p, s) = q
    BY <1>0, <1>3 DEF Pack
  <2>2. Length(t, p.cur \o s) = Length(t, p.cur) + 1 + Length(t, s)
    BY <1>0, LengthConcat
  <2>3. Length(t, p.cur) \in Int /\ Length(t, s) \in Int
    BY <1>0, LengthType
  <2>4. Fits(t, p.cur \o s)
    BY <1>3, <2>2, <2>3, SayAssumption DEF Fits
  <2>5. q.done = p.done /\ q.cur = p.cur \o s
    OBVIOUS
  <2> HIDE DEF q
  <2>6. Fits(t, q.cur) /\ \A i \in 1..Len(q.done) : Fits(t, q.done[i])
    BY <1>0, <2>4, <2>5
  <2> QED
    BY <1>1, <2>1, <2>6 DEF FitCuts
<1>4. CASE p.cur # <<>> /\ ~(Length(t, p.cur) + 1 + Length(t, s) <= ChunkTarget)
  <2> DEFINE q == [done |-> Append(p.done, p.cur), cur |-> s]
  <2>1. Pack(t, p, s) = q
    BY <1>4 DEF Pack
  <2>2. \A i \in 1..Len(Append(p.done, p.cur)) : Fits(t, Append(p.done, p.cur)[i])
    BY <1>0, AppendFits
  <2> QED
    BY <1>0, <1>1, <2>1, <2>2 DEF FitCuts
<1> QED
  BY <1>2, <1>3, <1>4

\* The parts of d fit, and hold the words of s.
Divides(t, d, s) ==
    /\ d \in Lists(1..Len(t)) /\ FlattenSeq(d) = s
    /\ \A i \in 1..Len(d) : Fits(t, d[i])

LEMMA FlushDivides ==
    ASSUME NEW t, NEW p \in FitCuts(t), NEW s, Joined(p) = s
    PROVE  Divides(t, Flush(p).done, s)
<1>1. p \in Cuts(1..Len(t)) /\ Flush(p) \in FitCuts(t)
  BY FlushFits DEF FitCuts
<1>2. FlattenSeq(Flush(p).done) = Joined(p) /\ Flush(p) \in Cuts(1..Len(t))
  BY <1>1, FlushJoins
<1>3. Flush(p).done \in Lists(1..Len(t))
  BY <1>2 DEF Cuts
<1> QED
  BY <1>1, <1>2, <1>3 DEF Divides, FitCuts

\* A word fits.
LEMMA WordFits ==
    ASSUME NEW t, NEW i \in 1..Len(t)
    PROVE  <<i>> \in Seq(1..Len(t)) /\ Fits(t, <<i>>)
  BY DEF Fits

\* A sentence that is cut between words.
LEMMA PackWordsDivides ==
    ASSUME NEW t \in Seq(Token), NEW s \in Seq(1..Len(t))
    PROVE  Divides(t, PackWords(t, s), s)
<1> DEFINE n == Len(s)
           W == 1..Len(t)
           V == FitCuts(t)
           F == [vx \in V \X W |-> Pack(t, vx[1], <<vx[2]>>)]
           rec(it) == [S \in SUBSET DOMAIN s |->
             IF S = {} THEN NothingCut
             ELSE Pack(t, it[S \ {Max(S)}], <<s[Max(S)]>>)]
           c == CHOOSE it : it = rec(it)
<1>1. n \in Nat /\ DOMAIN s = 1..n /\ \A k \in 1..n : s[k] \in W
  BY LenProperties, ElementOfSeq
<1>2. \A v \in V, x \in W : F[<<v, x>>] = Pack(t, v, <<x>>)
  OBVIOUS
<1>3. \A v \in V, x \in W : Pack(t, v, <<x>>) \in V
  BY PackFits, WordFits
<1>4. \A S \in SUBSET (1..n) : S # {} => Max(S) \in 1..n
  BY <1>1, MaxUpTo
<1>5. Foldable(V, W, F, NothingCut, s, n)
  <2> HIDE DEF F, n, V, W
  <2>1. NothingCut \in V
    BY NothingFits DEF V
  <2> QED
    BY <2>1, <1>1, <1>2, <1>3 DEF Foldable
<1>6. PICK it \in [SUBSET (1..n) -> V] : IsFold(F, NothingCut, s, n, it)
  <2> HIDE DEF F, n, V, W
  <2> QED
    BY <1>5, FoldExists
<1>7. it = rec(it)
  <2> HIDE DEF F, V, W
  <2>1. ASSUME NEW S \in SUBSET (1..n), S # {}
        PROVE  it[S] = Pack(t, it[S \ {Max(S)}], <<s[Max(S)]>>)
    <3>1. it[S \ {Max(S)}] \in V /\ s[Max(S)] \in W
      BY <2>1, <1>4, <1>6, <1>1
    <3> QED
      BY <2>1, <1>6, <3>1, <1>2 DEF IsFold
  <2>2. it[{}] = NothingCut
    BY <1>6 DEF IsFold
  <2> QED
    BY <1>1, <2>1, <2>2
<1>8. c = rec(c)
  <2> HIDE DEF rec
  <2> QED
    BY <1>7
<1>9. PackWords(t, s) = Flush(c[1..n]).done
  BY <1>1 DEF PackWords, FoldLeft, MapThenFoldSet
<1> HIDE DEF c
<1>10. c[{}] = NothingCut
  BY <1>1, <1>8
<1>11. \A S \in SUBSET (1..n) :
         S # {} => c[S] = Pack(t, c[S \ {Max(S)}], <<s[Max(S)]>>)
  BY <1>1, <1>8
<1>12. Advances(V, F, NothingCut, s, n, c)
  <2> HIDE DEF F, n, V, W
  <2> QED
    BY <1>1, <1>2, <1>4, <1>10, <1>11 DEF Advances
<1> HIDE DEF F, rec
<1>13. PICK G : Reaches(V, F, NothingCut, s, n, G) /\ G[n] = c[1..n]
  <2> HIDE DEF n, V, W
  <2> QED
    BY <1>5, <1>12, FoldSteps
<1> DEFINE T == {k \in 0..n : Joined(G[k]) = SubSeq(s, 1, k)}
<1>14. 0 \in T
  <2>1. SubSeq(s, 1, 0) = <<>>
    BY SubSeqEmpty
  <2>2. G[0] = NothingCut
    BY <1>13 DEF Reaches
  <2>3. Joined(NothingCut) = <<>>
    BY NothingJoined
  <2>4. Joined(G[0]) = SubSeq(s, 1, 0)
    BY <2>1, <2>2, <2>3
  <2>5. 0 \in 0..n
    BY <1>1
  <2> HIDE DEF n
  <2> QED
    BY <2>4, <2>5
<1>15. ASSUME NEW k \in 1..n, k - 1 \in T PROVE k \in T
  <2>1. k \in 0..n /\ k - 1 \in 0..n /\ s[k] \in W
    BY <1>1
  <2>2. Joined(G[k - 1]) = SubSeq(s, 1, k - 1)
    BY <1>15
  <2>3. SubSeq(s, 1, k) = SubSeq(s, 1, k - 1) \o <<s[k]>>
    BY PrefixGrows
  <2> HIDE DEF n
  <2>4. G[k - 1] \in V /\ G[k] = F[<<G[k - 1], s[k]>>]
    BY <2>1, <1>13 DEF Reaches
  <2>5. G[k] = Pack(t, G[k - 1], <<s[k]>>)
    BY <2>1, <2>4, <1>2
  <2>6. G[k - 1] \in Cuts(W) /\ <<s[k]>> \in Seq(W)
    BY <2>1, <2>4 DEF FitCuts
  <2> HIDE DEF W, V, T
  <2> DEFINE p == G[k - 1]
             w == <<s[k]>>
  <2>7. G[k] = Pack(t, p, w) /\ p \in Cuts(W) /\ w \in Seq(W)
    BY <2>5, <2>6
  <2> HIDE DEF p, w
  <2>8. Joined(Pack(t, p, w)) = Joined(p) \o w
    BY <2>7, PackJoins
  <2> QED
    BY <2>1, <2>2, <2>3, <2>7, <2>8 DEF T, p, w
<1>16. n \in T
  <2>1. n \in 0..n
    BY <1>1
  <2> HIDE DEF T, n
  <2> QED
    BY <2>1, <1>1, <1>14, <1>15, UpTo
<1>17. Joined(G[n]) = s
  BY <1>16, SubSeqFull
<1>18. G[n] \in V
  <2>1. n \in 0..n
    BY <1>1
  <2> HIDE DEF n, V
  <2> QED
    BY <2>1, <1>13 DEF Reaches
<1> QED
  BY <1>9, <1>13, <1>17, <1>18, FlushDivides

-----------------------------------------------------------------------------
\* A step of splitSentences.
Scan(t, p, i) ==
    LET q == [p EXCEPT !.cur = Append(@, i)]
    IN  IF t[i].ends \/ t[i].gap = "newline" THEN Flush(q) ELSE q

LEMMA ScanJoins ==
    ASSUME NEW t, NEW W, NEW p \in Cuts(W), NEW i \in W
    PROVE  Scan(t, p, i) \in Cuts(W) /\ Joined(Scan(t, p, i)) = Joined(p) \o <<i>>
<1> DEFINE q == [p EXCEPT !.cur = Append(@, i)]
<1>1. p.done \in Lists(W) /\ p.cur \in Seq(W) /\ <<i>> \in Seq(W)
  BY DEF Cuts
<1>2. Append(p.cur, i) = p.cur \o <<i>> /\ Append(p.cur, i) \in Seq(W)
  BY <1>1, AppendIsConcat, AppendProperties
<1>3. q \in Cuts(W) /\ q.done = p.done /\ q.cur = p.cur \o <<i>>
  BY <1>2 DEF Cuts
<1>4. FlattenSeq(p.done) \o (p.cur \o <<i>>) = Joined(p) \o <<i>>
  BY <1>1, JoinedAdd
<1>5. Scan(t, p, i) \in {q, Flush(q)}
  BY DEF Scan
<1> HIDE DEF q
<1>6. Joined(q) = Joined(p) \o <<i>>
  BY <1>3, <1>4 DEF Joined
<1>7. Flush(q) \in Cuts(W) /\ Joined(Flush(q)) = Joined(q)
  BY <1>3, FlushJoins
<1> QED
  BY <1>3, <1>5, <1>6, <1>7

\* The numbers of the first k words.
FirstWords(k) == [i \in 1..k |-> i]

LEMMA FirstGrows ==
    ASSUME NEW k \in Nat \ {0}
    PROVE  FirstWords(k) = FirstWords(k - 1) \o <<k>>
<1>1. FirstWords(k - 1) \in Seq(Nat) /\ Len(FirstWords(k - 1)) = k - 1 /\ <<k>> \in Seq(Nat) /\ Len(<<k>>) = 1
  BY DEF FirstWords
<1>2. FirstWords(k) \in Seq(Nat) /\ Len(FirstWords(k)) = k
  BY DEF FirstWords
<1>3. /\ FirstWords(k - 1) \o <<k>> \in Seq(Nat) /\ Len(FirstWords(k - 1) \o <<k>>) = k
      /\ \A i \in 1..k : (FirstWords(k - 1) \o <<k>>)[i] = IF i <= k - 1 THEN FirstWords(k - 1)[i] ELSE <<k>>[i - (k - 1)]
  BY <1>1, ConcatProperties
<1>4. ASSUME NEW i \in 1..k PROVE (FirstWords(k - 1) \o <<k>>)[i] = FirstWords(k)[i]
  <2>1. CASE i = k
    BY <2>1, <1>3 DEF FirstWords
  <2>2. CASE i # k
    BY <2>2, <1>3 DEF FirstWords
  <2> QED
    BY <2>1, <2>2
<1> QED
  BY <1>2, <1>3, <1>4, SeqEqual

LEMMA SegmentsJoin ==
    ASSUME NEW t \in Seq(Token)
    PROVE  Segments(t) \in Lists(1..Len(t)) /\ FlattenSeq(Segments(t)) = FirstWords(Len(t))
<1> DEFINE n == Len(t)
           W == 1..Len(t)
           V == Cuts(W)
           s == [i \in DOMAIN t |-> i]
           F == [vx \in V \X W |-> Scan(t, vx[1], vx[2])]
           rec(it) == [S \in SUBSET DOMAIN s |->
             IF S = {} THEN NothingCut
             ELSE Scan(t, it[S \ {Max(S)}], s[Max(S)])]
           c == CHOOSE it : it = rec(it)
<1>1. n \in Nat /\ DOMAIN s = 1..n /\ \A k \in 1..n : s[k] = k /\ s[k] \in W
  BY LenProperties
<1>2. \A v \in V, x \in W : F[<<v, x>>] = Scan(t, v, x)
  OBVIOUS
<1>3. \A v \in Cuts(W), x \in W :
         Scan(t, v, x) \in Cuts(W) /\ Joined(Scan(t, v, x)) = Joined(v) \o <<x>>
  BY ScanJoins
<1>4. \A S \in SUBSET (1..n) : S # {} => Max(S) \in 1..n
  BY <1>1, MaxUpTo
<1>9. Segments(t) = Flush(c[1..n]).done
  BY <1>1 DEF Segments, FoldLeftDomain, FoldLeft, MapThenFoldSet, Scan
<1> HIDE DEF s
<1>5. Foldable(V, W, F, NothingCut, s, n)
  <2> HIDE DEF F, n, V, W
  <2>1. NothingCut \in V
    BY NothingJoined DEF V
  <2> QED
    BY <2>1, <1>1, <1>2, <1>3 DEF Foldable, V
<1>6. PICK it \in [SUBSET (1..n) -> V] : IsFold(F, NothingCut, s, n, it)
  <2> HIDE DEF F, n, V, W
  <2> QED
    BY <1>5, FoldExists
<1>7. it = rec(it)
  <2> HIDE DEF F, V, W
  <2>1. ASSUME NEW S \in SUBSET (1..n), S # {}
        PROVE  it[S] = Scan(t, it[S \ {Max(S)}], s[Max(S)])
    <3>1. it[S \ {Max(S)}] \in V /\ s[Max(S)] \in W
      BY <2>1, <1>4, <1>6, <1>1
    <3> QED
      BY <2>1, <1>6, <3>1, <1>2 DEF IsFold
  <2>2. it[{}] = NothingCut
    BY <1>6 DEF IsFold
  <2> QED
    BY <1>1, <2>1, <2>2
<1>8. c = rec(c)
  <2> HIDE DEF rec
  <2> QED
    BY <1>7
<1> HIDE DEF c
<1>10. c[{}] = NothingCut
  BY <1>1, <1>8
<1>11. \A S \in SUBSET (1..n) :
         S # {} => c[S] = Scan(t, c[S \ {Max(S)}], s[Max(S)])
  BY <1>1, <1>8
<1>12. Advances(V, F, NothingCut, s, n, c)
  <2> HIDE DEF F, n, V, W
  <2> QED
    BY <1>1, <1>2, <1>4, <1>10, <1>11 DEF Advances
<1> HIDE DEF F, rec
<1>13. PICK G : Reaches(V, F, NothingCut, s, n, G) /\ G[n] = c[1..n]
  <2> HIDE DEF n, V, W
  <2> QED
    BY <1>5, <1>12, FoldSteps
<1> DEFINE T == {k \in 0..n : Joined(G[k]) = FirstWords(k)}
<1>14. 0 \in T
  <2>1. FirstWords(0) = <<>>
    BY DEF FirstWords
  <2>2. G[0] = NothingCut
    BY <1>13 DEF Reaches
  <2>3. Joined(NothingCut) = <<>>
    BY NothingJoined
  <2>4. Joined(G[0]) = FirstWords(0)
    BY <2>1, <2>2, <2>3
  <2>5. 0 \in 0..n
    BY <1>1
  <2> HIDE DEF n
  <2> QED
    BY <2>4, <2>5
<1>15. ASSUME NEW k \in 1..n, k - 1 \in T PROVE k \in T
  <2>1. k \in 0..n /\ k - 1 \in 0..n /\ s[k] = k /\ k \in W /\ k \in Nat \ {0}
    BY <1>1
  <2>2. Joined(G[k - 1]) = FirstWords(k - 1)
    BY <1>15
  <2>3. FirstWords(k) = FirstWords(k - 1) \o <<k>>
    BY <2>1, FirstGrows
  <2> HIDE DEF n, V, W
  <2>4. G[k - 1] \in V /\ G[k] = F[<<G[k - 1], s[k]>>]
    BY <2>1, <1>13 DEF Reaches
  <2>5. G[k] = Scan(t, G[k - 1], k)
    BY <2>1, <2>4, <1>2
  <2> DEFINE p == G[k - 1]
  <2>7. G[k] = Scan(t, p, k) /\ p \in Cuts(W)
    BY <2>4, <2>5 DEF V
  <2> HIDE DEF p, T
  <2>8. Joined(Scan(t, p, k)) = Joined(p) \o <<k>>
    BY <2>1, <2>7, <1>3
  <2> QED
    BY <2>1, <2>2, <2>3, <2>7, <2>8 DEF T, p
<1>16. n \in T /\ n \in 0..n
  <2>1. n \in 0..n
    BY <1>1
  <2> HIDE DEF T, n
  <2> QED
    BY <2>1, <1>1, <1>14, <1>15, UpTo
<1>17. Joined(G[n]) = FirstWords(n)
  BY <1>16
<1>18. G[n] \in Cuts(W)
  <2> HIDE DEF n, T
  <2> QED
    BY <1>16, <1>13 DEF Reaches
<1> HIDE DEF n, W, V, T
<1>19. Flush(G[n]) \in Cuts(W) /\ FlattenSeq(Flush(G[n]).done) = FirstWords(n)
  BY <1>17, <1>18, FlushJoins
<1>20. Flush(G[n]).done \in Lists(W)
  BY <1>19 DEF Cuts
<1> QED
  BY <1>9, <1>13, <1>19, <1>20 DEF n, W

-----------------------------------------------------------------------------
\* A step of splitText.
Add(t, p, s) ==
    IF Length(t, s) > ChunkHardCap
    THEN [done |-> Flush(p).done \o PackWords(t, s), cur |-> <<>>]
    ELSE Pack(t, p, s)

LEMMA ConcatFits ==
    ASSUME NEW t, NEW d \in Lists(1..Len(t)), NEW e \in Lists(1..Len(t)),
           \A i \in 1..Len(d) : Fits(t, d[i]), \A i \in 1..Len(e) : Fits(t, e[i])
    PROVE  \A i \in 1..Len(d \o e) : Fits(t, (d \o e)[i])
<1> DEFINE n == Len(d)
           m == Len(e)
           u == d \o e
<1>1. /\ n \in Nat /\ m \in Nat /\ Len(u) = n + m
      /\ \A i \in 1..(n + m) : u[i] = IF i <= n THEN d[i] ELSE e[i - n]
  BY ConcatProperties, LenProperties DEF Lists
<1> HIDE DEF u
<1>2. ASSUME NEW i \in 1..Len(u) PROVE Fits(t, u[i])
  <2>1. i \in 1..(n + m)
    BY <1>1
  <2>2. CASE i <= n
    BY <1>1, <2>1, <2>2
  <2>3. CASE ~(i <= n)
    <3>1. i - n \in 1..m
      BY <1>1, <2>1, <2>3
    <3> QED
      BY <1>1, <2>1, <2>3, <3>1
  <2> QED
    BY <2>2, <2>3
<1> QED
  BY <1>2 DEF u

LEMMA AddKeeps ==
    ASSUME NEW t \in Seq(Token), NEW p \in FitCuts(t), NEW s \in Seq(1..Len(t))
    PROVE  Add(t, p, s) \in FitCuts(t) /\ Joined(Add(t, p, s)) = Joined(p) \o s
<1> DEFINE W == 1..Len(t)
<1>1. p \in Cuts(W)
  BY DEF FitCuts
<1>2. CASE Length(t, s) > ChunkHardCap
  <2> DEFINE d == Flush(p).done
             e == PackWords(t, s)
             q == [done |-> d \o e, cur |-> <<>>]
  <2>1. Add(t, p, s) = q
    BY <1>2 DEF Add
  <2>2. Flush(p) \in FitCuts(t) /\ Flush(p) \in Cuts(W) /\ FlattenSeq(d) = Joined(p)
    BY <1>1, FlushFits, FlushJoins
  <2>3. d \in Lists(W) /\ \A i \in 1..Len(d) : Fits(t, d[i])
    BY <2>2 DEF FitCuts, Cuts
  <2>4. e \in Lists(W) /\ FlattenSeq(e) = s /\ \A i \in 1..Len(e) : Fits(t, e[i])
    BY PackWordsDivides DEF Divides
  <2> HIDE DEF d, e
  <2>5. FlattenSeq(d \o e) = Joined(p) \o s
    BY <2>2, <2>3, <2>4, FlattenConcat
  <2>6. d \o e \in Lists(W)
    BY <2>3, <2>4, ConcatProperties DEF Lists
  <2>7. \A i \in 1..Len(d \o e) : Fits(t, (d \o e)[i])
    BY <2>3, <2>4, ConcatFits
  <2>8. q.done = d \o e /\ q.cur = <<>> /\ q \in Cuts(W) /\ Fits(t, <<>>)
    BY <2>6, EmptySeq DEF Cuts, Fits
  <2> HIDE DEF q
  <2>9. q \in FitCuts(t)
    BY <2>7, <2>8 DEF FitCuts
  <2>10. FlattenSeq(d \o e) \in Seq(W)
    BY <2>6, FlattenType DEF Lists
  <2>11. FlattenSeq(d \o e) \o <<>> = FlattenSeq(d \o e)
    BY <2>10, ConcatEmptySeq
  <2>12. Joined(q) = Joined(p) \o s
    BY <2>5, <2>8, <2>11 DEF Joined
  <2> QED
    BY <2>1, <2>9, <2>12
<1>3. CASE ~(Length(t, s) > ChunkHardCap)
  <2>1. Add(t, p, s) = Pack(t, p, s)
    BY <1>3 DEF Add
  <2>2. Fits(t, s)
    BY <1>3, LengthType, SayAssumption DEF Fits
  <2>3. Pack(t, p, s) \in FitCuts(t)
    BY <2>2, PackFits
  <2>4. Joined(Pack(t, p, s)) = Joined(p) \o s
    BY <1>1, PackJoins
  <2> QED
    BY <2>1, <2>3, <2>4
<1> QED
  BY <1>2, <1>3

LEMMA SplitDivides ==
    ASSUME NEW t \in Seq(Token)
    PROVE  Divides(t, SplitText(t), FirstWords(Len(t)))
<1> DEFINE s == Segments(t)
           n == Len(s)
           W == Seq(1..Len(t))
           V == FitCuts(t)
           F == [vx \in V \X W |-> Add(t, vx[1], vx[2])]
           rec(it) == [S \in SUBSET DOMAIN s |->
             IF S = {} THEN NothingCut
             ELSE Add(t, it[S \ {Max(S)}], s[Max(S)])]
           c == CHOOSE it : it = rec(it)
<1>0. s \in Lists(1..Len(t)) /\ FlattenSeq(s) = FirstWords(Len(t))
  BY SegmentsJoin
<1>9. SplitText(t) = Flush(c[DOMAIN s]).done
  BY DEF SplitText, FoldLeft, MapThenFoldSet, Add
<1> HIDE DEF s
<1>1. n \in Nat /\ DOMAIN s = 1..n /\ \A k \in 1..n : s[k] \in W
  BY <1>0, LenProperties, ElementOfSeq DEF Lists
<1>2. \A v \in V, x \in W : F[<<v, x>>] = Add(t, v, x)
  OBVIOUS
<1>3. \A v \in V, x \in W : Add(t, v, x) \in V /\ Joined(Add(t, v, x)) = Joined(v) \o x
  BY AddKeeps
<1>4. \A S \in SUBSET (1..n) : S # {} => Max(S) \in 1..n
  BY <1>1, MaxUpTo
<1>5. Foldable(V, W, F, NothingCut, s, n)
  <2> HIDE DEF F, n, V, W
  <2>1. NothingCut \in V
    BY NothingFits DEF V
  <2> QED
    BY <2>1, <1>1, <1>2, <1>3 DEF Foldable
<1>6. PICK it \in [SUBSET (1..n) -> V] : IsFold(F, NothingCut, s, n, it)
  <2> HIDE DEF F, n, V, W
  <2> QED
    BY <1>5, FoldExists
<1>7. it = rec(it)
  <2> HIDE DEF F, V, W
  <2>1. ASSUME NEW S \in SUBSET (1..n), S # {}
        PROVE  it[S] = Add(t, it[S \ {Max(S)}], s[Max(S)])
    <3>1. it[S \ {Max(S)}] \in V /\ s[Max(S)] \in W
      BY <2>1, <1>4, <1>6, <1>1
    <3> QED
      BY <2>1, <1>6, <3>1, <1>2 DEF IsFold
  <2>2. it[{}] = NothingCut
    BY <1>6 DEF IsFold
  <2> QED
    BY <1>1, <2>1, <2>2
<1>8. c = rec(c)
  <2> HIDE DEF rec
  <2> QED
    BY <1>7
<1> HIDE DEF c
<1>10. c[{}] = NothingCut
  BY <1>1, <1>8
<1>11. \A S \in SUBSET (1..n) :
         S # {} => c[S] = Add(t, c[S \ {Max(S)}], s[Max(S)])
  BY <1>1, <1>8
<1>12. Advances(V, F, NothingCut, s, n, c)
  <2> HIDE DEF F, n, V, W
  <2> QED
    BY <1>1, <1>2, <1>4, <1>10, <1>11 DEF Advances
<1> HIDE DEF F, rec
<1>13. PICK G : Reaches(V, F, NothingCut, s, n, G) /\ G[n] = c[1..n]
  <2> HIDE DEF n, V, W
  <2> QED
    BY <1>5, <1>12, FoldSteps
<1> DEFINE T == {k \in 0..n : Joined(G[k]) = FlattenSeq(SubSeq(s, 1, k))}
<1>14. 0 \in T
  <2>1. SubSeq(s, 1, 0) = <<>>
    BY SubSeqEmpty
  <2>2. G[0] = NothingCut
    BY <1>13 DEF Reaches
  <2>3. Joined(NothingCut) = <<>>
    BY NothingJoined
  <2>4. Joined(G[0]) = FlattenSeq(SubSeq(s, 1, 0))
    BY <2>1, <2>2, <2>3, FlattenEmpty
  <2>5. 0 \in 0..n
    BY <1>1
  <2> HIDE DEF n
  <2> QED
    BY <2>4, <2>5
<1>15. ASSUME NEW k \in 1..n, k - 1 \in T PROVE k \in T
  <2>1. k \in 0..n /\ k - 1 \in 0..n /\ s[k] \in W
    BY <1>1
  <2> DEFINE v == SubSeq(s, 1, k - 1)
             w == SubSeq(s, 1, k)
             p == G[k - 1]
             x == s[k]
  <2>2. Joined(p) = FlattenSeq(v)
    BY <1>15
  <2>3. v \in Seq(W) /\ w = Append(v, x)
    BY <1>0, PrefixGrows DEF Lists
  <2>4. p \in V /\ G[k] = F[<<p, x>>]
    <3> HIDE DEF n, V, W
    <3> QED
      BY <2>1, <1>13 DEF Reaches
  <2> HIDE DEF n, V, v, w, p, x, T
  <2>5. FlattenSeq(w) = FlattenSeq(v) \o x
    BY <2>1, <2>3, FlattenAppend DEF x
  <2> HIDE DEF W
  <2>6. x \in W
    BY <2>1 DEF x
  <2>7. G[k] = Add(t, p, x)
    BY <2>4, <2>6, <1>2
  <2>8. Joined(Add(t, p, x)) = Joined(p) \o x
    BY <2>4, <2>6, <1>3
  <2>9. Joined(G[k]) = FlattenSeq(w)
    BY <2>2, <2>5, <2>7, <2>8
  <2> QED
    BY <2>1, <2>9 DEF T, w
<1>16. n \in T /\ n \in 0..n
  <2>1. n \in 0..n
    BY <1>1
  <2> HIDE DEF T, n
  <2> QED
    BY <2>1, <1>1, <1>14, <1>15, UpTo
<1>17. Joined(G[n]) = FirstWords(Len(t))
  <2>1. SubSeq(s, 1, n) = s
    BY <1>0, SubSeqFull DEF Lists
  <2> QED
    BY <1>0, <1>16, <2>1
<1>18. G[n] \in FitCuts(t)
  <2> HIDE DEF n, T
  <2> QED
    BY <1>16, <1>13 DEF Reaches
<1> HIDE DEF n, W, V, T
<1> QED
  BY <1>1, <1>9, <1>13, <1>17, <1>18, FlushDivides

LEMMA ChunksDivide ==
    ASSUME NEW t \in Seq(Token)
    PROVE  Divides(t, Chunks(t), FirstWords(Len(t)))
<1>1. Divides(t, SplitText(t), FirstWords(Len(t)))
  BY SplitDivides
<1>2. CASE SplitText(t) = <<>>
  <2>1. FirstWords(Len(t)) = <<>> /\ Len(t) \in Nat
    BY <1>1, <1>2, FlattenEmpty, LenProperties DEF Divides
  <2>2. Len(t) = 0
    <3>1. Len(FirstWords(Len(t))) = Len(t)
      BY <2>1 DEF FirstWords
    <3> QED
      BY <2>1, <3>1
  <2>3. t = <<>>
    BY <2>2, EmptySeq
  <2> DEFINE d == Append(<<>>, t)
  <2>4. <<>> \in Lists(1..Len(t)) /\ t \in Seq(1..Len(t))
    BY <2>3, EmptySeq DEF Lists
  <2>5. d \in Lists(1..Len(t)) /\ FlattenSeq(d) = FlattenSeq(<<>>) \o t
    BY <2>4, AppendProperties, FlattenAppend DEF Lists
  <2>6. <<>> \o <<>> = <<>>
    BY EmptySeq, ConcatEmptySeq
  <2>7. FlattenSeq(d) = FirstWords(Len(t))
    BY <2>1, <2>3, <2>5, <2>6, FlattenEmpty
  <2>8. \A i \in 1..Len(d) : Fits(t, d[i])
    BY <2>2 DEF Fits
  <2>9. Chunks(t) = d
    BY <1>2 DEF Chunks
  <2> QED
    BY <2>5, <2>7, <2>8, <2>9 DEF Divides
<1>3. CASE SplitText(t) # <<>>
  BY <1>1, <1>3 DEF Chunks
<1> QED
  BY <1>2, <1>3

\* The chunks of a text of any length are its tokens, each once and in order:
\* neither the cut into sentences nor the packing up to chunkTarget loses a word,
\* repeats one or moves it (splitText).
THEOREM SplitTextKeepsWords == SplitKeepsWords
<1> SUFFICES ASSUME NEW t \in Texts
             PROVE  /\ Chunks(t) \in Seq(Seq(1..Len(t)))
                    /\ FlattenSeq(Chunks(t)) = [i \in 1..Len(t) |-> i]
  BY DEF SplitKeepsWords
<1>1. t \in Seq(Token)
  BY SayAssumption
<1>2. Divides(t, Chunks(t), FirstWords(Len(t)))
  BY <1>1, ChunksDivide
<1> QED
  BY <1>2 DEF Divides, Lists, FirstWords

\* Every chunk that is synthesized stays under chunkHardCap, unless it is one long
\* word, for a text of any length and any target under the cap.
THEOREM ChunksFitAlways == Spec => []ChunksFit
<1>1. IInv => ChunksFit
  <2> SUFFICES ASSUME IInv, NEW i \in Parts, Len(chunks[i]) > 1
               PROVE  Length(text, chunks[i]) <= ChunkHardCap
    BY DEF ChunksFit
  <2>1. text \in Seq(Token) /\ chunks = Chunks(text)
    BY SayAssumption DEF IInv, Typed
  <2>2. Divides(text, chunks, FirstWords(Len(text)))
    BY <2>1, ChunksDivide
  <2> QED
    BY <2>2 DEF Divides, Fits, Parts
<1> QED
  BY <1>1, IInvAlways, PTL

-----------------------------------------------------------------------------
(***************************************************************************)
(* The note.  Neither the goroutines nor the joining lose a chunk or       *)
(* change the order.                                                       *)
(***************************************************************************)

\* With every WAV in its place the joined file plays the whole text.
LEMMA SpokenInOrder ==
    ASSUME Typed, Tidy, Readable
    PROVE  Spoken = [i \in 1..Len(text) |-> i]
<1>1. \A i \in Parts : wavs[i] = i /\ wavs[i] # NoWav
  BY PartsPositive DEF Readable, Tidy, Typed
<1>2. chunks \in Seq(Seq(1..Len(text))) /\ FlattenSeq(chunks) = [i \in 1..Len(text) |-> i]
  BY SplitTextKeepsWords DEF SplitKeepsWords, Typed
<1>3. [i \in Parts |-> IF wavs[i] = NoWav THEN <<>> ELSE chunks[wavs[i]]] = chunks
  BY <1>1, <1>2 DEF Parts
<1> QED
  BY <1>2, <1>3 DEF Spoken

\* What is delivered was readable, and what the user heard is the text.
Whole == /\ pc = "deliver" => Readable
         /\ SpokenWhole

LEMMA WholeInit == Init => Whole
  BY DEF Init, Whole, SpokenWhole

LEMMA WholeStep ==
    ASSUME IInv, Whole, [Next]_vars
    PROVE  Whole'
<1>1. ASSUME Deliver PROVE Whole'
  <2>1. Spoken = [i \in 1..Len(text) |-> i]
    BY <1>1, SpokenInOrder DEF Deliver, Whole, IInv
  <2> QED
    BY <1>1, <2>1 DEF Deliver, Whole, SpokenWhole
<1>2. ASSUME Transcode PROVE Whole'
  <2>1. Readable' <=> Readable
    BY <1>2 DEF Transcode, Readable, Parts
  <2> QED
    BY <1>2, <2>1 DEF Transcode, Whole, SpokenWhole
<1>3. ASSUME pc' # "deliver", UNCHANGED <<text, note>> PROVE Whole'
  BY <1>3 DEF Whole, SpokenWhole
<1>4. ASSUME UNCHANGED <<text, chunks, pc, wavs, files, note>> PROVE Whole'
  BY <1>4 DEF Whole, SpokenWhole, Readable, Parts
<1>5. ASSUME NEW i \in Parts, Goroutine(i) PROVE Whole'
  <2>1. pc # "deliver"
    BY <1>5 DEF IInv, Tidy, Gathered, Goroutine, Acquire, Abandon, Attempt, Synthesized,
                NoAudio, Fail, Cancel
  <2>2. UNCHANGED <<text, pc, note>>
    BY <1>5 DEF Goroutine, Acquire, Abandon, Attempt, Synthesized, NoAudio, Fail, Cancel
  <2> QED
    BY <1>3, <2>1, <2>2
<1>6. ASSUME Begin \/ Gather \/ Join \/ Cleanup PROVE Whole'
  <2>1. pc' # "deliver" /\ UNCHANGED <<text, note>>
    BY <1>6 DEF Begin, Gather, Join, Cleanup
  <2> QED
    BY <1>3, <2>1
<1>7. ASSUME EndContext PROVE Whole'
  BY <1>7, <1>4 DEF EndContext
<1>8. CASE UNCHANGED vars
  BY <1>8, <1>4 DEF vars
<1> QED
  BY <1>1, <1>2, <1>5, <1>6, <1>7, <1>8 DEF Next, Say

\* The user hears the whole text in order or nothing, whatever fails and whoever
\* hangs up.
THEOREM SpokenWholeAlways == Spec => []SpokenWhole
<1>1. IInv /\ Whole /\ [Next]_vars => Whole'
  BY WholeStep
<1>2. Whole => SpokenWhole
  BY DEF Whole
<1> QED
  BY <1>1, <1>2, WholeInit, IInvAlways, PTL DEF Spec

-----------------------------------------------------------------------------
(***************************************************************************)
(* Type correctness.                                                       *)
(***************************************************************************)
LEMMA TypeInit == ASSUME Init PROVE TypeOK
<1>1. chunks \in Seq(Seq(1..Len(text))) /\ Len(text) \in Nat /\ 1 \in 1..MaxAttempts
  BY SayAssumption, LenProperties, SplitTextKeepsWords DEF Init, SplitKeepsWords
<1>2. NoNote \in Seq(0..Len(text))
  BY <1>1 DEF NoNote
<1> QED
  BY <1>1, <1>2 DEF Init, TypeOK, NoWav

LEMMA TypeStep ==
    ASSUME IInv, Whole, TypeOK, [Next]_vars
    PROVE  TypeOK'
<1>a. ASSUME UNCHANGED chunks PROVE Parts' = Parts
  BY <1>a DEF Parts
<1> USE <1>a DEF TypeOK
<1>1. ASSUME NEW i \in Parts, NoAudio(i) PROVE TypeOK'
  <2>1. attempt' \in [Parts -> 1..MaxAttempts]
    <3>1. CASE attempt[i] < MaxAttempts
      <4>1. attempt[i] + 1 \in 1..MaxAttempts
        BY <3>1, SayAssumption
      <4> QED
        BY <1>1, <3>1, <4>1 DEF NoAudio
    <3>2. CASE ~(attempt[i] < MaxAttempts)
      BY <1>1, <3>2 DEF NoAudio
    <3> QED
      BY <3>1, <3>2
  <2>2. g' \in [Parts -> {"queued", "attempt", "calling", "failing", "cancelling", "done"}]
    BY <1>1 DEF NoAudio, Goto
  <2> QED
    BY <1>1, <2>1, <2>2 DEF NoAudio
<1>2. ASSUME NEW i \in Parts, Goroutine(i), ~NoAudio(i) PROVE TypeOK'
  <2>1. CASE Acquire(i) \/ Abandon(i) \/ Attempt(i)
    BY <2>1 DEF Acquire, Abandon, Attempt, Goto
  <2>2. CASE Synthesized(i)
    BY <2>2 DEF Synthesized, Goto
  <2>3. CASE Fail(i) \/ Cancel(i)
    BY <2>3 DEF Fail, Cancel, Goto
  <2> QED
    BY <1>2, <2>1, <2>2, <2>3 DEF Goroutine
<1>3. ASSUME Deliver PROVE TypeOK'
  <2>1. Spoken = [i \in 1..Len(text) |-> i]
    BY <1>3, SpokenInOrder DEF Deliver, Whole, IInv
  <2>2. Len(text) \in Nat
    BY SayAssumption, LenProperties
  <2>3. Spoken \in Seq(0..Len(text))
    BY <2>1, <2>2
  <2> QED
    BY <1>3, <2>3 DEF Deliver
<1>4. ASSUME Begin \/ Gather \/ Join \/ Transcode \/ Cleanup \/ EndContext PROVE TypeOK'
  BY <1>4 DEF Begin, Gather, Join, Transcode, Cleanup, EndContext
<1>5. CASE UNCHANGED vars
  BY <1>5 DEF vars
<1> QED
  BY <1>1, <1>2, <1>3, <1>4, <1>5 DEF Next, Say

\* Every step keeps the types of Say's state.
THEOREM TypeCorrect == Spec => []TypeOK
<1>1. Init => IInv /\ Whole /\ TypeOK
  BY TypeInit, IInvInit, WholeInit
<1>2. IInv /\ Whole /\ TypeOK /\ [Next]_vars => (IInv /\ Whole /\ TypeOK)'
  BY TypeStep, IInvStep, WholeStep
<1> QED
  BY <1>1, <1>2, PTL DEF Spec

=============================================================================
