---------------------------- MODULE SequenceFolds ----------------------------
(***************************************************************************)
(* What the folds of the community modules compute: the modules about the  *)
(* text of a voice note and the text of an answer write the loops of the   *)
(* code over lines, words and sentences with FoldLeft and FlattenSeq, and  *)
(* their proofs follow such a loop element by element.                     *)
(*                                                                         *)
(* A fold is a CHOOSE of a function on the subsets of 1..n that satisfies  *)
(* a recursion.  FoldExists shows that there is such a function when the   *)
(* step F stays in a set V of values, and FoldSteps that any function that *)
(* goes on with F reaches the value after k elements from the value after  *)
(* k - 1.  Both are inductions, which Least reduces to the least number    *)
(* principle.                                                              *)
(***************************************************************************)
EXTENDS Integers, Sequences, SequencesExt, SequenceTheorems, WellFoundedInduction, TLAPS

\* The numbers below another.
Below == {ss \in Nat \X Nat : ss[1] < ss[2]}

LEMMA Least ==
    ASSUME NEW T, T \subseteq Nat, T # {}
    PROVE  \E m \in T : \A n \in T : m <= n
<1>1. IsWellFoundedOn(Below, Nat)
  BY NatLessThanWellFounded DEF OpToRel, Below
<1>2. PICK m \in T : \A n \in T : ~(<<n, m>> \in Below)
  BY <1>1, WFMin
<1>3. ASSUME NEW n \in T PROVE m <= n
  <2>1. n \in Nat /\ m \in Nat
    OBVIOUS
  <2>2. n < m => <<n, m>> \in Below
    BY <2>1 DEF Below
  <2> QED
    BY <1>2, <2>1, <2>2
<1> QED
  BY <1>3

LEMMA Induction ==
    ASSUME NEW S, 0 \in S, \A n \in Nat : n \in S => n + 1 \in S
    PROVE  Nat \subseteq S
<1> SUFFICES ASSUME Nat \ S # {} PROVE FALSE
  OBVIOUS
<1>1. PICK m \in Nat \ S : \A n \in Nat \ S : m <= n
  BY Least
<1>2. m - 1 \in Nat /\ m - 1 \in S
  BY <1>1
<1> QED
  BY <1>1, <1>2

\* The greatest of some numbers up to n.
LEMMA MaxUpTo ==
    ASSUME NEW n \in Nat, NEW S \in SUBSET (1..n), S # {}
    PROVE  Max(S) \in S /\ \A y \in S : Max(S) >= y
<1> DEFINE T == {i \in Nat : \E y \in S : i = n - y}
<1>1. T \subseteq Nat /\ T # {}
  <2>1. PICK y \in S : TRUE
    OBVIOUS
  <2>2. n - y \in T
    OBVIOUS
  <2> QED
    BY <2>2
<1>2. PICK m \in T : \A i \in T : m <= i
  BY <1>1, Least
<1>3. PICK x \in S : m = n - x
  BY <1>2
<1>4. ASSUME NEW y \in S PROVE x >= y
  <2>1. n - y \in T
    OBVIOUS
  <2> QED
    BY <2>1, <1>2, <1>3
<1> QED
  BY <1>3, <1>4 DEF Max

LEMMA MaxPrefix == ASSUME NEW n \in Nat \ {0} PROVE Max(1..n) = n
<1>1. Max(1..n) \in 1..n /\ Max(1..n) >= n
  BY MaxUpTo, n \in 1..n
<1> QED
  BY <1>1

\* it folds the step function F over a sequence of length m.
IsFold(F, b, sq, m, it) ==
    \A S \in SUBSET (1..m) :
       it[S] = IF S = {} THEN b ELSE F[<<it[S \ {Max(S)}], sq[Max(S)]>>]

LEMMA FoldsNone ==
    ASSUME NEW V, NEW F, NEW b \in V, NEW sq
    PROVE  \E it \in [SUBSET (1..0) -> V] : IsFold(F, b, sq, 0, it)
<1>1. 1..0 = {}
  OBVIOUS
<1>2. SUBSET {} = {{}}
  OBVIOUS
<1> DEFINE it == [S \in {{}} |-> b]
<1>3. it \in [{{}} -> V] /\ it[{}] = b
  OBVIOUS
<1> HIDE DEF it
<1>4. IsFold(F, b, sq, 0, it)
  BY <1>1, <1>2, <1>3 DEF IsFold
<1>5. it \in [SUBSET (1..0) -> V]
  BY <1>1, <1>2, <1>3
<1> QED
  BY <1>4, <1>5

LEMMA FoldsNext ==
    ASSUME NEW V, NEW X, NEW F, NEW b \in V, NEW m \in Nat, NEW sq, sq[m + 1] \in X,
           \A v \in V, x \in X : F[<<v, x>>] \in V,
           NEW it \in [SUBSET (1..m) -> V], IsFold(F, b, sq, m, it)
    PROVE  \E jt \in [SUBSET (1..(m + 1)) -> V] : IsFold(F, b, sq, m + 1, jt)
<1> DEFINE k == m + 1
           value(S) == IF k \in S THEN F[<<it[S \ {k}], sq[k]>>] ELSE it[S]
           jt == [S \in SUBSET (1..k) |-> value(S)]
<1>1. \A S \in SUBSET (1..k) : k \notin S => S \in SUBSET (1..m)
  OBVIOUS
<1>2. \A S \in SUBSET (1..k) : S \ {k} \in SUBSET (1..m)
  OBVIOUS
<1>3. k \in Nat /\ sq[k] \in X
  OBVIOUS
<1> HIDE DEF k
<1>4. ASSUME NEW S \in SUBSET (1..k) PROVE value(S) \in V
  <2>1. it[S \ {k}] \in V
    BY <1>2
  <2>2. F[<<it[S \ {k}], sq[k]>>] \in V
    BY <2>1, <1>3
  <2> QED
    BY <2>2, <1>1
<1>5. jt \in [SUBSET (1..k) -> V]
  BY <1>4
<1>6. \A S \in SUBSET (1..k) : jt[S] = value(S)
  OBVIOUS
<1> HIDE DEF jt
<1>7. ASSUME NEW S \in SUBSET (1..k)
      PROVE  jt[S] = IF S = {} THEN b ELSE F[<<jt[S \ {Max(S)}], sq[Max(S)]>>]
  <2>1. CASE k \in S
    <3>1. Max(S) = k
      <4>1. S # {}
        BY <2>1
      <4>2. Max(S) \in S /\ Max(S) >= k
        BY <2>1, <4>1, <1>3, MaxUpTo
      <4>3. Max(S) \in 1..k
        BY <4>2
      <4> QED
        BY <4>2, <4>3, <1>3
    <3>2. jt[S \ {k}] = it[S \ {k}]
      BY <1>6, <1>2
    <3>3. jt[S] = F[<<it[S \ {k}], sq[k]>>]
      BY <2>1, <1>6
    <3> QED
      BY <2>1, <3>1, <3>2, <3>3
  <2>2. CASE k \notin S
    <3>1. S \in SUBSET (1..m)
      BY <2>2, <1>1
    <3>2. jt[S] = it[S]
      BY <2>2, <1>6
    <3>3. jt[S \ {Max(S)}] = it[S \ {Max(S)}]
      <4>1. S \ {Max(S)} \in SUBSET (1..k) /\ k \notin S \ {Max(S)}
        BY <2>2
      <4> QED
        BY <4>1, <1>6
    <3>4. it[S] = IF S = {} THEN b ELSE F[<<it[S \ {Max(S)}], sq[Max(S)]>>]
      BY <3>1 DEF IsFold
    <3> QED
      BY <3>2, <3>3, <3>4
  <2> QED
    BY <2>1, <2>2
<1>8. IsFold(F, b, sq, k, jt)
  BY <1>7 DEF IsFold
<1> QED
  BY <1>5, <1>8 DEF k

\* F can be folded over the n elements of sq, from b.
Foldable(V, X, F, b, sq, n) ==
    /\ b \in V /\ n \in Nat
    /\ \A i \in 1..n : sq[i] \in X
    /\ \A v \in V, x \in X : F[<<v, x>>] \in V

LEMMA FoldExists ==
    ASSUME NEW V, NEW X, NEW F, NEW b, NEW n, NEW sq, Foldable(V, X, F, b, sq, n)
    PROVE  \E it \in [SUBSET (1..n) -> V] : IsFold(F, b, sq, n, it)
<1> USE DEF Foldable
<1> DEFINE has(m) == \E it \in [SUBSET (1..m) -> V] : IsFold(F, b, sq, m, it)
           T == {m \in Nat : m <= n => has(m)}
<1>1. has(0)
  BY FoldsNone
<1>2. ASSUME NEW m \in Nat, m + 1 <= n, has(m) PROVE has(m + 1)
  <2>1. PICK it \in [SUBSET (1..m) -> V] : IsFold(F, b, sq, m, it)
    BY <1>2
  <2>2. sq[m + 1] \in X
    BY <1>2
  <2> HIDE DEF has
  <2>3. \E jt \in [SUBSET (1..(m + 1)) -> V] : IsFold(F, b, sq, m + 1, jt)
    BY <2>1, <2>2, FoldsNext
  <2> QED
    BY <2>3 DEF has
<1>3. has(n)
  <2> HIDE DEF has
  <2>1. 0 \in T
    BY <1>1
  <2>2. ASSUME NEW m \in Nat, m \in T PROVE m + 1 \in T
    BY <2>2, <1>2
  <2>3. n \in T
    <3> HIDE DEF T
    <3> QED
      BY <2>1, <2>2, Induction
  <2> QED
    BY <2>3
<1> QED
  BY <1>3

-----------------------------------------------------------------------------
LEMMA UpTo ==
    ASSUME NEW n \in Nat, NEW S, 0 \in S, \A k \in 1..n : k - 1 \in S => k \in S
    PROVE  \A k \in 0..n : k \in S
<1> DEFINE T == {k \in Nat : k <= n => k \in S}
<1>1. 0 \in T
  OBVIOUS
<1>2. ASSUME NEW k \in Nat, k \in T PROVE k + 1 \in T
  <2> SUFFICES ASSUME k + 1 <= n PROVE k + 1 \in S
    OBVIOUS
  <2>1. k + 1 \in 1..n /\ (k + 1) - 1 = k /\ k \in S
    BY <1>2
  <2> QED
    BY <2>1
<1> HIDE DEF T
<1>3. Nat \subseteq T
  BY <1>1, <1>2, Induction
<1> QED
  BY <1>3 DEF T

\* The sets 1..k, which a fold from the left goes through.
LEMMA FirstNumbers ==
    ASSUME NEW n \in Nat, NEW k \in 1..n
    PROVE  /\ (1..k) \in SUBSET (1..n)
           /\ (1..k) # {}
           /\ Max(1..k) = k
           /\ (1..k) \ {k} = 1..(k - 1)
<1>1. (1..k) # {}
  BY k \in 1..k
<1>2. Max(1..k) = k
  BY MaxPrefix
<1>3. (1..k) \in SUBSET (1..n)
  OBVIOUS
<1>4. (1..k) \ {k} = 1..(k - 1)
  OBVIOUS
<1> QED
  BY <1>1, <1>2, <1>3, <1>4

\* c goes on with F from the values that are in V.
Advances(V, F, b, sq, n, c) ==
    /\ c[{}] = b
    /\ \A S \in SUBSET (1..n) :
          S # {} /\ c[S \ {Max(S)}] \in V
             => c[S] = F[<<c[S \ {Max(S)}], sq[Max(S)]>>]

\* G[k] is the value after k elements of sq.
Reaches(V, F, b, sq, n, G) ==
    /\ G \in [0..n -> V] /\ G[0] = b
    /\ \A k \in 1..n : G[k] = F[<<G[k - 1], sq[k]>>]

\* What a fold c has reached after each element of sq.
LEMMA FoldSteps ==
    ASSUME NEW V, NEW X, NEW F, NEW b, NEW n, NEW sq, NEW c,
           Foldable(V, X, F, b, sq, n), Advances(V, F, b, sq, n, c)
    PROVE  \E G : Reaches(V, F, b, sq, n, G) /\ G[n] = c[1..n]
<1> DEFINE T == {k \in 0..n : c[1..k] \in V}
           G == [k \in 0..n |-> c[1..k]]
<1> USE DEF Foldable
<1>1. 1..0 = {} /\ 0 \in 0..n /\ n \in 0..n
  OBVIOUS
<1>2. ASSUME NEW k \in 1..n, c[1..(k - 1)] \in V
      PROVE  c[1..k] = F[<<c[1..(k - 1)], sq[k]>>] /\ c[1..k] \in V
  <2>1. (1..k) \in SUBSET (1..n) /\ (1..k) # {} /\ Max(1..k) = k /\ (1..k) \ {k} = 1..(k - 1)
    BY FirstNumbers
  <2>2. c[(1..k) \ {Max(1..k)}] \in V
    BY <2>1, <1>2
  <2>3. c[1..k] = F[<<c[(1..k) \ {Max(1..k)}], sq[Max(1..k)]>>]
    BY <2>1, <2>2 DEF Advances
  <2> QED
    BY <2>1, <2>3, <1>2
<1>3. \A k \in 0..n : k \in T
  <2>1. 0 \in T
    BY <1>1 DEF Advances
  <2>2. ASSUME NEW k \in 1..n, k - 1 \in T PROVE k \in T
    <3>1. c[1..(k - 1)] \in V
      BY <2>2
    <3>2. c[1..k] \in V
      BY <3>1, <1>2
    <3>3. k \in 0..n
      OBVIOUS
    <3> QED
      BY <3>2, <3>3
  <2> HIDE DEF T
  <2> QED
    BY <2>1, <2>2, UpTo
<1>4. G \in [0..n -> V]
  BY <1>3
<1>5. G[0] = b /\ G[n] = c[1..n]
  BY <1>1 DEF Advances
<1>6. ASSUME NEW k \in 1..n PROVE G[k] = F[<<G[k - 1], sq[k]>>]
  <2>1. k \in 0..n /\ k - 1 \in 0..n
    OBVIOUS
  <2>2. c[1..(k - 1)] \in V
    BY <2>1, <1>3
  <2> QED
    BY <2>1, <2>2, <1>2
<1> HIDE DEF G
<1> QED
  BY <1>4, <1>5, <1>6 DEF Reaches

LEMMA FoldValues ==
    ASSUME NEW V, NEW X, NEW F, NEW b, NEW n, NEW sq, Foldable(V, X, F, b, sq, n)
    PROVE  \E G : Reaches(V, F, b, sq, n, G)
<1>1. PICK it \in [SUBSET (1..n) -> V] : IsFold(F, b, sq, n, it)
  BY FoldExists
<1>2. n \in Nat
  BY DEF Foldable
<1>3. Advances(V, F, b, sq, n, it)
  BY <1>1, <1>2 DEF IsFold, Advances
<1> QED
  BY <1>3, FoldSteps

\* A sequence grows by one element.
LEMMA PrefixGrows ==
    ASSUME NEW S, NEW s \in Seq(S), NEW k \in 1..Len(s)
    PROVE  /\ SubSeq(s, 1, k - 1) \in Seq(S)
           /\ SubSeq(s, 1, k) = Append(SubSeq(s, 1, k - 1), s[k])
           /\ SubSeq(s, 1, k) = SubSeq(s, 1, k - 1) \o <<s[k]>>
           /\ s[k] \in S
<1>1. 1 \in 1..Len(s) /\ k \in 1..Len(s) /\ k - 1 \in Int /\ Len(s) \in Nat
  OBVIOUS
<1>2. SubSeq(s, 1, k) = SubSeq(s, 1, k - 1) \o <<s[k]>>
  BY <1>1, SubSeqRecursiveSecond
<1>3. \A i \in 1..(k - 1) : s[i] \in S
  BY ElementOfSeq
<1>4. SubSeq(s, 1, k - 1) \in Seq(S)
  BY <1>1, <1>3, SubSeqProperties
<1>5. s[k] \in S
  BY ElementOfSeq
<1> QED
  BY <1>2, <1>4, <1>5, AppendIsConcat

\* G[k] is what the first k sequences of seqs hold.
Flattens(seqs, W, G) ==
    /\ G \in [0..Len(seqs) -> Seq(W)] /\ G[0] = <<>> /\ G[Len(seqs)] = FlattenSeq(seqs)
    /\ \A k \in 1..Len(seqs) : G[k] = G[k - 1] \o seqs[k]

LEMMA FlattenExists ==
    ASSUME NEW W, NEW seqs \in Seq(Seq(W))
    PROVE  \E G : Flattens(seqs, W, G)
<1> DEFINE n == Len(seqs)
           F == [vx \in Seq(W) \X Seq(W) |-> vx[1] \o vx[2]]
<1>1. n \in Nat /\ \A i \in 1..n : seqs[i] \in Seq(W)
  BY ElementOfSeq
<1>2. \A v \in Seq(W), x \in Seq(W) : F[<<v, x>>] = v \o x
  OBVIOUS
<1>3. \A v \in Seq(W), x \in Seq(W) : v \o x \in Seq(W)
  BY ConcatProperties
<1>4. Foldable(Seq(W), Seq(W), F, <<>>, seqs, n)
  <2> HIDE DEF F, n
  <2>1. <<>> \in Seq(W)
    BY EmptySeq
  <2> QED
    BY <2>1, <1>1, <1>2, <1>3 DEF Foldable
<1>5. PICK G : Reaches(Seq(W), F, <<>>, seqs, n, G)
  <2> HIDE DEF F, n
  <2> QED
    BY <1>4, FoldValues
<1>6. ASSUME NEW k \in 1..n
      PROVE  G[k] = G[k - 1] \o seqs[k] /\ G[k - 1] \in Seq(W) /\ G[k] \in Seq(W)
  <2> HIDE DEF F
  <2>1. k - 1 \in 0..n /\ k \in 0..n
    BY <1>1
  <2> HIDE DEF n
  <2>2. G[k - 1] \in Seq(W) /\ G[k] \in Seq(W)
    BY <2>1, <1>5 DEF Reaches
  <2>3. G[k] = F[<<G[k - 1], seqs[k]>>]
    BY <1>5 DEF Reaches
  <2> QED
    BY <2>2, <2>3, <1>1, <1>2
<1>7. G \in [0..n -> Seq(W)] /\ G[0] = <<>>
  BY <1>5 DEF Reaches
<1> HIDE DEF F
<1>8. G[n] = FlattenSeq(seqs)
  <2>1. CASE n = 0
    <3>1. seqs = <<>>
      BY <2>1
    <3> QED
      BY <2>1, <3>1, <1>7 DEF FlattenSeq
  <2>2. CASE n # 0
    <3> DEFINE rec(f) == [i \in 1..Len(seqs) |-> IF i = 1 THEN seqs[i] ELSE f[i-1] \o seqs[i]]
               h == CHOOSE f : f = rec(f)
               f == [i \in 1..n |-> G[i]]
    <3>1. f = rec(f)
      <4>1. ASSUME NEW i \in 1..n
            PROVE  G[i] = IF i = 1 THEN seqs[i] ELSE f[i - 1] \o seqs[i]
        <5>1. CASE i = 1
          <6>1. G[1] = <<>> \o seqs[1] /\ seqs[1] \in Seq(W)
            <7>1. 1 \in 1..n /\ 1 - 1 = 0
              BY <5>1
            <7>2. G[1] = G[1 - 1] \o seqs[1] /\ seqs[1] \in Seq(W)
              BY <7>1, <1>6, <1>1
            <7> QED
              BY <7>1, <7>2, <1>7
          <6>2. <<>> \o seqs[1] = seqs[1]
            BY <6>1, ConcatEmptySeq
          <6> QED
            BY <5>1, <6>1, <6>2
        <5>2. CASE i # 1
          <6>1. i - 1 \in 1..n
            BY <5>2, <1>1
          <6>2. f[i - 1] = G[i - 1]
            BY <6>1
          <6> QED
            BY <5>2, <6>2, <1>6
        <5> QED
          BY <5>1, <5>2
      <4> QED
        BY <4>1
    <3>2. h = rec(h)
      <4> HIDE DEF rec, f
      <4> QED
        BY <3>1
    <3>3. FlattenSeq(seqs) = h[n]
      BY <2>2 DEF FlattenSeq
    <3> HIDE DEF h
    <3>4. \A i \in 1..n : h[i] = IF i = 1 THEN seqs[i] ELSE h[i - 1] \o seqs[i]
      BY <3>2
    <3> DEFINE T == {k \in 0..n : k = 0 \/ h[k] = G[k]}
    <3>5. \A k \in 0..n : k \in T
      <4>1. 0 \in T
        BY <1>1
      <4>2. ASSUME NEW k \in 1..n, k - 1 \in T PROVE k \in T
        <5>1. CASE k = 1
          <6>1. f[1] = G[1] /\ f[1] = seqs[1]
            BY <5>1, <3>1
          <6>2. h[1] = seqs[1]
            BY <5>1, <3>4
          <6> QED
            BY <5>1, <6>1, <6>2
        <5>2. CASE k # 1
          <6>1. h[k - 1] = G[k - 1]
            BY <5>2, <4>2
          <6>2. h[k] = h[k - 1] \o seqs[k]
            BY <5>2, <3>4
          <6>3. h[k] = G[k]
            BY <6>1, <6>2, <1>6
          <6> QED
            BY <6>3
        <5> QED
          BY <5>1, <5>2
      <4> HIDE DEF T, n
      <4> QED
        BY <4>1, <4>2, <1>1, UpTo
    <3>6. n \in T
      <4> HIDE DEF T
      <4> QED
        BY <3>5, <1>1
    <3> QED
      BY <3>6, <3>3, <2>2
  <2> QED
    BY <2>1, <2>2
<1> QED
  BY <1>6, <1>7, <1>8 DEF Flattens

LEMMA FlattenEmpty == FlattenSeq(<<>>) = <<>>
  BY DEF FlattenSeq

LEMMA FlattenType ==
    ASSUME NEW W, NEW d \in Seq(Seq(W))
    PROVE  FlattenSeq(d) \in Seq(W)
<1>1. PICK G : Flattens(d, W, G)
  BY FlattenExists
<1>2. Len(d) \in 0..Len(d)
  BY LenProperties
<1> QED
  BY <1>1, <1>2 DEF Flattens

LEMMA FlattenAppend ==
    ASSUME NEW W, NEW d \in Seq(Seq(W)), NEW c \in Seq(W)
    PROVE  FlattenSeq(Append(d, c)) = FlattenSeq(d) \o c
<1> DEFINE n == Len(d)
           e == Append(d, c)
<1>1. /\ n \in Nat /\ e \in Seq(Seq(W)) /\ Len(e) = n + 1
      /\ e[n + 1] = c /\ \A i \in 1..n : e[i] = d[i]
  BY AppendProperties, LenProperties
<1> HIDE DEF e
<1>2. PICK G : Flattens(d, W, G)
  BY FlattenExists
<1>3. PICK H : Flattens(e, W, H)
  BY <1>1, FlattenExists
<1> DEFINE T == {k \in 0..n : H[k] = G[k]}
<1>4. 0 \in T
  BY <1>1, <1>2, <1>3 DEF Flattens
<1>5. ASSUME NEW k \in 1..n, k - 1 \in T PROVE k \in T
  <2>1. G[k] = G[k - 1] \o d[k]
    BY <1>2 DEF Flattens
  <2>2. k \in 1..Len(e)
    BY <1>1
  <2>3. H[k] = H[k - 1] \o e[k]
    BY <1>3, <2>2 DEF Flattens
  <2>4. H[k] = G[k]
    BY <2>1, <2>3, <1>1, <1>5
  <2> QED
    BY <2>4
<1>6. n \in T
  <2>1. n \in 0..n
    BY <1>1
  <2> HIDE DEF T, n
  <2> QED
    BY <2>1, <1>1, <1>4, <1>5, UpTo
<1>7. H[n + 1] = H[(n + 1) - 1] \o e[n + 1]
  <2>1. n + 1 \in 1..Len(e)
    BY <1>1
  <2> HIDE DEF n
  <2> QED
    BY <2>1, <1>3 DEF Flattens
<1>8. (n + 1) - 1 = n
  BY <1>1
<1> QED
  BY <1>1, <1>2, <1>3, <1>6, <1>7, <1>8 DEF Flattens, e

LEMMA ConcatGrows ==
    ASSUME NEW S, NEW s \in Seq(S), NEW u \in Seq(S), NEW k \in 1..Len(u)
    PROVE  s \o SubSeq(u, 1, k) = Append(s \o SubSeq(u, 1, k - 1), u[k])
<1>1. SubSeq(u, 1, k - 1) \in Seq(S) /\ u[k] \in S
  BY PrefixGrows
<1> DEFINE v == SubSeq(u, 1, k - 1)
<1>2. SubSeq(u, 1, k) = v \o <<u[k]>> /\ <<u[k]>> \in Seq(S)
  BY <1>1, PrefixGrows
<1> HIDE DEF v
<1>3. v \in Seq(S)
  BY <1>1 DEF v
<1>4. s \o (v \o <<u[k]>>) = (s \o v) \o <<u[k]>>
  BY <1>2, <1>3, ConcatAssociative
<1>5. s \o v \in Seq(S)
  BY <1>3, ConcatProperties
<1>6. Append(s \o v, u[k]) = (s \o v) \o <<u[k]>>
  BY <1>5, <1>1, AppendIsConcat
<1> QED
  BY <1>2, <1>4, <1>6 DEF v

LEMMA ConcatThree ==
    ASSUME NEW W, NEW a \in Seq(W), NEW b \in Seq(W), NEW c \in Seq(W)
    PROVE  (a \o b) \o c = a \o (b \o c)
  BY ConcatAssociative

\* Sequences of segments or of chunks.
Lists(W) == Seq(Seq(W))

LEMMA FlattenConcat ==
    ASSUME NEW W, NEW d \in Lists(W), NEW e \in Lists(W)
    PROVE  FlattenSeq(d \o e) = FlattenSeq(d) \o FlattenSeq(e)
<1> DEFINE n == Len(e)
           fd == FlattenSeq(d)
           T == {k \in 0..n : FlattenSeq(d \o SubSeq(e, 1, k))
                                = fd \o FlattenSeq(SubSeq(e, 1, k))}
<1>1. n \in Nat /\ n \in 0..n /\ SubSeq(e, 1, n) = e
  BY LenProperties, SubSeqFull DEF Lists
<1>2. fd \in Seq(W)
  BY FlattenType DEF Lists
<1> HIDE DEF fd
<1>3. 0 \in T
  <2>1. SubSeq(e, 1, 0) = <<>>
    BY SubSeqEmpty
  <2>2. d \o <<>> = d /\ fd \o <<>> = fd
    BY <1>2, ConcatEmptySeq DEF Lists
  <2>3. FlattenSeq(d \o SubSeq(e, 1, 0)) = fd \o FlattenSeq(SubSeq(e, 1, 0))
    BY <2>1, <2>2, FlattenEmpty DEF fd
  <2> QED
    BY <2>3, <1>1
<1>4. ASSUME NEW k \in 1..n, k - 1 \in T PROVE k \in T
  <2> DEFINE v == SubSeq(e, 1, k - 1)
             w == SubSeq(e, 1, k)
             fv == FlattenSeq(v)
  <2>1. v \in Seq(Seq(W)) /\ e[k] \in Seq(W) /\ w = Append(v, e[k])
    BY PrefixGrows DEF Lists
  <2>2. d \o w = Append(d \o v, e[k])
    BY ConcatGrows DEF Lists
  <2>3. FlattenSeq(d \o v) = fd \o fv
    BY <1>4
  <2> HIDE DEF v, w
  <2>4. d \o v \in Seq(Seq(W))
    BY <2>1, ConcatProperties DEF Lists
  <2>5. FlattenSeq(d \o w) = (fd \o fv) \o e[k]
    BY <2>1, <2>2, <2>3, <2>4, FlattenAppend
  <2>6. FlattenSeq(w) = fv \o e[k]
    BY <2>1, FlattenAppend
  <2>7. fv \in Seq(W)
    BY <2>1, FlattenType
  <2> HIDE DEF fv
  <2>8. (fd \o fv) \o e[k] = fd \o (fv \o e[k])
    <3> DEFINE c == e[k]
    <3>1. c \in Seq(W)
      BY <2>1
    <3> HIDE DEF c, n, T
    <3>2. (fd \o fv) \o c = fd \o (fv \o c)
      BY ConcatThree, <3>1, <2>7, <1>2
    <3> QED
      BY <3>2 DEF c
  <2>9. FlattenSeq(d \o w) = fd \o FlattenSeq(w)
    BY <2>5, <2>6, <2>8
  <2>10. k \in 0..n
    OBVIOUS
  <2> QED
    BY <2>9, <2>10 DEF w
<1>5. n \in T
  <2> HIDE DEF T, n
  <2> QED
    BY <1>1, <1>3, <1>4, UpTo
<1> QED
  BY <1>1, <1>5 DEF fd

\* One more sequence.
LEMMA FlattenOne ==
    ASSUME NEW W, NEW d \in Seq(Seq(W)), NEW k \in 1..Len(d)
    PROVE  FlattenSeq(SubSeq(d, 1, k)) = FlattenSeq(SubSeq(d, 1, k - 1)) \o d[k]
<1>1. SubSeq(d, 1, k) = Append(SubSeq(d, 1, k - 1), d[k])
  BY PrefixGrows
<1>2. SubSeq(d, 1, k - 1) \in Seq(Seq(W)) /\ d[k] \in Seq(W)
  BY PrefixGrows
<1> QED
  BY <1>1, <1>2, FlattenAppend

\* What the first k sequences hold, then what the others hold.
LEMMA FlattenSplit ==
    ASSUME NEW W, NEW d \in Seq(Seq(W)), NEW k \in 0..Len(d)
    PROVE  FlattenSeq(d) = FlattenSeq(SubSeq(d, 1, k)) \o FlattenSeq(SubSeq(d, k + 1, Len(d)))
<1> DEFINE n == Len(d)
           a == SubSeq(d, 1, k)
           b == SubSeq(d, k + 1, n)
<1>1. n \in Nat /\ k \in 0..n /\ \A i \in 1..n : d[i] \in Seq(W)
  BY LenProperties, ElementOfSeq
<1>2. a \o b = d
  <2>1. 1 \in 1..(n + 1) /\ k \in (1 - 1)..n /\ n \in k..n
    BY <1>1
  <2>2. a \o b = SubSeq(d, 1, n)
    BY <2>1, ConcatAdjacentSubSeq
  <2> QED
    BY <2>2, SubSeqFull
<1>3. a \in Seq(Seq(W))
  <2>1. \A i \in 1..k : d[i] \in Seq(W)
    BY <1>1
  <2> QED
    BY <2>1, <1>1, SubSeqProperties
<1>4. b \in Seq(Seq(W))
  <2>1. \A i \in (k + 1)..n : d[i] \in Seq(W)
    BY <1>1
  <2> QED
    BY <2>1, <1>1, SubSeqProperties
<1> HIDE DEF a, b, n
<1>5. FlattenSeq(a \o b) = FlattenSeq(a) \o FlattenSeq(b)
  BY <1>3, <1>4, FlattenConcat DEF Lists
<1> QED
  BY <1>2, <1>5 DEF a, b, n

\* Empty sequences hold nothing.
LEMMA FlattenBlank ==
    ASSUME NEW W, NEW d \in Seq(Seq(W)), \A i \in 1..Len(d) : d[i] = <<>>
    PROVE  FlattenSeq(d) = <<>>
<1> DEFINE n == Len(d)
<1>1. n \in Nat /\ n \in 0..n /\ 0 \in 0..n
  BY LenProperties
<1>2. PICK G : Flattens(d, W, G)
  BY FlattenExists
<1> DEFINE T == {k \in 0..n : G[k] = <<>>}
<1>3. 0 \in T
  BY <1>1, <1>2 DEF Flattens
<1>4. ASSUME NEW k \in 1..n, k - 1 \in T PROVE k \in T
  <2>1. G[k] = G[k - 1] \o d[k] /\ d[k] = <<>> /\ G[k - 1] = <<>>
    BY <1>2, <1>4 DEF Flattens
  <2>2. <<>> \o <<>> = <<>>
    BY EmptySeq, ConcatEmptySeq
  <2>3. k \in 0..n
    OBVIOUS
  <2> QED
    BY <2>1, <2>2, <2>3
<1>5. n \in T
  <2> HIDE DEF T, n
  <2> QED
    BY <1>1, <1>3, <1>4, UpTo
<1> QED
  BY <1>2, <1>5 DEF Flattens

\* A part of two sequences that agree up to its end.
LEMMA SamePrefix ==
    ASSUME NEW W, NEW s \in Seq(W), NEW u \in Seq(W), NEW k \in Nat, NEW a \in Nat \ {0},
           k <= Len(s), k <= Len(u), \A i \in 1..k : s[i] = u[i]
    PROVE  SubSeq(s, a, k) = SubSeq(u, a, k)
<1> DEFINE x == SubSeq(s, a, k)
           y == SubSeq(u, a, k)
<1>1. Len(s) \in Nat /\ Len(u) \in Nat
  BY LenProperties
<1>2. \A i \in a..k : s[i] \in W /\ u[i] \in W /\ s[i] = u[i]
  BY <1>1, ElementOfSeq
<1>3. /\ x \in Seq(W) /\ Len(x) = IF a <= k THEN k - a + 1 ELSE 0
      /\ \A i \in 1..(k - a + 1) : x[i] = s[a + i - 1]
  BY <1>2, SubSeqProperties
<1>4. /\ y \in Seq(W) /\ Len(y) = IF a <= k THEN k - a + 1 ELSE 0
      /\ \A i \in 1..(k - a + 1) : y[i] = u[a + i - 1]
  BY <1>2, SubSeqProperties
<1> HIDE DEF x, y
<1>5. ASSUME NEW i \in 1..Len(x) PROVE x[i] = y[i]
  <2>1. i \in 1..(k - a + 1) /\ a + i - 1 \in a..k
    BY <1>3
  <2> QED
    BY <2>1, <1>2, <1>3, <1>4
<1>6. x = y
  BY <1>3, <1>4, <1>5, SeqEqual
<1> QED
  BY <1>6 DEF x, y

\* The last number of a set, as SelectLastInSeq picks it.
LEMMA LastOf ==
    ASSUME NEW n \in Nat, NEW S \in SUBSET (1..n), NEW m, m = IF S # {} THEN Max(S) ELSE 0
    PROVE  m \in 0..n /\ (m # 0 => m \in S) /\ \A i \in S : i <= m
<1>1. CASE S = {}
  BY <1>1
<1>2. CASE S # {}
  <2>1. m = Max(S)
    BY <1>2
  <2>2. Max(S) \in S /\ \A i \in S : Max(S) >= i
    BY <1>2, MaxUpTo
  <2>3. m \in S /\ \A i \in S : m >= i
    BY <2>1, <2>2
  <2> QED
    BY <2>3
<1> QED
  BY <1>1, <1>2

=============================================================================
