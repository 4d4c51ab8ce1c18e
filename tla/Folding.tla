------------------------------- MODULE Folding -------------------------------
(***************************************************************************)
(* Folds over sequences, for proofs about the models that use them.  Op is *)
(* what is folded, with two parameters of its context; Folded is FoldLeft  *)
(* of it, and Flattened is FlattenSeq, written out so that an instance can *)
(* be compared with either by expanding definitions.  Instances of this    *)
(* module have the theorems for their own Op.                              *)
(***************************************************************************)
EXTENDS Integers, Sequences, FiniteSets, FiniteSetTheorems, TLAPS

CONSTANT Op(_, _, _, _)

Top(S) == CHOOSE x \in S : \A y \in S : x >= y

Folded(c, d, base, s) ==
    LET iter[S \in SUBSET DOMAIN s] ==
          IF S = {} THEN base ELSE Op(c, d, iter[S \ {Top(S)}], s[Top(S)])
    IN  iter[DOMAIN s]

Flattened(seqs) ==
    IF Len(seqs) = 0 THEN seqs
    ELSE LET flatten[i \in 1..Len(seqs)] == IF i = 1 THEN seqs[i] ELSE flatten[i - 1] \o seqs[i]
         IN  flatten[Len(seqs)]

-----------------------------------------------------------------------------
(* Induction, as a fact about sets of numbers.                              *)

\* A nonempty set of numbers has a least one.
LEMMA Least ==
    ASSUME NEW T \in SUBSET Nat, T # {}
    PROVE  \E n \in T : \A m \in T : n <= m
<1> DEFINE I == {1..n : n \in T}
<1>1. IsWellFoundedOn(StrictSubsetOrdering(Nat), FiniteSubsetsOf(Nat))
  BY FS_StrictSubsetOrderingWellFounded
<1>2. I \subseteq FiniteSubsetsOf(Nat)
  <2> SUFFICES ASSUME NEW n \in T PROVE 1..n \in FiniteSubsetsOf(Nat)
    OBVIOUS
  <2>1. IsFiniteSet(1..n)
    BY FS_Interval
  <2> QED BY <2>1 DEF FiniteSubsetsOf
<1>3. PICK x \in I : \A y \in I : ~(<<y, x>> \in StrictSubsetOrdering(Nat))
  <2>1. I # {}
    OBVIOUS
  <2> HIDE DEF I
  <2> QED BY <1>1, <1>2, <2>1, WFMin
<1>4. PICK n \in T : x = 1..n
  OBVIOUS
<1>5. ASSUME NEW m \in T, m < n PROVE FALSE
  <2>1. 1..m \in I /\ 1..m \subseteq 1..n /\ 1..m # 1..n
    <3>1. n \in 1..n /\ n \notin 1..m
      BY <1>5
    <3>2. 1..m \subseteq 1..n
      BY <1>5
    <3> QED BY <3>1, <3>2
  <2>2. <<1..m, 1..n>> \in StrictSubsetOrdering(Nat)
    BY <2>1 DEF StrictSubsetOrdering
  <2> QED BY <2>1, <2>2, <1>3, <1>4
<1> QED BY <1>5

\* A set that has 0, and the successor of what it has below n, has n.
THEOREM Induct ==
    ASSUME NEW n \in Nat, NEW S, 0 \in S, \A k \in 0..(n - 1) : k \in S => k + 1 \in S
    PROVE  n \in S
<1> DEFINE T == {k \in 0..n : k \notin S}
<1> SUFFICES ASSUME T # {} PROVE FALSE
  OBVIOUS
<1>1. PICK k \in T : \A m \in T : k <= m
  <2>1. T \in SUBSET Nat
    OBVIOUS
  <2> HIDE DEF T
  <2> QED BY <2>1, Least
<1>2. k # 0 /\ k - 1 \in 0..(n - 1) /\ k - 1 \notin T
  BY <1>1
<1> QED BY <1>1, <1>2

-----------------------------------------------------------------------------
(* Folds.                                                                   *)

\* The largest of a set of numbers that has k and nothing above it.
LEMMA TopIs ==
    ASSUME NEW k \in Nat, NEW S \in SUBSET (1..k), k \in S
    PROVE  Top(S) = k
<1>1. k \in S /\ \A y \in S : k >= y
  OBVIOUS
<1>2. Top(S) \in S /\ \A y \in S : Top(S) >= y
  BY <1>1 DEF Top
<1>3. k >= Top(S) /\ Top(S) >= k /\ Top(S) \in 1..k
  BY <1>1, <1>2
<1> QED BY <1>3

IsFold(c, d, base, s, k, g) ==
    g = [S \in SUBSET (1..k) |-> IF S = {} THEN base ELSE Op(c, d, g[S \ {Top(S)}], s[Top(S)])]

\* The recursion of a fold has a solution: that over the first k elements is
\* extended to the next.
LEMMA FoldExists ==
    ASSUME NEW c, NEW d, NEW base, NEW s, NEW n \in Nat
    PROVE  \E g : IsFold(c, d, base, s, n, g)
<1> DEFINE W == {k \in 0..n : \E g : IsFold(c, d, base, s, k, g)}
<1>1. 0 \in W
  <2> DEFINE g == [S \in SUBSET (1..0) |-> base]
  <2>1. 1..0 = {}
    OBVIOUS
  <2>2. IsFold(c, d, base, s, 0, g)
    BY <2>1 DEF IsFold
  <2> QED BY <2>2
<1>2. ASSUME NEW k \in 0..(n - 1), k \in W PROVE k + 1 \in W
  <2>1. PICK g : IsFold(c, d, base, s, k, g)
    BY <1>2
  <2> DEFINE h == [S \in SUBSET (1..(k + 1)) |->
                     IF k + 1 \in S THEN Op(c, d, g[S \ {k + 1}], s[k + 1]) ELSE g[S]]
             Next(S) == IF S = {} THEN base ELSE Op(c, d, h[S \ {Top(S)}], s[Top(S)])
  <2>2. ASSUME NEW S \in SUBSET (1..(k + 1)) PROVE h[S] = Next(S)
    <3>1. CASE k + 1 \in S
      <4>1. Top(S) = k + 1
        BY <3>1, TopIs
      <4>2. S \ {k + 1} \in SUBSET (1..(k + 1)) /\ k + 1 \notin S \ {k + 1}
        OBVIOUS
      <4>3. h[S \ {k + 1}] = g[S \ {k + 1}]
        BY <4>2
      <4>4. h[S] = Op(c, d, g[S \ {k + 1}], s[k + 1])
        BY <3>1
      <4> HIDE DEF h
      <4> QED BY <3>1, <4>1, <4>3, <4>4
    <3>2. CASE k + 1 \notin S
      <4>1. S \in SUBSET (1..k)
        <5> SUFFICES ASSUME NEW x \in S PROVE x \in 1..k
          OBVIOUS
        <5> QED BY <3>2
      <4>2. g[S] = IF S = {} THEN base ELSE Op(c, d, g[S \ {Top(S)}], s[Top(S)])
        BY <2>1, <4>1 DEF IsFold
      <4>3. h[S] = g[S]
        BY <3>2
      <4>4. h[S \ {Top(S)}] = g[S \ {Top(S)}]
        BY <3>2
      <4> HIDE DEF h
      <4> QED BY <4>2, <4>3, <4>4
    <3> QED BY <3>1, <3>2
  <2>3. h = [S \in SUBSET (1..(k + 1)) |-> Next(S)]
    <3>1. h = [S \in SUBSET (1..(k + 1)) |-> h[S]]
      OBVIOUS
    <3> HIDE DEF h, Next
    <3> QED BY <2>2, <3>1
  <2>4. IsFold(c, d, base, s, k + 1, h)
    <3> HIDE DEF h
    <3> QED BY <2>3 DEF IsFold
  <2> HIDE DEF h
  <2> QED BY <2>4
<1> HIDE DEF W
<1>3. n \in W
  BY <1>1, <1>2, Induct
<1> QED BY <1>3 DEF W

\* A fold goes from its base to its result by a step for each element.
THEOREM Steps ==
    ASSUME NEW c, NEW d, NEW base, NEW s, NEW n \in Nat, DOMAIN s = 1..n
    PROVE  \E p : /\ p[0] = base
                  /\ \A k \in 0..(n - 1) : p[k + 1] = Op(c, d, p[k], s[k + 1])
                  /\ p[n] = Folded(c, d, base, s)
<1> DEFINE g == CHOOSE g : IsFold(c, d, base, s, n, g)
           p == [k \in 0..n |-> g[1..k]]
<1>1. IsFold(c, d, base, s, n, g)
  BY FoldExists
<1>2. Folded(c, d, base, s) = g[1..n]
  BY DEF Folded, IsFold
<1> HIDE DEF g
<1>3. p[0] = base
  <2>1. 1..0 = {}
    OBVIOUS
  <2> QED BY <1>1, <2>1 DEF IsFold
<1>4. ASSUME NEW k \in 0..(n - 1) PROVE p[k + 1] = Op(c, d, p[k], s[k + 1])
  <2>1. k + 1 \in 1..(k + 1) /\ \A i \in 1..(k + 1) : i \in 1..n
    OBVIOUS
  <2>2. Top(1..(k + 1)) = k + 1
    BY TopIs
  <2>3. (1..(k + 1)) \ {k + 1} = 1..k
    OBVIOUS
  <2>4. g[1..(k + 1)] = Op(c, d, g[1..k], s[k + 1])
    <3>1. 1..(k + 1) \in SUBSET (1..n) /\ 1..(k + 1) # {}
      BY <2>1
    <3> QED BY <1>1, <2>2, <2>3, <3>1 DEF IsFold
  <2> QED BY <2>4
<1>5. p[n] = g[1..n]
  OBVIOUS
<1> HIDE DEF p
<1> QED BY <1>2, <1>3, <1>4, <1>5

\* w is what of s is in P: each of it with only such before it as were before it.
IsSelection(s, P, w) ==
    /\ \A j \in DOMAIN w : w[j] \in P /\ \E h \in DOMAIN s : w[j] = s[h]
    /\ \A i \in DOMAIN s : s[i] \in P =>
          \E j \in DOMAIN w : w[j] = s[i] /\ \A l \in 1..(j - 1) : \E h \in 1..(i - 1) : w[l] = s[h]

\* What steps that append select.
THEOREM Selects ==
    ASSUME NEW T, NEW s \in Seq(T), NEW P, NEW p, NEW w, p[0] = <<>>, p[Len(s)] = w,
           \A k \in 0..(Len(s) - 1) : p[k + 1] = IF s[k + 1] \in P THEN Append(p[k], s[k + 1]) ELSE p[k]
    PROVE  w \in Seq(T) /\ IsSelection(s, P, w)
<1> DEFINE n == Len(s)
           K == p[Len(s)]
<1>0. n \in Nat /\ DOMAIN s = 1..n /\ \A i \in 1..n : s[i] \in T
  OBVIOUS
<1>1. p[0] = <<>> /\ p[n] = K
  OBVIOUS
<1>2. \A k \in 0..(n - 1) : p[k + 1] = IF s[k + 1] \in P THEN Append(p[k], s[k + 1]) ELSE p[k]
  OBVIOUS
<1> HIDE DEF n
<1> HIDE DEF K
<1> DEFINE Typed(k) == p[k] \in Seq(T)
           From(k) == \A j \in DOMAIN p[k] : p[k][j] \in P /\ \E h \in 1..k : p[k][j] = s[h]
           Has(k) == \A i \in 1..k : s[i] \in P =>
                        \E j \in DOMAIN p[k] : /\ p[k][j] = s[i]
                                               /\ \A l \in 1..(j - 1) : \E h \in 1..(i - 1) : p[k][l] = s[h]
           S == {k \in 0..n : Typed(k) /\ From(k) /\ Has(k)}
<1>3. 0 \in S
  <2>1. <<>> \in Seq(T)
    OBVIOUS
  <2>2. Typed(0)
    BY <1>1, <2>1
  <2>3. DOMAIN p[0] = {} /\ 0 \in 0..n /\ 1..0 = {}
    BY <1>0, <1>1
  <2> HIDE DEF Typed
  <2> QED BY <2>2, <2>3
<1>4. ASSUME NEW k \in 0..(n - 1), k \in S PROVE k + 1 \in S
  <2> DEFINE a == p[k]
             b == p[k + 1]
             x == s[k + 1]
  <2>0. k + 1 \in 0..n /\ k + 1 \in 1..n /\ x \in T
    BY <1>0
  <2>1. /\ a \in Seq(T)
        /\ \A j \in DOMAIN a : a[j] \in P /\ \E h \in 1..k : a[j] = s[h]
        /\ \A i \in 1..k : s[i] \in P =>
              \E j \in DOMAIN a : a[j] = s[i] /\ \A l \in 1..(j - 1) : \E h \in 1..(i - 1) : a[l] = s[h]
    BY <1>4
  <2>2. b = IF x \in P THEN Append(a, x) ELSE a
    BY <1>2
  <2>3. CASE x \notin P
    <3>1. b = a
      BY <2>2, <2>3
    <3>2. \A i \in 1..(k + 1) : s[i] \in P => i \in 1..k
      BY <2>3
    <3>3. \A h \in 1..k : h \in 1..(k + 1)
      OBVIOUS
    <3>4. Typed(k + 1)
      BY <2>1, <3>1
    <3>5. From(k + 1)
      BY <2>1, <3>1, <3>3
    <3>6. Has(k + 1)
      BY <2>1, <3>1, <3>2
    <3> HIDE DEF Typed, From, Has
    <3> QED BY <2>0, <3>4, <3>5, <3>6
  <2>4. CASE x \in P
    <3>1. b = Append(a, x)
      BY <2>2, <2>4
    <3> HIDE DEF a, b, x
    <3>2. /\ b \in Seq(T) /\ Len(a) \in Nat /\ DOMAIN a = 1..Len(a) /\ DOMAIN b = 1..(Len(a) + 1)
          /\ \A j \in 1..Len(a) : b[j] = a[j]
          /\ b[Len(a) + 1] = x
      BY <2>0, <2>1, <3>1
    <3>3. Typed(k + 1)
      BY <3>2 DEF b
    <3>4. ASSUME NEW l \in 1..Len(a) PROVE \E h \in 1..k : b[l] = s[h]
      <4>1. PICK h \in 1..k : a[l] = s[h]
        BY <2>1, <3>2
      <4> QED BY <3>2, <4>1
    <3>5. From(k + 1)
      <4> SUFFICES ASSUME NEW j \in DOMAIN b PROVE b[j] \in P /\ \E h \in 1..(k + 1) : b[j] = s[h]
        BY DEF b
      <4>1. CASE j \in 1..Len(a)
        <5>1. PICK h \in 1..k : b[j] = s[h]
          BY <3>4, <4>1
        <5>2. h \in 1..(k + 1)
          OBVIOUS
        <5> QED BY <2>1, <3>2, <4>1, <5>1, <5>2
      <4>2. CASE j = Len(a) + 1
        <5>1. b[j] = s[k + 1] /\ k + 1 \in 1..(k + 1)
          BY <3>2, <4>2 DEF x
        <5> QED BY <2>4, <3>2, <4>2, <5>1
      <4> QED BY <3>2, <4>1, <4>2
    <3>6. Has(k + 1)
      <4> SUFFICES ASSUME NEW i \in 1..(k + 1), s[i] \in P
                   PROVE  \E j \in DOMAIN b : b[j] = s[i] /\ \A l \in 1..(j - 1) : \E h \in 1..(i - 1) : b[l] = s[h]
        BY DEF b
      <4>1. CASE i \in 1..k
        <5>1. PICK j \in DOMAIN a : a[j] = s[i] /\ \A l \in 1..(j - 1) : \E h \in 1..(i - 1) : a[l] = s[h]
          BY <2>1, <4>1
        <5>2. j \in DOMAIN b /\ b[j] = s[i] /\ \A l \in 1..(j - 1) : b[l] = a[l]
          BY <3>2, <5>1
        <5> QED BY <5>1, <5>2
      <4>2. CASE i = k + 1
        <5> DEFINE j == Len(a) + 1
        <5>1. j \in DOMAIN b /\ b[j] = s[i]
          BY <3>2, <4>2 DEF x
        <5>2. \A l \in 1..(j - 1) : \E h \in 1..(i - 1) : b[l] = s[h]
          BY <3>2, <3>4, <4>2
        <5> HIDE DEF j
        <5> QED BY <5>1, <5>2
      <4> QED BY <4>1, <4>2
    <3> HIDE DEF Typed, From, Has
    <3> QED BY <2>0, <3>3, <3>5, <3>6
  <2> QED BY <2>3, <2>4
<1>5. n \in S
  <2> HIDE DEF S
  <2> QED BY <1>0, <1>3, <1>4, Induct
<1>6. Typed(n) /\ From(n) /\ Has(n)
  BY <1>5
<1>7. K \in Seq(T) /\ IsSelection(s, P, K)
  <2>1. K \in Seq(T)
    BY <1>1, <1>6
  <2>2. p[n] = K
    BY <1>1
  <2> HIDE DEF Typed
  <2>3. \A j \in DOMAIN K : K[j] \in P /\ \E h \in DOMAIN s : K[j] = s[h]
    BY <1>0, <1>6, <2>2
  <2> HIDE DEF From
  <2>4. \A i \in DOMAIN s : s[i] \in P =>
           \E j \in DOMAIN K : K[j] = s[i] /\ \A l \in 1..(j - 1) : \E h \in 1..(i - 1) : K[l] = s[h]
    BY <1>0, <1>6, <2>2
  <2> QED BY <2>1, <2>3, <2>4 DEF IsSelection
<1> QED BY <1>7 DEF K

-----------------------------------------------------------------------------
(* Concatenations.                                                          *)

IsFlat(seqs, k, g) == g = [i \in 1..k |-> IF i = 1 THEN seqs[i] ELSE g[i - 1] \o seqs[i]]

LEMMA FlatExists ==
    ASSUME NEW seqs, NEW n \in Nat
    PROVE  \E g : IsFlat(seqs, n, g)
<1> DEFINE W == {k \in 0..n : \E g : IsFlat(seqs, k, g)}
<1>1. 0 \in W
  <2> DEFINE g == [i \in 1..0 |-> <<>>]
  <2>1. IsFlat(seqs, 0, g)
    BY DEF IsFlat
  <2> QED BY <2>1
<1>2. ASSUME NEW k \in 0..(n - 1), k \in W PROVE k + 1 \in W
  <2>1. PICK g : IsFlat(seqs, k, g)
    BY <1>2
  <2> DEFINE h == [i \in 1..(k + 1) |-> IF i \in 1..k THEN g[i] ELSE IF i = 1 THEN seqs[i] ELSE g[i - 1] \o seqs[i]]
             Next(i) == IF i = 1 THEN seqs[i] ELSE h[i - 1] \o seqs[i]
  <2>2. ASSUME NEW i \in 1..(k + 1) PROVE h[i] = Next(i)
    <3>1. CASE i = 1
      BY <2>1, <3>1 DEF IsFlat
    <3>2. CASE i # 1
      <4>1. i - 1 \in 1..k /\ h[i - 1] = g[i - 1]
        BY <3>2
      <4>2. i \in 1..k => g[i] = g[i - 1] \o seqs[i]
        BY <2>1, <3>2 DEF IsFlat
      <4>3. h[i] = g[i - 1] \o seqs[i]
        BY <3>2, <4>2
      <4> HIDE DEF h
      <4> QED BY <3>2, <4>1, <4>3
    <3> QED BY <3>1, <3>2
  <2>3. h = [i \in 1..(k + 1) |-> h[i]]
    OBVIOUS
  <2>4. IsFlat(seqs, k + 1, h)
    <3> HIDE DEF h
    <3> QED BY <2>2, <2>3 DEF IsFlat
  <2> HIDE DEF h
  <2> QED BY <2>4
<1> HIDE DEF W
<1>3. n \in W
  BY <1>1, <1>2, Induct
<1> QED BY <1>3 DEF W

\* A concatenation grows by one sequence at a time.
THEOREM FlatSteps ==
    ASSUME NEW T, NEW seqs \in Seq(Seq(T))
    PROVE  \E p : /\ p[0] = <<>>
                  /\ \A k \in 0..(Len(seqs) - 1) : p[k + 1] = p[k] \o seqs[k + 1]
                  /\ \A k \in 0..Len(seqs) : p[k] \in Seq(T)
                  /\ p[Len(seqs)] = Flattened(seqs)
<1> DEFINE n == Len(seqs)
           g == CHOOSE g : IsFlat(seqs, n, g)
           p == [k \in 0..n |-> IF k = 0 THEN <<>> ELSE g[k]]
<1>0. n \in Nat /\ \A k \in 1..n : seqs[k] \in Seq(T)
  OBVIOUS
<1>1. IsFlat(seqs, n, g)
  BY <1>0, FlatExists
<1>2. n # 0 => Flattened(seqs) = g[n]
  BY DEF Flattened, IsFlat
<1>3. n = 0 => Flattened(seqs) = <<>>
  BY DEF Flattened
<1> HIDE DEF g, n
<1>4. ASSUME NEW k \in 0..(n - 1) PROVE p[k + 1] = p[k] \o seqs[k + 1]
  <2>1. k + 1 \in 1..n /\ k \in 0..n /\ k + 1 \in 0..n
    BY <1>0
  <2>2. CASE k = 0
    <3>1. g[1] = seqs[1] /\ seqs[1] \in Seq(T)
      BY <1>0, <1>1, <2>1, <2>2 DEF IsFlat
    <3>2. p[0] = <<>> /\ p[1] = seqs[1]
      BY <2>1, <2>2, <3>1
    <3> HIDE DEF p
    <3>3. <<>> \o seqs[1] = seqs[1]
      BY <3>1
    <3> QED BY <2>2, <3>2, <3>3
  <2>3. CASE k # 0
    <3>1. k + 1 # 1 /\ (k + 1) - 1 = k
      BY <2>3
    <3>2. g[k + 1] = g[(k + 1) - 1] \o seqs[k + 1]
      BY <1>1, <2>1, <3>1 DEF IsFlat
    <3>3. p[k + 1] = g[k + 1] /\ p[k] = g[k]
      BY <2>1, <2>3
    <3> HIDE DEF p
    <3> QED BY <3>1, <3>2, <3>3
  <2> QED BY <2>2, <2>3
<1>5. p[0] = <<>> /\ p[n] = Flattened(seqs)
  BY <1>0, <1>2, <1>3
<1> HIDE DEF p
<1>6. \A k \in 0..n : p[k] \in Seq(T)
  <2> SUFFICES ASSUME NEW h \in 0..n PROVE p[h] \in Seq(T)
    OBVIOUS
  <2> DEFINE S == {k \in 0..n : p[k] \in Seq(T)}
  <2>1. 0 \in S
    <3>1. <<>> \in Seq(T)
      OBVIOUS
    <3>2. p[0] \in Seq(T)
      BY <1>5, <3>1
    <3>3. 0 \in 0..n
      BY <1>0
    <3> QED BY <3>2, <3>3
  <2>2. ASSUME NEW k \in 0..(h - 1), k \in S PROVE k + 1 \in S
    <3>1. k \in 0..(n - 1) /\ k + 1 \in 1..n /\ k + 1 \in 0..n
      BY <1>0
    <3>2. p[k] \in Seq(T) /\ seqs[k + 1] \in Seq(T)
      BY <1>0, <2>2, <3>1
    <3>3. p[k] \o seqs[k + 1] \in Seq(T)
      BY <3>2
    <3>4. p[k + 1] \in Seq(T)
      BY <1>4, <3>1, <3>3
    <3> QED BY <3>1, <3>4
  <2>3. h \in Nat
    BY <1>0
  <2> HIDE DEF S
  <2>4. h \in S
    BY <2>1, <2>2, <2>3, Induct
  <2> QED BY <2>4 DEF S
<1> QED BY <1>4, <1>5, <1>6 DEF n

\* Its elements are those of the sequences.
THEOREM FlatElements ==
    ASSUME NEW T, NEW seqs \in Seq(Seq(T))
    PROVE  /\ Flattened(seqs) \in Seq(T)
           /\ \A i \in DOMAIN Flattened(seqs) :
                 \E k \in 1..Len(seqs) : \E j \in DOMAIN seqs[k] : Flattened(seqs)[i] = seqs[k][j]
           /\ \A k \in 1..Len(seqs) : \A j \in DOMAIN seqs[k] :
                 \E i \in DOMAIN Flattened(seqs) : Flattened(seqs)[i] = seqs[k][j]
<1> DEFINE n == Len(seqs)
<1>0. n \in Nat /\ \A k \in 1..n : seqs[k] \in Seq(T)
  OBVIOUS
<1> HIDE DEF n
<1>1. PICK p : /\ p[0] = <<>>
               /\ \A k \in 0..(n - 1) : p[k + 1] = p[k] \o seqs[k + 1]
               /\ \A k \in 0..n : p[k] \in Seq(T)
               /\ p[n] = Flattened(seqs)
  BY FlatSteps DEF n
<1> DEFINE From(h) == \A i \in DOMAIN p[h] : \E k \in 1..h : \E j \in DOMAIN seqs[k] : p[h][i] = seqs[k][j]
           Has(h) == \A k \in 1..h : \A j \in DOMAIN seqs[k] : \E i \in DOMAIN p[h] : p[h][i] = seqs[k][j]
           S == {h \in 0..n : From(h) /\ Has(h)}
<1>2. 0 \in S
  <2>1. DOMAIN p[0] = {}
    BY <1>1
  <2> QED BY <1>0, <2>1
<1>3. ASSUME NEW h \in 0..(n - 1), h \in S PROVE h + 1 \in S
  <2> DEFINE a == p[h]
             b == seqs[h + 1]
             c == p[h + 1]
  <2>0. h + 1 \in 0..n /\ h + 1 \in 1..n /\ h \in 0..n
    BY <1>0
  <2>1. a \in Seq(T) /\ b \in Seq(T) /\ c = a \o b
    BY <1>0, <1>1, <2>0
  <2> HIDE DEF a, b, c
  <2>2. /\ Len(a) \in Nat /\ Len(b) \in Nat /\ DOMAIN a = 1..Len(a) /\ DOMAIN b = 1..Len(b)
        /\ DOMAIN c = 1..(Len(a) + Len(b))
        /\ \A i \in 1..(Len(a) + Len(b)) : c[i] = IF i <= Len(a) THEN a[i] ELSE b[i - Len(a)]
    BY <2>1
  <2>3. \A i \in DOMAIN c : (\E j \in DOMAIN a : c[i] = a[j]) \/ (\E j \in DOMAIN b : c[i] = b[j])
    <3> SUFFICES ASSUME NEW i \in DOMAIN c
                 PROVE  (\E j \in DOMAIN a : c[i] = a[j]) \/ (\E j \in DOMAIN b : c[i] = b[j])
      OBVIOUS
    <3>1. i \in 1..Len(a) \/ i - Len(a) \in 1..Len(b)
      BY <2>2
    <3> QED BY <2>2, <3>1
  <2>4. \A j \in DOMAIN a : j \in DOMAIN c /\ c[j] = a[j]
    BY <2>2
  <2>5. \A j \in DOMAIN b : j + Len(a) \in DOMAIN c /\ c[j + Len(a)] = b[j]
    BY <2>2
  <2>6. From(h + 1)
    <3> SUFFICES ASSUME NEW i \in DOMAIN c PROVE \E k \in 1..(h + 1) : \E j \in DOMAIN seqs[k] : c[i] = seqs[k][j]
      BY DEF c
    <3>1. CASE \E j \in DOMAIN a : c[i] = a[j]
      <4>1. PICK k \in 1..h : \E j \in DOMAIN seqs[k] : c[i] = seqs[k][j]
        BY <1>3, <3>1 DEF a
      <4>2. k \in 1..(h + 1)
        OBVIOUS
      <4> QED BY <4>1, <4>2
    <3>2. CASE \E j \in DOMAIN b : c[i] = b[j]
      BY <3>2 DEF b
    <3> QED BY <2>3, <3>1, <3>2
  <2>7. Has(h + 1)
    <3> SUFFICES ASSUME NEW k \in 1..(h + 1), NEW j \in DOMAIN seqs[k]
                 PROVE  \E i \in DOMAIN c : c[i] = seqs[k][j]
      BY DEF c
    <3>1. CASE k \in 1..h
      <4>1. PICK i \in DOMAIN a : a[i] = seqs[k][j]
        BY <1>3, <3>1 DEF a
      <4> QED BY <2>4, <4>1
    <3>2. CASE k = h + 1
      BY <2>5, <3>2 DEF b
    <3> QED BY <3>1, <3>2
  <2> HIDE DEF From, Has
  <2> QED BY <2>0, <2>6, <2>7
<1>4. n \in S
  <2> HIDE DEF S
  <2> QED BY <1>0, <1>2, <1>3, Induct
<1>5. From(n) /\ Has(n) /\ n \in 0..n
  BY <1>0, <1>4
<1> QED BY <1>1, <1>5 DEF n
=============================================================================
