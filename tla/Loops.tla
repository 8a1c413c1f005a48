--------------------------------- MODULE Loops ---------------------------------
(***************************************************************************)
(* How the proofs reason about a loop.  The loops of the C code that are   *)
(* recursive functions in the model take a state through n steps; that     *)
(* there is such a function, and that what each step keeps holds all the   *)
(* way, is shown by a least counterexample.                                *)
(***************************************************************************)
EXTENDS Integers, SequencesExt, SequenceTheorems, WellFoundedInduction, TLAPS

(* Every non-empty set of natural numbers has a least element. *)
LEMMA LeastNat ==
    ASSUME NEW T \in SUBSET Nat, T # {}
    PROVE  \E m \in T : \A k \in T : m <= k
<1> DEFINE R == {ss \in Nat \X Nat : ss[1] < ss[2]}
<1>1. IsWellFoundedOn(R, Nat)
  BY NatLessThanWellFounded DEF OpToRel
<1>2. \E m \in T : \A k \in T : ~(<<k, m>> \in R)
  <2> HIDE DEF R
  <2> QED BY <1>1, WFMin
<1>3. \A k, m \in Nat : k < m => <<k, m>> \in R
  OBVIOUS
<1> HIDE DEF R
<1>4. PICK m \in T : \A k \in T : ~(<<k, m>> \in R)
  BY <1>2
<1>5. \A k \in T : ~(k < m)
  BY <1>3, <1>4
<1> QED
  BY <1>5

(* Induction up to n, over a set. *)
LEMMA UpTo ==
    ASSUME NEW n \in Nat, NEW P, 0 \in P,
           \A k \in Nat : k < n /\ k \in P => k + 1 \in P
    PROVE  \A k \in 0..n : k \in P
<1> SUFFICES ASSUME NEW k \in 0..n, k \notin P PROVE FALSE
  OBVIOUS
<1> DEFINE T == {i \in 0..n : i \notin P}
<1>1. PICK m \in T : \A i \in T : m <= i
  <2>1. T \in SUBSET Nat /\ T # {}
    OBVIOUS
  <2> QED BY <2>1, LeastNat
<1>2. m # 0 /\ m - 1 \in Nat /\ m - 1 < n /\ m - 1 \notin T
  BY <1>1
<1>3. m - 1 \in P
  BY <1>2
<1> QED
  BY <1>1, <1>2, <1>3

(* Steps from S to S, and the function on 0..n that starts at a and takes  *)
(* them one by one.                                                        *)
Steps(n, S) == [1..n -> [S -> S]]

Path(n, S, a, g, f) ==
    /\ f \in [0..n -> S]
    /\ f[0] = a
    /\ \A i \in 1..n : f[i] = g[i][f[i - 1]]

(* There is such a path through any steps: the loops have a meaning. *)
LEMMA StepByStep ==
    ASSUME NEW n \in Nat, NEW S, NEW a \in S, NEW g \in Steps(n, S)
    PROVE  \E f : Path(n, S, a, g, f)
<1> USE DEF Steps
<1> DEFINE Is(k, f) == Path(k, S, a, g, f)
           P == {k \in 0..n : \E f : Is(k, f)}
<1>1. 0 \in P
  <2>1. Is(0, [i \in 0..0 |-> a])
    BY DEF Path
  <2> QED BY <2>1
<1>2. ASSUME NEW k \in Nat, k < n, k \in P PROVE k + 1 \in P
  <2>1. PICK f : Is(k, f)
    BY <1>2
  <2> DEFINE h == [i \in 0..(k + 1) |-> IF i <= k THEN f[i] ELSE g[k + 1][f[k]]]
  <2>2. f[k] \in S /\ g[k + 1] \in [S -> S]
    BY <2>1, <1>2 DEF Path
  <2>3. h \in [0..(k + 1) -> S]
    BY <2>1, <2>2 DEF Path
  <2>4. h[0] = a
    BY <2>1 DEF Path
  <2>5. ASSUME NEW i \in 1..(k + 1) PROVE h[i] = g[i][h[i - 1]]
    <3>1. CASE i <= k
      BY <3>1, <2>1 DEF Path
    <3>2. CASE i = k + 1
      BY <3>2
    <3> QED BY <3>1, <3>2
  <2>6. Is(k + 1, h)
    BY <2>3, <2>4, <2>5 DEF Path
  <2> QED BY <2>6, <1>2
<1>3. n \in P
  <2> HIDE DEF P
  <2>1. \A k \in Nat : k < n /\ k \in P => k + 1 \in P
    BY <1>2
  <2>2. \A k \in 0..n : k \in P
    BY <1>1, <2>1, UpTo
  <2> QED BY <2>2
<1>4. PICK f : Is(n, f)
  BY <1>3
<1> QED
  BY <1>4

(* f goes through the beginnings of the sequences of ss put together. *)
Flattens(ss, S, f) ==
    /\ f \in [0..Len(ss) -> Seq(S)]
    /\ f[0] = << >>
    /\ \A i \in 1..Len(ss) : f[i] = f[i - 1] \o ss[i]
    /\ FlattenSeq(ss) = f[Len(ss)]

(* FlattenSeq puts its sequences together one by one. *)
LEMMA Flattening ==
    ASSUME NEW S, NEW ss \in Seq(Seq(S))
    PROVE  \E f : Flattens(ss, S, f)
<1> DEFINE n == Len(ss)
           T == Seq(S)
           g == [i \in 1..n |-> [s \in T |-> s \o ss[i]]]
           Eq(f) == f = [i \in 1..n |-> IF i = 1 THEN ss[i] ELSE f[i - 1] \o ss[i]]
<1>1. n \in Nat /\ \A i \in 1..n : ss[i] \in T
  OBVIOUS
<1>2. << >> \in T
  OBVIOUS
<1>3. \A i \in 1..n : \A s \in T : s \o ss[i] \in T
  BY <1>1, ConcatProperties
<1>4. g \in Steps(n, T)
  BY <1>3 DEF Steps
<1> HIDE DEF T
<1>5. PICK f : Path(n, T, << >>, g, f)
  <2> HIDE DEF g, n
  <2> QED BY <1>1, <1>2, <1>4, StepByStep
<1>6. f \in [0..n -> T] /\ f[0] = << >>
  BY <1>5 DEF Path
<1>7. ASSUME NEW i \in 1..n PROVE f[i] = f[i - 1] \o ss[i]
  <2>1. i - 1 \in 0..n
    BY <1>1
  <2>2. f[i - 1] \in T
    BY <1>6, <2>1
  <2>3. f[i] = g[i][f[i - 1]]
    BY <1>5 DEF Path
  <2> QED BY <2>2, <2>3
<1> DEFINE First == f[1] = ss[1] /\ ss[1] \in T
<1>8. n # 0 => First
  <2>1. n # 0 => 1 \in 1..n
    BY <1>1
  <2>2. 1 - 1 = 0
    OBVIOUS
  <2> HIDE DEF n, g
  <2>3. n # 0 => f[1] = << >> \o ss[1] /\ ss[1] \in T
    BY <1>1, <1>6, <1>7, <2>1, <2>2, Zenon
  <2>4. ss[1] \in T => << >> \o ss[1] = ss[1]
    BY ConcatEmptySeq DEF T
  <2> QED BY <2>3, <2>4, Zenon
<1>9. CASE n = 0
  <2>1. ss = << >> /\ FlattenSeq(ss) = ss
    BY <1>9 DEF FlattenSeq
  <2>2. FlattenSeq(ss) = f[n]
    BY <1>6, <1>9, <2>1
  <2> HIDE DEF g
  <2> QED BY <1>6, <1>7, <2>2 DEF Flattens, T
<1>10. CASE n # 0
  <2>1. FlattenSeq(ss) = (CHOOSE h : Eq(h))[n]
    BY <1>10 DEF FlattenSeq
  <2> DEFINE h == [i \in 1..n |-> f[i]]
  <2>2. Eq(h)
    <3>1. ASSUME NEW i \in 1..n
          PROVE  f[i] = IF i = 1 THEN ss[i] ELSE h[i - 1] \o ss[i]
      <4>1. CASE i = 1
        BY <1>10, <1>8, <4>1, Zenon
      <4>2. CASE i # 1
        <5>1. i - 1 \in 1..n
          BY <1>1, <4>2
        <5>2. h[i - 1] = f[i - 1]
          BY <5>1
        <5> QED BY <1>7, <4>2, <5>2
      <4> QED BY <4>1, <4>2
    <3> HIDE DEF g, n
    <3> QED BY <3>1
  <2> DEFINE w == CHOOSE x : Eq(x)
  <2>3. Eq(w)
    <3> HIDE DEF Eq, h
    <3> QED BY <2>2
  <2> HIDE DEF w, h, g
  <2> DEFINE P == {i \in 0..n : i = 0 \/ w[i] = f[i]}
  <2>4. 0 \in P
    BY <1>1
  <2>5. ASSUME NEW i \in Nat, i < n, i \in P PROVE i + 1 \in P
    <3>1. i + 1 \in 1..n /\ (i + 1) - 1 = i
      BY <1>1, <2>5
    <3>2. w[i + 1] = IF i + 1 = 1 THEN ss[i + 1] ELSE w[(i + 1) - 1] \o ss[i + 1]
      BY <2>3, <3>1
    <3>3. f[i + 1] = f[i] \o ss[i + 1]
      BY <1>7, <3>1
    <3>4. CASE i = 0
      <4>1. i + 1 = 1
        BY <3>4
      <4>2. w[i + 1] = f[i + 1]
        BY <1>10, <1>8, <3>2, <4>1, Zenon
      <4> QED BY <1>1, <2>5, <4>2
    <3>5. CASE i # 0
      <4>1. i + 1 # 1
        BY <3>5
      <4>2. w[i] = f[i]
        BY <2>5, <3>5
      <4>3. w[i + 1] = f[i + 1]
        BY <3>1, <3>2, <3>3, <4>1, <4>2, Zenon
      <4> QED BY <1>1, <2>5, <4>3
    <3> QED BY <3>4, <3>5
  <2>6. n \in P
    <3>1. \A i \in Nat : i < n /\ i \in P => i + 1 \in P
      BY <2>5
    <3> HIDE DEF P, n
    <3>2. \A k \in 0..n : k \in P
      BY <1>1, <2>4, <3>1, UpTo
    <3> QED BY <1>1, <3>2
  <2>7. FlattenSeq(ss) = f[n]
    BY <1>10, <2>1, <2>6 DEF w
  <2> QED BY <1>6, <1>7, <2>7 DEF Flattens, T
<1> QED BY <1>9, <1>10

(* Sequences of one element each, put together. *)
LEMMA FlattenOnes ==
    ASSUME NEW S, NEW ss \in Seq(Seq(S)), \A i \in 1..Len(ss) : Len(ss[i]) = 1
    PROVE  FlattenSeq(ss) = [i \in 1..Len(ss) |-> ss[i][1]]
<1> DEFINE n == Len(ss)
<1>1. PICK f : Flattens(ss, S, f)
  BY Flattening
<1>2. /\ n \in Nat /\ f \in [0..n -> Seq(S)] /\ f[0] = << >>
      /\ \A i \in 1..n : f[i] = f[i - 1] \o ss[i] /\ ss[i] \in Seq(S)
      /\ FlattenSeq(ss) = f[n]
  BY <1>1 DEF Flattens
<1> DEFINE P == {k \in 0..n : f[k] = [i \in 1..k |-> ss[i][1]]}
<1>3. 0 \in P
  BY <1>2
<1>4. ASSUME NEW k \in Nat, k < n, k \in P PROVE k + 1 \in P
  <2>1. k + 1 \in 1..n /\ (k + 1) - 1 = k /\ k \in 0..n
    BY <1>2, <1>4
  <2>2. f[k + 1] = f[k] \o ss[k + 1] /\ f[k] \in Seq(S) /\ ss[k + 1] \in Seq(S)
    BY <1>2, <2>1
  <2>3. f[k] = [i \in 1..k |-> ss[i][1]] /\ Len(ss[k + 1]) = 1
    BY <1>4, <2>1
  <2>4. Len(f[k]) = k
    BY <2>2, <2>3
  <2>5. /\ Len(f[k + 1]) = k + 1 /\ f[k + 1] \in Seq(S)
        /\ \A i \in 1..k : f[k + 1][i] = f[k][i]
        /\ f[k + 1][k + 1] = ss[k + 1][1]
    <3> DEFINE x == f[k]
               y == ss[k + 1]
               z == x \o y
    <3>1. x \in Seq(S) /\ y \in Seq(S) /\ Len(x) = k /\ Len(y) = 1
      BY <2>2, <2>3, <2>4
    <3> HIDE DEF x, y
    <3>2. /\ z \in Seq(S) /\ Len(z) = Len(x) + Len(y)
          /\ \A i \in 1..(Len(x) + Len(y)) : z[i] = IF i <= Len(x) THEN x[i] ELSE y[i - Len(x)]
      BY <3>1, ConcatProperties
    <3> HIDE DEF z
    <3>3. ASSUME NEW i \in 1..k PROVE z[i] = x[i]
      <4>1. i \in 1..(Len(x) + Len(y)) /\ i <= Len(x)
        BY <3>1
      <4> QED BY <3>2, <4>1
    <3>4. Len(z) = k + 1 /\ z[k + 1] = y[1]
      <4>1. k + 1 \in 1..(Len(x) + Len(y)) /\ ~(k + 1 <= Len(x)) /\ (k + 1) - Len(x) = 1
        BY <3>1
      <4> QED BY <3>1, <3>2, <4>1
    <3> QED BY <2>2, <3>2, <3>3, <3>4 DEF x, y, z
  <2>6. f[k + 1] = [i \in 1..(k + 1) |-> ss[i][1]]
    <3> DEFINE z == f[k + 1]
    <3>1. z \in Seq(S) /\ Len(z) = k + 1
      BY <2>5
    <3>2. ASSUME NEW i \in 1..(k + 1) PROVE z[i] = ss[i][1]
      <4>1. CASE i = k + 1
        BY <2>5, <4>1
      <4>2. CASE i # k + 1
        <5>1. i \in 1..k
          BY <1>4, <4>2
        <5>2. z[i] = f[k][i]
          BY <2>5, <5>1
        <5> QED BY <2>3, <5>1, <5>2
      <4> QED BY <4>1, <4>2
    <3> HIDE DEF z
    <3>3. z = [i \in 1..(k + 1) |-> ss[i][1]]
      BY <3>1, <3>2
    <3> QED BY <3>3 DEF z
  <2> QED BY <2>1, <2>6
<1>5. \A k \in 0..n : k \in P
  <2> HIDE DEF P, n
  <2> QED BY <1>2, <1>3, <1>4, UpTo
<1>6. n \in P
  BY <1>2, <1>5
<1> QED BY <1>2, <1>6

(* A sequence that begins as another does. *)
LEMMA PrefixIs ==
    ASSUME NEW S, NEW s \in Seq(S), NEW t \in Seq(S)
    PROVE  IsPrefix(s, t) <=> Len(s) <= Len(t) /\ \A i \in 1..Len(s) : t[i] = s[i]
<1>1. Len(s) \in Nat /\ Len(t) \in Nat
  OBVIOUS
<1> DEFINE a == SubSeq(s, 1, Len(s))
           b == SubSeq(t, 1, Len(s))
<1>2. CASE Len(s) <= Len(t)
  <2>1. /\ a \in Seq(S) /\ Len(a) = Len(s) /\ \A i \in 1..Len(s) : a[i] = s[i]
        /\ b \in Seq(S) /\ Len(b) = Len(s) /\ \A i \in 1..Len(s) : b[i] = t[i]
    BY <1>1, <1>2
  <2> HIDE DEF a, b
  <2>2. a = b <=> \A i \in 1..Len(s) : a[i] = b[i]
    BY <2>1, <1>1, SeqEqual
  <2>3. a = b <=> \A i \in 1..Len(s) : t[i] = s[i]
    BY <2>1, <2>2
  <2> QED BY <1>2, <2>3 DEF IsPrefix, a, b
<1>3. CASE ~(Len(s) <= Len(t))
  BY <1>3 DEF IsPrefix
<1> QED BY <1>2, <1>3

================================================================================
