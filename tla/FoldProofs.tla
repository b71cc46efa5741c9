----------------------------- MODULE FoldProofs -----------------------------
(***************************************************************************)
(* Induction and folds without operator parameters.  A set of naturals has *)
(* a least element, so what holds of a set of naturals can be proved by    *)
(* its least counterexample; and the function by which FoldLeft is defined *)
(* exists, so a fold is the last of a chain of values, each made from the  *)
(* one before.  A sum over a finite set does not depend on the order in    *)
(* which the elements are chosen.                                          *)
(***************************************************************************)
EXTENDS Integers, Sequences, FiniteSetsExt, SequencesExt, WellFoundedInduction,
        SequenceTheorems, FiniteSetTheorems, TLAPS

\* A set of naturals has a least element.
LEMMA LeastNat ==
  ASSUME NEW T \in SUBSET Nat, T # {}
  PROVE  \E n \in T : \A m \in T : n <= m
<1> DEFINE R == OpToRel(<, Nat)
<1>1. IsWellFoundedOn(R, Nat)
  BY NatLessThanWellFounded
<1>2. \A m \in T, n \in T : <<m, n>> \notin R => n <= m
  BY DEF OpToRel
<1> HIDE DEF R
<1>3. PICK n \in T : \A m \in T : <<m, n>> \notin R
  BY <1>1, WFMin
<1> QED
  BY <1>2, <1>3

\* A set with 0 that is closed under the successor has all numbers up to n.
LEMMA InductionTo ==
  ASSUME NEW n \in Nat, NEW S, 0 \in S, \A k \in 0 .. n - 1 : k \in S => k + 1 \in S
  PROVE  \A k \in 0 .. n : k \in S
<1> DEFINE Bad == { k \in 0 .. n : k \notin S }
<1>1. SUFFICES ASSUME Bad # {} PROVE FALSE
  OBVIOUS
<1>2. PICK k \in Bad : \A m \in Bad : k <= m
  <2> Bad \in SUBSET Nat
    OBVIOUS
  <2> HIDE DEF Bad
  <2> QED
    BY <1>1, LeastNat
<1>3. k \in 0 .. n /\ k # 0 /\ k \notin S
  OBVIOUS
<1>4. k - 1 \in 0 .. n - 1 /\ ~(k <= k - 1) /\ (k - 1) + 1 = k
  BY <1>3
<1>5. k - 1 \in S
  BY <1>2, <1>3, <1>4
<1> QED
  BY <1>3, <1>4, <1>5

\* The same with values: what holds of the first of a chain of values, and of
\* each one if it holds of the one before, holds of all.
LEMMA ChainIn ==
  ASSUME NEW n \in Nat, NEW g, NEW V, g[0] \in V,
         \A k \in 1 .. n : g[k - 1] \in V => g[k] \in V
  PROVE  \A k \in 0 .. n : g[k] \in V
<1> DEFINE S == { k \in 0 .. n : g[k] \in V }
<1>1. 0 \in S
  OBVIOUS
<1>2. \A k \in 0 .. n - 1 : k \in S => k + 1 \in S
  <2> SUFFICES ASSUME NEW k \in 0 .. n - 1, g[k] \in V PROVE k + 1 \in S
    OBVIOUS
  <2>1. k + 1 \in 1 .. n /\ (k + 1) - 1 = k
    OBVIOUS
  <2> QED
    BY <2>1
<1> HIDE DEF S
<1>3. \A k \in 0 .. n : k \in S
  BY <1>1, <1>2, InductionTo
<1> QED
  BY <1>3 DEF S

\* A finite set of naturals has a greatest element.
LEMMA MaxIn ==
  ASSUME NEW n \in Nat, NEW s \in SUBSET (1 .. n), s # {}
  PROVE  Max(s) \in s /\ \A k \in s : k <= Max(s)
<1> DEFINE T == { k \in 0 .. n : n - k \in s }
<1>1. PICK k \in s : TRUE
  OBVIOUS
<1>2. n - k \in T
  OBVIOUS
<1>3. PICK m \in T : \A j \in T : m <= j
  <2> T \in SUBSET Nat
    OBVIOUS
  <2> HIDE DEF T
  <2> QED
    BY <1>2, LeastNat
<1>4. n - m \in s /\ \A j \in s : n - m >= j
  <2> SUFFICES ASSUME NEW j \in s PROVE n - m >= j
    OBVIOUS
  <2>1. n - j \in T /\ m \in Int /\ j \in Int
    OBVIOUS
  <2> HIDE DEF T
  <2>2. m <= n - j
    BY <1>3, <2>1
  <2> QED
    BY <2>1, <2>2
<1>5. Max(s) \in s /\ \A y \in s : Max(s) >= y
  BY <1>4, Zenon DEF Max
<1> QED
  BY <1>5

\* The greatest element of 1 .. k is k.
LEMMA MaxOfInterval ==
  ASSUME NEW n \in Nat, NEW k \in 1 .. n
  PROVE  /\ Max(1 .. k) = k /\ (1 .. k) \ {k} = 1 .. k - 1
         /\ 1 .. k \in SUBSET (1 .. n) /\ 1 .. k # {}
<1>1. 1 .. k \in SUBSET (1 .. n) /\ 1 .. k # {} /\ k \in 1 .. k
  OBVIOUS
<1>2. Max(1 .. k) \in 1 .. k /\ \A j \in 1 .. k : j <= Max(1 .. k)
  BY <1>1, MaxIn
<1> QED
  BY <1>1, <1>2

-----------------------------------------------------------------------------
(* Folds.  F[<<k, v>>] is the value after element k if v is the one before *)

\* it gives, for each set of positions, the value after the last of them.
IsFold(it, n, V, base, F) ==
  /\ it \in [SUBSET (1 .. n) -> V]
  /\ \A s \in SUBSET (1 .. n) :
       it[s] = IF s = {} THEN base ELSE F[<<Max(s), it[s \ {Max(s)}]>>]

\* A fold over nothing has its base.
LEMMA FoldBase ==
  ASSUME NEW V, NEW base \in V, NEW F
  PROVE  \E it : IsFold(it, 0, V, base, F)
<1> DEFINE it == [s \in SUBSET (1 .. 0) |-> base]
<1>1. \A s \in SUBSET (1 .. 0) : s = {}
  OBVIOUS
<1>2. IsFold(it, 0, V, base, F)
  BY <1>1 DEF IsFold
<1> QED
  BY <1>2

\* A fold can be carried on by one element.
LEMMA FoldStep ==
  ASSUME NEW V, NEW base \in V, NEW n \in Nat, NEW F, NEW it, IsFold(it, n, V, base, F),
         \A v \in V : F[<<n + 1, v>>] \in V
  PROVE  \E more : IsFold(more, n + 1, V, base, F)
<1> DEFINE m == n + 1
           more == [s \in SUBSET (1 .. m) |->
                      IF m \in s THEN F[<<m, it[s \ {m}]>>] ELSE it[s]]
<1>1. m \in Nat /\ 1 .. m = (1 .. n) \union {m} /\ m \notin 1 .. n
  OBVIOUS
<1>2. /\ it \in [SUBSET (1 .. n) -> V]
      /\ \A s \in SUBSET (1 .. n) :
           it[s] = IF s = {} THEN base ELSE F[<<Max(s), it[s \ {Max(s)}]>>]
  BY DEF IsFold
<1>3. \A v \in V : F[<<m, v>>] \in V
  OBVIOUS
<1>4. \A k \in 1 .. m : k <= m
  OBVIOUS
<1> HIDE DEF m
<1>5. more \in [SUBSET (1 .. m) -> V]
  <2> SUFFICES ASSUME NEW s \in SUBSET (1 .. m) PROVE more[s] \in V
    OBVIOUS
  <2>1. CASE m \in s
    <3>1. s \ {m} \in SUBSET (1 .. n)
      BY <1>1
    <3> QED
      BY <1>2, <1>3, <2>1, <3>1
  <2>2. CASE m \notin s
    <3>1. s \in SUBSET (1 .. n)
      BY <1>1, <2>2
    <3> QED
      BY <1>2, <2>2, <3>1
  <2> QED
    BY <2>1, <2>2
<1>6. ASSUME NEW s \in SUBSET (1 .. m)
      PROVE  more[s] = IF s = {} THEN base ELSE F[<<Max(s), more[s \ {Max(s)}]>>]
  <2>1. CASE m \in s
    <3>1. Max(s) \in s /\ \A k \in s : k <= Max(s)
      BY <1>1, <2>1, MaxIn
    <3>2. Max(s) = m
      <4>1. Max(s) \in 1 .. m /\ Max(s) <= m /\ m <= Max(s)
        BY <1>4, <2>1, <3>1
      <4> QED
        BY <1>1, <4>1
    <3>3. more[s \ {m}] = it[s \ {m}] /\ more[s] = F[<<m, it[s \ {m}]>>]
      BY <2>1
    <3> QED
      BY <2>1, <3>2, <3>3
  <2>2. CASE m \notin s
    <3>1. s \in SUBSET (1 .. n) /\ more[s] = it[s]
      BY <1>1, <2>2
    <3>2. more[s \ {Max(s)}] = it[s \ {Max(s)}]
      BY <2>2
    <3> QED
      BY <1>2, <3>1, <3>2
  <2> QED
    BY <2>1, <2>2
<1> HIDE DEF more
<1>7. IsFold(more, m, V, base, F)
  BY <1>5, <1>6 DEF IsFold
<1> QED
  BY <1>7 DEF m

\* The function that FoldLeft evaluates exists, whatever the steps do.
LEMMA FoldExists ==
  ASSUME NEW V, NEW base \in V, NEW n \in Nat, NEW F \in [(1 .. n) \X V -> V]
  PROVE  \E it : IsFold(it, n, V, base, F)
<1> DEFINE S == { k \in 0 .. n : \E it : IsFold(it, k, V, base, F) }
<1>1. 0 \in S
  BY FoldBase
<1>2. \A k \in 0 .. n - 1 : k \in S => k + 1 \in S
  <2> SUFFICES ASSUME NEW k \in 0 .. n - 1, NEW it, IsFold(it, k, V, base, F)
               PROVE  k + 1 \in S
    OBVIOUS
  <2>1. k + 1 \in 1 .. n /\ k \in Nat
    OBVIOUS
  <2>2. \A v \in V : F[<<k + 1, v>>] \in V
    BY <2>1
  <2>3. \E more : IsFold(more, k + 1, V, base, F)
    BY <2>1, <2>2, FoldStep
  <2> QED
    BY <2>1, <2>3
<1> HIDE DEF S
<1>3. n \in S
  BY <1>1, <1>2, InductionTo
<1> QED
  BY <1>3 DEF S

\* A fold is in a set that its first value is in and its steps stay in.  it is
\* the function by which FoldLeft is defined.
LEMMA FoldIn ==
  ASSUME NEW n \in Nat, NEW V, NEW it, it[{}] \in V,
         \A s \in SUBSET (1 .. n) : s # {} /\ it[s \ {Max(s)}] \in V => it[s] \in V
  PROVE  it[1 .. n] \in V
<1> DEFINE g == [k \in 0 .. n |-> it[1 .. k]]
<1>1. g[0] \in V
  <2>1. 1 .. 0 = {} /\ 0 \in 0 .. n
    OBVIOUS
  <2> QED
    BY <2>1
<1>2. \A k \in 1 .. n : g[k - 1] \in V => g[k] \in V
  <2> SUFFICES ASSUME NEW k \in 1 .. n, g[k - 1] \in V PROVE g[k] \in V
    OBVIOUS
  <2>1. /\ Max(1 .. k) = k /\ (1 .. k) \ {k} = 1 .. k - 1
        /\ 1 .. k \in SUBSET (1 .. n) /\ 1 .. k # {}
    BY MaxOfInterval
  <2>2. g[k] = it[1 .. k] /\ g[k - 1] = it[1 .. k - 1]
    OBVIOUS
  <2> HIDE DEF g
  <2>3. it[(1 .. k) \ {Max(1 .. k)}] \in V
    BY <2>1, <2>2
  <2>4. it[1 .. k] \in V
    BY <2>1, <2>3
  <2> QED
    BY <2>2, <2>4
<1>3. n \in 0 .. n /\ g[n] = it[1 .. n]
  OBVIOUS
<1> HIDE DEF g
<1>4. \A k \in 0 .. n : g[k] \in V
  BY <1>1, <1>2, ChainIn
<1> QED
  BY <1>3, <1>4

-----------------------------------------------------------------------------
(* FlattenSeq.                                                             *)

\* The sequences before a part are a prefix of what is flattened: there is a
\* chain of prefixes, each longer by one part.
LEMMA FlattenChain ==
  ASSUME NEW S, NEW parts \in Seq(Seq(S))
  PROVE  \E g \in [0 .. Len(parts) -> Seq(S)] :
           /\ g[0] = <<>> /\ FlattenSeq(parts) = g[Len(parts)]
           /\ \A k \in 1 .. Len(parts) : g[k] = g[k - 1] \o parts[k]
<1> DEFINE n == Len(parts)
           V == Seq(S)
           F == [x \in (1 .. n) \X V |-> x[2] \o parts[x[1]]]
           Is(f) == f = [i \in 1 .. n |-> IF i = 1 THEN parts[i] ELSE f[i - 1] \o parts[i]]
           flatten == CHOOSE f : Is(f)
<1>1. n \in Nat /\ \A k \in 1 .. n : parts[k] \in V
  OBVIOUS
<1>2. <<>> \in V /\ \A v \in V, w \in V : v \o w \in V /\ <<>> \o v = v
  OBVIOUS
<1>e. n = 0 => parts = <<>>
  OBVIOUS
<1> HIDE DEF n, V
<1>3. F \in [(1 .. n) \X V -> V]
  BY <1>1, <1>2
<1> HIDE DEF F
<1>4. PICK it : IsFold(it, n, V, <<>>, F)
  BY <1>1, <1>2, <1>3, FoldExists
<1> DEFINE g == [k \in 0 .. n |-> it[1 .. k]]
<1>5. /\ it \in [SUBSET (1 .. n) -> V]
      /\ \A s \in SUBSET (1 .. n) :
           it[s] = IF s = {} THEN <<>> ELSE F[<<Max(s), it[s \ {Max(s)}]>>]
  BY <1>4 DEF IsFold
<1>6. g \in [0 .. n -> V] /\ g[0] = <<>>
  <2>1. 1 .. 0 = {} /\ 0 \in 0 .. n /\ \A k \in 0 .. n : 1 .. k \in SUBSET (1 .. n)
    BY <1>1
  <2> QED
    BY <1>5, <2>1
<1>7. ASSUME NEW k \in 1 .. n PROVE g[k] = g[k - 1] \o parts[k]
  <2>1. /\ Max(1 .. k) = k /\ (1 .. k) \ {k} = 1 .. k - 1
        /\ 1 .. k \in SUBSET (1 .. n) /\ 1 .. k # {}
    BY <1>1, MaxOfInterval
  <2>2. k \in 0 .. n /\ k - 1 \in 0 .. n
    BY <1>1
  <2>3. g[k - 1] \in V /\ g[k - 1] = it[1 .. k - 1] /\ g[k] = it[1 .. k]
    BY <1>6, <2>2
  <2>4. it[1 .. k] = F[<<k, it[1 .. k - 1]>>]
    BY <1>5, <2>1
  <2> QED
    BY <2>3, <2>4 DEF F
<1> HIDE DEF g
<1>8. Is([i \in 1 .. n |-> g[i]])
  <2> SUFFICES ASSUME NEW i \in 1 .. n
               PROVE  g[i] = IF i = 1 THEN parts[i] ELSE g[i - 1] \o parts[i]
    BY <1>1
  <2>1. CASE i = 1
    <3>1. g[i] = g[i - 1] \o parts[i]
      BY <1>7
    <3>2. i - 1 = 0 /\ parts[i] \in V
      BY <1>1, <2>1
    <3> QED
      BY <1>2, <1>6, <2>1, <3>1, <3>2
  <2>2. CASE i # 1
    BY <1>7, <2>2
  <2> QED
    BY <2>1, <2>2
<1>9. \A i \in 1 .. n : flatten[i] = IF i = 1 THEN parts[i] ELSE flatten[i - 1] \o parts[i]
  <2>1. Is(flatten)
    BY <1>8
  <2> HIDE DEF flatten
  <2> QED
    BY <2>1
<1> DEFINE last == flatten[n]
<1>l. n # 0 => FlattenSeq(parts) = last
  BY DEF FlattenSeq, n
<1> HIDE DEF flatten, Is
<1>10. \A k \in 1 .. n : flatten[k] = g[k]
  <2> DEFINE T == { k \in 0 .. n : k = 0 \/ flatten[k] = g[k] }
  <2>1. 0 \in T
    BY <1>1
  <2>2. \A k \in 0 .. n - 1 : k \in T => k + 1 \in T
    <3> SUFFICES ASSUME NEW k \in 0 .. n - 1, k \in T PROVE flatten[k + 1] = g[k + 1]
      <4>1. \A k \in 0 .. n - 1 : k + 1 \in 0 .. n
        BY <1>1
      <4> QED
        BY <4>1
    <3>1. k + 1 \in 1 .. n /\ (k + 1) - 1 = k
      BY <1>1
    <3>2. flatten[k + 1] = IF k + 1 = 1 THEN parts[k + 1] ELSE flatten[k] \o parts[k + 1]
      <4> DEFINE i == k + 1
      <4>1. i \in 1 .. n /\ i - 1 = k
        BY <3>1
      <4> HIDE DEF i
      <4>2. flatten[i] = IF i = 1 THEN parts[i] ELSE flatten[k] \o parts[i]
        BY <1>9, <4>1
      <4> QED
        BY <4>2 DEF i
    <3>3. g[k + 1] = g[k] \o parts[k + 1]
      BY <1>7, <3>1
    <3>4. CASE k = 0
      <4>1. parts[k + 1] \in V /\ g[k] = <<>> /\ k + 1 = 1
        BY <1>1, <1>6, <3>1, <3>4
      <4> QED
        BY <1>2, <3>2, <3>3, <4>1
    <3>5. CASE k # 0
      <4>1. k + 1 # 1 /\ flatten[k] = g[k]
        BY <1>1, <3>5
      <4> QED
        BY <3>2, <3>3, <4>1
    <3> QED
      BY <3>4, <3>5
  <2> HIDE DEF T
  <2>3. \A k \in 0 .. n : k \in T
    BY <1>1, <2>1, <2>2, InductionTo
  <2>4. \A k \in 1 .. n : k \in 0 .. n /\ k # 0
    BY <1>1
  <2> QED
    BY <2>3, <2>4 DEF T
<1>11. FlattenSeq(parts) = g[n]
  <2>1. CASE n = 0
    BY <1>e, <1>6, <2>1 DEF FlattenSeq, n
  <2>2. CASE n # 0
    <3>1. n \in 1 .. n
      BY <1>1, <2>2
    <3> QED
      BY <1>l, <1>10, <2>2, <3>1
  <2> QED
    BY <2>1, <2>2
<1> QED
  BY <1>6, <1>7, <1>11 DEF n, V

\* Where the parts begin: at[k - 1] elements are before part k.
Begins(at, parts) ==
  /\ at \in [0 .. Len(parts) -> Nat] /\ at[0] = 0
  /\ \A k \in 1 .. Len(parts) : at[k] = at[k - 1] + Len(parts[k])

\* Every element of every part is where it should be, and nothing follows.
LEMMA FlattenParts ==
  ASSUME NEW S, NEW parts \in Seq(Seq(S))
  PROVE  /\ FlattenSeq(parts) \in Seq(S)
         /\ \E at : /\ Begins(at, parts)
                    /\ Len(FlattenSeq(parts)) = at[Len(parts)]
                    /\ \A k \in 1 .. Len(parts) :
                         /\ at[k] <= at[Len(parts)]
                         /\ \A i \in 1 .. Len(parts[k]) :
                              FlattenSeq(parts)[at[k - 1] + i] = parts[k][i]
<1> DEFINE n == Len(parts)
           V == Seq(S)
           all == FlattenSeq(parts)
<1>1. n \in Nat /\ \A k \in 1 .. n : parts[k] \in V
  OBVIOUS
<1>2. PICK g \in [0 .. n -> V] :
        /\ g[0] = <<>> /\ all = g[n]
        /\ \A k \in 1 .. n : g[k] = g[k - 1] \o parts[k]
  BY FlattenChain
<1>c. ASSUME NEW v \in V, NEW w \in V
      PROVE  /\ Len(v) \in Nat /\ Len(w) \in Nat /\ Len(v \o w) = Len(v) + Len(w)
             /\ \A i \in 1 .. Len(v) : (v \o w)[i] = v[i]
             /\ \A i \in 1 .. Len(w) : (v \o w)[Len(v) + i] = w[i]
  OBVIOUS
<1>e. Len(<<>>) = 0
  OBVIOUS
<1> DEFINE at == [k \in 0 .. n |-> Len(g[k])]
           P(m, k) == /\ Len(g[m]) <= Len(g[k])
                      /\ \A i \in 1 .. Len(g[m]) : g[k][i] = g[m][i]
<1> HIDE DEF n, V, all
<1>s. \A k \in 1 .. n : k \in 0 .. n /\ k - 1 \in 0 .. n
  BY <1>1
<1>3. \A k \in 1 .. n :
        /\ Len(g[k - 1]) \in Nat /\ Len(parts[k]) \in Nat
        /\ Len(g[k]) = Len(g[k - 1]) + Len(parts[k])
        /\ \A i \in 1 .. Len(g[k - 1]) : g[k][i] = g[k - 1][i]
        /\ \A i \in 1 .. Len(parts[k]) : g[k][Len(g[k - 1]) + i] = parts[k][i]
  <2> SUFFICES ASSUME NEW k \in 1 .. n
               PROVE  /\ Len(g[k - 1]) \in Nat /\ Len(parts[k]) \in Nat
                      /\ Len(g[k]) = Len(g[k - 1]) + Len(parts[k])
                      /\ \A i \in 1 .. Len(g[k - 1]) : g[k][i] = g[k - 1][i]
                      /\ \A i \in 1 .. Len(parts[k]) : g[k][Len(g[k - 1]) + i] = parts[k][i]
    BY Zenon
  <2> DEFINE v == g[k - 1]
             w == parts[k]
  <2>1. v \in V /\ w \in V /\ g[k] = v \o w
    BY <1>1, <1>2, <1>s
  <2> HIDE DEF v, w
  <2>2. /\ Len(v) \in Nat /\ Len(w) \in Nat /\ Len(g[k]) = Len(v) + Len(w)
        /\ \A i \in 1 .. Len(v) : g[k][i] = v[i]
        /\ \A i \in 1 .. Len(w) : g[k][Len(v) + i] = w[i]
    BY <1>c, <2>1
  <2> QED
    BY <2>2 DEF v, w
<1>4. \A k \in 0 .. n : Len(g[k]) \in Nat
  <2> SUFFICES ASSUME NEW k \in 0 .. n PROVE Len(g[k]) \in Nat
    OBVIOUS
  <2>1. g[k] \in V
    BY <1>2
  <2> QED
    BY <2>1, <1>c
<1>5. at \in [0 .. n -> Nat] /\ at[0] = 0
  <2>1. 0 \in 0 .. n
    BY <1>1
  <2> QED
    BY <1>2, <1>4, <1>e, <2>1
<1>6. \A k \in 1 .. n : at[k] = at[k - 1] + Len(parts[k])
  BY <1>3, <1>s
<1>7. \A k \in 0 .. n : \A m \in 0 .. k : P(m, k)
  <2> DEFINE T == { k \in 0 .. n : \A m \in 0 .. k : P(m, k) }
  <2>1. 0 \in T
    <3>1. \A m \in 0 .. 0 : m = 0
      OBVIOUS
    <3>2. P(0, 0) /\ 0 \in 0 .. n
      BY <1>1, <1>2, <1>e
    <3> HIDE DEF P
    <3> QED
      BY <3>1, <3>2
  <2>2. \A k \in 0 .. n - 1 : k \in T => k + 1 \in T
    <3> SUFFICES ASSUME NEW k \in 0 .. n - 1, k \in T PROVE k + 1 \in T
      BY Zenon
    <3> DEFINE j == k + 1
    <3>1. j \in 1 .. n /\ j \in 0 .. n /\ j - 1 = k /\ k \in 0 .. n
          /\ 0 .. j = (0 .. k) \union {j} /\ 0 .. k \subseteq 0 .. n
      BY <1>1
    <3>2. \A m \in 0 .. k : P(m, k)
      OBVIOUS
    <3> HIDE DEF j, T
    <3>3. /\ Len(parts[j]) \in Nat
          /\ Len(g[j]) = Len(g[k]) + Len(parts[j])
          /\ \A i \in 1 .. Len(g[k]) : g[j][i] = g[k][i]
      BY <1>3, <3>1
    <3>4. ASSUME NEW m \in 0 .. k PROVE P(m, j)
      <4>1. m \in 0 .. n /\ P(m, k)
        BY <3>1, <3>2
      <4>e. Len(g[m]) \in Nat /\ Len(g[k]) \in Nat /\ Len(g[m]) <= Len(g[k])
        BY <1>4, <3>1, <4>1
      <4> DEFINE a == Len(g[m])
                 b == Len(g[k])
                 c == Len(parts[j])
      <4>a. a \in Nat /\ b \in Nat /\ c \in Nat /\ a <= b /\ Len(g[j]) = b + c
        BY <3>3, <4>e
      <4> HIDE DEF b, c
      <4>2. Len(g[m]) <= Len(g[j])
        BY <4>a
      <4> HIDE DEF a
      <4>3. \A i \in 1 .. Len(g[m]) : i \in 1 .. Len(g[k]) /\ g[k][i] = g[m][i]
        BY <4>1, <4>e
      <4> QED
        BY <3>3, <4>2, <4>3
    <3>5. P(j, j)
      BY <1>4, <3>1
    <3> HIDE DEF P
    <3>6. \A m \in 0 .. j : P(m, j)
      BY <3>1, <3>4, <3>5
    <3>7. j \in T
      BY <3>1, <3>6 DEF T
    <3> QED
      BY <3>7 DEF j
  <2> HIDE DEF T, P
  <2>3. \A k \in 0 .. n : k \in T
    BY <1>1, <2>1, <2>2, InductionTo
  <2> QED
    BY <2>3 DEF T
<1>8. Len(all) = at[n] /\ all \in V
  <2>1. n \in 0 .. n
    BY <1>1
  <2> QED
    BY <1>2, <2>1
<1>9. ASSUME NEW k \in 1 .. n
      PROVE  /\ at[k] <= at[n]
             /\ \A i \in 1 .. Len(parts[k]) : all[at[k - 1] + i] = parts[k][i]
  <2>1. k \in 0 .. n /\ n \in 0 .. n /\ P(k, n) /\ k - 1 \in 0 .. n
    BY <1>1, <1>7, <1>s
  <2>2. at[k] <= at[n]
    BY <2>1
  <2>3. ASSUME NEW i \in 1 .. Len(parts[k]) PROVE all[at[k - 1] + i] = parts[k][i]
    <3> DEFINE j == Len(g[k - 1]) + i
    <3>e. /\ Len(g[k - 1]) \in Nat /\ Len(parts[k]) \in Nat
          /\ Len(g[k]) = Len(g[k - 1]) + Len(parts[k])
          /\ g[k][Len(g[k - 1]) + i] = parts[k][i]
      BY <1>3
    <3> DEFINE a == Len(g[k - 1])
               b == Len(parts[k])
    <3>a. a \in Nat /\ b \in Nat /\ Len(g[k]) = a + b /\ i \in 1 .. b
      BY <3>e
    <3>b. j = a + i
      OBVIOUS
    <3> HIDE DEF at, a, b, j, P
    <3>1. j \in 1 .. Len(g[k]) /\ g[k][j] = parts[k][i]
      <4>1. j \in 1 .. Len(g[k])
        BY <3>a, <3>b
      <4> QED
        BY <3>e, <4>1 DEF j
    <3>2. at[k - 1] + i = j
      BY <2>1 DEF at, j
    <3>3. g[n][j] = g[k][j]
      BY <2>1, <3>1 DEF P
    <3> QED
      BY <1>2, <3>1, <3>2, <3>3
  <2> QED
    BY <2>2, <2>3
<1> HIDE DEF at
<1>10. Begins(at, parts)
  BY <1>5, <1>6 DEF Begins, n
<1> QED
  BY <1>8, <1>9, <1>10 DEF n, V, all

\* Functions on an initial segment are sequences.
LEMMA MapSeq ==
  ASSUME NEW S, NEW n \in Nat, NEW f \in [1 .. n -> S]
  PROVE  f \in Seq(S) /\ Len(f) = n /\ DOMAIN f = 1 .. n
BY SeqDef

\* c is a followed by b.
Joined(c, a, b) ==
  /\ Len(a) \in Nat /\ Len(b) \in Nat /\ Len(c) = Len(a) + Len(b)
  /\ \A i \in 1 .. Len(a) : c[i] = a[i]
  /\ \A i \in 1 .. Len(b) : c[Len(a) + i] = b[i]

\* Concatenation joins.
LEMMA ConcatIndex ==
  ASSUME NEW S, NEW a \in Seq(S), NEW b \in Seq(S)
  PROVE  a \o b \in Seq(S) /\ Joined(a \o b, a, b)
BY DEF Joined

\* The part of s from m to n is t.
LEMMA PartIs ==
  ASSUME NEW S, NEW s \in Seq(S), NEW t \in Seq(S), NEW m \in Nat, NEW n \in Nat,
         1 <= m, n <= Len(s), n - m + 1 = Len(t),
         \A i \in 1 .. Len(t) : s[m - 1 + i] = t[i]
  PROVE  SubSeq(s, m, n) = t
<1> DEFINE u == SubSeq(s, m, n)
<1>1. Len(s) \in Nat /\ Len(t) \in Nat
  OBVIOUS
<1>2. \A i \in m .. n : s[i] \in S
  BY <1>1
<1>3. /\ u \in Seq(S) /\ Len(u) = IF m <= n THEN n - m + 1 ELSE 0
      /\ \A i \in 1 .. n - m + 1 : u[i] = s[m + i - 1]
  BY <1>2, SubSeqProperties
<1> HIDE DEF u
<1>4. Len(u) = Len(t)
  BY <1>1, <1>3
<1>5. ASSUME NEW i \in 1 .. Len(u) PROVE u[i] = t[i]
  <2>1. i \in 1 .. n - m + 1 /\ i \in 1 .. Len(t) /\ m + i - 1 = m - 1 + i
    BY <1>1, <1>4
  <2> QED
    BY <1>3, <2>1
<1>6. u = t
  BY <1>3, <1>4, <1>5, SeqEqual
<1> QED
  BY <1>6 DEF u

\* A sequence without its element i.
LEMMA RemoveIndex ==
  ASSUME NEW S, NEW t \in Seq(S), NEW i \in 1 .. Len(t)
  PROVE  /\ RemoveAt(t, i) \in Seq(S) /\ Len(RemoveAt(t, i)) = Len(t) - 1
         /\ \A k \in 1 .. Len(t) - 1 : RemoveAt(t, i)[k] = t[IF k < i THEN k ELSE k + 1]
<1> DEFINE n == Len(t)
           a == SubSeq(t, 1, i - 1)
           b == SubSeq(t, i + 1, n)
           u == a \o b
           from(k) == IF k < i THEN k ELSE k + 1
<1>1. n \in Nat /\ i \in 1 .. n /\ \A k \in 1 .. n : t[k] \in S
  OBVIOUS
<1>2. RemoveAt(t, i) = u
  BY DEF RemoveAt
<1> HIDE DEF n
<1>3. /\ a \in Seq(S) /\ Len(a) = i - 1 /\ \A k \in 1 .. i - 1 : a[k] = t[k]
  <2>1. \A k \in 1 .. i - 1 : t[k] \in S
    BY <1>1
  <2>2. 1 \in Int /\ i - 1 \in Int
    BY <1>1
  <2>3. /\ a \in Seq(S) /\ Len(a) = IF 1 <= i - 1 THEN (i - 1) - 1 + 1 ELSE 0
        /\ \A k \in 1 .. (i - 1) - 1 + 1 : a[k] = t[1 + k - 1]
    BY <2>1, <2>2, SubSeqProperties
  <2>4. (i - 1) - 1 + 1 = i - 1 /\ (\A k \in 1 .. i - 1 : 1 + k - 1 = k)
        /\ (~(1 <= i - 1) => i - 1 = 0)
    BY <1>1
  <2> HIDE DEF a
  <2> QED
    BY <2>3, <2>4
<1>4. /\ b \in Seq(S) /\ Len(b) = n - i /\ \A k \in 1 .. n - i : b[k] = t[i + k]
  <2>1. \A k \in i + 1 .. n : t[k] \in S
    BY <1>1
  <2>2. i + 1 \in Int /\ n \in Int
    BY <1>1
  <2>3. /\ b \in Seq(S) /\ Len(b) = IF i + 1 <= n THEN n - (i + 1) + 1 ELSE 0
        /\ \A k \in 1 .. n - (i + 1) + 1 : b[k] = t[(i + 1) + k - 1]
    BY <2>1, <2>2, SubSeqProperties
  <2>4. n - (i + 1) + 1 = n - i /\ (\A k \in 1 .. n - i : (i + 1) + k - 1 = i + k)
        /\ (~(i + 1 <= n) => n - i = 0)
    BY <1>1
  <2> HIDE DEF b
  <2> QED
    BY <2>3, <2>4
<1> HIDE DEF a, b
<1>5. u \in Seq(S) /\ Joined(u, a, b)
  BY <1>3, <1>4, ConcatIndex
<1> HIDE DEF u
<1>6. Len(u) = n - 1
  BY <1>1, <1>3, <1>4, <1>5 DEF Joined
<1>7. ASSUME NEW k \in 1 .. n - 1 PROVE u[k] = t[from(k)]
  <2>1. CASE k < i
    <3>1. k \in 1 .. Len(a) /\ k \in 1 .. i - 1
      BY <1>1, <1>3, <2>1
    <3>2. u[k] = t[k]
      BY <1>3, <1>5, <3>1 DEF Joined
    <3> QED
      BY <2>1, <3>2
  <2>2. CASE ~(k < i)
    <3> DEFINE j == k - (i - 1)
    <3>1. j \in 1 .. n - i /\ Len(a) + j = k /\ i + j = k + 1
      BY <1>1, <1>3, <2>2
    <3> HIDE DEF j
    <3>2. u[Len(a) + j] = b[j] /\ b[j] = t[i + j]
      BY <1>4, <1>5, <3>1 DEF Joined
    <3> QED
      BY <2>2, <3>1, <3>2
  <2> QED
    BY <2>1, <2>2
<1> QED
  BY <1>2, <1>5, <1>6, <1>7 DEF n

-----------------------------------------------------------------------------
(* Sums of naturals over finite sets.                                      *)

\* What holds of the empty set, and of a set with one more element if it holds
\* of the set, holds of a finite set.
LEMMA SetInduction ==
  ASSUME NEW S, IsFiniteSet(S), NEW Good, {} \in Good,
         \A T \in SUBSET S : \A x \in S \ T : T \in Good => T \union {x} \in Good
  PROVE  S \in Good
<1> DEFINE Bad == { n \in Nat : \E T \in SUBSET S : T \notin Good /\ Cardinality(T) = n }
<1>1. ASSUME NEW T \in SUBSET S
      PROVE  IsFiniteSet(T) /\ Cardinality(T) \in Nat
  BY FS_Subset, FS_CardinalityType
<1>2. SUFFICES ASSUME S \notin Good PROVE FALSE
  OBVIOUS
<1>3. Bad \in SUBSET Nat /\ Bad # {}
  <2>1. Cardinality(S) \in Bad
    BY <1>1, <1>2
  <2> QED
    BY <2>1
<1>4. PICK n \in Bad : \A m \in Bad : n <= m
  <2> HIDE DEF Bad
  <2> QED
    BY <1>3, LeastNat
<1>5. PICK T \in SUBSET S : T \notin Good /\ Cardinality(T) = n
  BY <1>4
<1>6. PICK x \in T : TRUE
  BY <1>5
<1>7. IsFiniteSet(T \ {x}) /\ Cardinality(T \ {x}) = n - 1
  BY <1>1, <1>5, <1>6, FS_RemoveElement
<1>8. (T \ {x}) \union {x} = T /\ x \in S \ (T \ {x}) /\ T \ {x} \in SUBSET S
  BY <1>6
<1>9. T \ {x} \notin Good
  BY <1>5, <1>8
<1>10. n - 1 \in Bad
  BY <1>1, <1>7, <1>8, <1>9
<1> HIDE DEF Bad
<1>11. n \in Nat /\ n <= n - 1
  BY <1>3, <1>4, <1>10
<1> QED
  BY <1>11

\* m[T] is the sum of f over T, for every subset T of S.
IsSum(m, f, S) ==
  /\ m \in [SUBSET S -> Nat]
  /\ m[{}] = 0
  /\ \A T \in SUBSET S : \A x \in T : m[T] = m[T \ {x}] + f[x]

\* A sum function can be carried on by one element.
LEMMA SumStep ==
  ASSUME NEW T, NEW x, x \notin T, NEW f, \A y \in T \union {x} : f[y] \in Nat,
         NEW m, IsSum(m, f, T)
  PROVE  \E more : IsSum(more, f, T \union {x})
<1> DEFINE S == T \union {x}
           more == [s \in SUBSET S |-> IF x \in s THEN m[s \ {x}] + f[x] ELSE m[s]]
<1>1. /\ m \in [SUBSET T -> Nat] /\ m[{}] = 0
      /\ \A s \in SUBSET T : \A y \in s : m[s] = m[s \ {y}] + f[y]
  BY DEF IsSum
<1>2. ASSUME NEW s \in SUBSET S
      PROVE  /\ s \ {x} \in SUBSET T /\ m[s \ {x}] \in Nat
             /\ x \notin s => s \in SUBSET T /\ m[s] \in Nat
  BY <1>1
<1>3. more \in [SUBSET S -> Nat]
  <2>1. f[x] \in Nat
    OBVIOUS
  <2>2. ASSUME NEW s \in SUBSET S
        PROVE  (IF x \in s THEN m[s \ {x}] + f[x] ELSE m[s]) \in Nat
    BY <1>2, <2>1
  <2> QED
    BY <2>2
<1>4. more[{}] = 0
  BY <1>1
<1>5. ASSUME NEW s \in SUBSET S, NEW y \in s
      PROVE  more[s] = more[s \ {y}] + f[y]
  <2>1. s \ {y} \in SUBSET S
    OBVIOUS
  <2>2. CASE y = x
    <3>1. more[s] = m[s \ {x}] + f[x] /\ more[s \ {y}] = m[s \ {x}]
      BY <2>1, <2>2
    <3> QED
      BY <2>2, <3>1
  <2>3. CASE y # x /\ x \notin s
    <3>1. more[s] = m[s] /\ more[s \ {y}] = m[s \ {y}] /\ s \in SUBSET T
      BY <2>1, <2>3
    <3> QED
      BY <1>1, <3>1
  <2>4. CASE y # x /\ x \in s
    <3>1. more[s] = m[s \ {x}] + f[x] /\ more[s \ {y}] = m[(s \ {y}) \ {x}] + f[x]
      BY <2>1, <2>4
    <3>2. (s \ {y}) \ {x} = (s \ {x}) \ {y} /\ y \in s \ {x} /\ s \ {x} \in SUBSET T
      BY <2>4
    <3>3. m[s \ {x}] = m[(s \ {x}) \ {y}] + f[y]
      BY <1>1, <3>2
    <3>4. m[s \ {x}] \in Nat /\ m[(s \ {x}) \ {y}] \in Nat
      BY <1>1, <3>2
    <3> HIDE DEF more
    <3>5. more[s] = (m[(s \ {x}) \ {y}] + f[y]) + f[x]
      BY <3>1, <3>3
    <3>6. more[s \ {y}] = m[(s \ {x}) \ {y}] + f[x]
      BY <3>1, <3>2
    <3>7. f[y] \in Nat /\ f[x] \in Nat
      OBVIOUS
    <3> QED
      BY <3>4, <3>5, <3>6, <3>7
  <2> QED
    BY <2>2, <2>3, <2>4
<1>6. IsSum(more, f, S)
  <2> HIDE DEF more
  <2> QED
    BY <1>3, <1>4, <1>5 DEF IsSum
<1> QED
  BY <1>6

\* Every finite set has a sum function.
LEMMA SumExists ==
  ASSUME NEW S, IsFiniteSet(S), NEW f, \A y \in S : f[y] \in Nat
  PROVE  \E m : IsSum(m, f, S)
<1> DEFINE Good == { T \in SUBSET S : \E m : IsSum(m, f, T) }
<1>1. {} \in Good
  <2> DEFINE m == [s \in SUBSET {} |-> 0]
  <2>1. IsSum(m, f, {})
    BY DEF IsSum
  <2> QED
    BY <2>1
<1>2. ASSUME NEW T \in SUBSET S, NEW x \in S \ T, T \in Good
      PROVE  T \union {x} \in Good
  <2>1. PICK m : IsSum(m, f, T)
    BY <1>2
  <2>2. \E more : IsSum(more, f, T \union {x})
    BY <2>1, SumStep
  <2> QED
    BY <2>2
<1> HIDE DEF Good
<1>3. S \in Good
  BY <1>1, <1>2, SetInduction
<1> QED
  BY <1>3 DEF Good

\* The sum of f over S.
Total(f, S) == (CHOOSE m : IsSum(m, f, S))[S]

\* Sums of functions that agree on S, over sets around S, agree.
LEMMA SumUnique ==
  ASSUME NEW S, IsFiniteSet(S), NEW f, NEW g, \A y \in S : f[y] \in Nat /\ f[y] = g[y],
         NEW A, S \subseteq A, NEW m, IsSum(m, f, A),
         NEW B, S \subseteq B, NEW k, IsSum(k, g, B)
  PROVE  m[S] = k[S] /\ m[S] \in Nat
<1> DEFINE Good == { T \in SUBSET S : m[T] = k[T] }
<1>1. {} \in Good
  BY DEF IsSum
<1>2. ASSUME NEW T \in SUBSET S, NEW x \in S \ T, T \in Good
      PROVE  T \union {x} \in Good
  <2>1. /\ T \union {x} \in SUBSET S /\ T \union {x} \in SUBSET A /\ T \union {x} \in SUBSET B
        /\ x \in T \union {x} /\ (T \union {x}) \ {x} = T
    OBVIOUS
  <2>2. m[T \union {x}] = m[T] + f[x] /\ k[T \union {x}] = k[T] + g[x]
    BY <2>1 DEF IsSum
  <2>3. m[T] = k[T] /\ f[x] = g[x]
    BY <1>2
  <2> QED
    BY <2>1, <2>2, <2>3
<1>3. S \in Good
  <2> HIDE DEF Good
  <2> QED
    BY <1>1, <1>2, SetInduction
<1>4. m[S] \in Nat
  BY DEF IsSum
<1> QED
  BY <1>3, <1>4

\* Any sum function gives the total.
LEMMA TotalIs ==
  ASSUME NEW S, IsFiniteSet(S), NEW f, NEW g, \A y \in S : f[y] \in Nat /\ f[y] = g[y],
         NEW A, S \subseteq A, NEW m, IsSum(m, g, A)
  PROVE  Total(f, S) = m[S] /\ Total(f, S) \in Nat
<1>1. PICK k : IsSum(k, f, S)
  BY SumExists
<1>2. IsSum(CHOOSE w : IsSum(w, f, S), f, S)
  BY <1>1
<1> DEFINE j == CHOOSE w : IsSum(w, f, S)
<1>3. IsSum(j, f, S) /\ Total(f, S) = j[S]
  BY <1>2 DEF Total
<1> HIDE DEF j
<1> QED
  BY <1>3, SumUnique

\* A sum over nothing.
LEMMA TotalEmpty ==
  ASSUME NEW f
  PROVE  Total(f, {}) = 0
<1> DEFINE m == [s \in SUBSET {} |-> 0]
<1>1. IsSum(m, f, {})
  BY DEF IsSum
<1>2. m[{}] = 0
  OBVIOUS
<1>3. IsFiniteSet({})
  BY FS_EmptySet
<1> HIDE DEF m
<1> QED
  BY <1>1, <1>2, <1>3, TotalIs

\* An element more adds its value.
LEMMA TotalAdd ==
  ASSUME NEW S, IsFiniteSet(S), NEW x, x \notin S,
         NEW f, \A y \in S \union {x} : f[y] \in Nat
  PROVE  /\ Total(f, S \union {x}) = Total(f, S) + f[x]
         /\ Total(f, S) \in Nat /\ Total(f, S \union {x}) \in Nat
<1> DEFINE A == S \union {x}
<1>1. IsFiniteSet(A)
  BY FS_AddElement
<1>2. PICK m : IsSum(m, f, A)
  BY <1>1, SumExists
<1>3. S \subseteq A /\ A \subseteq A /\ x \in A /\ A \ {x} = S /\ A \in SUBSET A
  OBVIOUS
<1>4. \A y \in A : f[y] \in Nat /\ f[y] = f[y]
  OBVIOUS
<1>5. \A y \in S : f[y] \in Nat /\ f[y] = f[y]
  OBVIOUS
<1> HIDE DEF A
<1>6. Total(f, A) = m[A] /\ Total(f, A) \in Nat
  BY <1>1, <1>2, <1>3, <1>4, TotalIs
<1>7. Total(f, S) = m[S] /\ Total(f, S) \in Nat
  BY <1>2, <1>3, <1>5, TotalIs
<1>8. m[A] = m[S] + f[x]
  BY <1>2, <1>3 DEF IsSum
<1> QED
  BY <1>6, <1>7, <1>8 DEF A

\* A sum depends on the values at its elements alone, and is a natural.
LEMMA TotalSame ==
  ASSUME NEW S, IsFiniteSet(S), NEW f, NEW g, \A y \in S : f[y] \in Nat /\ f[y] = g[y]
  PROVE  Total(f, S) = Total(g, S) /\ Total(f, S) \in Nat
<1>1. \A y \in S : g[y] \in Nat /\ g[y] = f[y]
  OBVIOUS
<1>2. PICK m : IsSum(m, g, S)
  BY <1>1, SumExists
<1>3. \A y \in S : g[y] \in Nat /\ g[y] = g[y]
  OBVIOUS
<1>4. Total(f, S) = m[S] /\ Total(f, S) \in Nat
  BY <1>2, TotalIs
<1>5. Total(g, S) = m[S]
  BY <1>2, <1>3, TotalIs
<1> QED
  BY <1>4, <1>5

\* What a recursion that takes out one element after the other computes.
LEMMA TotalByRecursion ==
  ASSUME NEW S, IsFiniteSet(S), NEW f, \A y \in S : f[y] \in Nat,
         NEW it,
         \A s \in SUBSET S :
           it[s] = IF s = {} THEN 0
                   ELSE f[CHOOSE x \in s : TRUE] + it[s \ {CHOOSE x \in s : TRUE}]
  PROVE  it[S] = Total(f, S) /\ Total(f, S) \in Nat
<1>1. PICK m : IsSum(m, f, S)
  BY SumExists
<1> DEFINE Bad == { n \in Nat : \E s \in SUBSET S : it[s] # m[s] /\ Cardinality(s) = n }
<1>2. ASSUME NEW s \in SUBSET S
      PROVE  IsFiniteSet(s) /\ Cardinality(s) \in Nat
  BY FS_Subset, FS_CardinalityType
<1>3. \A s \in SUBSET S : it[s] = m[s]
  <2> SUFFICES ASSUME NEW s \in SUBSET S, it[s] # m[s] PROVE FALSE
    OBVIOUS
  <2>1. Cardinality(s) \in Bad
    BY <1>2
  <2>2. PICK n \in Bad : \A j \in Bad : n <= j
    <3>1. Bad \in SUBSET Nat /\ Bad # {}
      BY <2>1
    <3> HIDE DEF Bad
    <3> QED
      BY <3>1, LeastNat
  <2>3. PICK t \in SUBSET S : it[t] # m[t] /\ Cardinality(t) = n
    BY <2>2
  <2>4. t # {}
    BY <1>1, <2>3 DEF IsSum
  <2> DEFINE x == CHOOSE y \in t : TRUE
  <2>5. x \in t /\ it[t] = f[x] + it[t \ {x}]
    BY <2>4
  <2> HIDE DEF x
  <2>6. Cardinality(t \ {x}) = n - 1
    BY <1>2, <2>3, <2>5, FS_RemoveElement
  <2>7. t \ {x} \in SUBSET S /\ n \in Nat
    BY <2>2
  <2>8. it[t \ {x}] = m[t \ {x}]
    <3>1. CASE it[t \ {x}] # m[t \ {x}]
      <4>1. n - 1 \in Bad
        BY <1>2, <2>6, <2>7, <3>1
      <4> HIDE DEF Bad
      <4>2. n <= n - 1
        BY <2>2, <4>1
      <4> QED
        BY <2>7, <4>2
    <3> QED
      BY <3>1
  <2>9. m[t] = m[t \ {x}] + f[x] /\ m[t \ {x}] \in Nat /\ f[x] \in Nat
    BY <1>1, <2>5, <2>7 DEF IsSum
  <2> QED
    BY <2>3, <2>5, <2>8, <2>9
<1>4. Total(f, S) = m[S] /\ Total(f, S) \in Nat
  <2>1. \A y \in S : f[y] \in Nat /\ f[y] = f[y]
    OBVIOUS
  <2> QED
    BY <1>1, <2>1, TotalIs
<1> QED
  BY <1>3, <1>4

\* The sum over two sets with nothing in common.
LEMMA TotalUnion ==
  ASSUME NEW A, IsFiniteSet(A), NEW B, IsFiniteSet(B), A \intersect B = {},
         NEW f, \A y \in A \union B : f[y] \in Nat
  PROVE  /\ Total(f, A \union B) = Total(f, A) + Total(f, B)
         /\ Total(f, A) \in Nat /\ Total(f, B) \in Nat
<1> DEFINE Good == { T \in SUBSET B : Total(f, A \union T) = Total(f, A) + Total(f, T) }
<1>1. Total(f, A) \in Nat
  BY TotalSame
<1>2. {} \in Good
  <2>1. A \union {} = A /\ Total(f, {}) = 0
    BY TotalEmpty
  <2> QED
    BY <1>1, <2>1
<1>3. ASSUME NEW T \in SUBSET B, NEW x \in B \ T, T \in Good
      PROVE  T \union {x} \in Good
  <2>1. IsFiniteSet(T)
    BY FS_Subset
  <2>2. IsFiniteSet(A \union T)
    BY <2>1, FS_Union
  <2>3. Total(f, T \union {x}) = Total(f, T) + f[x] /\ Total(f, T) \in Nat
    BY <2>1, TotalAdd
  <2>4. x \notin A \union T /\ \A y \in (A \union T) \union {x} : f[y] \in Nat
    OBVIOUS
  <2>5. Total(f, (A \union T) \union {x}) = Total(f, A \union T) + f[x]
    BY <2>2, <2>4, TotalAdd
  <2>6. Total(f, A \union T) = Total(f, A) + Total(f, T)
    BY <1>3
  <2>7. f[x] \in Nat /\ T \union {x} \in SUBSET B /\ (A \union T) \union {x} = A \union (T \union {x})
    OBVIOUS
  <2>8. Total(f, A \union (T \union {x})) = Total(f, A) + Total(f, T \union {x})
    BY <1>1, <2>3, <2>5, <2>6, <2>7
  <2> QED
    BY <2>7, <2>8
<1>4. B \in Good
  <2> HIDE DEF Good
  <2> QED
    BY <1>2, <1>3, SetInduction
<1>5. Total(f, B) \in Nat
  BY TotalSame
<1> QED
  BY <1>1, <1>4, <1>5

\* The sum over a disjoint family is the sum of the sums.
LEMMA TotalFamily ==
  ASSUME NEW K, IsFiniteSet(K), NEW I, \A k \in K : IsFiniteSet(I[k]),
         \A j, k \in K : j # k => I[j] \intersect I[k] = {},
         NEW f, \A k \in K : \A y \in I[k] : f[y] \in Nat,
         NEW g, \A k \in K : g[k] = Total(f, I[k])
  PROVE  /\ Total(g, K) = Total(f, UNION { I[k] : k \in K })
         /\ Total(g, K) \in Nat
<1> DEFINE All(T) == UNION { I[k] : k \in T }
           Good == { T \in SUBSET K : IsFiniteSet(All(T)) /\ Total(g, T) = Total(f, All(T)) }
<1>1. \A k \in K : g[k] \in Nat
  BY TotalSame
<1>2. {} \in Good
  <2>1. All({}) = {}
    OBVIOUS
  <2> HIDE DEF All
  <2> QED
    BY <2>1, TotalEmpty, FS_EmptySet
<1>3. ASSUME NEW T \in SUBSET K, NEW x \in K \ T, T \in Good
      PROVE  T \union {x} \in Good
  <2>1. IsFiniteSet(T) /\ IsFiniteSet(I[x])
    BY FS_Subset
  <2>2. All(T \union {x}) = All(T) \union I[x]
    OBVIOUS
  <2>3. All(T) \intersect I[x] = {}
    OBVIOUS
  <2>4. \A y \in All(T) \union I[x] : f[y] \in Nat
    OBVIOUS
  <2>5. IsFiniteSet(All(T)) /\ Total(g, T) = Total(f, All(T))
    BY <1>3
  <2> HIDE DEF All
  <2>6. IsFiniteSet(All(T \union {x}))
    <3>1. IsFiniteSet(All(T) \union I[x])
      BY <2>1, <2>5, FS_Union, Zenon
    <3> QED
      BY <2>2, <3>1
  <2>7. Total(f, All(T) \union I[x]) = Total(f, All(T)) + Total(f, I[x])
    BY <2>1, <2>3, <2>4, <2>5, TotalUnion
  <2>8. Total(g, T \union {x}) = Total(g, T) + g[x]
    <3>1. \A y \in T \union {x} : g[y] \in Nat
      BY <1>1
    <3> QED
      BY <2>1, <3>1, TotalAdd
  <2>9. g[x] = Total(f, I[x])
    OBVIOUS
  <2> QED
    BY <2>2, <2>5, <2>6, <2>7, <2>8, <2>9
<1>4. K \in Good
  <2> HIDE DEF Good
  <2> QED
    BY <1>2, <1>3, SetInduction
<1>5. Total(g, K) \in Nat
  BY <1>1, TotalSame
<1> QED
  BY <1>4, <1>5

\* A fold follows a sequence of values from its first on.
LEMMA FoldTo ==
  ASSUME NEW n \in Nat, NEW G, NEW it, it[{}] = G[0],
         \A k \in 1 .. n : it[1 .. k - 1] = G[k - 1] => it[1 .. k] = G[k]
  PROVE  it[1 .. n] = G[n]
<1> DEFINE S == { k \in 0 .. n : it[1 .. k] = G[k] }
<1>1. 1 .. 0 = {} /\ 0 \in 0 .. n /\ n \in 0 .. n
  OBVIOUS
<1>2. 0 \in S
  BY <1>1
<1>3. \A k \in 0 .. n - 1 : k \in S => k + 1 \in S
  <2> SUFFICES ASSUME NEW k \in 0 .. n - 1, it[1 .. k] = G[k] PROVE k + 1 \in S
    OBVIOUS
  <2>1. k + 1 \in 1 .. n /\ (k + 1) - 1 = k /\ k + 1 \in 0 .. n
    OBVIOUS
  <2>2. it[1 .. (k + 1) - 1] = G[(k + 1) - 1]
    BY <2>1
  <2>3. it[1 .. k + 1] = G[k + 1]
    BY <2>1, <2>2
  <2> QED
    BY <2>1, <2>3
<1> HIDE DEF S
<1>4. n \in S
  BY <1>1, <1>2, <1>3, InductionTo
<1> QED
  BY <1>4 DEF S

\* The sum over one element, and the sum of nothing but 0.
LEMMA TotalOne ==
  ASSUME NEW x, NEW f, f[x] \in Nat
  PROVE  Total(f, {x}) = f[x]
<1>1. {} \union {x} = {x} /\ x \notin {} /\ \A y \in {} \union {x} : f[y] \in Nat
  OBVIOUS
<1>2. Total(f, {} \union {x}) = Total(f, {}) + f[x]
  BY <1>1, TotalAdd, FS_EmptySet
<1>3. Total(f, {}) = 0
  BY TotalEmpty
<1> QED
  BY <1>1, <1>2, <1>3

\* A sum over a set that contains what is not 0.
LEMMA TotalZero ==
  ASSUME NEW S, IsFiniteSet(S), NEW f, \A y \in S : f[y] = 0
  PROVE  Total(f, S) = 0
<1> DEFINE Good == { T \in SUBSET S : Total(f, T) = 0 }
<1>1. {} \in Good
  BY TotalEmpty
<1>2. ASSUME NEW T \in SUBSET S, NEW x \in S \ T, T \in Good
      PROVE  T \union {x} \in Good
  <2>1. IsFiniteSet(T) /\ \A y \in T \union {x} : f[y] \in Nat
    BY FS_Subset
  <2>2. Total(f, T \union {x}) = Total(f, T) + f[x]
    BY <2>1, TotalAdd
  <2> QED
    BY <1>2, <2>2
<1> HIDE DEF Good
<1>3. S \in Good
  BY <1>1, <1>2, SetInduction
<1> QED
  BY <1>3 DEF Good

\* What is 0 does not count.
LEMMA TotalOnly ==
  ASSUME NEW S, IsFiniteSet(S), NEW T \in SUBSET S,
         NEW f, \A y \in S : f[y] \in Nat, \A y \in S \ T : f[y] = 0
  PROVE  Total(f, S) = Total(f, T) /\ Total(f, S) \in Nat
<1>1. IsFiniteSet(T) /\ IsFiniteSet(S \ T)
  BY FS_Subset
<1>2. T \union (S \ T) = S /\ T \intersect (S \ T) = {}
  OBVIOUS
<1>3. Total(f, T \union (S \ T)) = Total(f, T) + Total(f, S \ T) /\ Total(f, T) \in Nat
  BY <1>1, <1>2, TotalUnion
<1>4. Total(f, S \ T) = 0
  BY <1>1, TotalZero
<1>5. Total(f, S) = Total(f, T) + Total(f, S \ T)
  BY <1>2, <1>3
<1> QED
  BY <1>3, <1>4, <1>5

\* The sum over the elements h[x] of a set, all different.
LEMMA TotalImage ==
  ASSUME NEW S, IsFiniteSet(S), NEW h, \A x, y \in S : h[x] = h[y] => x = y,
         NEW f, NEW g, \A x \in S : f[x] \in Nat /\ f[x] = g[h[x]]
  PROVE  Total(f, S) = Total(g, { h[x] : x \in S }) /\ IsFiniteSet({ h[x] : x \in S })
<1> DEFINE I == [x \in S |-> {h[x]}]
<1>1. \A x \in S : IsFiniteSet(I[x]) /\ I[x] = {h[x]}
  BY FS_Singleton
<1>2. \A x, y \in S : x # y => I[x] \intersect I[y] = {}
  OBVIOUS
<1>3. \A x \in S : \A y \in I[x] : g[y] \in Nat
  OBVIOUS
<1>4. \A x \in S : f[x] = Total(g, I[x])
  <2> SUFFICES ASSUME NEW x \in S PROVE f[x] = Total(g, {h[x]})
    BY <1>1
  <2> QED
    BY TotalOne
<1>5. UNION { I[x] : x \in S } = { h[x] : x \in S }
  OBVIOUS
<1> HIDE DEF I
<1>6. Total(f, S) = Total(g, UNION { I[x] : x \in S })
  BY <1>1, <1>2, <1>3, <1>4, TotalFamily
<1>7. IsFiniteSet({ h[x] : x \in S })
  <2> DEFINE F == [x \in S |-> h[x]]
  <2>1. F \in Surjection(S, { h[x] : x \in S })
    BY DEF Surjection
  <2> QED
    BY <2>1, FS_Surjection
<1> QED
  BY <1>5, <1>6, <1>7

-----------------------------------------------------------------------------
(* Sums modulo m.                                                          *)

\* A number has one remainder.
LEMMA ModUnique ==
  ASSUME NEW q \in Nat, NEW r \in Nat, NEW m \in Nat \ {0}, r < m
  PROVE  (q * m + r) % m = r
OBVIOUS

\* A part of a sum may be taken modulo m first.
LEMMA ModAdd ==
  ASSUME NEW a \in Nat, NEW b \in Nat, NEW m \in Nat \ {0}
  PROVE  ((a % m) + b) % m = (a + b) % m
<1> DEFINE q == a \div m
           r == a % m
           c == r + b
           p == c \div m
           s == c % m
<1>1. a = q * m + r /\ r \in 0 .. m - 1 /\ q \in Nat
  OBVIOUS
<1>2. c \in Nat
  BY <1>1
<1> HIDE DEF q, r, c
<1>3. c = p * m + s /\ s \in 0 .. m - 1 /\ p \in Nat
  BY <1>2
<1> HIDE DEF p, s
<1>4. a + b = q * m + c
  BY <1>1, <1>2 DEF c
<1>5. q * m + p * m = (q + p) * m /\ q + p \in Nat
  BY <1>1, <1>3
<1>6. q * m \in Nat /\ p * m \in Nat /\ (q + p) * m \in Nat
  BY <1>1, <1>3
<1>7. a + b = (q + p) * m + s
  BY <1>3, <1>4, <1>5, <1>6
<1>8. (a + b) % m = s
  <2> DEFINE u == q + p
  <2>1. u \in Nat /\ a + b = u * m + s /\ s \in Nat /\ s < m
    BY <1>3, <1>5, <1>7
  <2> HIDE DEF u
  <2> QED
    BY <2>1, ModUnique
<1>9. c % m = s
  BY DEF s
<1> QED
  BY <1>8, <1>9 DEF c, r

\* A remainder is what it is the remainder of, and below m.
LEMMA ModIn ==
  ASSUME NEW a \in Nat, NEW m \in Nat \ {0}
  PROVE  a % m \in 0 .. m - 1 /\ (a % m) % m = a % m
<1>1. a % m \in 0 .. m - 1
  OBVIOUS
<1>2. 0 * m + (a % m) = a % m
  BY <1>1
<1> QED
  BY <1>1, <1>2, ModUnique

\* The same remainder.
Alike(a, b, m) == a % m = b % m

\* Sums of what is alike are alike.
LEMMA AlikeSum ==
  ASSUME NEW a \in Nat, NEW b \in Nat, NEW c \in Nat, NEW d \in Nat, NEW m \in Nat \ {0},
         Alike(a, c, m), Alike(b, d, m)
  PROVE  Alike(a + b, c + d, m)
<1>1. a % m \in Nat /\ b % m \in Nat
  BY ModIn
<1>2. ((a % m) + b) % m = (a + b) % m /\ ((c % m) + b) % m = (c + b) % m
  BY ModAdd
<1>3. ((b % m) + c) % m = (b + c) % m /\ ((d % m) + c) % m = (d + c) % m
  BY ModAdd
<1>4. c + b = b + c /\ d + c = c + d
  OBVIOUS
<1> QED
  BY <1>2, <1>3, <1>4 DEF Alike

\* The same for a sum over a set.
LEMMA AlikeSums ==
  ASSUME NEW S, IsFiniteSet(S), NEW m \in Nat \ {0},
         NEW f, NEW g, \A y \in S : f[y] \in Nat /\ g[y] \in Nat /\ Alike(f[y], g[y], m)
  PROVE  Alike(Total(f, S), Total(g, S), m)
<1> DEFINE Good == { T \in SUBSET S : Alike(Total(f, T), Total(g, T), m) }
<1>1. {} \in Good
  <2>1. Total(f, {}) = Total(g, {})
    BY TotalEmpty
  <2> QED
    BY <2>1 DEF Alike
<1>2. ASSUME NEW T \in SUBSET S, NEW x \in S \ T, T \in Good
      PROVE  T \union {x} \in Good
  <2>1. IsFiniteSet(T) /\ \A y \in T \union {x} : f[y] \in Nat /\ g[y] \in Nat
    BY FS_Subset
  <2>2. Total(f, T \union {x}) = Total(f, T) + f[x] /\ Total(f, T) \in Nat /\ f[x] \in Nat
    BY <2>1, TotalAdd
  <2>3. Total(g, T \union {x}) = Total(g, T) + g[x] /\ Total(g, T) \in Nat /\ g[x] \in Nat
    BY <2>1, TotalAdd
  <2>4. Alike(Total(f, T), Total(g, T), m) /\ Alike(f[x], g[x], m)
    BY <1>2
  <2>5. Alike(Total(f, T) + f[x], Total(g, T) + g[x], m)
    BY <2>2, <2>3, <2>4, AlikeSum
  <2> QED
    BY <2>2, <2>3, <2>5
<1> HIDE DEF Good
<1>3. S \in Good
  BY <1>1, <1>2, SetInduction
<1> QED
  BY <1>3 DEF Good

\* A remainder is like what it is the remainder of.
LEMMA AlikeMod ==
  ASSUME NEW a \in Nat, NEW m \in Nat \ {0}
  PROVE  a % m \in Nat /\ Alike(a % m, a, m)
<1>1. a % m \in 0 .. m - 1
  OBVIOUS
<1>2. (a % m) % m = a % m
  BY ModIn
<1> QED
  BY <1>1, <1>2 DEF Alike
=============================================================================
