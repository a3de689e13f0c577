----------------------------- MODULE OperatorFacts -----------------------------
(***************************************************************************)
(* What is proved of the operators the models are built from, for every    *)
(* argument: folds and concatenations of sequences, division into tiles,   *)
(* and the operators of GameMap for every map.                             *)
(*                                                                         *)
(* The library's induction theorems speak of an operator, which no prover  *)
(* here can instantiate; these speak of sets and functions.  FoldLeft is a *)
(* recursive function over the sets of places of a sequence.  Where its    *)
(* step keeps to a set of values there is such a function (StepwiseExists),*)
(* and it goes through the sequence from the first place to the last       *)
(* (PlacesInOrder).                                                        *)
(***************************************************************************)
EXTENDS GameMap, FiniteSets, FiniteSetTheorems, SequenceTheorems, WellFoundedInduction, TLAPS

\* Every set of naturals has a least element.
LEMMA LeastNatural ==
  ASSUME NEW T, T \subseteq Nat, T # {}
  PROVE  \E n \in T : \A m \in T : n <= m
<1> DEFINE less == {ss \in Nat \X Nat : ss[1] < ss[2]}
<1>1. IsWellFoundedOn(less, Nat)
  BY NatLessThanWellFounded DEF OpToRel
<1> HIDE DEF less
<1>2. PICK n \in T : \A m \in T : ~ (<<m, n>> \in less)
  BY <1>1, WFMin
<1>3. \A m \in T : m \in Nat /\ n \in Nat /\ (<<m, n>> \in less <=> m < n)
  BY DEF less
<1>4. \A m \in T : n <= m
  <2> TAKE m \in T
  <2>1. m \in Nat /\ n \in Nat /\ ~ (m < n)
    BY <1>2, <1>3
  <2> QED
    BY <2>1
<1> QED
  BY <1>4

\* Induction up to n, for a set of numbers.
LEMMA UpTo ==
  ASSUME NEW n \in Nat, NEW T, 0 \in T,
         \A k \in 1 .. n : k - 1 \in T => k \in T
  PROVE  \A k \in 0 .. n : k \in T
<1> DEFINE Missing == {k \in 0 .. n : k \notin T}
<1> SUFFICES ASSUME Missing # {}
             PROVE  FALSE
  OBVIOUS
<1>1. Missing \subseteq Nat
  OBVIOUS
<1>2. PICK k \in Missing : \A m \in Missing : k <= m
  BY <1>1, LeastNatural
<1>3. k \in 0 .. n /\ k \notin T /\ k # 0
  OBVIOUS
<1>4. k \in 1 .. n /\ k - 1 \in 0 .. n /\ ~ (k <= k - 1)
  BY <1>3
<1>5. k - 1 \in T
  BY <1>2, <1>4
<1> QED
  BY <1>3, <1>4, <1>5

-----------------------------------------------------------------------------
\* The place FoldLeft deals with last among those of a set.
Latest(S) == CHOOSE x \in S : \A y \in S : x >= y

\* The places 1 .. k are those before k, and k.
LEMMA PlacesInOrder ==
  ASSUME NEW k \in Nat \ {0}
  PROVE  1 .. k # {} /\ Latest(1 .. k) = k /\ (1 .. k) \ {Latest(1 .. k)} = 1 .. (k - 1)
<1>1. k \in 1 .. k /\ \A y \in 1 .. k : k >= y
  OBVIOUS
<1>2. \A x \in 1 .. k : (\A y \in 1 .. k : x >= y) => x = k
  OBVIOUS
<1>3. Latest(1 .. k) = k
  BY <1>1, <1>2 DEF Latest
<1> QED
  BY <1>1, <1>3

LEMMA LatestIsOne ==
  ASSUME NEW n \in Nat, NEW t \in SUBSET (1 .. n), t # {}
  PROVE  Latest(t) \in t /\ \A y \in t : Latest(t) >= y
<1> DEFINE Above == {m \in Nat : \A y \in t : m >= y}
<1>1. t \subseteq Nat /\ n \in Above
  OBVIOUS
<1>2. PICK m \in Above : \A k \in Above : m <= k
  BY <1>1, LeastNatural
<1>3. m \in t
  <2> SUFFICES ASSUME m \notin t
               PROVE  FALSE
    OBVIOUS
  <2>1. \A y \in t : y \in 1 .. n /\ m >= y /\ m # y
    BY <1>2
  <2>2. PICK y \in t : TRUE
    OBVIOUS
  <2>3. m - 1 \in Nat /\ \A z \in t : m - 1 >= z
    BY <2>1, <2>2
  <2> QED
    BY <1>2, <2>3
<1>4. \E x \in t : \A y \in t : x >= y
  BY <1>2, <1>3
<1> QED
  BY <1>4, Zenon DEF Latest

-----------------------------------------------------------------------------
\* What folding step over s from base on makes of the places t, from what it
\* makes of fewer places.
Body(it, step, base, s, t) ==
  IF t = {} THEN base ELSE step[<<it[t \ {Latest(t)}], s[Latest(t)]>>]

\* it solves the recursive definition of the fold over n places.
Stepwise(it, step, base, s, n) ==
  it = [t \in SUBSET (1 .. n) |-> Body(it, step, base, s, t)]

\* All but the latest of the places 1 .. k are among 1 .. k - 1.
LEMMA FewerPlaces ==
  ASSUME NEW k \in Nat, NEW t \in SUBSET (1 .. k), t # {}
  PROVE  k \in Nat \ {0} /\ Latest(t) \in 1 .. k /\ t \ {Latest(t)} \in SUBSET (1 .. (k - 1))
<1>1. Latest(t) \in t /\ \A y \in t : Latest(t) >= y
  BY LatestIsOne
<1>2. \A y \in t : y \in 1 .. k
  OBVIOUS
<1>3. Latest(t) \in 1 .. k /\ k \in Nat \ {0}
  <2>1. Latest(t) \in 1 .. k
    BY <1>1, <1>2, Zenon
  <2> QED
    BY <2>1
<1>4. \A y \in t \ {Latest(t)} : y \in 1 .. (k - 1)
  <2> TAKE y \in t \ {Latest(t)}
  <2>1. y \in 1 .. k /\ Latest(t) >= y /\ y # Latest(t)
    BY <1>1, <1>2
  <2> QED
    BY <2>1, <1>3
<1> QED
  BY <1>3, <1>4

\* A step that keeps to A can be folded over every sequence: the recursive
\* definition of the fold has a solution.
LEMMA StepwiseExists ==
  ASSUME NEW A, NEW B, NEW n \in Nat, NEW base \in A,
         NEW s, \A i \in 1 .. n : s[i] \in B, NEW step \in [A \X B -> A]
  PROVE  \E it \in [SUBSET (1 .. n) -> A] : Stepwise(it, step, base, s, n)
<1> DEFINE Solves(it, k) == it = [t \in SUBSET (1 .. k) |-> Body(it, step, base, s, t)]
           T == {k \in 0 .. n : \E it \in [SUBSET (1 .. k) -> A] : Solves(it, k)}
<1>1. 0 \in T
  <2> DEFINE it == [t \in SUBSET (1 .. 0) |-> base]
  <2>1. \A t \in SUBSET (1 .. 0) : t = {}
    OBVIOUS
  <2>2. it \in [SUBSET (1 .. 0) -> A]
    OBVIOUS
  <2>3. Solves(it, 0)
    <3>1. \A t \in SUBSET (1 .. 0) : Body(it, step, base, s, t) = base
      BY <2>1 DEF Body
    <3> QED
      BY <3>1, Zenon
  <2> HIDE DEF Solves, it
  <2>4. \E f \in [SUBSET (1 .. 0) -> A] : Solves(f, 0)
    BY <2>2, <2>3, Zenon
  <2>5. 0 \in 0 .. n
    OBVIOUS
  <2> QED
    BY <2>4, <2>5, Zenon
<1>2. \A k \in 1 .. n : k - 1 \in T => k \in T
  <2> SUFFICES ASSUME NEW k \in 1 .. n, k - 1 \in T
               PROVE  k \in T
    OBVIOUS
  <2>1. PICK it \in [SUBSET (1 .. (k - 1)) -> A] : Solves(it, k - 1)
    OBVIOUS
  <2> DEFINE next == [t \in SUBSET (1 .. k) |-> Body(it, step, base, s, t)]
  <2>2. \A t \in SUBSET (1 .. k) : t # {} =>
          Latest(t) \in 1 .. n /\ t \ {Latest(t)} \in SUBSET (1 .. (k - 1))
    <3> SUFFICES ASSUME NEW t \in SUBSET (1 .. k), t # {}
                 PROVE  Latest(t) \in 1 .. n /\ t \ {Latest(t)} \in SUBSET (1 .. (k - 1))
      OBVIOUS
    <3>1. k \in Nat /\ \A x \in 1 .. k : x \in 1 .. n
      OBVIOUS
    <3> QED
      BY <3>1, FewerPlaces
  <2>3. \A t \in SUBSET (1 .. k) : Body(it, step, base, s, t) \in A
    BY <2>2 DEF Body
  <2>4. \A u \in SUBSET (1 .. (k - 1)) : u \in SUBSET (1 .. k) /\ next[u] = it[u]
    <3> SUFFICES ASSUME NEW u \in SUBSET (1 .. (k - 1))
                 PROVE  u \in SUBSET (1 .. k) /\ next[u] = it[u]
      OBVIOUS
    <3>1. u \in SUBSET (1 .. k)
      OBVIOUS
    <3>2. it[u] = Body(it, step, base, s, u)
      BY <2>1
    <3> QED
      BY <3>1, <3>2
  <2>5. \A t \in SUBSET (1 .. k) : Body(next, step, base, s, t) = Body(it, step, base, s, t)
    <3> HIDE DEF next
    <3> QED
      BY <2>2, <2>4 DEF Body
  <2>6. next \in [SUBSET (1 .. k) -> A]
    BY <2>3
  <2>7. next = [t \in SUBSET (1 .. k) |-> Body(next, step, base, s, t)]
    <3> HIDE DEF next
    <3>1. next = [t \in SUBSET (1 .. k) |-> Body(it, step, base, s, t)]
      BY DEF next
    <3> QED
      BY <3>1, <2>5, Zenon
  <2>8. Solves(next, k)
    BY <2>7
  <2> HIDE DEF Solves, next
  <2>9. \E f \in [SUBSET (1 .. k) -> A] : Solves(f, k)
    BY <2>6, <2>8, Zenon
  <2> QED
    BY <2>9
<1> HIDE DEF T
<1>3. n \in T
  BY <1>1, <1>2, UpTo
<1> QED
  BY <1>3, Zenon DEF T, Stepwise

-----------------------------------------------------------------------------
\* Pieces of some kind of characters, one after the other.
LEMMA FlattenRun ==
  ASSUME NEW S, NEW pieces \in Seq(Seq(S))
  PROVE  \E run :
           /\ run[0] = << >>
           /\ \A k \in 0 .. Len(pieces) : run[k] \in Seq(S)
           /\ \A k \in 1 .. Len(pieces) : run[k] = run[k - 1] \o pieces[k]
           /\ FlattenSeq(pieces) = run[Len(pieces)]
<1> DEFINE n == Len(pieces)
           Solves(f, k) == f = [i \in 1 .. k |-> IF i = 1 THEN pieces[i] ELSE f[i - 1] \o pieces[i]]
           T == {k \in 0 .. n : \E f \in [1 .. k -> Seq(S)] : Solves(f, k)}
<1>1. n \in Nat /\ \A i \in 1 .. n : pieces[i] \in Seq(S)
  OBVIOUS
<1> HIDE DEF n
<1>2. CASE n = 0
  <2>1. FlattenSeq(pieces) = pieces /\ pieces = << >>
    BY <1>2, EmptySeq DEF FlattenSeq, n
  <2> DEFINE run == [k \in {0} |-> << >>]
  <2>2. run[0] = << >> /\ FlattenSeq(pieces) = run[n]
    BY <1>2, <2>1
  <2>3. \A k \in 0 .. n : run[k] \in Seq(S)
    BY <1>2
  <2>4. \A k \in 1 .. n : run[k] = run[k - 1] \o pieces[k]
    BY <1>2
  <2> HIDE DEF run
  <2> QED
    BY <2>2, <2>3, <2>4 DEF n
<1>3. CASE n # 0
  <2>1. 0 \in T
    <3>1. [i \in 1 .. 0 |-> << >>] \in [1 .. 0 -> Seq(S)] /\ 0 \in 0 .. n
      BY <1>1
    <3>2. Solves([i \in 1 .. 0 |-> << >>], 0)
      OBVIOUS
    <3> QED
      BY <3>1, <3>2
  <2>2. \A k \in 1 .. n : k - 1 \in T => k \in T
    <3> SUFFICES ASSUME NEW k \in 1 .. n, k - 1 \in T
                 PROVE  k \in T
      OBVIOUS
    <3>1. PICK f \in [1 .. k - 1 -> Seq(S)] : Solves(f, k - 1)
      OBVIOUS
    <3> DEFINE g == [i \in 1 .. k |-> IF i = 1 THEN pieces[i] ELSE f[i - 1] \o pieces[i]]
    <3>2. \A i \in 1 .. k - 1 : i \in 1 .. k /\ g[i] = f[i]
      <4> TAKE i \in 1 .. k - 1
      <4>1. i \in 1 .. k
        OBVIOUS
      <4>2. f[i] = IF i = 1 THEN pieces[i] ELSE f[i - 1] \o pieces[i]
        BY <3>1
      <4>3. g[i] = IF i = 1 THEN pieces[i] ELSE f[i - 1] \o pieces[i]
        BY <4>1
      <4> QED
        BY <4>1, <4>2, <4>3
    <3>3. g \in [1 .. k -> Seq(S)]
      <4> SUFFICES ASSUME NEW i \in 1 .. k, i # 1
                   PROVE  f[i - 1] \o pieces[i] \in Seq(S)
        BY <1>1
      <4>1. f[i - 1] \in Seq(S) /\ pieces[i] \in Seq(S)
        BY <1>1
      <4> QED
        BY <4>1
    <3>4. Solves(g, k)
      <4> HIDE DEF g
      <4>1. \A i \in 1 .. k : i # 1 => i - 1 \in 1 .. k - 1
        OBVIOUS
      <4>2. \A i \in 1 .. k : i # 1 => g[i - 1] = f[i - 1]
        BY <3>2, <4>1
      <4> QED
        BY <4>2 DEF g
    <3> HIDE DEF g, Solves
    <3> QED
      BY <1>1, <3>3, <3>4
  <2> HIDE DEF T
  <2>3. n \in T
    <3>1. \A k \in 0 .. n : k \in T
      BY <1>1, <2>1, <2>2, UpTo
    <3> QED
      BY <1>1, <3>1
  <2>4. PICK f \in [1 .. n -> Seq(S)] : Solves(f, n)
    BY <2>3 DEF T
  <2> DEFINE h == CHOOSE g : Solves(g, n)
  <2>5. Solves(h, n)
    <3> HIDE DEF Solves
    <3> QED
      BY <2>4, Zenon
  <2>6. FlattenSeq(pieces) = h[n]
    BY <1>3 DEF FlattenSeq, n
  <2> HIDE DEF h
  <2> DEFINE U == {k \in 0 .. n : k = 0 \/ h[k] \in Seq(S)}
  <2>7. \A k \in 1 .. n : k - 1 \in U => k \in U
    <3> SUFFICES ASSUME NEW k \in 1 .. n, k - 1 \in U
                 PROVE  h[k] \in Seq(S)
      BY <1>1
    <3>1. h[k] = IF k = 1 THEN pieces[k] ELSE h[k - 1] \o pieces[k]
      BY <2>5
    <3>2. pieces[k] \in Seq(S) /\ (k # 1 => h[k - 1] \in Seq(S))
      BY <1>1
    <3> QED
      BY <3>1, <3>2
  <2>8. 0 \in U
    BY <1>1
  <2> HIDE DEF U
  <2>9. \A k \in 0 .. n : k \in U
    BY <1>1, <2>7, <2>8, UpTo
  <2> DEFINE run == [k \in 0 .. n |-> IF k = 0 THEN << >> ELSE h[k]]
  <2>10. \A k \in 0 .. n : run[k] \in Seq(S)
    <3> TAKE k \in 0 .. n
    <3>1. k = 0 \/ h[k] \in Seq(S)
      BY <2>9 DEF U
    <3> QED
      BY <3>1
  <2>11. run[0] = << >> /\ FlattenSeq(pieces) = run[n]
    BY <1>1, <1>3, <2>6
  <2>12. \A k \in 1 .. n : run[k] = run[k - 1] \o pieces[k]
    <3> TAKE k \in 1 .. n
    <3>1. h[k] = IF k = 1 THEN pieces[k] ELSE h[k - 1] \o pieces[k]
      BY <2>5
    <3>2. pieces[k] \in Seq(S) /\ << >> \o pieces[k] = pieces[k]
      BY <1>1, ConcatEmptySeq
    <3>3. k \in 0 .. n /\ k - 1 \in 0 .. n /\ k # 0
      BY <1>1
    <3>4. run[k] = h[k] /\ run[k - 1] = IF k - 1 = 0 THEN << >> ELSE h[k - 1]
      BY <3>3
    <3> HIDE DEF run
    <3>5. CASE k = 1
      <4>1. h[k] = pieces[k] /\ k - 1 = 0
        BY <3>1, <3>5
      <4>2. run[k - 1] = << >>
        BY <3>4, <4>1
      <4> QED
        BY <3>2, <3>4, <4>1, <4>2
    <3>6. CASE k # 1
      <4>1. k - 1 # 0
        BY <1>1, <3>6
      <4>2. run[k - 1] = h[k - 1] /\ h[k] = h[k - 1] \o pieces[k]
        BY <3>1, <3>4, <3>6, <4>1
      <4> QED
        BY <3>4, <4>2
    <3> QED
      BY <3>5, <3>6
  <2> HIDE DEF run
  <2> QED
    BY <2>10, <2>11, <2>12 DEF n
<1> QED
  BY <1>2, <1>3

LEMMA FlattenKeeps ==
  ASSUME NEW S, NEW pieces \in Seq(Seq(S))
  PROVE  FlattenSeq(pieces) \in Seq(S)
<1>1. PICK run : /\ \A k \in 0 .. Len(pieces) : run[k] \in Seq(S)
                 /\ FlattenSeq(pieces) = run[Len(pieces)]
  BY FlattenRun
<1>2. Len(pieces) \in 0 .. Len(pieces)
  OBVIOUS
<1> QED
  BY <1>1, <1>2

\* The pieces are laid out one after the other.
Laid(whole, pieces, offset) ==
  /\ offset[0] = 0 /\ Len(whole) = offset[Len(pieces)]
  /\ \A k \in 0 .. Len(pieces) : offset[k] \in Nat /\ offset[k] <= Len(whole)
  /\ \A k \in 1 .. Len(pieces) : offset[k] = offset[k - 1] + Len(pieces[k])
  /\ \A k \in 1 .. Len(pieces) : \A j \in 1 .. Len(pieces[k]) :
       whole[offset[k - 1] + j] = pieces[k][j]

LEMMA FlattenLaid ==
  ASSUME NEW S, NEW pieces \in Seq(Seq(S))
  PROVE  \E offset : Laid(FlattenSeq(pieces), pieces, offset)
<1> DEFINE n == Len(pieces)
<1>1. n \in Nat /\ \A k \in 1 .. n : pieces[k] \in Seq(S) /\ Len(pieces[k]) \in Nat
  OBVIOUS
<1>2. PICK run : /\ run[0] = << >>
                 /\ \A k \in 0 .. n : run[k] \in Seq(S)
                 /\ \A k \in 1 .. n : run[k] = run[k - 1] \o pieces[k]
                 /\ FlattenSeq(pieces) = run[n]
  BY FlattenRun
<1> HIDE DEF n
<1> DEFINE offset == [k \in 0 .. n |-> Len(run[k])]
           Here(m, k) == \A j \in 1 .. Len(pieces[k]) : run[m][offset[k - 1] + j] = pieces[k][j]
           T == {m \in 0 .. n : /\ \A k \in 0 .. m : offset[k] <= offset[m]
                                /\ \A k \in 1 .. m : Here(m, k)}
<1>3. \A k \in 0 .. n : offset[k] \in Nat /\ offset[k] = Len(run[k])
  BY <1>2
<1>4. \A k \in 1 .. n : k \in 0 .. n /\ k - 1 \in 0 .. n
  BY <1>1
<1>5. \A k \in 1 .. n :
        /\ offset[k] = offset[k - 1] + Len(pieces[k])
        /\ \A i \in 1 .. offset[k] :
             run[k][i] = IF i <= offset[k - 1] THEN run[k - 1][i] ELSE pieces[k][i - offset[k - 1]]
  <2> TAKE k \in 1 .. n
  <2>1. run[k - 1] \in Seq(S) /\ pieces[k] \in Seq(S) /\ run[k] = run[k - 1] \o pieces[k]
    BY <1>1, <1>2, <1>4
  <2>2. /\ Len(run[k]) = Len(run[k - 1]) + Len(pieces[k])
        /\ \A i \in 1 .. Len(run[k - 1]) + Len(pieces[k]) :
             run[k][i] = IF i <= Len(run[k - 1]) THEN run[k - 1][i]
                         ELSE pieces[k][i - Len(run[k - 1])]
    <3>1. ASSUME NEW a \in Seq(S), NEW b \in Seq(S)
          PROVE  /\ Len(a \o b) = Len(a) + Len(b)
                 /\ \A i \in 1 .. Len(a) + Len(b) :
                      (a \o b)[i] = IF i <= Len(a) THEN a[i] ELSE b[i - Len(a)]
      BY ConcatProperties
    <3> DEFINE a == run[k - 1]
               b == pieces[k]
    <3>2. a \in Seq(S) /\ b \in Seq(S) /\ run[k] = a \o b
      BY <2>1
    <3> HIDE DEF offset, a, b
    <3>3. /\ Len(a \o b) = Len(a) + Len(b)
          /\ \A i \in 1 .. Len(a) + Len(b) :
               (a \o b)[i] = IF i <= Len(a) THEN a[i] ELSE b[i - Len(a)]
      BY <3>1, <3>2
    <3>4. /\ Len(run[k]) = Len(a) + Len(b)
          /\ \A i \in 1 .. Len(a) + Len(b) :
               run[k][i] = IF i <= Len(a) THEN a[i] ELSE b[i - Len(a)]
      BY <3>2, <3>3
    <3> QED
      BY <3>4 DEF a, b
  <2>3. offset[k] = Len(run[k]) /\ offset[k - 1] = Len(run[k - 1])
    BY <1>3, <1>4
  <2> HIDE DEF offset
  <2> QED
    BY <2>2, <2>3
<1>6. offset[0] = 0
  <2>1. 0 \in 0 .. n /\ Len(<< >>) = 0
    BY <1>1
  <2> QED
    BY <1>2, <2>1
<1> HIDE DEF offset
<1>7. 0 \in T
  <2>1. 0 \in 0 .. n
    BY <1>1
  <2> QED
    BY <1>6, <2>1
<1>8. \A m \in 1 .. n : m - 1 \in T => m \in T
  <2> SUFFICES ASSUME NEW m \in 1 .. n, m - 1 \in T
               PROVE  m \in T
    OBVIOUS
  <2>1. /\ m \in Nat /\ m \in 0 .. n /\ m - 1 \in 0 .. n
        /\ offset[m] \in Nat /\ offset[m - 1] \in Nat /\ Len(pieces[m]) \in Nat
        /\ offset[m] = offset[m - 1] + Len(pieces[m])
    BY <1>1, <1>3, <1>4, <1>5
  <2>2. \A k \in 0 .. m : offset[k] <= offset[m]
    <3> TAKE k \in 0 .. m
    <3>1. CASE k = m
      BY <2>1, <3>1
    <3>2. CASE k # m
      <4>1. k \in 0 .. m - 1 /\ k \in 0 .. n
        BY <1>1, <2>1, <3>2
      <4>2. offset[k] <= offset[m - 1] /\ offset[k] \in Nat
        BY <1>3, <4>1
      <4> QED
        BY <2>1, <4>2
    <3> QED
      BY <3>1, <3>2
  <2>3. \A k \in 1 .. m : Here(m, k)
    <3> SUFFICES ASSUME NEW k \in 1 .. m, NEW j \in 1 .. Len(pieces[k])
                 PROVE  run[m][offset[k - 1] + j] = pieces[k][j]
      OBVIOUS
    <3> DEFINE i == offset[k - 1] + j
    <3>0. k \in 1 .. n
      BY <1>1, <2>1
    <3> HIDE DEF Here, T, i
    <3>1. /\ k \in 1 .. n /\ k - 1 \in 0 .. n /\ offset[k - 1] \in Nat /\ Len(pieces[k]) \in Nat
          /\ offset[k] = offset[k - 1] + Len(pieces[k]) /\ offset[k] \in Nat
      BY <1>1, <1>3, <1>4, <1>5, <3>0
    <3>2. offset[k] <= offset[m] /\ k \in Nat /\ j \in Nat /\ j <= Len(pieces[k]) /\ j > 0
      BY <2>1, <2>2, <3>1
    <3>3. i \in 1 .. offset[m] /\ i <= offset[k] /\ i > offset[k - 1] /\ i - offset[k - 1] = j
      <4> DEFINE x == offset[k - 1]
                 y == offset[k]
                 z == offset[m]
                 l == Len(pieces[k])
      <4>1. /\ x \in Nat /\ y \in Nat /\ z \in Nat /\ l \in Nat /\ j \in Nat
            /\ y = x + l /\ y <= z /\ j <= l /\ j > 0 /\ i = x + j
        BY <2>1, <3>1, <3>2 DEF i
      <4> HIDE DEF i, x, y, z, l
      <4>2. i \in 1 .. z /\ i <= y /\ i > x /\ i - x = j
        BY <4>1
      <4> QED
        BY <4>2 DEF x, y, z
    <3>4. run[m][i] = IF i <= offset[m - 1] THEN run[m - 1][i] ELSE pieces[m][i - offset[m - 1]]
      BY <1>5, <3>3
    <3> HIDE DEF i
    <3>5. CASE k = m
      <4>1. ~ (i <= offset[m - 1])
        BY <2>1, <3>1, <3>3, <3>5
      <4> QED
        BY <3>3, <3>4, <3>5, <4>1 DEF i
    <3>6. CASE k # m
      <4>0. k \in 1 .. m
        OBVIOUS
      <4>1. k \in 1 .. m - 1 /\ k \in 0 .. m - 1
        BY <2>1, <3>6, <4>0
      <4>2. offset[k] <= offset[m - 1] /\ Here(m - 1, k)
        BY <4>1 DEF T
      <4>3. i <= offset[m - 1]
        <5>1. offset[k] \in Nat /\ offset[m - 1] \in Nat /\ i \in Nat
          BY <2>1, <3>1, <3>3
        <5> QED
          BY <3>3, <4>2, <5>1
      <4>4. run[m - 1][i] = pieces[k][j]
        BY <4>2 DEF i, Here
      <4> QED
        BY <3>4, <4>3, <4>4 DEF i
    <3> QED
      BY <3>5, <3>6
  <2> QED
    BY <2>1, <2>2, <2>3
<1> HIDE DEF T
<1>9. n \in T
  <2>1. \A m \in 0 .. n : m \in T
    BY <1>1, <1>7, <1>8, UpTo
  <2> QED
    BY <1>1, <2>1
<1>10. /\ \A k \in 0 .. n : offset[k] <= offset[n]
       /\ \A k \in 1 .. n : Here(n, k)
  BY <1>9 DEF T
<1>11. Len(run[n]) = offset[n]
  <2>1. n \in 0 .. n
    BY <1>1
  <2> QED
    BY <1>3, <2>1
<1>12. Laid(run[n], pieces, offset)
  BY <1>3, <1>5, <1>6, <1>10, <1>11 DEF Laid, n
<1> QED
  BY <1>2, <1>12

-----------------------------------------------------------------------------
Rects == [x : Int, y : Int, w : Nat \ {0}, h : Nat \ {0}]

-----------------------------------------------------------------------------
(* Division into tiles. *)

LEMMA Division ==
  ASSUME NEW a \in Int, NEW b \in Nat \ {0}
  PROVE  /\ a \div b \in Int /\ a % b \in 0 .. b - 1
         /\ a % b = a - b * (a \div b)
<1>1. a \div b \in Int
  OBVIOUS
<1>2. a % b \in Int
  OBVIOUS
<1>3. a % b >= 0 /\ a % b < b
  OBVIOUS
<1>4. a % b = a - b * (a \div b)
  OBVIOUS
<1> QED
  BY <1>1, <1>2, <1>3, <1>4

LEMMA Distributes ==
  ASSUME NEW a \in Int, NEW b \in Int, NEW c \in Int
  PROVE  /\ a * (b + c) = a * b + a * c /\ a * (b - c) = a * b - a * c
         /\ a * b \in Int /\ a * b = b * a
OBVIOUS

LEMMA ProductOrder ==
  ASSUME NEW a \in Int, NEW b \in Int, NEW c \in Nat, a <= b
  PROVE  c * a <= c * b
OBVIOUS

\* A number is in one tile.
LEMMA OneTile ==
  ASSUME NEW a \in Int, NEW q \in Int, NEW b \in Nat \ {0},
         b * q <= a, a < b * q + b
  PROVE  a \div b = q /\ a % b = a - b * q
OBVIOUS

LEMMA TileOrder ==
  ASSUME NEW a \in Int, NEW q \in Int, NEW b \in Nat \ {0}
  PROVE  /\ b * q <= a => q <= a \div b
         /\ a < b * q => a \div b < q
         /\ a < b * q + b => a \div b <= q
OBVIOUS

\* A place in a table of rows, and back.
LEMMA PlaceInTable ==
  ASSUME NEW rows \in Nat, NEW columns \in Nat \ {0},
         NEW row \in 0 .. rows - 1, NEW column \in 0 .. columns - 1
  PROVE  /\ columns * row + column \in 0 .. rows * columns - 1
         /\ (columns * row + column) \div columns = row
         /\ (columns * row + column) % columns = column
<1> DEFINE place == columns * row + column
<1>1. columns * row \in Int /\ rows * columns \in Int /\ columns * row >= 0
  BY ProductOrder
<1>2. columns * row <= columns * (rows - 1)
  BY ProductOrder
<1>3. columns * (rows - 1) = rows * columns - columns
  BY Distributes
<1>4. place \in Int /\ columns * row <= place /\ place < columns * row + columns
  BY <1>1
<1>5. place \in 0 .. rows * columns - 1
  BY <1>1, <1>2, <1>3, <1>4
<1>6. place \div columns = row /\ place % columns = place - columns * row
  BY <1>4, OneTile
<1> QED
  BY <1>1, <1>5, <1>6

LEMMA TableOfPlaces ==
  ASSUME NEW rows \in Nat, NEW columns \in Nat \ {0}, NEW place \in 0 .. rows * columns - 1
  PROVE  /\ place \div columns \in 0 .. rows - 1 /\ place % columns \in 0 .. columns - 1
         /\ place = columns * (place \div columns) + (place % columns)
<1>1. rows * columns \in Int /\ columns * rows = rows * columns /\ columns * 0 = 0
  BY Distributes
<1>2. place \in Int /\ 0 <= place /\ place < columns * rows
  <2> DEFINE n == rows * columns
  <2>1. n \in Int /\ place \in 0 .. n - 1 /\ columns * rows = n
    BY <1>1
  <2> HIDE DEF n
  <2> QED
    BY <2>1
<1>3. /\ place \div columns \in Int /\ place % columns \in 0 .. columns - 1
      /\ place % columns = place - columns * (place \div columns)
  BY <1>2, Division
<1>4. 0 <= place \div columns /\ place \div columns < rows
  BY <1>1, <1>2, TileOrder
<1>5. columns * (place \div columns) \in Int
  BY <1>3, Distributes
<1>6. place = columns * (place \div columns) + (place % columns)
  <2> DEFINE first == columns * (place \div columns)
             rest == place % columns
  <2>1. first \in Int /\ place \in Int /\ rest = place - first
    BY <1>2, <1>3, <1>5
  <2> HIDE DEF first, rest
  <2>2. place = first + rest
    BY <2>1
  <2> QED
    BY <2>2, Zenon DEF first, rest
<1>7. place \div columns \in 0 .. rows - 1
  BY <1>3, <1>4
<1> QED
  BY <1>3, <1>6, <1>7

-----------------------------------------------------------------------------
(* The tiles around a rectangle. *)

\* Along one axis: from the first tile to the last one, and no tile more that
\* the rectangle lies over.
LEMMA TilesAlong ==
  ASSUME NEW from \in Int, NEW size \in Nat \ {0}, NEW unit \in Nat \ {0}, NEW count \in Nat \ {0},
         from >= 0, from + size <= count * unit
  PROVE  LET first == from \div unit
             last == LastTile(from, size, unit, count)
         IN  /\ first \in 0 .. count - 1 /\ last \in first .. count - 1
             /\ \A t \in 0 .. count - 1 :
                  t * unit < from + size /\ from < t * unit + unit => t \in first .. last
<1> DEFINE first == from \div unit
           end == (from + size) \div unit
           last == LastTile(from, size, unit, count)
<1>1. count * unit \in Int /\ unit * count = count * unit /\ unit * 0 = 0
  BY Distributes
<1>2. first \in Int /\ 0 <= first
  BY <1>1, Division, TileOrder
<1>3. from < unit * count
  BY <1>1
<1>4. first < count
  BY <1>3, TileOrder
<1>5. end \in Int /\ first <= end
  <2>1. from + size \in Int /\ end \in Int
    BY Division
  <2>2. /\ from % unit = from - unit * first /\ from % unit \in 0 .. unit - 1
    BY Division
  <2>3. unit * first \in Int
    BY <1>2, Distributes
  <2>4. unit * first <= from + size
    BY <2>2, <2>3
  <2> QED
    BY <1>2, <2>1, <2>4, TileOrder
<1>6. last = IF end < count THEN end ELSE count - 1
  BY DEF LastTile
<1>7. last \in first .. count - 1
  BY <1>2, <1>4, <1>5, <1>6
<1>8. ASSUME NEW t \in 0 .. count - 1, t * unit < from + size, from < t * unit + unit
      PROVE  t \in first .. last
  <2>1. t * unit = unit * t /\ unit * t \in Int
    BY Distributes
  <2>2. first <= t
    BY <1>8, <2>1, TileOrder
  <2>3. from + size \in Int /\ unit * t <= from + size
    BY <1>8, <2>1
  <2>4. t <= end
    BY <2>3, TileOrder
  <2> QED
    BY <1>2, <1>5, <1>6, <2>2, <2>4
<1> HIDE DEF first, last
<1>9. first \in 0 .. count - 1
  BY <1>2, <1>4
<1> QED
  BY <1>7, <1>8, <1>9 DEF first, last

\* The tiles of a layer: their indices.
TileIndices(m) == 0 .. m.width * m.height - 1

\* Is the tile one that get_intersect_rects accepts, of some layer?
Accepted(m, i, property) ==
  \E l \in DOMAIN m.layers : m.layers[l].visible /\ Counts(m, m.layers[l], i, property)

LEMMA WholeMapTypes ==
  ASSUME NEW m, WholeMap(m)
  PROVE  /\ m.width \in Nat \ {0} /\ m.height \in Nat \ {0}
         /\ m.tileWidth \in Nat \ {0} /\ m.tileHeight \in Nat \ {0}
         /\ m.width * m.height \in Nat
         /\ \E S : m.layers \in Seq(S)
         /\ \A l \in DOMAIN m.layers : m.layers[l].width = m.width
<1>1. /\ m.width \in Nat \ {0} /\ m.height \in Nat \ {0}
      /\ m.tileWidth \in Nat \ {0} /\ m.tileHeight \in Nat \ {0}
  BY DEF WholeMap
<1>2. m.width * m.height \in Nat
  <2> DEFINE a == m.width
             b == m.height
  <2>1. a \in Nat /\ b \in Nat
    BY <1>1
  <2> HIDE DEF a, b
  <2>2. a * b \in Int /\ b * 0 <= b * a /\ b * 0 = 0 /\ b * a = a * b
    BY <2>1, Distributes, ProductOrder
  <2>3. a * b \in Nat
    BY <2>2
  <2> QED
    BY <2>3 DEF a, b
<1> QED
  BY <1>1, <1>2 DEF WholeMap

LEMMA AroundIsThere ==
  ASSUME NEW m, WholeMap(m), NEW l \in DOMAIN m.layers, NEW r \in Rects, InBounds(m, r)
  PROVE  LET around == Around(m, m.layers[l], r)
         IN  /\ around \in Seq(TileIndices(m))
             /\ \A i \in TileIndices(m) :
                  CheckCollisionRecs(SetTileRect(m, i), r) => \E k \in DOMAIN around : around[k] = i
<1> DEFINE W == m.width
           H == m.height
           left == r.x \div m.tileWidth
           right == LastTile(r.x, r.w, m.tileWidth, m.width)
           top == r.y \div m.tileHeight
           bottom == LastTile(r.y, r.h, m.tileHeight, m.height)
           columns == right - left + 1
           rows == bottom - top + 1
           around == Around(m, m.layers[l], r)
<1>1. /\ W \in Nat \ {0} /\ H \in Nat \ {0} /\ W * H \in Nat
      /\ m.tileWidth \in Nat \ {0} /\ m.tileHeight \in Nat \ {0} /\ m.layers[l].width = W
  BY WholeMapTypes
<1>2. /\ r.x \in Int /\ r.y \in Int /\ r.w \in Nat \ {0} /\ r.h \in Nat \ {0}
      /\ r.x >= 0 /\ r.x + r.w <= W * m.tileWidth
      /\ r.y >= 0 /\ r.y + r.h <= H * m.tileHeight
  BY DEF Rects, InBounds
<1>3. /\ left \in 0 .. W - 1 /\ right \in left .. W - 1
      /\ \A t \in 0 .. W - 1 : t * m.tileWidth < r.x + r.w /\ r.x < t * m.tileWidth + m.tileWidth
                                 => t \in left .. right
  BY <1>1, <1>2, TilesAlong
<1>4. /\ top \in 0 .. H - 1 /\ bottom \in top .. H - 1
      /\ \A t \in 0 .. H - 1 : t * m.tileHeight < r.y + r.h /\ r.y < t * m.tileHeight + m.tileHeight
                                 => t \in top .. bottom
  BY <1>1, <1>2, TilesAlong
<1>5. around = [k \in 1 .. rows * columns |->
                  (top + (k - 1) \div columns) * W + left + ((k - 1) % columns)]
  BY <1>1 DEF Around
<1> HIDE DEF W, H, left, right, top, bottom, around
<1>6. columns \in Nat \ {0} /\ rows \in Nat /\ rows * columns \in Nat
  <2>1. columns \in Nat \ {0} /\ rows \in Nat
    BY <1>1, <1>3, <1>4
  <2> HIDE DEF columns, rows
  <2>2. columns * 0 <= columns * rows /\ columns * 0 = 0 /\ columns * rows = rows * columns
        /\ rows * columns \in Int
    BY <2>1, Distributes, ProductOrder
  <2> QED
    BY <2>1, <2>2
\* Every place in the table is a tile.
<1>7. \A k \in 1 .. rows * columns : around[k] \in 0 .. W * H - 1
  <2> SUFFICES ASSUME NEW k \in 1 .. rows * columns
               PROVE  around[k] \in 0 .. W * H - 1
    OBVIOUS
  <2> DEFINE q == (k - 1) \div columns
             c == (k - 1) % columns
  <2>1. k - 1 \in 0 .. rows * columns - 1
    BY <1>6
  <2>2. q \in 0 .. rows - 1 /\ c \in 0 .. columns - 1
    <3> HIDE DEF rows, columns
    <3> QED
      BY <1>6, <2>1, TableOfPlaces
  <2>3. around[k] = (top + q) * W + left + c
    BY <1>5
  <2> HIDE DEF q, c
  <2>4. top + q \in 0 .. H - 1 /\ left + c \in 0 .. W - 1
    BY <1>1, <1>3, <1>4, <2>2
  <2>5. W * (top + q) + (left + c) \in 0 .. H * W - 1
    BY <1>1, <2>4, PlaceInTable
  <2>6. W * (top + q) = (top + q) * W /\ (top + q) * W \in Int /\ H * W = W * H
    BY <1>1, <2>4, Distributes
  <2>7. (top + q) * W + left + c = W * (top + q) + (left + c)
    <3> DEFINE p == (top + q) * W
    <3>1. p \in Int /\ left \in Int /\ c \in Int /\ W * (top + q) = p
      BY <1>1, <1>3, <2>2, <2>6
    <3> HIDE DEF p
    <3>2. p + left + c = W * (top + q) + (left + c)
      BY <3>1
    <3> QED
      BY <3>2 DEF p
  <2> QED
    BY <2>3, <2>5, <2>6, <2>7
<1>8. around \in Seq(TileIndices(m))
  <2> DEFINE n == rows * columns
             cell(k) == (top + (k - 1) \div columns) * W + left + ((k - 1) % columns)
  <2>1. around = [k \in 1 .. n |-> cell(k)] /\ n \in Nat
        /\ \A k \in 1 .. n : around[k] \in TileIndices(m)
    BY <1>5, <1>6, <1>7 DEF TileIndices, W, H
  <2> HIDE DEF n, cell
  <2>2. around \in [1 .. n -> TileIndices(m)]
    BY <2>1
  <2> QED
    BY <2>1, <2>2
\* Every tile the rectangle lies over has a place in the table.
<1>9. ASSUME NEW i \in TileIndices(m), CheckCollisionRecs(SetTileRect(m, i), r)
      PROVE  \E k \in DOMAIN around : around[k] = i
  <2> DEFINE row == i \div W
             column == i % W
  <2>1. H * W = W * H /\ i \in 0 .. H * W - 1
    BY <1>1, Distributes DEF TileIndices, W, H
  <2>2. row \in 0 .. H - 1 /\ column \in 0 .. W - 1 /\ i = W * row + column
    BY <1>1, <2>1, TableOfPlaces
  <2>3. /\ column * m.tileWidth < r.x + r.w /\ r.x < column * m.tileWidth + m.tileWidth
        /\ row * m.tileHeight < r.y + r.h /\ r.y < row * m.tileHeight + m.tileHeight
    BY <1>9 DEF CheckCollisionRecs, SetTileRect, Rect, W
  <2> HIDE DEF row, column
  <2>4. column \in left .. right /\ row \in top .. bottom
    BY <1>3, <1>4, <2>2, <2>3
  <2>5. row - top \in 0 .. rows - 1 /\ column - left \in 0 .. columns - 1
    BY <1>1, <1>3, <1>4, <2>4
  <2> DEFINE place == columns * (row - top) + (column - left)
  <2>6. /\ place \in 0 .. rows * columns - 1
        /\ place \div columns = row - top /\ place % columns = column - left
    <3> DEFINE a == row - top
               b == column - left
    <3>1. a \in 0 .. rows - 1 /\ b \in 0 .. columns - 1
      BY <2>5
    <3> HIDE DEF rows, columns, a, b
    <3>2. /\ columns * a + b \in 0 .. rows * columns - 1
          /\ (columns * a + b) \div columns = a /\ (columns * a + b) % columns = b
      BY <1>6, <3>1, PlaceInTable
    <3> QED
      BY <3>2 DEF a, b
  <2> HIDE DEF place
  <2>7. place + 1 \in 1 .. rows * columns /\ (place + 1) - 1 = place
    BY <1>6, <2>6
  <2>8. around[place + 1] = (top + (row - top)) * W + left + (column - left)
    BY <1>5, <2>6, <2>7
  <2>9. top + (row - top) = row /\ row * W = W * row /\ W * row \in Int
    BY <1>1, <1>4, <2>2, Distributes
  <2>10. row * W + left + (column - left) = i
    <3> DEFINE p == row * W
    <3>1. p \in Int /\ left \in Int /\ column \in Int /\ i = p + column
      BY <1>1, <1>3, <2>2, <2>9
    <3> HIDE DEF p
    <3>2. p + left + (column - left) = i
      BY <3>1
    <3> QED
      BY <3>2 DEF p
  <2>11. place + 1 \in DOMAIN around
    BY <1>5, <2>7
  <2> QED
    BY <2>8, <2>9, <2>10, <2>11
<1> QED
  BY <1>8, <1>9 DEF around

-----------------------------------------------------------------------------
(* get_intersect_rects: the loops over the layers and over their tiles. *)

\* What the inner loop does with a tile.
Collect(m, layer, property, found, i) ==
  IF Counts(m, layer, i, property) THEN Append(found, i) ELSE found

\* result is what Collect makes of the tiles s, one after the other.
CollectedFrom(m, l, property, s, result) ==
  \E run : /\ run[0] = <<>>
           /\ \A k \in 1 .. Len(s) : run[k] = Collect(m, m.layers[l], property, run[k - 1], s[k])
           /\ result = run[Len(s)]

\* The loop over the tiles around the rectangle.
LEMMA TilesRun ==
  ASSUME NEW m, WholeMap(m), NEW l \in DOMAIN m.layers, NEW r \in Rects, InBounds(m, r),
         NEW property, m.layers[l].visible
  PROVE  CollectedFrom(m, l, property, Around(m, m.layers[l], r),
           TilesOf(m, m.layers[l], r, property))
<1> DEFINE s == Around(m, m.layers[l], r)
           n == Len(s)
           A == Seq(TileIndices(m))
           B == TileIndices(m)
           step == [x \in A \X B |-> Collect(m, m.layers[l], property, x[1], x[2])]
           Folds(it) == it = [t \in SUBSET (1 .. n) |->
                                IF t = {} THEN <<>>
                                ELSE Collect(m, m.layers[l], property, it[t \ {Latest(t)}], s[Latest(t)])]
<1>1. n \in Nat /\ DOMAIN s = 1 .. n /\ \A i \in 1 .. n : s[i] \in B
  BY AroundIsThere
<1>2. TilesOf(m, m.layers[l], r, property) = (CHOOSE it : Folds(it))[1 .. n]
  BY <1>1 DEF TilesOf, Collect, FoldLeft, MapThenFoldSet, Latest, Max
<1>3. step \in [A \X B -> A] /\ <<>> \in A
  BY DEF Collect
<1> HIDE DEF s, n, A, B, step
<1>4. n \in Nat /\ \A i \in 1 .. n : s[i] \in B
  BY <1>1
<1>5. PICK it \in [SUBSET (1 .. n) -> A] : Stepwise(it, step, <<>>, s, n)
  BY <1>3, <1>4, StepwiseExists, Zenon
<1>6. \A t \in SUBSET (1 .. n) :
        Body(it, step, <<>>, s, t)
          = IF t = {} THEN <<>> ELSE Collect(m, m.layers[l], property, it[t \ {Latest(t)}], s[Latest(t)])
  <2> SUFFICES ASSUME NEW t \in SUBSET (1 .. n), t # {}
               PROVE  step[<<it[t \ {Latest(t)}], s[Latest(t)]>>] = Collect(m, m.layers[l], property, it[t \ {Latest(t)}], s[Latest(t)])
    BY Zenon DEF Body
  <2>1. Latest(t) \in 1 .. n /\ t \ {Latest(t)} \in SUBSET (1 .. n)
    BY <1>1, LatestIsOne
  <2>2. it[t \ {Latest(t)}] \in A /\ s[Latest(t)] \in B
    BY <1>4, <2>1, Zenon
  <2> QED
    BY <2>2 DEF step
<1>7. Folds(it)
  BY <1>5, <1>6, Zenon DEF Stepwise
<1> DEFINE f == CHOOSE h : Folds(h)
<1>8. Folds(f)
  <2> HIDE DEF Folds
  <2> QED
    BY <1>7, Zenon
<1> HIDE DEF f
<1> DEFINE run == [k \in 0 .. n |-> f[1 .. k]]
<1>9. run[0] = <<>>
  <2>1. 1 .. 0 = {} /\ 0 \in 0 .. n /\ {} \in SUBSET (1 .. n)
    BY <1>4
  <2>2. f[{}] = <<>>
    BY <1>8, <2>1
  <2> QED
    BY <2>1, <2>2
<1>10. \A k \in 1 .. n : run[k] = Collect(m, m.layers[l], property, run[k - 1], s[k])
  <2> SUFFICES ASSUME NEW k \in 1 .. n
               PROVE  run[k] = Collect(m, m.layers[l], property, run[k - 1], s[k])
    OBVIOUS
  <2>1. /\ k \in Nat \ {0} /\ k \in 0 .. n /\ k - 1 \in 0 .. n
        /\ 1 .. k \in SUBSET (1 .. n)
    BY <1>4
  <2>2. 1 .. k # {} /\ Latest(1 .. k) = k /\ (1 .. k) \ {Latest(1 .. k)} = 1 .. (k - 1)
    BY <2>1, PlacesInOrder
  <2>3. f[1 .. k] = Collect(m, m.layers[l], property, f[(1 .. k) \ {Latest(1 .. k)}], s[Latest(1 .. k)])
    BY <1>8, <2>1, <2>2
  <2>4. run[k] = f[1 .. k] /\ run[k - 1] = f[1 .. (k - 1)]
    BY <2>1
  <2> QED
    BY <2>2, <2>3, <2>4
<1>11. TilesOf(m, m.layers[l], r, property) = run[n]
  <2>1. n \in 0 .. n
    BY <1>4
  <2> QED
    BY <1>2, <2>1, Zenon DEF f
<1>12. CollectedFrom(m, l, property, s,
         TilesOf(m, m.layers[l], r, property))
  BY <1>9, <1>10, <1>11, Zenon DEF CollectedFrom, n
<1> QED
  BY <1>12 DEF s

\* Of the tiles that lie under r, found has every one that layer l says has
\* the property, and it has only tiles of which layer l says so.
AcceptedIn(m, l, i, property) == m.layers[l].visible /\ Counts(m, m.layers[l], i, property)

Yields(m, l, r, property, found) ==
  /\ found \in Seq(TileIndices(m))
  /\ \A k \in 1 .. Len(found) : AcceptedIn(m, l, found[k], property)
  /\ \A i \in TileIndices(m) :
       AcceptedIn(m, l, i, property) /\ CheckCollisionRecs(SetTileRect(m, i), r)
         => \E k \in 1 .. Len(found) : found[k] = i

LEMMA TilesOfEffect ==
  ASSUME NEW m, WholeMap(m), NEW l \in DOMAIN m.layers, NEW r \in Rects, InBounds(m, r),
         NEW property
  PROVE  Yields(m, l, r, property, TilesOf(m, m.layers[l], r, property))
<1>1. CASE ~ m.layers[l].visible
  <2>1. TilesOf(m, m.layers[l], r, property) = <<>>
    BY <1>1 DEF TilesOf
  <2> QED
    BY <1>1, <2>1 DEF Yields, AcceptedIn
<1>2. CASE m.layers[l].visible
  <2> DEFINE s == Around(m, m.layers[l], r)
             n == Len(s)
             found == TilesOf(m, m.layers[l], r, property)
             S == TileIndices(m)
             Accepts(i) == Counts(m, m.layers[l], i, property)
  <2>0. s = Around(m, m.layers[l], r) /\ n = Len(s) /\ found = TilesOf(m, m.layers[l], r, property)
    OBVIOUS
  <2> HIDE DEF s, n, found
  <2>1. PICK run :
          /\ run[0] = <<>>
          /\ \A k \in 1 .. n : run[k] = Collect(m, m.layers[l], property, run[k - 1], s[k])
          /\ found = run[n]
    <3>1. CollectedFrom(m, l, property, s, found)
      BY <1>2, <2>0, TilesRun
    <3> QED
      BY <2>0, <3>1 DEF CollectedFrom
  <2>2. /\ n \in Nat /\ DOMAIN s = 1 .. n /\ \A k \in 1 .. n : s[k] \in S
        /\ \A i \in S : CheckCollisionRecs(SetTileRect(m, i), r) => \E k \in 1 .. n : s[k] = i
    BY AroundIsThere DEF s, n
  <2>3. \A k \in 1 .. n :
          run[k] = IF Accepts(s[k]) THEN Append(run[k - 1], s[k]) ELSE run[k - 1]
    BY <2>1 DEF Collect
  <2> HIDE DEF S, Accepts
  <2> DEFINE Holds(k) ==
               /\ run[k] \in Seq(S)
               /\ \A j \in 1 .. Len(run[k]) : Accepts(run[k][j])
               /\ \A i \in 1 .. k : Accepts(s[i]) => \E j \in 1 .. Len(run[k]) : run[k][j] = s[i]
             T == {k \in 0 .. n : Holds(k)}
  <2>4. 0 \in T
    <3>1. run[0] \in Seq(S) /\ Len(run[0]) = 0 /\ 0 \in 0 .. n
      BY <2>1, <2>2
    <3>2. Holds(0)
      BY <3>1
    <3> QED
      BY <3>1, <3>2
  <2>5. \A k \in 1 .. n : k - 1 \in T => k \in T
    <3> SUFFICES ASSUME NEW k \in 1 .. n, k - 1 \in T
                 PROVE  k \in T
      OBVIOUS
    <3> DEFINE before == run[k - 1]
               after == run[k]
    <3>1. /\ before \in Seq(S)
          /\ \A j \in 1 .. Len(before) : Accepts(before[j])
          /\ \A i \in 1 .. k - 1 : Accepts(s[i]) => \E j \in 1 .. Len(before) : before[j] = s[i]
      OBVIOUS
    <3>2. after = IF Accepts(s[k]) THEN Append(before, s[k]) ELSE before
      BY <2>3
    <3>3. s[k] \in S /\ k \in 0 .. n /\ \A i \in 1 .. k : i \in 1 .. k - 1 \/ i = k
      BY <2>2
    <3> HIDE DEF before, after
    <3>4. CASE ~ Accepts(s[k])
      <4>1. after = before
        BY <3>2, <3>4
      <4>2. \A i \in 1 .. k : Accepts(s[i]) => \E j \in 1 .. Len(after) : after[j] = s[i]
        BY <3>1, <3>3, <3>4, <4>1
      <4> QED
        BY <3>1, <3>3, <4>1, <4>2 DEF before, after
    <3>5. CASE Accepts(s[k])
      <4>1. /\ after \in Seq(S) /\ Len(after) = Len(before) + 1 /\ Len(before) \in Nat
            /\ \A j \in 1 .. Len(before) : after[j] = before[j]
            /\ after[Len(before) + 1] = s[k]
        BY <3>1, <3>2, <3>3, <3>5
      <4>2. \A j \in 1 .. Len(after) : j \in 1 .. Len(before) \/ j = Len(before) + 1
        BY <4>1
      <4>3. \A j \in 1 .. Len(after) : Accepts(after[j])
        BY <3>1, <3>5, <4>1, <4>2
      <4>4. \A j \in 1 .. Len(before) : j \in 1 .. Len(after)
        BY <4>1
      <4>5. Len(before) + 1 \in 1 .. Len(after)
        BY <4>1
      <4>6. \A i \in 1 .. k : Accepts(s[i]) => \E j \in 1 .. Len(after) : after[j] = s[i]
        <5> SUFFICES ASSUME NEW i \in 1 .. k, Accepts(s[i])
                     PROVE  \E j \in 1 .. Len(after) : after[j] = s[i]
          OBVIOUS
        <5>1. CASE i = k
          BY <4>1, <4>5, <5>1
        <5>2. CASE i \in 1 .. k - 1
          <6>1. PICK j \in 1 .. Len(before) : before[j] = s[i]
            BY <3>1, <5>2
          <6> QED
            BY <4>1, <4>4, <6>1
        <5> QED
          BY <3>3, <5>1, <5>2
      <4> QED
        BY <3>3, <4>1, <4>3, <4>6 DEF after
    <3> QED
      BY <3>4, <3>5
  <2> HIDE DEF T
  <2>6. \A k \in 0 .. n : k \in T
    BY <2>2, <2>4, <2>5, UpTo
  <2>7. Holds(n)
    BY <2>2, <2>6 DEF T
  <2>8. \A i \in S : Accepts(i) /\ CheckCollisionRecs(SetTileRect(m, i), r)
                       => \E k \in 1 .. Len(found) : found[k] = i
    <3> SUFFICES ASSUME NEW i \in S, Accepts(i), CheckCollisionRecs(SetTileRect(m, i), r)
                 PROVE  \E k \in 1 .. Len(found) : found[k] = i
      OBVIOUS
    <3>1. PICK k \in 1 .. n : s[k] = i
      BY <2>2
    <3> QED
      BY <2>1, <2>7, <3>1
  <2>9. found \in Seq(S) /\ \A k \in 1 .. Len(found) : Accepts(found[k])
    BY <2>1, <2>7
  <2> QED
    BY <1>2, <2>8, <2>9 DEF found, S, Accepts, Yields, AcceptedIn
<1> QED
  BY <1>1, <1>2

\* result is what the layers s yield, one after the other.
JoinedFrom(m, r, property, s, result) ==
  \E run : /\ run[0] = <<>>
           /\ \A k \in 1 .. Len(s) : run[k] = run[k - 1] \o TilesOf(m, s[k], r, property)
           /\ result = run[Len(s)]

\* The loop over the layers.
LEMMA LayersRun ==
  ASSUME NEW m, WholeMap(m), NEW r \in Rects, InBounds(m, r), NEW property
  PROVE  JoinedFrom(m, r, property, m.layers,
           GetIntersectRects(m, r, property))
<1> DEFINE s == m.layers
           n == Len(s)
           A == Seq(TileIndices(m))
           B == {m.layers[l] : l \in DOMAIN m.layers}
           step == [x \in A \X B |-> x[1] \o TilesOf(m, x[2], r, property)]
           Folds(it) == it = [t \in SUBSET (1 .. n) |->
                                IF t = {} THEN <<>>
                                ELSE it[t \ {Latest(t)}] \o TilesOf(m, s[Latest(t)], r, property)]
<1>1. n \in Nat /\ DOMAIN s = 1 .. n /\ \A i \in 1 .. n : s[i] \in B
  BY WholeMapTypes
<1>2. GetIntersectRects(m, r, property) = (CHOOSE it : Folds(it))[1 .. n]
  BY <1>1 DEF GetIntersectRects, FoldLeft, MapThenFoldSet, Latest, Max
<1>3. step \in [A \X B -> A] /\ <<>> \in A
  <2>1. \A b \in B : TilesOf(m, b, r, property) \in A
    BY TilesOfEffect DEF Yields
  <2> QED
    BY <2>1, ConcatProperties
<1> HIDE DEF s, n, A, B, step
<1>4. n \in Nat /\ \A i \in 1 .. n : s[i] \in B
  BY <1>1
<1>5. PICK it \in [SUBSET (1 .. n) -> A] : Stepwise(it, step, <<>>, s, n)
  BY <1>3, <1>4, StepwiseExists, Zenon
<1>6. \A t \in SUBSET (1 .. n) :
        Body(it, step, <<>>, s, t)
          = IF t = {} THEN <<>> ELSE it[t \ {Latest(t)}] \o TilesOf(m, s[Latest(t)], r, property)
  <2> SUFFICES ASSUME NEW t \in SUBSET (1 .. n), t # {}
               PROVE  step[<<it[t \ {Latest(t)}], s[Latest(t)]>>] = it[t \ {Latest(t)}] \o TilesOf(m, s[Latest(t)], r, property)
    BY Zenon DEF Body
  <2>1. Latest(t) \in 1 .. n /\ t \ {Latest(t)} \in SUBSET (1 .. n)
    BY <1>1, LatestIsOne
  <2>2. it[t \ {Latest(t)}] \in A /\ s[Latest(t)] \in B
    BY <1>4, <2>1, Zenon
  <2> QED
    BY <2>2 DEF step
<1>7. Folds(it)
  BY <1>5, <1>6, Zenon DEF Stepwise
<1> DEFINE f == CHOOSE h : Folds(h)
<1>8. Folds(f)
  <2> HIDE DEF Folds
  <2> QED
    BY <1>7, Zenon
<1> HIDE DEF f
<1> DEFINE run == [k \in 0 .. n |-> f[1 .. k]]
<1>9. run[0] = <<>>
  <2>1. 1 .. 0 = {} /\ 0 \in 0 .. n /\ {} \in SUBSET (1 .. n)
    BY <1>4
  <2>2. f[{}] = <<>>
    BY <1>8, <2>1
  <2> QED
    BY <2>1, <2>2
<1>10. \A k \in 1 .. n : run[k] = run[k - 1] \o TilesOf(m, s[k], r, property)
  <2> SUFFICES ASSUME NEW k \in 1 .. n
               PROVE  run[k] = run[k - 1] \o TilesOf(m, s[k], r, property)
    OBVIOUS
  <2>1. /\ k \in Nat \ {0} /\ k \in 0 .. n /\ k - 1 \in 0 .. n
        /\ 1 .. k \in SUBSET (1 .. n)
    BY <1>4
  <2>2. 1 .. k # {} /\ Latest(1 .. k) = k /\ (1 .. k) \ {Latest(1 .. k)} = 1 .. (k - 1)
    BY <2>1, PlacesInOrder
  <2>3. f[1 .. k] = f[(1 .. k) \ {Latest(1 .. k)}] \o TilesOf(m, s[Latest(1 .. k)], r, property)
    BY <1>8, <2>1, <2>2
  <2>4. run[k] = f[1 .. k] /\ run[k - 1] = f[1 .. (k - 1)]
    BY <2>1
  <2> QED
    BY <2>2, <2>3, <2>4
<1>11. GetIntersectRects(m, r, property) = run[n]
  <2>1. n \in 0 .. n
    BY <1>4
  <2> QED
    BY <1>2, <2>1, Zenon DEF f
<1>12. JoinedFrom(m, r, property, s,
         GetIntersectRects(m, r, property))
  BY <1>9, <1>10, <1>11, Zenon DEF JoinedFrom, n
<1> QED
  BY <1>12 DEF s

\* found is what get_intersect_rects should return for r.
Finds(m, r, property, found) ==
  /\ found \in Seq(TileIndices(m))
  /\ \A k \in 1 .. Len(found) : Accepted(m, found[k], property)
  /\ \A i \in TileIndices(m) :
       Accepted(m, i, property) /\ CheckCollisionRecs(SetTileRect(m, i), r)
         => \E k \in 1 .. Len(found) : found[k] = i

(***************************************************************************)
(* get_intersect_rects on a rectangle that is on the map: the tiles it     *)
(* returns are tiles of the map that have the property in a visible layer, *)
(* and of those the rectangle lies over none is missed.                    *)
(***************************************************************************)
THEOREM FoundTiles ==
  ASSUME NEW m, WholeMap(m), NEW r \in Rects, InBounds(m, r), NEW property
  PROVE  Finds(m, r, property, GetIntersectRects(m, r, property))
<1> DEFINE s == m.layers
           n == Len(s)
           found == GetIntersectRects(m, r, property)
           of(l) == TilesOf(m, s[l], r, property)
           S == TileIndices(m)
           Accepts(i) == Accepted(m, i, property)
           Meets(i) == CheckCollisionRecs(SetTileRect(m, i), r)
           AcceptedBy(l, i) == AcceptedIn(m, l, i, property)
<1>1. PICK run :
        /\ run[0] = <<>>
        /\ \A l \in 1 .. n : run[l] = run[l - 1] \o of(l)
        /\ found = run[n]
  <2>1. JoinedFrom(m, r, property, s, found)
    BY LayersRun
  <2> QED
    BY <2>1 DEF JoinedFrom
<1>2. n \in Nat /\ DOMAIN s = 1 .. n
  BY WholeMapTypes
<1>3. \A l \in 1 .. n :
        /\ of(l) \in Seq(S)
        /\ \A k \in 1 .. Len(of(l)) : AcceptedBy(l, of(l)[k])
        /\ \A i \in S : AcceptedBy(l, i) /\ Meets(i) => \E k \in 1 .. Len(of(l)) : of(l)[k] = i
  <2> SUFFICES ASSUME NEW l \in 1 .. n
               PROVE  /\ of(l) \in Seq(S)
                      /\ \A k \in 1 .. Len(of(l)) : AcceptedBy(l, of(l)[k])
                      /\ \A i \in S : AcceptedBy(l, i) /\ Meets(i)
                           => \E k \in 1 .. Len(of(l)) : of(l)[k] = i
    OBVIOUS
  <2>1. l \in DOMAIN m.layers
    BY <1>2
  <2>2. Yields(m, l, r, property, of(l))
    BY <2>1, TilesOfEffect
  <2> QED
    BY <2>2 DEF Yields
<1>4. \A i : Accepts(i) <=> \E l \in 1 .. n : AcceptedBy(l, i)
  BY <1>2 DEF Accepted, AcceptedIn
<1> HIDE DEF s, n, found, of, S, Accepts, Meets, AcceptedBy
<1> DEFINE Holds(l) ==
             /\ run[l] \in Seq(S)
             /\ \A k \in 1 .. Len(run[l]) : Accepts(run[l][k])
             /\ \A j \in 1 .. l, i \in S :
                  AcceptedBy(j, i) /\ Meets(i) => \E k \in 1 .. Len(run[l]) : run[l][k] = i
           T == {l \in 0 .. n : Holds(l)}
<1>5. 0 \in T
  <2>1. run[0] \in Seq(S) /\ Len(run[0]) = 0 /\ 0 \in 0 .. n
    BY <1>1, <1>2
  <2>2. Holds(0)
    BY <2>1
  <2> QED
    BY <2>1, <2>2
<1>6. \A l \in 1 .. n : l - 1 \in T => l \in T
  <2> SUFFICES ASSUME NEW l \in 1 .. n, l - 1 \in T
               PROVE  Holds(l)
    BY <1>2
  <2> DEFINE before == run[l - 1]
             more == of(l)
             after == run[l]
  <2>1. /\ before \in Seq(S)
        /\ \A k \in 1 .. Len(before) : Accepts(before[k])
        /\ \A j \in 1 .. l - 1, i \in S :
             AcceptedBy(j, i) /\ Meets(i) => \E k \in 1 .. Len(before) : before[k] = i
    OBVIOUS
  <2>2. /\ more \in Seq(S)
        /\ \A k \in 1 .. Len(more) : Accepts(more[k])
        /\ \A i \in S : AcceptedBy(l, i) /\ Meets(i) => \E k \in 1 .. Len(more) : more[k] = i
    <3>1. \A k \in 1 .. Len(more) : AcceptedBy(l, more[k])
      BY <1>3
    <3> HIDE DEF more
    <3>2. \A k \in 1 .. Len(more) : Accepts(more[k])
      BY <1>4, <3>1
    <3> QED
      BY <1>3, <3>2 DEF more
  <2>3. after = before \o more
    BY <1>1
  <2> HIDE DEF before, more, after
  <2>4. /\ after \in Seq(S) /\ Len(after) = Len(before) + Len(more)
        /\ Len(before) \in Nat /\ Len(more) \in Nat
        /\ \A k \in 1 .. Len(after) :
             after[k] = IF k <= Len(before) THEN before[k] ELSE more[k - Len(before)]
    <3>1. after \in Seq(S) /\ Len(after) = Len(before) + Len(more)
      BY <2>1, <2>2, <2>3, ConcatProperties
    <3>2. \A k \in 1 .. Len(before) + Len(more) :
            after[k] = IF k <= Len(before) THEN before[k] ELSE more[k - Len(before)]
      BY <2>1, <2>2, <2>3, ConcatProperties
    <3> QED
      BY <2>1, <2>2, <3>1, <3>2
  <2>5. \A k \in 1 .. Len(after) : Accepts(after[k])
    <3> SUFFICES ASSUME NEW k \in 1 .. Len(after)
                 PROVE  Accepts(after[k])
      OBVIOUS
    <3>1. CASE k <= Len(before)
      <4>1. k \in 1 .. Len(before) /\ after[k] = before[k]
        BY <2>4, <3>1
      <4> QED
        BY <2>1, <4>1
    <3>2. CASE ~ (k <= Len(before))
      <4>1. k - Len(before) \in 1 .. Len(more) /\ after[k] = more[k - Len(before)]
        BY <2>4, <3>2
      <4> QED
        BY <2>2, <4>1
    <3> QED
      BY <3>1, <3>2
  <2>6. ASSUME NEW j \in 1 .. l, NEW i \in S, AcceptedBy(j, i), Meets(i)
        PROVE  \E k \in 1 .. Len(after) : after[k] = i
    <3>1. CASE j = l
      <4>1. PICK k \in 1 .. Len(more) : more[k] = i
        BY <2>2, <2>6, <3>1
      <4>2. /\ Len(before) + k \in 1 .. Len(after) /\ ~ (Len(before) + k <= Len(before))
            /\ (Len(before) + k) - Len(before) = k
        BY <2>4
      <4> QED
        BY <2>4, <4>1, <4>2
    <3>2. CASE j # l
      <4>1. j \in 1 .. l - 1
        BY <3>2
      <4>2. PICK k \in 1 .. Len(before) : before[k] = i
        BY <2>1, <2>6, <4>1
      <4>3. k \in 1 .. Len(after) /\ k <= Len(before)
        BY <2>4
      <4> QED
        BY <2>4, <4>2, <4>3
    <3> QED
      BY <3>1, <3>2
  <2> QED
    BY <2>4, <2>5, <2>6 DEF after
<1> HIDE DEF T
<1>7. \A l \in 0 .. n : l \in T
  BY <1>2, <1>5, <1>6, UpTo
<1>8. Holds(n)
  BY <1>2, <1>7 DEF T
<1>9. ASSUME NEW i \in S, Accepts(i), Meets(i)
      PROVE  \E k \in 1 .. Len(found) : found[k] = i
  <2>1. PICK l \in 1 .. n : AcceptedBy(l, i)
    BY <1>4, <1>9
  <2> QED
    BY <1>1, <1>8, <1>9, <2>1
<1>10. found \in Seq(S) /\ \A k \in 1 .. Len(found) : Accepts(found[k])
  BY <1>1, <1>8
<1> QED
  BY <1>9, <1>10 DEF found, S, Accepts, Meets, Finds

\* A rectangle that is not entirely on the map meets nothing.
LEMMA NothingOffTheMap ==
  ASSUME NEW m, NEW r, ~ InBounds(m, r), NEW property
  PROVE  GetIntersectRects(m, r, property) = <<>>
BY DEF GetIntersectRects

-----------------------------------------------------------------------------
(* The collision loop of player_update, along one axis. *)

\* Where a wall from a on, of t pixels, and a player of w pixels at q overlap.
Over(a, t, q, w) == q < a + t /\ a < q + w

Between(p, e) == {q \in Int : (p <= q /\ q <= e) \/ (e <= q /\ q <= p)}

\* Beside the wall, on the side the displacement came from.
Beside(a, t, w, d) == IF d < 0 THEN a + t ELSE a - w

\* A displacement by d from p ends at e: on the way there is none of the walls
\* a[k], k in K, and it goes all the way unless one of them is next.
Stops(p, d, w, t, a, K, e) ==
  /\ e \in Between(p, p + d)
  /\ \A k \in K : \A q \in Between(p, e) : ~ Over(a[k], t, q, w)
  /\ e = p + d \/ \E k \in K : e = Beside(a[k], t, w, d)

\* One wall more.
LEMMA PushedOnce ==
  ASSUME NEW p \in Int, NEW d \in Int, NEW w \in Nat \ {0}, NEW t \in Nat \ {0},
         -(w + t) < d, d < w + t, d # 0,
         NEW b \in Int, NEW e \in Between(p, p + d), ~ Over(b, t, p, w)
  PROVE  LET f == IF Over(b, t, e, w) THEN Beside(b, t, w, d) ELSE e
         IN  f \in Between(p, e) /\ \A q \in Between(p, f) : ~ Over(b, t, q, w)
<1> DEFINE f == IF Over(b, t, e, w) THEN Beside(b, t, w, d) ELSE e
<1>1. CASE d > 0
  <2>1. e \in Int /\ p <= e /\ e <= p + d
    BY <1>1 DEF Between
  <2>2. CASE Over(b, t, e, w)
    <3>1. f = b - w /\ p <= f /\ f <= e
      BY <1>1, <2>1, <2>2 DEF Over, Beside
    <3> QED
      BY <2>1, <3>1 DEF Over, Between
  <2>3. CASE ~ Over(b, t, e, w)
    <3>1. f = e
      BY <2>3
    <3>2. \A q \in Int : p <= q /\ q <= e => ~ Over(b, t, q, w)
      BY <1>1, <2>1, <2>3 DEF Over
    <3> QED
      BY <2>1, <3>1, <3>2 DEF Between
  <2> QED
    BY <2>2, <2>3
<1>2. CASE d < 0
  <2>1. e \in Int /\ e <= p /\ p + d <= e
    BY <1>2 DEF Between
  <2>2. CASE Over(b, t, e, w)
    <3>1. f = b + t /\ f <= p /\ e <= f
      BY <1>2, <2>1, <2>2 DEF Over, Beside
    <3> QED
      BY <2>1, <3>1 DEF Over, Between
  <2>3. CASE ~ Over(b, t, e, w)
    <3>1. f = e
      BY <2>3
    <3>2. \A q \in Int : e <= q /\ q <= p => ~ Over(b, t, q, w)
      BY <1>2, <2>1, <2>3 DEF Over
    <3> QED
      BY <2>1, <3>1, <3>2 DEF Between
  <2> QED
    BY <2>2, <2>3
<1> QED
  BY <1>1, <1>2

LEMMA BetweenNests ==
  ASSUME NEW p \in Int, NEW d \in Int, NEW e \in Between(p, p + d), NEW f \in Between(p, e)
  PROVE  f \in Between(p, p + d) /\ Between(p, f) \subseteq Between(p, e)
BY DEF Between

\* All the walls, one after the other, each against what the ones before left.
LEMMA PushedAlong ==
  ASSUME NEW p \in Int, NEW d \in Int, NEW w \in Nat \ {0}, NEW t \in Nat \ {0},
         -(w + t) < d, d < w + t, d # 0,
         NEW n \in Nat, NEW a, \A k \in 1 .. n : a[k] \in Int,
         NEW K \in SUBSET (1 .. n), \A k \in K : ~ Over(a[k], t, p, w),
         NEW g, g[0] = p + d,
         \A k \in 1 .. n : g[k] = IF k \in K /\ Over(a[k], t, g[k - 1], w)
                                  THEN Beside(a[k], t, w, d) ELSE g[k - 1]
  PROVE  Stops(p, d, w, t, a, K, g[n])
<1> DEFINE Holds(k) == Stops(p, d, w, t, a, K \cap 1 .. k, g[k])
           T == {k \in 0 .. n : Holds(k)}
<1>1. 0 \in T
  <2>1. K \cap 1 .. 0 = {} /\ p + d \in Between(p, p + d)
    BY DEF Between
  <2>2. Holds(0)
    BY <2>1 DEF Stops
  <2> QED
    BY <2>2
<1>2. \A k \in 1 .. n : k - 1 \in T => k \in T
  <2>0. \A k \in 1 .. n : k \in 0 .. n
    OBVIOUS
  <2> SUFFICES ASSUME NEW k \in 1 .. n, k - 1 \in T
               PROVE  Holds(k)
    <3> HIDE DEF Holds
    <3> QED
      BY <2>0
  <2> DEFINE e == g[k - 1]
             f == g[k]
             J == K \cap 1 .. (k - 1)
             L == K \cap 1 .. k
  <2>1. /\ e \in Between(p, p + d)
        /\ \A j \in J : \A q \in Between(p, e) : ~ Over(a[j], t, q, w)
        /\ e = p + d \/ \E j \in J : e = Beside(a[j], t, w, d)
    BY DEF Stops
  <2>2. f = IF k \in K /\ Over(a[k], t, e, w) THEN Beside(a[k], t, w, d) ELSE e
    OBVIOUS
  <2>3. J \subseteq L /\ (k \in K => k \in L) /\ \A j \in L : j \in J \/ (j = k /\ k \in K)
    OBVIOUS
  <2>4. a[k] \in Int /\ e \in Int /\ (k \in K => ~ Over(a[k], t, p, w))
    BY <2>1 DEF Between
  <2> HIDE DEF e, f, J, L
  <2>5. CASE k \notin K
    <3>1. f = e /\ L = J
      BY <2>2, <2>3, <2>5
    <3> QED
      BY <2>1, <3>1 DEF Stops, f, L
  <2>6. CASE k \in K
    <3>1. f \in Between(p, e) /\ \A q \in Between(p, f) : ~ Over(a[k], t, q, w)
      BY <2>1, <2>2, <2>4, <2>6, PushedOnce
    <3>2. f \in Between(p, p + d) /\ Between(p, f) \subseteq Between(p, e)
      BY <2>1, <3>1, BetweenNests
    <3>3. \A j \in L : \A q \in Between(p, f) : ~ Over(a[j], t, q, w)
      BY <2>1, <2>3, <3>1, <3>2
    <3>4. f = p + d \/ \E j \in L : f = Beside(a[j], t, w, d)
      BY <2>1, <2>2, <2>3, <2>6
    <3> QED
      BY <3>2, <3>3, <3>4 DEF Stops, f, L
  <2> QED
    BY <2>5, <2>6
<1> HIDE DEF T
<1>3. Holds(n)
  <2>1. \A k \in 0 .. n : k \in T
    BY <1>1, <1>2, UpTo
  <2>2. n \in T
    BY <2>1
  <2> QED
    BY <2>2 DEF T
<1>4. K \cap 1 .. n = K
  OBVIOUS
<1> QED
  BY <1>3, <1>4

-----------------------------------------------------------------------------
(* The walls of a map, and those player_update and bullet_update ask for. *)

WallRects(m) == {SetTileRect(m, i) : i \in {j \in TileIndices(m) : Accepted(m, j, "blocked")}}

\* No wall is where r is.
Clear(m, r) == \A wall \in WallRects(m) : ~ CheckCollisionRecs(wall, r)

TileRects(m) == [x : Int, y : Int, w : {m.tileWidth}, h : {m.tileHeight}]

LEMMA TileRectType ==
  ASSUME NEW m, WholeMap(m), NEW i \in TileIndices(m)
  PROVE  SetTileRect(m, i) \in TileRects(m)
<1>1. /\ m.width \in Nat \ {0} /\ m.tileWidth \in Nat \ {0} /\ m.tileHeight \in Nat \ {0}
      /\ i \in Int
  BY WholeMapTypes DEF TileIndices
<1> DEFINE column == i % m.width
           row == i \div m.width
<1>2. column \in Int /\ row \in Int
  <2>1. i % m.width \in 0 .. m.width - 1 /\ i \div m.width \in Int
    BY <1>1, Division
  <2> QED
    BY <1>1, <2>1
<1> HIDE DEF column, row
<1>3. column * m.tileWidth \in Int /\ row * m.tileHeight \in Int
  BY <1>1, <1>2, Distributes
<1>4. SetTileRect(m, i) = [x |-> column * m.tileWidth, y |-> row * m.tileHeight,
                           w |-> m.tileWidth, h |-> m.tileHeight]
  BY DEF SetTileRect, Rect, column, row
<1> QED
  BY <1>3, <1>4 DEF TileRects

LEMMA WallTypes ==
  ASSUME NEW m, WholeMap(m)
  PROVE  WallRects(m) \subseteq TileRects(m) /\ TileRects(m) \subseteq Rects
<1>1. m.tileWidth \in Nat \ {0} /\ m.tileHeight \in Nat \ {0}
  BY WholeMapTypes
<1>2. TileRects(m) \subseteq Rects
  BY <1>1 DEF TileRects, Rects
<1> QED
  BY <1>2, TileRectType DEF WallRects

\* walls has walls only, and every one that r lies over while it is on the map.
Surround(m, r, walls) ==
  /\ walls \in Seq(WallRects(m))
  /\ ~ InBounds(m, r) => Len(walls) = 0
  /\ InBounds(m, r) =>
       \A wall \in WallRects(m) :
         CheckCollisionRecs(wall, r) => \E k \in 1 .. Len(walls) : walls[k] = wall

LEMMA WallsSurround ==
  ASSUME NEW m, WholeMap(m), NEW r \in Rects
  PROVE  Surround(m, r, Walls(m, r))
<1> DEFINE found == GetIntersectRects(m, r, "blocked")
           walls == Walls(m, r)
<1>1. walls = [i \in DOMAIN found |-> SetTileRect(m, found[i])]
  BY DEF Walls
<1>2. CASE ~ InBounds(m, r)
  <2>1. found = <<>> /\ DOMAIN found = {}
    BY <1>2, NothingOffTheMap
  <2>2. walls = <<>>
    BY <1>1, <2>1
  <2> QED
    BY <1>2, <2>2 DEF Surround
<1>3. CASE InBounds(m, r)
  <2>1. Finds(m, r, "blocked", found)
    BY <1>3, FoundTiles
  <2>2. /\ found \in Seq(TileIndices(m)) /\ DOMAIN found = 1 .. Len(found) /\ Len(found) \in Nat
        /\ \A k \in 1 .. Len(found) : found[k] \in TileIndices(m) /\ Accepted(m, found[k], "blocked")
        /\ \A i \in TileIndices(m) :
             Accepted(m, i, "blocked") /\ CheckCollisionRecs(SetTileRect(m, i), r)
               => \E k \in 1 .. Len(found) : found[k] = i
    BY <2>1 DEF Finds
  <2> HIDE DEF found
  <2>3. \A k \in 1 .. Len(found) : SetTileRect(m, found[k]) \in WallRects(m)
    BY <2>2 DEF WallRects
  <2>4. walls \in Seq(WallRects(m)) /\ Len(walls) = Len(found)
    BY <1>1, <2>2, <2>3
  <2>5. ASSUME NEW wall \in WallRects(m), CheckCollisionRecs(wall, r)
        PROVE  \E k \in 1 .. Len(walls) : walls[k] = wall
    <3>1. PICK i \in TileIndices(m) : Accepted(m, i, "blocked") /\ wall = SetTileRect(m, i)
      BY DEF WallRects
    <3>2. PICK k \in 1 .. Len(found) : found[k] = i
      BY <2>2, <2>5, <3>1
    <3> QED
      BY <1>1, <2>2, <2>4, <3>1, <3>2
  <2> QED
    BY <1>3, <2>4, <2>5 DEF Surround
<1> QED
  BY <1>2, <1>3

(***************************************************************************)
(* A bullet ends where it lies over a wall, on the map.                    *)
(***************************************************************************)
THEOREM BulletsEndAtWalls ==
  ASSUME NEW m, WholeMap(m), NEW r \in Rects
  PROVE  BulletHitsWall(m, r) <=> InBounds(m, r) /\ ~ Clear(m, r)
<1> DEFINE walls == Walls(m, r)
<1>1. Surround(m, r, walls)
  BY WallsSurround
<1>2. BulletHitsWall(m, r) <=> \E k \in DOMAIN walls : CheckCollisionRecs(walls[k], r)
  BY DEF BulletHitsWall
<1> HIDE DEF walls
<1>3. /\ DOMAIN walls = 1 .. Len(walls)
      /\ \A k \in 1 .. Len(walls) : walls[k] \in WallRects(m)
      /\ ~ InBounds(m, r) => Len(walls) = 0
      /\ InBounds(m, r) =>
           \A wall \in WallRects(m) :
             CheckCollisionRecs(wall, r) => \E k \in 1 .. Len(walls) : walls[k] = wall
  BY <1>1 DEF Surround
<1>4. ASSUME BulletHitsWall(m, r)
      PROVE  InBounds(m, r) /\ ~ Clear(m, r)
  <2>1. PICK k \in 1 .. Len(walls) : CheckCollisionRecs(walls[k], r)
    BY <1>2, <1>3, <1>4
  <2>2. InBounds(m, r)
    BY <1>3, <2>1
  <2> QED
    BY <1>3, <2>1, <2>2 DEF Clear
<1>5. ASSUME InBounds(m, r), ~ Clear(m, r)
      PROVE  BulletHitsWall(m, r)
  <2>1. PICK wall \in WallRects(m) : CheckCollisionRecs(wall, r)
    BY <1>5 DEF Clear
  <2> QED
    BY <1>2, <1>3, <1>5, <2>1
<1> QED
  BY <1>4, <1>5

-----------------------------------------------------------------------------
(* player_update. *)

Displaced(r, dx, dy) == [r EXCEPT !.x = @ + dx, !.y = @ + dy]

\* What the collision loop does with a wall.
Resolved(s, wall, dx, dy) ==
  IF CheckCollisionRecs(wall, s) THEN PushedBack(s, wall, dx, dy) ELSE s

\* The rectangles of the size of r.
Placed(r) == [x : Int, y : Int, w : {r.w}, h : {r.h}]

LEMMA ResolvedStays ==
  ASSUME NEW r \in Rects, NEW s \in Placed(r), NEW wall \in Rects, NEW dx \in Int, NEW dy \in Int
  PROVE  Resolved(s, wall, dx, dy) \in Placed(r)
<1>1. /\ s.x \in Int /\ s.y \in Int /\ s.w = r.w /\ s.h = r.h
      /\ wall.x \in Int /\ wall.y \in Int /\ wall.w \in Int /\ wall.h \in Int
      /\ r.w \in Int /\ r.h \in Int
  BY DEF Placed, Rects
<1>2. PushedBack(s, wall, dx, dy) \in Placed(r)
  <2> DEFINE a == IF dx < 0 THEN wall.x + wall.w ELSE IF dx > 0 THEN wall.x - s.w ELSE s.x
             b == IF dy < 0 THEN wall.y + wall.h ELSE IF dy > 0 THEN wall.y - s.h ELSE s.y
  <2>1. PushedBack(s, wall, dx, dy) = [s EXCEPT !.x = a, !.y = b]
    BY DEF PushedBack
  <2>2. a \in Int /\ b \in Int
    BY <1>1
  <2> HIDE DEF a, b
  <2> QED
    BY <2>1, <2>2 DEF Placed
<1> QED
  BY <1>2 DEF Resolved

LEMMA DisplacedTypes ==
  ASSUME NEW r \in Rects, NEW dx \in Int, NEW dy \in Int
  PROVE  /\ r \in Placed(r) /\ Placed(r) \subseteq Rects
         /\ Displaced(r, dx, dy) \in Placed(r) /\ Displaced(r, dx, dy) \in Rects
<1>1. r.x \in Int /\ r.y \in Int /\ r.w \in Nat \ {0} /\ r.h \in Nat \ {0}
  BY DEF Rects
<1>2. r \in Placed(r)
  BY DEF Rects, Placed
<1>3. Placed(r) \subseteq Rects
  BY <1>1 DEF Rects, Placed
<1>4. Displaced(r, dx, dy) \in Placed(r)
  <2>1. r.x + dx \in Int /\ r.y + dy \in Int
    BY <1>1
  <2> QED
    BY <1>2, <2>1 DEF Displaced, Placed
<1> QED
  BY <1>2, <1>3, <1>4

LEMMA DisplacedWalls ==
  ASSUME NEW m, WholeMap(m), NEW r \in Rects, NEW dx \in Int, NEW dy \in Int
  PROVE  /\ Displaced(r, dx, dy) \in Placed(r) /\ Displaced(r, dx, dy) \in Rects
         /\ Walls(m, Displaced(r, dx, dy)) \in Seq(Rects)
         /\ Surround(m, Displaced(r, dx, dy), Walls(m, Displaced(r, dx, dy)))
<1>1. Displaced(r, dx, dy) \in Placed(r) /\ Displaced(r, dx, dy) \in Rects
  BY DisplacedTypes
<1>2. Surround(m, Displaced(r, dx, dy), Walls(m, Displaced(r, dx, dy)))
  BY <1>1, WallsSurround
<1>3. WallRects(m) \subseteq Rects
  BY WallTypes
<1> QED
  BY <1>1, <1>2, <1>3 DEF Surround

\* result is where the walls s, one after the other, leave a displaced player.
ResolvedFrom(r, dx, dy, s, result) ==
  \E run : /\ run[0] = Displaced(r, dx, dy)
           /\ \A k \in 1 .. Len(s) : run[k] = Resolved(run[k - 1], s[k], dx, dy)
           /\ result = run[Len(s)]

\* The collision loop, against the walls where the displacement leads.
LEMMA AxisRun ==
  ASSUME NEW m, WholeMap(m), NEW r \in Rects, NEW dx \in Int, NEW dy \in Int
  PROVE  ResolvedFrom(r, dx, dy, Walls(m, Displaced(r, dx, dy)),
           AxisMove(m, r, dx, dy))
<1> DEFINE s == Walls(m, Displaced(r, dx, dy))
           n == Len(s)
           A == Placed(r)
           B == Rects
           step == [x \in A \X B |-> Resolved(x[1], x[2], dx, dy)]
           Folds(it) == it = [t \in SUBSET (1 .. n) |->
                                IF t = {} THEN Displaced(r, dx, dy)
                                ELSE Resolved(it[t \ {Latest(t)}], s[Latest(t)], dx, dy)]
<1>1. n \in Nat /\ DOMAIN s = 1 .. n /\ \A i \in 1 .. n : s[i] \in B
  BY DisplacedWalls
<1>2. AxisMove(m, r, dx, dy) = (CHOOSE it : Folds(it))[1 .. n]
  BY <1>1 DEF AxisMove, Displaced, Resolved, FoldLeft, MapThenFoldSet, Latest, Max
<1>3. step \in [A \X B -> A] /\ Displaced(r, dx, dy) \in A
  <2>1. Displaced(r, dx, dy) \in Placed(r)
    BY DisplacedTypes
  <2> QED
    BY <2>1, ResolvedStays
<1> HIDE DEF s, n, A, B, step
<1>4. n \in Nat /\ \A i \in 1 .. n : s[i] \in B
  BY <1>1
<1>5. PICK it \in [SUBSET (1 .. n) -> A] : Stepwise(it, step, Displaced(r, dx, dy), s, n)
  BY <1>3, <1>4, StepwiseExists, Zenon
<1>6. \A t \in SUBSET (1 .. n) :
        Body(it, step, Displaced(r, dx, dy), s, t)
          = IF t = {} THEN Displaced(r, dx, dy) ELSE Resolved(it[t \ {Latest(t)}], s[Latest(t)], dx, dy)
  <2> SUFFICES ASSUME NEW t \in SUBSET (1 .. n), t # {}
               PROVE  step[<<it[t \ {Latest(t)}], s[Latest(t)]>>] = Resolved(it[t \ {Latest(t)}], s[Latest(t)], dx, dy)
    BY Zenon DEF Body
  <2>1. Latest(t) \in 1 .. n /\ t \ {Latest(t)} \in SUBSET (1 .. n)
    BY <1>1, LatestIsOne
  <2>2. it[t \ {Latest(t)}] \in A /\ s[Latest(t)] \in B
    BY <1>4, <2>1, Zenon
  <2> QED
    BY <2>2 DEF step
<1>7. Folds(it)
  BY <1>5, <1>6, Zenon DEF Stepwise
<1> DEFINE f == CHOOSE h : Folds(h)
<1>8. Folds(f)
  <2> HIDE DEF Folds
  <2> QED
    BY <1>7, Zenon
<1> HIDE DEF f
<1> DEFINE run == [k \in 0 .. n |-> f[1 .. k]]
<1>9. run[0] = Displaced(r, dx, dy)
  <2>1. 1 .. 0 = {} /\ 0 \in 0 .. n /\ {} \in SUBSET (1 .. n)
    BY <1>4
  <2>2. f[{}] = Displaced(r, dx, dy)
    BY <1>8, <2>1
  <2> QED
    BY <2>1, <2>2
<1>10. \A k \in 1 .. n : run[k] = Resolved(run[k - 1], s[k], dx, dy)
  <2> SUFFICES ASSUME NEW k \in 1 .. n
               PROVE  run[k] = Resolved(run[k - 1], s[k], dx, dy)
    OBVIOUS
  <2>1. /\ k \in Nat \ {0} /\ k \in 0 .. n /\ k - 1 \in 0 .. n
        /\ 1 .. k \in SUBSET (1 .. n)
    BY <1>4
  <2>2. 1 .. k # {} /\ Latest(1 .. k) = k /\ (1 .. k) \ {Latest(1 .. k)} = 1 .. (k - 1)
    BY <2>1, PlacesInOrder
  <2>3. f[1 .. k] = Resolved(f[(1 .. k) \ {Latest(1 .. k)}], s[Latest(1 .. k)], dx, dy)
    BY <1>8, <2>1, <2>2
  <2>4. run[k] = f[1 .. k] /\ run[k - 1] = f[1 .. (k - 1)]
    BY <2>1
  <2> QED
    BY <2>2, <2>3, <2>4
<1>11. AxisMove(m, r, dx, dy) = run[n]
  <2>1. n \in 0 .. n
    BY <1>4
  <2> QED
    BY <1>2, <2>1, Zenon DEF f
<1>12. ResolvedFrom(r, dx, dy, s,
         AxisMove(m, r, dx, dy))
  BY <1>9, <1>10, <1>11, Zenon DEF ResolvedFrom, n
<1> QED
  BY <1>12 DEF s

LEMMA Unmoved ==
  ASSUME NEW r \in Rects
  PROVE  /\ [r EXCEPT !.x = r.x] = r /\ [r EXCEPT !.y = r.y] = r
         /\ [r EXCEPT !.x = r.x, !.y = r.y] = r
         /\ \A q : [r EXCEPT !.x = q, !.y = r.y] = [r EXCEPT !.x = q]
         /\ \A q : [r EXCEPT !.x = r.x, !.y = q] = [r EXCEPT !.y = q]
<1>1. r \in [{"x", "y", "w", "h"} -> Int]
  BY DEF Rects
<1>2. [r EXCEPT !.x = r.x] = r /\ [r EXCEPT !.y = r.y] = r
  BY <1>1
<1>3. [r EXCEPT !.x = r.x, !.y = r.y] = r
  BY <1>1
<1>4. \A q : [r EXCEPT !.x = q, !.y = r.y] = [r EXCEPT !.x = q]
  BY <1>1
<1>5. \A q : [r EXCEPT !.x = r.x, !.y = q] = [r EXCEPT !.y = q]
  BY <1>1
<1> QED
  BY <1>2, <1>3, <1>4, <1>5

LEMMA DisplacedAlong ==
  ASSUME NEW r \in Rects, NEW d \in Int
  PROVE  /\ Displaced(r, 0, 0) = r
         /\ Displaced(r, d, 0) = [r EXCEPT !.x = r.x + d]
         /\ Displaced(r, 0, d) = [r EXCEPT !.y = r.y + d]
<1>1. r.x + 0 = r.x /\ r.y + 0 = r.y
  BY DEF Rects
<1> QED
  BY <1>1, Unmoved, Zenon DEF Displaced

\* A loop that resolves a displacement of nothing changes nothing.
LEMMA AxisMoveStill ==
  ASSUME NEW m, WholeMap(m), NEW r \in Rects
  PROVE  AxisMove(m, r, 0, 0) = r
<1> DEFINE s == Walls(m, Displaced(r, 0, 0))
           n == Len(s)
           end == AxisMove(m, r, 0, 0)
<1>1. ResolvedFrom(r, 0, 0, s, end)
  BY AxisRun
<1>2. n \in Nat
  BY DisplacedWalls
<1>3. Displaced(r, 0, 0) = r
  BY DisplacedAlong
<1> HIDE DEF s, n, end
<1>4. PICK run : /\ run[0] = r
                 /\ \A k \in 1 .. n : run[k] = Resolved(run[k - 1], s[k], 0, 0)
                 /\ end = run[n]
  BY <1>1, <1>3 DEF ResolvedFrom, n
<1> DEFINE T == {k \in 0 .. n : run[k] = r}
<1>5. 0 \in T
  BY <1>2, <1>4
<1>6. \A k \in 1 .. n : k - 1 \in T => k \in T
  <2> SUFFICES ASSUME NEW k \in 1 .. n, run[k - 1] = r
               PROVE  run[k] = r
    BY <1>2
  <2>1. PushedBack(r, s[k], 0, 0) = r
    <3>1. PushedBack(r, s[k], 0, 0) = [r EXCEPT !.x = r.x, !.y = r.y]
      BY DEF PushedBack
    <3> QED
      BY <3>1, Unmoved
  <2>2. run[k] = Resolved(r, s[k], 0, 0)
    BY <1>4
  <2> QED
    BY <2>1, <2>2 DEF Resolved
<1> HIDE DEF T
<1>7. \A k \in 0 .. n : k \in T
  BY <1>2, <1>5, <1>6, UpTo
<1>8. n \in T
  BY <1>2, <1>7
<1> QED
  BY <1>4, <1>8 DEF T, end

\* The loop keeps types, and moves a player only along the displacement.
LEMMA AxisMoveTypes ==
  ASSUME NEW m, WholeMap(m), NEW r \in Rects, NEW dx \in Int, NEW dy \in Int
  PROVE  AxisMove(m, r, dx, dy) \in Placed(r)
<1> DEFINE s == Walls(m, Displaced(r, dx, dy))
           n == Len(s)
           end == AxisMove(m, r, dx, dy)
<1>1. ResolvedFrom(r, dx, dy, s, end)
  BY AxisRun
<1>2. n \in Nat /\ \A k \in 1 .. n : s[k] \in Rects
  BY DisplacedWalls
<1>3. Displaced(r, dx, dy) \in Placed(r)
  BY DisplacedTypes
<1> HIDE DEF s, n, end
<1>4. PICK run : /\ run[0] = Displaced(r, dx, dy)
                 /\ \A k \in 1 .. n : run[k] = Resolved(run[k - 1], s[k], dx, dy)
                 /\ end = run[n]
  BY <1>1 DEF ResolvedFrom, n
<1> DEFINE T == {k \in 0 .. n : run[k] \in Placed(r)}
<1>5. 0 \in T
  BY <1>2, <1>3, <1>4
<1>6. \A k \in 1 .. n : k - 1 \in T => k \in T
  BY <1>2, <1>4, ResolvedStays
<1> HIDE DEF T
<1>7. \A k \in 0 .. n : k \in T
  BY <1>2, <1>5, <1>6, UpTo
<1>8. n \in T
  BY <1>2, <1>7
<1> QED
  BY <1>4, <1>8 DEF T, end

(***************************************************************************)
(* A displacement along x ends where a walk along x would: nothing of the  *)
(* way there is blocked, and it is all the way, or the next pixel is.      *)
(***************************************************************************)
StopsAlongX(m, r, dx, s) ==
  /\ s \in Placed(r) /\ s.y = r.y /\ s.x \in Between(r.x, r.x + dx)
  /\ \A q \in Between(r.x, s.x) : Clear(m, [r EXCEPT !.x = q])
  /\ \/ s.x = r.x + dx
     \/ dx > 0 /\ ~ Clear(m, [r EXCEPT !.x = s.x + 1])
     \/ dx < 0 /\ ~ Clear(m, [r EXCEPT !.x = s.x - 1])

LEMMA ResolvedAlongX ==
  ASSUME NEW r \in Rects, NEW s \in Placed(r), NEW wall \in Rects, NEW dx \in Int
  PROVE  /\ Resolved(s, wall, dx, 0) \in Placed(r)
         /\ Resolved(s, wall, dx, 0).y = s.y
         /\ Resolved(s, wall, dx, 0).x
              = IF /\ wall.y < s.y + r.h /\ s.y < wall.y + wall.h
                   /\ Over(wall.x, wall.w, s.x, r.w)
                THEN IF dx = 0 THEN s.x ELSE Beside(wall.x, wall.w, r.w, dx)
                ELSE s.x
<1>1. /\ s.x \in Int /\ s.y \in Int /\ s.w = r.w /\ s.h = r.h
      /\ wall.x \in Int /\ wall.y \in Int /\ wall.w \in Int /\ wall.h \in Int
      /\ r.w \in Int /\ r.h \in Int
  BY DEF Placed, Rects
<1>2. Resolved(s, wall, dx, 0) \in Placed(r)
  BY ResolvedStays
<1>3. CheckCollisionRecs(wall, s)
        <=> /\ wall.y < s.y + r.h /\ s.y < wall.y + wall.h
            /\ Over(wall.x, wall.w, s.x, r.w)
  BY <1>1 DEF CheckCollisionRecs, Over
<1>4. /\ PushedBack(s, wall, dx, 0).y = s.y
      /\ PushedBack(s, wall, dx, 0).x = IF dx = 0 THEN s.x ELSE Beside(wall.x, wall.w, r.w, dx)
  BY <1>1 DEF PushedBack, Placed, Beside
<1> QED
  BY <1>2, <1>3, <1>4 DEF Resolved

(***************************************************************************)
(* player_update along x, by less than a tile and a player's width: the    *)
(* player passes over no wall and stops at the displacement or where the   *)
(* next pixel is a wall, in whatever order the walls around it are         *)
(* resolved (player.cpp:63).                                               *)
(***************************************************************************)
THEOREM MovesAlongX ==
  ASSUME NEW m, WholeMap(m), NEW r \in Rects, Clear(m, r), NEW dx \in Int,
         -(r.w + m.tileWidth) < dx, dx < r.w + m.tileWidth,
         InBounds(m, Displaced(r, dx, 0))
  PROVE  StopsAlongX(m, r, dx, AxisMove(m, r, dx, 0))
<1> DEFINE walls == Walls(m, Displaced(r, dx, 0))
           n == Len(walls)
           end == AxisMove(m, r, dx, 0)
           t == m.tileWidth
<1>1. /\ r.x \in Int /\ r.y \in Int /\ r.w \in Nat \ {0} /\ r.h \in Nat \ {0}
      /\ t \in Nat \ {0}
  BY WholeMapTypes DEF Rects
<1>2. CASE dx = 0
  <2>1. end = r
    BY <1>2, AxisMoveStill
  <2>2. r \in Placed(r) /\ r.x \in Between(r.x, r.x + 0) /\ r.x = r.x + 0
    BY <1>1, DisplacedTypes DEF Between
  <2>3. \A q \in Between(r.x, r.x) : [r EXCEPT !.x = q] = r
    BY <1>1 DEF Between, Rects
  <2> QED
    BY <1>2, <2>1, <2>2, <2>3 DEF StopsAlongX
<1>3. CASE dx # 0
  <2>1. ResolvedFrom(r, dx, 0, walls, end)
    BY AxisRun
  <2>2. Surround(m, Displaced(r, dx, 0), walls) /\ Displaced(r, dx, 0) \in Placed(r)
    BY DisplacedWalls
  <2>3. WallRects(m) \subseteq TileRects(m) /\ TileRects(m) \subseteq Rects
    BY WallTypes
  <2> HIDE DEF walls, end, t
  <2>4. /\ n \in Nat
        /\ \A k \in 1 .. n : walls[k] \in WallRects(m) /\ walls[k] \in Rects /\ walls[k].w = t
        /\ \A wall \in WallRects(m) :
             CheckCollisionRecs(wall, Displaced(r, dx, 0)) => \E k \in 1 .. n : walls[k] = wall
    BY <2>2, <2>3 DEF Surround, TileRects, t
  <2>5. PICK run : /\ run[0] = Displaced(r, dx, 0)
                   /\ \A k \in 1 .. n : run[k] = Resolved(run[k - 1], walls[k], dx, 0)
                   /\ end = run[n]
    BY <2>1 DEF ResolvedFrom
  <2> HIDE DEF n
  <2> DEFINE T == {k \in 0 .. n : run[k] \in Placed(r) /\ run[k].y = r.y}
  <2>6. Displaced(r, dx, 0).x = r.x + dx /\ Displaced(r, dx, 0).y = r.y
    BY <1>1 DEF Displaced, Rects
  <2>7. \A k \in 0 .. n : run[k] \in Placed(r) /\ run[k].y = r.y
    <3>1. 0 \in T
      BY <2>2, <2>4, <2>5, <2>6
    <3>2. \A k \in 1 .. n : k - 1 \in T => k \in T
      <4> SUFFICES ASSUME NEW k \in 1 .. n, run[k - 1] \in Placed(r), run[k - 1].y = r.y
                   PROVE  run[k] \in Placed(r) /\ run[k].y = r.y
        BY <2>4
      <4> DEFINE s == run[k - 1]
                 wall == walls[k]
      <4>1. s \in Placed(r) /\ s.y = r.y /\ wall \in Rects /\ run[k] = Resolved(s, wall, dx, 0)
        BY <2>4, <2>5
      <4> HIDE DEF s, wall
      <4> QED
        BY <4>1, ResolvedAlongX
    <3> HIDE DEF T
    <3>3. \A k \in 0 .. n : k \in T
      BY <2>4, <3>1, <3>2, UpTo
    <3> QED
      BY <3>3 DEF T
  \* In one dimension: the walls that share a row of pixels with the player.
  <2> DEFINE a == [k \in 1 .. n |-> walls[k].x]
             g == [k \in 0 .. n |-> run[k].x]
             Abreast(wall) == wall.y < r.y + r.h /\ r.y < wall.y + wall.h
             K == {k \in 1 .. n : Abreast(walls[k])}
  <2>8. \A k \in 1 .. n : g[k] = IF k \in K /\ Over(a[k], t, g[k - 1], r.w)
                                 THEN Beside(a[k], t, r.w, dx) ELSE g[k - 1]
    <3> SUFFICES ASSUME NEW k \in 1 .. n
                 PROVE  g[k] = IF k \in K /\ Over(a[k], t, g[k - 1], r.w)
                               THEN Beside(a[k], t, r.w, dx) ELSE g[k - 1]
      OBVIOUS
    <3>1. k \in 0 .. n /\ k - 1 \in 0 .. n
      BY <2>4
    <3>2. run[k - 1] \in Placed(r) /\ run[k - 1].y = r.y /\ walls[k] \in Rects /\ walls[k].w = t
      BY <2>4, <2>7, <3>1
    <3>3. Resolved(run[k - 1], walls[k], dx, 0).x
            = IF /\ walls[k].y < r.y + r.h /\ r.y < walls[k].y + walls[k].h
                 /\ Over(walls[k].x, t, run[k - 1].x, r.w)
              THEN Beside(walls[k].x, t, r.w, dx) ELSE run[k - 1].x
      <4> DEFINE s == run[k - 1]
                 wall == walls[k]
      <4>1. s \in Placed(r) /\ s.y = r.y /\ wall \in Rects /\ wall.w = t
        BY <3>2
      <4> HIDE DEF s, wall
      <4>2. Resolved(s, wall, dx, 0).x
              = IF /\ wall.y < r.y + r.h /\ r.y < wall.y + wall.h /\ Over(wall.x, t, s.x, r.w)
                THEN Beside(wall.x, t, r.w, dx) ELSE s.x
        BY <1>3, <4>1, ResolvedAlongX
      <4> QED
        BY <4>2 DEF s, wall
    <3> QED
      BY <2>5, <3>1, <3>3
  <2>9. \A wall \in WallRects(m), q \in Int :
          /\ wall.x \in Int
          /\ CheckCollisionRecs(wall, [r EXCEPT !.x = q]) <=> Abreast(wall) /\ Over(wall.x, t, q, r.w)
    <3> SUFFICES ASSUME NEW wall \in WallRects(m), NEW q \in Int
                 PROVE  /\ wall.x \in Int
                        /\ CheckCollisionRecs(wall, [r EXCEPT !.x = q])
                             <=> Abreast(wall) /\ Over(wall.x, t, q, r.w)
      OBVIOUS
    <3>1. wall.w = t /\ wall.x \in Int
      BY <2>3 DEF TileRects, t
    <3>2. LET s == [r EXCEPT !.x = q] IN s.x = q /\ s.y = r.y /\ s.w = r.w /\ s.h = r.h
      BY DEF Rects
    <3> QED
      BY <3>1, <3>2 DEF CheckCollisionRecs, Over
  <2>10. [r EXCEPT !.x = r.x] = r /\ [r EXCEPT !.x = r.x + dx] = Displaced(r, dx, 0)
    <3>1. [r EXCEPT !.x = r.x] = r
      BY Unmoved
    <3>2. Displaced(r, dx, 0) = [r EXCEPT !.x = r.x + dx]
      BY DisplacedAlong
    <3> QED
      BY <3>1, <3>2
  <2>11. g[0] = r.x + dx /\ g[n] = end.x /\ end \in Placed(r) /\ end.y = r.y
    BY <2>4, <2>5, <2>6, <2>7
  <2>12. \A k \in K : k \in 1 .. n /\ walls[k] \in WallRects(m) /\ Abreast(walls[k]) /\ a[k] = walls[k].x
    BY <2>4
  <2>13. \A k \in 1 .. n : k \in K <=> Abreast(walls[k])
    OBVIOUS
  <2>14. K \in SUBSET (1 .. n) /\ \A k \in 1 .. n : a[k] \in Int /\ a[k] = walls[k].x
    BY <2>4, <2>9
  <2> HIDE DEF a, g, K, Abreast
  <2>15. \A wall \in WallRects(m) : Abreast(wall) => ~ Over(wall.x, t, r.x, r.w)
    BY <1>1, <2>9, <2>10 DEF Clear
  <2>16. \A k \in K : ~ Over(a[k], t, r.x, r.w)
    BY <2>12, <2>15
  <2>17. -(r.w + t) < dx /\ dx < r.w + t
    BY DEF t
  <2>18. Stops(r.x, dx, r.w, t, a, K, g[n])
    BY <1>1, <1>3, <2>4, <2>8, <2>11, <2>14, <2>16, <2>17, PushedAlong
  <2> DEFINE e == end.x
  <2>19. /\ e \in Between(r.x, r.x + dx)
         /\ \A k \in K : \A q \in Between(r.x, e) : ~ Over(a[k], t, q, r.w)
         /\ e = r.x + dx \/ \E k \in K : e = Beside(a[k], t, r.w, dx)
    BY <2>11, <2>18 DEF Stops
  <2>20. e \in Int
    BY <2>19 DEF Between
  <2> HIDE DEF e
  <2>21. ASSUME NEW q \in Between(r.x, e), NEW wall \in WallRects(m), Abreast(wall),
                Over(wall.x, t, q, r.w)
         PROVE  FALSE
    <3>1. CASE Over(wall.x, t, r.x + dx, r.w)
      <4>1. CheckCollisionRecs(wall, Displaced(r, dx, 0))
        BY <1>1, <2>9, <2>10, <2>21, <3>1
      <4>2. PICK k \in 1 .. n : walls[k] = wall
        BY <2>4, <4>1
      <4>3. k \in K /\ a[k] = wall.x
        BY <2>13, <2>14, <2>21, <4>2
      <4> QED
        BY <2>19, <2>21, <4>3
    <3>2. CASE ~ Over(wall.x, t, r.x + dx, r.w)
      <4> DEFINE d == r.x + dx
      <4>1. d \in Between(r.x, d)
        BY <1>1 DEF Between
      <4>2. wall.x \in Int /\ ~ Over(wall.x, t, r.x, r.w)
        BY <1>1, <2>9, <2>15, <2>21
      <4>3. \A p \in Between(r.x, r.x + dx) : ~ Over(wall.x, t, p, r.w)
        BY <1>1, <1>3, <2>17, <3>2, <4>1, <4>2, PushedOnce
      <4>4. q \in Between(r.x, r.x + dx)
        BY <1>1, <2>19, <2>21, BetweenNests
      <4> QED
        BY <2>21, <4>3, <4>4
    <3> QED
      BY <3>1, <3>2
  <2>22. \A q \in Between(r.x, e) : Clear(m, [r EXCEPT !.x = q])
    <3> SUFFICES ASSUME NEW q \in Between(r.x, e), NEW wall \in WallRects(m)
                 PROVE  ~ CheckCollisionRecs(wall, [r EXCEPT !.x = q])
      BY DEF Clear
    <3>1. q \in Int
      BY DEF Between
    <3> QED
      BY <2>9, <2>21, <3>1
  <2>23. ASSUME NEW k \in K, e = Beside(a[k], t, r.w, dx)
         PROVE  \/ dx > 0 /\ ~ Clear(m, [r EXCEPT !.x = e + 1])
                \/ dx < 0 /\ ~ Clear(m, [r EXCEPT !.x = e - 1])
    <3> DEFINE b == a[k]
    <3>1. b \in Int /\ walls[k] \in WallRects(m) /\ Abreast(walls[k]) /\ b = walls[k].x
      BY <2>12, <2>14
    <3>2. e = Beside(b, t, r.w, dx)
      BY <2>23
    <3> HIDE DEF b
    <3>3. CASE dx > 0
      <4>1. Over(b, t, e + 1, r.w)
        BY <1>1, <3>1, <3>2, <3>3 DEF Over, Beside
      <4>2. e + 1 \in Int
        BY <2>20
      <4> QED
        BY <2>9, <3>1, <3>3, <4>1, <4>2 DEF Clear
    <3>4. CASE dx < 0
      <4>1. Over(b, t, e - 1, r.w)
        BY <1>1, <3>1, <3>2, <3>4 DEF Over, Beside
      <4>2. e - 1 \in Int
        BY <2>20
      <4> QED
        BY <2>9, <3>1, <3>4, <4>1, <4>2 DEF Clear
    <3> QED
      BY <1>3, <3>3, <3>4
  <2> QED
    BY <2>11, <2>19, <2>22, <2>23 DEF StopsAlongX, e, end
<1> QED
  BY <1>2, <1>3

(***************************************************************************)
(* A displacement along y ends where a walk along y would: nothing of the  *)
(* way there is blocked, and it is all the way, or the next pixel is.      *)
(***************************************************************************)
StopsAlongY(m, r, dy, s) ==
  /\ s \in Placed(r) /\ s.x = r.x /\ s.y \in Between(r.y, r.y + dy)
  /\ \A q \in Between(r.y, s.y) : Clear(m, [r EXCEPT !.y = q])
  /\ \/ s.y = r.y + dy
     \/ dy > 0 /\ ~ Clear(m, [r EXCEPT !.y = s.y + 1])
     \/ dy < 0 /\ ~ Clear(m, [r EXCEPT !.y = s.y - 1])

LEMMA ResolvedAlongY ==
  ASSUME NEW r \in Rects, NEW s \in Placed(r), NEW wall \in Rects, NEW dy \in Int
  PROVE  /\ Resolved(s, wall, 0, dy) \in Placed(r)
         /\ Resolved(s, wall, 0, dy).x = s.x
         /\ Resolved(s, wall, 0, dy).y
              = IF /\ wall.x < s.x + r.w /\ s.x < wall.x + wall.w
                   /\ Over(wall.y, wall.h, s.y, r.h)
                THEN IF dy = 0 THEN s.y ELSE Beside(wall.y, wall.h, r.h, dy)
                ELSE s.y
<1>1. /\ s.y \in Int /\ s.x \in Int /\ s.h = r.h /\ s.w = r.w
      /\ wall.y \in Int /\ wall.x \in Int /\ wall.h \in Int /\ wall.w \in Int
      /\ r.h \in Int /\ r.w \in Int
  BY DEF Placed, Rects
<1>2. Resolved(s, wall, 0, dy) \in Placed(r)
  BY ResolvedStays
<1>3. CheckCollisionRecs(wall, s)
        <=> /\ wall.x < s.x + r.w /\ s.x < wall.x + wall.w
            /\ Over(wall.y, wall.h, s.y, r.h)
  BY <1>1 DEF CheckCollisionRecs, Over
<1>4. /\ PushedBack(s, wall, 0, dy).x = s.x
      /\ PushedBack(s, wall, 0, dy).y = IF dy = 0 THEN s.y ELSE Beside(wall.y, wall.h, r.h, dy)
  BY <1>1 DEF PushedBack, Placed, Beside
<1> QED
  BY <1>2, <1>3, <1>4 DEF Resolved

(***************************************************************************)
(* The same along y (player.cpp:96).                                       *)
(***************************************************************************)
THEOREM MovesAlongY ==
  ASSUME NEW m, WholeMap(m), NEW r \in Rects, Clear(m, r), NEW dy \in Int,
         -(r.h + m.tileHeight) < dy, dy < r.h + m.tileHeight,
         InBounds(m, Displaced(r, 0, dy))
  PROVE  StopsAlongY(m, r, dy, AxisMove(m, r, 0, dy))
<1> DEFINE walls == Walls(m, Displaced(r, 0, dy))
           n == Len(walls)
           end == AxisMove(m, r, 0, dy)
           t == m.tileHeight
<1>1. /\ r.y \in Int /\ r.x \in Int /\ r.h \in Nat \ {0} /\ r.w \in Nat \ {0}
      /\ t \in Nat \ {0}
  BY WholeMapTypes DEF Rects
<1>2. CASE dy = 0
  <2>1. end = r
    BY <1>2, AxisMoveStill
  <2>2. r \in Placed(r) /\ r.y \in Between(r.y, r.y + 0) /\ r.y = r.y + 0
    BY <1>1, DisplacedTypes DEF Between
  <2>3. \A q \in Between(r.y, r.y) : [r EXCEPT !.y = q] = r
    BY <1>1 DEF Between, Rects
  <2> QED
    BY <1>2, <2>1, <2>2, <2>3 DEF StopsAlongY
<1>3. CASE dy # 0
  <2>1. ResolvedFrom(r, 0, dy, walls, end)
    BY AxisRun
  <2>2. Surround(m, Displaced(r, 0, dy), walls) /\ Displaced(r, 0, dy) \in Placed(r)
    BY DisplacedWalls
  <2>3. WallRects(m) \subseteq TileRects(m) /\ TileRects(m) \subseteq Rects
    BY WallTypes
  <2> HIDE DEF walls, end, t
  <2>4. /\ n \in Nat
        /\ \A k \in 1 .. n : walls[k] \in WallRects(m) /\ walls[k] \in Rects /\ walls[k].h = t
        /\ \A wall \in WallRects(m) :
             CheckCollisionRecs(wall, Displaced(r, 0, dy)) => \E k \in 1 .. n : walls[k] = wall
    BY <2>2, <2>3 DEF Surround, TileRects, t
  <2>5. PICK run : /\ run[0] = Displaced(r, 0, dy)
                   /\ \A k \in 1 .. n : run[k] = Resolved(run[k - 1], walls[k], 0, dy)
                   /\ end = run[n]
    BY <2>1 DEF ResolvedFrom
  <2> HIDE DEF n
  <2> DEFINE T == {k \in 0 .. n : run[k] \in Placed(r) /\ run[k].x = r.x}
  <2>6. Displaced(r, 0, dy).y = r.y + dy /\ Displaced(r, 0, dy).x = r.x
    BY <1>1 DEF Displaced, Rects
  <2>7. \A k \in 0 .. n : run[k] \in Placed(r) /\ run[k].x = r.x
    <3>1. 0 \in T
      BY <2>2, <2>4, <2>5, <2>6
    <3>2. \A k \in 1 .. n : k - 1 \in T => k \in T
      <4> SUFFICES ASSUME NEW k \in 1 .. n, run[k - 1] \in Placed(r), run[k - 1].x = r.x
                   PROVE  run[k] \in Placed(r) /\ run[k].x = r.x
        BY <2>4
      <4> DEFINE s == run[k - 1]
                 wall == walls[k]
      <4>1. s \in Placed(r) /\ s.x = r.x /\ wall \in Rects /\ run[k] = Resolved(s, wall, 0, dy)
        BY <2>4, <2>5
      <4> HIDE DEF s, wall
      <4> QED
        BY <4>1, ResolvedAlongY
    <3> HIDE DEF T
    <3>3. \A k \in 0 .. n : k \in T
      BY <2>4, <3>1, <3>2, UpTo
    <3> QED
      BY <3>3 DEF T
  \* In one dimension: the walls that share a column of pixels with the player.
  <2> DEFINE a == [k \in 1 .. n |-> walls[k].y]
             g == [k \in 0 .. n |-> run[k].y]
             Abreast(wall) == wall.x < r.x + r.w /\ r.x < wall.x + wall.w
             K == {k \in 1 .. n : Abreast(walls[k])}
  <2>8. \A k \in 1 .. n : g[k] = IF k \in K /\ Over(a[k], t, g[k - 1], r.h)
                                 THEN Beside(a[k], t, r.h, dy) ELSE g[k - 1]
    <3> SUFFICES ASSUME NEW k \in 1 .. n
                 PROVE  g[k] = IF k \in K /\ Over(a[k], t, g[k - 1], r.h)
                               THEN Beside(a[k], t, r.h, dy) ELSE g[k - 1]
      OBVIOUS
    <3>1. k \in 0 .. n /\ k - 1 \in 0 .. n
      BY <2>4
    <3>2. run[k - 1] \in Placed(r) /\ run[k - 1].x = r.x /\ walls[k] \in Rects /\ walls[k].h = t
      BY <2>4, <2>7, <3>1
    <3>3. Resolved(run[k - 1], walls[k], 0, dy).y
            = IF /\ walls[k].x < r.x + r.w /\ r.x < walls[k].x + walls[k].w
                 /\ Over(walls[k].y, t, run[k - 1].y, r.h)
              THEN Beside(walls[k].y, t, r.h, dy) ELSE run[k - 1].y
      <4> DEFINE s == run[k - 1]
                 wall == walls[k]
      <4>1. s \in Placed(r) /\ s.x = r.x /\ wall \in Rects /\ wall.h = t
        BY <3>2
      <4> HIDE DEF s, wall
      <4>2. Resolved(s, wall, 0, dy).y
              = IF /\ wall.x < r.x + r.w /\ r.x < wall.x + wall.w /\ Over(wall.y, t, s.y, r.h)
                THEN Beside(wall.y, t, r.h, dy) ELSE s.y
        BY <1>3, <4>1, ResolvedAlongY
      <4> QED
        BY <4>2 DEF s, wall
    <3> QED
      BY <2>5, <3>1, <3>3
  <2>9. \A wall \in WallRects(m), q \in Int :
          /\ wall.y \in Int
          /\ CheckCollisionRecs(wall, [r EXCEPT !.y = q]) <=> Abreast(wall) /\ Over(wall.y, t, q, r.h)
    <3> SUFFICES ASSUME NEW wall \in WallRects(m), NEW q \in Int
                 PROVE  /\ wall.y \in Int
                        /\ CheckCollisionRecs(wall, [r EXCEPT !.y = q])
                             <=> Abreast(wall) /\ Over(wall.y, t, q, r.h)
      OBVIOUS
    <3>1. wall.h = t /\ wall.y \in Int
      BY <2>3 DEF TileRects, t
    <3>2. LET s == [r EXCEPT !.y = q] IN s.y = q /\ s.x = r.x /\ s.h = r.h /\ s.w = r.w
      BY DEF Rects
    <3> QED
      BY <3>1, <3>2 DEF CheckCollisionRecs, Over
  <2>10. [r EXCEPT !.y = r.y] = r /\ [r EXCEPT !.y = r.y + dy] = Displaced(r, 0, dy)
    <3>1. [r EXCEPT !.y = r.y] = r
      BY Unmoved
    <3>2. Displaced(r, 0, dy) = [r EXCEPT !.y = r.y + dy]
      BY DisplacedAlong
    <3> QED
      BY <3>1, <3>2
  <2>11. g[0] = r.y + dy /\ g[n] = end.y /\ end \in Placed(r) /\ end.x = r.x
    BY <2>4, <2>5, <2>6, <2>7
  <2>12. \A k \in K : k \in 1 .. n /\ walls[k] \in WallRects(m) /\ Abreast(walls[k]) /\ a[k] = walls[k].y
    BY <2>4
  <2>13. \A k \in 1 .. n : k \in K <=> Abreast(walls[k])
    OBVIOUS
  <2>14. K \in SUBSET (1 .. n) /\ \A k \in 1 .. n : a[k] \in Int /\ a[k] = walls[k].y
    BY <2>4, <2>9
  <2> HIDE DEF a, g, K, Abreast
  <2>15. \A wall \in WallRects(m) : Abreast(wall) => ~ Over(wall.y, t, r.y, r.h)
    BY <1>1, <2>9, <2>10 DEF Clear
  <2>16. \A k \in K : ~ Over(a[k], t, r.y, r.h)
    BY <2>12, <2>15
  <2>17. -(r.h + t) < dy /\ dy < r.h + t
    BY DEF t
  <2>18. Stops(r.y, dy, r.h, t, a, K, g[n])
    BY <1>1, <1>3, <2>4, <2>8, <2>11, <2>14, <2>16, <2>17, PushedAlong
  <2> DEFINE e == end.y
  <2>19. /\ e \in Between(r.y, r.y + dy)
         /\ \A k \in K : \A q \in Between(r.y, e) : ~ Over(a[k], t, q, r.h)
         /\ e = r.y + dy \/ \E k \in K : e = Beside(a[k], t, r.h, dy)
    BY <2>11, <2>18 DEF Stops
  <2>20. e \in Int
    BY <2>19 DEF Between
  <2> HIDE DEF e
  <2>21. ASSUME NEW q \in Between(r.y, e), NEW wall \in WallRects(m), Abreast(wall),
                Over(wall.y, t, q, r.h)
         PROVE  FALSE
    <3>1. CASE Over(wall.y, t, r.y + dy, r.h)
      <4>1. CheckCollisionRecs(wall, Displaced(r, 0, dy))
        BY <1>1, <2>9, <2>10, <2>21, <3>1
      <4>2. PICK k \in 1 .. n : walls[k] = wall
        BY <2>4, <4>1
      <4>3. k \in K /\ a[k] = wall.y
        BY <2>13, <2>14, <2>21, <4>2
      <4> QED
        BY <2>19, <2>21, <4>3
    <3>2. CASE ~ Over(wall.y, t, r.y + dy, r.h)
      <4> DEFINE d == r.y + dy
      <4>1. d \in Between(r.y, d)
        BY <1>1 DEF Between
      <4>2. wall.y \in Int /\ ~ Over(wall.y, t, r.y, r.h)
        BY <1>1, <2>9, <2>15, <2>21
      <4>3. \A p \in Between(r.y, r.y + dy) : ~ Over(wall.y, t, p, r.h)
        BY <1>1, <1>3, <2>17, <3>2, <4>1, <4>2, PushedOnce
      <4>4. q \in Between(r.y, r.y + dy)
        BY <1>1, <2>19, <2>21, BetweenNests
      <4> QED
        BY <2>21, <4>3, <4>4
    <3> QED
      BY <3>1, <3>2
  <2>22. \A q \in Between(r.y, e) : Clear(m, [r EXCEPT !.y = q])
    <3> SUFFICES ASSUME NEW q \in Between(r.y, e), NEW wall \in WallRects(m)
                 PROVE  ~ CheckCollisionRecs(wall, [r EXCEPT !.y = q])
      BY DEF Clear
    <3>1. q \in Int
      BY DEF Between
    <3> QED
      BY <2>9, <2>21, <3>1
  <2>23. ASSUME NEW k \in K, e = Beside(a[k], t, r.h, dy)
         PROVE  \/ dy > 0 /\ ~ Clear(m, [r EXCEPT !.y = e + 1])
                \/ dy < 0 /\ ~ Clear(m, [r EXCEPT !.y = e - 1])
    <3> DEFINE b == a[k]
    <3>1. b \in Int /\ walls[k] \in WallRects(m) /\ Abreast(walls[k]) /\ b = walls[k].y
      BY <2>12, <2>14
    <3>2. e = Beside(b, t, r.h, dy)
      BY <2>23
    <3> HIDE DEF b
    <3>3. CASE dy > 0
      <4>1. Over(b, t, e + 1, r.h)
        BY <1>1, <3>1, <3>2, <3>3 DEF Over, Beside
      <4>2. e + 1 \in Int
        BY <2>20
      <4> QED
        BY <2>9, <3>1, <3>3, <4>1, <4>2 DEF Clear
    <3>4. CASE dy < 0
      <4>1. Over(b, t, e - 1, r.h)
        BY <1>1, <3>1, <3>2, <3>4 DEF Over, Beside
      <4>2. e - 1 \in Int
        BY <2>20
      <4> QED
        BY <2>9, <3>1, <3>4, <4>1, <4>2 DEF Clear
    <3> QED
      BY <1>3, <3>3, <3>4
  <2> QED
    BY <2>11, <2>19, <2>22, <2>23 DEF StopsAlongY, e, end
<1> QED
  BY <1>2, <1>3

=============================================================================
