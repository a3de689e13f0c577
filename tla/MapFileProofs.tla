----------------------------- MODULE MapFileProofs -----------------------------
(***************************************************************************)
(* What is proved of MapFile, and of the XML parser in it: for every disk, *)
(* and for every depth the parser may be built for.                        *)
(***************************************************************************)
EXTENDS MapFile, OperatorFacts

-----------------------------------------------------------------------------
(* Sequences whose members are of no common type. *)

LEMMA SequenceIs ==
  ASSUME NEW S, NEW s \in Seq(S)
  PROVE  IsSequence(s)
BY DEF IsSequence

LEMMA IsOfItsMembers ==
  ASSUME NEW s, IsSequence(s)
  PROVE  s \in Seq(ToSet(s)) /\ DOMAIN s = 1 .. Len(s) /\ Len(s) \in Nat
<1>1. DOMAIN s = 1 .. Len(s) /\ Len(s) \in Nat
  BY DEF IsSequence
<1>2. s \in [1 .. Len(s) -> ToSet(s)]
  BY <1>1 DEF IsSequence, ToSet
<1>3. ASSUME NEW n \in Nat, NEW T, NEW f \in [1 .. n -> T]
      PROVE  f \in Seq(T)
  OBVIOUS
<1> QED
  BY <1>1, <1>2, <1>3

-----------------------------------------------------------------------------
(* Amounts taken from the pools, and their sums. *)

Amounts == [Pools -> Nat]

LEMMA AmountFacts ==
  ASSUME NEW f \in Amounts, NEW g \in Amounts, NEW h \in Amounts
  PROVE  /\ None \in Amounts /\ Plus(f, g) \in Amounts
         /\ Plus(Plus(f, g), h) = Plus(f, Plus(g, h))
         /\ Plus(f, g) = Plus(g, f)
         /\ Plus(f, None) = f /\ Plus(None, f) = f
         /\ Minus(Plus(f, g), g) = f
<1>1. None \in Amounts
  BY DEF None, Amounts
<1>2. Plus(f, g) \in Amounts
  BY DEF Plus, Amounts
<1>3. Plus(Plus(f, g), h) = Plus(f, Plus(g, h))
  BY DEF Plus, Amounts
<1>4. Plus(f, g) = Plus(g, f)
  BY DEF Plus, Amounts
<1>5. Plus(f, None) = f /\ Plus(None, f) = f
  BY DEF Plus, Amounts, None
<1>6. Minus(Plus(f, g), g) = f
  BY DEF Plus, Minus, Amounts
<1> QED
  BY <1>1, <1>2, <1>3, <1>4, <1>5, <1>6

LEMMA PlusAssociates ==
  ASSUME NEW f \in Amounts, NEW g \in Amounts, NEW h \in Amounts
  PROVE  Plus(Plus(f, g), h) = Plus(f, Plus(g, h))
BY AmountFacts

LEMMA PlusExchanges ==
  ASSUME NEW f \in Amounts, NEW g \in Amounts, NEW x \in Amounts, NEW y \in Amounts
  PROVE  Plus(Plus(f, g), Plus(x, y)) = Plus(Plus(f, x), Plus(g, y))
BY DEF Plus, Amounts

LEMMA PlusType ==
  ASSUME NEW f \in Amounts, NEW g \in Amounts
  PROVE  Plus(f, g) \in Amounts
BY DEF Plus, Amounts

LEMMA SumRun ==
  ASSUME NEW s \in Seq(Amounts)
  PROVE  \E run : /\ run[0] = None
                  /\ \A k \in 0 .. Len(s) : run[k] \in Amounts
                  /\ \A k \in 1 .. Len(s) : run[k] = Plus(run[k - 1], s[k])
                  /\ Sum(s) = run[Len(s)]
<1> DEFINE n == Len(s)
           step == [x \in Amounts \X Amounts |-> Plus(x[1], x[2])]
           Folds(it) == it = [t \in SUBSET (1 .. n) |->
                                IF t = {} THEN None ELSE Plus(it[t \ {Latest(t)}], s[Latest(t)])]
<1>1. n \in Nat /\ DOMAIN s = 1 .. n /\ \A i \in 1 .. n : s[i] \in Amounts
  OBVIOUS
<1>2. Sum(s) = (CHOOSE it : Folds(it))[1 .. n]
  BY <1>1 DEF Sum, FoldLeft, MapThenFoldSet, Latest, Max
<1>3. step \in [Amounts \X Amounts -> Amounts] /\ None \in Amounts
  BY AmountFacts DEF None, Amounts, Plus
<1> HIDE DEF n, step
<1>4. PICK it \in [SUBSET (1 .. n) -> Amounts] : Stepwise(it, step, None, s, n)
  BY <1>1, <1>3, StepwiseExists, Zenon
<1>5. \A t \in SUBSET (1 .. n) :
        Body(it, step, None, s, t)
          = IF t = {} THEN None ELSE Plus(it[t \ {Latest(t)}], s[Latest(t)])
  <2> SUFFICES ASSUME NEW t \in SUBSET (1 .. n), t # {}
               PROVE  step[<<it[t \ {Latest(t)}], s[Latest(t)]>>]
                        = Plus(it[t \ {Latest(t)}], s[Latest(t)])
    BY Zenon DEF Body
  <2>1. Latest(t) \in 1 .. n /\ t \ {Latest(t)} \in SUBSET (1 .. n)
    BY <1>1, LatestIsOne
  <2>2. it[t \ {Latest(t)}] \in Amounts /\ s[Latest(t)] \in Amounts
    BY <1>1, <2>1
  <2> QED
    BY <2>2 DEF step
<1>6. Folds(it)
  BY <1>4, <1>5, Zenon DEF Stepwise
<1> DEFINE f == CHOOSE h : Folds(h)
<1>7. Folds(f)
  <2> HIDE DEF Folds
  <2> QED
    BY <1>6, Zenon
<1> HIDE DEF f
<1> DEFINE run == [k \in 0 .. n |-> f[1 .. k]]
<1>8. \A k \in 0 .. n : 1 .. k \in SUBSET (1 .. n)
  BY <1>1
<1>9. run[0] = None
  <2>1. 1 .. 0 = {} /\ 0 \in 0 .. n
    BY <1>1
  <2> QED
    BY <1>7, <1>8, <2>1
<1>10. \A k \in 1 .. n : run[k] = Plus(run[k - 1], s[k])
  <2> TAKE k \in 1 .. n
  <2>0. k \in Nat \ {0} /\ k \in 0 .. n /\ k - 1 \in 0 .. n
    BY <1>1
  <2>1. 1 .. k # {} /\ Latest(1 .. k) = k /\ (1 .. k) \ {Latest(1 .. k)} = 1 .. (k - 1)
    BY <2>0, PlacesInOrder
  <2>2. f[1 .. k] = Plus(f[1 .. (k - 1)], s[k])
    BY <1>7, <1>8, <2>0, <2>1
  <2> QED
    BY <2>0, <2>2
<1>11. Sum(s) = run[n]
  BY <1>1, <1>2 DEF f
<1> HIDE DEF run, f
<1> DEFINE T == {k \in 0 .. n : run[k] \in Amounts}
<1>12. 0 \in T
  BY <1>1, <1>3, <1>9
<1>13. \A k \in 1 .. n : k - 1 \in T => k \in T
  <2> SUFFICES ASSUME NEW k \in 1 .. n, k - 1 \in T
               PROVE  k \in T
    OBVIOUS
  <2>1. k \in 0 .. n /\ run[k - 1] \in Amounts /\ s[k] \in Amounts
    BY <1>1
  <2>2. run[k] = Plus(run[k - 1], s[k])
    BY <1>10
  <2> QED
    BY <2>1, <2>2, PlusType
<1> HIDE DEF T
<1>14. \A k \in 0 .. n : k \in T
  BY <1>1, <1>12, <1>13, UpTo
<1>15. \A k \in 0 .. n : run[k] \in Amounts
  BY <1>14 DEF T
<1> QED
  BY <1>9, <1>10, <1>11, <1>15 DEF n

LEMMA SumType ==
  ASSUME NEW s \in Seq(Amounts)
  PROVE  Sum(s) \in Amounts
<1>1. Len(s) \in 0 .. Len(s)
  OBVIOUS
<1> QED
  BY <1>1, SumRun

LEMMA SumOfNone == Sum(<< >>) = None
<1>1. << >> \in Seq(Amounts) /\ Len(<< >>) = 0
  OBVIOUS
<1> QED
  BY <1>1, SumRun

LEMMA SumOfOne ==
  ASSUME NEW f \in Amounts
  PROVE  Sum(<<f>>) = f
<1>1. <<f>> \in Seq(Amounts) /\ Len(<<f>>) = 1 /\ <<f>>[1] = f
  OBVIOUS
<1> DEFINE s == <<f>>
<1> HIDE DEF s
<1>0. s \in Seq(Amounts) /\ Len(s) = 1 /\ s[1] = f
  BY <1>1 DEF s
<1>2. PICK run : /\ run[0] = None /\ \A k \in 1 .. 1 : run[k] = Plus(run[k - 1], s[k])
                 /\ Sum(s) = run[1]
  BY <1>0, SumRun
<1>3. run[1] = Plus(run[1 - 1], s[1]) /\ 1 - 1 = 0
  BY <1>2
<1> QED
  BY <1>0, <1>2, <1>3, AmountFacts DEF s

LEMMA SumOfBoth ==
  ASSUME NEW s \in Seq(Amounts), NEW t \in Seq(Amounts)
  PROVE  Sum(s \o t) = Plus(Sum(s), Sum(t))
<1> DEFINE n == Len(s)
           m == Len(t)
<1>1. n \in Nat /\ m \in Nat /\ s \o t \in Seq(Amounts) /\ Len(s \o t) = n + m
  OBVIOUS
<1>2. /\ \A k \in 1 .. n : (s \o t)[k] = s[k] /\ s[k] \in Amounts
      /\ \A k \in 1 .. m : (s \o t)[n + k] = t[k] /\ t[k] \in Amounts
  OBVIOUS
<1> DEFINE u == s \o t
<1> HIDE DEF n, m, u
<1>3. PICK a : /\ a[0] = None
               /\ \A k \in 0 .. n : a[k] \in Amounts
               /\ \A k \in 1 .. n : a[k] = Plus(a[k - 1], s[k])
               /\ Sum(s) = a[n]
  BY SumRun DEF n
<1>4. PICK b : /\ b[0] = None
               /\ \A k \in 0 .. m : b[k] \in Amounts
               /\ \A k \in 1 .. m : b[k] = Plus(b[k - 1], t[k])
               /\ Sum(t) = b[m]
  BY SumRun DEF m
<1>5. PICK c : /\ c[0] = None
               /\ \A k \in 1 .. n + m : c[k] = Plus(c[k - 1], u[k])
               /\ Sum(u) = c[n + m]
  BY <1>1, SumRun DEF u
<1> DEFINE T == {k \in 0 .. n : c[k] = a[k]}
           U == {k \in 0 .. m : c[n + k] = Plus(a[n], b[k])}
<1>6. \A k \in 0 .. n : k \in T
  <2>1. 0 \in T
    BY <1>1, <1>3, <1>5
  <2>2. \A k \in 1 .. n : k - 1 \in T => k \in T
    <3> SUFFICES ASSUME NEW k \in 1 .. n, k - 1 \in T
                 PROVE  c[k] = a[k]
      BY <1>1
    <3>1. k \in 1 .. n + m /\ u[k] = s[k]
      BY <1>1, <1>2 DEF u
    <3> QED
      BY <1>3, <1>5, <3>1
  <2> HIDE DEF T
  <2> QED
    BY <1>1, <2>1, <2>2, UpTo
<1>7. \A k \in 0 .. m : k \in U
  <2>0. a[n] \in Amounts /\ c[n] = a[n]
    BY <1>1, <1>3, <1>6
  <2>1. 0 \in U
    <3>1. n + 0 = n /\ Plus(a[n], None) = a[n] /\ 0 \in 0 .. m
      BY <1>1, <2>0, AmountFacts
    <3> QED
      BY <1>4, <2>0, <3>1
  <2>2. \A k \in 1 .. m : k - 1 \in U => k \in U
    <3> SUFFICES ASSUME NEW k \in 1 .. m, k - 1 \in U
                 PROVE  c[n + k] = Plus(a[n], b[k])
      BY <1>1
    <3>1. n + k \in 1 .. n + m /\ (n + k) - 1 = n + (k - 1) /\ k - 1 \in 0 .. m
      BY <1>1
    <3>2. u[n + k] = t[k] /\ t[k] \in Amounts /\ b[k - 1] \in Amounts
      BY <1>2, <1>4, <3>1 DEF u
    <3>3. c[n + (k - 1)] = Plus(a[n], b[k - 1])
      OBVIOUS
    <3> HIDE DEF U
    <3>4. c[n + k] = Plus(Plus(a[n], b[k - 1]), t[k])
      <4>1. c[n + k] = Plus(c[(n + k) - 1], u[n + k])
        BY <1>5, <3>1, Zenon
      <4> QED
        BY <3>1, <3>2, <3>3, <4>1, Zenon
    <3>5. Plus(Plus(a[n], b[k - 1]), t[k]) = Plus(a[n], Plus(b[k - 1], t[k]))
      BY <2>0, <3>2, PlusAssociates
    <3> QED
      BY <1>4, <3>4, <3>5, Zenon
  <2> HIDE DEF U
  <2> QED
    BY <1>1, <2>1, <2>2, UpTo
<1>8. c[n + m] = Plus(a[n], b[m])
  <2>1. m \in 0 .. m
    BY <1>1
  <2> QED
    BY <1>7, <2>1
<1> QED
  BY <1>3, <1>4, <1>5, <1>8 DEF u

LEMMA SumOfPairs ==
  ASSUME NEW s \in Seq(Amounts), NEW t \in Seq(Amounts), NEW u \in Seq(Amounts),
         Len(s) = Len(u), Len(t) = Len(u),
         \A k \in 1 .. Len(u) : u[k] = Plus(s[k], t[k])
  PROVE  Sum(u) = Plus(Sum(s), Sum(t))
<1> DEFINE n == Len(u)
<1>1. n \in Nat /\ \A k \in 1 .. n : s[k] \in Amounts /\ t[k] \in Amounts
  OBVIOUS
<1>2. PICK a : /\ a[0] = None
               /\ \A k \in 0 .. n : a[k] \in Amounts
               /\ \A k \in 1 .. n : a[k] = Plus(a[k - 1], s[k])
               /\ Sum(s) = a[n]
  BY SumRun
<1>3. PICK b : /\ b[0] = None
               /\ \A k \in 0 .. n : b[k] \in Amounts
               /\ \A k \in 1 .. n : b[k] = Plus(b[k - 1], t[k])
               /\ Sum(t) = b[n]
  BY SumRun
<1>4. PICK c : /\ c[0] = None
               /\ \A k \in 1 .. n : c[k] = Plus(c[k - 1], u[k])
               /\ Sum(u) = c[n]
  BY SumRun
<1> HIDE DEF n
<1> DEFINE T == {k \in 0 .. n : c[k] = Plus(a[k], b[k])}
<1>5. 0 \in T
  BY <1>1, <1>2, <1>3, <1>4 DEF Plus, None
<1>6. \A k \in 1 .. n : k - 1 \in T => k \in T
  <2> SUFFICES ASSUME NEW k \in 1 .. n, k - 1 \in T
               PROVE  c[k] = Plus(a[k], b[k])
    BY <1>1
  <2>1. k - 1 \in 0 .. n /\ c[k - 1] = Plus(a[k - 1], b[k - 1])
    BY <1>1
  <2>2. /\ a[k - 1] \in Amounts /\ b[k - 1] \in Amounts
        /\ s[k] \in Amounts /\ t[k] \in Amounts /\ u[k] = Plus(s[k], t[k])
    BY <1>1, <1>2, <1>3, <2>1 DEF n
  <2> HIDE DEF T
  <2>3. c[k] = Plus(Plus(a[k - 1], b[k - 1]), Plus(s[k], t[k]))
    BY <1>4, <2>1, <2>2
  <2>4. Plus(Plus(a[k - 1], b[k - 1]), Plus(s[k], t[k]))
          = Plus(Plus(a[k - 1], s[k]), Plus(b[k - 1], t[k]))
    <3>1. /\ a[k - 1] \in Amounts /\ b[k - 1] \in Amounts
          /\ s[k] \in Amounts /\ t[k] \in Amounts
      BY <2>2
    <3>2. PICK f \in Amounts, g \in Amounts, x \in Amounts, y \in Amounts :
            f = a[k - 1] /\ g = b[k - 1] /\ x = s[k] /\ y = t[k]
      BY <3>1
    <3>3. Plus(Plus(f, g), Plus(x, y)) = Plus(Plus(f, x), Plus(g, y))
      BY PlusExchanges
    <3> QED
      BY <3>2, <3>3
  <2> QED
    BY <1>2, <1>3, <2>3, <2>4, Zenon
<1> HIDE DEF T
<1>7. n \in T
  <2>1. \A k \in 0 .. n : k \in T
    BY <1>1, <1>5, <1>6, UpTo
  <2> QED
    BY <1>1, <2>1
<1> QED
  BY <1>2, <1>3, <1>4, <1>7 DEF T

-----------------------------------------------------------------------------
(* The levels of a tree. *)

Regroups(S) == \A x, y, z \in Seq(S) : (x \o y) \o z = x \o (y \o z)

LEMMA ConcatRegroups == ASSUME NEW S PROVE Regroups(S)
BY ConcatAssociative, SMT DEF Regroups

LEMMA FlattenBoth ==
  ASSUME NEW S, NEW s \in Seq(Seq(S)), NEW t \in Seq(Seq(S))
  PROVE  FlattenSeq(s \o t) = FlattenSeq(s) \o FlattenSeq(t)
<1>0. Regroups(S)
  BY ConcatRegroups
<1> DEFINE n == Len(s)
           m == Len(t)
           u == s \o t
<1>1. n \in Nat /\ m \in Nat /\ u \in Seq(Seq(S)) /\ Len(u) = n + m
  OBVIOUS
<1>2. /\ \A k \in 1 .. n : u[k] = s[k] /\ s[k] \in Seq(S)
      /\ \A k \in 1 .. m : u[n + k] = t[k] /\ t[k] \in Seq(S)
  OBVIOUS
<1> HIDE DEF n, m, u
<1>3. PICK a : /\ a[0] = << >>
               /\ \A k \in 0 .. n : a[k] \in Seq(S)
               /\ \A k \in 1 .. n : a[k] = a[k - 1] \o s[k]
               /\ FlattenSeq(s) = a[n]
  BY FlattenRun DEF n
<1>4. PICK b : /\ b[0] = << >>
               /\ \A k \in 0 .. m : b[k] \in Seq(S)
               /\ \A k \in 1 .. m : b[k] = b[k - 1] \o t[k]
               /\ FlattenSeq(t) = b[m]
  BY FlattenRun DEF m
<1>9. PICK c : /\ c[0] = << >>
               /\ \A k \in 1 .. Len(u) : c[k] = c[k - 1] \o u[k]
               /\ FlattenSeq(u) = c[Len(u)]
  BY <1>1, FlattenRun
<1>5. /\ c[0] = << >>
      /\ \A k \in 1 .. n + m : c[k] = c[k - 1] \o u[k]
      /\ FlattenSeq(u) = c[n + m]
  BY <1>1, <1>9
<1> DEFINE T == {k \in 0 .. n : c[k] = a[k]}
           U == {k \in 0 .. m : c[n + k] = a[n] \o b[k]}
<1>6. \A k \in 0 .. n : k \in T
  <2>1. 0 \in T
    BY <1>1, <1>3, <1>5
  <2>2. \A k \in 1 .. n : k - 1 \in T => k \in T
    <3> SUFFICES ASSUME NEW k \in 1 .. n, k - 1 \in T
                 PROVE  k \in T
      OBVIOUS
    <3>1. k \in 1 .. n + m /\ u[k] = s[k] /\ c[k - 1] = a[k - 1] /\ k \in 0 .. n
      BY <1>1, <1>2
    <3>2. c[k] = a[k]
      <4> HIDE DEF T
      <4> QED
        BY <1>3, <1>5, <3>1, Zenon
    <3> QED
      BY <3>1, <3>2
  <2> HIDE DEF T
  <2> QED
    BY <1>1, <2>1, <2>2, UpTo
<1>7. \A k \in 0 .. m : k \in U
  <2>0. a[n] \in Seq(S) /\ c[n] = a[n]
    BY <1>1, <1>3, <1>6
  <2>1. 0 \in U
    <3>1. n + 0 = n /\ a[n] \o << >> = a[n] /\ 0 \in 0 .. m
      BY <1>1, <2>0, ConcatEmptySeq
    <3> QED
      BY <1>4, <2>0, <3>1
  <2>2. \A k \in 1 .. m : k - 1 \in U => k \in U
    <3> SUFFICES ASSUME NEW k \in 1 .. m, k - 1 \in U
                 PROVE  k \in U
      OBVIOUS
    <3>1. /\ n + k \in 1 .. n + m /\ (n + k) - 1 = n + (k - 1)
          /\ k - 1 \in 0 .. m /\ k \in 0 .. m
      BY <1>1
    <3>2. u[n + k] = t[k] /\ t[k] \in Seq(S) /\ b[k - 1] \in Seq(S)
      BY <1>2, <1>4, <3>1
    <3>3. c[n + (k - 1)] = a[n] \o b[k - 1]
      OBVIOUS
    <3> HIDE DEF U
    <3>4. c[n + k] = (a[n] \o b[k - 1]) \o t[k]
      <4>1. c[n + k] = c[(n + k) - 1] \o u[n + k]
        BY <1>5, <3>1, Zenon
      <4> QED
        BY <3>1, <3>2, <3>3, <4>1, Zenon
    <3>5. (a[n] \o b[k - 1]) \o t[k] = a[n] \o (b[k - 1] \o t[k])
      <4>1. PICK x \in Seq(S), y \in Seq(S), z \in Seq(S) : x = a[n] /\ y = b[k - 1] /\ z = t[k]
        BY <2>0, <3>2, Zenon
      <4>2. (x \o y) \o z = x \o (y \o z)
        BY <1>0, Zenon DEF Regroups
      <4> QED
        BY <4>1, <4>2, Zenon
    <3>6. b[k] = b[k - 1] \o t[k]
      BY <1>4, Zenon
    <3>7. c[n + k] = a[n] \o b[k]
      BY <3>4, <3>5, <3>6, Zenon
    <3> QED
      BY <3>1, <3>7, Zenon DEF U
  <2> HIDE DEF U
  <2> QED
    BY <1>1, <2>1, <2>2, UpTo
<1>8. c[n + m] = a[n] \o b[m]
  <2>1. m \in 0 .. m
    BY <1>1
  <2> QED
    BY <1>7, <2>1
<1> QED
  BY <1>3, <1>4, <1>5, <1>8, Zenon DEF u

LEMMA FlattenOne ==
  ASSUME NEW S, NEW s \in Seq(S)
  PROVE  FlattenSeq(<<s>>) = s
<1> DEFINE q == <<s>>
<1>1. q \in Seq(Seq(S)) /\ Len(q) = 1 /\ q[1] = s
  OBVIOUS
<1> HIDE DEF q
<1>2. PICK run : /\ run[0] = << >> /\ \A k \in 1 .. Len(q) : run[k] = run[k - 1] \o q[k]
                 /\ FlattenSeq(q) = run[Len(q)]
  BY <1>1, FlattenRun
<1>3. run[1] = run[1 - 1] \o q[1] /\ 1 - 1 = 0
  <2>1. 1 \in 1 .. Len(q) /\ 1 - 1 = 0
    BY <1>1
  <2> QED
    BY <1>2, <2>1, Zenon
<1>4. << >> \o s = s
  BY ConcatEmptySeq
<1> QED
  BY <1>1, <1>2, <1>3, <1>4 DEF q

\* A node, and the nodes of a level.
NodeType(node) ==
  /\ node = Node(node.kind, node.name, node.attrs, node.kids)
  /\ IsSequence(node.attrs) /\ IsSequence(node.kids)

IsLevel(nodes) == IsSequence(nodes) /\ \A i \in 1 .. Len(nodes) : NodeType(nodes[i])

LEMMA LevelType ==
  ASSUME NEW nodes, IsLevel(nodes)
  PROVE  /\ nodes \in Seq(ToSet(nodes)) /\ DOMAIN nodes = 1 .. Len(nodes) /\ Len(nodes) \in Nat
         /\ \A i \in 1 .. Len(nodes) : NodeType(nodes[i])
BY IsOfItsMembers DEF IsLevel

LEMMA LevelOfBoth ==
  ASSUME NEW s, NEW t, IsLevel(s), IsLevel(t)
  PROVE  IsLevel(s \o t)
<1> DEFINE S == ToSet(s) \cup ToSet(t)
<1>1. s \in Seq(S) /\ t \in Seq(S)
  BY LevelType, SeqMonotonic
<1> HIDE DEF S
<1>2. /\ s \o t \in Seq(S) /\ Len(s \o t) = Len(s) + Len(t)
      /\ \A i \in 1 .. Len(s) + Len(t) :
           (s \o t)[i] = IF i <= Len(s) THEN s[i] ELSE t[i - Len(s)]
  BY <1>1, ConcatProperties
<1>3. Len(s) \in Nat /\ Len(t) \in Nat
  BY LevelType
<1> DEFINE u == s \o t
           l == Len(s)
           m == Len(t)
<1>4. ASSUME NEW i \in 1 .. Len(u)
      PROVE  NodeType(u[i])
  <2>1. i \in 1 .. l + m
    BY <1>2
  <2>2. CASE i <= l
    <3>1. i \in 1 .. l /\ u[i] = s[i]
      BY <1>2, <1>3, <2>1, <2>2
    <3> QED
      BY <3>1, LevelType
  <2>3. CASE ~ (i <= l)
    <3>1. i - l \in 1 .. m /\ u[i] = t[i - l]
      BY <1>2, <1>3, <2>1, <2>3
    <3> HIDE DEF u, l
    <3>2. NodeType(t[i - l])
      BY <3>1, LevelType DEF m
    <3> QED
      BY <3>1, <3>2
  <2> QED
    BY <2>2, <2>3
<1> QED
  BY <1>2, <1>4, SequenceIs DEF IsLevel

\* What KidsOf flattens.
KidLists(nodes) == [i \in DOMAIN nodes |-> nodes[i].kids]
Kids(nodes) == UNION {ToSet(nodes[i].kids) : i \in 1 .. Len(nodes)}

LEMMA KidListsType ==
  ASSUME NEW nodes, IsLevel(nodes), NEW S, Kids(nodes) \subseteq S
  PROVE  /\ KidLists(nodes) \in Seq(Seq(S)) /\ Len(KidLists(nodes)) = Len(nodes)
         /\ \A i \in 1 .. Len(nodes) : KidLists(nodes)[i] = nodes[i].kids
<1>1. Len(nodes) \in Nat /\ DOMAIN nodes = 1 .. Len(nodes)
  BY LevelType
<1>2. ASSUME NEW i \in 1 .. Len(nodes)
      PROVE  nodes[i].kids \in Seq(S)
  <2>1. nodes[i].kids \in Seq(ToSet(nodes[i].kids))
    BY LevelType, IsOfItsMembers DEF NodeType
  <2>2. ToSet(nodes[i].kids) \subseteq S
    BY DEF Kids
  <2> QED
    BY <2>1, <2>2, SeqMonotonic
<1>3. ASSUME NEW n \in Nat, NEW T, NEW f \in [1 .. n -> T]
      PROVE  f \in Seq(T) /\ Len(f) = n
  OBVIOUS
<1>4. KidLists(nodes) \in [1 .. Len(nodes) -> Seq(S)]
  BY <1>1, <1>2 DEF KidLists
<1> QED
  BY <1>1, <1>3, <1>4 DEF KidLists

LEMMA KidsOfType ==
  ASSUME NEW nodes, IsLevel(nodes)
  PROVE  IsSequence(KidsOf(nodes))
<1>1. KidLists(nodes) \in Seq(Seq(Kids(nodes)))
  BY KidListsType
<1>2. FlattenSeq(KidLists(nodes)) \in Seq(Kids(nodes))
  BY <1>1, FlattenKeeps
<1> QED
  BY <1>2, SequenceIs DEF KidsOf, KidLists

LEMMA KidsOfBoth ==
  ASSUME NEW s, NEW t, IsLevel(s), IsLevel(t)
  PROVE  KidsOf(s \o t) = KidsOf(s) \o KidsOf(t)
<1> DEFINE S == Kids(s) \cup Kids(t)
           u == s \o t
           a == KidLists(s)
           b == KidLists(t)
           c == KidLists(u)
<1>1. /\ a \in Seq(Seq(S)) /\ Len(a) = Len(s) /\ \A i \in 1 .. Len(s) : a[i] = s[i].kids
      /\ b \in Seq(Seq(S)) /\ Len(b) = Len(t) /\ \A i \in 1 .. Len(t) : b[i] = t[i].kids
  BY KidListsType
<1>2. /\ Len(s) \in Nat /\ Len(t) \in Nat /\ Len(u) = Len(s) + Len(t)
      /\ \A i \in 1 .. Len(s) + Len(t) : u[i] = IF i <= Len(s) THEN s[i] ELSE t[i - Len(s)]
  <2> DEFINE V == ToSet(s) \cup ToSet(t)
  <2>1. s \in Seq(V) /\ t \in Seq(V)
    BY LevelType, SeqMonotonic
  <2> HIDE DEF V
  <2>2. /\ Len(s \o t) = Len(s) + Len(t)
        /\ \A i \in 1 .. Len(s) + Len(t) :
             (s \o t)[i] = IF i <= Len(s) THEN s[i] ELSE t[i - Len(s)]
    BY <2>1, ConcatProperties
  <2> QED
    BY <2>1, <2>2
<1>3. /\ c \in Seq(Seq(Kids(u))) /\ Len(c) = Len(u)
      /\ \A i \in 1 .. Len(u) : c[i] = u[i].kids
  BY LevelOfBoth, KidListsType
<1>4. /\ a \o b \in Seq(Seq(S)) /\ Len(a \o b) = Len(s) + Len(t)
      /\ \A i \in 1 .. Len(s) + Len(t) :
           (a \o b)[i] = IF i <= Len(s) THEN a[i] ELSE b[i - Len(s)]
  <2> DEFINE W == Seq(S)
  <2>0. a \in Seq(W) /\ b \in Seq(W)
    BY <1>1
  <2> HIDE DEF S, W, a, b
  <2>1. /\ a \o b \in Seq(W) /\ Len(a \o b) = Len(a) + Len(b)
        /\ \A i \in 1 .. Len(a) + Len(b) :
             (a \o b)[i] = IF i <= Len(a) THEN a[i] ELSE b[i - Len(a)]
    BY <2>0, ConcatProperties
  <2> QED
    BY <1>1, <2>1 DEF W
<1> HIDE DEF S, a, b, c, u
<1>5. \A i \in 1 .. Len(s) + Len(t) : c[i] = (a \o b)[i]
  <2> TAKE i \in 1 .. Len(s) + Len(t)
  <2>1. CASE i <= Len(s)
    <3>1. i \in 1 .. Len(s)
      BY <1>2, <2>1
    <3> QED
      BY <1>1, <1>2, <1>3, <1>4, <2>1, <3>1
  <2>2. CASE ~ (i <= Len(s))
    <3>1. i - Len(s) \in 1 .. Len(t)
      BY <1>2, <2>2
    <3> QED
      BY <1>1, <1>2, <1>3, <1>4, <2>2, <3>1
  <2> QED
    BY <2>1, <2>2
<1>6. c = a \o b
  <2> DEFINE W == Seq(S) \cup Seq(Kids(u))
  <2>1. c \in Seq(W) /\ a \o b \in Seq(W)
    BY <1>3, <1>4, SeqMonotonic
  <2> HIDE DEF W
  <2> QED
    BY <1>2, <1>3, <1>4, <1>5, <2>1, SeqEqual
<1>7. FlattenSeq(a \o b) = FlattenSeq(a) \o FlattenSeq(b)
  BY <1>1, FlattenBoth
<1> QED
  BY <1>6, <1>7 DEF KidsOf, KidLists, a, b, c, u

LEMMA KidsOfOne ==
  ASSUME NEW node, NodeType(node)
  PROVE  KidsOf(<<node>>) = node.kids
<1>1. node.kids \in Seq(ToSet(node.kids))
  BY IsOfItsMembers DEF NodeType
<1>2. [i \in DOMAIN <<node>> |-> <<node>>[i].kids] = <<node.kids>>
  OBVIOUS
<1> QED
  BY <1>1, <1>2, FlattenOne DEF KidsOf

LEMMA KidsOfNone == KidsOf(<< >>) = << >>
<1>1. [i \in DOMAIN << >> |-> << >>[i].kids] = << >>
  OBVIOUS
<1> QED
  BY <1>1 DEF KidsOf, FlattenSeq

LEMMA LevelsAre ==
  ASSUME NEW node, NEW height \in Nat
  PROVE  /\ Levels(node, height)[0] = <<node>>
         /\ \A d \in 1 .. height : Levels(node, height)[d] = KidsOf(Levels(node, height)[d - 1])
<1> DEFINE Solves(f, k) == f = [d \in 0 .. k |-> IF d = 0 THEN <<node>> ELSE KidsOf(f[d - 1])]
           T == {k \in 0 .. height : \E f : Solves(f, k)}
<1>1. 0 \in T
  <2> DEFINE f == [d \in 0 .. 0 |-> <<node>>]
  <2>1. \A d \in 0 .. 0 : d = 0
    OBVIOUS
  <2>2. Solves(f, 0)
    BY <2>1
  <2> HIDE DEF f, Solves
  <2>3. \E g : Solves(g, 0)
    BY <2>2, Zenon
  <2> QED
    BY <2>3
<1>2. \A k \in 1 .. height : k - 1 \in T => k \in T
  <2> SUFFICES ASSUME NEW k \in 1 .. height, k - 1 \in T
               PROVE  k \in T
    OBVIOUS
  <2>1. PICK f : Solves(f, k - 1)
    OBVIOUS
  <2> DEFINE g == [d \in 0 .. k |-> IF d = 0 THEN <<node>> ELSE KidsOf(f[d - 1])]
  <2>2. \A d \in 0 .. k - 1 : g[d] = f[d]
    <3> TAKE d \in 0 .. k - 1
    <3>1. d \in 0 .. k
      OBVIOUS
    <3> QED
      BY <2>1, <3>1
  <2>3. \A d \in 0 .. k : d # 0 => d - 1 \in 0 .. k - 1
    OBVIOUS
  <2>4. \A d \in 0 .. k : (IF d = 0 THEN <<node>> ELSE KidsOf(f[d - 1]))
                           = (IF d = 0 THEN <<node>> ELSE KidsOf(g[d - 1]))
    <3> HIDE DEF g
    <3> QED
      BY <2>2, <2>3
  <2>5. Solves(g, k)
    <3>1. g = [d \in 0 .. k |-> IF d = 0 THEN <<node>> ELSE KidsOf(f[d - 1])]
      OBVIOUS
    <3> HIDE DEF g
    <3> QED
      BY <2>4, <3>1
  <2> HIDE DEF g, Solves
  <2>6. \E h : Solves(h, k)
    BY <2>5, Zenon
  <2> QED
    BY <2>6
<1> HIDE DEF T
<1>3. height \in T
  <2>1. \A k \in 0 .. height : k \in T
    BY <1>1, <1>2, UpTo
  <2> QED
    BY <2>1
<1> DEFINE levels == CHOOSE f : Solves(f, height)
<1>4. Solves(levels, height)
  <2> HIDE DEF Solves
  <2> QED
    BY <1>3, Zenon DEF T
<1>5. levels = Levels(node, height)
  BY DEF Levels
<1> HIDE DEF levels
<1>6. levels[0] = <<node>> /\ \A d \in 1 .. height : levels[d] = KidsOf(levels[d - 1])
  BY <1>4
<1> QED
  BY <1>5, <1>6, Zenon

-----------------------------------------------------------------------------
(* What a tree takes from the pools. *)

LEMMA SumOfFirst ==
  ASSUME NEW s \in Seq(Amounts), s # << >>, \A k \in 2 .. Len(s) : s[k] = None
  PROVE  Sum(s) = s[1]
<1> DEFINE n == Len(s)
<1>1. n \in Nat \ {0} /\ s[1] \in Amounts
  OBVIOUS
<1>2. PICK run : /\ run[0] = None
                 /\ \A k \in 1 .. n : run[k] = Plus(run[k - 1], s[k])
                 /\ Sum(s) = run[n]
  BY SumRun
<1> HIDE DEF n
<1> DEFINE T == {k \in 0 .. n : k = 0 \/ run[k] = s[1]}
<1>3. 0 \in T
  BY <1>1
<1>4. \A k \in 1 .. n : k - 1 \in T => k \in T
  <2> SUFFICES ASSUME NEW k \in 1 .. n, k - 1 \in T
               PROVE  k \in T
    OBVIOUS
  <2>1. k \in 0 .. n /\ run[k] = Plus(run[k - 1], s[k])
    BY <1>1, <1>2
  <2>2. CASE k = 1
    <3>1. run[1] = Plus(None, s[1])
      BY <1>2, <2>1, <2>2
    <3>2. run[k] = s[1]
      BY <1>1, <2>2, <3>1, AmountFacts
    <3> QED
      BY <2>1, <3>2
  <2>3. CASE k # 1
    <3>1. k \in 2 .. n /\ k - 1 # 0
      BY <1>1, <2>3
    <3>2. s[k] = None /\ run[k - 1] = s[1]
      BY <3>1 DEF n
    <3> HIDE DEF T
    <3>3. run[k] = s[1]
      BY <1>1, <2>1, <3>2, AmountFacts
    <3> QED
      BY <2>1, <3>3 DEF T
  <2> QED
    BY <2>2, <2>3
<1> HIDE DEF T
<1>5. n \in T
  <2>1. \A k \in 0 .. n : k \in T
    BY <1>1, <1>3, <1>4, UpTo
  <2> QED
    BY <1>1, <2>1
<1> QED
  BY <1>1, <1>2, <1>5 DEF T

\* Moved on by one place, when the last is nothing.
LEMMA SumShifted ==
  ASSUME NEW s \in Seq(Amounts), NEW t \in Seq(Amounts), s # << >>, Len(s) = Len(t),
         s[Len(s)] = None, t[1] = None, \A k \in 2 .. Len(t) : t[k] = s[k - 1]
  PROVE  Sum(t) = Sum(s)
<1> DEFINE n == Len(s)
           a == <<None>> \o s
           b == t \o <<None>>
<1>0. None \in Amounts
  BY DEF None, Amounts
<1>1. n \in Nat \ {0} /\ <<None>> \in Seq(Amounts) /\ Len(<<None>>) = 1 /\ <<None>>[1] = None
  BY <1>0
<1>2. a \in Seq(Amounts) /\ Len(a) = n + 1 /\ b \in Seq(Amounts) /\ Len(b) = n + 1
  BY <1>1
<1>3. \A k \in 1 .. n + 1 : a[k] = IF k = 1 THEN None ELSE s[k - 1]
  BY <1>1
<1>4. \A k \in 1 .. n + 1 : b[k] = IF k <= n THEN t[k] ELSE None
  BY <1>1
<1>5. \A k \in 1 .. n + 1 : a[k] = b[k]
  <2> TAKE k \in 1 .. n + 1
  <2> HIDE DEF a, b
  <2>1. CASE k = 1
    <3>1. a[k] = None /\ b[k] = t[k]
      BY <1>1, <1>3, <1>4, <2>1
    <3> QED
      BY <2>1, <3>1
  <2>2. CASE k \in 2 .. n
    <3>1. a[k] = s[k - 1] /\ b[k] = t[k]
      BY <1>1, <1>3, <1>4, <2>2
    <3> QED
      BY <2>2, <3>1
  <2>3. CASE k = n + 1
    <3>1. a[k] = s[k - 1] /\ b[k] = None /\ k - 1 = n
      BY <1>1, <1>3, <1>4, <2>3
    <3> QED
      BY <3>1
  <2> QED
    BY <1>1, <2>1, <2>2, <2>3
<1>6. a = b
  <2> HIDE DEF a, b, n
  <2> QED
    BY <1>2, <1>5, SeqEqual
<1>7. Sum(a) = Plus(Sum(<<None>>), Sum(s)) /\ Sum(b) = Plus(Sum(t), Sum(<<None>>))
  BY <1>1, SumOfBoth
<1>8. Sum(<<None>>) = None /\ Sum(s) \in Amounts /\ Sum(t) \in Amounts
  BY <1>0, SumOfOne, SumType
<1>9. Sum(a) = Sum(s) /\ Sum(b) = Sum(t)
  BY <1>7, <1>8, AmountFacts
<1> QED
  BY <1>6, <1>9

\* What the nodes of a level take.
Takes(nodes) == [i \in DOMAIN nodes |-> Own(nodes[i])]

LEMMA OwnType ==
  ASSUME NEW node, NodeType(node)
  PROVE  Own(node) \in Amounts
<1>1. Len(node.attrs) \in Nat
  BY DEF NodeType, IsSequence
<1> QED
  BY <1>1 DEF Own, Amounts

LEMMA TakesType ==
  ASSUME NEW nodes, IsLevel(nodes)
  PROVE  /\ Takes(nodes) \in Seq(Amounts) /\ Len(Takes(nodes)) = Len(nodes)
         /\ \A i \in 1 .. Len(nodes) : Takes(nodes)[i] = Own(nodes[i])
         /\ Sum(Takes(nodes)) \in Amounts
<1>1. Len(nodes) \in Nat /\ DOMAIN nodes = 1 .. Len(nodes)
  BY LevelType
<1>2. \A i \in 1 .. Len(nodes) : Own(nodes[i]) \in Amounts
  BY LevelType, OwnType
<1>3. ASSUME NEW n \in Nat, NEW T, NEW f \in [1 .. n -> T]
      PROVE  f \in Seq(T) /\ Len(f) = n
  OBVIOUS
<1>4. Takes(nodes) \in [1 .. Len(nodes) -> Amounts]
  BY <1>1, <1>2 DEF Takes
<1>5. /\ Takes(nodes) \in Seq(Amounts) /\ Len(Takes(nodes)) = Len(nodes)
      /\ \A i \in 1 .. Len(nodes) : Takes(nodes)[i] = Own(nodes[i])
  BY <1>1, <1>3, <1>4 DEF Takes
<1> QED
  BY <1>5, SumType

LEMMA TakesOfBoth ==
  ASSUME NEW s, NEW t, IsLevel(s), IsLevel(t)
  PROVE  Sum(Takes(s \o t)) = Plus(Sum(Takes(s)), Sum(Takes(t)))
<1> DEFINE u == s \o t
           a == Takes(s)
           b == Takes(t)
           c == Takes(u)
<1>1. /\ a \in Seq(Amounts) /\ Len(a) = Len(s) /\ \A i \in 1 .. Len(s) : a[i] = Own(s[i])
      /\ b \in Seq(Amounts) /\ Len(b) = Len(t) /\ \A i \in 1 .. Len(t) : b[i] = Own(t[i])
  BY TakesType
<1>2. /\ c \in Seq(Amounts) /\ Len(c) = Len(u)
      /\ \A i \in 1 .. Len(u) : c[i] = Own(u[i])
  BY LevelOfBoth, TakesType
<1>3. /\ Len(s) \in Nat /\ Len(t) \in Nat /\ Len(u) = Len(s) + Len(t)
      /\ \A i \in 1 .. Len(s) + Len(t) : u[i] = IF i <= Len(s) THEN s[i] ELSE t[i - Len(s)]
  <2> DEFINE V == ToSet(s) \cup ToSet(t)
  <2>1. s \in Seq(V) /\ t \in Seq(V)
    BY LevelType, SeqMonotonic
  <2> HIDE DEF V
  <2>2. /\ Len(s \o t) = Len(s) + Len(t)
        /\ \A i \in 1 .. Len(s) + Len(t) :
             (s \o t)[i] = IF i <= Len(s) THEN s[i] ELSE t[i - Len(s)]
    BY <2>1, ConcatProperties
  <2> QED
    BY <2>1, <2>2
<1> HIDE DEF a, b, c, u
<1>4. /\ a \o b \in Seq(Amounts) /\ Len(a \o b) = Len(s) + Len(t)
      /\ \A i \in 1 .. Len(s) + Len(t) :
           (a \o b)[i] = IF i <= Len(s) THEN a[i] ELSE b[i - Len(s)]
  <2> DEFINE W == Amounts
  <2>0. a \in Seq(W) /\ b \in Seq(W)
    BY <1>1
  <2> HIDE DEF W
  <2>1. /\ a \o b \in Seq(W) /\ Len(a \o b) = Len(a) + Len(b)
        /\ \A i \in 1 .. Len(a) + Len(b) :
             (a \o b)[i] = IF i <= Len(a) THEN a[i] ELSE b[i - Len(a)]
    BY <2>0, ConcatProperties
  <2> QED
    BY <1>1, <2>1 DEF W
<1>5. \A i \in 1 .. Len(s) + Len(t) : c[i] = (a \o b)[i]
  <2> TAKE i \in 1 .. Len(s) + Len(t)
  <2>1. CASE i <= Len(s)
    <3>1. i \in 1 .. Len(s)
      BY <1>3, <2>1
    <3> QED
      BY <1>1, <1>2, <1>3, <1>4, <2>1, <3>1
  <2>2. CASE ~ (i <= Len(s))
    <3>1. i - Len(s) \in 1 .. Len(t)
      BY <1>3, <2>2
    <3> QED
      BY <1>1, <1>2, <1>3, <1>4, <2>2, <3>1
  <2> QED
    BY <2>1, <2>2
<1>6. c = a \o b
  BY <1>2, <1>3, <1>4, <1>5, SeqEqual
<1>7. Sum(a \o b) = Plus(Sum(a), Sum(b))
  BY <1>1, SumOfBoth
<1> QED
  BY <1>6, <1>7 DEF a, b, c, u

LEMMA OneIsLevel ==
  ASSUME NEW node, NodeType(node)
  PROVE  IsLevel(<<node>>) /\ Sum(Takes(<<node>>)) = Own(node)
<1> DEFINE s == <<node>>
<1>1. s \in Seq({node}) /\ Len(s) = 1 /\ s[1] = node
  OBVIOUS
<1>2. \A i \in 1 .. Len(s) : s[i] = node
  BY <1>1
<1> HIDE DEF s
<1>3. IsLevel(s)
  BY <1>1, <1>2, SequenceIs DEF IsLevel
<1>4. Takes(s) = <<Own(node)>>
  BY DEF s, Takes
<1> QED
  BY <1>3, <1>4, OwnType, SumOfOne DEF s

LEMMA NoneIsLevel == IsLevel(<< >>) /\ Sum(Takes(<< >>)) = None
<1>1. IsLevel(<< >>)
  BY DEF IsLevel, IsSequence
<1>2. Takes(<< >>) = << >>
  BY DEF Takes
<1> QED
  BY <1>1, <1>2, SumOfNone

-----------------------------------------------------------------------------
\* A tree of at most some height.
Tree(node, height) ==
  /\ NodeType(node)
  /\ \A d \in 0 .. MaxDepth : /\ IsLevel(Levels(node, MaxDepth)[d])
                              /\ d > height => Levels(node, MaxDepth)[d] = << >>

TakesByLevel(node) == [d \in 1 .. MaxDepth |-> Sum(Takes(Levels(node, MaxDepth)[d - 1]))]

LEMMA TreeTakes ==
  ASSUME NEW node, NEW height, Tree(node, height)
  PROVE  /\ TakesByLevel(node) \in Seq(Amounts) /\ Len(TakesByLevel(node)) = MaxDepth
         /\ \A d \in 1 .. MaxDepth :
              TakesByLevel(node)[d] = Sum(Takes(Levels(node, MaxDepth)[d - 1]))
         /\ Allocs(node, MaxDepth) = Sum(TakesByLevel(node)) /\ Allocs(node, MaxDepth) \in Amounts
<1>1. \A d \in 1 .. MaxDepth : d - 1 \in 0 .. MaxDepth
  BY MaxDepthAssumption
<1>2. \A d \in 1 .. MaxDepth : Sum(Takes(Levels(node, MaxDepth)[d - 1])) \in Amounts
  BY <1>1, TakesType DEF Tree
<1>3. ASSUME NEW n \in Nat, NEW T, NEW f \in [1 .. n -> T]
      PROVE  f \in Seq(T) /\ Len(f) = n
  OBVIOUS
<1>4. TakesByLevel(node) \in [1 .. MaxDepth -> Amounts]
  BY <1>2 DEF TakesByLevel
<1>5. TakesByLevel(node) \in Seq(Amounts) /\ Len(TakesByLevel(node)) = MaxDepth
  BY <1>3, <1>4, MaxDepthAssumption
<1>6. Allocs(node, MaxDepth) = Sum(TakesByLevel(node))
  BY DEF Allocs, TakesByLevel, Takes
<1>7. \A d \in 1 .. MaxDepth :
        TakesByLevel(node)[d] = Sum(Takes(Levels(node, MaxDepth)[d - 1]))
  BY DEF TakesByLevel
<1> QED
  BY <1>5, <1>6, <1>7, SumType

LEMMA LeafTree ==
  ASSUME NEW node, NodeType(node), node.kids = << >>
  PROVE  Tree(node, 0) /\ Allocs(node, MaxDepth) = Own(node)
<1> DEFINE levels == Levels(node, MaxDepth)
           T == {d \in 0 .. MaxDepth : levels[d] = IF d = 0 THEN <<node>> ELSE << >>}
<1>1. levels[0] = <<node>> /\ \A d \in 1 .. MaxDepth : levels[d] = KidsOf(levels[d - 1])
  BY LevelsAre, MaxDepthAssumption
<1> HIDE DEF levels
<1>2. 0 \in T
  BY <1>1, MaxDepthAssumption
<1>3. \A d \in 1 .. MaxDepth : d - 1 \in T => d \in T
  <2> SUFFICES ASSUME NEW d \in 1 .. MaxDepth, d - 1 \in T
               PROVE  d \in T
    OBVIOUS
  <2>1. d \in 0 .. MaxDepth /\ d # 0
    BY MaxDepthAssumption
  <2>2. levels[d - 1] = <<node>> \/ levels[d - 1] = << >>
    OBVIOUS
  <2>3. levels[d] = << >>
    <3> HIDE DEF T
    <3>1. levels[d] = KidsOf(levels[d - 1])
      BY <1>1
    <3>2. KidsOf(<<node>>) = << >> /\ KidsOf(<< >>) = << >>
      BY KidsOfOne, KidsOfNone
    <3> QED
      BY <2>2, <3>1, <3>2, Zenon
  <2> QED
    BY <2>1, <2>3
<1> HIDE DEF T
<1>4. \A d \in 0 .. MaxDepth : d \in T
  BY <1>2, <1>3, UpTo, MaxDepthAssumption
<1>5. \A d \in 0 .. MaxDepth : levels[d] = IF d = 0 THEN <<node>> ELSE << >>
  BY <1>4 DEF T
<1>6. Tree(node, 0)
  <2>1. \A d \in 0 .. MaxDepth : IsLevel(levels[d]) /\ (d > 0 => levels[d] = << >>)
    BY <1>5, OneIsLevel, NoneIsLevel
  <2> QED
    BY <2>1 DEF Tree, levels
<1> DEFINE s == TakesByLevel(node)
<1>7. /\ s \in Seq(Amounts) /\ Len(s) = MaxDepth
      /\ \A d \in 1 .. MaxDepth : s[d] = Sum(Takes(levels[d - 1]))
      /\ Allocs(node, MaxDepth) = Sum(s)
  BY <1>6, TreeTakes DEF levels
<1> HIDE DEF s
<1>8. s[1] = Own(node)
  <2>1. levels[1 - 1] = <<node>> /\ 1 \in 1 .. MaxDepth
    BY <1>1, MaxDepthAssumption
  <2> QED
    BY <1>7, <2>1, OneIsLevel
<1>9. \A d \in 2 .. Len(s) : s[d] = None
  <2> TAKE d \in 2 .. Len(s)
  <2>1. d \in 1 .. MaxDepth /\ d - 1 \in 0 .. MaxDepth /\ d - 1 # 0
    BY <1>7, MaxDepthAssumption
  <2>2. levels[d - 1] = << >>
    BY <1>5, <2>1
  <2> QED
    BY <1>7, <2>1, <2>2, NoneIsLevel
<1>10. s # << >>
  BY <1>7, EmptySeq, MaxDepthAssumption
<1>11. Sum(s) = s[1]
  BY <1>7, <1>9, <1>10, SumOfFirst
<1> QED
  BY <1>6, <1>7, <1>8, <1>11

\* A node with one child more, as InsertEndChild leaves it.
WithKid(node, kid) == [node EXCEPT !.kids = Append(@, kid)]

LEMMA InsertedKid ==
  ASSUME NEW node, NEW kid, NodeType(node)
  PROVE  /\ NodeType(WithKid(node, kid)) /\ WithKid(node, kid).kids = node.kids \o <<kid>>
         /\ WithKid(node, kid).kind = node.kind /\ WithKid(node, kid).name = node.name
         /\ WithKid(node, kid).attrs = node.attrs
         /\ Own(WithKid(node, kid)) = Own(node)
<1> DEFINE S == ToSet(node.kids) \cup {kid}
<1>1. node.kids \in Seq(S)
  BY IsOfItsMembers, SeqMonotonic DEF NodeType
<1>2. /\ Append(node.kids, kid) \in Seq(S) /\ Append(node.kids, kid) = node.kids \o <<kid>>
  BY <1>1, AppendProperties, AppendIsConcat
<1>3. WithKid(node, kid) = Node(node.kind, node.name, node.attrs, Append(node.kids, kid))
  <2>1. PICK k, l, m, n : /\ node = Node(k, l, m, n)
                          /\ k = node.kind /\ l = node.name /\ m = node.attrs /\ n = node.kids
    BY DEF NodeType
  <2>2. WithKid(node, kid) = Node(k, l, m, Append(n, kid))
    <3>0. PICK o : o = Append(n, kid)
      OBVIOUS
    <3>1. WithKid(node, kid) = [Node(k, l, m, n) EXCEPT !.kids = o]
      BY <2>1, <3>0, Zenon DEF WithKid
    <3>2. [Node(k, l, m, n) EXCEPT !.kids = o] = Node(k, l, m, o)
      BY SMT DEF Node
    <3> QED
      BY <3>0, <3>1, <3>2, Zenon
  <2> QED
    BY <2>1, <2>2, Zenon
<1>4. /\ WithKid(node, kid).kind = node.kind /\ WithKid(node, kid).name = node.name
      /\ WithKid(node, kid).attrs = node.attrs
      /\ WithKid(node, kid).kids = Append(node.kids, kid)
  BY <1>3 DEF Node
<1>5. NodeType(WithKid(node, kid))
  BY <1>2, <1>3, <1>4, SequenceIs DEF NodeType
<1>6. Own(WithKid(node, kid)) = Own(node)
  BY <1>4 DEF Own
<1> QED
  BY <1>2, <1>4, <1>5, <1>6

LEMMA InsertedTree ==
  ASSUME NEW height \in 1 .. MaxDepth - 1, NEW node, NEW kid,
         Tree(node, height), Tree(kid, height - 1)
  PROVE  /\ Tree(WithKid(node, kid), height)
         /\ Allocs(WithKid(node, kid), MaxDepth)
              = Plus(Allocs(node, MaxDepth), Allocs(kid, MaxDepth))
<1> DEFINE more == WithKid(node, kid)
           l == Levels(node, MaxDepth)
           k == Levels(kid, MaxDepth)
           m == Levels(more, MaxDepth)
<1>1. /\ NodeType(more) /\ more.kids = node.kids \o <<kid>> /\ Own(more) = Own(node)
      /\ NodeType(node) /\ NodeType(kid)
  BY InsertedKid DEF Tree
<1>2. /\ l[0] = <<node>> /\ \A d \in 1 .. MaxDepth : l[d] = KidsOf(l[d - 1])
      /\ k[0] = <<kid>> /\ \A d \in 1 .. MaxDepth : k[d] = KidsOf(k[d - 1])
      /\ m[0] = <<more>> /\ \A d \in 1 .. MaxDepth : m[d] = KidsOf(m[d - 1])
  BY LevelsAre, MaxDepthAssumption
<1>3. \A d \in 0 .. MaxDepth : /\ IsLevel(l[d]) /\ (d > height => l[d] = << >>)
                               /\ IsLevel(k[d]) /\ (d > height - 1 => k[d] = << >>)
  BY DEF Tree
<1>0. MaxDepth \in Nat /\ MaxDepth > 1 /\ height \in Nat /\ height > 0 /\ height <= MaxDepth - 1
  BY MaxDepthAssumption
<1> HIDE DEF more, l, k, m
<1> DEFINE T == {d \in 0 .. MaxDepth : d > 0 => m[d] = l[d] \o k[d - 1]}
<1>4. 0 \in T
  BY <1>0
<1>5. \A d \in 1 .. MaxDepth : d - 1 \in T => d \in T
  <2> SUFFICES ASSUME NEW d \in 1 .. MaxDepth, d - 1 \in T
               PROVE  d \in T
    OBVIOUS
  <2>1. d \in 0 .. MaxDepth /\ d - 1 \in 0 .. MaxDepth
    BY <1>0
  <2>2. CASE d = 1
    <3>1. m[1] = KidsOf(m[1 - 1]) /\ l[1] = KidsOf(l[1 - 1]) /\ 1 - 1 = 0
      BY <1>2, <2>2
    <3>2. m[1] = more.kids /\ l[1] = node.kids
      BY <1>1, <1>2, <3>1, KidsOfOne
    <3>3. m[1] = l[1] \o k[0]
      BY <1>1, <1>2, <3>2
    <3> HIDE DEF T
    <3>4. m[d] = l[d] \o k[d - 1]
      BY <2>2, <3>3
    <3> QED
      BY <2>1, <3>4 DEF T
  <2>3. CASE d # 1
    <3>1. d - 1 \in 1 .. MaxDepth /\ d - 1 > 0 /\ (d - 1) - 1 \in 0 .. MaxDepth
      BY <1>0, <2>3
    <3>2. m[d - 1] = l[d - 1] \o k[(d - 1) - 1]
      BY <3>1
    <3> HIDE DEF T
    <3>3. KidsOf(l[d - 1] \o k[(d - 1) - 1]) = KidsOf(l[d - 1]) \o KidsOf(k[(d - 1) - 1])
      BY <1>3, <2>1, <3>1, KidsOfBoth
    <3>4. m[d] = KidsOf(m[d - 1]) /\ l[d] = KidsOf(l[d - 1]) /\ k[d - 1] = KidsOf(k[(d - 1) - 1])
      BY <1>2, <3>1
    <3>5. m[d] = l[d] \o k[d - 1]
      BY <3>2, <3>3, <3>4, Zenon
    <3> QED
      BY <2>1, <3>5 DEF T
  <2> QED
    BY <2>2, <2>3
<1> HIDE DEF T
<1>6. \A d \in 0 .. MaxDepth : d \in T
  BY <1>0, <1>4, <1>5, UpTo
<1>7. \A d \in 1 .. MaxDepth : m[d] = l[d] \o k[d - 1] /\ d \in 0 .. MaxDepth /\ d - 1 \in 0 .. MaxDepth
  <2> TAKE d \in 1 .. MaxDepth
  <2>1. d \in 0 .. MaxDepth /\ d - 1 \in 0 .. MaxDepth /\ d > 0
    BY <1>0
  <2> QED
    BY <1>6, <2>1 DEF T
<1>8. \A d \in 0 .. MaxDepth : IsLevel(m[d]) /\ (d > height => m[d] = << >>)
  <2> TAKE d \in 0 .. MaxDepth
  <2>1. CASE d = 0
    <3>1. IsLevel(<<more>>) /\ ~ (0 > height)
      BY <1>0, <1>1, OneIsLevel
    <3> QED
      BY <1>2, <2>1, <3>1
  <2>2. CASE d # 0
    <3>1. d \in 1 .. MaxDepth
      BY <1>0, <2>2
    <3>2. /\ m[d] = l[d] \o k[d - 1] /\ IsLevel(l[d]) /\ IsLevel(k[d - 1])
      BY <1>3, <1>7, <3>1
    <3>3. IsLevel(m[d])
      BY <3>2, LevelOfBoth
    <3>4. ASSUME d > height
          PROVE  m[d] = << >>
      <4>1. d - 1 > height - 1 /\ d - 1 \in 0 .. MaxDepth
        BY <1>0, <3>1, <3>4
      <4>2. l[d] = << >> /\ k[d - 1] = << >>
        BY <1>3, <3>4, <4>1
      <4> QED
        BY <3>2, <4>2
    <3> QED
      BY <3>3, <3>4
  <2> QED
    BY <2>1, <2>2
<1>9. Tree(more, height)
  BY <1>1, <1>8 DEF Tree, m
<1> DEFINE s == TakesByLevel(node)
           u == TakesByLevel(more)
           v == TakesByLevel(kid)
           t == [d \in 1 .. MaxDepth |-> IF d = 1 THEN None ELSE v[d - 1]]
<1>10. /\ s \in Seq(Amounts) /\ Len(s) = MaxDepth /\ Allocs(node, MaxDepth) = Sum(s)
       /\ \A d \in 1 .. MaxDepth : s[d] = Sum(Takes(l[d - 1]))
       /\ u \in Seq(Amounts) /\ Len(u) = MaxDepth /\ Allocs(more, MaxDepth) = Sum(u)
       /\ \A d \in 1 .. MaxDepth : u[d] = Sum(Takes(m[d - 1]))
       /\ v \in Seq(Amounts) /\ Len(v) = MaxDepth /\ Allocs(kid, MaxDepth) = Sum(v)
       /\ \A d \in 1 .. MaxDepth : v[d] = Sum(Takes(k[d - 1]))
  BY <1>9, TreeTakes DEF l, m, k
<1> HIDE DEF s, u, v
<1>11. t \in Seq(Amounts) /\ Len(t) = MaxDepth /\ t[1] = None
       /\ \A d \in 2 .. MaxDepth : t[d] = v[d - 1]
  <2>1. ASSUME NEW n \in Nat, NEW X, NEW f \in [1 .. n -> X]
        PROVE  f \in Seq(X) /\ Len(f) = n
    OBVIOUS
  <2>2. \A d \in 1 .. MaxDepth : d # 1 => d - 1 \in 1 .. MaxDepth
    BY <1>0
  <2>3. \A d \in 1 .. MaxDepth : v[d] \in Amounts
    BY <1>10
  <2>4. None \in Amounts
    BY DEF None, Amounts
  <2>5. t \in [1 .. MaxDepth -> Amounts]
    BY <2>2, <2>3, <2>4
  <2>6. t[1] = None /\ \A d \in 2 .. MaxDepth : t[d] = v[d - 1]
    BY <1>0
  <2> HIDE DEF t
  <2> QED
    BY <1>0, <2>1, <2>5, <2>6
<1> HIDE DEF t
<1>12. \A d \in 1 .. Len(u) : u[d] = Plus(s[d], t[d])
  <2> TAKE d \in 1 .. Len(u)
  <2>0. d \in 1 .. MaxDepth /\ s[d] = Sum(Takes(l[d - 1])) /\ u[d] = Sum(Takes(m[d - 1]))
    BY <1>10
  <2>1. CASE d = 1
    <3>1. s[1] = Sum(Takes(l[1 - 1])) /\ u[1] = Sum(Takes(m[1 - 1])) /\ 1 - 1 = 0
      BY <2>0, <2>1
    <3>2. s[1] = Own(node) /\ u[1] = Own(node) /\ Own(node) \in Amounts
      BY <1>1, <1>2, <3>1, OneIsLevel, OwnType
    <3>3. Plus(Own(node), None) = Own(node)
      BY <3>2, AmountFacts
    <3> QED
      BY <1>11, <2>1, <3>2, <3>3
  <2>2. CASE d # 1
    <3>1. d \in 2 .. MaxDepth /\ d - 1 \in 1 .. MaxDepth /\ (d - 1) - 1 \in 0 .. MaxDepth
      BY <1>0, <2>0, <2>2
    <3>2. t[d] = Sum(Takes(k[(d - 1) - 1])) /\ m[d - 1] = l[d - 1] \o k[(d - 1) - 1]
      BY <1>7, <1>10, <1>11, <3>1
    <3>3. IsLevel(l[d - 1]) /\ IsLevel(k[(d - 1) - 1])
      BY <1>3, <1>7, <3>1
    <3>4. Sum(Takes(l[d - 1] \o k[(d - 1) - 1]))
            = Plus(Sum(Takes(l[d - 1])), Sum(Takes(k[(d - 1) - 1])))
      BY <3>3, TakesOfBoth
    <3> QED
      BY <2>0, <3>2, <3>4, Zenon
  <2> QED
    BY <2>1, <2>2
<1>13. Sum(u) = Plus(Sum(s), Sum(t))
  <2>1. Len(s) = Len(u) /\ Len(t) = Len(u)
    BY <1>10, <1>11
  <2>2. s \in Seq(Amounts) /\ t \in Seq(Amounts) /\ u \in Seq(Amounts)
    BY <1>10, <1>11
  <2> QED
    BY <1>12, <2>1, <2>2, SumOfPairs
<1>14. Sum(t) = Sum(v)
  <2>1. v[MaxDepth] = None
    <3>1. MaxDepth \in 1 .. MaxDepth /\ MaxDepth - 1 \in 0 .. MaxDepth /\ MaxDepth - 1 > height - 1
      BY <1>0
    <3>2. k[MaxDepth - 1] = << >>
      BY <1>3, <3>1
    <3> QED
      BY <1>10, <3>1, <3>2, NoneIsLevel
  <2>2. v # << >>
    BY <1>0, <1>10, EmptySeq
  <2> QED
    BY <1>10, <1>11, <2>1, <2>2, SumShifted
<1>15. Allocs(more, MaxDepth) = Plus(Allocs(node, MaxDepth), Allocs(kid, MaxDepth))
  BY <1>10, <1>13, <1>14, Zenon
<1> QED
  BY <1>9, <1>15 DEF more

-----------------------------------------------------------------------------
(* The stack of open elements, and what is held by it. *)

LEMMA FrontAndLast ==
  ASSUME NEW S, NEW s \in Seq(S), s # << >>
  PROVE  /\ Front(s) \in Seq(S) /\ Last(s) \in S /\ Len(s) \in Nat \ {0}
         /\ Len(Front(s)) = Len(s) - 1 /\ \A i \in 1 .. Len(s) - 1 : Front(s)[i] = s[i]
         /\ Last(s) = s[Len(s)]
         /\ s = Append(Front(s), Last(s))
<1> DEFINE n == Len(s)
<1>1. n \in Nat \ {0} /\ n - 1 \in Nat
  OBVIOUS
<1>2. Front(s) = [i \in 1 .. n - 1 |-> s[i]]
  BY <1>1 DEF Front
<1>3. /\ Front(s) \in Seq(S) /\ Len(Front(s)) = n - 1 /\ \A i \in 1 .. n - 1 : Front(s)[i] = s[i]
  BY <1>1, <1>2
<1>4. Last(s) = s[n] /\ s[n] \in S
  BY <1>1 DEF Last
<1>5. s = Append(Front(s), Last(s))
  <2> DEFINE t == Append(Front(s), s[n])
  <2>1. /\ t \in Seq(S) /\ Len(t) = (n - 1) + 1 /\ t[(n - 1) + 1] = s[n]
        /\ \A i \in 1 .. n - 1 : t[i] = Front(s)[i]
    BY <1>3, <1>4, AppendProperties
  <2>2. (n - 1) + 1 = n /\ \A i \in 1 .. n : i = n \/ i \in 1 .. n - 1
    BY <1>1
  <2> HIDE DEF t
  <2>3. \A i \in 1 .. n : t[i] = s[i]
    BY <1>3, <2>1, <2>2
  <2>4. s = t
    BY <2>1, <2>2, <2>3, SeqEqual
  <2> QED
    BY <1>4, <2>4 DEF t
<1> QED
  BY <1>1, <1>3, <1>4, <1>5

\* What is held by the nodes of a stack.
Held(s) == Sum([i \in DOMAIN s |-> Allocs(s[i], MaxDepth)])

LEMMA HeldOfMore ==
  ASSUME NEW S, NEW s \in Seq(S), NEW node \in S,
         \A i \in 1 .. Len(s) : Allocs(s[i], MaxDepth) \in Amounts,
         Allocs(node, MaxDepth) \in Amounts
  PROVE  /\ Held(s) \in Amounts
         /\ Held(Append(s, node)) = Plus(Held(s), Allocs(node, MaxDepth))
<1> DEFINE n == Len(s)
           more == Append(s, node)
           of == [i \in DOMAIN s |-> Allocs(s[i], MaxDepth)]
           ofMore == [i \in DOMAIN more |-> Allocs(more[i], MaxDepth)]
           A == Allocs(node, MaxDepth)
<1>1. n \in Nat /\ DOMAIN s = 1 .. n
  OBVIOUS
<1>2. /\ DOMAIN more = 1 .. n + 1 /\ more[n + 1] = node
      /\ \A i \in 1 .. n : more[i] = s[i]
  BY AppendProperties
<1>3. ASSUME NEW k \in Nat, NEW T, NEW f \in [1 .. k -> T]
      PROVE  f \in Seq(T) /\ Len(f) = k
  OBVIOUS
<1>4. of \in Seq(Amounts) /\ Len(of) = n /\ \A i \in 1 .. n : of[i] = Allocs(s[i], MaxDepth)
  BY <1>1, <1>3
<1>5. \A i \in 1 .. n + 1 : i = n + 1 \/ i \in 1 .. n
  BY <1>1
<1> HIDE DEF n, more
<1>6. \A i \in 1 .. n + 1 : ofMore[i] = (IF i = n + 1 THEN A ELSE of[i])
  BY <1>1, <1>2, <1>5
<1>7. ofMore \in [1 .. n + 1 -> Amounts]
  BY <1>1, <1>2, <1>5 DEF n
<1> HIDE DEF ofMore, of, A
<1>8. ofMore \in Seq(Amounts) /\ Len(ofMore) = n + 1 /\ A \in Amounts
  BY <1>1, <1>3, <1>7 DEF A
<1>9. /\ Append(of, A) \in Seq(Amounts) /\ Len(Append(of, A)) = n + 1
      /\ \A i \in 1 .. n + 1 : Append(of, A)[i] = (IF i = n + 1 THEN A ELSE of[i])
  <2> DEFINE W == Amounts
  <2>1. of \in Seq(W) /\ A \in W
    BY <1>4, <1>8
  <2> HIDE DEF W
  <2>2. /\ Append(of, A) \in Seq(W) /\ Len(Append(of, A)) = n + 1
        /\ Append(of, A)[n + 1] = A
        /\ \A i \in 1 .. n : Append(of, A)[i] = of[i]
    BY <1>4, <2>1, AppendProperties
  <2> QED
    BY <1>5, <2>2 DEF W
<1>10. ofMore = Append(of, A)
  <2> DEFINE W == Amounts
             x == Append(of, A)
  <2>1. ofMore \in Seq(W) /\ x \in Seq(W) /\ Len(ofMore) = Len(x)
    BY <1>8, <1>9
  <2>2. \A i \in 1 .. Len(ofMore) : ofMore[i] = x[i]
    BY <1>6, <1>8, <1>9
  <2> HIDE DEF W, x
  <2>3. ofMore = x
    BY <2>1, <2>2, SeqEqual
  <2> QED
    BY <2>3 DEF x
<1>11. Append(of, A) = of \o <<A>> /\ <<A>> \in Seq(Amounts)
  <2> DEFINE W == Amounts
  <2>1. of \in Seq(W) /\ A \in W
    BY <1>4, <1>8
  <2> HIDE DEF W
  <2>2. Append(of, A) = of \o <<A>> /\ <<A>> \in Seq(W)
    BY <2>1, AppendIsConcat
  <2> QED
    BY <2>2 DEF W
<1>12. Sum(ofMore) = Plus(Sum(of), A)
  <2>1. Sum(of \o <<A>>) = Plus(Sum(of), Sum(<<A>>))
    BY <1>4, <1>11, SumOfBoth
  <2>2. Sum(<<A>>) = A
    BY <1>8, SumOfOne
  <2> QED
    BY <1>10, <1>11, <2>1, <2>2, Zenon
<1>13. Sum(of) \in Amounts
  BY <1>4, SumType
<1>14. Held(s) = Sum(of) /\ Held(more) = Sum(ofMore)
  BY Zenon DEF Held, of, ofMore
<1> QED
  BY <1>12, <1>13, <1>14, Zenon DEF more, A

\* The document, and the open elements from the outermost on: the deeper one
\* is, the less there may be below it.
Stack(s) ==
  /\ IsSequence(s) /\ Len(s) \in 1 .. MaxDepth - 1
  /\ \A i \in 1 .. Len(s) : Tree(s[i], MaxDepth - i)
  /\ s[1].kind = "document" /\ \A i \in 2 .. Len(s) : s[i].kind = "element"

LEMMA TreeGrows ==
  ASSUME NEW node, NEW height \in Int, NEW more \in Int, height <= more, Tree(node, height)
  PROVE  Tree(node, more)
<1>1. \A d \in 0 .. MaxDepth : d > more => d > height
  BY MaxDepthAssumption
<1> QED
  BY <1>1 DEF Tree

LEMMA StackTypes ==
  ASSUME NEW s, Stack(s)
  PROVE  /\ s \in Seq(ToSet(s)) /\ s # << >> /\ Len(s) \in Nat \ {0}
         /\ DOMAIN s = 1 .. Len(s)
         /\ \A i \in 1 .. Len(s) : Allocs(s[i], MaxDepth) \in Amounts
<1>1. s \in Seq(ToSet(s)) /\ DOMAIN s = 1 .. Len(s)
  BY IsOfItsMembers DEF Stack
<1>2. Len(s) \in Nat \ {0}
  BY MaxDepthAssumption DEF Stack
<1>3. s # << >>
  BY <1>1, <1>2, EmptySeq
<1>4. \A i \in 1 .. Len(s) : Allocs(s[i], MaxDepth) \in Amounts
  BY TreeTakes DEF Stack
<1> QED
  BY <1>1, <1>2, <1>3, <1>4

LEMMA Pushed ==
  ASSUME NEW s, Stack(s), Len(s) + 1 # MaxDepth,
         NEW node, NodeType(node), node.kids = << >>, node.kind = "element"
  PROVE  /\ Stack(Append(s, node)) /\ Len(Append(s, node)) = Len(s) + 1
         /\ Held(Append(s, node)) = Plus(Held(s), Own(node))
<1> DEFINE S == ToSet(s) \cup {node}
           n == Len(s)
           more == Append(s, node)
<1>1. s \in Seq(S) /\ node \in S /\ n \in Nat \ {0}
  BY StackTypes, SeqMonotonic
<1>2. n + 1 \in 1 .. MaxDepth - 1 /\ MaxDepth \in Nat
  BY <1>1, MaxDepthAssumption DEF Stack
<1> HIDE DEF S
<1>3. /\ more \in Seq(S) /\ Len(more) = n + 1 /\ more[n + 1] = node
      /\ \A i \in 1 .. n : more[i] = s[i]
  BY <1>1, AppendProperties
<1>4. Tree(node, 0) /\ Allocs(node, MaxDepth) = Own(node) /\ Own(node) \in Amounts
  BY LeafTree, OwnType
<1>5. Held(more) = Plus(Held(s), Own(node))
  BY <1>1, <1>4, HeldOfMore, StackTypes
<1>6. \A i \in 1 .. n + 1 : i = n + 1 \/ i \in 1 .. n
  BY <1>1
<1> HIDE DEF more
<1>7. \A i \in 1 .. n + 1 : Tree(more[i], MaxDepth - i)
  <2>1. Tree(node, MaxDepth - (n + 1))
    BY <1>1, <1>2, <1>4, TreeGrows
  <2>2. \A i \in 1 .. n : Tree(s[i], MaxDepth - i)
    BY DEF Stack
  <2> HIDE DEF n
  <2> QED
    BY <1>3, <1>6, <2>1, <2>2
<1>8. more[1].kind = "document" /\ \A i \in 2 .. n + 1 : more[i].kind = "element"
  <2>2. s[1].kind = "document" /\ \A i \in 2 .. n : s[i].kind = "element"
    BY DEF Stack
  <2> HIDE DEF n
  <2>1. 1 \in 1 .. n /\ \A i \in 2 .. n + 1 : i = n + 1 \/ (i \in 2 .. n /\ i \in 1 .. n)
    BY <1>1
  <2> QED
    BY <1>3, <2>1, <2>2
<1>9. Stack(more)
  BY <1>2, <1>3, <1>7, <1>8, SequenceIs DEF Stack
<1> QED
  BY <1>3, <1>5, <1>9 DEF more

LEMMA Popped ==
  ASSUME NEW s, Stack(s), Len(s) > 1
  PROVE  /\ Stack(Front(s)) /\ Len(Front(s)) = Len(s) - 1
         /\ s = Append(Front(s), Last(s)) /\ Last(s) = s[Len(s)]
         /\ \A i \in 1 .. Len(s) - 1 : Front(s)[i] = s[i]
         /\ Tree(Last(s), MaxDepth - Len(s))
         /\ Held(s) = Plus(Held(Front(s)), Allocs(Last(s), MaxDepth))
         /\ Minus(Held(s), Allocs(Last(s), MaxDepth)) = Held(Front(s))
<1> DEFINE S == ToSet(s)
           n == Len(s)
           less == Front(s)
           node == Last(s)
<1>1. s \in Seq(S) /\ s # << >> /\ n \in Nat \ {0} /\ n \in 1 .. MaxDepth - 1 /\ MaxDepth \in Nat
  BY StackTypes, MaxDepthAssumption DEF Stack
<1> HIDE DEF S
<1>2. /\ less \in Seq(S) /\ node \in S /\ Len(less) = n - 1
      /\ \A i \in 1 .. n - 1 : less[i] = s[i]
      /\ node = s[n] /\ s = Append(less, node)
  BY <1>1, FrontAndLast
<1>3. n - 1 \in 1 .. MaxDepth - 1 /\ n \in 1 .. n /\ \A i \in 1 .. n - 1 : i \in 1 .. n
  BY <1>1
<1>4. /\ \A i \in 1 .. n : Tree(s[i], MaxDepth - i) /\ Allocs(s[i], MaxDepth) \in Amounts
      /\ s[1].kind = "document" /\ \A i \in 2 .. n : s[i].kind = "element"
  BY StackTypes DEF Stack
<1> HIDE DEF less, node, n
<1>5. Stack(less)
  <2>1. \A i \in 1 .. n - 1 : Tree(less[i], MaxDepth - i)
    BY <1>2, <1>3, <1>4
  <2>2. 1 \in 1 .. n - 1 /\ \A i \in 2 .. n - 1 : i \in 1 .. n - 1 /\ i \in 2 .. n
    BY <1>3 DEF n
  <2>3. less[1].kind = "document" /\ \A i \in 2 .. n - 1 : less[i].kind = "element"
    BY <1>2, <1>4, <2>2
  <2> QED
    BY <1>2, <1>3, <2>1, <2>3, SequenceIs DEF Stack
<1>6. Tree(node, MaxDepth - n) /\ Allocs(node, MaxDepth) \in Amounts
  BY <1>2, <1>3, <1>4
<1>7. \A i \in 1 .. Len(less) : Allocs(less[i], MaxDepth) \in Amounts
  BY <1>2, <1>3, <1>4
<1>8. Held(s) = Plus(Held(less), Allocs(node, MaxDepth)) /\ Held(less) \in Amounts
  <2>1. Held(Append(less, node)) = Plus(Held(less), Allocs(node, MaxDepth)) /\ Held(less) \in Amounts
    BY <1>2, <1>6, <1>7, HeldOfMore
  <2>2. s = Append(less, node)
    BY <1>2
  <2> QED
    BY <2>1, <2>2, Zenon
<1>9. Minus(Held(s), Allocs(node, MaxDepth)) = Held(less)
  <2>1. Minus(Plus(Held(less), Allocs(node, MaxDepth)), Allocs(node, MaxDepth)) = Held(less)
    BY <1>6, <1>8, AmountFacts
  <2> QED
    BY <1>8, <2>1, Zenon
<1> QED
  BY <1>2, <1>5, <1>6, <1>8, <1>9 DEF less, node, n

\* The document without children.
LEMMA EmptyStack == Stack(<<Document>>) /\ Held(<<Document>>) = None
<1> DEFINE s == <<Document>>
<1>1. s \in Seq({Document}) /\ Len(s) = 1 /\ s[1] = Document
  OBVIOUS
<1>2. NodeType(Document) /\ Document.kids = << >> /\ Document.kind = "document"
  BY DEF NodeType, Document, Node, IsSequence
<1>3. Tree(Document, 0) /\ Allocs(Document, MaxDepth) = Own(Document)
  BY <1>2, LeafTree
<1>4. Own(Document) = None
  BY DEF Own, None, Document, Node, Pool, Pools
<1>5. Tree(Document, MaxDepth - 1) /\ 1 \in 1 .. MaxDepth - 1
  BY <1>3, TreeGrows, MaxDepthAssumption
<1> HIDE DEF s
<1>6. Stack(s)
  <2>1. \A i \in 1 .. 1 : i = 1
    OBVIOUS
  <2>2. \A i \in 2 .. 1 : FALSE
    OBVIOUS
  <2> QED
    BY <1>1, <1>2, <1>5, <2>1, <2>2, SequenceIs DEF Stack
<1>7. Held(s) = None
  <2>1. [i \in DOMAIN s |-> Allocs(s[i], MaxDepth)] = <<None>>
    BY <1>3, <1>4 DEF s
  <2>2. None \in Amounts
    BY DEF None, Amounts
  <2> QED
    BY <2>1, <2>2, SumOfOne DEF Held
<1> QED
  BY <1>6, <1>7 DEF s

LEMMA Inserted ==
  ASSUME NEW s, Stack(s), NEW kid, Tree(kid, (MaxDepth - Len(s)) - 1)
  PROVE  LET more == InsertEndChild(s, kid)
             n == Len(s)
         IN  /\ Stack(more) /\ Len(more) = n
             /\ \A i \in 1 .. n - 1 : more[i] = s[i]
             /\ more[n] = WithKid(s[n], kid)
             /\ Held(more) = Plus(Held(s), Allocs(kid, MaxDepth))
<1> DEFINE n == Len(s)
           last == WithKid(s[n], kid)
           S == ToSet(s) \cup {last}
           more == InsertEndChild(s, kid)
           rest == Front(s)
<1>1. /\ s \in Seq(S) /\ s # << >> /\ DOMAIN s = 1 .. n
      /\ n \in Nat \ {0} /\ n \in 1 .. MaxDepth - 1 /\ MaxDepth \in Nat
  BY StackTypes, SeqMonotonic, MaxDepthAssumption DEF Stack
<1>2. more = [i \in 1 .. n |-> IF i = n THEN last ELSE s[i]]
  BY <1>1 DEF InsertEndChild, WithKid
<1>3. /\ \A i \in 1 .. n : Tree(s[i], MaxDepth - i) /\ Allocs(s[i], MaxDepth) \in Amounts
      /\ s[1].kind = "document" /\ \A i \in 2 .. n : s[i].kind = "element"
  BY StackTypes DEF Stack
<1>4. n \in 1 .. n /\ \A i \in 1 .. n - 1 : i \in 1 .. n /\ i # n
  <2> HIDE DEF n, S, more
  <2> QED
    BY <1>1
<1>5. /\ Tree(last, MaxDepth - n) /\ last.kind = s[n].kind
      /\ Allocs(last, MaxDepth) = Plus(Allocs(s[n], MaxDepth), Allocs(kid, MaxDepth))
  <2> DEFINE h == MaxDepth - n
  <2>1. h \in 1 .. MaxDepth - 1 /\ Tree(s[n], h) /\ Tree(kid, h - 1)
    <3>1. Tree(kid, h - 1)
      OBVIOUS
    <3> HIDE DEF n, S, more, last
    <3>2. h \in 1 .. MaxDepth - 1
      BY <1>1
    <3>3. Tree(s[n], h)
      BY <1>3, <1>4
    <3> QED
      BY <3>1, <3>2, <3>3
  <2> HIDE DEF h
  <2>2. /\ Tree(last, h)
        /\ Allocs(last, MaxDepth) = Plus(Allocs(s[n], MaxDepth), Allocs(kid, MaxDepth))
    BY <2>1, InsertedTree
  <2>3. last.kind = s[n].kind
    BY <2>1, InsertedKid DEF Tree
  <2> QED
    BY <2>2, <2>3 DEF h
<1>6. Allocs(kid, MaxDepth) \in Amounts /\ Allocs(last, MaxDepth) \in Amounts
  BY <1>5, TreeTakes
<1>7. last \in S
  OBVIOUS
<1> HIDE DEF S, last, more, n
<1>8. /\ more \in Seq(S) /\ Len(more) = n /\ more[n] = last
      /\ \A i \in 1 .. n - 1 : more[i] = s[i]
  <2>1. \A i \in 1 .. n : s[i] \in S
    BY <1>1, ElementOfSeq DEF n
  <2>2. ASSUME NEW T, NEW f \in [1 .. n -> T]
        PROVE  f \in Seq(T) /\ Len(f) = n
    BY <1>1
  <2>3. more \in [1 .. n -> S]
    BY <1>2, <1>7, <2>1
  <2>4. more[n] = last /\ \A i \in 1 .. n - 1 : more[i] = s[i]
    BY <1>2, <1>4
  <2> QED
    BY <2>2, <2>3, <2>4
<1>9. Stack(more)
  <2>1. \A i \in 1 .. n : i = n \/ i \in 1 .. n - 1
    BY <1>1
  <2>2. \A i \in 1 .. n : Tree(more[i], MaxDepth - i) /\ more[i].kind = s[i].kind
    BY <1>3, <1>4, <1>5, <1>8, <2>1
  <2>3. 1 \in 1 .. n /\ \A i \in 2 .. n : i \in 1 .. n
    BY <1>1
  <2>4. more[1].kind = "document" /\ \A i \in 2 .. n : more[i].kind = "element"
    BY <1>3, <2>2, <2>3
  <2> QED
    BY <1>1, <1>8, <2>2, <2>4, SequenceIs DEF Stack
<1>10. /\ rest \in Seq(S) /\ Len(rest) = n - 1 /\ \A i \in 1 .. n - 1 : rest[i] = s[i]
       /\ s = Append(rest, s[n]) /\ s[n] \in S
  <2>1. /\ rest \in Seq(S) /\ Len(rest) = n - 1 /\ \A i \in 1 .. n - 1 : rest[i] = s[i]
        /\ s = Append(rest, Last(s)) /\ Last(s) = s[n] /\ Last(s) \in S
    BY <1>1, FrontAndLast DEF n
  <2> QED
    BY <2>1, Zenon
<1> HIDE DEF rest
<1>11. more = Append(rest, last)
  <2> DEFINE t == Append(rest, last)
  <2>1. /\ t \in Seq(S) /\ Len(t) = n /\ t[n] = last /\ \A i \in 1 .. n - 1 : t[i] = rest[i]
    <3>1. /\ t \in Seq(S) /\ Len(t) = (n - 1) + 1 /\ t[(n - 1) + 1] = last
          /\ \A i \in 1 .. n - 1 : t[i] = rest[i]
      BY <1>7, <1>10, AppendProperties
    <3>2. (n - 1) + 1 = n
      BY <1>1
    <3> QED
      BY <3>1, <3>2
  <2> HIDE DEF t
  <2>2. \A i \in 1 .. n : i = n \/ i \in 1 .. n - 1
    BY <1>1
  <2>3. \A i \in 1 .. n : more[i] = t[i]
    BY <1>8, <1>10, <2>1, <2>2
  <2>4. more = t
    BY <1>8, <2>1, <2>3, SeqEqual
  <2> QED
    BY <2>4 DEF t
<1>12. Held(more) = Plus(Held(s), Allocs(kid, MaxDepth))
  <2> DEFINE A == Allocs(s[n], MaxDepth)
             B == Allocs(kid, MaxDepth)
  <2>0. \A i \in 1 .. Len(rest) : Allocs(rest[i], MaxDepth) \in Amounts
    BY <1>3, <1>4, <1>10
  <2>1. /\ Held(rest) \in Amounts /\ A \in Amounts /\ B \in Amounts
        /\ Held(Append(rest, s[n])) = Plus(Held(rest), A)
    BY <1>3, <1>4, <1>6, <1>10, <2>0, HeldOfMore
  <2>2. Held(Append(rest, last)) = Plus(Held(rest), Allocs(last, MaxDepth))
    BY <1>6, <1>7, <1>10, <2>0, HeldOfMore
  <2> HIDE DEF A, B
  <2>3. Plus(Plus(Held(rest), A), B) = Plus(Held(rest), Plus(A, B))
    BY <2>1, AmountFacts
  <2>4. Held(s) = Plus(Held(rest), A)
    BY <1>10, <2>1, Zenon
  <2>5. Held(more) = Plus(Held(rest), Plus(A, B))
    BY <1>5, <1>11, <2>2, Zenon DEF A, B
  <2>6. Held(more) = Plus(Held(s), B)
    BY <2>3, <2>4, <2>5, Zenon
  <2> QED
    BY <2>6 DEF B
<1> QED
  BY <1>8, <1>9, <1>12 DEF last, more, n

-----------------------------------------------------------------------------
(* Nodes with all that is below them. *)

Whole(nodes) == \A node \in nodes : NodeType(node) /\ ToSet(node.kids) \subseteq nodes

LEMMA KidsHolds ==
  ASSUME NEW nodes, IsLevel(nodes), NEW i \in 1 .. Len(nodes)
  PROVE  ToSet(nodes[i].kids) \subseteq ToSet(KidsOf(nodes))
<1> DEFINE pieces == KidLists(nodes)
           S == Kids(nodes)
           flat == FlattenSeq(pieces)
<1>1. /\ pieces \in Seq(Seq(S)) /\ Len(pieces) = Len(nodes)
      /\ \A k \in 1 .. Len(nodes) : pieces[k] = nodes[k].kids
  BY KidListsType
<1> HIDE DEF pieces, S
<1>2. PICK offset : Laid(flat, pieces, offset)
  BY <1>1, FlattenLaid
<1>3. Len(pieces) \in Nat /\ pieces[i] \in Seq(S) /\ i \in 1 .. Len(pieces) /\ i - 1 \in 0 .. Len(pieces)
      /\ i \in 0 .. Len(pieces)
  BY <1>1
<1>4. flat \in Seq(S)
  BY <1>1, FlattenKeeps
<1> HIDE DEF flat
<1> SUFFICES ASSUME NEW kid \in ToSet(nodes[i].kids)
             PROVE  kid \in ToSet(KidsOf(nodes))
  OBVIOUS
<1>5. PICK j \in 1 .. Len(pieces[i]) : kid = pieces[i][j]
  BY <1>1, <1>3 DEF ToSet
<1> DEFINE place == offset[i - 1] + j
<1>6. flat[place] = kid
  BY <1>2, <1>3, <1>5 DEF Laid
<1>7. place \in 1 .. Len(flat)
  <2>1. /\ offset[i - 1] \in Nat /\ offset[i] <= Len(flat)
        /\ offset[i] = offset[i - 1] + Len(pieces[i])
    BY <1>2, <1>3 DEF Laid
  <2>2. Len(pieces[i]) \in Nat /\ Len(flat) \in Nat
    BY <1>3, <1>4
  <2> QED
    BY <2>1, <2>2
<1> HIDE DEF place
<1>8. kid \in ToSet(flat)
  BY <1>4, <1>6, <1>7 DEF ToSet
<1> QED
  BY <1>8 DEF flat, pieces, KidsOf, KidLists

LEMMA TreeIsWhole ==
  ASSUME NEW node, NEW height \in 0 .. MaxDepth - 1, Tree(node, height)
  PROVE  \E nodes : Whole(nodes) /\ node \in nodes
<1> DEFINE levels == Levels(node, MaxDepth)
           W == UNION {ToSet(levels[d]) : d \in 0 .. MaxDepth}
<1>1. levels[0] = <<node>> /\ \A d \in 1 .. MaxDepth : levels[d] = KidsOf(levels[d - 1])
  BY LevelsAre, MaxDepthAssumption
<1>2. \A d \in 0 .. MaxDepth : IsLevel(levels[d]) /\ (d > height => levels[d] = << >>)
  BY DEF Tree
<1> HIDE DEF levels
<1>3. node \in W
  <2>1. 0 \in 0 .. MaxDepth /\ node \in ToSet(<<node>>)
    BY MaxDepthAssumption DEF ToSet
  <2> QED
    BY <1>1, <2>1
<1>4. Whole(W)
  <2> SUFFICES ASSUME NEW m \in W
               PROVE  NodeType(m) /\ ToSet(m.kids) \subseteq W
    BY DEF Whole
  <2>1. PICK d \in 0 .. MaxDepth : m \in ToSet(levels[d])
    OBVIOUS
  <2>2. PICK i \in 1 .. Len(levels[d]) : m = levels[d][i]
    BY <1>2, <2>1, LevelType DEF ToSet
  <2>3. NodeType(m)
    BY <1>2, <2>2, LevelType
  <2>4. levels[d] # << >>
    BY <2>1 DEF ToSet
  <2>5. d + 1 \in 1 .. MaxDepth /\ (d + 1) - 1 = d /\ d + 1 \in 0 .. MaxDepth
    <3>1. ~ (d > height)
      BY <1>2, <2>4
    <3> QED
      BY <3>1, MaxDepthAssumption
  <2>6. levels[d + 1] = KidsOf(levels[d])
    BY <1>1, <2>5
  <2>7. ToSet(m.kids) \subseteq ToSet(levels[d + 1])
    BY <1>2, <2>2, <2>6, KidsHolds
  <2>8. ToSet(levels[d + 1]) \subseteq W
    BY <2>5
  <2> HIDE DEF W
  <2> QED
    BY <2>3, <2>7, <2>8
<1> HIDE DEF W
<1> QED
  BY <1>3, <1>4

LEMMA ChildrenType ==
  ASSUME NEW W, Whole(W), NEW e \in W, NEW name
  PROVE  /\ ChildElements(e, name) \in Seq(W)
         /\ DOMAIN ChildElements(e, name) = 1 .. Len(ChildElements(e, name))
         /\ Len(ChildElements(e, name)) \in Nat
         /\ \A i \in DOMAIN ChildElements(e, name) : ChildElements(e, name)[i] \in W
         /\ HasChild(e, name) => FirstChildElement(e, name) \in W
<1> DEFINE kids == e.kids
           S == Seq(W)
           pieces == [i \in DOMAIN kids |-> IF IsElement(kids[i], name) THEN <<kids[i]>> ELSE <<>>]
<1>1. kids \in Seq(ToSet(kids)) /\ ToSet(kids) \subseteq W
  BY IsOfItsMembers DEF Whole, NodeType
<1>2. DOMAIN kids = 1 .. Len(kids) /\ Len(kids) \in Nat /\ \A i \in 1 .. Len(kids) : kids[i] \in W
  BY <1>1 DEF ToSet
<1> HIDE DEF kids
<1>3. \A i \in 1 .. Len(kids) : <<kids[i]>> \in S /\ <<>> \in S
  BY <1>2
<1> HIDE DEF S
<1>4. pieces \in [1 .. Len(kids) -> S]
  BY <1>2, <1>3
<1>5. ASSUME NEW n \in Nat, NEW T, NEW f \in [1 .. n -> T]
      PROVE  f \in Seq(T)
  OBVIOUS
<1> HIDE DEF pieces
<1>6. pieces \in Seq(Seq(W))
  BY <1>2, <1>4, <1>5 DEF S
<1> DEFINE found == ChildElements(e, name)
<1>7. found \in Seq(W)
  BY <1>6, FlattenKeeps DEF pieces, kids, ChildElements
<1>8. HasChild(e, name) <=> found # << >>
  BY DEF HasChild
<1>9. FirstChildElement(e, name) = found[1]
  BY DEF FirstChildElement
<1> HIDE DEF found
<1>10. found # << >> => found[1] \in W
  BY <1>7
<1> QED
  BY <1>7, <1>8, <1>9, <1>10 DEF found

-----------------------------------------------------------------------------
(* What the handlers return, and what an element they accept has. *)

LEMMA FirstFailure ==
  ASSUME NEW S, NEW nodes \in Seq(S), NEW failed \in SUBSET DOMAIN nodes, failed # {}
  PROVE  Min(failed) \in failed
<1>1. failed \subseteq Nat
  OBVIOUS
<1>2. PICK n \in failed : \A m \in failed : n <= m
  BY <1>1, LeastNatural
<1> QED
  BY <1>2 DEF Min

LEMMA PropertiesParsed ==
  ASSUME NEW e
  PROVE  /\ ParsePropertyNode(e).ret # ""
         /\ Succeeded(ParsePropertyNode(e)) => CompleteProperties(e)
<1> DEFINE given == IF HasChild(e, "properties")
                    THEN ChildElements(FirstChildElement(e, "properties"), "property") ELSE <<>>
<1>1. CASE \E i \in DOMAIN given : ~ HasAll(given[i], {"name", "value"})
  <2>1. ParsePropertyNode(e).ret = "kMalformedPropertyNode"
    BY <1>1 DEF ParsePropertyNode, Fail
  <2> QED
    BY <2>1 DEF Succeeded
<1>2. CASE ~ \E i \in DOMAIN given : ~ HasAll(given[i], {"name", "value"})
  <2>1. ParsePropertyNode(e).ret = "kSuccess"
    BY <1>2 DEF ParsePropertyNode, Ok
  <2>2. CompleteProperties(e)
    BY <1>2 DEF CompleteProperties, AllOf, ToSet
  <2> QED
    BY <2>1, <2>2
<1> QED
  BY <1>1, <1>2

LEMMA ImageParsed ==
  ASSUME NEW e
  PROVE  /\ ParseImageNode(e).ret # ""
         /\ Succeeded(ParseImageNode(e)) => Has(e, "source")
<1>1. CASE ~ Has(e, "source")
  BY <1>1 DEF ParseImageNode, RequiredString, Fail, Succeeded
<1>2. CASE Has(e, "source")
  BY <1>2 DEF ParseImageNode, RequiredString, Fail, Ok
<1> QED
  BY <1>1, <1>2

LEMMA ObjectParsed ==
  ASSUME NEW e
  PROVE  /\ ParseObjectNode(e).ret # ""
         /\ Succeeded(ParseObjectNode(e)) => CompleteObject(e)
<1>1. CASE ~ Succeeded(ParsePropertyNode(e))
  BY <1>1, PropertiesParsed DEF ParseObjectNode, Then
<1>2. CASE Succeeded(ParsePropertyNode(e)) /\ PointsMissing(e)
  BY <1>2 DEF ParseObjectNode, Then, Fail, Succeeded
<1>3. CASE Succeeded(ParsePropertyNode(e)) /\ ~ PointsMissing(e)
  <2>1. ParseObjectNode(e).ret # ""
    BY <1>3 DEF ParseObjectNode, Then, Ok
  <2>2. CompleteObject(e)
    BY <1>3, PropertiesParsed DEF CompleteObject, PointsMissing
  <2> QED
    BY <2>1, <2>2
<1> QED
  BY <1>1, <1>2, <1>3

LEMMA ObjectsParsed ==
  ASSUME NEW S, NEW nodes \in Seq(S)
  PROVE  LET r == Each(ParseObjectNode, nodes)
         IN  /\ r.ret # ""
             /\ Succeeded(r) => \A i \in DOMAIN nodes : CompleteObject(nodes[i])
<1> DEFINE parsed == [i \in DOMAIN nodes |-> ParseObjectNode(nodes[i])]
           failed == {i \in DOMAIN nodes : ~ Succeeded(parsed[i])}
           r == Each(ParseObjectNode, nodes)
<1>1. CASE failed # {}
  <2>1. Min(failed) \in failed
    BY <1>1, FirstFailure
  <2>2. r = ParseObjectNode(nodes[Min(failed)])
    BY <1>1, <2>1 DEF Each
  <2>3. ~ Succeeded(ParseObjectNode(nodes[Min(failed)]))
    BY <2>1
  <2>4. r.ret # "" /\ ~ Succeeded(r)
    <3> HIDE DEF r, failed
    <3>1. ParseObjectNode(nodes[Min(failed)]).ret # ""
      BY <2>3, ObjectParsed
    <3> QED
      BY <2>2, <2>3, <3>1, Zenon
  <2> QED
    BY <2>4
<1>2. CASE failed = {}
  <2>1. r.ret = "kSuccess"
    BY <1>2 DEF Each, Ok
  <2>2. \A i \in DOMAIN nodes : Succeeded(ParseObjectNode(nodes[i]))
    BY <1>2
  <2>3. \A i \in DOMAIN nodes : CompleteObject(nodes[i])
    BY <2>2, ObjectParsed
  <2> QED
    BY <2>1, <2>3
<1> QED
  BY <1>1, <1>2

LEMMA ObjectGroupParsed ==
  ASSUME NEW W, Whole(W), NEW e \in W
  PROVE  /\ ParseObjectGroupNode(e).ret # ""
         /\ Succeeded(ParseObjectGroupNode(e)) => CompleteObjectGroup(e)
<1> DEFINE nodes == ChildElements(e, "object")
           r == Each(ParseObjectNode, nodes)
<1>0. nodes \in Seq(W)
  BY ChildrenType
<1>1. CASE ~ Succeeded(ParsePropertyNode(e))
  BY <1>1, PropertiesParsed DEF ParseObjectGroupNode, Then
<1>2. CASE Succeeded(ParsePropertyNode(e)) /\ ~ Succeeded(r)
  BY <1>2 DEF ParseObjectGroupNode, Then, Fail, Succeeded
<1>3. CASE Succeeded(ParsePropertyNode(e)) /\ Succeeded(r)
  <2>1. ParseObjectGroupNode(e).ret # ""
    BY <1>3 DEF ParseObjectGroupNode, Then, Ok
  <2>2. \A i \in DOMAIN nodes : CompleteObject(nodes[i])
    <3> HIDE DEF nodes
    <3> QED
      BY <1>0, <1>3, ObjectsParsed
  <2>3. CompleteObjectGroup(e)
    BY <1>3, <2>2, PropertiesParsed DEF CompleteObjectGroup, AllOf, ToSet
  <2> QED
    BY <2>1, <2>3
<1> QED
  BY <1>1, <1>2, <1>3

LEMMA ObjectGroupsParsed ==
  ASSUME NEW W, Whole(W), NEW nodes \in Seq(W)
  PROVE  LET r == Each(ParseObjectGroupNode, nodes)
         IN  /\ r.ret # ""
             /\ Succeeded(r) => \A i \in DOMAIN nodes : CompleteObjectGroup(nodes[i])
<1> DEFINE parsed == [i \in DOMAIN nodes |-> ParseObjectGroupNode(nodes[i])]
           failed == {i \in DOMAIN nodes : ~ Succeeded(parsed[i])}
           r == Each(ParseObjectGroupNode, nodes)
<1>0. \A i \in DOMAIN nodes : nodes[i] \in W
  OBVIOUS
<1>1. CASE failed # {}
  <2>1. Min(failed) \in failed
    BY <1>1, FirstFailure
  <2>2. r = ParseObjectGroupNode(nodes[Min(failed)])
    BY <1>1, <2>1 DEF Each
  <2>3. ~ Succeeded(ParseObjectGroupNode(nodes[Min(failed)])) /\ nodes[Min(failed)] \in W
    BY <2>1
  <2>4. r.ret # "" /\ ~ Succeeded(r)
    <3> HIDE DEF r, failed
    <3>1. ParseObjectGroupNode(nodes[Min(failed)]).ret # ""
      BY <2>3, ObjectGroupParsed
    <3> QED
      BY <2>2, <2>3, <3>1, Zenon
  <2> QED
    BY <2>4
<1>2. CASE failed = {}
  <2>1. r.ret = "kSuccess"
    BY <1>2 DEF Each, Ok
  <2>2. \A i \in DOMAIN nodes : Succeeded(ParseObjectGroupNode(nodes[i]))
    BY <1>2
  <2>3. \A i \in DOMAIN nodes : CompleteObjectGroup(nodes[i])
    BY <1>0, <2>2, ObjectGroupParsed
  <2> QED
    BY <2>1, <2>3
<1> QED
  BY <1>1, <1>2

LEMMA TileParsed ==
  ASSUME NEW W, Whole(W), NEW e \in W
  PROVE  /\ ParseTileDefinitionNode(e).ret # ""
         /\ Succeeded(ParseTileDefinitionNode(e)) => CompleteTile(e)
<1> DEFINE nodes == ChildElements(e, "objectgroup")
           r == Each(ParseObjectGroupNode, nodes)
<1>0. nodes \in Seq(W)
  BY ChildrenType
<1>1. CASE ~ Succeeded(ParsePropertyNode(e))
  BY <1>1, PropertiesParsed DEF ParseTileDefinitionNode, Then
<1>2. CASE Succeeded(ParsePropertyNode(e)) /\ ~ Succeeded(r)
  <2>1. ParseTileDefinitionNode(e) = r
    BY <1>2 DEF ParseTileDefinitionNode, Then
  <2>2. r.ret # ""
    <3> HIDE DEF nodes
    <3> QED
      BY <1>0, ObjectGroupsParsed
  <2> QED
    BY <1>2, <2>1, <2>2
<1>3. CASE Succeeded(ParsePropertyNode(e)) /\ Succeeded(r)
  <2>1. ParseTileDefinitionNode(e).ret # ""
    BY <1>3 DEF ParseTileDefinitionNode, Then, Ok
  <2>2. \A i \in DOMAIN nodes : CompleteObjectGroup(nodes[i])
    <3> HIDE DEF nodes
    <3> QED
      BY <1>0, <1>3, ObjectGroupsParsed
  <2>3. CompleteTile(e)
    BY <1>3, <2>2, PropertiesParsed DEF CompleteTile, AllOf, ToSet
  <2> QED
    BY <2>1, <2>3
<1> QED
  BY <1>1, <1>2, <1>3

LEMMA TileDefinitionsParsed ==
  ASSUME NEW W, Whole(W), NEW nodes \in Seq(W)
  PROVE  LET r == Each(ParseTileDefinitionNode, nodes)
         IN  /\ r.ret # ""
             /\ Succeeded(r) => \A i \in DOMAIN nodes : CompleteTile(nodes[i])
<1> DEFINE parsed == [i \in DOMAIN nodes |-> ParseTileDefinitionNode(nodes[i])]
           failed == {i \in DOMAIN nodes : ~ Succeeded(parsed[i])}
           r == Each(ParseTileDefinitionNode, nodes)
<1>0. \A i \in DOMAIN nodes : nodes[i] \in W
  OBVIOUS
<1>1. CASE failed # {}
  <2>1. Min(failed) \in failed
    BY <1>1, FirstFailure
  <2>2. r = ParseTileDefinitionNode(nodes[Min(failed)])
    BY <1>1, <2>1 DEF Each
  <2>3. ~ Succeeded(ParseTileDefinitionNode(nodes[Min(failed)])) /\ nodes[Min(failed)] \in W
    BY <2>1
  <2>4. r.ret # "" /\ ~ Succeeded(r)
    <3> HIDE DEF r, failed
    <3>1. ParseTileDefinitionNode(nodes[Min(failed)]).ret # ""
      BY <2>3, TileParsed
    <3> QED
      BY <2>2, <2>3, <3>1, Zenon
  <2> QED
    BY <2>4
<1>2. CASE failed = {}
  <2>1. r.ret = "kSuccess"
    BY <1>2 DEF Each, Ok
  <2>2. \A i \in DOMAIN nodes : Succeeded(ParseTileDefinitionNode(nodes[i]))
    BY <1>2
  <2>3. \A i \in DOMAIN nodes : CompleteTile(nodes[i])
    BY <1>0, <2>2, TileParsed
  <2> QED
    BY <2>1, <2>3
<1> QED
  BY <1>1, <1>2

\* All that CompleteTileset says of a tileset that is not in another file.
LEMMA TilesetParsed ==
  ASSUME NEW W, Whole(W), NEW e \in W, NEW firstgid
  PROVE  /\ ParseTileset(e, firstgid).ret # ""
         /\ Succeeded(ParseTileset(e, firstgid)) =>
              /\ HasAll(e, {"tilewidth", "tileheight"})
              /\ HasChild(e, "image") /\ Has(FirstChildElement(e, "image"), "source")
              /\ AllOf(e, "tile", CompleteTile)
<1> DEFINE nodes == ChildElements(e, "tile")
           tiles == Each(ParseTileDefinitionNode, nodes)
           image == ParseImageNode(FirstChildElement(e, "image"))
           r == ParseTileset(e, firstgid)
<1>0. /\ tiles.ret # ""
      /\ Succeeded(tiles) => \A i \in DOMAIN nodes : CompleteTile(nodes[i])
      /\ image.ret # ""
      /\ Succeeded(image) => Has(FirstChildElement(e, "image"), "source")
  <2>1. nodes \in Seq(W)
    BY ChildrenType
  <2> HIDE DEF nodes
  <2> QED
    BY <2>1, ImageParsed, TileDefinitionsParsed
<1>1. CASE ~ HasAll(e, {"tilewidth", "tileheight"})
  BY <1>1 DEF ParseTileset, Fail, Succeeded
<1>2. CASE HasAll(e, {"tilewidth", "tileheight"}) /\ ~ HasChild(e, "image")
  BY <1>2 DEF ParseTileset, Fail, Succeeded
<1>3. CASE HasAll(e, {"tilewidth", "tileheight"}) /\ HasChild(e, "image") /\ ~ Succeeded(image)
  <2>1. r = image
    BY <1>3 DEF ParseTileset, Then
  <2>2. r.ret # "" /\ ~ Succeeded(r)
    <3> HIDE DEF r, image, tiles, nodes
    <3> QED
      BY <1>0, <1>3, <2>1, Zenon
  <2> QED
    BY <2>2
<1>4. CASE /\ HasAll(e, {"tilewidth", "tileheight"}) /\ HasChild(e, "image")
           /\ Succeeded(image) /\ ~ Succeeded(tiles)
  <2>1. r = tiles
    BY <1>4 DEF ParseTileset, Then
  <2>2. r.ret # "" /\ ~ Succeeded(r)
    <3> HIDE DEF r, image, tiles, nodes
    <3> QED
      BY <1>0, <1>4, <2>1, Zenon
  <2> QED
    BY <2>2
<1>5. CASE /\ HasAll(e, {"tilewidth", "tileheight"}) /\ HasChild(e, "image")
           /\ Succeeded(image) /\ Succeeded(tiles)
  <2>1. r.ret # ""
    <3>1. CASE 0 \in {UnsignedAttribute(e, "tilewidth") + UnsignedAttribute(e, "spacing"),
                      UnsignedAttribute(e, "tileheight") + UnsignedAttribute(e, "spacing")}
      <4>1. r = Fail("crash")
        BY <1>5, <3>1 DEF ParseTileset, Then
      <4> QED
        BY <4>1 DEF Fail
    <3>2. CASE ~ (0 \in {UnsignedAttribute(e, "tilewidth") + UnsignedAttribute(e, "spacing"),
                        UnsignedAttribute(e, "tileheight") + UnsignedAttribute(e, "spacing")})
      <4>1. \E value : r = Ok(value)
        BY <1>5, <3>2 DEF ParseTileset, Then
      <4> QED
        BY <4>1 DEF Ok
    <3> QED
      BY <3>1, <3>2
  <2>2. AllOf(e, "tile", CompleteTile)
    BY <1>0, <1>5 DEF AllOf, ToSet
  <2>3. Has(FirstChildElement(e, "image"), "source")
    BY <1>0, <1>5
  <2> HIDE DEF nodes, tiles, image
  <2>4. r.ret # ""
    BY <2>1
  <2> QED
    BY <1>5, <2>2, <2>3, <2>4
<1> QED
  BY <1>1, <1>2, <1>3, <1>4, <1>5

LEMMA LayerParsed ==
  ASSUME NEW e, NEW tilesets
  PROVE  /\ ParseLayerNode(e, tilesets).ret # ""
         /\ Succeeded(ParseLayerNode(e, tilesets)) => CompleteLayer(e)
<1> DEFINE data == FirstChildElement(e, "data")
           tiles == ParseLayerDataNode(data, tilesets)
<1>1. tiles.ret # ""
  BY DEF ParseLayerDataNode, Tiles, Fail, Ok
<1>2. CASE ~ Has(e, "name")
  BY <1>2 DEF ParseLayerNode, RequiredString, Fail, Succeeded
<1>3. CASE Has(e, "name") /\ ~ Succeeded(ParsePropertyNode(e))
  BY <1>3, PropertiesParsed DEF ParseLayerNode, RequiredString, Then
<1>4. CASE Has(e, "name") /\ Succeeded(ParsePropertyNode(e)) /\ ~ HasChild(e, "data")
  BY <1>4 DEF ParseLayerNode, RequiredString, Then, Fail, Succeeded
<1>5. CASE Has(e, "name") /\ Succeeded(ParsePropertyNode(e)) /\ HasChild(e, "data")
  <2>1. ParseLayerNode(e, tilesets).ret # ""
    BY <1>1, <1>5 DEF ParseLayerNode, RequiredString, Then, Ok
  <2> QED
    BY <1>5, <2>1, PropertiesParsed DEF CompleteLayer
<1> QED
  BY <1>2, <1>3, <1>4, <1>5

LEMMA ImageLayerParsed ==
  ASSUME NEW e
  PROVE  /\ ParseImageLayerNode(e).ret # ""
         /\ Succeeded(ParseImageLayerNode(e)) => CompleteImageLayer(e)
<1> DEFINE image == ParseImageNode(FirstChildElement(e, "image"))
           r == ParseImageLayerNode(e)
<1>0. /\ image.ret # ""
      /\ Succeeded(image) => Has(FirstChildElement(e, "image"), "source")
  BY ImageParsed
<1>1. CASE ~ Has(e, "name") \/ Value(e, "name") = ""
  BY <1>1 DEF ParseImageLayerNode, RequiredString, Fail, Succeeded
<1>2. CASE Has(e, "name") /\ Value(e, "name") # "" /\ ~ Succeeded(ParsePropertyNode(e))
  BY <1>2, PropertiesParsed DEF ParseImageLayerNode, RequiredString, Then
<1>3. CASE /\ Has(e, "name") /\ Value(e, "name") # "" /\ Succeeded(ParsePropertyNode(e))
           /\ HasChild(e, "image") /\ ~ Succeeded(image)
  <2>1. r = image
    BY <1>3 DEF ParseImageLayerNode, RequiredString, Then
  <2>2. r.ret # "" /\ ~ Succeeded(r)
    <3> HIDE DEF r, image
    <3> QED
      BY <1>0, <1>3, <2>1, Zenon
  <2> QED
    BY <2>2
<1>4. CASE /\ Has(e, "name") /\ Value(e, "name") # "" /\ Succeeded(ParsePropertyNode(e))
           /\ HasChild(e, "image") /\ Succeeded(image)
  <2>1. r.ret # ""
    BY <1>4 DEF ParseImageLayerNode, RequiredString, Then, Ok
  <2>2. CompleteImageLayer(e)
    BY <1>0, <1>4, PropertiesParsed DEF CompleteImageLayer
  <2> QED
    BY <2>1, <2>2
<1>5. CASE /\ Has(e, "name") /\ Value(e, "name") # "" /\ Succeeded(ParsePropertyNode(e))
           /\ ~ HasChild(e, "image")
  <2>1. r.ret # ""
    BY <1>5 DEF ParseImageLayerNode, RequiredString, Then, Ok, Succeeded
  <2> QED
    BY <1>5, <2>1, PropertiesParsed DEF CompleteImageLayer
<1> QED
  BY <1>1, <1>2, <1>3, <1>4, <1>5

-----------------------------------------------------------------------------
(* The inductive invariant of the parser: it holds what its stack reaches.   *)

TextType(items) == IsSequence(items) /\ \A i \in DOMAIN items : ItemType(items[i])

\* As many calls of ParseDeep are counted as have not returned.
DepthInv == depth = IF p = "stopped" THEN 0 ELSE Len(open)

ParserInv ==
  /\ p \in {"reading", "null", "stopped"}
  /\ Stack(open) /\ live = Held(open)
  /\ TextType(text)
  /\ DepthInv

LEMMA TailText ==
  ASSUME NEW items, TextType(items), items # << >>
  PROVE  TextType(Tail(items)) /\ ItemType(Head(items)) /\ Len(Tail(items)) = Len(items) - 1
<1> DEFINE S == ToSet(items)
<1>1. items \in Seq(S) /\ \A i \in 1 .. Len(items) : ItemType(items[i])
  BY IsOfItsMembers DEF TextType
<1> HIDE DEF S
<1>2. /\ Tail(items) \in Seq(S) /\ Len(Tail(items)) = Len(items) - 1 /\ Len(items) \in Nat \ {0}
      /\ \A i \in 1 .. Len(Tail(items)) : Tail(items)[i] = items[i + 1]
  BY <1>1, HeadTailProperties
<1>3. \A i \in 1 .. Len(items) - 1 : i + 1 \in 1 .. Len(items)
  BY <1>2
<1>4. \A i \in 1 .. Len(Tail(items)) : ItemType(Tail(items)[i])
  BY <1>1, <1>2, <1>3
<1>5. Head(items) = items[1] /\ 1 \in 1 .. Len(items)
  BY <1>1, <1>2
<1>6. DOMAIN Tail(items) = 1 .. Len(Tail(items))
  BY <1>2
<1> QED
  BY <1>1, <1>2, <1>4, <1>5, <1>6, SequenceIs DEF TextType

LEMMA NewNode ==
  ASSUME NEW kind, NEW name, NEW attrs, IsSequence(attrs)
  PROVE  /\ NodeType(Node(kind, name, attrs, <<>>)) /\ Node(kind, name, attrs, <<>>).kids = << >>
         /\ Node(kind, name, attrs, <<>>).kind = kind
BY DEF NodeType, Node, IsSequence

LEMMA InsertKeeps ==
  ASSUME Stack(open), live = Held(open), NEW node, NodeType(node), node.kids = << >>, Insert(node)
  PROVE  Stack(open') /\ live' = Held(open')
<1> DEFINE h == (MaxDepth - Len(open)) - 1
<1>1. h \in Int /\ 0 <= h
  BY MaxDepthAssumption DEF Stack
<1>2. Tree(node, 0) /\ Allocs(node, MaxDepth) = Own(node)
  BY LeafTree
<1>3. Tree(node, h)
  <2> HIDE DEF h
  <2> QED
    BY <1>1, <1>2, TreeGrows
<1>4. open' = InsertEndChild(open, node) /\ live' = Plus(live, Own(node))
  BY DEF Insert, Taken
<1>5. /\ Stack(InsertEndChild(open, node))
      /\ Held(InsertEndChild(open, node)) = Plus(Held(open), Own(node))
  BY <1>2, <1>3, Inserted
<1> QED
  BY <1>4, <1>5, Zenon

LEMMA LoadKeeps ==
  ASSUME NEW path, disk \in Disks, Load(path)
  PROVE  ParserInv' /\ open' = <<Document>>
<1> DEFINE items == IF OnDisk(path) THEN disk.files[path] ELSE <<>>
<1>1. TextType(items)
  <2>1. CASE OnDisk(path)
    BY <2>1, DisksAssumption DEF OnDisk, TextType
  <2>2. CASE ~ OnDisk(path)
    BY <2>2 DEF TextType, IsSequence
  <2> QED
    BY <2>1, <2>2
<1>2. TextType(<<>>)
  BY DEF TextType, IsSequence
<1> HIDE DEF items
<1>3. LoadFile(OnDisk(path), items)
  BY DEF Load, items
<1>4. /\ open' = <<Document>> /\ live' = None /\ p' \in {"reading", "stopped"}
      /\ text' = items \/ text' = <<>>
  BY <1>3 DEF LoadFile
<1>5. TextType(text)'
  BY <1>1, <1>2, <1>4
<1>6. DepthInv'
  <2>1. depth' = IF p' = "stopped" THEN 0 ELSE 1
    BY <1>3 DEF LoadFile
  <2>2. Len(open') = 1
    BY <1>4
  <2> QED
    BY <2>1, <2>2 DEF DepthInv
<1> QED
  BY <1>4, <1>5, <1>6, EmptyStack DEF ParserInv

\* Every call that is begun is counted, and every one that returns.
LEMMA DepthKeeps ==
  ASSUME ParserInv, ParseStep
  PROVE  DepthInv'
<1>0. Stack(open) /\ Len(open) \in Nat \ {0} /\ depth = IF p = "stopped" THEN 0 ELSE Len(open)
  BY StackTypes DEF ParserInv, DepthInv
<1>1. ASSUME p = "reading", p' # "stopped", depth' = depth, Len(open') = Len(open)
      PROVE  DepthInv'
  BY <1>0, <1>1 DEF DepthInv
<1>2. ASSUME p # "stopped", p' # "stopped", Len(open) > 1, Len(open') = Len(open) - 1, PopDepth
      PROVE  DepthInv'
  BY <1>0, <1>2 DEF DepthInv, PopDepth
<1>3. ASSUME p # "stopped", p' = "stopped", Len(open) = 1, PopDepth
      PROVE  DepthInv'
  BY <1>0, <1>3 DEF DepthInv, PopDepth
<1>4. ASSUME NEW stack, Stack(stack), NEW node
      PROVE  Len(InsertEndChild(stack, node)) = Len(stack)
  <2>1. PICK S : stack \in Seq(S)
    BY <1>4, StackTypes
  <2> QED
    BY <2>1 DEF InsertEndChild
<1>5. ASSUME NEW node, p = "reading", Insert(node)
      PROVE  DepthInv'
  <2>1. p' = p /\ depth' = depth /\ open' = InsertEndChild(open, node)
    BY <1>5 DEF Insert
  <2> QED
    BY <1>0, <1>1, <1>4, <1>5, <2>1
<1>6. ASSUME NEW e, p = "reading", Null(e)
      PROVE  DepthInv'
  BY <1>1, <1>6 DEF Null
<1>7. CASE SkipWhiteSpace
  BY <1>1, <1>7 DEF SkipWhiteSpace, At
<1>8. CASE ParseLeaf
  <2>1. p = "reading" /\ ((\E e : Null(e)) \/ \E node : Insert(node))
    BY <1>8 DEF ParseLeaf, At
  <2> QED
    BY <1>5, <1>6, <2>1
<1>9. CASE ParseBadTag
  <2>1. p = "reading" /\ \E e : Null(e)
    BY <1>9 DEF ParseBadTag, At
  <2> QED
    BY <1>6, <2>1
<1>10. CASE ParseClosedElement
  <2>1. p = "reading" /\ \E node : Insert(node)
    BY <1>10 DEF ParseClosedElement, AtTag, At
  <2> QED
    BY <1>5, <2>1
<1>11. CASE ParseOpenElement
  <2>1. p = "reading"
    BY <1>11 DEF ParseOpenElement, AtTag, At
  <2>2. CASE \E e : Null(e)
    BY <1>6, <2>1, <2>2
  <2>3. CASE ~ \E e : Null(e)
    <3>1. PICK node : open' = Append(open, node)
      BY <1>11, <2>3 DEF ParseOpenElement
    <3>2. depth' = depth + 1 /\ p' = p
      BY <1>11, <2>3 DEF ParseOpenElement
    <3>3. PICK S : open \in Seq(S)
      BY <1>0, StackTypes
    <3>4. Len(open') = Len(open) + 1
      BY <3>1, <3>3
    <3> QED
      BY <1>0, <2>1, <3>2, <3>4 DEF DepthInv
  <2> QED
    BY <2>2, <2>3
<1>12. CASE ParseEndTag
  <2>1. p = "reading" /\ Len(open) > 1 /\ PopDepth /\ p' \in {p, "null"}
    BY <1>12 DEF ParseEndTag, AtTag, At
  <2>2. Stack(Front(open)) /\ Len(Front(open)) = Len(open) - 1
    BY <1>0, <2>1, Popped
  <2>3. open' = InsertEndChild(Front(open), Last(open)) \/ open' = Front(open)
    BY <1>12 DEF ParseEndTag
  <2>4. Len(open') = Len(open) - 1
    BY <1>4, <2>2, <2>3
  <2> QED
    BY <1>2, <2>1, <2>4
<1>13. CASE ParseStrayEndTag
  BY <1>3, <1>13 DEF ParseStrayEndTag, AtTag, At
<1>14. CASE EndOfText
  <2>1. p = "reading" /\ open' = open
    BY <1>14 DEF EndOfText
  <2>2. CASE Len(open) = 1
    BY <1>3, <1>14, <2>1, <2>2 DEF EndOfText
  <2>3. CASE Len(open) # 1
    <3>1. p' = "null" /\ depth' = depth
      BY <1>14, <2>3 DEF EndOfText
    <3> QED
      BY <1>1, <2>1, <3>1
  <2> QED
    BY <2>2, <2>3
<1>15. CASE Unwind
  <2>1. p = "null" /\ PopDepth
    BY <1>15 DEF Unwind
  <2>2. CASE Len(open) = 1
    BY <1>3, <1>15, <2>1, <2>2 DEF Unwind
  <2>3. CASE Len(open) # 1
    <3>1. p' = p /\ open' = Front(open)
      BY <1>15, <2>3 DEF Unwind
    <3>2. Len(open) > 1
      <4>1. \A n \in Nat \ {0} : n # 1 => n > 1
        OBVIOUS
      <4> QED
        BY <1>0, <2>3, <4>1, Zenon
    <3>3. Len(Front(open)) = Len(open) - 1
      BY <1>0, <3>2, Popped
    <3> QED
      BY <1>2, <2>1, <3>1, <3>2, <3>3
  <2> QED
    BY <2>2, <2>3
<1> QED
  BY <1>7, <1>8, <1>9, <1>10, <1>11, <1>12, <1>13, <1>14, <1>15 DEF ParseStep

LEMMA ParseKeeps ==
  ASSUME ParserInv, ParseStep
  PROVE  ParserInv'
<1>0. DepthInv'
  BY DepthKeeps
<1> USE <1>0 DEF ParserInv
<1>1. ASSUME text # << >>
      PROVE  TextType(Tail(text)) /\ ItemType(Current)
  BY <1>1, TailText DEF Current
<1>2. ASSUME NEW e, text # << >>, Null(e)
      PROVE  ParserInv'
  BY <1>1, <1>2 DEF Null
<1>3. ASSUME NEW node, text # << >>, NodeType(node), node.kids = << >>, Insert(node)
      PROVE  ParserInv'
  <2>1. Stack(open') /\ live' = Held(open')
    BY <1>3, InsertKeeps
  <2>2. p' = p /\ TextType(text')
    BY <1>1, <1>3 DEF Insert
  <2> QED
    BY <2>1, <2>2
<1>4. At({"tag"}) => text # << >> /\ Current.kind = "tag" /\ IsSequence(Current.attrs)
  BY <1>1 DEF At, ItemType
<1>5. CASE SkipWhiteSpace
  BY <1>1, <1>5 DEF SkipWhiteSpace, At
<1>6. CASE ParseLeaf
  <2>1. text # << >>
    BY <1>6 DEF ParseLeaf, At
  <2>2. CASE \E e : Null(e)
    BY <1>2, <2>1, <2>2
  <2>3. CASE Insert(Leaf(Current.kind, Current.value))
    <3>1. IsSequence(<<>>)
      BY DEF IsSequence
    <3>2. /\ NodeType(Leaf(Current.kind, Current.value))
          /\ Leaf(Current.kind, Current.value).kids = << >>
      BY <3>1, NewNode DEF Leaf
    <3> HIDE DEF ParserInv
    <3> QED
      BY <1>3, <2>1, <2>3, <3>2
  <2> QED
    BY <1>6, <2>2, <2>3 DEF ParseLeaf
<1>7. CASE ParseBadTag
  BY <1>2, <1>4, <1>7 DEF ParseBadTag
<1> DEFINE element == Element(Current.name, Current.attrs, <<>>)
<1>8. At({"tag"}) => NodeType(element) /\ element.kids = << >> /\ element.kind = "element"
  BY <1>4, NewNode DEF Element
<1>9. CASE ParseClosedElement
  <2>1. At({"tag"}) /\ Insert(element)
    BY <1>9 DEF ParseClosedElement, AtTag
  <2> HIDE DEF ParserInv, element
  <2> QED
    BY <1>3, <1>4, <1>8, <2>1
<1>10. CASE ParseOpenElement
  <2>1. At({"tag"}) /\ text # << >>
    BY <1>10 DEF ParseOpenElement, AtTag, At
  <2>2. CASE \E e : Null(e)
    BY <1>2, <2>1, <2>2
  <2>3. CASE ~ \E e : Null(e)
    <3>1. /\ open' = Append(open, element) /\ live' = Plus(live, Own(element))
          /\ text' = Tail(text) /\ p' = p /\ Len(open) + 1 # MaxDepth
      BY <1>10, <2>1, <2>3 DEF ParseOpenElement, TooDeep, Taken, DepthInv, At
    <3> HIDE DEF element
    <3>2. /\ Stack(Append(open, element))
          /\ Held(Append(open, element)) = Plus(Held(open), Own(element))
      BY <1>8, <2>1, <3>1, Pushed
    <3> QED
      BY <1>1, <2>1, <3>1, <3>2
  <2> QED
    BY <2>2, <2>3
<1>11. CASE ParseEndTag
  <2>1. text # << >> /\ Len(open) > 1
    BY <1>11 DEF ParseEndTag, AtTag, At
  <2>2. /\ Stack(Front(open)) /\ Tree(Last(open), MaxDepth - Len(open))
        /\ Len(Front(open)) = Len(open) - 1
        /\ Held(open) = Plus(Held(Front(open)), Allocs(Last(open), MaxDepth))
        /\ Minus(Held(open), Allocs(Last(open), MaxDepth)) = Held(Front(open))
    BY <2>1, Popped
  <2>3. text' = Tail(text) /\ TextType(text') /\ p' \in {"reading", "null"}
    BY <1>1, <1>11, <2>1 DEF ParseEndTag, AtTag, At
  <2>4. CASE Ends(Current.name)
    <3> DEFINE less == Front(open)
               kid == Last(open)
               h == (MaxDepth - Len(less)) - 1
    <3>1. open' = InsertEndChild(less, kid) /\ live' = live
      BY <1>11, <2>4 DEF ParseEndTag, FreeEndTag
    <3>2. h = MaxDepth - Len(open)
      BY <2>2, StackTypes, MaxDepthAssumption
    <3>3. Tree(kid, h)
      BY <2>2, <3>2
    <3>4. /\ Stack(InsertEndChild(less, kid))
          /\ Held(InsertEndChild(less, kid)) = Plus(Held(less), Allocs(kid, MaxDepth))
      <4> HIDE DEF less, kid
      <4> QED
        BY <2>2, <3>3, Inserted DEF less
    <3>5. Stack(open') /\ live' = Held(open')
      <4> HIDE DEF less, kid
      <4> QED
        BY <2>2, <3>1, <3>4, Zenon DEF less, kid
    <3> QED
      BY <2>3, <3>5
  <2>5. CASE ~ Ends(Current.name)
    <3>1. open' = Front(open) /\ live' = Minus(live, Allocs(Last(open), MaxDepth))
      BY <1>11, <2>5 DEF ParseEndTag, GivenBack
    <3>2. Stack(open') /\ live' = Held(open')
      BY <2>2, <3>1, Zenon
    <3> QED
      BY <2>3, <3>2
  <2> QED
    BY <2>4, <2>5
<1>12. CASE ParseStrayEndTag
  BY <1>12 DEF ParseStrayEndTag, TextType, IsSequence
<1>13. CASE EndOfText
  BY <1>13 DEF EndOfText
<1>14. CASE Unwind
  <2>1. CASE Len(open) = 1
    BY <1>14, <2>1 DEF Unwind
  <2>2. CASE Len(open) # 1
    <3>1. Len(open) > 1
      <4>1. Len(open) \in Nat \ {0}
        BY StackTypes
      <4>2. \A n \in Nat \ {0} : n # 1 => n > 1
        OBVIOUS
      <4> QED
        BY <2>2, <4>1, <4>2, Zenon
    <3>2. /\ Stack(Front(open))
          /\ Minus(Held(open), Allocs(Last(open), MaxDepth)) = Held(Front(open))
      BY <3>1, Popped
    <3>3. /\ open' = Front(open) /\ live' = Minus(live, Allocs(Last(open), MaxDepth))
          /\ text' = text /\ p' = p
      BY <1>14, <2>2 DEF Unwind, GivenBack
    <3>4. Stack(open') /\ live' = Held(open')
      BY <3>2, <3>3, Zenon
    <3> QED
      BY <3>3, <3>4
  <2> QED
    BY <2>1, <2>2
<1> QED
  BY <1>5, <1>6, <1>7, <1>9, <1>10, <1>11, <1>12, <1>13, <1>14 DEF ParseStep

-----------------------------------------------------------------------------
(* The inductive invariant of the loader: it has kept, and found complete,   *)
(* all the children it is past.                                              *)

Fields == {"size", "propertyMap", "tilesets", "layers", "objectGroups", "imageLayers"}
Collections == {"tilesets", "layers", "objectGroups", "imageLayers"}
Loops == {"tilesets", "readingTileset", "layers", "objectgroups", "imagelayers"}
Returned == {"loaded", "drawn", "crashed"}

CompleteAs(name, node) ==
  CASE name = "tileset" -> CompleteTileset(node) [] name = "layer" -> CompleteLayer(node)
    [] name = "objectgroup" -> CompleteObjectGroup(node) [] OTHER -> CompleteImageLayer(node)

\* The first n children of a name are complete, and kept.
Kept(collection, name, n) ==
  /\ IsSequence(out[collection]) /\ Len(out[collection]) = n
  /\ \A i \in 1 .. n : CompleteAs(name, ChildElements(map, name)[i])

AllKept(collection, name) == Kept(collection, name, Len(ChildElements(map, name)))

\* The others are still in the queue.
Keeping(collection, name) ==
  LET nodes == ChildElements(map, name)
      n == Len(out[collection])
  IN  /\ n <= Len(nodes) /\ Kept(collection, name, n)
      /\ queue = SubSeq(nodes, n + 1, Len(nodes))

NoneKept(collections) == \A collection \in collections : out[collection] = <<>>

MapStarted ==
  /\ \E nodes : Whole(nodes) /\ map \in nodes
  /\ HasAll(map, {"version"} \cup ToSet(Sizes)) /\ CompleteProperties(map)
  /\ DOMAIN out.size = ToSet(Sizes)

LoopsInv ==
  /\ stage \in {"tilesets", "readingTileset"} =>
       Keeping("tilesets", "tileset") /\ NoneKept({"layers", "objectGroups", "imageLayers"})
  /\ stage = "readingTileset" =>
       queue # <<>> /\ Has(Head(queue), "firstgid") /\ Has(Head(queue), "source")
  /\ stage = "layers" =>
       /\ AllKept("tilesets", "tileset") /\ Keeping("layers", "layer")
       /\ NoneKept({"objectGroups", "imageLayers"})
  /\ stage = "objectgroups" =>
       /\ AllKept("tilesets", "tileset") /\ AllKept("layers", "layer")
       /\ Keeping("objectGroups", "objectgroup") /\ NoneKept({"imageLayers"})
  /\ stage = "imagelayers" =>
       /\ AllKept("tilesets", "tileset") /\ AllKept("layers", "layer")
       /\ AllKept("objectGroups", "objectgroup") /\ Keeping("imageLayers", "imagelayer")

LoaderInv ==
  /\ stage \in Stages /\ disk \in Disks /\ DOMAIN out = Fields
  /\ ret # "" <=> stage \in Returned
  /\ out.tilesets # <<>> => DOMAIN out.size = ToSet(Sizes)
  /\ stage \in {"start", "reading"} => NoneKept(Collections)
  /\ stage \in Loops => MapStarted
  /\ LoopsInv
  /\ ParsedIsComplete

\* An error ends the loading.
LEMMA ErrorKeeps ==
  ASSUME disk \in Disks, disk' = disk, DOMAIN out' = Fields,
         out'.tilesets # <<>> => DOMAIN out'.size = ToSet(Sizes),
         stage' \in {"loaded", "crashed"}, ret' \notin {"", "kSuccess"}
  PROVE  LoaderInv'
BY DEF LoaderInv, Stages, Returned, Loops, LoopsInv, ParsedIsComplete

LEMMA ReturnEnds ==
  ASSUME NEW r, Return(r)
  PROVE  stage' \in {"loaded", "crashed"} /\ ret' = r
BY DEF Return

LEMMA KeepingAt ==
  ASSUME NEW collection, NEW name, MapStarted, Keeping(collection, name)
  PROVE  LET nodes == ChildElements(map, name)
             n == Len(out[collection])
         IN  /\ n \in Nat /\ Len(nodes) \in Nat
             /\ queue = <<>> => n = Len(nodes)
             /\ queue # <<>> =>
                  /\ n + 1 <= Len(nodes) /\ Head(queue) = nodes[n + 1]
                  /\ Tail(queue) = SubSeq(nodes, (n + 1) + 1, Len(nodes))
                  /\ \E W : Whole(W) /\ Head(queue) \in W
<1> DEFINE nodes == ChildElements(map, name)
           n == Len(out[collection])
           m == Len(nodes)
<1>1. PICK W : Whole(W) /\ map \in W
  BY DEF MapStarted
<1>2. nodes \in Seq(W) /\ m \in Nat /\ \A i \in 1 .. m : nodes[i] \in W
  BY <1>1, ChildrenType
<1>3. n \in Nat /\ n <= m /\ queue = SubSeq(nodes, n + 1, m)
  BY DEF Keeping, Kept, IsSequence
<1> HIDE DEF nodes, n, m
<1>4. CASE n = m
  <2>1. queue = <<>>
    BY <1>2, <1>3, <1>4
  <2> QED
    BY <1>2, <1>3, <1>4, <2>1 DEF nodes, n, m
<1>5. CASE n # m
  <2>1. n + 1 \in 1 .. m /\ n + 1 <= m
    BY <1>2, <1>3, <1>5
  <2>2. queue = SubSeq(nodes, n + 1, m) /\ queue \in Seq(W) /\ queue # <<>>
        /\ Head(queue) = nodes[n + 1] /\ Tail(queue) = SubSeq(nodes, (n + 1) + 1, m)
    <3> DEFINE t == SubSeq(nodes, n + 1, m)
    <3>1. /\ t \in Seq(W) /\ t # <<>> /\ Head(t) = nodes[n + 1]
          /\ Tail(t) = SubSeq(nodes, (n + 1) + 1, m)
      <4>1. Len(nodes) = m /\ n + 1 \in 1 .. Len(nodes) /\ m \in n + 1 .. Len(nodes)
        BY <1>2, <2>1 DEF m
      <4>2. Head(t) = nodes[n + 1] /\ Tail(t) = SubSeq(nodes, (n + 1) + 1, m)
        BY <1>2, <4>1, HeadTailOfSubSeq
      <4>3. n + 1 \in Int /\ m \in Int /\ \A i \in n + 1 .. m : nodes[i] \in W
        BY <1>2, <1>3
      <4>4. t \in Seq(W) /\ Len(t) = (m - (n + 1)) + 1
        BY <2>1, <4>3, SubSeqProperties
      <4>5. Len(t) # 0
        BY <1>2, <1>3, <2>1, <4>4
      <4>6. t # <<>>
        <5> HIDE DEF t
        <5> QED
          BY <4>4, <4>5, EmptySeq
      <4> QED
        BY <4>2, <4>4, <4>6, Zenon
    <3> HIDE DEF t
    <3> QED
      BY <1>3, <3>1, Zenon DEF t
  <2>3. Whole(W) /\ Head(queue) \in W
    BY <1>1, <1>2, <2>1, <2>2
  <2> QED
    BY <1>2, <1>3, <2>1, <2>2, <2>3 DEF nodes, n, m
<1> QED
  BY <1>4, <1>5

\* One child more is kept.
LEMMA KeepAdvances ==
  ASSUME NEW collection \in Collections, NEW name, NEW r, NEW then,
         MapStarted, DOMAIN out = Fields, queue # <<>>, Keeping(collection, name),
         Keep(collection, r, then), Succeeded(r), CompleteAs(name, Head(queue))
  PROVE  /\ Keeping(collection, name)'
         /\ stage' = then /\ ret' = ret /\ map' = map /\ disk' = disk
         /\ DOMAIN out' = Fields /\ \A field \in Fields \ {collection} : out'[field] = out[field]
<1> DEFINE nodes == ChildElements(map, name)
           kept == out[collection]
           n == Len(kept)
           m == Len(nodes)
<1>1. /\ n \in Nat /\ m \in Nat /\ n + 1 <= m /\ Head(queue) = nodes[n + 1]
      /\ Tail(queue) = SubSeq(nodes, (n + 1) + 1, m)
  BY KeepingAt
<1>2. IsSequence(kept) /\ \A i \in 1 .. n : CompleteAs(name, nodes[i])
  BY DEF Keeping, Kept
<1>3. /\ out' = [out EXCEPT ![collection] = Append(kept, r.value)]
      /\ queue' = Tail(queue) /\ stage' = then /\ ret' = ret /\ map' = map /\ disk' = disk
  BY DEF Keep
<1>4. /\ out'[collection] = Append(kept, r.value) /\ DOMAIN out' = Fields
      /\ \A field \in Fields \ {collection} : out'[field] = out[field]
  BY <1>3 DEF Fields, Collections
<1> HIDE DEF nodes, kept
<1>5. IsSequence(Append(kept, r.value)) /\ Len(Append(kept, r.value)) = n + 1
  <2> DEFINE S == ToSet(kept) \cup {r.value}
  <2>1. kept \in Seq(S) /\ r.value \in S
    BY <1>2, IsOfItsMembers, SeqMonotonic
  <2> HIDE DEF S
  <2> QED
    BY <2>1, AppendProperties, SequenceIs
<1>6. \A i \in 1 .. n + 1 : CompleteAs(name, nodes[i])
  <2>1. \A i \in 1 .. n + 1 : i = n + 1 \/ i \in 1 .. n
    BY <1>1
  <2>2. CompleteAs(name, nodes[n + 1])
    BY <1>1, Zenon
  <2> HIDE DEF n
  <2> QED
    BY <1>2, <2>1, <2>2
<1>7. Keeping(collection, name)'
  <2>1. ChildElements(map', name) = nodes /\ Len(out'[collection]) = n + 1
    BY <1>3, <1>4, <1>5 DEF nodes
  <2>2. /\ IsSequence(out'[collection])
        /\ \A i \in 1 .. Len(out'[collection]) : CompleteAs(name, ChildElements(map', name)[i])
        /\ Len(out'[collection]) <= Len(ChildElements(map', name))
        /\ queue' = SubSeq(ChildElements(map', name), Len(out'[collection]) + 1,
                           Len(ChildElements(map', name)))
    <3> HIDE DEF n
    <3> QED
      BY <1>1, <1>3, <1>4, <1>5, <1>6, <2>1
  <2> QED
    BY <2>2 DEF Keeping, Kept
<1> QED
  BY <1>3, <1>4, <1>7

\* An error is passed on.
LEMMA KeepFails ==
  ASSUME NEW collection, NEW r, NEW then, LoaderInv,
         Keep(collection, r, then), ~ Succeeded(r), r.ret # ""
  PROVE  LoaderInv'
<1>1. Return(r.ret) /\ out' = out /\ disk' = disk
  BY DEF Keep
<1>2. stage' \in {"loaded", "crashed"} /\ ret' = r.ret
  BY <1>1, ReturnEnds
<1> QED
  BY <1>1, <1>2, ErrorKeeps DEF LoaderInv, Succeeded

LEMMA KeptStays ==
  ASSUME NEW collection, NEW name, out'[collection] = out[collection], map' = map
  PROVE  /\ AllKept(collection, name) => AllKept(collection, name)'
         /\ queue' = queue => (Keeping(collection, name) => Keeping(collection, name)')
BY DEF AllKept, Keeping, Kept

LEMMA ParseMapKeeps ==
  ASSUME ParserInv, LoaderInv, ParseMap
  PROVE  LoaderInv'
<1> DEFINE e == FirstChildElement(open[1], "map")
           properties == ParsePropertyNode(e)
           size == [name \in {Sizes[i] : i \in SizesRead(e)} |-> Value(e, name)]
           read == [out EXCEPT !.size = size]
<1>1. /\ stage = "reading" /\ disk' = disk /\ disk \in Disks /\ DOMAIN out = Fields
      /\ \A collection \in Collections : out[collection] = <<>>
      /\ out.tilesets = <<>>
  BY DEF ParseMap, LoaderInv, NoneKept, Collections
<1>2. ASSUME DOMAIN out' = Fields, out'.tilesets = <<>>, NEW r, Return(r), r \notin {"", "kSuccess"}
      PROVE  LoaderInv'
  <2>1. stage' \in {"loaded", "crashed"} /\ ret' = r
    BY <1>2, ReturnEnds
  <2> QED
    BY <1>1, <1>2, <2>1, ErrorKeeps
<1>3. CASE error # "XML_SUCCESS" \/ ~ HasChild(open[1], "map")
  BY <1>1, <1>2, <1>3 DEF ParseMap
<1>4. CASE error = "XML_SUCCESS" /\ HasChild(open[1], "map")
  <2>1. ParseMapNode(e)
    BY <1>4 DEF ParseMap
  <2>2. DOMAIN read = Fields /\ \A collection \in Collections : read[collection] = <<>>
    BY <1>1 DEF Fields, Collections
  <2>3. read.tilesets = <<>> /\ read.size = size
    BY <1>1 DEF Fields
  <2> HIDE DEF read, size, e
  <2>4. CASE ~ Has(e, "version")
    BY <1>1, <1>2, <2>1, <2>4 DEF ParseMapNode
  <2>5. CASE Has(e, "version") /\ SizesRead(e) # DOMAIN Sizes
    <3>1. Return("kMissingRequiredAttribute") /\ out' = read
      BY <2>1, <2>5 DEF ParseMapNode, read, size
    <3> QED
      BY <1>2, <2>2, <2>3, <3>1
  <2>6. CASE Has(e, "version") /\ SizesRead(e) = DOMAIN Sizes /\ ~ Succeeded(properties)
    <3>1. Return(properties.ret) /\ out' = read
      BY <2>1, <2>6 DEF ParseMapNode, read, size
    <3>2. properties.ret \notin {"", "kSuccess"}
      BY <2>6, PropertiesParsed DEF Succeeded
    <3> QED
      BY <1>2, <2>2, <2>3, <3>1, <3>2
  <2>7. CASE Has(e, "version") /\ SizesRead(e) = DOMAIN Sizes /\ Succeeded(properties)
    <3>1. /\ out' = [read EXCEPT !.propertyMap = properties.value]
          /\ stage' = "tilesets" /\ queue' = ChildElements(e, "tileset")
          /\ ret' = ret /\ map' = e
      BY <2>1, <2>7 DEF ParseMapNode, read, size
    <3>2. /\ DOMAIN out' = Fields /\ \A collection \in Collections : out'[collection] = <<>>
          /\ out'.tilesets = <<>> /\ out'.size = size
      BY <2>2, <2>3, <3>1 DEF Fields, Collections
    <3>3. PICK W : Whole(W) /\ e \in W
      <4> DEFINE document == open[1]
      <4>1. Tree(document, MaxDepth - 1) /\ MaxDepth - 1 \in 0 .. MaxDepth - 1
        BY StackTypes, MaxDepthAssumption DEF ParserInv, Stack
      <4> HIDE DEF document
      <4>2. PICK nodes : Whole(nodes) /\ document \in nodes
        BY <4>1, TreeIsWhole
      <4>3. e \in nodes
        BY <1>4, <4>2, ChildrenType DEF e, document
      <4> QED
        BY <4>2, <4>3
    <3>4. DOMAIN size = ToSet(Sizes)
      BY <2>7 DEF size, ToSet
    <3>5. HasAll(e, {"version"} \cup ToSet(Sizes))
      <4>1. \A i \in DOMAIN Sizes : Has(e, Sizes[i])
        <5> TAKE i \in DOMAIN Sizes
        <5>1. i \in SizesRead(e) /\ i \in 1 .. i
          BY <2>7 DEF Sizes
        <5> QED
          BY <5>1 DEF SizesRead
      <4> QED
        BY <2>7, <4>1 DEF HasAll, ToSet
    <3>6. MapStarted'
      BY <2>7, <3>1, <3>2, <3>3, <3>4, <3>5, PropertiesParsed DEF MapStarted
    <3>7. Keeping("tilesets", "tileset")'
      <4> DEFINE nodes == ChildElements(e, "tileset")
      <4>1. nodes \in Seq(W) /\ Len(nodes) \in Nat
        BY <3>3, ChildrenType
      <4>2. out'["tilesets"] = <<>>
        BY <3>2 DEF Collections
      <4>3. queue' = nodes /\ map' = e
        BY <3>1
      <4> HIDE DEF nodes
      <4>4. nodes = SubSeq(nodes, 1, Len(nodes))
        BY <4>1, SubSeqFull
      <4>5. /\ IsSequence(<<>>) /\ Len(<<>>) = 0 /\ 0 + 1 = 1 /\ 0 <= Len(nodes)
            /\ \A i \in 1 .. 0 : FALSE
        BY <4>1 DEF IsSequence
      <4>6. ChildElements(map', "tileset") = nodes
        BY <4>3 DEF nodes
      <4> QED
        BY <4>2, <4>3, <4>4, <4>5, <4>6 DEF Keeping, Kept
    <3>8. NoneKept({"layers", "objectGroups", "imageLayers"})'
      BY <3>2 DEF NoneKept, Collections
    <3>9. ret = ""
      BY <1>1 DEF LoaderInv, Returned
    <3> QED
      BY <1>1, <3>1, <3>2, <3>4, <3>6, <3>7, <3>8, <3>9
        DEF LoaderInv, LoopsInv, ParsedIsComplete, Stages, Loops, Returned
  <2> QED
    BY <2>4, <2>5, <2>6, <2>7
<1> QED
  BY <1>3, <1>4

LEMMA TilesetsKeep ==
  ASSUME ParserInv, LoaderInv, stage \in {"tilesets", "readingTileset"}, queue # <<>>,
         NEW r, r.ret # "", Succeeded(r) => CompleteTileset(Head(queue)),
         Keep("tilesets", r, "tilesets")
  PROVE  LoaderInv'
<1>1. CASE ~ Succeeded(r)
  BY <1>1, KeepFails
<1>2. CASE Succeeded(r)
  <2>1. /\ MapStarted /\ DOMAIN out = Fields /\ Keeping("tilesets", "tileset")
        /\ NoneKept({"layers", "objectGroups", "imageLayers"})
        /\ disk \in Disks /\ ret = ""
    BY DEF LoaderInv, LoopsInv, Loops, Returned
  <2>2. CompleteAs("tileset", Head(queue)) /\ "tilesets" \in Collections
    BY <1>2 DEF CompleteAs, Collections
  <2>3. /\ Keeping("tilesets", "tileset")'
        /\ stage' = "tilesets" /\ ret' = ret /\ map' = map /\ disk' = disk
        /\ DOMAIN out' = Fields /\ \A field \in Fields \ {"tilesets"} : out'[field] = out[field]
    BY <1>2, <2>1, <2>2, KeepAdvances
  <2>4. /\ out'.size = out.size
        /\ \A c \in {"layers", "objectGroups", "imageLayers"} : out'[c] = out[c]
    BY <2>3 DEF Fields
  <2>5. MapStarted'
    BY <2>1, <2>3, <2>4 DEF MapStarted
  <2>6. NoneKept({"layers", "objectGroups", "imageLayers"})'
    BY <2>1, <2>4 DEF NoneKept
  <2> QED
    BY <2>1, <2>3, <2>5, <2>6
      DEF LoaderInv, LoopsInv, ParsedIsComplete, Stages, Loops, Returned, MapStarted
<1> QED
  BY <1>1, <1>2

LEMMA LayersKeep ==
  ASSUME LoaderInv, ParseLayer
  PROVE  LoaderInv'
<1> DEFINE r == ParseLayerNode(Head(queue), out.tilesets)
<1>1. /\ stage = "layers" /\ queue # <<>> /\ Keep("layers", r, "layers")
  BY DEF ParseLayer, Loop
<1>2. r.ret # "" /\ (Succeeded(r) => CompleteLayer(Head(queue)))
  BY LayerParsed
<1> HIDE DEF r
<1>3. CASE ~ Succeeded(r)
  BY <1>1, <1>2, <1>3, KeepFails
<1>4. CASE Succeeded(r)
  <2>1. /\ MapStarted /\ DOMAIN out = Fields /\ AllKept("tilesets", "tileset")
        /\ Keeping("layers", "layer") /\ NoneKept({"objectGroups", "imageLayers"})
        /\ disk \in Disks /\ ret = ""
    BY <1>1 DEF LoaderInv, LoopsInv, Loops, Returned
  <2>2. CompleteAs("layer", Head(queue)) /\ "layers" \in Collections
    BY <1>2, <1>4 DEF CompleteAs, Collections
  <2>3. /\ Keeping("layers", "layer")'
        /\ stage' = "layers" /\ ret' = ret /\ map' = map /\ disk' = disk
        /\ DOMAIN out' = Fields /\ \A field \in Fields \ {"layers"} : out'[field] = out[field]
    BY <1>1, <1>4, <2>1, <2>2, KeepAdvances
  <2>4. /\ out'.size = out.size /\ out'["tilesets"] = out["tilesets"]
        /\ \A c \in {"objectGroups", "imageLayers"} : out'[c] = out[c]
    BY <2>3 DEF Fields
  <2>5. MapStarted'
    BY <2>1, <2>3, <2>4 DEF MapStarted
  <2>6. AllKept("tilesets", "tileset")' /\ NoneKept({"objectGroups", "imageLayers"})'
    BY <2>1, <2>3, <2>4, KeptStays DEF NoneKept
  <2> QED
    BY <2>1, <2>3, <2>5, <2>6
      DEF LoaderInv, LoopsInv, ParsedIsComplete, Stages, Loops, Returned, MapStarted
<1> QED
  BY <1>3, <1>4

LEMMA ObjectGroupsKeep ==
  ASSUME LoaderInv, ParseObjectGroup
  PROVE  LoaderInv'
<1> DEFINE r == ParseObjectGroupNode(Head(queue))
<1>1. /\ stage = "objectgroups" /\ queue # <<>> /\ Keep("objectGroups", r, "objectgroups")
  BY DEF ParseObjectGroup, Loop
<1>2. /\ MapStarted /\ DOMAIN out = Fields
      /\ AllKept("tilesets", "tileset") /\ AllKept("layers", "layer")
      /\ Keeping("objectGroups", "objectgroup") /\ NoneKept({"imageLayers"})
      /\ disk \in Disks /\ ret = ""
  BY <1>1 DEF LoaderInv, LoopsInv, Loops, Returned
<1>3. r.ret # "" /\ (Succeeded(r) => CompleteObjectGroup(Head(queue)))
  <2>1. PICK W : Whole(W) /\ Head(queue) \in W
    BY <1>1, <1>2, KeepingAt
  <2> QED
    BY <2>1, ObjectGroupParsed
<1> HIDE DEF r
<1>4. CASE ~ Succeeded(r)
  BY <1>1, <1>3, <1>4, KeepFails
<1>5. CASE Succeeded(r)
  <2>2. CompleteAs("objectgroup", Head(queue)) /\ "objectGroups" \in Collections
    BY <1>3, <1>5 DEF CompleteAs, Collections
  <2>3. /\ Keeping("objectGroups", "objectgroup")'
        /\ stage' = "objectgroups" /\ ret' = ret /\ map' = map /\ disk' = disk
        /\ DOMAIN out' = Fields /\ \A field \in Fields \ {"objectGroups"} : out'[field] = out[field]
    BY <1>1, <1>2, <1>5, <2>2, KeepAdvances
  <2>4. /\ out'.size = out.size /\ out'["imageLayers"] = out["imageLayers"]
        /\ out'["tilesets"] = out["tilesets"] /\ out'["layers"] = out["layers"]
    BY <2>3 DEF Fields
  <2>5. MapStarted'
    BY <1>2, <2>3, <2>4 DEF MapStarted
  <2>6. AllKept("tilesets", "tileset")' /\ AllKept("layers", "layer")' /\ NoneKept({"imageLayers"})'
    BY <1>2, <2>3, <2>4, KeptStays DEF NoneKept
  <2> QED
    BY <1>2, <2>3, <2>5, <2>6
      DEF LoaderInv, LoopsInv, ParsedIsComplete, Stages, Loops, Returned, MapStarted
<1> QED
  BY <1>4, <1>5

LEMMA ImageLayersKeep ==
  ASSUME LoaderInv, ParseImageLayer
  PROVE  LoaderInv'
<1> DEFINE r == ParseImageLayerNode(Head(queue))
<1>1. /\ stage = "imagelayers" /\ queue # <<>> /\ Keep("imageLayers", r, "imagelayers")
  BY DEF ParseImageLayer, Loop
<1>2. /\ MapStarted /\ DOMAIN out = Fields
      /\ AllKept("tilesets", "tileset") /\ AllKept("layers", "layer")
      /\ AllKept("objectGroups", "objectgroup") /\ Keeping("imageLayers", "imagelayer")
      /\ disk \in Disks /\ ret = ""
  BY <1>1 DEF LoaderInv, LoopsInv, Loops, Returned
<1>3. r.ret # "" /\ (Succeeded(r) => CompleteImageLayer(Head(queue)))
  BY ImageLayerParsed
<1> HIDE DEF r
<1>4. CASE ~ Succeeded(r)
  BY <1>1, <1>3, <1>4, KeepFails
<1>5. CASE Succeeded(r)
  <2>2. CompleteAs("imagelayer", Head(queue)) /\ "imageLayers" \in Collections
    BY <1>3, <1>5 DEF CompleteAs, Collections
  <2>3. /\ Keeping("imageLayers", "imagelayer")'
        /\ stage' = "imagelayers" /\ ret' = ret /\ map' = map /\ disk' = disk
        /\ DOMAIN out' = Fields /\ \A field \in Fields \ {"imageLayers"} : out'[field] = out[field]
    BY <1>1, <1>2, <1>5, <2>2, KeepAdvances
  <2>4. /\ out'.size = out.size /\ out'["objectGroups"] = out["objectGroups"]
        /\ out'["tilesets"] = out["tilesets"] /\ out'["layers"] = out["layers"]
    BY <2>3 DEF Fields
  <2>5. MapStarted'
    BY <1>2, <2>3, <2>4 DEF MapStarted
  <2>6. /\ AllKept("tilesets", "tileset")' /\ AllKept("layers", "layer")'
        /\ AllKept("objectGroups", "objectgroup")'
    BY <1>2, <2>3, <2>4, KeptStays
  <2> QED
    BY <1>2, <2>3, <2>5, <2>6
      DEF LoaderInv, LoopsInv, ParsedIsComplete, Stages, Loops, Returned, MapStarted
<1> QED
  BY <1>4, <1>5

LEMMA TilesetNodeKeeps ==
  ASSUME ParserInv, LoaderInv, ParseTilesetNode
  PROVE  LoaderInv' /\ (ParserInv' \/ UNCHANGED xmlVars)
<1> DEFINE e == Head(queue)
<1>1. stage = "tilesets" /\ queue # <<>>
  BY DEF ParseTilesetNode
<1>2. /\ MapStarted /\ Keeping("tilesets", "tileset") /\ disk \in Disks
  BY <1>1 DEF LoaderInv, LoopsInv, Loops
<1>3. PICK W : Whole(W) /\ e \in W
  BY <1>1, <1>2, KeepingAt
<1>4. CASE ~ Has(e, "firstgid")
  <2> DEFINE r == Fail("kMissingRequiredAttribute")
  <2>1. Keep("tilesets", r, "tilesets") /\ UNCHANGED xmlVars
    BY <1>4 DEF ParseTilesetNode
  <2>2. r.ret # "" /\ ~ Succeeded(r)
    BY DEF Fail, Succeeded
  <2> HIDE DEF r
  <2> QED
    BY <1>1, <2>1, <2>2, TilesetsKeep
<1>5. CASE Has(e, "firstgid") /\ Has(e, "source")
  <2>1. /\ Load(UpdatePath(Value(e, "source"), TilesetPath)) /\ stage' = "readingTileset"
        /\ UNCHANGED <<disk, map, queue, out, ret, drawn>>
    BY <1>5 DEF ParseTilesetNode
  <2>2. ParserInv'
    BY <1>2, <2>1, LoadKeeps
  <2>3. MapStarted'
    BY <1>2, <2>1 DEF MapStarted
  <2>4. Keeping("tilesets", "tileset")'
    BY <1>2, <2>1, KeptStays
  <2>5. NoneKept({"layers", "objectGroups", "imageLayers"})'
    BY <1>1, <2>1 DEF LoaderInv, LoopsInv, NoneKept
  <2>6. queue' # <<>> /\ Has(Head(queue'), "firstgid") /\ Has(Head(queue'), "source")
    BY <1>1, <1>5, <2>1
  <2>7. LoopsInv'
    BY <2>1, <2>4, <2>5, <2>6 DEF LoopsInv
  <2> QED
    BY <1>1, <2>1, <2>2, <2>3, <2>7 DEF LoaderInv, ParsedIsComplete, Stages, Loops, Returned
<1>6. CASE Has(e, "firstgid") /\ ~ Has(e, "source")
  <2> DEFINE r == ParseTileset(e, Value(e, "firstgid"))
  <2>1. Keep("tilesets", r, "tilesets") /\ UNCHANGED xmlVars
    BY <1>6 DEF ParseTilesetNode
  <2>2. r.ret # "" /\ (Succeeded(r) => CompleteTileset(e))
    BY <1>3, <1>6, TilesetParsed DEF CompleteTileset
  <2> HIDE DEF r
  <2> QED
    BY <1>1, <2>1, <2>2, TilesetsKeep
<1> QED
  BY <1>4, <1>5, <1>6

LEMMA TilesetReadKeeps ==
  ASSUME ParserInv, LoaderInv, TilesetRead
  PROVE  LoaderInv'
<1> DEFINE e == FirstChildElement(open[1], "tileset")
           r == IF error # "XML_SUCCESS" THEN Fail("kErrorParsing")
                ELSE IF ~HasChild(open[1], "tileset") THEN Fail("kMissingTilesetNode")
                ELSE ParseTileset(e, Value(Head(queue), "firstgid"))
<1>1. stage = "readingTileset" /\ Keep("tilesets", r, "tilesets")
  BY DEF TilesetRead
<1>2. queue # <<>> /\ CompleteTileset(Head(queue))
  BY <1>1 DEF LoaderInv, LoopsInv, CompleteTileset
<1>3. r.ret # ""
  <2>1. CASE error # "XML_SUCCESS" \/ ~ HasChild(open[1], "tileset")
    BY <2>1 DEF Fail
  <2>2. CASE error = "XML_SUCCESS" /\ HasChild(open[1], "tileset")
    <3> DEFINE document == open[1]
    <3>1. Tree(document, MaxDepth - 1) /\ MaxDepth - 1 \in 0 .. MaxDepth - 1
      BY StackTypes, MaxDepthAssumption DEF ParserInv, Stack
    <3> HIDE DEF document
    <3>2. PICK nodes : Whole(nodes) /\ document \in nodes
      BY <3>1, TreeIsWhole
    <3>3. e \in nodes
      BY <2>2, <3>2, ChildrenType DEF document
    <3> HIDE DEF e
    <3>4. ParseTileset(e, Value(Head(queue), "firstgid")).ret # ""
      BY <3>2, <3>3, TilesetParsed
    <3> QED
      BY <2>2, <3>4
  <2> QED
    BY <2>1, <2>2
<1> HIDE DEF r
<1> QED
  BY <1>1, <1>2, <1>3, TilesetsKeep

LEMMA NextLoopAt ==
  ASSUME MapStarted, NEW name, NEW from, NEW then, NextLoop(from, then, name),
         NEW collection, out[collection] = <<>>
  PROVE  MapStarted' /\ Keeping(collection, name)'
<1> DEFINE nodes == ChildElements(map, name)
<1>1. PICK W : Whole(W) /\ map \in W
  BY DEF MapStarted
<1>2. nodes \in Seq(W) /\ Len(nodes) \in Nat
  BY <1>1, ChildrenType
<1>3. queue' = nodes /\ map' = map /\ out' = out
  BY DEF NextLoop
<1>4. ChildElements(map', name) = nodes
  BY <1>3
<1> HIDE DEF nodes
<1>5. nodes = SubSeq(nodes, 1, Len(nodes))
  BY <1>2, SubSeqFull
<1>6. /\ IsSequence(<<>>) /\ Len(<<>>) = 0 /\ 0 + 1 = 1 /\ 0 <= Len(nodes)
      /\ \A i \in 1 .. 0 : FALSE
  BY <1>2 DEF IsSequence
<1>7. Keeping(collection, name)'
  BY <1>3, <1>4, <1>5, <1>6 DEF Keeping, Kept
<1>8. MapStarted'
  BY <1>3 DEF MapStarted
<1> QED
  BY <1>7, <1>8

LEMMA LoopDone ==
  ASSUME MapStarted, NEW collection, NEW name, Keeping(collection, name), queue = <<>>
  PROVE  AllKept(collection, name)
<1>1. Len(out[collection]) = Len(ChildElements(map, name))
  BY KeepingAt
<1> QED
  BY <1>1 DEF Keeping, AllKept

LEMMA NextLoopKeeps ==
  ASSUME LoaderInv,
         \/ NextLoop("tilesets", "layers", "layer")
         \/ NextLoop("layers", "objectgroups", "objectgroup")
         \/ NextLoop("objectgroups", "imagelayers", "imagelayer")
  PROVE  LoaderInv'
<1>1. /\ UNCHANGED <<disk, map, out, ret>> /\ queue = <<>>
      /\ stage \in {"tilesets", "layers", "objectgroups"}
      /\ stage' \in {"layers", "objectgroups", "imagelayers"}
  BY DEF NextLoop
<1>2. MapStarted /\ disk \in Disks /\ DOMAIN out = Fields /\ ret = ""
  BY <1>1 DEF LoaderInv, Loops, Returned
<1>3. MapStarted'
  BY <1>1, <1>2 DEF MapStarted
<1>4. CASE NextLoop("tilesets", "layers", "layer")
  <2>1. stage = "tilesets" /\ stage' = "layers"
    BY <1>4 DEF NextLoop
  <2>2. /\ Keeping("tilesets", "tileset") /\ NoneKept({"layers", "objectGroups", "imageLayers"})
    BY <2>1 DEF LoaderInv, LoopsInv
  <2>3. AllKept("tilesets", "tileset")
    BY <1>1, <1>2, <2>2, LoopDone
  <2>4. AllKept("tilesets", "tileset")'
    BY <1>1, <2>3, KeptStays
  <2>5. Keeping("layers", "layer")'
    BY <1>2, <1>4, <2>2, NextLoopAt DEF NoneKept
  <2>6. NoneKept({"objectGroups", "imageLayers"})'
    BY <1>1, <2>2 DEF NoneKept
  <2>7. LoopsInv'
    BY <2>1, <2>4, <2>5, <2>6 DEF LoopsInv
  <2> QED
    BY <1>1, <1>2, <1>3, <2>1, <2>7
      DEF LoaderInv, ParsedIsComplete, Stages, Loops, Returned, MapStarted
<1>5. CASE NextLoop("layers", "objectgroups", "objectgroup")
  <2>1. stage = "layers" /\ stage' = "objectgroups"
    BY <1>5 DEF NextLoop
  <2>2. /\ AllKept("tilesets", "tileset") /\ Keeping("layers", "layer")
        /\ NoneKept({"objectGroups", "imageLayers"})
    BY <2>1 DEF LoaderInv, LoopsInv
  <2>3. AllKept("layers", "layer")
    BY <1>1, <1>2, <2>2, LoopDone
  <2>4. AllKept("tilesets", "tileset")' /\ AllKept("layers", "layer")'
    BY <1>1, <2>2, <2>3, KeptStays
  <2>5. Keeping("objectGroups", "objectgroup")'
    BY <1>2, <1>5, <2>2, NextLoopAt DEF NoneKept
  <2>6. NoneKept({"imageLayers"})'
    BY <1>1, <2>2 DEF NoneKept
  <2>7. LoopsInv'
    BY <2>1, <2>4, <2>5, <2>6 DEF LoopsInv
  <2> QED
    BY <1>1, <1>2, <1>3, <2>1, <2>7
      DEF LoaderInv, ParsedIsComplete, Stages, Loops, Returned, MapStarted
<1>6. CASE NextLoop("objectgroups", "imagelayers", "imagelayer")
  <2>1. stage = "objectgroups" /\ stage' = "imagelayers"
    BY <1>6 DEF NextLoop
  <2>2. /\ AllKept("tilesets", "tileset") /\ AllKept("layers", "layer")
        /\ Keeping("objectGroups", "objectgroup") /\ NoneKept({"imageLayers"})
    BY <2>1 DEF LoaderInv, LoopsInv
  <2>3. AllKept("objectGroups", "objectgroup")
    BY <1>1, <1>2, <2>2, LoopDone
  <2>4. /\ AllKept("tilesets", "tileset")' /\ AllKept("layers", "layer")'
        /\ AllKept("objectGroups", "objectgroup")'
    BY <1>1, <2>2, <2>3, KeptStays
  <2>5. Keeping("imageLayers", "imagelayer")'
    BY <1>2, <1>6, <2>2, NextLoopAt DEF NoneKept
  <2>7. LoopsInv'
    BY <2>1, <2>4, <2>5 DEF LoopsInv
  <2> QED
    BY <1>1, <1>2, <1>3, <2>1, <2>7
      DEF LoaderInv, ParsedIsComplete, Stages, Loops, Returned, MapStarted
<1> QED
  BY <1>4, <1>5, <1>6

LEMMA AllOfKept ==
  ASSUME MapStarted, NEW collection, NEW name, AllKept(collection, name)
  PROVE  /\ Len(out[collection]) = Len(ChildElements(map, name))
         /\ DOMAIN out[collection] = 1 .. Len(out[collection])
         /\ \A node \in ToSet(ChildElements(map, name)) : CompleteAs(name, node)
<1>1. PICK W : Whole(W) /\ map \in W
  BY DEF MapStarted
<1>2. DOMAIN ChildElements(map, name) = 1 .. Len(ChildElements(map, name))
  BY <1>1, ChildrenType
<1>3. /\ Len(out[collection]) = Len(ChildElements(map, name)) /\ IsSequence(out[collection])
      /\ \A i \in 1 .. Len(ChildElements(map, name)) : CompleteAs(name, ChildElements(map, name)[i])
  BY DEF AllKept, Kept
<1>4. DOMAIN out[collection] = 1 .. Len(out[collection])
  BY <1>3 DEF IsSequence
<1> QED
  BY <1>2, <1>3, <1>4 DEF ToSet

\* The map is returned when all of it has been kept.
LEMMA EndKeeps ==
  ASSUME LoaderInv, ParseEnd
  PROVE  LoaderInv'
<1>1. /\ stage = "imagelayers" /\ queue = <<>> /\ disk' = disk /\ map' = map
      /\ out' = [out EXCEPT !.tilesets = WithPaths(@), !.imageLayers = WithPaths(@)]
      /\ Return("kSuccess")
  BY DEF ParseEnd
<1>2. stage' = "loaded" /\ ret' = "kSuccess"
  BY <1>1 DEF Return
<1>3. /\ MapStarted /\ disk \in Disks /\ DOMAIN out = Fields
      /\ AllKept("tilesets", "tileset") /\ AllKept("layers", "layer")
      /\ AllKept("objectGroups", "objectgroup") /\ Keeping("imageLayers", "imagelayer")
  BY <1>1 DEF LoaderInv, LoopsInv, Loops
<1>4. AllKept("imageLayers", "imagelayer")
  BY <1>1, <1>3, LoopDone
<1>5. CompleteMap(map)
  <2>1. AllOf(map, "tileset", CompleteTileset)
    BY <1>3, AllOfKept DEF AllOf, CompleteAs
  <2>2. AllOf(map, "layer", CompleteLayer)
    BY <1>3, AllOfKept DEF AllOf, CompleteAs
  <2>3. AllOf(map, "objectgroup", CompleteObjectGroup)
    BY <1>3, AllOfKept DEF AllOf, CompleteAs
  <2>4. AllOf(map, "imagelayer", CompleteImageLayer)
    BY <1>3, <1>4, AllOfKept DEF AllOf, CompleteAs
  <2> QED
    BY <1>3, <2>1, <2>2, <2>3, <2>4 DEF CompleteMap, MapStarted
<1>6. /\ DOMAIN out' = Fields /\ out'.size = out.size
      /\ out'["tilesets"] = WithPaths(out["tilesets"])
      /\ out'["imageLayers"] = WithPaths(out["imageLayers"])
      /\ out'["layers"] = out["layers"] /\ out'["objectGroups"] = out["objectGroups"]
  BY <1>1, <1>3 DEF Fields
<1>7. ASSUME NEW items, NEW n \in Nat, Len(items) = n, DOMAIN items = 1 .. n
      PROVE  Len(WithPaths(items)) = n
  BY <1>7 DEF WithPaths
<1>8. \A name : Len(ChildElements(map, name)) \in Nat
  BY <1>3, ChildrenType DEF MapStarted
<1>9. /\ Len(out'["tilesets"]) = Len(ChildElements(map, "tileset"))
      /\ Len(out'["imageLayers"]) = Len(ChildElements(map, "imagelayer"))
  BY <1>3, <1>4, <1>6, <1>7, <1>8, AllOfKept
<1>10. /\ Len(out'["layers"]) = Len(ChildElements(map, "layer"))
       /\ Len(out'["objectGroups"]) = Len(ChildElements(map, "objectgroup"))
  BY <1>3, <1>6, AllOfKept
<1>11. ParsedIsComplete'
  BY <1>1, <1>5, <1>9, <1>10 DEF ParsedIsComplete
<1>12. DOMAIN out'.size = ToSet(Sizes)
  BY <1>3, <1>6 DEF MapStarted
<1> QED
  BY <1>1, <1>2, <1>3, <1>6, <1>11, <1>12
    DEF LoaderInv, LoopsInv, Stages, Loops, Returned

LEMMA OtherVariablesStay ==
  ASSUME LoaderInv, UNCHANGED <<disk, map, queue, out, ret>>, stage' \in Stages,
         stage' # stage => stage' \in Returned /\ stage \in Returned
  PROVE  LoaderInv'
<1>1. MapStarted => MapStarted'
  BY DEF MapStarted
<1>2. \A collection, name : AllKept(collection, name) => AllKept(collection, name)'
  BY KeptStays
<1>3. \A collection, name : Keeping(collection, name) => Keeping(collection, name)'
  BY KeptStays
<1>4. \A collections : NoneKept(collections) => NoneKept(collections)'
  BY DEF NoneKept
<1>5. ParsedIsComplete'
  BY DEF LoaderInv, ParsedIsComplete
<1>6. CASE stage' = stage
  <2>1. LoopsInv'
    BY <1>2, <1>3, <1>4, <1>6 DEF LoaderInv, LoopsInv
  <2> QED
    BY <1>1, <1>4, <1>5, <1>6, <2>1 DEF LoaderInv
<1>7. CASE stage' # stage
  BY <1>5, <1>7 DEF LoaderInv, LoopsInv, Loops, Returned
<1> QED
  BY <1>6, <1>7

LEMMA InitHolds ==
  ASSUME Init
  PROVE  ParserInv /\ LoaderInv
<1>1. ParserInv
  <2>1. text = <<>> /\ open = <<Document>> /\ p = "stopped" /\ live = None
    BY DEF Init, XmlInit
  <2>2. Stack(open) /\ live = Held(open)
    BY <2>1, EmptyStack, Zenon
  <2>3. TextType(text)
    BY <2>1 DEF TextType, IsSequence
  <2>4. DepthInv
    BY DEF Init, XmlInit, DepthInv
  <2> QED
    BY <2>1, <2>2, <2>3, <2>4 DEF ParserInv
<1>2. LoaderInv
  <2>1. /\ stage = "start" /\ ret = "" /\ disk \in Disks /\ DOMAIN out = Fields
        /\ out.tilesets = <<>> /\ \A collection \in Collections : out[collection] = <<>>
    <3>1. /\ stage = "start" /\ ret = "" /\ disk \in Disks /\ out = EmptyMap
      BY DEF Init
    <3>2. /\ DOMAIN EmptyMap = Fields /\ EmptyMap.tilesets = <<>>
      BY DEF EmptyMap, Fields
    <3>3. /\ EmptyMap["tilesets"] = <<>> /\ EmptyMap["layers"] = <<>>
          /\ EmptyMap["objectGroups"] = <<>> /\ EmptyMap["imageLayers"] = <<>>
      BY DEF EmptyMap
    <3> QED
      BY <3>1, <3>2, <3>3 DEF Collections
  <2> QED
    BY <2>1 DEF LoaderInv, LoopsInv, NoneKept, ParsedIsComplete, Stages, Loops, Returned
<1> QED
  BY <1>1, <1>2

LEMMA StepKeeps ==
  ASSUME ParserInv, LoaderInv, [Next]_vars
  PROVE  ParserInv' /\ LoaderInv'
<1>1. ASSUME UNCHANGED xmlVars
      PROVE  ParserInv'
  BY <1>1 DEF xmlVars, ParserInv, DepthInv
<1>2. CASE Open
  <2>1. /\ Load(MapPath) /\ disk \in Disks /\ stage = "start" /\ stage' = "reading"
        /\ UNCHANGED <<disk, map, queue, out, ret>>
    BY <1>2 DEF Open, LoaderInv
  <2>2. ParserInv'
    BY <2>1, LoadKeeps
  <2>3. LoaderInv'
    BY <2>1 DEF LoaderInv, LoopsInv, NoneKept, ParsedIsComplete, Stages, Loops, Returned
  <2> QED
    BY <2>2, <2>3
<1>3. CASE Read
  <2>1. ParserInv'
    BY <1>3, ParseKeeps DEF Read
  <2>2. LoaderInv'
    BY <1>3, OtherVariablesStay DEF Read, mapVars, LoaderInv
  <2> QED
    BY <2>1, <2>2
<1>4. CASE ParseMap
  BY <1>1, <1>4, ParseMapKeeps DEF ParseMap
<1>5. CASE ParseTilesetNode
  BY <1>1, <1>5, TilesetNodeKeeps
<1>6. CASE TilesetRead
  BY <1>1, <1>6, TilesetReadKeeps DEF TilesetRead
<1>7. CASE \/ NextLoop("tilesets", "layers", "layer")
           \/ NextLoop("layers", "objectgroups", "objectgroup")
           \/ NextLoop("objectgroups", "imagelayers", "imagelayer")
  BY <1>1, <1>7, NextLoopKeeps DEF NextLoop
<1>8. CASE ParseLayer
  BY <1>1, <1>8, LayersKeep DEF ParseLayer, Loop
<1>9. CASE ParseObjectGroup
  BY <1>1, <1>9, ObjectGroupsKeep DEF ParseObjectGroup, Loop
<1>10. CASE ParseImageLayer
  BY <1>1, <1>10, ImageLayersKeep DEF ParseImageLayer, Loop
<1>11. CASE ParseEnd
  BY <1>1, <1>11, EndKeeps DEF ParseEnd
<1>12. CASE Setup
  <2>1. /\ UNCHANGED xmlVars /\ UNCHANGED <<disk, map, queue, out, ret>>
        /\ stage = "loaded" /\ stage' \in {"drawn", "crashed"}
    BY <1>12 DEF Setup
  <2>2. LoaderInv'
    BY <2>1, OtherVariablesStay DEF Stages, Returned
  <2> QED
    BY <1>1, <2>1, <2>2
<1>13. CASE UNCHANGED vars
  <2>1. UNCHANGED xmlVars /\ UNCHANGED mapVars
    BY <1>13 DEF vars
  <2>2. LoaderInv'
    BY <2>1, OtherVariablesStay DEF mapVars, LoaderInv
  <2> QED
    BY <1>1, <2>1, <2>2
<1> QED
  BY <1>2, <1>3, <1>4, <1>5, <1>6, <1>7, <1>8, <1>9, <1>10, <1>11, <1>12, <1>13 DEF Next

-----------------------------------------------------------------------------
(* How deep the elements of a text are nested.                               *)

Depth(items, i) == IF i = 0 THEN 0 ELSE Depths(items)[i]

\* The depths after each of the first k items, behind the depth before them.
DepthsTo(items, k, d) ==
  /\ d \in Seq(Int) /\ Len(d) = k + 1 /\ d[1] = 0
  /\ \A i \in 1 .. k : d[i + 1] = d[i] + Nesting(items[i])

LEMMA DeeperBy ==
  ASSUME NEW items, NEW k \in Nat \ {0}, NEW d, DepthsTo(items, k - 1, d)
  PROVE  DepthsTo(items, k, Append(d, Last(d) + Nesting(items[k])))
<1> DEFINE last == Last(d) + Nesting(items[k])
           e == Append(d, last)
<1>1. d \in Seq(Int) /\ Len(d) = k /\ d[1] = 0 /\ \A i \in 1 .. k - 1 : d[i + 1] = d[i] + Nesting(items[i])
  BY DEF DepthsTo
<1>2. Last(d) = d[k] /\ d[k] \in Int
  BY <1>1 DEF Last
<1>3. last \in Int
  BY <1>2 DEF Nesting
<1>4. last = d[k] + Nesting(items[k])
  BY <1>2
<1> HIDE DEF last
<1>5. /\ e \in Seq(Int) /\ Len(e) = k + 1 /\ e[k + 1] = last
      /\ \A i \in 1 .. k : e[i] = d[i]
  BY <1>1, <1>3, AppendProperties
<1> HIDE DEF e
<1>6. \A i \in 1 .. k : e[i + 1] = e[i] + Nesting(items[i])
  <2> TAKE i \in 1 .. k
  <2>1. CASE i = k
    BY <1>4, <1>5, <2>1
  <2>2. CASE i # k
    <3>1. i \in 1 .. k - 1 /\ i + 1 \in 1 .. k
      BY <2>2
    <3> QED
      BY <1>1, <1>5, <3>1
  <2> QED
    BY <2>1, <2>2
<1>7. e[1] = 0
  BY <1>1, <1>5
<1>8. DepthsTo(items, k, e)
  BY <1>5, <1>6, <1>7 DEF DepthsTo
<1> QED
  BY <1>8 DEF e, last

LEMMA DepthsAre ==
  ASSUME NEW items, TextType(items)
  PROVE  /\ DOMAIN Depths(items) = 1 .. Len(items) /\ Depth(items, 0) = 0
         /\ \A i \in 0 .. Len(items) : Depth(items, i) \in Int
         /\ \A i \in 1 .. Len(items) : /\ Depths(items)[i] = Depth(items, i)
                                       /\ Depth(items, i) = Depth(items, i - 1) + Nesting(items[i])
<1> DEFINE n == Len(items)
           S == ToSet(items)
           D == Seq(Int) \ {<< >>}
           step == [x \in D \X S |-> Append(x[1], Last(x[1]) + Nesting(x[2]))]
           Folds(it) == it = [t \in SUBSET (1 .. n) |->
                                IF t = {} THEN <<0>>
                                ELSE Append(it[t \ {Latest(t)}],
                                            Last(it[t \ {Latest(t)}]) + Nesting(items[Latest(t)]))]
<1>1. n \in Nat /\ DOMAIN items = 1 .. n /\ \A i \in 1 .. n : items[i] \in S
  BY IsOfItsMembers DEF TextType
<1>2. Depths(items) = Tail((CHOOSE it : Folds(it))[1 .. n])
  BY <1>1 DEF Depths, FoldLeft, MapThenFoldSet, Latest, Max
<1>3. step \in [D \X S -> D] /\ <<0>> \in D
  <2>1. <<0>> \in D
    OBVIOUS
  <2>2. \A d \in D, item \in S : Append(d, Last(d) + Nesting(item)) \in D
    <3> TAKE d \in D, item \in S
    <3>1. Last(d) \in Int /\ Nesting(item) \in Int
      BY DEF Last, Nesting
    <3>2. Last(d) + Nesting(item) \in Int
      BY <3>1
    <3> QED
      BY <3>2
  <2> HIDE DEF D, S
  <2>3. \A x \in D \X S : Append(x[1], Last(x[1]) + Nesting(x[2])) \in D
    BY <2>2
  <2> QED
    BY <2>1, <2>3
<1> HIDE DEF n, step, S
<1>4. PICK it \in [SUBSET (1 .. n) -> D] : Stepwise(it, step, <<0>>, items, n)
  <2> HIDE DEF D
  <2> QED
    BY <1>1, <1>3, StepwiseExists, Zenon
<1>5. \A t \in SUBSET (1 .. n) :
        Body(it, step, <<0>>, items, t)
          = IF t = {} THEN <<0>>
            ELSE Append(it[t \ {Latest(t)}], Last(it[t \ {Latest(t)}]) + Nesting(items[Latest(t)]))
  <2> SUFFICES ASSUME NEW t \in SUBSET (1 .. n), t # {}
               PROVE  step[<<it[t \ {Latest(t)}], items[Latest(t)]>>]
                        = Append(it[t \ {Latest(t)}], Last(it[t \ {Latest(t)}]) + Nesting(items[Latest(t)]))
    BY Zenon DEF Body
  <2>1. Latest(t) \in 1 .. n /\ t \ {Latest(t)} \in SUBSET (1 .. n)
    BY <1>1, LatestIsOne
  <2> HIDE DEF D
  <2>2. it[t \ {Latest(t)}] \in D /\ items[Latest(t)] \in S
    BY <1>1, <2>1
  <2> QED
    BY <2>2 DEF step
<1>6. Folds(it)
  BY <1>4, <1>5, Zenon DEF Stepwise
<1> DEFINE f == CHOOSE h : Folds(h)
<1>7. Folds(f)
  <2> HIDE DEF Folds
  <2> QED
    BY <1>6, Zenon
<1>8. Depths(items) = Tail(f[1 .. n])
  BY <1>2
<1> HIDE DEF f, D
<1>9. \A k \in 0 .. n : 1 .. k \in SUBSET (1 .. n)
  BY <1>1
<1> DEFINE T == {k \in 0 .. n : DepthsTo(items, k, f[1 .. k])}
<1>10. 0 \in T
  <2>1. 1 .. 0 = {} /\ 0 \in 0 .. n
    BY <1>1
  <2>2. f[1 .. 0] = <<0>>
    BY <1>7, <1>9, <2>1
  <2>3. DepthsTo(items, 0, <<0>>)
    BY DEF DepthsTo
  <2> QED
    BY <2>1, <2>2, <2>3, Zenon
<1>11. \A k \in 1 .. n : k - 1 \in T => k \in T
  <2> SUFFICES ASSUME NEW k \in 1 .. n, k - 1 \in T
               PROVE  DepthsTo(items, k, f[1 .. k])
    BY <1>1
  <2>0. k \in Nat \ {0} /\ k \in 0 .. n
    BY <1>1
  <2>1. 1 .. k # {} /\ Latest(1 .. k) = k /\ (1 .. k) \ {Latest(1 .. k)} = 1 .. (k - 1)
    BY <2>0, PlacesInOrder
  <2>2. f[1 .. k] = Append(f[1 .. (k - 1)], Last(f[1 .. (k - 1)]) + Nesting(items[k]))
    BY <1>7, <1>9, <2>0, <2>1
  <2>3. DepthsTo(items, k - 1, f[1 .. (k - 1)])
    OBVIOUS
  <2> HIDE DEF T, Folds
  <2>4. DepthsTo(items, k, Append(f[1 .. (k - 1)], Last(f[1 .. (k - 1)]) + Nesting(items[k])))
    BY <2>0, <2>3, DeeperBy
  <2> QED
    BY <2>2, <2>4, Zenon
<1> HIDE DEF T, Folds
<1>12. n \in T
  <2>1. n \in 0 .. n
    BY <1>1
  <2>2. \A k \in 0 .. n : k \in T
    BY <1>1, <1>10, <1>11, UpTo
  <2> QED
    BY <2>1, <2>2
<1> DEFINE d == f[1 .. n]
<1>13. d \in Seq(Int) /\ Len(d) = n + 1 /\ d[1] = 0 /\ \A i \in 1 .. n : d[i + 1] = d[i] + Nesting(items[i])
  BY <1>12 DEF T, DepthsTo
<1> HIDE DEF d
<1>14. /\ DOMAIN Tail(d) = 1 .. n
       /\ \A i \in 1 .. n : Tail(d)[i] = d[i + 1]
  <2>1. Tail(d) \in Seq(Int) /\ Len(Tail(d)) = n /\ \A i \in 1 .. Len(Tail(d)) : Tail(d)[i] = d[i + 1]
    BY <1>1, <1>13, HeadTailProperties
  <2> QED
    BY <2>1
<1>15. \A i \in 0 .. n : Depth(items, i) = d[i + 1]
  <2> TAKE i \in 0 .. n
  <2>1. CASE i = 0
    BY <1>13, <2>1 DEF Depth
  <2>2. CASE i # 0
    <3>1. i \in 1 .. n
      BY <1>1, <2>2
    <3> QED
      BY <1>8, <1>14, <2>2, <3>1 DEF Depth, d
  <2> QED
    BY <2>1, <2>2
<1>16. \A i \in 1 .. n : Depth(items, i) = Depth(items, i - 1) + Nesting(items[i])
  <2> TAKE i \in 1 .. n
  <2>1. i \in 0 .. n /\ i - 1 \in 0 .. n /\ (i - 1) + 1 = i
    BY <1>1
  <2>2. Depth(items, i) = d[i + 1] /\ Depth(items, i - 1) = d[i]
    BY <1>15, <2>1
  <2> QED
    BY <1>13, <2>2
<1>17. \A i \in 0 .. n : Depth(items, i) \in Int
  BY <1>1, <1>13, <1>15
<1>18. \A i \in 1 .. n : Depths(items)[i] = Depth(items, i)
  BY <1>1 DEF Depth
<1>19. DOMAIN Depths(items) = 1 .. n
  BY <1>8, <1>14 DEF d
<1> QED
  BY <1>16, <1>17, <1>18, <1>19 DEF Depth, n

-----------------------------------------------------------------------------
(* What makes a text well formed, seen from one of its places.               *)

\* All that a well formed text asks of an item that is in it.
Admitted(items, i) ==
  /\ Depth(items, i) >= 0 /\ Depth(items, i) < MaxDepth - 1 /\ Sound(items, i)
  /\ Closes(items[i]) => Matched(items, Depths(items), i)
  /\ WellPlaced(items, i)

LEMMA LastPlace ==
  ASSUME NEW n \in Nat, NEW T, T \subseteq 1 .. n, T # {}
  PROVE  Max(T) \in T /\ \A y \in T : y <= Max(T)
<1>1. Latest(T) \in T /\ \A y \in T : Latest(T) >= y
  BY LatestIsOne
<1>2. Max(T) = Latest(T)
  BY Zenon DEF Max, Latest
<1>3. Latest(T) \in 1 .. n /\ \A y \in T : y \in 1 .. n
  BY <1>1
<1>4. \A y \in T : y <= Latest(T)
  BY <1>1, <1>3
<1> QED
  BY <1>1, <1>2, <1>4, Zenon

LEMMA BeforeIs ==
  ASSUME NEW items, TextType(items), NEW c \in 0 .. Len(items),
         \A i \in 1 .. c : Depth(items, i) >= 0
  PROVE  /\ 1 .. c \subseteq Before(Depths(items))
         /\ (c = Len(items) \/ Depth(items, c + 1) < 0) => Before(Depths(items)) = 1 .. c
<1> DEFINE n == Len(items)
           depths == Depths(items)
<1>1. n \in Nat
  BY DEF TextType, IsSequence
<1>2. DOMAIN depths = 1 .. n /\ \A i \in 1 .. n : depths[i] = Depth(items, i)
  BY DepthsAre
<1>3. Before(depths) = {i \in 1 .. n : \A j \in 1 .. i : depths[j] >= 0}
  BY <1>2 DEF Before
<1> HIDE DEF n, depths
<1>4. 1 .. c \subseteq Before(depths)
  <2> SUFFICES ASSUME NEW i \in 1 .. c
               PROVE  i \in 1 .. n /\ \A j \in 1 .. i : depths[j] >= 0
    BY <1>3
  <2>1. i \in 1 .. n /\ \A j \in 1 .. i : j \in 1 .. c /\ j \in 1 .. n
    BY <1>1 DEF n
  <2> QED
    BY <1>2, <2>1
<1>5. ASSUME c = n \/ Depth(items, c + 1) < 0
      PROVE  Before(depths) \subseteq 1 .. c
  <2> SUFFICES ASSUME NEW i \in 1 .. n, \A j \in 1 .. i : depths[j] >= 0
               PROVE  i \in 1 .. c
    BY <1>3
  <2>1. CASE c = n
    BY <2>1
  <2>2. CASE Depth(items, c + 1) < 0
    <3> SUFFICES ASSUME c + 1 \in 1 .. i
                 PROVE  FALSE
      BY <1>1 DEF n
    <3>1. depths[c + 1] = Depth(items, c + 1) /\ depths[c + 1] >= 0 /\ c + 1 \in 0 .. n
      BY <1>1, <1>2
    <3>2. Depth(items, c + 1) \in Int
      BY <3>1, DepthsAre DEF n
    <3> QED
      BY <2>2, <3>1, <3>2
  <2> QED
    BY <1>5, <2>1, <2>2
<1> QED
  BY <1>4, <1>5 DEF n, depths

LEMMA UnsoundIsNot ==
  ASSUME NEW items, TextType(items), NEW c \in Nat, c < Len(items),
         \A i \in 1 .. c : Depth(items, i) >= 0, ~ Sound(items, c + 1)
  PROVE  ~ WellFormed(items)
<1>1. Len(items) \in Nat /\ DOMAIN items = 1 .. Len(items)
  BY IsOfItsMembers DEF TextType
<1>2. c \in 0 .. Len(items) /\ c + 1 \in DOMAIN items /\ (c + 1) - 1 = c
  BY <1>1
<1>3. 1 .. c \subseteq Before(Depths(items))
  BY <1>2, BeforeIs
<1>4. c \in Before(Depths(items)) \cup {0}
  <2>1. c = 0 \/ c \in 1 .. c
    OBVIOUS
  <2> QED
    BY <1>3, <2>1
<1> QED
  BY <1>2, <1>4, Zenon DEF WellFormed

LEMMA MisplacedIsNot ==
  ASSUME NEW items, TextType(items), NEW c \in Nat, c < Len(items),
         \A i \in 1 .. c + 1 : Depth(items, i) >= 0,
         \/ ~ (Depth(items, c + 1) < MaxDepth - 1)
         \/ Closes(items[c + 1]) /\ ~ Matched(items, Depths(items), c + 1)
         \/ ~ WellPlaced(items, c + 1)
  PROVE  ~ WellFormed(items)
<1>1. Len(items) \in Nat
  BY DEF TextType, IsSequence
<1>2. c + 1 \in 0 .. Len(items) /\ c + 1 \in 1 .. Len(items) /\ c + 1 \in 1 .. c + 1
  BY <1>1
<1>3. c + 1 \in Before(Depths(items))
  BY <1>2, BeforeIs
<1>4. Depths(items)[c + 1] = Depth(items, c + 1)
  BY <1>2, DepthsAre
<1> QED
  BY <1>3, <1>4, Zenon DEF WellFormed

LEMMA UnendedIsNot ==
  ASSUME NEW items, TextType(items), Len(items) # 0,
         \A i \in 1 .. Len(items) : Depth(items, i) >= 0, Depth(items, Len(items)) # 0
  PROVE  ~ WellFormed(items)
<1> DEFINE n == Len(items)
<1>1. n \in Nat \ {0} /\ n \in 0 .. n /\ n \in 1 .. n
  BY DEF TextType, IsSequence
<1>2. Before(Depths(items)) = 1 .. n
  BY <1>1, BeforeIs
<1>3. Depths(items)[n] = Depth(items, n)
  BY <1>1, DepthsAre
<1>4. Max(1 .. n) = n /\ 1 .. n # {}
  <2> HIDE DEF n
  <2>1. 1 .. n # {} /\ 1 .. n \subseteq 1 .. n
    BY <1>1
  <2>2. Max(1 .. n) \in 1 .. n /\ n <= Max(1 .. n)
    BY <1>1, <2>1, LastPlace
  <2> QED
    BY <1>1, <2>1, <2>2
<1> QED
  BY <1>2, <1>3, <1>4, Zenon DEF WellFormed

LEMMA AdmittedIs ==
  ASSUME NEW items, TextType(items), ~ Blank(items), NEW c \in 0 .. Len(items),
         \A i \in 1 .. c : Admitted(items, i), Depth(items, c) = 0,
         c = Len(items) \/ (Depth(items, c + 1) < 0 /\ Sound(items, c + 1))
  PROVE  WellFormed(items)
<1> DEFINE before == Before(Depths(items))
           n == Len(items)
<1>1. n \in Nat /\ DOMAIN items = 1 .. n
  BY IsOfItsMembers DEF TextType
<1>2. before = 1 .. c
  <2>1. \A i \in 1 .. c : Depth(items, i) >= 0
    BY DEF Admitted
  <2> QED
    BY <2>1, BeforeIs
<1>0. c \in 0 .. n /\ \A i \in 1 .. n : Depths(items)[i] = Depth(items, i)
  BY DepthsAre
<1> HIDE DEF n
<1>3. \A i \in 1 .. c : Depths(items)[i] = Depth(items, i)
  BY <1>0, <1>1
<1> HIDE DEF before
<1>4. \A i \in DOMAIN items : (i \in before \/ i - 1 \in before \cup {0}) => Sound(items, i)
  <2> SUFFICES ASSUME NEW i \in DOMAIN items, i \in before \/ i - 1 \in before \cup {0}
               PROVE  Sound(items, i)
    OBVIOUS
  <2>1. i \in 1 .. n /\ (i \in 1 .. c \/ i - 1 \in 1 .. c \/ i - 1 = 0)
    BY <1>1, <1>2
  <2>2. i \in 1 .. c \/ i = c + 1
    BY <1>0, <1>1, <2>1
  <2>3. CASE i \in 1 .. c
    BY <2>3 DEF Admitted
  <2>4. CASE i = c + 1
    <3>1. c # n
      BY <1>0, <1>1, <2>1, <2>4
    <3> QED
      BY <2>4, <3>1 DEF n
  <2> QED
    BY <2>2, <2>3, <2>4
<1>5. \A i \in before : /\ Depths(items)[i] < MaxDepth - 1
                        /\ Closes(items[i]) => Matched(items, Depths(items), i)
                        /\ WellPlaced(items, i)
  BY <1>2, <1>3 DEF Admitted
<1>6. before # {} => Depths(items)[Max(before)] = 0
  <2> SUFFICES ASSUME before # {}
               PROVE  Depths(items)[Max(before)] = 0
    OBVIOUS
  <2>1. c \in Nat \ {0} /\ 1 .. c \subseteq 1 .. c /\ 1 .. c # {} /\ c \in 1 .. c
    BY <1>0, <1>1, <1>2
  <2>2. Max(1 .. c) \in 1 .. c /\ c <= Max(1 .. c)
    BY <2>1, LastPlace
  <2>3. Max(1 .. c) = c
    BY <2>1, <2>2
  <2> QED
    BY <1>2, <1>3, <2>1, <2>3
<1> QED
  BY <1>4, <1>5, <1>6, Zenon DEF WellFormed, before

-----------------------------------------------------------------------------
(* The stack when the first c items are read: what these have open.          *)

OpenedAt(items, k, c) == {j \in 1 .. c : Opens(items[j]) /\ Depth(items, j) = k}

\* At every depth the element opened last is open.
AllOpen(items, c, s) ==
  /\ Len(s) - 1 = Depth(items, c)
  /\ \A k \in 1 .. Len(s) - 1 : /\ OpenedAt(items, k, c) # {}
                                /\ s[k + 1].name = items[Max(OpenedAt(items, k, c))].name

IsDeclaration(node) == node.kind = "declaration"
OnlyDeclarations(nodes) == \A i \in DOMAIN nodes : IsDeclaration(nodes[i])
OnlyPrologue(items, c) == \A i \in 1 .. c : items[i].kind \in {"declaration", "space"}

\* Before anything else than declarations the document has no other children.
Prologue(items, c, s) ==
  /\ OnlyPrologue(items, c) <=> Len(s) = 1 /\ OnlyDeclarations(s[1].kids)
  /\ s[1].kids # << >> /\ IsDeclaration(Last(s[1].kids)) => OnlyDeclarations(s[1].kids)

LEMMA RestOfText ==
  ASSUME NEW items, TextType(items), NEW c \in 0 .. Len(items), NEW t, t = SubSeq(items, c + 1, Len(items))
  PROVE  /\ t \in Seq(ToSet(items)) /\ Len(t) = Len(items) - c /\ (t = << >> <=> c = Len(items))
         /\ t # << >> => /\ c < Len(items) /\ c + 1 \in 1 .. Len(items) /\ ItemType(items[c + 1])
                         /\ Head(t) = items[c + 1] /\ Tail(t) = SubSeq(items, (c + 1) + 1, Len(items))
<1> DEFINE n == Len(items)
           S == ToSet(items)
<1>1. items \in Seq(S) /\ n \in Nat /\ DOMAIN items = 1 .. n /\ \A i \in 1 .. n : ItemType(items[i])
  BY IsOfItsMembers DEF TextType
<1>2. c \in Nat /\ c <= n /\ (c + 1) - 1 = c
  BY <1>1
<1>3. \A i \in c + 1 .. n : items[i] \in S
  <2> HIDE DEF S
  <2> QED
    BY <1>1, <1>2
<1>4. /\ t \in Seq(S)
      /\ Len(t) = IF c + 1 <= n THEN n - (c + 1) + 1 ELSE 0
  <2> HIDE DEF S
  <2>1. c + 1 \in Int /\ n \in Int
    BY <1>1, <1>2
  <2> QED
    BY <1>3, <2>1, SubSeqProperties
<1> HIDE DEF n, S
<1>5. Len(t) = n - c
  BY <1>1, <1>2, <1>4
<1>6. t = << >> <=> c = n
  <2>1. t = << >> <=> Len(t) = 0
    BY <1>4, EmptySeq
  <2> QED
    BY <1>1, <1>2, <1>5, <2>1
<1>7. ASSUME t # << >>
      PROVE  /\ c < n /\ c + 1 \in 1 .. n /\ ItemType(items[c + 1])
             /\ Head(t) = items[c + 1] /\ Tail(t) = SubSeq(items, (c + 1) + 1, n)
  <2>1. c < n /\ c + 1 \in 1 .. n /\ n \in c + 1 .. n
    BY <1>1, <1>2, <1>6, <1>7
  <2>2. c + 1 \in 1 .. Len(items) /\ n \in c + 1 .. Len(items)
    BY <2>1 DEF n
  <2>3. t = SubSeq(items, c + 1, n)
    BY DEF n
  <2>4. Head(t) = items[c + 1] /\ Tail(t) = SubSeq(items, (c + 1) + 1, n)
    BY <1>1, <2>2, <2>3, HeadTailOfSubSeq
  <2> QED
    BY <1>1, <2>1, <2>4
<1> QED
  BY <1>4, <1>5, <1>6, <1>7 DEF n, S

LEMMA OpenedNext ==
  ASSUME NEW items, NEW c \in Nat, NEW k, ~ (Opens(items[c + 1]) /\ Depth(items, c + 1) = k)
  PROVE  OpenedAt(items, k, c + 1) = OpenedAt(items, k, c)
<1>1. 1 .. c + 1 = 1 .. c \cup {c + 1}
  OBVIOUS
<1> QED
  BY <1>1 DEF OpenedAt

\* A stack that only loses elements is that of the items up to one more.
LEMMA StillOpen ==
  ASSUME NEW items, TextType(items), NEW c \in Nat, c < Len(items),
         NEW s, Len(s) \in Nat, AllOpen(items, c, s), ~ Opens(items[c + 1]),
         NEW t, Len(t) \in Nat, Len(t) <= Len(s), Depth(items, c + 1) = Len(t) - 1,
         \A k \in 1 .. Len(t) : t[k].name = s[k].name
  PROVE  AllOpen(items, c + 1, t)
<1>1. ASSUME NEW k \in 1 .. Len(t) - 1
      PROVE  /\ OpenedAt(items, k, c + 1) # {}
             /\ t[k + 1].name = items[Max(OpenedAt(items, k, c + 1))].name
  <2>1. OpenedAt(items, k, c + 1) = OpenedAt(items, k, c)
    BY OpenedNext
  <2>2. k \in 1 .. Len(s) - 1 /\ k + 1 \in 1 .. Len(t)
    OBVIOUS
  <2>3. t[k + 1].name = s[k + 1].name
    BY <2>2
  <2>4. OpenedAt(items, k, c) # {} /\ s[k + 1].name = items[Max(OpenedAt(items, k, c))].name
    BY <2>2 DEF AllOpen
  <2> QED
    BY <2>1, <2>3, <2>4, Zenon
<1> QED
  BY <1>1, Zenon DEF AllOpen

LEMMA OneMoreOpen ==
  ASSUME NEW items, TextType(items), NEW c \in Nat, c < Len(items),
         NEW S, NEW s \in Seq(S), s # << >>, AllOpen(items, c, s), Opens(items[c + 1]),
         NEW e, e.name = items[c + 1].name
  PROVE  /\ Depth(items, c + 1) = Len(s)
         /\ AllOpen(items, c + 1, Append(s, e))
<1> DEFINE t == Append(s, e)
           n == Len(s)
<1>1. n \in Nat \ {0}
  BY EmptySeq
<1>2. Len(t) = n + 1 /\ t[n + 1] = e /\ \A k \in 1 .. n : t[k] = s[k]
  <2>1. s \in Seq(S \cup {e}) /\ e \in S \cup {e}
    BY SeqMonotonic
  <2> QED
    BY <2>1, AppendProperties
<1>3. c + 1 \in 1 .. Len(items) /\ (c + 1) - 1 = c
  BY DEF TextType, IsSequence
<1>4. Depth(items, c + 1) = n
  <2>1. Depth(items, c + 1) = Depth(items, c) + Nesting(items[c + 1])
    BY <1>3, DepthsAre
  <2>2. Nesting(items[c + 1]) = 1
    BY DEF Nesting
  <2>3. Depth(items, c) = n - 1
    BY DEF AllOpen
  <2> QED
    BY <1>1, <2>1, <2>2, <2>3
<1> HIDE DEF t, n
<1>5. ASSUME NEW k \in 1 .. n
      PROVE  /\ OpenedAt(items, k, c + 1) # {}
             /\ t[k + 1].name = items[Max(OpenedAt(items, k, c + 1))].name
  <2> DEFINE now == OpenedAt(items, k, c + 1)
  <2>1. CASE k = n
    <3>1. c + 1 \in now
      BY <1>3, <1>4, <2>1 DEF OpenedAt
    <3>2. now \subseteq 1 .. c + 1 /\ c + 1 \in Nat
      BY DEF OpenedAt
    <3> HIDE DEF now
    <3>3. Max(now) \in now /\ c + 1 <= Max(now)
      BY <3>1, <3>2, LastPlace
    <3>4. Max(now) \in 1 .. c + 1
      BY <3>2, <3>3
    <3>5. Max(now) = c + 1
      BY <3>3, <3>4
    <3> QED
      BY <1>2, <2>1, <3>1, <3>5 DEF now
  <2>2. CASE k # n
    <3>1. now = OpenedAt(items, k, c)
      BY <1>4, <2>2, OpenedNext
    <3>2. k \in 1 .. n - 1 /\ k + 1 \in 1 .. n
      BY <1>1, <2>2
    <3>3. t[k + 1] = s[k + 1]
      BY <1>2, <3>2
    <3>4. OpenedAt(items, k, c) # {} /\ s[k + 1].name = items[Max(OpenedAt(items, k, c))].name
      BY <3>2 DEF AllOpen, n
    <3> QED
      BY <3>1, <3>3, <3>4, Zenon
  <2> QED
    BY <2>1, <2>2
<1>6. Len(t) - 1 = n
  BY <1>1, <1>2
<1>7. AllOpen(items, c + 1, t)
  BY <1>4, <1>5, <1>6, Zenon DEF AllOpen
<1> QED
  BY <1>4, <1>7 DEF t, n

\* The innermost element is the one an end tag has to end.
LEMMA InnermostIsMatched ==
  ASSUME NEW items, TextType(items), NEW c \in Nat, c < Len(items),
         NEW s, Len(s) \in Nat, Len(s) > 1, AllOpen(items, c, s), Closes(items[c + 1])
  PROVE  /\ Depth(items, c + 1) = Len(s) - 2
         /\ Matched(items, Depths(items), c + 1) <=> s[Len(s)].name = items[c + 1].name
<1> DEFINE n == Len(s)
           k == n - 1
<1>1. n \in Nat /\ n > 1 /\ k \in 1 .. n - 1 /\ k + 1 = n
  OBVIOUS
<1>2. Len(items) \in Nat /\ c + 1 \in 1 .. Len(items) /\ (c + 1) - 1 = c
  BY DEF TextType, IsSequence
<1>3. Depth(items, c + 1) = n - 2
  <2>1. Depth(items, c + 1) = Depth(items, c) + Nesting(items[c + 1])
    BY <1>2, DepthsAre
  <2>2. Nesting(items[c + 1]) = -1
    BY DEF Nesting, Opens, Closes
  <2>3. Depth(items, c) = n - 1
    BY DEF AllOpen
  <2> QED
    BY <1>1, <2>1, <2>2, <2>3
<1>4. {j \in 1 .. (c + 1) - 1 : Opens(items[j]) /\ Depths(items)[j] = Depths(items)[c + 1] + 1}
        = OpenedAt(items, k, c)
  <2>1. Depths(items)[c + 1] + 1 = k
    <3>1. Depths(items)[c + 1] = n - 2
      BY <1>2, <1>3, DepthsAre
    <3> QED
      BY <1>1, <3>1
  <2>2. \A j \in 1 .. c : Depths(items)[j] = Depth(items, j)
    <3>1. \A j \in 1 .. c : j \in 1 .. Len(items)
      BY <1>2
    <3> QED
      BY <3>1, DepthsAre
  <2> HIDE DEF k
  <2> QED
    BY <1>2, <2>1, <2>2 DEF OpenedAt
<1>5. s[k + 1].name = items[Max(OpenedAt(items, k, c))].name
  BY <1>1 DEF AllOpen
<1> HIDE DEF k
<1>6. Matched(items, Depths(items), c + 1) <=> items[Max(OpenedAt(items, k, c))].name = items[c + 1].name
  BY <1>4, Zenon DEF Matched
<1> QED
  BY <1>1, <1>3, <1>5, <1>6

-----------------------------------------------------------------------------
(* How far the parser has come, seen from the whole text.                    *)

\* The first c items are read and admitted, the others are still to come.
ReadTo(items, c, t, s) ==
  /\ t = SubSeq(items, c + 1, Len(items))
  /\ \A i \in 1 .. c : Admitted(items, i)
  /\ AllOpen(items, c, s) /\ Prologue(items, c, s)

LEMMA InsertedIs ==
  ASSUME NEW s, Stack(s), NEW kid
  PROVE  LET more == InsertEndChild(s, kid)
         IN  /\ Len(more) = Len(s) /\ \A i \in 1 .. Len(s) : more[i].name = s[i].name
             /\ Len(s) # 1 => more[1] = s[1]
             /\ Len(s) = 1 => more[1].kids = Append(s[1].kids, kid)
<1> DEFINE n == Len(s)
           more == InsertEndChild(s, kid)
<1>1. /\ s \in Seq(ToSet(s)) /\ DOMAIN s = 1 .. n /\ n \in Nat \ {0}
  BY StackTypes
<1>2. more = [i \in 1 .. n |-> IF i = n THEN WithKid(s[n], kid) ELSE s[i]]
  BY <1>1 DEF InsertEndChild, WithKid
<1>3. \A i \in 1 .. n : NodeType(s[i])
  BY DEF Stack, Tree
<1>4. WithKid(s[n], kid).name = s[n].name /\ WithKid(s[n], kid).kids = Append(s[n].kids, kid)
  <2>1. NodeType(s[n])
    BY <1>1, <1>3
  <2>2. WithKid(s[n], kid).name = s[n].name /\ WithKid(s[n], kid).kids = s[n].kids \o <<kid>>
    BY <2>1, InsertedKid
  <2>3. s[n].kids \in Seq(ToSet(s[n].kids) \cup {kid})
    BY <2>1, IsOfItsMembers, SeqMonotonic DEF NodeType
  <2>4. Append(s[n].kids, kid) = s[n].kids \o <<kid>>
    BY <2>3, AppendIsConcat
  <2> QED
    BY <2>2, <2>4
<1> HIDE DEF more, n
<1>5. Len(more) = n /\ \A i \in 1 .. n : more[i] = IF i = n THEN WithKid(s[n], kid) ELSE s[i]
  BY <1>1, <1>2
<1>6. \A i \in 1 .. n : more[i].name = s[i].name
  BY <1>4, <1>5
<1>7. n # 1 => more[1] = s[1]
  BY <1>1, <1>5
<1>8. n = 1 => more[1].kids = Append(s[1].kids, kid)
  BY <1>1, <1>4, <1>5
<1> QED
  BY <1>5, <1>6, <1>7, <1>8 DEF more, n

LEMMA OneMoreKid ==
  ASSUME NEW kids, IsSequence(kids), NEW kid
  PROVE  /\ Append(kids, kid) # << >> /\ Last(Append(kids, kid)) = kid
         /\ OnlyDeclarations(Append(kids, kid)) <=> OnlyDeclarations(kids) /\ IsDeclaration(kid)
<1> DEFINE S == ToSet(kids) \cup {kid}
           n == Len(kids)
           more == Append(kids, kid)
<1>1. kids \in Seq(S) /\ n \in Nat /\ DOMAIN kids = 1 .. n
  BY IsOfItsMembers, SeqMonotonic
<1>2. /\ more \in Seq(S) /\ Len(more) = n + 1 /\ more[n + 1] = kid
      /\ \A i \in 1 .. n : more[i] = kids[i]
  <2> HIDE DEF more
  <2> QED
    BY <1>1, AppendProperties DEF more
<1> HIDE DEF more, S, n
<1>3. DOMAIN more = 1 .. n + 1
  BY <1>2
<1>4. more # << >>
  BY <1>1, <1>2, EmptySeq
<1>5. Last(more) = kid
  BY <1>2 DEF Last
<1>6. OnlyDeclarations(more) <=> OnlyDeclarations(kids) /\ IsDeclaration(kid)
  <2>1. 1 .. n + 1 = 1 .. n \cup {n + 1}
    BY <1>1
  <2> QED
    BY <1>1, <1>2, <1>3, <2>1 DEF OnlyDeclarations
<1> QED
  BY <1>4, <1>5, <1>6 DEF more

LEMMA PrologueNext ==
  ASSUME NEW items, NEW c \in Nat
  PROVE  OnlyPrologue(items, c + 1)
           <=> OnlyPrologue(items, c) /\ items[c + 1].kind \in {"declaration", "space"}
<1>1. 1 .. c + 1 = 1 .. c \cup {c + 1}
  OBVIOUS
<1> QED
  BY <1>1 DEF OnlyPrologue

LEMMA PrologueInserted ==
  ASSUME NEW items, NEW c \in Nat, NEW s, Prologue(items, c, s),
         NEW r, Stack(r), r[1] = s[1], NEW node, items[c + 1].kind # "space",
         IsDeclaration(node) <=> items[c + 1].kind = "declaration",
         IsDeclaration(node) => r = s /\ OnlyPrologue(items, c)
  PROVE  Prologue(items, c + 1, InsertEndChild(r, node))
<1> DEFINE more == InsertEndChild(r, node)
           kids == r[1].kids
<1>1. /\ Len(more) = Len(r)
      /\ Len(r) # 1 => more[1] = r[1]
      /\ Len(r) = 1 => more[1].kids = Append(kids, node)
  BY InsertedIs
<1>2. IsSequence(kids)
  <2>1. 1 \in 1 .. Len(r)
    BY StackTypes
  <2> QED
    BY <2>1 DEF Stack, Tree, NodeType
<1>3. /\ Append(kids, node) # << >> /\ Last(Append(kids, node)) = node
      /\ OnlyDeclarations(Append(kids, node)) <=> OnlyDeclarations(kids) /\ IsDeclaration(node)
  BY <1>2, OneMoreKid
<1>4. OnlyPrologue(items, c + 1) <=> OnlyPrologue(items, c) /\ items[c + 1].kind \in {"declaration", "space"}
  BY PrologueNext
<1>5. (kids # << >> /\ IsDeclaration(Last(kids))) => OnlyDeclarations(kids)
  BY Zenon DEF Prologue
<1> HIDE DEF more, kids
<1>6. ASSUME OnlyPrologue(items, c + 1) <=> Len(more) = 1 /\ OnlyDeclarations(more[1].kids),
             more[1].kids # << >> /\ IsDeclaration(Last(more[1].kids)) => OnlyDeclarations(more[1].kids)
      PROVE  Prologue(items, c + 1, more)
  BY <1>6, Zenon DEF Prologue
<1>7. CASE IsDeclaration(node)
  <2>1. Len(r) = 1 /\ OnlyDeclarations(kids)
    BY <1>7, Zenon DEF Prologue, kids
  <2>2. OnlyPrologue(items, c + 1)
    BY <1>4, <1>7
  <2>3. more[1].kids = Append(kids, node) /\ Len(more) = 1
    BY <1>1, <2>1, Zenon
  <2>4. OnlyDeclarations(more[1].kids)
    BY <1>3, <1>7, <2>1, <2>3, Zenon
  <2> QED
    BY <1>6, <2>2, <2>3, <2>4, Zenon DEF more
<1>8. CASE ~ IsDeclaration(node)
  <2>1. ~ OnlyPrologue(items, c + 1)
    BY <1>4, <1>8
  <2>2. CASE Len(r) = 1
    <3>1. more[1].kids = Append(kids, node)
      BY <1>1, <2>2, Zenon
    <3>2. ~ OnlyDeclarations(more[1].kids) /\ ~ IsDeclaration(Last(more[1].kids))
      BY <1>3, <1>8, <3>1, Zenon
    <3> QED
      BY <1>6, <2>1, <3>2, Zenon DEF more
  <2>3. CASE Len(r) # 1
    <3>1. more[1].kids = kids /\ Len(more) # 1
      BY <1>1, <2>3, Zenon DEF kids
    <3> QED
      BY <1>5, <1>6, <2>1, <3>1, Zenon DEF more
  <2> QED
    BY <2>2, <2>3
<1> QED
  BY <1>7, <1>8

LEMMA ProloguePushed ==
  ASSUME NEW items, NEW c \in Nat, NEW s, Stack(s), Prologue(items, c, s), NEW e,
         items[c + 1].kind = "tag"
  PROVE  Prologue(items, c + 1, Append(s, e))
<1> DEFINE more == Append(s, e)
           n == Len(s)
<1>1. Len(more) = n + 1 /\ more[1] = s[1] /\ n \in Nat \ {0}
  <2>1. s \in Seq(ToSet(s) \cup {e}) /\ n \in Nat \ {0}
    BY StackTypes, SeqMonotonic
  <2>2. Len(more) = Len(s) + 1 /\ \A i \in 1 .. Len(s) : more[i] = s[i]
    <3> HIDE DEF more
    <3> QED
      BY <2>1, AppendProperties DEF more
  <2> HIDE DEF more, n
  <2> QED
    BY <2>1, <2>2 DEF n
<1> HIDE DEF more, n
<1>2. Len(more) # 1
  BY <1>1
<1>3. ~ OnlyPrologue(items, c + 1)
  BY PrologueNext
<1> QED
  BY <1>1, <1>2, <1>3, Zenon DEF Prologue, more

\* An end tag that is missing or too many, seen from where the parser is.
LEMMA DepthNext ==
  ASSUME NEW items, TextType(items), NEW c \in Nat, c < Len(items)
  PROVE  /\ Depth(items, c) \in Int
         /\ Depth(items, c + 1) = Depth(items, c) + Nesting(items[c + 1])
<1>1. c + 1 \in 1 .. Len(items) /\ (c + 1) - 1 = c /\ c \in 0 .. Len(items)
  BY DEF TextType, IsSequence
<1> QED
  BY <1>1, DepthsAre

LEMMA TagErrors ==
  ASSUME NEW tag, IsSequence(tag.attrs)
  PROVE  TagError(tag) = "XML_SUCCESS" <=> SoundTag(tag)
<1> DEFINE attrs == tag.attrs
           n == Len(attrs)
           Bad == \E i \in DOMAIN attrs : ~ attrs[i].ok \/ \E j \in 1 .. i - 1 : attrs[j].name = attrs[i].name
           Good == \A i, j \in DOMAIN attrs : /\ attrs[i].ok
                                              /\ i # j => attrs[i].name # attrs[j].name
<1>1. n \in Nat /\ DOMAIN attrs = 1 .. n
  BY IsOfItsMembers
<1> HIDE DEF n
<1>2. Bad => ~ Good
  <2> SUFFICES ASSUME NEW i \in DOMAIN attrs, ~ attrs[i].ok \/ \E j \in 1 .. i - 1 : attrs[j].name = attrs[i].name
               PROVE  ~ Good
    OBVIOUS
  <2>1. CASE ~ attrs[i].ok
    BY <2>1
  <2>2. ASSUME NEW j \in 1 .. i - 1, attrs[j].name = attrs[i].name
        PROVE  ~ Good
    <3>1. j \in DOMAIN attrs /\ i # j
      BY <1>1
    <3> QED
      BY <2>2, <3>1
  <2> QED
    BY <2>1, <2>2
<1>3. ~ Bad => Good
  <2> SUFFICES ASSUME ~ Bad, NEW i \in DOMAIN attrs, NEW j \in DOMAIN attrs
               PROVE  attrs[i].ok /\ (i # j => attrs[i].name # attrs[j].name)
    OBVIOUS
  <2>1. i < j => i \in 1 .. j - 1
    BY <1>1
  <2>2. j < i => j \in 1 .. i - 1
    BY <1>1
  <2>3. i # j => i < j \/ j < i
    BY <1>1
  <2> QED
    BY <2>1, <2>2, <2>3
<1> HIDE DEF Good, Bad
<1>4. AttributesOf(tag) = IF Bad THEN "XML_ERROR_PARSING_ATTRIBUTE"
                          ELSE IF tag.end \in {"open", "closed"} THEN "XML_SUCCESS"
                          ELSE "XML_ERROR_PARSING_ELEMENT"
  BY Zenon DEF AttributesOf, Bad
<1>5. AttributesOf(tag) = "XML_SUCCESS" <=> ~ Bad /\ tag.end \in {"open", "closed"}
  BY <1>4
<1>6. SoundTag(tag) <=> tag.name # "" /\ tag.end \in {"open", "closed"} /\ Good
  BY Zenon DEF SoundTag, Good
<1> QED
  BY <1>2, <1>3, <1>5, <1>6 DEF TagError

LEMMA ReadFacts ==
  ASSUME NEW items, TextType(items), NEW c \in 0 .. Len(items), NEW t, NEW s, Stack(s),
         ReadTo(items, c, t, s)
  PROVE  /\ Len(t) = Len(items) - c /\ (t = << >> <=> c = Len(items))
         /\ Len(s) - 1 = Depth(items, c) /\ \A i \in 1 .. c : Depth(items, i) >= 0
         /\ t # << >> => /\ c \in Nat /\ c < Len(items) /\ c + 1 \in 1 .. Len(items)
                         /\ Head(t) = items[c + 1] /\ ItemType(items[c + 1])
                         /\ Depth(items, c + 1) = (Len(s) - 1) + Nesting(items[c + 1])
<1>1. /\ t = SubSeq(items, c + 1, Len(items)) /\ \A i \in 1 .. c : Depth(items, i) >= 0
      /\ Len(s) - 1 = Depth(items, c)
  BY DEF ReadTo, Admitted, AllOpen
<1>2. c \in Nat
  BY DEF TextType, IsSequence
<1>3. /\ Len(t) = Len(items) - c /\ (t = << >> <=> c = Len(items))
      /\ t # << >> => /\ c < Len(items) /\ c + 1 \in 1 .. Len(items) /\ ItemType(items[c + 1])
                      /\ Head(t) = items[c + 1]
  <2>1. t = SubSeq(items, c + 1, Len(items))
    BY <1>1
  <2>2. Len(t) = Len(items) - c
    BY <2>1, RestOfText
  <2>3. t = << >> <=> c = Len(items)
    <3>1. t \in Seq(ToSet(items)) /\ Len(items) \in Nat
      BY <2>1, RestOfText DEF TextType, IsSequence
    <3>2. t = << >> <=> Len(t) = 0
      BY <3>1, EmptySeq
    <3> QED
      BY <2>2, <3>1, <3>2
  <2>4. ASSUME t # << >>
        PROVE  /\ c < Len(items) /\ c + 1 \in 1 .. Len(items)
               /\ ItemType(items[c + 1]) /\ Head(t) = items[c + 1]
    <3>1. c < Len(items) /\ c + 1 \in 1 .. Len(items)
      BY <2>1, <2>4, RestOfText
    <3>2. ItemType(items[c + 1])
      BY <2>1, <2>4, RestOfText
    <3>3. Head(t) = items[c + 1]
      BY <2>1, <2>4, RestOfText
    <3> QED
      BY <3>1, <3>2, <3>3
  <2> QED
    BY <2>2, <2>3, <2>4
<1>4. c < Len(items) => Depth(items, c + 1) = Depth(items, c) + Nesting(items[c + 1])
  BY <1>2, DepthNext
<1> QED
  BY <1>1, <1>2, <1>3, <1>4

LEMMA Advances ==
  ASSUME NEW items, TextType(items), NEW c \in Nat, c < Len(items),
         NEW t, NEW s, ReadTo(items, c, t, s), Admitted(items, c + 1),
         NEW r, AllOpen(items, c + 1, r), Prologue(items, c + 1, r)
  PROVE  c + 1 \in 0 .. Len(items) /\ ReadTo(items, c + 1, Tail(t), r)
<1>1. c \in 0 .. Len(items) /\ c + 1 \in 0 .. Len(items) /\ c # Len(items)
  BY DEF TextType, IsSequence
<1>2. t = SubSeq(items, c + 1, Len(items)) /\ \A i \in 1 .. c : Admitted(items, i)
  BY DEF ReadTo
<1>3. Tail(t) = SubSeq(items, (c + 1) + 1, Len(items))
  BY <1>1, <1>2, RestOfText
<1>4. \A i \in 1 .. c + 1 : i \in 1 .. c \/ i = c + 1
  OBVIOUS
<1>5. \A i \in 1 .. c + 1 : Admitted(items, i)
  BY <1>2, <1>4
<1> QED
  BY <1>1, <1>3, <1>5, Zenon DEF ReadTo

\* An item that neither opens nor closes an element.
LEMMA NeutralAdvances ==
  ASSUME NEW items, TextType(items), NEW c \in Nat, c < Len(items),
         NEW t, NEW s, Stack(s), ReadTo(items, c, t, s),
         ~ Opens(items[c + 1]), ~ Closes(items[c + 1]),
         Sound(items, c + 1), WellPlaced(items, c + 1),
         NEW r, Len(r) = Len(s), \A k \in 1 .. Len(s) : r[k].name = s[k].name,
         Prologue(items, c + 1, r)
  PROVE  c + 1 \in 0 .. Len(items) /\ ReadTo(items, c + 1, Tail(t), r)
<1>1. AllOpen(items, c, s)
  BY DEF ReadTo
<1>2. Len(s) \in 1 .. MaxDepth - 1 /\ Len(s) \in Nat
  BY StackTypes DEF Stack
<1>3. Depth(items, c + 1) = Len(s) - 1
  <2>1. Depth(items, c) \in Int /\ Depth(items, c + 1) = Depth(items, c) + Nesting(items[c + 1])
    BY DepthNext
  <2>2. Nesting(items[c + 1]) = 0
    BY DEF Nesting
  <2>3. Len(s) - 1 = Depth(items, c)
    BY <1>1 DEF AllOpen
  <2> QED
    BY <2>1, <2>2, <2>3
<1>4. AllOpen(items, c + 1, r)
  BY <1>1, <1>2, <1>3, StillOpen
<1>5. Len(s) - 1 >= 0 /\ Len(s) - 1 < MaxDepth - 1
  BY <1>2, MaxDepthAssumption
<1>6. Admitted(items, c + 1)
  BY <1>3, <1>5 DEF Admitted
<1> QED
  BY <1>4, <1>6, Advances

\* White space: nothing is inserted.
LEMMA SpaceAdvances ==
  ASSUME NEW items, TextType(items), NEW c \in Nat, c < Len(items),
         NEW t, NEW s, Stack(s), ReadTo(items, c, t, s), items[c + 1].kind = "space"
  PROVE  c + 1 \in 0 .. Len(items) /\ ReadTo(items, c + 1, Tail(t), s)
<1>1. ~ Opens(items[c + 1]) /\ ~ Closes(items[c + 1]) /\ WellPlaced(items, c + 1) /\ Sound(items, c + 1)
  BY DEF Opens, Closes, WellPlaced, Sound
<1>2. Prologue(items, c, s)
  BY DEF ReadTo
<1>3. OnlyPrologue(items, c + 1) <=> OnlyPrologue(items, c)
  BY PrologueNext
<1>4. Prologue(items, c + 1, s)
  BY <1>2, <1>3, Zenon DEF Prologue
<1> QED
  BY <1>1, <1>4, NeutralAdvances

\* A node without children becomes the last one of the innermost element.
LEMMA InsertAdvances ==
  ASSUME NEW items, TextType(items), NEW c \in Nat, c < Len(items),
         NEW t, NEW s, Stack(s), ReadTo(items, c, t, s), items[c + 1].kind # "space",
         ~ Opens(items[c + 1]), ~ Closes(items[c + 1]),
         Sound(items, c + 1), WellPlaced(items, c + 1),
         NEW node, IsDeclaration(node) <=> items[c + 1].kind = "declaration"
  PROVE  c + 1 \in 0 .. Len(items) /\ ReadTo(items, c + 1, Tail(t), InsertEndChild(s, node))
<1>1. Prologue(items, c, s)
  BY DEF ReadTo
<1>2. IsDeclaration(node) => OnlyPrologue(items, c)
  <2>1. (c + 1) - 1 = c
    OBVIOUS
  <2> QED
    BY <2>1 DEF WellPlaced, OnlyPrologue
<1>3. Prologue(items, c + 1, InsertEndChild(s, node))
  BY <1>1, <1>2, PrologueInserted
<1>4. /\ Len(InsertEndChild(s, node)) = Len(s)
      /\ \A i \in 1 .. Len(s) : InsertEndChild(s, node)[i].name = s[i].name
  BY InsertedIs, Zenon
<1> QED
  BY <1>3, <1>4, NeutralAdvances

\* Where the parser takes a declaration is where it is well placed.
LEMMA DeclarationPlaced ==
  ASSUME NEW items, NEW c \in Nat, NEW s, Stack(s), Prologue(items, c, s),
         items[c + 1].kind = "declaration"
  PROVE  WellPlaced(items, c + 1) <=>
           /\ Len(s) = 1
           /\ Last(s).kids # <<>> => IsDeclaration(Last(s).kids[1]) /\ IsDeclaration(Last(Last(s).kids))
<1> DEFINE kids == s[1].kids
<1>1. WellPlaced(items, c + 1) <=> OnlyPrologue(items, c)
  <2>1. (c + 1) - 1 = c
    OBVIOUS
  <2> QED
    BY <2>1 DEF WellPlaced, OnlyPrologue
<1>2. Len(s) = 1 => Last(s) = s[1]
  BY DEF Last
<1>3. IsSequence(kids)
  <2>1. 1 \in 1 .. Len(s)
    BY StackTypes
  <2> QED
    BY <2>1 DEF Stack, Tree, NodeType
<1> HIDE DEF kids
<1>4. kids # <<>> => 1 \in DOMAIN kids /\ Len(kids) \in DOMAIN kids
  <2>1. kids \in Seq(ToSet(kids)) /\ Len(kids) \in Nat /\ DOMAIN kids = 1 .. Len(kids)
    BY <1>3, IsOfItsMembers
  <2> QED
    BY <2>1
<1>5. kids # <<>> => (OnlyDeclarations(kids) => IsDeclaration(kids[1]) /\ IsDeclaration(Last(kids)))
  BY <1>4 DEF OnlyDeclarations, Last
<1>6. kids = <<>> => OnlyDeclarations(kids)
  BY DEF OnlyDeclarations
<1>7. /\ OnlyPrologue(items, c) <=> Len(s) = 1 /\ OnlyDeclarations(kids)
      /\ kids # << >> /\ IsDeclaration(Last(kids)) => OnlyDeclarations(kids)
  BY Zenon DEF Prologue, kids
<1> QED
  BY <1>1, <1>2, <1>5, <1>6, <1>7, Zenon DEF kids

\* A start tag whose content is parsed next.
LEMMA PushAdvances ==
  ASSUME NEW items, TextType(items), NEW c \in Nat, c < Len(items),
         NEW t, NEW s, Stack(s), ReadTo(items, c, t, s), Len(s) + 1 # MaxDepth,
         Opens(items[c + 1]), Sound(items, c + 1), NEW e, e.name = items[c + 1].name
  PROVE  c + 1 \in 0 .. Len(items) /\ ReadTo(items, c + 1, Tail(t), Append(s, e))
<1>1. AllOpen(items, c, s) /\ Prologue(items, c, s)
  BY DEF ReadTo
<1>2. s \in Seq(ToSet(s)) /\ s # << >> /\ Len(s) \in 1 .. MaxDepth - 1
  BY StackTypes DEF Stack
<1>3. Depth(items, c + 1) = Len(s) /\ AllOpen(items, c + 1, Append(s, e))
  BY <1>1, <1>2, OneMoreOpen
<1>4. Prologue(items, c + 1, Append(s, e))
  BY <1>1, ProloguePushed DEF Opens
<1>5. Len(s) >= 0 /\ Len(s) < MaxDepth - 1
  BY <1>2, MaxDepthAssumption
<1>6. Admitted(items, c + 1)
  BY <1>3, <1>5 DEF Admitted, Opens, Closes, WellPlaced
<1> QED
  BY <1>3, <1>4, <1>6, Advances

\* An end tag of the innermost element.
LEMMA EndAdvances ==
  ASSUME NEW items, TextType(items), NEW c \in Nat, c < Len(items),
         NEW t, NEW s, Stack(s), ReadTo(items, c, t, s), Len(s) > 1,
         Closes(items[c + 1]), Sound(items, c + 1), Last(s).name = items[c + 1].name
  PROVE  c + 1 \in 0 .. Len(items) /\ ReadTo(items, c + 1, Tail(t), InsertEndChild(Front(s), Last(s)))
<1> DEFINE less == Front(s)
           kid == Last(s)
           more == InsertEndChild(less, kid)
<1>1. AllOpen(items, c, s) /\ Prologue(items, c, s)
  BY DEF ReadTo
<1>2. Len(s) \in 2 .. MaxDepth - 1 /\ Len(s) \in Nat
  BY StackTypes DEF Stack
<1>3. Stack(less) /\ Len(less) = Len(s) - 1 /\ kid = s[Len(s)] /\ \A i \in 1 .. Len(s) - 1 : less[i] = s[i]
  BY Popped
<1>4. ~ IsDeclaration(kid)
  <2>1. s[Len(s)].kind = "element"
    BY <1>2 DEF Stack
  <2> QED
    BY <1>3, <2>1 DEF IsDeclaration
<1> HIDE DEF kid, less
<1>5. Len(more) = Len(less) /\ \A i \in 1 .. Len(less) : more[i].name = less[i].name
  <2>1. PICK s1, e : s1 = less /\ e = kid
    OBVIOUS
  <2>2. /\ Len(InsertEndChild(s1, e)) = Len(s1)
        /\ \A i \in 1 .. Len(s1) : InsertEndChild(s1, e)[i].name = s1[i].name
    BY <1>3, <2>1, InsertedIs
  <2> QED
    BY <2>1, <2>2, Zenon
<1> HIDE DEF more
<1>6. Depth(items, c + 1) = Len(s) - 2 /\ Matched(items, Depths(items), c + 1)
  BY <1>1, <1>2, <1>3, InnermostIsMatched DEF kid
<1>7. AllOpen(items, c + 1, more)
  <2>1. ~ Opens(items[c + 1])
    BY DEF Opens, Closes
  <2>2. \A i \in 1 .. Len(more) : more[i].name = s[i].name
    BY <1>3, <1>5
  <2>3. Len(more) \in Nat /\ Len(more) <= Len(s) /\ Depth(items, c + 1) = Len(more) - 1
    BY <1>2, <1>3, <1>5, <1>6
  <2> QED
    BY <1>1, <1>2, <2>1, <2>2, <2>3, StillOpen
<1>8. Prologue(items, c + 1, more)
  <2>1. items[c + 1].kind = "tag"
    BY DEF Closes
  <2>2. less[1] = s[1]
    BY <1>2, <1>3
  <2> QED
    BY <1>1, <1>3, <1>4, <2>1, <2>2, PrologueInserted DEF more
<1>9. Admitted(items, c + 1)
  <2>1. Len(s) - 2 >= 0 /\ Len(s) - 2 < MaxDepth - 1
    BY <1>2, MaxDepthAssumption
  <2> QED
    BY <1>6, <2>1 DEF Admitted, Closes, WellPlaced
<1> QED
  BY <1>7, <1>8, <1>9, Advances DEF more, less, kid

-----------------------------------------------------------------------------
(* The inductive invariant of reading a text: while the parser reads on, all *)
(* it is past is admitted; it gives up only if the text is not well formed.  *)

Reading(items) ==
  /\ error = "XML_SUCCESS" /\ ~ Blank(items)
  /\ \E c \in 0 .. Len(items) : ReadTo(items, c, text, open)

ReadInvOf(items) ==
  /\ p = "reading" => Reading(items)
  /\ p = "null" => ~ WellFormed(items) /\ (error # "XML_SUCCESS" \/ Len(open) > 1)
  /\ p = "stopped" => (error = "XML_SUCCESS" <=> WellFormed(items))

LEMMA MovesOn ==
  ASSUME NEW items, Reading(items), error' = error, p' = "reading",
         \E c \in 0 .. Len(items) : ReadTo(items, c, text', open')
  PROVE  ReadInvOf(items)'
BY DEF ReadInvOf, Reading

LEMMA GivesUp ==
  ASSUME NEW items, ~ WellFormed(items), p' = "null", error' # "XML_SUCCESS" \/ Len(open') > 1
  PROVE  ReadInvOf(items)'
BY DEF ReadInvOf

\* The parser is past c items, and looks at the next one.
LooksAt(items, c) ==
  /\ c \in Nat /\ c < Len(items) /\ c + 1 \in 1 .. Len(items) /\ Len(items) \in Nat
  /\ ReadTo(items, c, text, open) /\ Len(text) = Len(items) - c
  /\ Current = items[c + 1] /\ ItemType(Current)
  /\ Len(open) \in 1 .. MaxDepth - 1
  /\ Depth(items, c + 1) = (Len(open) - 1) + Nesting(Current)
  /\ \A i \in 1 .. c : Depth(items, i) >= 0

LEMMA AtItem ==
  ASSUME ParserInv, NEW items, TextType(items), Reading(items), text # << >>
  PROVE  \E c \in Nat : LooksAt(items, c)
<1>1. PICK c \in 0 .. Len(items) : ReadTo(items, c, text, open)
  BY DEF Reading
<1>2. /\ Len(text) = Len(items) - c /\ \A i \in 1 .. c : Depth(items, i) >= 0
      /\ c \in Nat /\ c < Len(items) /\ c + 1 \in 1 .. Len(items)
      /\ Head(text) = items[c + 1] /\ ItemType(items[c + 1])
      /\ Depth(items, c + 1) = (Len(open) - 1) + Nesting(items[c + 1])
  BY <1>1, ReadFacts DEF ParserInv
<1>3. Len(open) \in 1 .. MaxDepth - 1 /\ Len(items) \in Nat
  BY DEF ParserInv, Stack, TextType, IsSequence
<1> QED
  BY <1>1, <1>2, <1>3, Zenon DEF LooksAt, Current

\* All up to this item is at a depth the parser goes to.
LEMMA DepthsSoFar ==
  ASSUME NEW items, NEW c \in Nat, LooksAt(items, c), Nesting(Current) >= 0
  PROVE  \A i \in 1 .. c + 1 : Depth(items, i) >= 0
<1>1. Nesting(Current) \in Nat
  BY DEF Nesting
<1>2. Depth(items, c + 1) >= 0
  BY <1>1 DEF LooksAt
<1>3. \A i \in 1 .. c + 1 : i \in 1 .. c \/ i = c + 1
  OBVIOUS
<1> QED
  BY <1>2, <1>3 DEF LooksAt

LEMMA SkipWhiteSpaceReads ==
  ASSUME ParserInv, NEW items, TextType(items), Reading(items), SkipWhiteSpace
  PROVE  ReadInvOf(items)'
<1>1. /\ p = "reading" /\ text # << >> /\ Current.kind = "space"
      /\ text' = Tail(text) /\ open' = open /\ error' = error /\ p' = p
  BY DEF SkipWhiteSpace, At
<1>2. PICK c \in Nat : LooksAt(items, c)
  BY <1>1, AtItem
<1>3. c < Len(items) /\ ReadTo(items, c, text, open) /\ items[c + 1].kind = "space" /\ Stack(open)
  BY <1>1, <1>2 DEF LooksAt, ParserInv
<1>4. c + 1 \in 0 .. Len(items) /\ ReadTo(items, c + 1, Tail(text), open)
  BY <1>3, SpaceAdvances
<1>5. c + 1 \in 0 .. Len(items) /\ ReadTo(items, c + 1, text', open')
  BY <1>1, <1>4, Zenon
<1> QED
  BY <1>1, <1>5, MovesOn

LEMMA InsertReads ==
  ASSUME ParserInv, NEW items, TextType(items), Reading(items), p = "reading",
         NEW c \in Nat, LooksAt(items, c), Current.kind # "space", ~ Opens(Current), ~ Closes(Current),
         Sound(items, c + 1), WellPlaced(items, c + 1),
         NEW node, IsDeclaration(node) <=> Current.kind = "declaration", Insert(node)
  PROVE  ReadInvOf(items)'
<1>1. text' = Tail(text) /\ open' = InsertEndChild(open, node) /\ error' = error /\ p' = p
  BY DEF Insert
<1>2. c < Len(items) /\ ReadTo(items, c, text, open) /\ Current = items[c + 1] /\ Stack(open)
  BY DEF LooksAt, ParserInv
<1>3. c + 1 \in 0 .. Len(items) /\ ReadTo(items, c + 1, Tail(text), InsertEndChild(open, node))
  BY <1>2, InsertAdvances
<1>4. c + 1 \in 0 .. Len(items) /\ ReadTo(items, c + 1, text', open')
  BY <1>1, <1>3, Zenon
<1> QED
  BY <1>1, <1>4, MovesOn

LEMMA UnsoundReads ==
  ASSUME NEW items, TextType(items), NEW c \in Nat, LooksAt(items, c), ~ Sound(items, c + 1),
         NEW e, e # "XML_SUCCESS", Null(e)
  PROVE  ReadInvOf(items)'
<1>1. ~ WellFormed(items)
  BY UnsoundIsNot DEF LooksAt
<1> QED
  BY <1>1, GivesUp DEF Null

LEMMA ParseLeafReads ==
  ASSUME ParserInv, NEW items, TextType(items), Reading(items), ParseLeaf
  PROVE  ReadInvOf(items)'
<1>1. p = "reading" /\ text # << >> /\ Current.kind \in DOMAIN Unended
  BY DEF ParseLeaf, At
<1>2. PICK c \in Nat : LooksAt(items, c)
  BY <1>1, AtItem
<1>3. /\ Current.kind \in {"text", "cdata", "comment", "unknown", "declaration"}
      /\ Unended[Current.kind] # "XML_SUCCESS"
  BY <1>1 DEF Unended
<1>4. Ended(Current) <=> Sound(items, c + 1)
  <2>1. Len(text) > 1 <=> c + 1 < Len(items)
    BY <1>2 DEF LooksAt
  <2>2. Current = items[c + 1]
    BY <1>2 DEF LooksAt
  <2>3. items[c + 1].kind # "tag" /\ items[c + 1].kind # "space"
    BY <1>3, <2>2
  <2>4. Sound(items, c + 1)
          <=> items[c + 1].ended /\ (items[c + 1].kind = "text" => c + 1 < Len(items))
    BY <2>3 DEF Sound
  <2> QED
    BY <2>1, <2>2, <2>4 DEF Ended
<1>5. ~ Opens(Current) /\ ~ Closes(Current) /\ Nesting(Current) = 0
  BY <1>3 DEF Opens, Closes, Nesting
<1>6. Current.kind = "declaration" => (WellLocated <=> WellPlaced(items, c + 1))
  <2> SUFFICES ASSUME Current.kind = "declaration"
               PROVE  WellLocated <=> WellPlaced(items, c + 1)
    OBVIOUS
  <2>1. Stack(open) /\ Prologue(items, c, open) /\ items[c + 1].kind = "declaration"
    BY <1>2 DEF ParserInv, LooksAt, ReadTo
  <2> QED
    BY <2>1, DeclarationPlaced DEF WellLocated, IsDeclaration
<1>7. CASE ~ Ended(Current)
  BY <1>2, <1>3, <1>4, <1>7, UnsoundReads DEF ParseLeaf
<1>8. CASE Ended(Current) /\ Current.kind = "declaration" /\ ~ WellLocated
  <2>1. ~ WellFormed(items)
    <3>1. \A i \in 1 .. c + 1 : Depth(items, i) >= 0
      BY <1>2, <1>5, DepthsSoFar
    <3>2. c < Len(items) /\ ~ WellPlaced(items, c + 1)
      BY <1>2, <1>6, <1>8 DEF LooksAt
    <3> QED
      BY <3>1, <3>2, MisplacedIsNot
  <2>2. Null("XML_ERROR_PARSING_DECLARATION")
    BY <1>8 DEF ParseLeaf
  <2> QED
    BY <2>1, <2>2, GivesUp DEF Null
<1>9. CASE Ended(Current) /\ ~ (Current.kind = "declaration" /\ ~ WellLocated)
  <2>1. Insert(Leaf(Current.kind, Current.value))
    BY <1>9 DEF ParseLeaf
  <2>2. WellPlaced(items, c + 1)
    <3>1. CASE Current.kind = "declaration"
      BY <1>6, <1>9, <3>1
    <3>2. CASE Current.kind # "declaration"
      BY <1>2, <3>2 DEF LooksAt, WellPlaced
    <3> QED
      BY <3>1, <3>2
  <2>3. IsDeclaration(Leaf(Current.kind, Current.value)) <=> Current.kind = "declaration"
    BY DEF IsDeclaration, Leaf, Node
  <2>4. Current.kind # "space" /\ Sound(items, c + 1)
    BY <1>3, <1>4, <1>9
  <2> QED
    BY <1>1, <1>2, <1>5, <2>1, <2>2, <2>3, <2>4, InsertReads
<1> QED
  BY <1>7, <1>8, <1>9

\* A tag is refused exactly when it is not sound.
LEMMA AtTagFacts ==
  ASSUME ParserInv, NEW items, TextType(items), Reading(items), At({"tag"})
  PROVE  /\ p = "reading" /\ text # << >> /\ Current.kind = "tag"
         /\ \E c \in Nat : /\ LooksAt(items, c) /\ WellPlaced(items, c + 1)
                           /\ TagError(Current) = "XML_SUCCESS" <=> Sound(items, c + 1)
<1>1. p = "reading" /\ text # << >> /\ Current.kind = "tag"
  BY DEF At
<1>2. PICK c \in Nat : LooksAt(items, c)
  BY <1>1, AtItem
<1>3. Current = items[c + 1] /\ IsSequence(Current.attrs)
  BY <1>1, <1>2 DEF LooksAt, ItemType
<1>4. TagError(Current) = "XML_SUCCESS" <=> SoundTag(Current)
  BY <1>3, TagErrors
<1>5. Sound(items, c + 1) <=> SoundTag(Current)
  BY <1>1, <1>3 DEF Sound
<1>6. WellPlaced(items, c + 1)
  BY <1>1, <1>3 DEF WellPlaced
<1> QED
  BY <1>1, <1>2, <1>4, <1>5, <1>6

\* What its end makes of a sound tag.
LEMMA TagEnds ==
  ASSUME NEW tag, ItemType(tag), tag.kind = "tag", TagError(tag) = "XML_SUCCESS"
  PROVE  /\ ClosingType(tag) = "CLOSED" => ~ Opens(tag) /\ ~ Closes(tag) /\ Nesting(tag) = 0
         /\ ClosingType(tag) = "OPEN" => Opens(tag) /\ ~ Closes(tag) /\ Nesting(tag) = 1
         /\ ClosingType(tag) = "CLOSING" => Closes(tag) /\ ~ Opens(tag) /\ Nesting(tag) = -1
<1>1. SoundTag(tag)
  BY TagErrors DEF ItemType
<1>2. tag.end \in {"open", "closed"} /\ tag.closing \in BOOLEAN
  BY <1>1 DEF SoundTag, ItemType
<1> QED
  BY <1>2 DEF ClosingType, Opens, Closes, Nesting

LEMMA ParseBadTagReads ==
  ASSUME ParserInv, NEW items, TextType(items), Reading(items), ParseBadTag
  PROVE  ReadInvOf(items)'
<1>1. At({"tag"}) /\ TagError(Current) # "XML_SUCCESS" /\ Null(TagError(Current))
  BY DEF ParseBadTag
<1>2. PICK c \in Nat : LooksAt(items, c) /\ ~ Sound(items, c + 1)
  BY <1>1, AtTagFacts
<1> QED
  BY <1>1, <1>2, UnsoundReads

LEMMA AtTagReads ==
  ASSUME ParserInv, NEW items, TextType(items), Reading(items), NEW type, AtTag(type)
  PROVE  /\ p = "reading" /\ text # << >> /\ Current.kind = "tag" /\ ClosingType(Current) = type
         /\ TagError(Current) = "XML_SUCCESS"
         /\ \E c \in Nat : LooksAt(items, c) /\ WellPlaced(items, c + 1) /\ Sound(items, c + 1)
<1>1. At({"tag"}) /\ TagError(Current) = "XML_SUCCESS" /\ ClosingType(Current) = type
  BY DEF AtTag
<1> QED
  BY <1>1, AtTagFacts

LEMMA ParseClosedElementReads ==
  ASSUME ParserInv, NEW items, TextType(items), Reading(items), ParseClosedElement
  PROVE  ReadInvOf(items)'
<1>1. AtTag("CLOSED") /\ Insert(Element(Current.name, Current.attrs, <<>>))
  BY DEF ParseClosedElement
<1>2. /\ p = "reading" /\ Current.kind = "tag" /\ ClosingType(Current) = "CLOSED"
      /\ TagError(Current) = "XML_SUCCESS"
  BY <1>1, AtTagReads
<1>3. PICK c \in Nat : LooksAt(items, c) /\ WellPlaced(items, c + 1) /\ Sound(items, c + 1)
  BY <1>1, AtTagReads
<1>4. ~ Opens(Current) /\ ~ Closes(Current)
  BY <1>2, <1>3, TagEnds DEF LooksAt
<1>5. IsDeclaration(Element(Current.name, Current.attrs, <<>>)) <=> Current.kind = "declaration"
  BY <1>2 DEF IsDeclaration, Element, Node
<1> QED
  BY <1>1, <1>2, <1>3, <1>4, <1>5, InsertReads

LEMMA ParseOpenElementReads ==
  ASSUME ParserInv, NEW items, TextType(items), Reading(items), ParseOpenElement
  PROVE  ReadInvOf(items)'
<1> DEFINE element == Element(Current.name, Current.attrs, <<>>)
<1>1. /\ AtTag("OPEN")
      /\ IF Len(text) = 1 THEN Null("XML_ERROR_MISMATCHED_ELEMENT")
         ELSE IF TooDeep THEN Null("XML_ELEMENT_DEPTH_EXCEEDED")
         ELSE open' = Append(open, element) /\ text' = Tail(text) /\ error' = error /\ p' = p
  BY DEF ParseOpenElement
<1>2. element.name = Current.name
  BY DEF Element, Node
<1> HIDE DEF element
<1>3. /\ p = "reading" /\ Current.kind = "tag" /\ ClosingType(Current) = "OPEN"
      /\ TagError(Current) = "XML_SUCCESS"
  BY <1>1, AtTagReads
<1>4. PICK c \in Nat : LooksAt(items, c) /\ WellPlaced(items, c + 1) /\ Sound(items, c + 1)
  BY <1>1, AtTagReads
<1>5. Opens(Current) /\ Nesting(Current) = 1
  BY <1>3, <1>4, TagEnds DEF LooksAt
<1>6. Depth(items, c + 1) = Len(open) /\ Len(open) \in 1 .. MaxDepth - 1 /\ MaxDepth \in Nat
  BY <1>4, <1>5, MaxDepthAssumption DEF LooksAt
<1>7. \A i \in 1 .. c + 1 : Depth(items, i) >= 0
  BY <1>4, <1>5, DepthsSoFar
<1>8. CASE Len(text) = 1
  <2>1. c + 1 = Len(items) /\ Len(items) # 0
    <3>1. Len(text) = Len(items) - c /\ c \in Nat /\ Len(items) \in Nat
      BY <1>4 DEF LooksAt
    <3>2. \A i, j \in Nat : 1 = i - j => j + 1 = i /\ i # 0
      OBVIOUS
    <3> QED
      BY <1>8, <3>1, <3>2, Zenon
  <2>2. \A i \in 1 .. Len(items) : Depth(items, i) >= 0
    BY <1>7, <2>1
  <2>3. Depth(items, Len(items)) # 0
    BY <1>6, <2>1
  <2>4. ~ WellFormed(items)
    BY <2>1, <2>2, <2>3, UnendedIsNot
  <2>5. Null("XML_ERROR_MISMATCHED_ELEMENT")
    BY <1>1, <1>8
  <2> QED
    BY <2>4, <2>5, GivesUp DEF Null
<1>9. CASE Len(text) # 1 /\ TooDeep
  <2>1. ~ (Depth(items, c + 1) < MaxDepth - 1)
    BY <1>3, <1>6, <1>9 DEF TooDeep, ParserInv, DepthInv
  <2>2. ~ WellFormed(items)
    BY <1>4, <1>7, <2>1, MisplacedIsNot DEF LooksAt
  <2>3. Null("XML_ELEMENT_DEPTH_EXCEEDED")
    BY <1>1, <1>9
  <2> QED
    BY <2>2, <2>3, GivesUp DEF Null
<1>10. CASE Len(text) # 1 /\ ~ TooDeep
  <2>1. open' = Append(open, element) /\ text' = Tail(text) /\ error' = error /\ p' = p
    BY <1>1, <1>10
  <2>2. /\ c < Len(items) /\ ReadTo(items, c, text, open) /\ Current = items[c + 1] /\ Stack(open)
        /\ Len(open) + 1 # MaxDepth
    BY <1>3, <1>4, <1>10 DEF LooksAt, ParserInv, TooDeep, DepthInv
  <2>3. c + 1 \in 0 .. Len(items) /\ ReadTo(items, c + 1, Tail(text), Append(open, element))
    BY <1>2, <1>4, <1>5, <2>2, PushAdvances
  <2>4. c + 1 \in 0 .. Len(items) /\ ReadTo(items, c + 1, text', open')
    BY <2>1, <2>3, Zenon
  <2> QED
    BY <1>3, <2>1, <2>4, MovesOn
<1> QED
  BY <1>8, <1>9, <1>10

LEMMA ParseEndTagReads ==
  ASSUME ParserInv, NEW items, TextType(items), Reading(items), ParseEndTag
  PROVE  ReadInvOf(items)'
<1>1. AtTag("CLOSING") /\ Len(open) > 1
  BY DEF ParseEndTag
<1>2. /\ p = "reading" /\ Current.kind = "tag" /\ ClosingType(Current) = "CLOSING"
      /\ TagError(Current) = "XML_SUCCESS"
  BY <1>1, AtTagReads
<1>3. PICK c \in Nat : LooksAt(items, c) /\ WellPlaced(items, c + 1) /\ Sound(items, c + 1)
  BY <1>1, AtTagReads
<1>4. Closes(Current) /\ Nesting(Current) = -1
  BY <1>2, <1>3, TagEnds DEF LooksAt
<1>5. /\ c < Len(items) /\ ReadTo(items, c, text, open) /\ Current = items[c + 1]
      /\ Stack(open) /\ Len(open) \in Nat
  BY <1>3, StackTypes DEF LooksAt, ParserInv
<1>6. CASE Ends(Current.name)
  <2>1. /\ open' = InsertEndChild(Front(open), Last(open))
        /\ text' = Tail(text) /\ error' = error /\ p' = p
    BY <1>6 DEF ParseEndTag
  <2>2. Last(open).name = items[c + 1].name
    BY <1>5, <1>6 DEF Ends
  <2>3. /\ c + 1 \in 0 .. Len(items)
        /\ ReadTo(items, c + 1, Tail(text), InsertEndChild(Front(open), Last(open)))
    BY <1>1, <1>3, <1>4, <1>5, <2>2, EndAdvances
  <2>4. c + 1 \in 0 .. Len(items) /\ ReadTo(items, c + 1, text', open')
    BY <2>1, <2>3, Zenon
  <2> QED
    BY <1>2, <2>1, <2>4, MovesOn
<1>7. CASE ~ Ends(Current.name)
  <2>1. error' = "XML_ERROR_MISMATCHED_ELEMENT" /\ p' = "null"
    BY <1>7 DEF ParseEndTag
  <2>2. open[Len(open)].name # items[c + 1].name
    BY <1>5, <1>7 DEF Ends, Last
  <2>3. /\ Depth(items, c + 1) = Len(open) - 2
        /\ ~ Matched(items, Depths(items), c + 1)
    BY <1>1, <1>4, <1>5, <2>2, InnermostIsMatched DEF ReadTo
  <2>4. \A i \in 1 .. c + 1 : Depth(items, i) >= 0
    <3>1. \A i \in 1 .. c + 1 : i \in 1 .. c \/ i = c + 1
      OBVIOUS
    <3>2. Depth(items, c + 1) >= 0
      BY <1>1, <1>5, <2>3
    <3> QED
      BY <1>3, <3>1, <3>2 DEF LooksAt
  <2>5. ~ WellFormed(items)
    BY <1>4, <1>5, <2>3, <2>4, MisplacedIsNot
  <2> QED
    BY <2>1, <2>5, GivesUp
<1> QED
  BY <1>6, <1>7

\* Reading the text ends without an error.
LEMMA StopsAt ==
  ASSUME ParserInv, NEW items, TextType(items), Reading(items),
         NEW c \in 0 .. Len(items), ReadTo(items, c, text, open), Len(open) = 1,
         c = Len(items) \/ (Depth(items, c + 1) < 0 /\ Sound(items, c + 1)),
         p' = "stopped", error' = error
  PROVE  ReadInvOf(items)'
<1>1. Depth(items, c) = 0
  BY DEF ReadTo, AllOpen
<1>2. ~ Blank(items) /\ \A i \in 1 .. c : Admitted(items, i)
  BY DEF Reading, ReadTo
<1>3. WellFormed(items)
  BY <1>1, <1>2, AdmittedIs
<1> QED
  BY <1>3 DEF ReadInvOf, Reading

LEMMA ParseStrayEndTagReads ==
  ASSUME ParserInv, NEW items, TextType(items), Reading(items), ParseStrayEndTag
  PROVE  ReadInvOf(items)'
<1>1. AtTag("CLOSING") /\ Len(open) = 1 /\ p' = "stopped" /\ error' = error
  BY DEF ParseStrayEndTag
<1>2. /\ Current.kind = "tag" /\ ClosingType(Current) = "CLOSING"
      /\ TagError(Current) = "XML_SUCCESS"
  BY <1>1, AtTagReads
<1>3. PICK c \in Nat : LooksAt(items, c) /\ WellPlaced(items, c + 1) /\ Sound(items, c + 1)
  BY <1>1, AtTagReads
<1>4. Nesting(Current) = -1
  BY <1>2, <1>3, TagEnds DEF LooksAt
<1>5. Depth(items, c + 1) < 0 /\ c \in 0 .. Len(items) /\ ReadTo(items, c, text, open)
  BY <1>1, <1>3, <1>4 DEF LooksAt
<1> QED
  BY <1>1, <1>3, <1>5, StopsAt

LEMMA EndOfTextReads ==
  ASSUME ParserInv, NEW items, TextType(items), Reading(items), EndOfText
  PROVE  ReadInvOf(items)'
<1>1. /\ text = << >> /\ p' = IF Len(open) = 1 THEN "stopped" ELSE "null"
      /\ open' = open /\ error' = error
  BY DEF EndOfText
<1>2. PICK c \in 0 .. Len(items) : ReadTo(items, c, text, open)
  BY DEF Reading
<1>3. c = Len(items) /\ Len(open) - 1 = Depth(items, c) /\ \A i \in 1 .. c : Depth(items, i) >= 0
  BY <1>1, <1>2, ReadFacts DEF ParserInv
<1>4. CASE Len(open) = 1
  <2>1. p' = "stopped" /\ error' = error
    BY <1>1, <1>4
  <2> QED
    BY <1>2, <1>3, <1>4, <2>1, StopsAt
<1>5. CASE Len(open) # 1
  <2>1. Len(open) > 1
    <3>1. Len(open) \in Nat \ {0}
      BY StackTypes DEF ParserInv
    <3>2. \A i \in Nat \ {0} : i # 1 => i > 1
      OBVIOUS
    <3> QED
      BY <1>5, <3>1, <3>2, Zenon
  <2>2. Len(items) # 0
    BY <1>3, <2>1, DepthsAre
  <2>3. Depth(items, Len(items)) # 0
    BY <1>3, <2>1
  <2>4. ~ WellFormed(items)
    <3>1. \A i \in 1 .. Len(items) : Depth(items, i) >= 0
      BY <1>3, Zenon
    <3> QED
      BY <2>2, <2>3, <3>1, UnendedIsNot
  <2>5. Len(open') > 1 /\ p' = "null"
    BY <1>1, <1>5, <2>1, Zenon
  <2> QED
    BY <2>4, <2>5, GivesUp
<1> QED
  BY <1>4, <1>5

LEMMA UnwindReads ==
  ASSUME ParserInv, NEW items, p = "null", ReadInvOf(items), Unwind
  PROVE  ReadInvOf(items)'
<1>1. ~ WellFormed(items) /\ (error # "XML_SUCCESS" \/ Len(open) > 1)
  BY DEF ReadInvOf
<1>2. CASE Len(open) = 1
  <2>1. p' = "stopped" /\ error' = error /\ error # "XML_SUCCESS"
    BY <1>1, <1>2 DEF Unwind
  <2> QED
    BY <1>1, <2>1 DEF ReadInvOf
<1>3. CASE Len(open) # 1
  <2>1. p' = p /\ error' = IF error = "XML_SUCCESS" THEN "XML_ERROR_PARSING" ELSE error
    BY <1>3 DEF Unwind
  <2>2. error' # "XML_SUCCESS"
    BY <2>1
  <2> QED
    BY <1>1, <2>1, <2>2, GivesUp
<1> QED
  BY <1>2, <1>3

LEMMA ReadKeeps ==
  ASSUME ParserInv, NEW items, TextType(items), ReadInvOf(items), ParseStep
  PROVE  ReadInvOf(items)'
<1>1. p = "reading" => Reading(items)
  BY DEF ReadInvOf
<1>2. CASE SkipWhiteSpace
  BY <1>1, <1>2, SkipWhiteSpaceReads DEF SkipWhiteSpace, At
<1>3. CASE ParseLeaf
  BY <1>1, <1>3, ParseLeafReads DEF ParseLeaf, At
<1>4. CASE ParseBadTag
  BY <1>1, <1>4, ParseBadTagReads DEF ParseBadTag, At
<1>5. CASE ParseClosedElement
  BY <1>1, <1>5, ParseClosedElementReads DEF ParseClosedElement, AtTag, At
<1>6. CASE ParseOpenElement
  <2>1. p = "reading"
    BY <1>6 DEF ParseOpenElement, AtTag, At
  <2> QED
    BY <1>1, <1>6, <2>1, ParseOpenElementReads
<1>7. CASE ParseEndTag
  <2>1. p = "reading"
    BY <1>7 DEF ParseEndTag, AtTag, At
  <2> QED
    BY <1>1, <1>7, <2>1, ParseEndTagReads
<1>8. CASE ParseStrayEndTag
  BY <1>1, <1>8, ParseStrayEndTagReads DEF ParseStrayEndTag, AtTag, At
<1>9. CASE EndOfText
  BY <1>1, <1>9, EndOfTextReads DEF EndOfText
<1>10. CASE Unwind
  BY <1>10, UnwindReads DEF Unwind
<1> QED
  BY <1>2, <1>3, <1>4, <1>5, <1>6, <1>7, <1>8, <1>9, <1>10 DEF ParseStep

LEMMA OpenReads ==
  ASSUME NEW items, TextType(items), LoadFile(TRUE, items)
  PROVE  ReadInvOf(items)'
<1>1. CASE Blank(items)
  <2>1. p' = "stopped" /\ error' = "XML_ERROR_EMPTY_DOCUMENT"
    BY <1>1 DEF LoadFile
  <2>2. ~ WellFormed(items)
    BY <1>1, Zenon DEF WellFormed
  <2> QED
    BY <2>1, <2>2 DEF ReadInvOf
<1>2. CASE ~ Blank(items)
  <2>1. p' = "reading" /\ error' = "XML_SUCCESS" /\ text' = items /\ open' = <<Document>>
    BY <1>2 DEF LoadFile
  <2>2. 0 \in 0 .. Len(items) /\ 0 + 1 = 1 /\ 1 .. 0 = {}
    BY DEF TextType, IsSequence
  <2>3. items = SubSeq(items, 0 + 1, Len(items))
    <3>1. items \in Seq(ToSet(items))
      BY IsOfItsMembers DEF TextType
    <3> QED
      BY <2>2, <3>1, SubSeqFull
  <2> DEFINE s == <<Document>>
  <2>4. Len(s) = 1 /\ s[1].kids = << >>
    BY DEF Document, Node
  <2> HIDE DEF s
  <2>5. AllOpen(items, 0, s)
    <3>1. Depth(items, 0) = 0 /\ Len(s) - 1 = 0
      BY <2>4 DEF Depth
    <3> QED
      BY <2>2, <3>1 DEF AllOpen
  <2>6. Prologue(items, 0, s)
    <3>1. OnlyPrologue(items, 0)
      BY <2>2 DEF OnlyPrologue
    <3>2. OnlyDeclarations(s[1].kids)
      BY <2>4 DEF OnlyDeclarations
    <3> QED
      BY <2>4, <3>1, <3>2, Zenon DEF Prologue
  <2>7. ReadTo(items, 0, items, s)
    BY <2>2, <2>3, <2>5, <2>6, Zenon DEF ReadTo
  <2>8. ReadTo(items, 0, text', open')
    BY <2>1, <2>7, Zenon DEF s
  <2> QED
    BY <1>2, <2>1, <2>2, <2>8 DEF ReadInvOf, Reading
<1> QED
  BY <1>1, <1>2

-----------------------------------------------------------------------------
(* The text the loader reads is that of the map's file.                      *)

ReadInv == stage = "reading" /\ OnDisk(MapPath) => ReadInvOf(Items)

LEMMA ItemsStay ==
  ASSUME NEW items, items = Items, disk' = disk, ReadInvOf(items)'
  PROVE  ReadInv'
<1>1. Items' = items
  BY DEF Items
<1>2. /\ p' = "reading" => /\ error' = "XML_SUCCESS" /\ ~ Blank(items)
                           /\ \E c \in 0 .. Len(items) : ReadTo(items, c, text', open')
      /\ p' = "null" => ~ WellFormed(items) /\ (error' # "XML_SUCCESS" \/ Len(open') > 1)
      /\ p' = "stopped" => (error' = "XML_SUCCESS" <=> WellFormed(items))
  BY DEF ReadInvOf, Reading
<1>3. ReadInvOf(Items)'
  BY <1>1, <1>2, Zenon DEF ReadInvOf, Reading
<1> QED
  BY <1>3 DEF ReadInv

LEMMA OtherStages ==
  ASSUME stage' # "reading"
  PROVE  ReadInv'
BY DEF ReadInv

LEMMA ReadInvKeeps ==
  ASSUME ParserInv, LoaderInv, ReadInv, [Next]_vars
  PROVE  ReadInv'
<1>1. disk \in Disks
  BY DEF LoaderInv
<1>2. OnDisk(MapPath) => TextType(Items)
  BY <1>1, DisksAssumption DEF OnDisk, Items, TextType
<1>3. CASE Open
  <2>1. disk' = disk /\ LoadFile(OnDisk(MapPath), IF OnDisk(MapPath) THEN disk.files[MapPath] ELSE <<>>)
    BY <1>3 DEF Open, Load
  <2>2. CASE OnDisk(MapPath)
    <3>1. PICK items : items = Items
      OBVIOUS
    <3>2. LoadFile(TRUE, items) /\ TextType(items)
      BY <1>2, <2>1, <2>2, <3>1 DEF Items
    <3> QED
      BY <2>1, <3>1, <3>2, OpenReads, ItemsStay
  <2>3. CASE ~ OnDisk(MapPath)
    BY <2>1, <2>3 DEF ReadInv, OnDisk
  <2> QED
    BY <2>2, <2>3
<1>4. CASE Read
  <2>1. ParseStep /\ stage' = stage /\ disk' = disk
    BY <1>4 DEF Read, mapVars
  <2>2. CASE stage = "reading" /\ OnDisk(MapPath)
    <3>1. PICK items : items = Items
      OBVIOUS
    <3>2. ReadInvOf(items) /\ TextType(items)
      BY <1>2, <2>2, <3>1 DEF ReadInv
    <3>3. ReadInvOf(items)'
      BY <2>1, <3>2, ReadKeeps
    <3> QED
      BY <2>1, <3>1, <3>3, ItemsStay
  <2>3. CASE ~ (stage = "reading" /\ OnDisk(MapPath))
    BY <2>1, <2>3 DEF ReadInv, OnDisk
  <2> QED
    BY <2>2, <2>3
<1>5. CASE UNCHANGED vars
  BY <1>5 DEF vars, xmlVars, mapVars, ReadInv, OnDisk, Items, ReadInvOf, Reading
<1>6. CASE ParseMap
  BY <1>6, OtherStages DEF ParseMap, ParseMapNode, Return
<1>7. ASSUME NEW collection, NEW r, NEW then, then # "reading", Keep(collection, r, then)
      PROVE  ReadInv'
  BY <1>7, OtherStages DEF Keep, Return
<1>8. CASE ParseTilesetNode
  <2>1. CASE stage' = "readingTileset"
    BY <2>1, OtherStages
  <2>2. CASE \E r : Keep("tilesets", r, "tilesets")
    BY <1>7, <2>2
  <2> QED
    BY <1>8, <2>1, <2>2, Zenon DEF ParseTilesetNode
<1>9. CASE TilesetRead
  <2>1. \E r : Keep("tilesets", r, "tilesets")
    BY <1>9, Zenon DEF TilesetRead
  <2> QED
    BY <1>7, <2>1
<1>10. CASE \/ NextLoop("tilesets", "layers", "layer")
            \/ NextLoop("layers", "objectgroups", "objectgroup")
            \/ NextLoop("objectgroups", "imagelayers", "imagelayer")
  BY <1>10, OtherStages DEF NextLoop
<1>11. CASE ParseLayer
  <2>1. \E r : Keep("layers", r, "layers")
    BY <1>11, Zenon DEF ParseLayer, Loop
  <2> QED
    BY <1>7, <2>1
<1>12. CASE ParseObjectGroup
  <2>1. \E r : Keep("objectGroups", r, "objectgroups")
    BY <1>12, Zenon DEF ParseObjectGroup, Loop
  <2> QED
    BY <1>7, <2>1
<1>13. CASE ParseImageLayer
  <2>1. \E r : Keep("imageLayers", r, "imagelayers")
    BY <1>13, Zenon DEF ParseImageLayer, Loop
  <2> QED
    BY <1>7, <2>1
<1>14. CASE ParseEnd
  BY <1>14, OtherStages DEF ParseEnd, Return
<1>15. CASE Setup
  BY <1>15, OtherStages DEF Setup
<1> QED
  BY <1>3, <1>4, <1>5, <1>6, <1>8, <1>9, <1>10, <1>11, <1>12, <1>13, <1>14, <1>15 DEF Next

-----------------------------------------------------------------------------
(* The theorems, of every disk and every depth. *)

\* The parser and the loader keep their invariants.
THEOREM InvariantsHold == Spec => [](ParserInv /\ LoaderInv)
<1>1. Init => ParserInv /\ LoaderInv
  BY InitHolds
<1>2. ParserInv /\ LoaderInv /\ [Next]_vars => (ParserInv /\ LoaderInv)'
  BY StepKeeps
<1> QED
  BY <1>1, <1>2, PTL DEF Spec

\* The stack stays within what the depth allows, and no pool gives back more
\* than it handed out (tinyxml2.h:347).
THEOREM TypesHold == Spec => []TypeOK
<1>1. ParserInv /\ LoaderInv => TypeOK
  <2> SUFFICES ASSUME ParserInv, LoaderInv
               PROVE  TypeOK
    OBVIOUS
  <2>1. Held(open) \in [Pools -> Nat]
    <3> DEFINE amounts == [i \in DOMAIN open |-> Allocs(open[i], MaxDepth)]
    <3>1. /\ DOMAIN open = 1 .. Len(open) /\ Len(open) \in Nat
          /\ \A i \in 1 .. Len(open) : Allocs(open[i], MaxDepth) \in Amounts
      BY StackTypes DEF ParserInv
    <3>2. amounts \in [1 .. Len(open) -> Amounts]
      BY <3>1
    <3>3. ASSUME NEW n \in Nat, NEW T, NEW f \in [1 .. n -> T]
          PROVE  f \in Seq(T)
      OBVIOUS
    <3> HIDE DEF amounts
    <3>4. Sum(amounts) \in Amounts
      BY <3>1, <3>2, <3>3, SumType
    <3> QED
      BY <3>4 DEF amounts, Held, Amounts
  <2>2. depth \in 0 .. MaxDepth - 1
    <3>1. 0 \in 0 .. MaxDepth - 1 /\ \A n \in 1 .. MaxDepth - 1 : n \in 0 .. MaxDepth - 1
      BY MaxDepthAssumption
    <3> QED
      BY <3>1 DEF ParserInv, DepthInv, Stack
  <2> QED
    BY <2>1, <2>2 DEF TypeOK, ParserInv, LoaderInv, Stack, Returned
<1> QED
  BY <1>1, InvariantsHold, PTL

\* Whatever the text, and wherever it is wrong, everything the parser has
\* allocated is reached from its stack (tinyxml2.cpp:1086, 1126).
THEOREM NoNodesLost == Spec => []NoNodeLost
<1>1. ParserInv => NoNodeLost
  BY DEF ParserInv, NoNodeLost, Held
<1> QED
  BY <1>1, InvariantsHold, PTL

\* Of a map returned as parsed every element that is read has what it must have,
\* and no tileset, layer or group is missing (tmxparser.cpp:627, 424, 276).  It is
\* not claimed that the gids of its layers are known: they need not be.
THEOREM ParsedAreComplete == Spec => []ParsedIsComplete
<1>1. LoaderInv => ParsedIsComplete
  BY DEF LoaderInv
<1> QED
  BY <1>1, InvariantsHold, PTL

\* The parser, one item after another and without looking ahead, accepts exactly
\* the texts whose tags nest (tinyxml2.cpp:1050), whatever text and depth: the
\* names it compares are those of matching tags, and no error is made up.
THEOREM OnlyWellFormedAccepted == Spec => []ParsesWellFormed
<1>1. Init => ReadInv
  BY DEF Init, ReadInv
<1>2. ParserInv /\ LoaderInv /\ ReadInv /\ [Next]_vars => ReadInv'
  BY ReadInvKeeps
<1>3. ReadInv => ParsesWellFormed
  BY DEF ReadInv, ReadInvOf, ParsesWellFormed, MapRead
<1> QED
  BY <1>1, <1>2, <1>3, InvariantsHold, PTL DEF Spec
=============================================================================
