------------------------------ MODULE PlayProofs ------------------------------
(***************************************************************************)
(* What is proved of Play for every set of velocities, every wall, every   *)
(* bound on frames, ticks and packets, with and without loss and           *)
(* reordering, and however far apart the two clocks started.               *)
(***************************************************************************)
EXTENDS Play, OperatorFacts

-----------------------------------------------------------------------------
(* Replaying inputs. *)

LEMMA UpdateKeepsInside ==
  ASSUME NEW pos \in Positions, NEW vel \in Int
  PROVE  PlayerUpdated(pos, vel) \in Positions
<1>1. pos \in Int /\ Wall \in Int /\ 0 <= Wall /\ pos + vel \in Int
  BY PlayAssumption DEF Positions
<1> QED
  BY <1>1 DEF PlayerUpdated, Positions

\* The walls shorten a step and never turn it back.
LEMMA StepIsShort ==
  ASSUME NEW pos \in Positions, NEW vel \in -Speed .. Speed
  PROVE  /\ PlayerUpdated(pos, vel) \in Int
         /\ PlayerUpdated(pos, vel) - pos \in -Speed .. Speed
<1>1. /\ pos \in Int /\ 0 <= pos /\ pos <= Wall /\ Wall \in Int
      /\ Speed \in Nat /\ vel \in Int /\ -Speed <= vel /\ vel <= Speed
  BY PlayAssumption DEF Positions
<1>2. CASE pos + vel < 0
  BY <1>1, <1>2 DEF PlayerUpdated
<1>3. CASE ~ (pos + vel < 0) /\ pos + vel > Wall
  BY <1>1, <1>3 DEF PlayerUpdated
<1>4. CASE ~ (pos + vel < 0) /\ ~ (pos + vel > Wall)
  BY <1>1, <1>4 DEF PlayerUpdated
<1> QED
  BY <1>2, <1>3, <1>4

\* A replay is a run through the inputs, one player_update after the other.
LEMMA ReplayRun ==
  ASSUME NEW pos \in Positions, NEW inputs \in Seq(Inputs)
  PROVE  \E run :
           /\ run[0] = pos
           /\ \A k \in 1 .. Len(inputs) : run[k] = PlayerUpdated(run[k - 1], inputs[k].vel)
           /\ Replay(pos, inputs) = run[Len(inputs)]
<1> DEFINE n == Len(inputs)
           step == [x \in Positions \X Inputs |-> PlayerUpdated(x[1], x[2].vel)]
           Folds(it) == it = [t \in SUBSET (1 .. n) |->
                                IF t = {} THEN pos
                                ELSE PlayerUpdated(it[t \ {Latest(t)}], inputs[Latest(t)].vel)]
<1>1. n \in Nat /\ DOMAIN inputs = 1 .. n /\ \A i \in 1 .. n : inputs[i] \in Inputs
  OBVIOUS
<1>2. Replay(pos, inputs) = (CHOOSE it : Folds(it))[1 .. n]
  BY <1>1 DEF Replay, FoldLeft, MapThenFoldSet, Latest, Max
<1>3. step \in [Positions \X Inputs -> Positions]
  <2>1. \A x \in Positions \X Inputs : x[1] \in Positions /\ x[2].vel \in Int
    BY DEF Inputs
  <2> QED
    BY <2>1, UpdateKeepsInside
<1> HIDE DEF n, step
<1>4. n \in Nat /\ \A i \in 1 .. n : inputs[i] \in Inputs
  BY <1>1
<1>5. PICK it \in [SUBSET (1 .. n) -> Positions] : Stepwise(it, step, pos, inputs, n)
  BY <1>3, <1>4, StepwiseExists, Zenon
<1>6. \A t \in SUBSET (1 .. n) :
        Body(it, step, pos, inputs, t)
          = IF t = {} THEN pos
            ELSE PlayerUpdated(it[t \ {Latest(t)}], inputs[Latest(t)].vel)
  <2> SUFFICES ASSUME NEW t \in SUBSET (1 .. n), t # {}
               PROVE  step[<<it[t \ {Latest(t)}], inputs[Latest(t)]>>]
                        = PlayerUpdated(it[t \ {Latest(t)}], inputs[Latest(t)].vel)
    BY Zenon DEF Body
  <2>1. Latest(t) \in 1 .. n /\ t \ {Latest(t)} \in SUBSET (1 .. n)
    BY <1>1, LatestIsOne
  <2>2. it[t \ {Latest(t)}] \in Positions /\ inputs[Latest(t)] \in Inputs
    BY <1>1, <2>1
  <2> QED
    BY <2>2 DEF step
<1>7. Folds(it)
  BY <1>5, <1>6, Zenon DEF Stepwise
<1> DEFINE f == CHOOSE h : Folds(h)
<1>8. Folds(f)
  <2> HIDE DEF Folds
  <2> QED
    BY <1>7, Zenon
<1> HIDE DEF f
<1> DEFINE run == [k \in 0 .. n |-> f[1 .. k]]
<1>9. run[0] = pos
  <2>1. 1 .. 0 = {} /\ 0 \in 0 .. n /\ {} \in SUBSET (1 .. n)
    BY <1>1
  <2>2. f[{}] = pos
    BY <1>8, <2>1
  <2> QED
    BY <2>1, <2>2
<1>10. \A k \in 1 .. n : run[k] = PlayerUpdated(run[k - 1], inputs[k].vel)
  <2> SUFFICES ASSUME NEW k \in 1 .. n
               PROVE  run[k] = PlayerUpdated(run[k - 1], inputs[k].vel)
    OBVIOUS
  <2>1. /\ k \in Nat \ {0} /\ k \in 0 .. n /\ k - 1 \in 0 .. n
        /\ 1 .. k \in SUBSET (1 .. n)
    BY <1>1
  <2>2. 1 .. k # {} /\ Latest(1 .. k) = k /\ (1 .. k) \ {Latest(1 .. k)} = 1 .. (k - 1)
    BY <2>1, PlacesInOrder
  <2>3. f[1 .. k] = PlayerUpdated(f[(1 .. k) \ {Latest(1 .. k)}], inputs[Latest(1 .. k)].vel)
    BY <1>8, <2>1, <2>2
  <2>4. run[k] = f[1 .. k] /\ run[k - 1] = f[1 .. (k - 1)]
    BY <2>1
  <2> QED
    BY <2>2, <2>3, <2>4
<1>11. Replay(pos, inputs) = run[n]
  <2>1. n \in 0 .. n
    BY <1>1
  <2> QED
    BY <1>2, <2>1, Zenon DEF f
<1> QED
  BY <1>9, <1>10, <1>11, Zenon DEF n

LEMMA ReplayKeepsInside ==
  ASSUME NEW pos \in Positions, NEW inputs \in Seq(Inputs)
  PROVE  Replay(pos, inputs) \in Positions
<1>1. PICK run :
        /\ run[0] = pos
        /\ \A k \in 1 .. Len(inputs) : run[k] = PlayerUpdated(run[k - 1], inputs[k].vel)
        /\ Replay(pos, inputs) = run[Len(inputs)]
  BY ReplayRun
<1> DEFINE T == {k \in 0 .. Len(inputs) : run[k] \in Positions}
<1>2. Len(inputs) \in Nat /\ 0 \in T
  BY <1>1
<1>3. \A k \in 1 .. Len(inputs) : k - 1 \in T => k \in T
  <2>1. \A k \in 1 .. Len(inputs) : inputs[k] \in Inputs
    OBVIOUS
  <2>2. \A k \in 1 .. Len(inputs) : inputs[k].vel \in Int
    BY <2>1 DEF Inputs
  <2> SUFFICES ASSUME NEW k \in 1 .. Len(inputs), k - 1 \in T
               PROVE  k \in T
    OBVIOUS
  <2>3. run[k - 1] \in Positions /\ k \in 0 .. Len(inputs)
    BY <1>2
  <2>4. PlayerUpdated(run[k - 1], inputs[k].vel) \in Positions
    BY <2>2, <2>3, UpdateKeepsInside, Zenon
  <2> QED
    BY <1>1, <2>3, <2>4
<1> HIDE DEF T
<1>4. \A k \in 0 .. Len(inputs) : k \in T
  BY <1>2, <1>3, UpTo
<1>5. Len(inputs) \in T
  BY <1>2, <1>4
<1> QED
  BY <1>1, <1>5 DEF T

\* One more input is one more step.
LEMMA OneMore ==
  ASSUME NEW a \in Int, NEW speed \in Nat
  PROVE  /\ a * speed \in Int /\ (a + 1) * speed = a * speed + speed
         /\ -((a + 1) * speed) = -(a * speed) - speed
OBVIOUS

LEMMA ScaledNatural ==
  ASSUME NEW a \in Nat, NEW speed \in Nat
  PROVE  a * speed \in Nat
OBVIOUS

LEMMA ScaledInOrder ==
  ASSUME NEW a \in Int, NEW b \in Int, a <= b, NEW speed \in Nat
  PROVE  a * speed <= b * speed /\ a * speed \in Int /\ b * speed \in Int
<1>1. PICK d \in Nat : b = a + d
  <2>1. b - a \in Nat /\ b = a + (b - a)
    OBVIOUS
  <2> QED
    BY <2>1
<1>2. d * speed \in Nat
  OBVIOUS
<1>3. (a + d) * speed = a * speed + d * speed /\ a * speed \in Int
  OBVIOUS
<1> QED
  BY <1>1, <1>2, <1>3

\* The inputs of the keys: no longer a step than Speed.
BoundedInputs == {i \in Inputs : i.vel \in -Speed .. Speed}

LEMMA ReplayDrift ==
  ASSUME NEW pos \in Positions, NEW inputs \in Seq(BoundedInputs)
  PROVE  Replay(pos, inputs) - pos \in -(Len(inputs) * Speed) .. (Len(inputs) * Speed)
<1>1. inputs \in Seq(Inputs) /\ Len(inputs) \in Nat
      /\ \A k \in 1 .. Len(inputs) : inputs[k].vel \in -Speed .. Speed
  <2>1. \A k \in 1 .. Len(inputs) : inputs[k] \in BoundedInputs
    OBVIOUS
  <2> QED
    BY <2>1 DEF BoundedInputs
<1>2. PICK run :
        /\ run[0] = pos
        /\ \A k \in 1 .. Len(inputs) : run[k] = PlayerUpdated(run[k - 1], inputs[k].vel)
        /\ Replay(pos, inputs) = run[Len(inputs)]
  BY <1>1, ReplayRun
<1> DEFINE T == {k \in 0 .. Len(inputs) :
                   run[k] \in Positions /\ run[k] - pos \in -(k * Speed) .. (k * Speed)}
<1>3. pos \in Int /\ Speed \in Nat /\ Positions \subseteq Int
  BY PlayAssumption DEF Positions
<1>4. 0 \in T
  <2>1. 0 * Speed = 0 /\ run[0] - pos = 0 /\ run[0] \in Positions /\ 0 \in 0 .. Len(inputs)
    BY <1>1, <1>2, <1>3
  <2> QED
    BY <2>1
<1>5. \A k \in 1 .. Len(inputs) : k - 1 \in T => k \in T
  <2> SUFFICES ASSUME NEW k \in 1 .. Len(inputs), k - 1 \in T
               PROVE  k \in T
    OBVIOUS
  <2> DEFINE e == run[k - 1]
             f == run[k]
             b == (k - 1) * Speed
  <2>1. /\ e \in Positions /\ e - pos \in -b .. b
        /\ inputs[k].vel \in -Speed .. Speed /\ inputs[k].vel \in Int /\ k \in 0 .. Len(inputs)
    BY <1>1, <1>3
  <2>2. f = PlayerUpdated(e, inputs[k].vel)
    BY <1>2
  <2>3. f \in Positions /\ f \in Int /\ f - e \in -Speed .. Speed
    BY <2>1, <2>2, StepIsShort, UpdateKeepsInside, Zenon
  <2>4. b \in Int /\ k * Speed = b + Speed
    <3>1. k - 1 \in Int /\ (k - 1) + 1 = k
      OBVIOUS
    <3> QED
      BY <1>3, <3>1, OneMore
  <2> HIDE DEF e, f, b
  <2>5. e \in Int
    BY <1>3, <2>1
  <2>6. f - pos \in -(b + Speed) .. (b + Speed)
    BY <1>3, <2>1, <2>3, <2>4, <2>5
  <2>7. f - pos \in -(k * Speed) .. (k * Speed)
    BY <2>4, <2>6, Zenon
  <2> QED
    BY <2>1, <2>3, <2>7 DEF f
<1> HIDE DEF T
<1>6. \A k \in 0 .. Len(inputs) : k \in T
  BY <1>1, <1>4, <1>5, UpTo
<1>7. Len(inputs) \in T
  BY <1>1, <1>6
<1> QED
  BY <1>2, <1>7 DEF T

\* Nothing is replayed where there is nothing.
LEMMA ReplayNothing ==
  ASSUME NEW pos \in Positions
  PROVE  Replay(pos, <<>>) = pos
<1>1. <<>> \in Seq(Inputs) /\ Len(<<>>) = 0
  OBVIOUS
<1>2. PICK run :
        /\ run[0] = pos
        /\ \A k \in 1 .. Len(<<>>) : run[k] = PlayerUpdated(run[k - 1], <<>>[k].vel)
        /\ Replay(pos, <<>>) = run[Len(<<>>)]
  BY <1>1, ReplayRun, Zenon
<1> QED
  BY <1>1, <1>2, Zenon

-----------------------------------------------------------------------------
(* The paths. *)

LEMMA DeliverKeeps ==
  ASSUME NEW S, NEW path \in Seq(S), NEW packet \in S
  PROVE  Deliver(path, packet) \in Seq(S)
BY DEF Deliver

LEMMA RemoveAtKeeps ==
  ASSUME NEW S, NEW path \in Seq(S), NEW i \in DOMAIN path
  PROVE  RemoveAt(path, i) \in Seq(S)
<1>1. i \in 1 .. Len(path) /\ Len(path) \in Nat
  OBVIOUS
<1>2. SubSeq(path, 1, i - 1) \in Seq(S)
  <2>1. 1 \in 1 .. Len(path) + 1 /\ i - 1 \in 0 .. Len(path)
    BY <1>1
  <2> QED
    BY <2>1
<1>3. SubSeq(path, i + 1, Len(path)) \in Seq(S)
  BY <1>1
<1> QED
  BY <1>2, <1>3, ConcatProperties DEF RemoveAt

LEMMA ArrivingIsThere ==
  ASSUME NEW path, NEW i \in Arriving(path)
  PROVE  i \in DOMAIN path
BY DEF Arriving

-----------------------------------------------------------------------------
(* What is acknowledged. *)

InOrder(inputs) ==
  \A i, j \in 1 .. Len(inputs) : i < j => inputs[i].timestamp < inputs[j].timestamp

\* In a sequence in timestamp order upper_bound finds a place.
LEMMA UpperBoundExists ==
  ASSUME NEW inputs \in Seq(Inputs), InOrder(inputs), NEW timestamp \in Int
  PROVE  /\ UpperBound(inputs, timestamp) \in 0 .. Len(inputs)
         /\ \A i \in 1 .. UpperBound(inputs, timestamp) : inputs[i].timestamp <= timestamp
         /\ \A i \in UpperBound(inputs, timestamp) + 1 .. Len(inputs) :
              inputs[i].timestamp > timestamp
<1> DEFINE T == {n \in 0 .. Len(inputs) : n = Len(inputs) \/ inputs[n + 1].timestamp > timestamp}
<1>1. Len(inputs) \in Nat /\ \A i \in 1 .. Len(inputs) : inputs[i].timestamp \in Nat
  <2>1. \A i \in 1 .. Len(inputs) : inputs[i] \in Inputs
    OBVIOUS
  <2> QED
    BY <2>1 DEF Inputs
<1>2. T \subseteq Nat /\ Len(inputs) \in T
  BY <1>1
<1>3. PICK n \in T : \A m \in T : n <= m
  BY <1>2, LeastNatural
<1>4. \A i \in 1 .. n : inputs[i].timestamp <= timestamp
  <2> SUFFICES ASSUME NEW i \in 1 .. n
               PROVE  inputs[i].timestamp <= timestamp
    OBVIOUS
  <2>1. i - 1 \in 0 .. Len(inputs) /\ ~ (n <= i - 1) /\ i \in 1 .. Len(inputs) /\ (i - 1) + 1 = i
    BY <1>1
  <2>2. i - 1 \notin T
    BY <1>3, <2>1
  <2> QED
    BY <1>1, <2>1, <2>2
<1>5. \A i \in n + 1 .. Len(inputs) : inputs[i].timestamp > timestamp
  <2> SUFFICES ASSUME NEW i \in n + 1 .. Len(inputs)
               PROVE  inputs[i].timestamp > timestamp
    OBVIOUS
  <2>1. n \in Nat /\ n # Len(inputs) /\ n + 1 \in 1 .. Len(inputs) /\ i \in 1 .. Len(inputs)
    BY <1>1, <1>2
  <2>2. inputs[n + 1].timestamp > timestamp
    BY <2>1
  <2>3. i = n + 1 \/ n + 1 < i
    BY <2>1
  <2>4. i = n + 1 \/ inputs[n + 1].timestamp < inputs[i].timestamp
    BY <2>1, <2>3 DEF InOrder
  <2> QED
    BY <1>1, <2>1, <2>2, <2>4
<1>6. \E k \in 0 .. Len(inputs) :
        /\ \A i \in 1 .. k : inputs[i].timestamp <= timestamp
        /\ \A i \in k + 1 .. Len(inputs) : inputs[i].timestamp > timestamp
  BY <1>4, <1>5
<1> QED
  BY <1>6 DEF UpperBound

\* The erase leaves what is later than the timestamp, in order.
LEMMA AfterEffect ==
  ASSUME NEW S, S \subseteq Inputs, NEW inputs \in Seq(S), InOrder(inputs), NEW timestamp \in Int
  PROVE  /\ After(inputs, timestamp) \in Seq(S)
         /\ InOrder(After(inputs, timestamp))
         /\ \A i \in 1 .. Len(After(inputs, timestamp)) :
              /\ After(inputs, timestamp)[i].timestamp > timestamp
              /\ \E j \in 1 .. Len(inputs) : After(inputs, timestamp)[i] = inputs[j]
<1> DEFINE n == UpperBound(inputs, timestamp)
           rest == After(inputs, timestamp)
<1>1. inputs \in Seq(Inputs) /\ Len(inputs) \in Nat
  BY SeqMonotonic
<1>2. n \in 0 .. Len(inputs) /\ \A i \in n + 1 .. Len(inputs) : inputs[i].timestamp > timestamp
  BY <1>1, UpperBoundExists
<1> HIDE DEF n
<1>3. /\ rest \in Seq(S) /\ Len(rest) = Len(inputs) - n
      /\ \A i \in 1 .. Len(inputs) - n : rest[i] = inputs[n + i]
  <2>1. rest = SubSeq(inputs, n + 1, Len(inputs))
    BY DEF After, n
  <2>2. n + 1 \in 1 .. Len(inputs) + 1 /\ Len(inputs) \in (n + 1) - 1 .. Len(inputs)
    BY <1>1, <1>2
  <2> HIDE DEF rest
  <2>3. /\ rest \in Seq(S) /\ Len(rest) = Len(inputs) - (n + 1) + 1
        /\ \A i \in 1 .. Len(inputs) - (n + 1) + 1 : rest[i] = inputs[(n + 1) + i - 1]
    BY <2>1, <2>2, SubSeqProperties
  <2>4. Len(inputs) - (n + 1) + 1 = Len(inputs) - n
        /\ \A i \in 1 .. Len(inputs) - n : (n + 1) + i - 1 = n + i
    BY <1>1, <1>2
  <2> QED
    BY <2>3, <2>4
<1> HIDE DEF rest
<1>4. \A i \in 1 .. Len(rest) : n + i \in n + 1 .. Len(inputs) /\ n + i \in 1 .. Len(inputs)
  BY <1>1, <1>2, <1>3
<1>5. InOrder(rest)
  <2> SUFFICES ASSUME NEW i \in 1 .. Len(rest), NEW j \in 1 .. Len(rest), i < j
               PROVE  rest[i].timestamp < rest[j].timestamp
    BY DEF InOrder
  <2>1. n + i < n + j
    BY <1>2
  <2> QED
    BY <1>3, <1>4, <2>1 DEF InOrder
<1> QED
  BY <1>2, <1>3, <1>4, <1>5 DEF rest

-----------------------------------------------------------------------------
(***************************************************************************)
(* Types.  They need the order of unacknowledged: upper_bound is only      *)
(* defined for it.                                                         *)
(***************************************************************************)
TypeInv ==
  /\ TypeOK
  /\ InOrder(unacknowledged)
  /\ \A i \in 1 .. Len(unacknowledged) : unacknowledged[i].timestamp <= frames

LEMMA TypeInit == Init => TypeInv
<1> SUFFICES ASSUME Init PROVE TypeInv
  OBVIOUS
<1>1. Wall \in Nat /\ 0 \in Positions
  BY PlayAssumption DEF Positions
<1>2. Input(0, 0) \in Inputs
  BY DEF Input, Inputs
<1>3. State(0, Spawn, 0) \in States
  BY <1>1 DEF State, States, Spawn
<1>4. Len(<<>>) = 0 /\ <<>> \in Seq(Inputs) /\ <<>> \in Seq(States)
  OBVIOUS
<1> QED
  BY <1>1, <1>2, <1>3, <1>4 DEF Init, TypeInv, TypeOK, InOrder, Spawn

\* What GetInput does to unacknowledged, whether or not the push is lost.
LEMMA PushKeepsOrder ==
  ASSUME TypeInv, GetInput
  PROVE  /\ input' \in Inputs /\ input'.timestamp = frames + 1 /\ input'.vel \in Velocities
         /\ frames' = frames + 1
         /\ unacknowledged' \in Seq(Inputs) /\ InOrder(unacknowledged')
         /\ Len(unacknowledged') >= Len(unacknowledged)
         /\ \A i \in 1 .. Len(unacknowledged') :
              \/ i \in 1 .. Len(unacknowledged) /\ unacknowledged'[i] = unacknowledged[i]
              \/ unacknowledged'[i] = input'
<1>1. frames \in Nat /\ unacknowledged \in Seq(Inputs) /\ Len(unacknowledged) \in Nat
      /\ frames' = frames + 1
  BY DEF TypeInv, TypeOK, GetInput
<1>2. input' \in Inputs /\ input'.timestamp = frames + 1 /\ input'.vel \in Velocities
  BY <1>1, PlayAssumption DEF GetInput, Input, Inputs
<1>3. CASE UNCHANGED unacknowledged
  BY <1>1, <1>2, <1>3 DEF TypeInv
<1>4. CASE unacknowledged' = Append(unacknowledged, input')
  <2>1. /\ unacknowledged' \in Seq(Inputs)
        /\ Len(unacknowledged') = Len(unacknowledged) + 1
        /\ \A i \in 1 .. Len(unacknowledged) : unacknowledged'[i] = unacknowledged[i]
        /\ unacknowledged'[Len(unacknowledged) + 1] = input'
    BY <1>1, <1>2, <1>4, AppendProperties
  <2>2. \A i \in 1 .. Len(unacknowledged') :
          i \in 1 .. Len(unacknowledged) \/ i = Len(unacknowledged) + 1
    BY <1>1, <2>1
  <2>3. InOrder(unacknowledged')
    <3> SUFFICES ASSUME NEW i \in 1 .. Len(unacknowledged'), NEW j \in 1 .. Len(unacknowledged'), i < j
                 PROVE  unacknowledged'[i].timestamp < unacknowledged'[j].timestamp
      BY DEF InOrder
    <3>1. i \in 1 .. Len(unacknowledged)
      BY <1>1, <2>1
    <3>2. unacknowledged[i] \in Inputs /\ unacknowledged[i].timestamp <= frames
      BY <1>1, <3>1 DEF TypeInv
    <3>3. CASE j \in 1 .. Len(unacknowledged)
      <4>1. unacknowledged[i].timestamp < unacknowledged[j].timestamp
        BY <3>1, <3>3 DEF TypeInv, InOrder
      <4> QED
        BY <2>1, <3>1, <3>3, <4>1
    <3>4. CASE j = Len(unacknowledged) + 1
      <4>1. unacknowledged'[j].timestamp = frames + 1
        BY <1>2, <2>1, <3>4
      <4>2. unacknowledged'[i].timestamp = unacknowledged[i].timestamp
        BY <2>1, <3>1
      <4>3. unacknowledged[i].timestamp \in Nat
        BY <3>2 DEF Inputs
      <4> QED
        BY <1>1, <3>2, <4>1, <4>2, <4>3
    <3> QED
      BY <2>2, <3>3, <3>4
  <2> QED
    BY <1>1, <1>2, <2>1, <2>2, <2>3
<1> QED
  BY <1>3, <1>4 DEF GetInput

\* What Adopt does: the state is one that has arrived, the erase keeps order.
LEMMA AdoptEffect ==
  ASSUME TypeInv, Adopt
  PROVE  /\ \E i \in DOMAIN down : adopted' = down[i] /\ down' = RemoveAt(down, i)
         /\ adopted' \in States /\ down' \in Seq(States)
         /\ unacknowledged' \in Seq(Inputs) /\ InOrder(unacknowledged')
         /\ \A i \in 1 .. Len(unacknowledged') :
              /\ unacknowledged'[i].timestamp > adopted'.timestamp
              /\ \E j \in 1 .. Len(unacknowledged) : unacknowledged'[i] = unacknowledged[j]
<1>1. PICK i \in DOMAIN down : adopted' = down[i] /\ down' = RemoveAt(down, i)
  BY ArrivingIsThere DEF Adopt
<1>2. down \in Seq(States) /\ unacknowledged \in Seq(Inputs) /\ InOrder(unacknowledged)
  BY DEF TypeInv, TypeOK
<1>3. adopted' \in States /\ down' \in Seq(States)
  BY <1>1, <1>2, RemoveAtKeeps
<1>4. adopted'.timestamp \in Int
  BY <1>3 DEF States
<1>5. unacknowledged' = After(unacknowledged, adopted'.timestamp)
  BY DEF Adopt
<1>6. /\ unacknowledged' \in Seq(Inputs) /\ InOrder(unacknowledged')
      /\ \A k \in 1 .. Len(unacknowledged') :
           /\ unacknowledged'[k].timestamp > adopted'.timestamp
           /\ \E j \in 1 .. Len(unacknowledged) : unacknowledged'[k] = unacknowledged[j]
  <2> DEFINE ts == adopted'.timestamp
             rest == unacknowledged'
  <2>1. ts \in Int /\ rest = After(unacknowledged, ts)
    BY <1>4, <1>5
  <2> HIDE DEF ts, rest
  <2>2. /\ rest \in Seq(Inputs) /\ InOrder(rest)
        /\ \A k \in 1 .. Len(rest) :
             /\ rest[k].timestamp > ts
             /\ \E j \in 1 .. Len(unacknowledged) : rest[k] = unacknowledged[j]
    BY <1>2, <2>1, AfterEffect
  <2> QED
    BY <2>2 DEF ts, rest
<1> QED
  BY <1>1, <1>3, <1>6

\* What a turn of the server does, given the input that is the last one after it.
LEMMA BroadcastEffect ==
  ASSUME TypeInv, NEW n \in 0 .. MaxTicks, NEW last \in Inputs, Broadcast(n, last)
  PROVE  /\ player' \in Positions /\ lastInput' = last
         /\ State(frames + skew, player', last.timestamp) \in States
         /\ down' = Deliver(down, State(frames + skew, player', last.timestamp))
<1>1. n \in Nat
  BY PlayAssumption
<1>2. [k \in 1 .. n |-> last] \in Seq(Inputs)
  BY <1>1
<1>3. player' \in Positions
  <2>1. player \in Positions /\ player' = Replay(player, [k \in 1 .. n |-> last])
    BY DEF Broadcast, Ticks, TypeInv, TypeOK
  <2> DEFINE s == [k \in 1 .. n |-> last]
  <2>2. s \in Seq(Inputs) /\ player' = Replay(player, s)
    BY <1>2, <2>1
  <2> HIDE DEF s
  <2>3. Replay(player, s) \in Positions
    BY <2>1, <2>2, ReplayKeepsInside
  <2> QED
    BY <2>2, <2>3
<1>4. frames + skew \in Int /\ last.timestamp \in Nat
  BY PlayAssumption DEF TypeInv, TypeOK, Inputs
<1> QED
  BY <1>3, <1>4 DEF Broadcast, State, States

\* Every turn of the server is a broadcast after an input it has seen.
LEMMA TurnEffect ==
  ASSUME TypeInv, InputTurn \/ OtherTurn
  PROVE  \E n \in 0 .. MaxTicks, last \in Inputs :
           /\ Broadcast(n, last)
           /\ \/ last = lastInput
              \/ \E i \in DOMAIN up : last = up[i]
           /\ \/ UNCHANGED up
              \/ \E i \in DOMAIN up : up' = RemoveAt(up, i)
<1>1. lastInput \in Inputs /\ up \in Seq(Inputs)
  BY DEF TypeInv, TypeOK
<1>2. CASE OtherTurn
  BY <1>1, <1>2 DEF OtherTurn
<1>3. CASE InputTurn
  <2>1. PICK i \in Arriving(up), n \in 0 .. MaxTicks :
          /\ up' = RemoveAt(up, i)
          /\ Broadcast(n, IF up[i].timestamp > lastInput.timestamp THEN up[i] ELSE lastInput)
    BY <1>3 DEF InputTurn
  <2>2. i \in DOMAIN up /\ up[i] \in Inputs
    BY <1>1, ArrivingIsThere
  <2>3. CASE up[i].timestamp > lastInput.timestamp
    BY <2>1, <2>2, <2>3
  <2>4. CASE ~ (up[i].timestamp > lastInput.timestamp)
    BY <1>1, <2>1, <2>2, <2>4
  <2> QED
    BY <2>3, <2>4
<1> QED
  BY <1>2, <1>3

LEMMA TypeStep == TypeInv /\ [Next]_vars => TypeInv'
<1> SUFFICES ASSUME TypeInv, [Next]_vars
             PROVE  TypeInv'
  OBVIOUS
<1> USE DEF TypeInv, TypeOK
<1>1. CASE GetInput
  <2>1. /\ input' \in Inputs /\ input'.timestamp = frames + 1
        /\ frames' = frames + 1
        /\ unacknowledged' \in Seq(Inputs) /\ InOrder(unacknowledged')
        /\ Len(unacknowledged') >= Len(unacknowledged)
        /\ \A i \in 1 .. Len(unacknowledged') :
             \/ i \in 1 .. Len(unacknowledged) /\ unacknowledged'[i] = unacknowledged[i]
             \/ unacknowledged'[i] = input'
    BY <1>1, PushKeepsOrder
  <2>2. \A i \in 1 .. Len(unacknowledged') : unacknowledged'[i].timestamp <= frames'
    <3> SUFFICES ASSUME NEW i \in 1 .. Len(unacknowledged')
                 PROVE  unacknowledged'[i].timestamp <= frames'
      OBVIOUS
    <3>1. CASE unacknowledged'[i] = input'
      BY <2>1, <3>1
    <3>2. CASE i \in 1 .. Len(unacknowledged) /\ unacknowledged'[i] = unacknowledged[i]
      <4>1. unacknowledged[i] \in Inputs /\ unacknowledged[i].timestamp <= frames
        BY <3>2
      <4>2. unacknowledged[i].timestamp \in Nat /\ frames \in Nat
        BY <4>1 DEF Inputs
      <4>3. unacknowledged'[i].timestamp = unacknowledged[i].timestamp /\ frames' = frames + 1
        BY <2>1, <3>2
      <4> QED
        BY <4>1, <4>2, <4>3
    <3> QED
      BY <2>1, <3>1, <3>2
  <2>3. replayed' \in 0 .. Len(unacknowledged')
    BY <1>1, <2>1 DEF GetInput
  <2>4. InOrder(unacknowledged)'
    BY <2>1 DEF InOrder
  <2> QED
    BY <1>1, <2>1, <2>2, <2>3, <2>4 DEF GetInput, serverVars
<1>2. CASE Predict
  <2>1. input.vel \in Int
    BY DEF Inputs
  <2>2. PlayerUpdated(local, input.vel) \in Positions
    BY <2>1, UpdateKeepsInside
  <2> QED
    BY <1>2, <2>2 DEF Predict, serverVars, InOrder
<1>3. CASE SendInput
  BY <1>3, DeliverKeeps DEF SendInput, serverVars, InOrder
<1>4. CASE SaveId
  BY <1>4 DEF SaveId, serverVars, InOrder
<1>5. CASE Ignore
  <2>1. down' \in Seq(States)
    BY <1>5, ArrivingIsThere, RemoveAtKeeps DEF Ignore
  <2> QED
    BY <1>5, <2>1 DEF Ignore, clientVars, serverVars, InOrder
<1>6. CASE Adopt
  <2>1. /\ adopted' \in States /\ down' \in Seq(States)
        /\ unacknowledged' \in Seq(Inputs) /\ InOrder(unacknowledged')
        /\ \A i \in 1 .. Len(unacknowledged') :
             \E j \in 1 .. Len(unacknowledged) : unacknowledged'[i] = unacknowledged[j]
    BY <1>6, AdoptEffect
  <2>2. frames' = frames /\ \A i \in 1 .. Len(unacknowledged') : unacknowledged'[i].timestamp <= frames'
    BY <1>6, <2>1 DEF Adopt
  <2>3. local' \in Positions /\ replayed' \in 0 .. Len(unacknowledged')
    BY <1>6, <2>1 DEF Adopt, States
  <2>4. InOrder(unacknowledged)'
    BY <2>1 DEF InOrder
  <2> QED
    BY <1>6, <2>1, <2>2, <2>3, <2>4 DEF Adopt, serverVars
<1>7. CASE ReplayInputs
  <2>1. PICK n \in replayed .. Len(unacknowledged) :
          local' = Replay(local, SubSeq(unacknowledged, 1, n))
    BY <1>7 DEF ReplayInputs
  <2>2. SubSeq(unacknowledged, 1, n) \in Seq(Inputs)
    OBVIOUS
  <2>3. local' \in Positions
    BY <2>1, <2>2, ReplayKeepsInside
  <2> QED
    BY <1>7, <2>3 DEF ReplayInputs, serverVars, InOrder
<1>8. CASE InputTurn \/ OtherTurn
  <2>1. PICK n \in 0 .. MaxTicks, last \in Inputs :
          Broadcast(n, last) /\ (UNCHANGED up \/ \E i \in DOMAIN up : up' = RemoveAt(up, i))
    BY <1>8, TurnEffect
  <2>2. player' \in Positions /\ lastInput' = last /\ down' \in Seq(States)
    BY <2>1, BroadcastEffect, DeliverKeeps
  <2>3. up' \in Seq(Inputs)
    BY <2>1, RemoveAtKeeps
  <2> QED
    BY <2>1, <2>2, <2>3 DEF Broadcast, clientVars, InOrder
<1>9. CASE Lose
  <2>1. up' \in Seq(Inputs) /\ down' \in Seq(States)
    BY <1>9, RemoveAtKeeps DEF Lose
  <2> QED
    BY <1>9, <2>1 DEF Lose, clientVars, serverVars, InOrder
<1>10. CASE UNCHANGED vars
  BY <1>10 DEF vars, clientVars, serverVars, InOrder
<1> QED
  BY <1>1, <1>2, <1>3, <1>4, <1>5, <1>6, <1>7, <1>8, <1>9, <1>10 DEF Next

LEMMA TypeInvHolds == Spec => []TypeInv
BY TypeInit, TypeStep, PTL DEF Spec

(***************************************************************************)
(* The position a player is shown at, and the one the server keeps, stay   *)
(* inside the walls, and upper_bound is only asked of inputs in order.     *)
(***************************************************************************)
THEOREM TypeCorrect == Spec => []TypeOK
<1>1. TypeInv => TypeOK
  BY DEF TypeInv
<1> QED
  BY <1>1, TypeInvHolds, PTL

-----------------------------------------------------------------------------
(***************************************************************************)
(* Drift.  The inputs kept are later than the time the state bears, and no *)
(* more than one for each frame since; one pushed after the state was      *)
(* adopted may be earlier where the server's clock is ahead, but not       *)
(* earlier than the state was sent.                                        *)
(***************************************************************************)

\* As many inputs in order as there are timestamps for them.
LEMMA InOrderIsShort ==
  ASSUME NEW inputs \in Seq(Inputs), InOrder(inputs), NEW from \in Int, NEW to \in Int,
         from <= to,
         \A i \in 1 .. Len(inputs) : inputs[i].timestamp > from /\ inputs[i].timestamp <= to
  PROVE  Len(inputs) <= to - from
<1> DEFINE T == {k \in 0 .. Len(inputs) : k = 0 \/ inputs[k].timestamp >= from + k}
<1>1. Len(inputs) \in Nat /\ \A i \in 1 .. Len(inputs) : inputs[i].timestamp \in Int
  <2>1. \A i \in 1 .. Len(inputs) : inputs[i] \in Inputs
    OBVIOUS
  <2> QED
    BY <2>1 DEF Inputs
<1>2. 0 \in T
  BY <1>1
<1>3. \A k \in 1 .. Len(inputs) : k - 1 \in T => k \in T
  <2>0. \A k \in 1 .. Len(inputs) : k \in 0 .. Len(inputs)
    BY <1>1
  <2> SUFFICES ASSUME NEW k \in 1 .. Len(inputs), k - 1 \in T
               PROVE  inputs[k].timestamp >= from + k
    BY <2>0
  <2>1. CASE k = 1
    BY <1>1, <2>1
  <2>2. CASE k # 1
    <3>1. k \in Int /\ k - 1 \in 1 .. Len(inputs) /\ k - 1 < k
      BY <1>1, <2>2
    <3>2. inputs[k - 1].timestamp < inputs[k].timestamp
      BY <3>1 DEF InOrder
    <3>3. inputs[k - 1].timestamp >= from + (k - 1)
      BY <3>1
    <3>4. inputs[k - 1].timestamp \in Int /\ inputs[k].timestamp \in Int
      BY <1>1, <3>1
    <3> DEFINE before == inputs[k - 1].timestamp
               stamp == inputs[k].timestamp
    <3>5. /\ before \in Int /\ stamp \in Int
          /\ before < stamp /\ before >= from + (k - 1)
      BY <3>2, <3>3, <3>4
    <3> HIDE DEF before, stamp
    <3>6. stamp >= from + k
      BY <3>1, <3>5
    <3> QED
      BY <3>6 DEF stamp
  <2> QED
    BY <2>1, <2>2
<1> HIDE DEF T
<1>4. \A k \in 0 .. Len(inputs) : k \in T
  BY <1>1, <1>2, <1>3, UpTo
<1>5. Len(inputs) \in T
  BY <1>1, <1>4
<1>6. CASE Len(inputs) = 0
  BY <1>6
<1>7. CASE Len(inputs) # 0
  <2>1. Len(inputs) \in 1 .. Len(inputs)
    BY <1>1, <1>7
  <2>2. inputs[Len(inputs)].timestamp >= from + Len(inputs)
    BY <1>5, <1>7 DEF T
  <2> QED
    BY <1>1, <2>1, <2>2
<1> QED
  BY <1>6, <1>7

\* No state was sent later than now.
PastStates == {s \in States : s.timestamp - Lead <= frames}

KeptSince ==
  \A i \in 1 .. Len(unacknowledged) :
    unacknowledged[i].timestamp > adopted.timestamp - Lead

\* The current frame's prediction is still to come, or may have been one too many.
Since == frames - adopted.timestamp + Lead + (IF main = "predict" THEN 0 ELSE 1)

NearAdopted == local - adopted.pos \in -(Since * Speed) .. (Since * Speed)

DriftInv ==
  /\ input \in BoundedInputs /\ unacknowledged \in Seq(BoundedInputs)
  /\ down \in Seq(PastStates) /\ adopted \in PastStates
  /\ KeptSince
  /\ listener = "replaying" => local = adopted.pos
  /\ NearAdopted

LEMMA LeadIsNatural == ASSUME TypeInv PROVE Lead \in Nat
BY PlayAssumption DEF Lead, TypeInv, TypeOK

LEMMA DriftInit == Init => DriftInv
<1> SUFFICES ASSUME Init PROVE DriftInv
  OBVIOUS
<1>1. TypeInv /\ Speed \in Nat
  BY TypeInit, PlayAssumption
<1>2. input \in BoundedInputs
  <2>1. input.vel = 0 /\ input \in Inputs
    BY <1>1 DEF Init, Input, TypeInv, TypeOK
  <2> QED
    BY <1>1, <2>1 DEF BoundedInputs
<1>3. adopted \in PastStates
  <2>1. Lead \in Nat /\ adopted \in States /\ adopted.timestamp = 0 /\ frames = 0
    BY <1>1, LeadIsNatural DEF Init, State, TypeInv, TypeOK
  <2> QED
    BY <2>1 DEF PastStates
<1>4. <<>> \in Seq(BoundedInputs) /\ <<>> \in Seq(PastStates) /\ Len(<<>>) = 0
  OBVIOUS
<1>5. NearAdopted
  <2>1. local - adopted.pos = 0 /\ Since = Lead + 1
    BY <1>1, LeadIsNatural DEF Init, State, Spawn, Since
  <2>2. Since \in Nat
    BY <1>1, <2>1, LeadIsNatural
  <2>3. Since * Speed \in Nat
    BY <1>1, <2>2
  <2> QED
    BY <2>1, <2>3 DEF NearAdopted
<1> QED
  BY <1>2, <1>3, <1>4, <1>5 DEF Init, DriftInv, KeptSince

LEMMA SeqOfBounded ==
  ASSUME NEW inputs \in Seq(Inputs), \A i \in 1 .. Len(inputs) : inputs[i] \in BoundedInputs
  PROVE  inputs \in Seq(BoundedInputs)
OBVIOUS

\* The inputs kept: one at most for each frame since the state was sent.
LEMMA KeptAreFew ==
  ASSUME TypeInv, DriftInv
  PROVE  Len(unacknowledged) <= frames - adopted.timestamp + Lead
<1> DEFINE from == adopted.timestamp - Lead
<1>1. /\ frames \in Int /\ from \in Int /\ from <= frames
      /\ adopted.timestamp \in Int /\ Lead \in Int
  BY LeadIsNatural DEF TypeInv, TypeOK, DriftInv, PastStates, States
<1>2. unacknowledged \in Seq(Inputs) /\ InOrder(unacknowledged)
  BY DEF TypeInv, TypeOK
<1>3. \A i \in 1 .. Len(unacknowledged) :
        unacknowledged[i].timestamp > from /\ unacknowledged[i].timestamp <= frames
  BY DEF TypeInv, DriftInv, KeptSince
<1> HIDE DEF from
<1>4. Len(unacknowledged) <= frames - from
  BY <1>1, <1>2, <1>3, InOrderIsShort, Zenon
<1> QED
  BY <1>1, <1>4 DEF from

LEMMA DriftStep == TypeInv /\ DriftInv /\ [Next]_vars => DriftInv'
<1> SUFFICES ASSUME TypeInv, DriftInv, [Next]_vars
             PROVE  DriftInv'
  OBVIOUS
<1>a. /\ frames \in Nat /\ local \in Int /\ adopted.pos \in Int
      /\ adopted.timestamp \in Int /\ adopted.timestamp - Lead <= frames
      /\ Positions \subseteq Int /\ Speed \in Nat /\ Lead \in Nat
  BY PlayAssumption, LeadIsNatural DEF TypeInv, TypeOK, DriftInv, PastStates, States, Positions
<1>b. \A i \in 1 .. Len(unacknowledged) : unacknowledged[i] \in BoundedInputs
  BY DEF DriftInv
<1>l. skew' = skew /\ Lead' = Lead
  BY DEF Lead, Next, vars, serverVars, GetInput, Predict, SendInput, SaveId, Ignore, Adopt,
         ReplayInputs, InputTurn, OtherTurn, Broadcast, Lose
<1>c. frames' = frames =>
        /\ PastStates' = PastStates
        /\ down \in Seq(PastStates') /\ adopted \in PastStates'
  BY <1>l DEF DriftInv, PastStates
<1>1. CASE GetInput
  <2>1. /\ input' \in Inputs /\ input'.timestamp = frames + 1 /\ input'.vel \in Velocities
        /\ frames' = frames + 1 /\ unacknowledged' \in Seq(Inputs)
        /\ \A i \in 1 .. Len(unacknowledged') :
             \/ i \in 1 .. Len(unacknowledged) /\ unacknowledged'[i] = unacknowledged[i]
             \/ unacknowledged'[i] = input'
    BY <1>1, PushKeepsOrder
  <2>2. input' \in BoundedInputs
    BY <2>1, PlayAssumption DEF BoundedInputs
  <2>3. unacknowledged' \in Seq(BoundedInputs)
    BY <1>b, <2>1, <2>2, SeqOfBounded
  <2>4. PastStates \subseteq PastStates'
    <3>1. \A s \in States : s.timestamp \in Int
      BY DEF States
    <3> QED
      BY <1>a, <1>l, <2>1, <3>1 DEF PastStates
  <2>5. down' \in Seq(PastStates') /\ adopted' \in PastStates' /\ adopted' = adopted
    BY <1>1, <2>4, SeqMonotonic DEF GetInput, DriftInv
  <2>6. KeptSince'
    <3> SUFFICES ASSUME NEW i \in 1 .. Len(unacknowledged')
                 PROVE  unacknowledged'[i].timestamp > adopted.timestamp - Lead
      BY <1>l, <2>5 DEF KeptSince
    <3>1. CASE unacknowledged'[i] = input'
      BY <1>a, <2>1, <3>1
    <3>2. CASE i \in 1 .. Len(unacknowledged) /\ unacknowledged'[i] = unacknowledged[i]
      BY <3>2 DEF DriftInv, KeptSince
    <3> QED
      BY <2>1, <3>1, <3>2
  <2>7. Since' = Since
    <3>1. main = "frame" /\ main' = "predict"
      BY <1>1 DEF GetInput
    <3>2. (frames + 1) - adopted.timestamp + Lead + 0 = frames - adopted.timestamp + Lead + 1
      BY <1>a
    <3> QED
      BY <1>l, <2>1, <2>5, <3>1, <3>2 DEF Since
  <2>8. local' = local /\ listener' = listener
    BY <1>1 DEF GetInput
  <2> QED
    BY <2>2, <2>3, <2>5, <2>6, <2>7, <2>8 DEF DriftInv, NearAdopted
<1>2. CASE Predict
  <2>1. frames' = frames /\ adopted' = adopted /\ UNCHANGED <<input, unacknowledged, down>>
        /\ listener' = listener /\ listener # "replaying"
    BY <1>2 DEF Predict
  <2>2. Since' = Since + 1 /\ Since \in Int
    BY <1>2, <1>a, <2>1, <1>l DEF Predict, Since
  <2>3. local' - local \in -Speed .. Speed /\ local' \in Int
    <3>1. input.vel \in -Speed .. Speed /\ local \in Positions
      BY DEF DriftInv, BoundedInputs, TypeInv, TypeOK
    <3>2. /\ PlayerUpdated(local, input.vel) \in Int
          /\ PlayerUpdated(local, input.vel) - local \in -Speed .. Speed
      BY <3>1, StepIsShort, Zenon
    <3>3. local' = local \/ local' = PlayerUpdated(local, input.vel)
      BY <1>2 DEF Predict
    <3>4. CASE local' = local
      <4>1. local' - local = 0
        BY <1>a, <3>4
      <4> QED
        BY <1>a, <3>4, <4>1
    <3> QED
      BY <3>2, <3>3, <3>4, Zenon
  <2>4. Since' * Speed = Since * Speed + Speed /\ Since * Speed \in Int
    BY <1>a, <2>2, OneMore
  <2>5. local - adopted.pos \in -(Since * Speed) .. (Since * Speed)
    BY DEF DriftInv, NearAdopted
  <2> DEFINE bound == Since * Speed
             bound2 == Since' * Speed
  <2>6. /\ bound \in Int /\ bound2 = bound + Speed
        /\ local - adopted.pos \in -bound .. bound
    BY <2>4, <2>5
  <2> HIDE DEF bound, bound2
  <2> DEFINE drift == local - adopted.pos
             moved == local' - local
  <2>9. /\ drift \in Int /\ -bound <= drift /\ drift <= bound
        /\ moved \in Int /\ -Speed <= moved /\ moved <= Speed
        /\ local' - adopted.pos = drift + moved
    <3>1. \A a, b, c \in Int : c - b = (a - b) + (c - a)
      OBVIOUS
    <3>2. local' - adopted.pos = drift + moved
      BY <1>a, <2>3, <3>1
    <3>3. drift \in -bound .. bound /\ moved \in -Speed .. Speed
      BY <2>3, <2>6
    <3>4. -bound \in Int /\ -Speed \in Int /\ Speed \in Int /\ bound \in Int
      BY <1>a, <2>6
    <3> QED
      BY <3>2, <3>3, <3>4
  <2> HIDE DEF drift, moved
  <2>10. drift + moved \in -bound2 .. bound2
    BY <1>a, <2>6, <2>9
  <2>8. local' - adopted.pos \in -bound2 .. bound2
    BY <2>9, <2>10
  <2>7. NearAdopted'
    BY <2>1, <2>8 DEF NearAdopted, bound2
  <2> QED
    BY <1>c, <1>l, <2>1, <2>7 DEF DriftInv, KeptSince
<1>3. CASE SendInput
  BY <1>3, <1>c, <1>l DEF SendInput, DriftInv, KeptSince, NearAdopted, Since
<1>4. CASE SaveId
  BY <1>4, <1>c, <1>l DEF SaveId, DriftInv, KeptSince, NearAdopted, Since
<1>5. CASE Ignore
  <2>1. down' \in Seq(PastStates') /\ frames' = frames
    BY <1>5, <1>c, ArrivingIsThere, RemoveAtKeeps DEF Ignore, clientVars
  <2> QED
    BY <1>5, <1>c, <2>1, <1>l DEF Ignore, clientVars, DriftInv, KeptSince, NearAdopted, Since
<1>6. CASE Adopt
  <2>1. /\ \E i \in DOMAIN down : adopted' = down[i] /\ down' = RemoveAt(down, i)
        /\ adopted' \in States /\ unacknowledged' \in Seq(Inputs)
        /\ \A i \in 1 .. Len(unacknowledged') :
             /\ unacknowledged'[i].timestamp > adopted'.timestamp
             /\ \E j \in 1 .. Len(unacknowledged) : unacknowledged'[i] = unacknowledged[j]
    BY <1>6, AdoptEffect
  <2>2. frames' = frames /\ input' = input /\ local' = adopted'.pos /\ main' = main
    BY <1>6 DEF Adopt
  <2>3. adopted' \in PastStates' /\ down' \in Seq(PastStates')
    BY <1>c, <2>1, <2>2, RemoveAtKeeps
  <2>4. unacknowledged' \in Seq(BoundedInputs) /\ KeptSince'
    <3>1. unacknowledged' \in Seq(BoundedInputs)
      BY <1>b, <2>1, SeqOfBounded
    <3>2. \A i \in 1 .. Len(unacknowledged') : unacknowledged'[i].timestamp \in Int
      <4>1. \A i \in 1 .. Len(unacknowledged') : unacknowledged'[i] \in Inputs
        BY <2>1
      <4> QED
        BY <4>1 DEF Inputs
    <3>3. adopted'.timestamp \in Int
      BY <2>1 DEF States
    <3>4. \A a, b \in Int, lead \in Nat : a > b => a > b - lead
      OBVIOUS
    <3>5. KeptSince'
      BY <1>a, <1>l, <2>1, <3>2, <3>3, <3>4 DEF KeptSince
    <3> QED
      BY <3>1, <3>5
  <2>5. NearAdopted'
    <3>1. adopted'.timestamp \in Int /\ adopted'.timestamp - Lead <= frames' /\ adopted'.pos \in Int
      BY <1>a, <1>l, <2>1, <2>3 DEF PastStates, States
    <3>2. Since' \in Nat
      <4>1. frames - adopted'.timestamp + Lead \in Nat
            /\ frames - adopted'.timestamp + Lead + 1 \in Nat
        BY <1>a, <2>2, <3>1
      <4>2. Since' = frames - adopted'.timestamp + Lead + (IF main' = "predict" THEN 0 ELSE 1)
        BY <1>l, <2>2 DEF Since
      <4> DEFINE age == frames - adopted'.timestamp + Lead
      <4>3. Since' = age + 0 \/ Since' = age + 1
        BY <4>2
      <4>4. age \in Nat
        BY <4>1
      <4> HIDE DEF age
      <4> QED
        BY <4>3, <4>4
    <3>3. Since' * Speed \in Nat
      BY <1>a, <3>2, ScaledNatural, Zenon
    <3>4. local' - adopted'.pos = 0
      BY <2>2, <3>1
    <3> QED
      BY <3>3, <3>4 DEF NearAdopted
  <2> QED
    BY <2>2, <2>3, <2>4, <2>5 DEF DriftInv
<1>7. CASE ReplayInputs
  <2>1. PICK n \in replayed .. Len(unacknowledged) :
          local' = Replay(local, SubSeq(unacknowledged, 1, n))
    BY <1>7 DEF ReplayInputs
  <2>2. /\ unacknowledged \in Seq(BoundedInputs) /\ n \in 0 .. Len(unacknowledged)
        /\ Len(unacknowledged) \in Nat /\ local \in Positions /\ local = adopted.pos
    BY <1>7 DEF DriftInv, TypeInv, TypeOK, ReplayInputs
  <2>3. SubSeq(unacknowledged, 1, n) \in Seq(BoundedInputs) /\ Len(SubSeq(unacknowledged, 1, n)) = n
    BY <2>2
  <2>4. local' - adopted.pos \in -(n * Speed) .. (n * Speed)
    BY <2>1, <2>2, <2>3, ReplayDrift
  <2>5. n <= frames - adopted.timestamp + Lead
    BY <1>a, <2>2, KeptAreFew
  <2>6. frames' = frames /\ adopted' = adopted /\ UNCHANGED <<input, unacknowledged, down>>
        /\ main' = main /\ listener' = "polling"
    BY <1>7 DEF ReplayInputs
  <2>7. n <= Since' /\ Since' \in Int /\ n \in Int
    <3>1. Since' = frames - adopted.timestamp + Lead + (IF main = "predict" THEN 0 ELSE 1)
      BY <1>l, <2>6 DEF Since
    <3> DEFINE age == frames - adopted.timestamp + Lead
    <3>2. Since' = age + 0 \/ Since' = age + 1
      BY <3>1
    <3>3. age \in Int /\ n \in Int /\ n <= age
      BY <1>a, <2>2, <2>5
    <3> HIDE DEF age
    <3> QED
      BY <3>2, <3>3
  <2>8. n * Speed <= Since' * Speed /\ n * Speed \in Int /\ Since' * Speed \in Int
    BY <1>a, <2>7, ScaledInOrder, Zenon
  <2>9. local' - adopted.pos \in -(Since' * Speed) .. (Since' * Speed)
    BY <2>4, <2>8
  <2>10. NearAdopted'
    BY <2>6, <2>9 DEF NearAdopted
  <2> QED
    BY <1>c, <1>l, <2>6, <2>10 DEF DriftInv, KeptSince
<1>8. CASE InputTurn \/ OtherTurn
  <2>1. PICK n \in 0 .. MaxTicks, last \in Inputs : Broadcast(n, last)
    BY <1>8, TurnEffect
  <2>2. UNCHANGED clientVars
    BY <2>1 DEF Broadcast
  <2>3. State(frames + skew, player', last.timestamp) \in PastStates'
    <3>1. State(frames + skew, player', last.timestamp) \in States
      BY <2>1, BroadcastEffect
    <3> QED
      <4>1. (frames + skew) - Lead <= frames
        BY <1>a, PlayAssumption DEF Lead, TypeInv, TypeOK
      <4> QED
        BY <1>l, <2>2, <3>1, <4>1 DEF PastStates, State, clientVars
  <2>4. down' \in Seq(PastStates')
    BY <1>c, <2>1, <2>2, <2>3, BroadcastEffect, DeliverKeeps DEF clientVars
  <2> QED
    BY <1>c, <2>2, <2>4, <1>l DEF clientVars, DriftInv, KeptSince, NearAdopted, Since
<1>9. CASE Lose
  <2>1. down' \in Seq(PastStates') /\ frames' = frames
    BY <1>9, <1>c, RemoveAtKeeps DEF Lose, clientVars
  <2> QED
    BY <1>9, <1>c, <2>1, <1>l DEF Lose, clientVars, DriftInv, KeptSince, NearAdopted, Since
<1>10. CASE UNCHANGED vars
  BY <1>10, <1>c, <1>l DEF vars, clientVars, DriftInv, KeptSince, NearAdopted, Since
<1> QED
  BY <1>1, <1>2, <1>3, <1>4, <1>5, <1>6, <1>7, <1>8, <1>9, <1>10 DEF Next

LEMMA DriftInvHolds == Spec => []DriftInv
BY DriftInit, DriftStep, TypeInvHolds, PTL DEF Spec

(***************************************************************************)
(* What the client shows is at most the frames since the state was sent,   *)
(* or since the time it bears, and one, away from where the server said    *)
(* the player was, however far apart the clocks are and however far an     *)
(* input moves a player.                                                   *)
(***************************************************************************)
THEOREM PredictionStaysNear == Spec => []DriftBounded
<1>1. TypeInv /\ DriftInv => DriftBounded
  <2> SUFFICES ASSUME TypeInv, DriftInv
               PROVE  DriftBounded
    OBVIOUS
  <2> DEFINE drift == local - adopted.pos
             since == frames - adopted.timestamp + Lead + 1
  <2>1. /\ frames \in Nat /\ adopted.timestamp \in Int /\ Lead \in Nat /\ Speed \in Nat
        /\ local \in Int /\ adopted.pos \in Int
    BY PlayAssumption, LeadIsNatural DEF TypeInv, TypeOK, States, Positions
  <2>2. Since \in Int /\ since \in Int /\ Since <= since /\ drift \in Int
    BY <2>1 DEF Since
  <2>3. drift \in -(Since * Speed) .. (Since * Speed)
    BY DEF DriftInv, NearAdopted
  <2> HIDE DEF drift, since
  <2>4. Since * Speed <= since * Speed /\ Since * Speed \in Int /\ since * Speed \in Int
    BY <2>1, <2>2, ScaledInOrder
  <2>5. drift \in -(since * Speed) .. (since * Speed)
    BY <2>2, <2>3, <2>4
  <2> QED
    BY <2>5, Zenon DEF DriftBounded, drift, since
<1> QED
  BY <1>1, TypeInvHolds, DriftInvHolds, PTL

-----------------------------------------------------------------------------
(***************************************************************************)
(* Reconciliation.  The state has no field that says which inputs it       *)
(* covers; the client takes its timestamp for that.  A state that covers   *)
(* the last input was sent after the client had predicted it, so nothing   *)
(* but the replay moves the player then.                                   *)
(***************************************************************************)

\* Has the input of this time been sent?  The current one has at the frame's end.
SentBy(timestamp) ==
  timestamp <= frames /\ (timestamp = frames /\ frames > 0 => main = "frame")

SentInputs == {i \in Inputs : SentBy(i.timestamp)}
HonestStates == {s \in States : SentBy(s.covers)}

\* An input kept is later than the state, or was pushed after it was adopted.
LaterKept ==
  \A i \in 1 .. Len(unacknowledged) :
    \/ unacknowledged[i].timestamp > adopted.timestamp
    \/ unacknowledged[i].timestamp > adopted.covers

Settled ==
  adopted.covers = frames /\ frames > 0 =>
    local - adopted.pos \in -(Behind * Speed) .. (Behind * Speed)

ReconInv ==
  /\ input.timestamp = frames
  /\ up \in Seq(SentInputs) /\ lastInput \in SentInputs
  /\ down \in Seq(HonestStates) /\ adopted \in HonestStates
  /\ LaterKept
  /\ Settled

LEMMA ReconInit == Init => ReconInv
<1> SUFFICES ASSUME Init PROVE ReconInv
  OBVIOUS
<1>1. TypeInv
  BY TypeInit
<1>2. lastInput \in SentInputs /\ input.timestamp = frames
  BY <1>1 DEF Init, Input, SentInputs, SentBy, TypeInv, TypeOK
<1>3. adopted \in HonestStates
  BY <1>1 DEF Init, State, HonestStates, SentBy, TypeInv, TypeOK
<1>4. <<>> \in Seq(SentInputs) /\ <<>> \in Seq(HonestStates) /\ Len(<<>>) = 0
  OBVIOUS
<1> QED
  BY <1>2, <1>3, <1>4 DEF Init, ReconInv, LaterKept, Settled

\* What has been sent stays sent.
LEMMA SentStaysSent ==
  ASSUME TypeInv, [Next]_vars
  PROVE  /\ \A timestamp \in Nat : SentBy(timestamp) => SentBy(timestamp)'
         /\ SentInputs \subseteq SentInputs'
         /\ HonestStates \subseteq HonestStates'
<1>1. frames \in Nat
  BY DEF TypeInv, TypeOK
<1>2. \/ frames' = frames + 1
      \/ frames' = frames /\ main' = main
      \/ frames' = frames /\ main = "predict" /\ main' = "send"
      \/ frames' = frames /\ main' = "frame"
  BY DEF Next, vars, clientVars, GetInput, Predict, SendInput, SaveId, Ignore, Adopt,
         ReplayInputs, InputTurn, OtherTurn, Broadcast, Lose
<1>3. \A timestamp \in Nat : SentBy(timestamp) => SentBy(timestamp)'
  BY <1>1, <1>2 DEF SentBy
<1>4. \A i \in Inputs : i.timestamp \in Nat
  BY DEF Inputs
<1>5. \A s \in States : s.covers \in Nat
  BY DEF States
<1> QED
  BY <1>3, <1>4, <1>5 DEF SentInputs, HonestStates

\* Where the state covers all there is, what is kept is later than the state.
LEMMA CoveredKeepFew ==
  ASSUME TypeInv, ReconInv, adopted.covers = frames
  PROVE  Len(unacknowledged) <= Behind /\ Behind \in Nat
<1>1. /\ frames \in Int /\ frames \in Nat /\ adopted.timestamp \in Int
      /\ unacknowledged \in Seq(Inputs) /\ InOrder(unacknowledged) /\ Len(unacknowledged) \in Nat
  BY DEF TypeInv, TypeOK, States
<1>2. \A i \in 1 .. Len(unacknowledged) :
        /\ unacknowledged[i].timestamp \in Nat
        /\ unacknowledged[i].timestamp > adopted.timestamp
        /\ unacknowledged[i].timestamp <= frames
  <2> SUFFICES ASSUME NEW i \in 1 .. Len(unacknowledged)
               PROVE  /\ unacknowledged[i].timestamp \in Nat
                      /\ unacknowledged[i].timestamp > adopted.timestamp
                      /\ unacknowledged[i].timestamp <= frames
    OBVIOUS
  <2>1. unacknowledged[i] \in Inputs
    BY <1>1
  <2>2. unacknowledged[i].timestamp \in Nat
    BY <2>1 DEF Inputs
  <2>3. unacknowledged[i].timestamp <= frames
    BY DEF TypeInv
  <2>4. \/ unacknowledged[i].timestamp > adopted.timestamp
        \/ unacknowledged[i].timestamp > frames
    BY DEF ReconInv, LaterKept
  <2> QED
    BY <1>1, <2>2, <2>3, <2>4
<1>3. CASE adopted.timestamp <= frames
  <2>1. \A i \in 1 .. Len(unacknowledged) :
          /\ unacknowledged[i].timestamp > adopted.timestamp
          /\ unacknowledged[i].timestamp <= frames
    BY <1>2
  <2>2. Len(unacknowledged) <= frames - adopted.timestamp
    <3> DEFINE from == adopted.timestamp
               to == frames
    <3>1. from \in Int /\ to \in Int /\ from <= to
          /\ \A i \in 1 .. Len(unacknowledged) :
               unacknowledged[i].timestamp > from /\ unacknowledged[i].timestamp <= to
      BY <1>1, <1>3, <2>1
    <3> HIDE DEF from, to
    <3>2. Len(unacknowledged) <= to - from
      BY <1>1, <3>1, InOrderIsShort, Zenon
    <3> QED
      BY <3>2 DEF from, to
  <2> QED
    BY <1>1, <1>3, <2>2 DEF Behind
<1>4. CASE ~ (adopted.timestamp <= frames)
  <2>1. ~ (1 \in 1 .. Len(unacknowledged))
    BY <1>1, <1>2, <1>4
  <2>2. Len(unacknowledged) = 0
    BY <1>1, <2>1
  <2> QED
    BY <1>1, <1>4, <2>2 DEF Behind
<1> QED
  BY <1>3, <1>4

LEMMA ReconStep == TypeInv /\ DriftInv /\ ReconInv /\ [Next]_vars => ReconInv'
<1> SUFFICES ASSUME TypeInv, DriftInv, ReconInv, [Next]_vars
             PROVE  ReconInv'
  OBVIOUS
<1>a. /\ frames \in Nat /\ Speed \in Nat
      /\ adopted.covers \in Nat /\ adopted.covers <= frames
  <2>1. adopted \in States /\ SentBy(adopted.covers)
    BY DEF ReconInv, HonestStates
  <2>2. adopted.covers \in Nat /\ adopted.covers <= frames
    BY <2>1 DEF States, SentBy
  <2> QED
    BY <2>2, PlayAssumption DEF TypeInv, TypeOK
<1>b. /\ up \in Seq(SentInputs') /\ lastInput \in SentInputs'
      /\ down \in Seq(HonestStates') /\ adopted \in HonestStates'
  <2>1. SentInputs \subseteq SentInputs' /\ HonestStates \subseteq HonestStates'
    BY SentStaysSent
  <2> QED
    BY <2>1, SeqMonotonic DEF ReconInv
<1>1. CASE GetInput
  <2>1. /\ input'.timestamp = frames + 1 /\ frames' = frames + 1 /\ adopted' = adopted
        /\ \A i \in 1 .. Len(unacknowledged') :
             \/ i \in 1 .. Len(unacknowledged) /\ unacknowledged'[i] = unacknowledged[i]
             \/ unacknowledged'[i] = input'
    BY <1>1, PushKeepsOrder DEF GetInput
  <2>2. Settled'
    BY <1>a, <2>1 DEF Settled
  <2>3. LaterKept'
    <3> SUFFICES ASSUME NEW i \in 1 .. Len(unacknowledged')
                 PROVE  \/ unacknowledged'[i].timestamp > adopted.timestamp
                        \/ unacknowledged'[i].timestamp > adopted.covers
      BY <2>1 DEF LaterKept
    <3>1. CASE unacknowledged'[i] = input'
      BY <1>a, <2>1, <3>1
    <3>2. CASE i \in 1 .. Len(unacknowledged) /\ unacknowledged'[i] = unacknowledged[i]
      BY <3>2 DEF ReconInv, LaterKept
    <3> QED
      BY <2>1, <3>1, <3>2
  <2> QED
    BY <1>1, <1>b, <2>1, <2>2, <2>3 DEF GetInput, ReconInv, serverVars
<1>2. CASE Predict
  <2>1. adopted.covers # frames \/ ~ (frames > 0)
    BY <1>2 DEF Predict, ReconInv, HonestStates, SentBy
  <2>2. Settled'
    BY <1>2, <2>1 DEF Predict, Settled
  <2> QED
    BY <1>2, <1>b, <2>2 DEF Predict, ReconInv, LaterKept, serverVars
<1>3. CASE SendInput
  <2>1. input \in SentInputs'
    BY <1>3, <1>a DEF SendInput, ReconInv, SentInputs, SentBy, TypeInv, TypeOK
  <2>2. up' \in Seq(SentInputs')
    BY <1>3, <1>b, <2>1, DeliverKeeps DEF SendInput
  <2> QED
    BY <1>3, <1>b, <2>2 DEF SendInput, ReconInv, LaterKept, Settled, Behind, serverVars
<1>4. CASE SaveId
  BY <1>4, <1>b DEF SaveId, ReconInv, LaterKept, Settled, Behind, serverVars
<1>5. CASE Ignore
  <2>1. down' \in Seq(HonestStates')
    BY <1>5, <1>b, ArrivingIsThere, RemoveAtKeeps DEF Ignore
  <2> QED
    BY <1>5, <1>b, <2>1 DEF Ignore, ReconInv, LaterKept, Settled, Behind, clientVars, serverVars
<1>6. CASE Adopt
  <2>1. /\ \E i \in DOMAIN down : adopted' = down[i] /\ down' = RemoveAt(down, i)
        /\ adopted' \in States
        /\ \A i \in 1 .. Len(unacknowledged') :
             /\ unacknowledged'[i].timestamp > adopted'.timestamp
             /\ \E j \in 1 .. Len(unacknowledged) : unacknowledged'[i] = unacknowledged[j]
    BY <1>6, AdoptEffect
  <2>2. adopted' \in HonestStates' /\ down' \in Seq(HonestStates')
    BY <1>b, <2>1, RemoveAtKeeps
  <2>3. Settled'
    <3>1. adopted'.pos \in Int /\ adopted'.timestamp \in Int /\ frames' = frames
          /\ local' = adopted'.pos
      BY <1>6, <2>1, PlayAssumption DEF Adopt, States, Positions
    <3>2. Behind' \in Nat
      <4>1. Behind' = IF adopted'.timestamp < frames THEN frames - adopted'.timestamp ELSE 0
        BY <3>1 DEF Behind
      <4>2. adopted'.timestamp \in Int /\ frames \in Int
        BY <1>a, <3>1
      <4>3. CASE adopted'.timestamp < frames
        BY <4>1, <4>2, <4>3
      <4>4. CASE ~ (adopted'.timestamp < frames)
        BY <4>1, <4>4
      <4> QED
        BY <4>3, <4>4
    <3>3. Behind' * Speed \in Nat
      BY <1>a, <3>2, ScaledNatural, Zenon
    <3>4. local' - adopted'.pos = 0
      BY <3>1
    <3> QED
      BY <3>3, <3>4 DEF Settled
  <2>4. LaterKept'
    BY <2>1 DEF LaterKept
  <2> QED
    BY <1>6, <1>b, <2>2, <2>3, <2>4 DEF Adopt, ReconInv, serverVars
<1>7. CASE ReplayInputs
  <2>1. PICK n \in replayed .. Len(unacknowledged) :
          local' = Replay(local, SubSeq(unacknowledged, 1, n))
    BY <1>7 DEF ReplayInputs
  <2>2. /\ unacknowledged \in Seq(BoundedInputs) /\ n \in 0 .. Len(unacknowledged)
        /\ Len(unacknowledged) \in Nat /\ local \in Positions /\ local = adopted.pos
    BY <1>7 DEF DriftInv, TypeInv, TypeOK, ReplayInputs
  <2>3. SubSeq(unacknowledged, 1, n) \in Seq(BoundedInputs) /\ Len(SubSeq(unacknowledged, 1, n)) = n
    BY <2>2
  <2>4. local' - adopted.pos \in -(n * Speed) .. (n * Speed)
    BY <2>1, <2>2, <2>3, ReplayDrift
  <2>5. ASSUME adopted.covers = frames
        PROVE  Len(unacknowledged) <= Behind /\ Behind \in Nat
    BY <2>5, CoveredKeepFew
  <2>6. ASSUME adopted.covers = frames
        PROVE  local' - adopted.pos \in -(Behind * Speed) .. (Behind * Speed)
    <3>1. Behind \in Int /\ n \in Int /\ n <= Behind
      BY <2>2, <2>5, <2>6
    <3>2. n * Speed <= Behind * Speed /\ n * Speed \in Int /\ Behind * Speed \in Int
      BY <1>a, <3>1, ScaledInOrder
    <3> QED
      BY <2>4, <3>2
  <2>8. adopted' = adopted /\ frames' = frames /\ Behind' = Behind
    BY <1>7 DEF ReplayInputs, Behind
  <2>9. Settled'
    BY <2>6, <2>8 DEF Settled
  <2> QED
    BY <1>7, <1>b, <2>9 DEF ReplayInputs, ReconInv, LaterKept, serverVars
<1>8. CASE InputTurn \/ OtherTurn
  <2>1. PICK n \in 0 .. MaxTicks, last \in Inputs :
          /\ Broadcast(n, last)
          /\ last = lastInput \/ \E i \in DOMAIN up : last = up[i]
          /\ UNCHANGED up \/ \E i \in DOMAIN up : up' = RemoveAt(up, i)
    BY <1>8, TurnEffect
  <2>2. last \in SentInputs'
    BY <1>b, <2>1
  <2>3. up' \in Seq(SentInputs')
    BY <1>b, <2>1, RemoveAtKeeps
  <2>4. State(frames + skew, player', last.timestamp) \in HonestStates'
    <3>1. State(frames + skew, player', last.timestamp) \in States
      BY <2>1, BroadcastEffect
    <3>2. /\ SentBy(last.timestamp)' /\ frames' = frames
          /\ last.timestamp \in Nat /\ last.timestamp <= frames
      BY <2>1, <2>2 DEF SentInputs, SentBy, Inputs, Broadcast, clientVars
    <3> QED
      BY <1>a, <3>1, <3>2 DEF HonestStates, State
  <2>5. lastInput' \in SentInputs' /\ down' \in Seq(HonestStates')
    BY <1>b, <2>1, <2>2, <2>4, BroadcastEffect, DeliverKeeps
  <2> QED
    BY <1>b, <2>1, <2>3, <2>5 DEF Broadcast, clientVars, ReconInv, LaterKept, Settled, Behind
<1>9. CASE Lose
  <2>1. up' \in Seq(SentInputs') /\ down' \in Seq(HonestStates')
    BY <1>9, <1>b, RemoveAtKeeps DEF Lose
  <2> QED
    BY <1>9, <1>b, <2>1 DEF Lose, ReconInv, LaterKept, Settled, Behind, clientVars, serverVars
<1>10. CASE UNCHANGED vars
  BY <1>10, <1>b DEF vars, clientVars, serverVars, ReconInv, LaterKept, Settled, Behind
<1> QED
  BY <1>1, <1>2, <1>3, <1>4, <1>5, <1>6, <1>7, <1>8, <1>9, <1>10 DEF Next

LEMMA ReconInvHolds == Spec => []ReconInv
BY ReconInit, ReconStep, TypeInvHolds, DriftInvHolds, PTL DEF Spec

(***************************************************************************)
(* A client that adopted a state that covers its last input shows the      *)
(* position the server decided on, whatever was lost, reordered or raced,  *)
(* up to one input for each frame the state's time is behind its own.      *)
(***************************************************************************)
THEOREM ReconciliationConverges == Spec => []Converges
<1>1. ReconInv => Converges
  BY DEF ReconInv, LaterKept, Settled, Converges
<1> QED
  BY <1>1, ReconInvHolds, PTL
=============================================================================
