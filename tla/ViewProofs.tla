------------------------------ MODULE ViewProofs ------------------------------
(***************************************************************************)
(* What is proved of View for every delay, skew and number of packets, on  *)
(* paths that reorder and on paths that do not.                            *)
(***************************************************************************)
EXTENDS View, SequenceTheorems, WellFoundedInduction, TLAPS

\* ViewAssumption, constant by constant.
LEMMA ConstantTypes ==
  /\ Me \in Nat /\ Other \in Nat /\ Me # Other
  /\ Delay \in Nat /\ MaxTime \in Nat /\ MaxBroadcasts \in Nat
  /\ Delay <= MaxTime /\ MaxTime < Word /\ Word \in Nat /\ Skew \in Int
BY ViewAssumption

\* Packets as the server sends them within the bounds.
Sent == [timestamp : Skew + Delay .. Skew + MaxTime, ids : SUBSET {Me, Other, NoId}]

-----------------------------------------------------------------------------
(* StateBuffer::remove_unused. *)

LEMMA LeastExists ==
  ASSUME NEW T, T \subseteq Nat, T # {}
  PROVE  \E n \in T : \A m \in T : n <= m
<1> DEFINE less == {ss \in Nat \X Nat : ss[1] < ss[2]}
<1>1. IsWellFoundedOn(less, Nat)
  BY NatLessThanWellFounded DEF OpToRel
<1> HIDE DEF less
<1>2. PICK n \in T : \A m \in T : ~ (<<m, n>> \in less)
  BY <1>1, WFMin
<1>3. \A m \in T : m \in Nat /\ n \in Nat /\ (<<m, n>> \in less <=> m < n)
  BY DEF less
<1>4. \A m \in T : n <= m
  <2> TAKE m \in T
  <2>1. m \in Nat /\ n \in Nat /\ ~ (m < n)
    BY <1>2, <1>3
  <2> QED
    BY <2>1
<1> QED
  BY <1>4

\* There is always a number of states to take from the front.
LEMMA UnusedExists ==
  ASSUME NEW states \in Seq(Sent), Len(states) >= 2, NEW time \in Int
  PROVE  /\ Unused(states, time) \in 0 .. Len(states) - 2
         /\ \A i \in 1 .. Unused(states, time) : states[i + 1].timestamp <= time
         /\ \/ Unused(states, time) = Len(states) - 2
            \/ states[Unused(states, time) + 2].timestamp > time
<1> DEFINE stops(n) == n = Len(states) - 2 \/ states[n + 2].timestamp > time
           T == {n \in 0 .. Len(states) - 2 : stops(n)}
<1>1. Len(states) \in Nat /\ Len(states) - 2 \in Nat
  OBVIOUS
<1>2. T \subseteq Nat /\ Len(states) - 2 \in T
  BY <1>1
<1>3. PICK n \in T : \A m \in T : n <= m
  BY <1>2, LeastExists
<1>4. \A i \in 1 .. n : states[i + 1].timestamp <= time
  <2> SUFFICES ASSUME NEW i \in 1 .. n
               PROVE  states[i + 1].timestamp <= time
    OBVIOUS
  <2>1. n \in 0 .. Len(states) - 2 /\ i - 1 \in 0 .. Len(states) - 2 /\ ~ (n <= i - 1)
    BY <1>1
  <2>2. ~ stops(i - 1)
    BY <1>3, <2>1
  <2>3. (i - 1) + 2 = i + 1 /\ i + 1 \in 1 .. Len(states)
    BY <1>1, <2>1
  <2>4. states[i + 1] \in Sent /\ Skew + Delay \in Int /\ Skew + MaxTime \in Int
    BY <2>3, ConstantTypes
  <2>5. states[i + 1].timestamp \in Int
    BY <2>4 DEF Sent
  <2> QED
    BY <2>2, <2>3, <2>5
<1>5. \E k \in 0 .. Len(states) - 2 :
        /\ \A i \in 1 .. k : states[i + 1].timestamp <= time
        /\ k = Len(states) - 2 \/ states[k + 2].timestamp > time
  BY <1>3, <1>4
<1> QED
  BY <1>5 DEF Unused

LEMMA RemoveUnusedEffect ==
  ASSUME NEW states \in Seq(Sent), Len(states) >= 2, NEW time \in Int
  PROVE  /\ RemoveUnused(states, time) \in Seq(Sent)
         /\ Len(RemoveUnused(states, time)) = Len(states) - Unused(states, time)
         /\ \A i \in 1 .. Len(states) - Unused(states, time) :
              RemoveUnused(states, time)[i] = states[Unused(states, time) + i]
<1>0. PICK n : n = Unused(states, time)
  OBVIOUS
<1>1. n \in 0 .. Len(states) - 2 /\ Len(states) \in Nat
  BY <1>0, UnusedExists
<1>2. \A i \in n + 1 .. Len(states) : states[i] \in Sent
  BY <1>1
<1>3. /\ SubSeq(states, n + 1, Len(states)) \in Seq(Sent)
      /\ Len(SubSeq(states, n + 1, Len(states)))
           = IF n + 1 <= Len(states) THEN Len(states) - (n + 1) + 1 ELSE 0
      /\ \A i \in 1 .. Len(states) - (n + 1) + 1 :
           SubSeq(states, n + 1, Len(states))[i] = states[n + 1 + i - 1]
  BY <1>1, <1>2, SubSeqProperties
<1> DEFINE rest == SubSeq(states, n + 1, Len(states))
<1>4. RemoveUnused(states, time) = rest
  BY <1>0 DEF RemoveUnused
<1>5. rest \in Seq(Sent) /\ Len(rest) = Len(states) - n
  BY <1>1, <1>3
<1>6. \A i \in 1 .. Len(states) - n : rest[i] = states[n + i]
  <2> SUFFICES ASSUME NEW i \in 1 .. Len(states) - n PROVE rest[i] = states[n + i]
    OBVIOUS
  <2>1. i \in 1 .. Len(states) - (n + 1) + 1 /\ n + 1 + i - 1 = n + i
    BY <1>1
  <2> QED
    BY <1>3, <2>1
<1> HIDE DEF rest
<1> QED
  BY <1>0, <1>4, <1>5, <1>6

(***************************************************************************)
(* What is left of a buffer: a rest of all that came, and each packet that *)
(* is gone was followed by one that is no later than the time.             *)
(***************************************************************************)
Trimmed(all, rest, time) ==
  /\ Len(rest) <= Len(all)
  /\ Len(rest) < Len(all) => Len(rest) >= 1
  /\ \A i \in 1 .. Len(rest) : rest[i] = all[Len(all) - Len(rest) + i]
  /\ \A i \in 1 .. Len(all) - Len(rest) : all[i + 1].timestamp <= time

LEMMA TrimmedAppend ==
  ASSUME NEW all \in Seq(Sent), NEW rest \in Seq(Sent), NEW time \in Int, NEW packet \in Sent,
         Trimmed(all, rest, time)
  PROVE  Trimmed(Append(all, packet), Append(rest, packet), time)
<1> DEFINE all1 == Append(all, packet)
           rest1 == Append(rest, packet)
<1>1. /\ Len(all1) = Len(all) + 1 /\ all1[Len(all) + 1] = packet
      /\ \A i \in 1 .. Len(all) : all1[i] = all[i]
  BY AppendProperties
<1>2. /\ Len(rest1) = Len(rest) + 1 /\ rest1[Len(rest) + 1] = packet
      /\ \A i \in 1 .. Len(rest) : rest1[i] = rest[i]
  BY AppendProperties
<1>3. Len(all) \in Nat /\ Len(rest) \in Nat /\ Len(rest) <= Len(all)
  BY DEF Trimmed
<1> HIDE DEF all1, rest1
<1>4. ASSUME NEW i \in 1 .. Len(rest1)
      PROVE  rest1[i] = all1[Len(all1) - Len(rest1) + i]
  <2>1. CASE i = Len(rest) + 1
    BY <1>1, <1>2, <1>3, <2>1
  <2>2. CASE i \in 1 .. Len(rest)
    <3>1. Len(all) - Len(rest) + i \in 1 .. Len(all)
      BY <1>3, <2>2
    <3>2. Len(all1) - Len(rest1) + i = Len(all) - Len(rest) + i
      BY <1>1, <1>2, <1>3
    <3> QED
      BY <1>1, <1>2, <2>2, <3>1, <3>2 DEF Trimmed
  <2> QED
    BY <1>2, <1>3, <2>1, <2>2
<1>5. ASSUME NEW i \in 1 .. Len(all1) - Len(rest1)
      PROVE  all1[i + 1].timestamp <= time
  <2>1. i \in 1 .. Len(all) - Len(rest) /\ Len(rest) < Len(all)
    BY <1>1, <1>2, <1>3
  <2>2. Len(rest) >= 1
    BY <2>1 DEF Trimmed
  <2>3. i + 1 \in 1 .. Len(all)
    BY <1>3, <2>1, <2>2
  <2> QED
    BY <1>1, <2>1, <2>3 DEF Trimmed
<1>6. Len(rest1) <= Len(all1) /\ Len(rest1) >= 1
  BY <1>1, <1>2, <1>3
<1>7. Trimmed(all1, rest1, time)
  BY <1>4, <1>5, <1>6 DEF Trimmed
<1> QED
  BY <1>7 DEF all1, rest1

LEMMA TrimmedTimestamps ==
  ASSUME NEW all \in Seq(Sent), NEW i \in 1 .. Len(all)
  PROVE  all[i].timestamp \in Int /\ all[i].timestamp \in Skew + Delay .. Skew + MaxTime
<1>1. all[i] \in Sent /\ Skew + Delay \in Int /\ Skew + MaxTime \in Int
  BY ConstantTypes
<1> QED
  BY <1>1 DEF Sent

LEMMA TrimmedLater ==
  ASSUME NEW all \in Seq(Sent), NEW rest \in Seq(Sent), NEW time \in Int, NEW later \in Int,
         Trimmed(all, rest, time), time <= later
  PROVE  Trimmed(all, rest, later)
<1>1. Len(all) \in Nat /\ Len(rest) \in Nat
  OBVIOUS
<1>2. ASSUME NEW i \in 1 .. Len(all) - Len(rest)
      PROVE  all[i + 1].timestamp <= later
  <2>1. i + 1 \in 1 .. Len(all)
    BY <1>1 DEF Trimmed
  <2>2. all[i + 1].timestamp \in Int
    BY <2>1, TrimmedTimestamps
  <2>3. all[i + 1].timestamp <= time
    BY DEF Trimmed
  <2> QED
    BY <2>2, <2>3
<1> QED
  BY <1>2 DEF Trimmed

\* remove_unused keeps a buffer trimmed, and two states in it.
LEMMA TrimmedRemoveUnused ==
  ASSUME NEW all \in Seq(Sent), NEW rest \in Seq(Sent), NEW time \in Int,
         Trimmed(all, rest, time), Len(rest) >= 2
  PROVE  /\ RemoveUnused(rest, time) \in Seq(Sent) /\ Len(RemoveUnused(rest, time)) >= 2
         /\ Trimmed(all, RemoveUnused(rest, time), time)
<1> DEFINE left == RemoveUnused(rest, time)
<1>0. PICK n : n = Unused(rest, time)
  OBVIOUS
<1>1. /\ n \in 0 .. Len(rest) - 2
      /\ \A i \in 1 .. n : rest[i + 1].timestamp <= time
  BY <1>0, UnusedExists
<1>2. /\ left \in Seq(Sent) /\ Len(left) = Len(rest) - n
      /\ \A i \in 1 .. Len(rest) - n : left[i] = rest[n + i]
  BY ONLY <1>0, RemoveUnusedEffect, rest \in Seq(Sent), Len(rest) >= 2, time \in Int
<1> HIDE DEF left
<1>3. /\ Len(all) \in Nat /\ Len(rest) \in Nat /\ Len(rest) <= Len(all)
      /\ n \in Nat /\ Len(left) \in Nat /\ Len(left) >= 2 /\ Len(left) <= Len(all)
  BY <1>1, <1>2 DEF Trimmed
<1>4. ASSUME NEW i \in 1 .. Len(left)
      PROVE  left[i] = all[Len(all) - Len(left) + i]
  <2>1. n + i \in 1 .. Len(rest) /\ i \in 1 .. Len(rest) - n
    BY <1>1, <1>2, <1>3
  <2>2. Len(all) - Len(rest) + (n + i) = Len(all) - Len(left) + i
    BY <1>2, <1>3
  <2>3. rest[n + i] = all[Len(all) - Len(rest) + (n + i)]
    BY <2>1 DEF Trimmed
  <2> QED
    BY <1>2, <2>1, <2>2, <2>3
<1>5. ASSUME NEW i \in 1 .. Len(all) - Len(left)
      PROVE  all[i + 1].timestamp <= time
  <2>1. CASE i \in 1 .. Len(all) - Len(rest)
    BY <2>1 DEF Trimmed
  <2>2. CASE i > Len(all) - Len(rest)
    <3>0. i - (Len(all) - Len(rest)) \in Int
      BY <1>3
    <3>1. PICK j \in Int : j = i - (Len(all) - Len(rest))
      BY <3>0
    <3>2. j \in 1 .. n /\ j + 1 \in 1 .. Len(rest)
      BY <1>1, <1>2, <1>3, <2>2, <3>1
    <3>3. Len(all) - Len(rest) + (j + 1) = i + 1
      BY <1>3, <3>1
    <3>4. rest[j + 1] = all[Len(all) - Len(rest) + (j + 1)]
      BY <3>2 DEF Trimmed
    <3> QED
      BY <1>1, <3>2, <3>3, <3>4
  <2> QED
    BY <1>3, <2>1, <2>2
<1>6. Trimmed(all, left, time)
  BY <1>3, <1>4, <1>5 DEF Trimmed
<1> QED
  BY <1>2, <1>3, <1>6 DEF left

-----------------------------------------------------------------------------
(* The buffers over time. *)

Places == {"sizeOfBullets", "renderBullets", "sizeOfState", "renderState"}

(***************************************************************************)
(* Inductive: render_time never goes back, so what was trimmed for an      *)
(* earlier one is past every later one, and the size the main thread has   *)
(* read is still there when it draws, whatever the listener appends.       *)
(***************************************************************************)
ClockInv ==
  /\ now \in Int /\ Delay <= now /\ now <= MaxTime
  /\ renderTime \in Int /\ 0 <= renderTime /\ renderTime <= now - Delay
  /\ known \in BOOLEAN /\ broadcasts \in 0 .. MaxBroadcasts

BufferInv ==
  /\ arrived \in [Kinds -> Seq(Sent)] /\ buffer \in [Kinds -> Seq(Sent)]
  /\ \A k \in Kinds : Trimmed(arrived[k], buffer[k], renderTime)

PlaceInv ==
  /\ main \in Places
  /\ main = "renderBullets" => Len(buffer["bullets"]) >= 2
  /\ main = "renderState" => Len(buffer["state"]) >= 2

ViewInv == ClockInv /\ path \in [Kinds -> Seq(Sent)] /\ BufferInv /\ PlaceInv

LEMMA ViewInvInit == Init => ViewInv
<1> SUFFICES ASSUME Init
             PROVE  ViewInv
  OBVIOUS
<1>1. <<>> \in Seq(Sent)
  OBVIOUS
<1>2. /\ path = [k \in Kinds |-> <<>>] /\ arrived = path /\ buffer = path
  BY DEF Init
<1>3. /\ path \in [Kinds -> Seq(Sent)] /\ arrived \in [Kinds -> Seq(Sent)]
      /\ buffer \in [Kinds -> Seq(Sent)]
  BY <1>1, <1>2
<1>4. \A k \in Kinds : arrived[k] = <<>> /\ buffer[k] = <<>>
  BY <1>2
<1>5. Trimmed(<<>>, <<>>, renderTime)
  BY DEF Trimmed
<1>6. ClockInv
  <2>1. now = Delay /\ renderTime = 0 /\ broadcasts = 0 /\ known \in BOOLEAN
    BY DEF Init
  <2> QED
    BY <2>1, ConstantTypes DEF ClockInv
<1>7. PlaceInv
  BY DEF Init, PlaceInv, Places
<1> QED
  BY <1>3, <1>4, <1>5, <1>6, <1>7 DEF ViewInv, BufferInv

LEMMA BroadcastEffect ==
  ASSUME ViewInv, Broadcast
  PROVE  path' \in [Kinds -> Seq(Sent)]
<1>1. PICK others \in SUBSET {Other} :
        path' = [path EXCEPT
          !["state"] = Append(@, [timestamp |-> now + Skew,
                                  ids |-> others \cup {IF known' THEN Me ELSE NoId}]),
          !["bullets"] = Append(@, [timestamp |-> now + Skew, ids |-> others])]
  BY DEF Broadcast
<1>2. now + Skew \in Skew + Delay .. Skew + MaxTime
  BY ConstantTypes DEF ViewInv, ClockInv
<1>3. /\ [timestamp |-> now + Skew,
          ids |-> others \cup {IF known' THEN Me ELSE NoId}] \in Sent
      /\ [timestamp |-> now + Skew, ids |-> others] \in Sent
  BY <1>2 DEF Sent
<1>4. path["state"] \in Seq(Sent) /\ path["bullets"] \in Seq(Sent)
  BY DEF ViewInv, Kinds
<1>5. /\ Append(path["state"], [timestamp |-> now + Skew,
                                ids |-> others \cup {IF known' THEN Me ELSE NoId}]) \in Seq(Sent)
      /\ Append(path["bullets"], [timestamp |-> now + Skew, ids |-> others]) \in Seq(Sent)
  BY <1>3, <1>4, AppendProperties
<1> QED
  BY <1>1, <1>5 DEF ViewInv, Kinds

LEMMA PushBackEffect ==
  ASSUME ViewInv, NEW k \in Kinds, PushBack(k)
  PROVE  /\ path' \in [Kinds -> Seq(Sent)] /\ BufferInv' /\ UNCHANGED drawn
         /\ \A c \in Kinds : Len(buffer'[c]) >= Len(buffer[c])
<1>1. PICK i \in DOMAIN path[k] :
        /\ buffer' = [buffer EXCEPT ![k] = Append(@, path[k][i])]
        /\ arrived' = [arrived EXCEPT ![k] = Append(@, path[k][i])]
        /\ path' = [path EXCEPT ![k] = IF Reorders THEN RemoveAt(@, i)
                                       ELSE SubSeq(@, i + 1, Len(@))]
        /\ UNCHANGED <<renderTime, drawn>>
  BY DEF PushBack
<1>2. /\ path[k] \in Seq(Sent) /\ arrived[k] \in Seq(Sent) /\ buffer[k] \in Seq(Sent)
      /\ renderTime \in Int /\ Trimmed(arrived[k], buffer[k], renderTime)
  BY DEF ViewInv, BufferInv, ClockInv
<1>3. i \in 1 .. Len(path[k]) /\ Len(path[k]) \in Nat /\ path[k][i] \in Sent
  BY <1>2
<1>4. SubSeq(path[k], i + 1, Len(path[k])) \in Seq(Sent)
  <2>1. \A j \in i + 1 .. Len(path[k]) : path[k][j] \in Sent
    BY <1>2, <1>3
  <2> QED
    BY <1>3, <2>1, SubSeqProperties
<1>5. SubSeq(path[k], 1, i - 1) \in Seq(Sent)
  <2>1. \A j \in 1 .. i - 1 : path[k][j] \in Sent
    BY <1>2, <1>3
  <2> QED
    BY <1>3, <2>1, SubSeqProperties
<1>6. RemoveAt(path[k], i) \in Seq(Sent)
  BY <1>4, <1>5, ConcatProperties DEF RemoveAt
<1>7. path' \in [Kinds -> Seq(Sent)]
  BY <1>1, <1>4, <1>6 DEF ViewInv
<1>8. /\ Append(buffer[k], path[k][i]) \in Seq(Sent)
      /\ Len(Append(buffer[k], path[k][i])) = Len(buffer[k]) + 1
      /\ Append(arrived[k], path[k][i]) \in Seq(Sent)
  BY <1>2, <1>3, AppendProperties
<1>9. Trimmed(Append(arrived[k], path[k][i]), Append(buffer[k], path[k][i]), renderTime)
  BY <1>2, <1>3, TrimmedAppend
<1>10. /\ arrived' \in [Kinds -> Seq(Sent)] /\ buffer' \in [Kinds -> Seq(Sent)]
       /\ arrived'[k] = Append(arrived[k], path[k][i])
       /\ buffer'[k] = Append(buffer[k], path[k][i])
       /\ \A c \in Kinds \ {k} : arrived'[c] = arrived[c] /\ buffer'[c] = buffer[c]
  BY <1>1, <1>8 DEF ViewInv, BufferInv
<1>11. \A c \in Kinds : Trimmed(arrived'[c], buffer'[c], renderTime')
  BY <1>1, <1>9, <1>10 DEF ViewInv, BufferInv
<1>12. ASSUME NEW c \in Kinds
       PROVE  Len(buffer'[c]) >= Len(buffer[c])
  <2>1. buffer[c] \in Seq(Sent)
    BY DEF ViewInv, BufferInv
  <2>2. Len(buffer[c]) \in Nat
    BY <2>1
  <2>3. Len(buffer'[c]) \in {Len(buffer[c]), Len(buffer[c]) + 1}
    BY <1>8, <1>10
  <2> QED
    BY <2>2, <2>3
<1> QED
  BY <1>1, <1>7, <1>10, <1>11, <1>12 DEF BufferInv

LEMMA LookEffect ==
  ASSUME ViewInv, NEW at \in Places, NEW k \in Kinds, NEW then \in Places, NEW otherwise \in Places,
         then = "renderBullets" => k = "bullets", then = "renderState" => k = "state",
         otherwise \notin {"renderBullets", "renderState"},
         LookAtSize(at, k, then, otherwise)
  PROVE  ViewInv' /\ UNCHANGED drawn
<1>1. /\ now' = now /\ path' = path /\ arrived' = arrived /\ buffer' = buffer
      /\ UNCHANGED <<known, broadcasts, drawn>>
      /\ renderTime' \in {renderTime, now - Delay}
      /\ \/ main' = then /\ Len(buffer[k]) >= 2
         \/ main' = otherwise
  BY DEF LookAtSize
<1>2. renderTime <= renderTime' /\ ClockInv'
  BY <1>1, ConstantTypes DEF ViewInv, ClockInv
<1>3. PlaceInv'
  BY <1>1 DEF PlaceInv
<1>4. \A c \in Kinds : Trimmed(arrived[c], buffer[c], renderTime')
  BY <1>2, TrimmedLater DEF ViewInv, BufferInv, ClockInv
<1> QED
  BY <1>1, <1>2, <1>3, <1>4 DEF ViewInv, BufferInv

LEMMA DrawEffect ==
  ASSUME ViewInv, NEW k \in Kinds, Len(buffer[k]) >= 2, UNCHANGED <<arrived, renderTime>>,
         buffer' = [buffer EXCEPT ![k] = RemoveUnused(buffer[k], renderTime)]
  PROVE  BufferInv'
<1>1. /\ arrived[k] \in Seq(Sent) /\ buffer[k] \in Seq(Sent)
      /\ renderTime \in Int /\ Trimmed(arrived[k], buffer[k], renderTime)
  BY DEF ViewInv, BufferInv, ClockInv
<1>2. /\ RemoveUnused(buffer[k], renderTime) \in Seq(Sent)
      /\ Trimmed(arrived[k], RemoveUnused(buffer[k], renderTime), renderTime)
  BY <1>1, TrimmedRemoveUnused
<1>3. /\ buffer' \in [Kinds -> Seq(Sent)] /\ buffer'[k] = RemoveUnused(buffer[k], renderTime)
      /\ \A c \in Kinds \ {k} : buffer'[c] = buffer[c]
  BY <1>2 DEF ViewInv, BufferInv
<1> QED
  BY <1>2, <1>3 DEF ViewInv, BufferInv

LEMMA ViewInvStep == ViewInv /\ [Next]_vars => ViewInv'
<1> SUFFICES ASSUME ViewInv, [Next]_vars
             PROVE  ViewInv'
  OBVIOUS
<1>1. CASE PassTime
  <2>1. ClockInv' /\ UNCHANGED <<path, arrived, buffer, main, renderTime>>
    BY <1>1, ConstantTypes DEF PassTime, ViewInv, ClockInv
  <2> QED
    BY <2>1 DEF ViewInv, BufferInv, PlaceInv
<1>2. CASE Broadcast
  <2>1. /\ UNCHANGED <<now, arrived, buffer, main, renderTime>>
        /\ known' \in BOOLEAN /\ broadcasts' \in 0 .. MaxBroadcasts
    BY <1>2, ConstantTypes DEF Broadcast, ViewInv, ClockInv
  <2> QED
    BY <1>2, <2>1, BroadcastEffect DEF ViewInv, ClockInv, BufferInv, PlaceInv
<1>3. CASE \E k \in Kinds : PushBack(k)
  <2>1. PICK k \in Kinds : PushBack(k)
    BY <1>3
  <2>2. UNCHANGED <<now, known, broadcasts, main, renderTime>>
    BY <2>1 DEF PushBack
  <2>3. ClockInv'
    BY <2>2 DEF ViewInv, ClockInv
  <2>4. /\ path' \in [Kinds -> Seq(Sent)] /\ BufferInv'
        /\ \A c \in Kinds : Len(buffer'[c]) >= Len(buffer[c])
    BY <2>1, PushBackEffect
  <2>5. \A c \in Kinds : Len(buffer[c]) \in Nat /\ Len(buffer'[c]) \in Nat
    BY <2>4 DEF ViewInv, BufferInv
  <2>6. PlaceInv'
    BY <2>2, <2>4, <2>5 DEF ViewInv, PlaceInv, Kinds
  <2> QED
    BY <2>3, <2>4, <2>6 DEF ViewInv
<1>4. CASE LookAtSize("sizeOfBullets", "bullets", "renderBullets", "sizeOfState")
  BY <1>4, LookEffect DEF Places, Kinds
<1>5. CASE LookAtSize("sizeOfState", "state", "renderState", "sizeOfBullets")
  BY <1>5, LookEffect DEF Places, Kinds
<1>6. CASE RenderBullets \/ RenderState
  <2>1. /\ UNCHANGED <<now, known, broadcasts, path, arrived, renderTime>>
        /\ main' \in {"sizeOfState", "sizeOfBullets"}
    BY <1>6 DEF RenderBullets, RenderState, Render
  <2>2. PICK k \in Kinds :
          /\ Len(buffer[k]) >= 2
          /\ buffer' = [buffer EXCEPT ![k] = RemoveUnused(buffer[k], renderTime)]
    BY <1>6 DEF RenderBullets, RenderState, Render, ViewInv, PlaceInv, Kinds
  <2>3. BufferInv'
    BY <2>1, <2>2, DrawEffect
  <2> QED
    BY <2>1, <2>3 DEF ViewInv, ClockInv, PlaceInv, Places
<1>7. CASE UNCHANGED vars
  BY <1>7 DEF vars, ViewInv, ClockInv, BufferInv, PlaceInv
<1> QED
  BY <1>1, <1>2, <1>3, <1>4, <1>5, <1>6, <1>7 DEF Next, Frame

\* The inductive invariant holds in every state.
THEOREM ViewInvHolds == Spec => []ViewInv
BY ViewInvInit, ViewInvStep, PTL DEF Spec

(***************************************************************************)
(* Every variable of the interpolation keeps its type, and where the main  *)
(* thread is about to draw from a buffer there are two states in it.       *)
(***************************************************************************)
THEOREM TypeCorrect == Spec => []TypeOK
<1>1. ViewInv => TypeOK
  <2> SUFFICES ASSUME ViewInv
               PROVE  TypeOK
    OBVIOUS
  <2>1. Sent \subseteq Packet
    BY ConstantTypes DEF Sent, Packet
  <2>2. \A seq \in Seq(Sent) : seq \in Seq(Packet)
    BY <2>1
  <2>3. [Kinds -> Seq(Sent)] \subseteq [Kinds -> Seq(Packet)]
    BY <2>2
  <2>4. {path, arrived, buffer} \subseteq [Kinds -> Seq(Packet)]
    BY <2>3 DEF ViewInv, BufferInv
  <2>5. now \in Delay .. MaxTime /\ renderTime \in 0 .. now - Delay
    BY ConstantTypes DEF ViewInv, ClockInv
  <2>6. known \in BOOLEAN /\ broadcasts \in 0 .. MaxBroadcasts
    BY DEF ViewInv, ClockInv
  <2> QED
    BY <2>4, <2>5, <2>6 DEF TypeOK, ViewInv, PlaceInv, Places
<1> QED
  BY <1>1, ViewInvHolds, PTL

-----------------------------------------------------------------------------
(* What is drawn. *)

LEMMA NoWrap ==
  ASSUME NEW n \in Int, 0 <= n, n < Word
  PROVE  n % Word = n
BY ConstantTypes

\* Two states around a time the client may draw at.
LEMMA DifferencesHold ==
  ASSUME NEW a \in Sent, NEW b \in Sent, NEW time \in Int,
         a.timestamp <= time, time < b.timestamp
  PROVE  /\ Elapsed(time, a) = time - a.timestamp /\ Span(a, b) = b.timestamp - a.timestamp
         /\ a.timestamp \in Int /\ b.timestamp \in Int
         /\ Elapsed(time, a) < Span(a, b)
<1>1. /\ Skew + Delay \in Int /\ Skew + MaxTime \in Int
      /\ (Skew + MaxTime) - (Skew + Delay) < Word
  BY ConstantTypes
<1>2. /\ a.timestamp \in Skew + Delay .. Skew + MaxTime
      /\ b.timestamp \in Skew + Delay .. Skew + MaxTime
  BY DEF Sent
<1>3. a.timestamp \in Int /\ b.timestamp \in Int
  BY <1>1, <1>2
<1>4. /\ time - a.timestamp \in Int /\ 0 <= time - a.timestamp /\ time - a.timestamp < Word
      /\ b.timestamp - a.timestamp \in Int /\ 0 <= b.timestamp - a.timestamp
      /\ b.timestamp - a.timestamp < Word
      /\ time - a.timestamp < b.timestamp - a.timestamp
  BY <1>1, <1>2, <1>3, ConstantTypes
<1>5. /\ (time - a.timestamp) % Word = time - a.timestamp
      /\ (b.timestamp - a.timestamp) % Word = b.timestamp - a.timestamp
  BY <1>4, NoWrap
<1> QED
  BY <1>3, <1>4, <1>5 DEF Elapsed, Span

\* A frame that can draws from the last state before its time and the first after.
LEMMA DrawsAround ==
  ASSUME NEW all \in Seq(Sent), NEW rest \in Seq(Sent), NEW time \in Int,
         Trimmed(all, rest, time), Len(rest) >= 2, Sorted(all),
         NEW i0 \in 1 .. Len(all), all[i0].timestamp <= time,
         NEW j0 \in 1 .. Len(all), time < all[j0].timestamp,
         NEW a, a = RemoveUnused(rest, time)[1], NEW b, b = RemoveUnused(rest, time)[2]
  PROVE  /\ a.timestamp <= time /\ time < b.timestamp
         /\ \A i \in DOMAIN all : all[i].timestamp <= a.timestamp \/ b.timestamp <= all[i].timestamp
<1> DEFINE t(i) == all[i].timestamp
<1>0. PICK n : n = Unused(rest, time)
  OBVIOUS
<1>1. /\ n \in 0 .. Len(rest) - 2
      /\ \A i \in 1 .. n : rest[i + 1].timestamp <= time
      /\ n = Len(rest) - 2 \/ rest[n + 2].timestamp > time
  BY <1>0, UnusedExists
<1>2. /\ Len(all) \in Nat /\ Len(rest) \in Nat /\ n \in Nat /\ Len(rest) <= Len(all)
      /\ DOMAIN all = 1 .. Len(all)
  BY <1>1 DEF Trimmed
<1>3. a = rest[n + 1] /\ b = rest[n + 2]
  <2>1. \A i \in 1 .. Len(rest) - n : RemoveUnused(rest, time)[i] = rest[n + i]
    BY <1>0, RemoveUnusedEffect
  <2>2. 1 \in 1 .. Len(rest) - n /\ 2 \in 1 .. Len(rest) - n
    BY <1>1, <1>2
  <2> QED
    BY <2>1, <2>2
<1>4. Len(all) - Len(rest) + n + 1 \in Int
  BY <1>2
<1>5. PICK p \in Int : p = Len(all) - Len(rest) + n + 1
  BY <1>4
<1>6. p \in 1 .. Len(all) /\ p + 1 \in 1 .. Len(all)
  BY <1>1, <1>2, <1>5
<1>7. a.timestamp = t(p) /\ b.timestamp = t(p + 1)
  <2>1. n + 1 \in 1 .. Len(rest) /\ n + 2 \in 1 .. Len(rest)
    BY <1>1, <1>2
  <2>2. /\ Len(all) - Len(rest) + (n + 1) = p /\ Len(all) - Len(rest) + (n + 2) = p + 1
    BY <1>2, <1>5
  <2> QED
    BY <1>3, <2>1, <2>2 DEF Trimmed
<1>8. \A i \in 1 .. Len(all) : t(i) \in Int
  BY TrimmedTimestamps
<1>9. \A i, j \in 1 .. Len(all) : i <= j => t(i) <= t(j)
  <2>1. \A i, j \in 1 .. Len(all) : i < j => t(i) <= t(j)
    BY <1>2 DEF Sorted
  <2> QED
    BY <1>2, <1>8, <2>1
<1>10. t(i0) <= time /\ time < t(j0)
  OBVIOUS
<1>11. t(p) <= time
  <2>1. CASE n >= 1
    <3>1. n \in 1 .. n
      BY <1>2, <2>1
    <3> QED
      BY <1>1, <1>3, <1>7, <3>1
  <2>2. CASE n = 0 /\ Len(rest) < Len(all)
    <3>1. p - 1 \in 1 .. Len(all) - Len(rest) /\ (p - 1) + 1 = p
      BY <1>2, <1>5, <2>2
    <3> QED
      BY <3>1 DEF Trimmed
  <2>3. CASE p = 1
    <3>1. t(p) <= t(i0)
      BY <1>2, <1>6, <1>9, <2>3
    <3> QED
      BY <1>6, <1>8, <1>10, <3>1
  <2> QED
    BY <1>2, <1>5, <2>1, <2>2, <2>3
<1>12. time < t(p + 1)
  <2>1. CASE rest[n + 2].timestamp > time
    BY <1>3, <1>6, <1>7, <1>8, <2>1
  <2>2. CASE n = Len(rest) - 2
    <3>1. p + 1 = Len(all)
      BY <1>2, <1>5, <2>2
    <3>2. t(j0) <= t(p + 1)
      BY <1>2, <1>6, <1>9, <3>1
    <3> QED
      BY <1>6, <1>8, <1>10, <3>2
  <2> QED
    BY <1>1, <2>1, <2>2
<1> HIDE DEF t
<1>13. \A i \in 1 .. Len(all) : t(i) <= t(p) \/ t(p + 1) <= t(i)
  <2> TAKE i \in 1 .. Len(all)
  <2>1. CASE i <= p
    BY <1>6, <1>9, <2>1
  <2>2. CASE p + 1 <= i
    BY <1>6, <1>9, <2>2
  <2> QED
    BY <1>2, <1>6, <2>1, <2>2
<1> QED
  BY <1>2, <1>7, <1>11, <1>12, <1>13 DEF t

\* What is drawn from a buffer is drawn from its first two states.
LEMMA RenderEffect ==
  ASSUME ViewInv, drawn = [k \in Kinds |-> drawn[k]], RenderBullets \/ RenderState
  PROVE  \E k \in Kinds :
           /\ Len(buffer[k]) >= 2 /\ UNCHANGED <<arrived, renderTime>>
           /\ drawn' = [c \in Kinds |-> drawn'[c]]
           /\ \A c \in Kinds \ {k} : drawn'[c] = drawn[c]
           /\ drawn'[k].time = renderTime
           /\ drawn'[k].from = RemoveUnused(buffer[k], renderTime)[1]
           /\ drawn'[k].to = RemoveUnused(buffer[k], renderTime)[2]
           /\ k = "state" => drawn'[k].things = PlayersDrawn(drawn'[k].from, drawn'[k].to)
<1>1. CASE RenderBullets
  <2>1. /\ main = "renderBullets" /\ UNCHANGED <<arrived, renderTime>>
        /\ drawn' = [drawn EXCEPT !["bullets"] =
             [time |-> renderTime, from |-> RemoveUnused(buffer["bullets"], renderTime)[1],
              to |-> RemoveUnused(buffer["bullets"], renderTime)[2],
              things |-> BulletsDrawn(RemoveUnused(buffer["bullets"], renderTime)[1],
                                      RemoveUnused(buffer["bullets"], renderTime)[2])]]
    BY <1>1 DEF RenderBullets, Render
  <2>2. Len(buffer["bullets"]) >= 2
    BY <2>1 DEF ViewInv, PlaceInv
  <2> QED
    BY <2>1, <2>2 DEF Kinds
<1>2. CASE RenderState
  <2>1. /\ main = "renderState" /\ UNCHANGED <<arrived, renderTime>>
        /\ drawn' = [drawn EXCEPT !["state"] =
             [time |-> renderTime, from |-> RemoveUnused(buffer["state"], renderTime)[1],
              to |-> RemoveUnused(buffer["state"], renderTime)[2],
              things |-> PlayersDrawn(RemoveUnused(buffer["state"], renderTime)[1],
                                      RemoveUnused(buffer["state"], renderTime)[2])]]
    BY <1>2 DEF RenderState, Render
  <2>2. Len(buffer["state"]) >= 2
    BY <2>1 DEF ViewInv, PlaceInv
  <2> QED
    BY <2>1, <2>2 DEF Kinds
<1> QED
  BY <1>1, <1>2

LEMMA OthersDrawNothing ==
  ASSUME [Next]_vars, ~RenderBullets, ~RenderState
  PROVE  drawn' = drawn
BY DEF Next, Frame, PassTime, Broadcast, PushBack, LookAtSize, vars

(***************************************************************************)
(* Inductive, with ViewInv: what is on the screen was drawn from two       *)
(* packets the server sent.                                                *)
(***************************************************************************)
DrawnInv ==
  /\ drawn = [k \in Kinds |-> drawn[k]]
  /\ Drew("state") =>
       /\ drawn["state"].from \in Sent /\ drawn["state"].to \in Sent
       /\ drawn["state"].time \in Int
       /\ drawn["state"].things = PlayersDrawn(drawn["state"].from, drawn["state"].to)

LEMMA FirstTwoAreSent ==
  ASSUME ViewInv, NEW k \in Kinds, Len(buffer[k]) >= 2
  PROVE  /\ RemoveUnused(buffer[k], renderTime)[1] \in Sent
         /\ RemoveUnused(buffer[k], renderTime)[2] \in Sent
<1>1. /\ arrived[k] \in Seq(Sent) /\ buffer[k] \in Seq(Sent) /\ renderTime \in Int
      /\ Trimmed(arrived[k], buffer[k], renderTime)
  BY DEF ViewInv, BufferInv, ClockInv
<1>2. PICK left \in Seq(Sent) : left = RemoveUnused(buffer[k], renderTime) /\ Len(left) >= 2
  BY <1>1, TrimmedRemoveUnused
<1>3. left[1] \in Sent /\ left[2] \in Sent
  BY <1>2
<1> QED
  BY <1>2, <1>3

LEMMA DrawnInvStep == ViewInv /\ DrawnInv /\ [Next]_vars => DrawnInv'
<1> SUFFICES ASSUME ViewInv, DrawnInv, [Next]_vars
             PROVE  DrawnInv'
  OBVIOUS
<1>1. CASE RenderBullets \/ RenderState
  <2>1. drawn = [k \in Kinds |-> drawn[k]]
    BY DEF DrawnInv
  <2>2. PICK k \in Kinds :
           /\ Len(buffer[k]) >= 2
           /\ drawn' = [c \in Kinds |-> drawn'[c]]
           /\ \A c \in Kinds \ {k} : drawn'[c] = drawn[c]
           /\ drawn'[k].time = renderTime
           /\ drawn'[k].from = RemoveUnused(buffer[k], renderTime)[1]
           /\ drawn'[k].to = RemoveUnused(buffer[k], renderTime)[2]
           /\ k = "state" => drawn'[k].things = PlayersDrawn(drawn'[k].from, drawn'[k].to)
    BY <1>1, <2>1, RenderEffect
  <2>3. CASE k = "state"
    <3>1. drawn'["state"].from \in Sent /\ drawn'["state"].to \in Sent
      BY <2>2, <2>3, FirstTwoAreSent
    <3>2. drawn'["state"].time \in Int
      BY <2>2, <2>3 DEF ViewInv, ClockInv
    <3> QED
      BY <2>2, <2>3, <3>1, <3>2 DEF DrawnInv
  <2>4. CASE k # "state"
    <3>1. drawn'["state"] = drawn["state"]
      BY <2>2, <2>4 DEF Kinds
    <3> QED
      BY <2>2, <3>1 DEF DrawnInv, Drew
  <2> QED
    BY <2>3, <2>4
<1>2. CASE ~RenderBullets /\ ~RenderState
  BY <1>2, OthersDrawNothing DEF DrawnInv, Drew
<1> QED
  BY <1>1, <1>2

\* What a frame draws comes from two states that were sent, in every state.
THEOREM DrawnInvHolds == Spec => []DrawnInv
<1>1. Init => DrawnInv
  BY DEF Init, DrawnInv, Drew, Kinds
<1> QED
  BY <1>1, DrawnInvStep, ViewInvHolds, PTL DEF Spec

(***************************************************************************)
(* Players are drawn smoothly: a player who moves at constant speed, and   *)
(* is in both states around the render time, is drawn where the server had *)
(* it at that time, and no unsigned difference of render_state wraps.      *)
(***************************************************************************)
THEOREM SmoothPlayers == Spec => []PlayersAreSmooth
<1>1. DrawnInv => PlayersAreSmooth
  <2> SUFFICES ASSUME DrawnInv, NEW d, d = drawn["state"], Drew("state"),
                      d.from.timestamp <= d.time, d.time < d.to.timestamp,
                      NEW thing \in d.things, thing.id \in d.from.ids \ {NoId}
               PROVE  (d.time - thing.from) * Span(d.from, d.to)
                        = Elapsed(d.time, d.from) * (thing.to - thing.from)
    BY DEF PlayersAreSmooth
  <2>1. /\ d.from \in Sent /\ d.to \in Sent /\ d.time \in Int
        /\ d.things = PlayersDrawn(d.from, d.to)
    BY DEF DrawnInv
  <2>2. /\ Elapsed(d.time, d.from) = d.time - d.from.timestamp
        /\ Span(d.from, d.to) = d.to.timestamp - d.from.timestamp
    BY <2>1, DifferencesHold
  <2>3. thing.from = d.from.timestamp /\ thing.to = d.to.timestamp
    BY <2>1 DEF PlayersDrawn, PlaceIn
  <2> QED
    BY <2>2, <2>3
<1> QED
  BY <1>1, DrawnInvHolds, PTL

(***************************************************************************)
(* Every frame draws from the last state before its render time and the    *)
(* first after it, if such states have come, in order, however few states  *)
(* remove_unused has left of them; t is in [0, 1) then.                    *)
(***************************************************************************)
THEOREM FramesEnclose == Spec => Encloses
<1> DEFINE Around(k) ==
      drawn[k] # drawn'[k] /\ Sorted(arrived[k]) /\ CameAround(arrived[k], renderTime)
      => LET a == drawn'[k].from
             b == drawn'[k].to
         IN  /\ a.timestamp <= renderTime /\ renderTime < b.timestamp
             /\ \A i \in DOMAIN arrived[k] : arrived[k][i].timestamp <= a.timestamp
                                             \/ b.timestamp <= arrived[k][i].timestamp
             /\ Elapsed(renderTime, a) < Span(a, b)
<1>1. ViewInv /\ DrawnInv /\ [Next]_vars => [\A k \in Kinds : Around(k)]_vars
  <2> SUFFICES ASSUME ViewInv, DrawnInv, [Next]_vars, NEW k \in Kinds,
                      drawn[k] # drawn'[k], Sorted(arrived[k]),
                      NEW i \in DOMAIN arrived[k], NEW j \in DOMAIN arrived[k],
                      arrived[k][i].timestamp <= renderTime,
                      renderTime < arrived[k][j].timestamp,
                      NEW a, a = drawn'[k].from, NEW b, b = drawn'[k].to
               PROVE  /\ a.timestamp <= renderTime /\ renderTime < b.timestamp
                      /\ \A n \in DOMAIN arrived[k] : arrived[k][n].timestamp <= a.timestamp
                                                      \/ b.timestamp <= arrived[k][n].timestamp
                      /\ Elapsed(renderTime, a) < Span(a, b)
    BY DEF CameAround
  <2>1. RenderBullets \/ RenderState
    BY OthersDrawNothing
  <2>2. drawn = [c \in Kinds |-> drawn[c]]
    BY DEF DrawnInv
  <2>3. /\ Len(buffer[k]) >= 2
        /\ a = RemoveUnused(buffer[k], renderTime)[1]
        /\ b = RemoveUnused(buffer[k], renderTime)[2]
    BY <2>1, <2>2, RenderEffect
  <2>4. /\ arrived[k] \in Seq(Sent) /\ buffer[k] \in Seq(Sent) /\ renderTime \in Int
        /\ Trimmed(arrived[k], buffer[k], renderTime)
    BY DEF ViewInv, BufferInv, ClockInv
  <2>5. i \in 1 .. Len(arrived[k]) /\ j \in 1 .. Len(arrived[k])
    BY <2>4
  <2>6. /\ a.timestamp <= renderTime /\ renderTime < b.timestamp
        /\ \A n \in DOMAIN arrived[k] : arrived[k][n].timestamp <= a.timestamp
                                        \/ b.timestamp <= arrived[k][n].timestamp
    BY <2>3, <2>4, <2>5, DrawsAround
  <2>7. a \in Sent /\ b \in Sent
    BY <2>3, FirstTwoAreSent
  <2>8. Elapsed(renderTime, a) < Span(a, b)
    BY <2>4, <2>6, <2>7, DifferencesHold
  <2> QED
    BY <2>6, <2>8
<1> QED
  BY <1>1, ViewInvHolds, DrawnInvHolds, PTL DEF Spec, Encloses
=============================================================================
