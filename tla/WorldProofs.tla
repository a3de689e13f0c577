------------------------------ MODULE WorldProofs ------------------------------
(***************************************************************************)
(* What is proved of World for every map, every clock and every number of  *)
(* clients and bullets.                                                    *)
(***************************************************************************)
EXTENDS World, OperatorFacts

\* WorldAssumption, constant by constant.
LEMMA ConstantTypes ==
  /\ MaxBulletsPerPacket \in Nat /\ BulletStep \in Nat /\ MaxDelay \in Nat /\ MaxWait \in Nat
  /\ MaxWork \in Nat /\ MaxTime \in Nat /\ MaxIds \in Nat /\ FullHealth \in Nat
  /\ TickInterval \in Nat /\ TickInterval > 0 /\ Boot \in Nat
BY WorldAssumption

-----------------------------------------------------------------------------
(* The clock. *)

Updating == {"players", "moving", "hitting", "testing"}

(***************************************************************************)
(* Why the simulation is never ahead: what was simulated fits between the  *)
(* boot and last_t, and within a turn what is still to be simulated fits   *)
(* as well.                                                                *)
(***************************************************************************)
ClockInv ==
  /\ now \in Int /\ lastT \in Int /\ accumulate \in Int /\ ticks \in Nat
  /\ lastT <= now
  /\ ticks * TickInterval <= lastT - Boot
  /\ phase # "waiting" => accumulate >= 0 /\ accumulate + ticks * TickInterval <= now - Boot
  /\ phase \in Updating => accumulate >= TickInterval

\* What neither takes a packet nor ends an update leaves the clock alone, and
\* begins an update only when a tick is due.
LEMMA ClockStep ==
  ASSUME [Next]_vars, ~ReceivePacket, ~EndUpdate
  PROVE  /\ UNCHANGED clock
         /\ phase' # "waiting" => phase # "waiting"
         /\ phase' \in Updating => phase \in Updating \/ accumulate >= TickInterval
<1> USE DEF clock, Updating
<1>1. CASE StartUpdate
  BY <1>1 DEF StartUpdate
<1>2. CASE \E id \in todo : MovePlayer(id)
  BY <1>2 DEF MovePlayer
<1>3. CASE StartMoving \/ StartHitting \/ StartBullet \/ NextBullet \/ Broadcast
  BY <1>3 DEF StartMoving, StartHitting, StartBullet, NextBullet, Broadcast
<1>4. CASE MoveBullet
  BY <1>4 DEF MoveBullet
<1>5. CASE \E id \in todo : Test(id) \/ TestWild(id)
  BY <1>5 DEF Test, TestWild
<1>6. CASE UNCHANGED vars
  BY <1>6 DEF vars
<1> QED
  BY <1>1, <1>2, <1>3, <1>4, <1>5, <1>6 DEF Next, Turn

\* The clock's invariant is inductive.
THEOREM ClockHolds == Spec => []ClockInv
<1> USE ConstantTypes
<1>1. Init => ClockInv
  BY DEF Init, ClockInv, Updating
<1>2. ClockInv /\ [Next]_vars => ClockInv'
  <2> SUFFICES ASSUME ClockInv, [Next]_vars
               PROVE  ClockInv'
    OBVIOUS
  <2>1. CASE ReceivePacket
    BY <2>1 DEF ReceivePacket, ClockInv, Updating
  <2>2. CASE EndUpdate
    <3>1. PICK done \in Int : done = ticks * TickInterval /\ ticks' * TickInterval = done + TickInterval
      BY <2>2 DEF EndUpdate, ClockInv
    <3>2. now \in Int /\ accumulate \in Int /\ accumulate >= TickInterval /\ accumulate + done <= now - Boot
      BY <2>2, <3>1 DEF EndUpdate, ClockInv, Updating
    <3>3. PICK work \in Nat : now' = now + work /\ lastT' = now + work
      BY <2>2 DEF EndUpdate, TickTaken
    <3>4. accumulate' = accumulate - TickInterval /\ phase' = "ticking" /\ ticks' \in Nat
      BY <2>2 DEF EndUpdate, TickTaken, ClockInv
    <3>5. /\ done + TickInterval <= (now + work) - Boot /\ accumulate - TickInterval >= 0
          /\ (accumulate - TickInterval) + (done + TickInterval) <= (now + work) - Boot
      BY <3>2, <3>3
    <3>6. /\ ticks' * TickInterval <= lastT' - Boot
          /\ accumulate' >= 0 /\ accumulate' + ticks' * TickInterval <= now' - Boot
      BY <3>1, <3>3, <3>4, <3>5
    <3>7. now' \in Int /\ lastT' \in Int /\ accumulate' \in Int /\ lastT' <= now'
      BY <3>2, <3>3, <3>4
    <3>8. phase' \notin Updating'
      BY <3>4 DEF Updating
    <3> QED
      BY <3>4, <3>6, <3>7, <3>8 DEF ClockInv
  <2>3. CASE UNCHANGED clock /\ ~ReceivePacket /\ ~EndUpdate
    BY <2>3, ClockStep DEF ClockInv, clock
  <2> QED
    BY <2>1, <2>2, <2>3, ClockStep
<1> QED
  BY <1>1, <1>2, PTL DEF Spec

(***************************************************************************)
(* The simulation never runs ahead of the clock: serve, which counts its   *)
(* ticks from the time the last one was done, takes at most one per        *)
(* TICK_INTERVAL since the boot.                                           *)
(***************************************************************************)
THEOREM ClockNeverOvertaken == Spec => []NeverAheadOfClock
<1>1. ClockInv => NeverAheadOfClock
  BY ConstantTypes DEF ClockInv, NeverAheadOfClock
<1> QED
  BY <1>1, ClockHolds, PTL

-----------------------------------------------------------------------------
(* What the steps of update do to the bullets and to the registry. *)

BulletFields == {"id", "sender", "rect", "dx", "timestamp", "born", "start"}
EntryFields == {"rect", "health", "playerId", "input"}
IsRecord(r, fields) == r = [f \in fields |-> r[f]]

(***************************************************************************)
(* The bookkeeping of the loops, whatever the values are: the registry is  *)
(* a function on ids that were given out, bullet_state a sequence of       *)
(* bullets, and the iterators are where their loops have got to.           *)
(***************************************************************************)
RegistryInv ==
  /\ idx \in Nat /\ DOMAIN clients \subseteq 0 .. idx - 1
  /\ IsRecord(clients, DOMAIN clients)
  /\ \A id \in DOMAIN clients : IsRecord(clients[id], EntryFields)

ShotsInv ==
  /\ bulletIdx \in Nat /\ \E S : bullets \in Seq(S)
  /\ \A i \in 1 .. Len(bullets) : IsRecord(bullets[i], BulletFields)

IteratorInv ==
  /\ phase \in Phases /\ todo \subseteq DOMAIN clients
  /\ phase \in {"waiting", "ticking", "moving", "hitting"} => todo = {}
  /\ itr \in Int
  /\ phase \in {"moving", "hitting"} => itr \in 1 .. Len(bullets) + 1
  /\ phase = "testing" => itr \in 0 .. Len(bullets)

LoopInv == RegistryInv /\ ShotsInv /\ IteratorInv

LEMMA LenType ==
  ASSUME ShotsInv
  PROVE  Len(bullets) \in Nat /\ DOMAIN bullets = 1 .. Len(bullets)
<1>1. PICK S : bullets \in Seq(S)
  BY DEF ShotsInv
<1> QED
  BY <1>1

\* One element goes, the last one takes its place, the others stay where they are.
LEMMA SmartEraseEffect ==
  ASSUME NEW S, NEW seq \in Seq(S), NEW k \in 1 .. Len(seq)
  PROVE  /\ SmartErase(seq, k) \in Seq(S)
         /\ Len(SmartErase(seq, k)) = Len(seq) - 1
         /\ \A i \in 1 .. Len(seq) - 1 :
              SmartErase(seq, k)[i] = IF i = k THEN seq[Len(seq)] ELSE seq[i]
<1>1. Len(seq) - 1 \in Nat
  OBVIOUS
<1>2. \A i \in 1 .. Len(seq) - 1 : seq[i] \in S /\ seq[Len(seq)] \in S
  OBVIOUS
<1>3. SmartErase(seq, k) \in [1 .. Len(seq) - 1 -> S]
  BY <1>2 DEF SmartErase
<1> QED
  BY <1>1, <1>3 DEF SmartErase

\* A player's step changes its rectangle, and may append one bullet.
LEMMA MovePlayerEffect ==
  ASSUME LoopInv, NEW id \in todo, MovePlayer(id)
  PROVE  /\ phase = "players" /\ phase' = phase /\ itr' = itr /\ todo' = todo \ {id}
         /\ idx' = idx /\ RegistryInv' /\ DOMAIN clients' = DOMAIN clients
         /\ \A c \in DOMAIN clients : /\ clients'[c].health = clients[c].health
                                      /\ clients'[c].playerId = clients[c].playerId
                                      /\ clients'[c].input = clients[c].input
         /\ ShotsInv'
         /\ \/ bullets' = bullets /\ bulletIdx' = bulletIdx
            \/ /\ Len(bullets') = Len(bullets) + 1 /\ bulletIdx' = bulletIdx + 1
               /\ \A i \in 1 .. Len(bullets) : bullets'[i] = bullets[i]
               /\ bullets'[Len(bullets) + 1].id = bulletIdx
               /\ bullets'[Len(bullets) + 1].sender = clients[id].playerId
               /\ bullets'[Len(bullets) + 1].born = ticks
               /\ bullets'[Len(bullets) + 1].rect.x = bullets'[Len(bullets) + 1].start
<1> DEFINE rect == PlayerUpdate(map, clients[id].rect, clients[id].input.dx, 0)
           middle == Rect(rect.x + rect.w \div 2, rect.y + rect.h \div 2, BulletSize, BulletSize)
           fired == Bullet(bulletIdx, clients[id].playerId, middle,
                           BulletStep * Direction(rect.x, clients[id].input.aim))
<1>1. /\ phase = "players" /\ phase' = phase /\ itr' = itr /\ todo' = todo \ {id} /\ idx' = idx
      /\ clients' = [clients EXCEPT ![id].rect = rect]
      /\ \/ bullets' = bullets /\ bulletIdx' = bulletIdx
         \/ bullets' = Append(bullets, fired) /\ bulletIdx' = bulletIdx + 1
  BY DEF MovePlayer, shots
<1>2. id \in DOMAIN clients
  BY DEF LoopInv, IteratorInv
<1> HIDE DEF rect
<1>3. /\ RegistryInv' /\ DOMAIN clients' = DOMAIN clients
      /\ \A c \in DOMAIN clients : /\ clients'[c].health = clients[c].health
                                   /\ clients'[c].playerId = clients[c].playerId
                                   /\ clients'[c].input = clients[c].input
  <2>1. DOMAIN clients' = DOMAIN clients /\ IsRecord(clients', DOMAIN clients')
    BY <1>1 DEF IsRecord
  <2>2. \A c \in DOMAIN clients : IsRecord(clients[c], EntryFields)
    BY DEF LoopInv, RegistryInv
  <2>3. \A c \in DOMAIN clients : /\ IsRecord(clients'[c], EntryFields)
                                  /\ clients'[c].health = clients[c].health
                                  /\ clients'[c].playerId = clients[c].playerId
                                  /\ clients'[c].input = clients[c].input
    BY <1>1, <2>2 DEF IsRecord, EntryFields
  <2> QED
    BY <1>1, <2>1, <2>3 DEF LoopInv, RegistryInv
<1>4. /\ IsRecord(fired, BulletFields) /\ fired.id = bulletIdx
      /\ fired.sender = clients[id].playerId /\ fired.born = ticks /\ fired.rect.x = fired.start
  BY DEF IsRecord, BulletFields, Bullet, Rect
<1> HIDE DEF fired
<1>5. CASE bullets' = bullets /\ bulletIdx' = bulletIdx
  BY <1>1, <1>3, <1>5 DEF LoopInv, ShotsInv
<1>6. CASE bullets' = Append(bullets, fired) /\ bulletIdx' = bulletIdx + 1
  <2>1. PICK S : bullets \in Seq(S)
    BY DEF LoopInv, ShotsInv
  <2>2. bullets \in Seq(S \cup {fired})
    BY <2>1
  <2>3. /\ bullets' \in Seq(S \cup {fired}) /\ Len(bullets') = Len(bullets) + 1
        /\ \A i \in 1 .. Len(bullets) : bullets'[i] = bullets[i]
        /\ bullets'[Len(bullets) + 1] = fired
    BY <1>6, <2>2, AppendProperties
  <2>4. ShotsInv'
    BY <1>4, <1>6, <2>1, <2>3 DEF LoopInv, ShotsInv
  <2> QED
    BY <1>1, <1>3, <1>4, <1>6, <2>3, <2>4
<1> QED
  BY <1>1, <1>5, <1>6

\* A bullet moves on, or goes.
LEMMA MoveBulletEffect ==
  ASSUME LoopInv, MoveBullet
  PROVE  /\ phase = "moving" /\ phase' = phase /\ todo' = todo /\ itr \in 1 .. Len(bullets)
         /\ UNCHANGED <<registry, bulletIdx>> /\ ShotsInv'
         /\ \/ /\ itr' = itr + 1 /\ Len(bullets') = Len(bullets)
               /\ \A i \in 1 .. Len(bullets) : i # itr => bullets'[i] = bullets[i]
               /\ \A f \in BulletFields \ {"rect", "timestamp"} : bullets'[itr][f] = bullets[itr][f]
               /\ bullets'[itr].rect = BulletMoved(bullets[itr].rect, bullets[itr].dx, 0)
               /\ stopped' = stopped
            \/ /\ itr' = itr /\ Len(bullets') = Len(bullets) - 1
               /\ \A i \in 1 .. Len(bullets) - 1 :
                    bullets'[i] = IF i = itr THEN bullets[Len(bullets)] ELSE bullets[i]
               /\ stopped' = stopped \cup {bullets[itr].id}
<1> DEFINE rect == BulletMoved(bullets[itr].rect, bullets[itr].dx, 0)
           moved == [bullets[itr] EXCEPT !.rect = rect, !.timestamp = now]
           flown == [bullets EXCEPT ![itr] = moved]
<1>1. /\ phase = "moving" /\ phase' = phase /\ todo' = todo
      /\ itr \in 1 .. Len(bullets) /\ UNCHANGED <<registry, bulletIdx>>
  BY LenType DEF MoveBullet, LoopInv, IteratorInv, registry
<1>2. \/ bullets' = flown /\ itr' = itr + 1 /\ stopped' = stopped
      \/ bullets' = SmartErase(flown, itr) /\ itr' = itr /\ stopped' = stopped \cup {moved.id}
  BY DEF MoveBullet, AfterErase
<1>3. IsRecord(bullets[itr], BulletFields)
  BY <1>1 DEF LoopInv, ShotsInv
<1> HIDE DEF rect
<1>4. /\ IsRecord(moved, BulletFields) /\ moved.rect = rect
      /\ \A f \in BulletFields \ {"rect", "timestamp"} : moved[f] = bullets[itr][f]
  BY <1>3 DEF IsRecord, BulletFields
<1> HIDE DEF moved
<1>5. PICK S : bullets \in Seq(S)
  BY DEF LoopInv, ShotsInv
<1>6. bullets \in Seq(S \cup {moved})
  BY <1>5
<1>7. /\ flown \in Seq(S \cup {moved}) /\ Len(flown) = Len(bullets)
      /\ \A i \in 1 .. Len(bullets) : flown[i] = IF i = itr THEN moved ELSE bullets[i]
  BY <1>1, <1>6, ExceptSeq
<1> HIDE DEF flown
<1>8. CASE bullets' = flown /\ itr' = itr + 1 /\ stopped' = stopped
  <2>1. ShotsInv'
    BY <1>1, <1>4, <1>7, <1>8 DEF LoopInv, ShotsInv
  <2> QED
    BY <1>1, <1>4, <1>7, <1>8, <2>1 DEF rect
<1>9. CASE bullets' = SmartErase(flown, itr) /\ itr' = itr /\ stopped' = stopped \cup {moved.id}
  <2>1. /\ bullets' \in Seq(S \cup {moved}) /\ Len(bullets') = Len(bullets) - 1
        /\ \A i \in 1 .. Len(bullets) - 1 :
             bullets'[i] = IF i = itr THEN flown[Len(bullets)] ELSE flown[i]
    <3>1. itr \in 1 .. Len(flown)
      BY <1>1, <1>7
    <3> QED
      BY <1>7, <1>9, <3>1, SmartEraseEffect
  <2>2. \A i \in 1 .. Len(bullets) - 1 :
          bullets'[i] = IF i = itr THEN bullets[Len(bullets)] ELSE bullets[i]
    BY <1>1, <1>7, <2>1
  <2>3. ShotsInv'
    BY <1>1, <2>1, <2>2 DEF LoopInv, ShotsInv
  <2>4. moved.id = bullets[itr].id
    BY <1>4 DEF BulletFields
  <2> QED
    BY <1>1, <1>9, <2>1, <2>2, <2>3, <2>4
<1> QED
  BY <1>2, <1>8, <1>9

\* A hit takes the bullet and some of the player's health; a miss, nothing.
LEMMA TestEffect ==
  ASSUME LoopInv, NEW id \in todo, Test(id)
  PROVE  /\ phase = "testing" /\ phase' = phase /\ todo' = todo \ {id}
         /\ itr \in 1 .. Len(bullets) /\ idx' = idx /\ bulletIdx' = bulletIdx
         /\ RegistryInv' /\ DOMAIN clients' = DOMAIN clients
         /\ \A c \in DOMAIN clients : /\ clients'[c].rect = clients[c].rect
                                      /\ clients'[c].playerId = clients[c].playerId
                                      /\ clients'[c].input = clients[c].input
         /\ \A c \in DOMAIN clients : c # id => clients'[c].health = clients[c].health
         /\ ShotsInv'
         /\ \/ /\ ~Hits(bullets[itr], clients[id])
               /\ UNCHANGED <<bullets, itr, clients, struck>>
            \/ /\ itr' = itr - 1 /\ Len(bullets') = Len(bullets) - 1
               /\ \A i \in 1 .. Len(bullets) - 1 :
                    bullets'[i] = IF i = itr THEN bullets[Len(bullets)] ELSE bullets[i]
               /\ struck' = struck \cup {[bullet |-> bullets[itr].id, victim |-> id]}
               /\ clients'[id].health = clients[id].health - 1
<1>1. /\ phase = "testing" /\ phase' = phase /\ todo' = todo \ {id}
      /\ itr \in 1 .. Len(bullets) /\ idx' = idx /\ bulletIdx' = bulletIdx
      /\ id \in DOMAIN clients
  BY LenType DEF Test, clock, LoopInv, IteratorInv
<1>2. \/ /\ ~Hits(bullets[itr], clients[id])
         /\ UNCHANGED <<bullets, itr, clients, struck>>
      \/ /\ bullets' = SmartErase(bullets, itr) /\ itr' = itr - 1
         /\ clients' = [clients EXCEPT ![id].health = clients[id].health - 1]
         /\ struck' = struck \cup {[bullet |-> bullets[itr].id, victim |-> id]}
  BY DEF Test, Back
<1>3. CASE UNCHANGED <<bullets, itr, clients, struck>> /\ ~Hits(bullets[itr], clients[id])
  BY <1>1, <1>3 DEF LoopInv, RegistryInv, ShotsInv
<1>4. CASE /\ bullets' = SmartErase(bullets, itr) /\ itr' = itr - 1
           /\ clients' = [clients EXCEPT ![id].health = clients[id].health - 1]
           /\ struck' = struck \cup {[bullet |-> bullets[itr].id, victim |-> id]}
  <2>1. PICK S : bullets \in Seq(S)
    BY DEF LoopInv, ShotsInv
  <2>2. /\ bullets' \in Seq(S) /\ Len(bullets') = Len(bullets) - 1
        /\ \A i \in 1 .. Len(bullets) - 1 :
             bullets'[i] = IF i = itr THEN bullets[Len(bullets)] ELSE bullets[i]
    BY <1>1, <1>4, <2>1, SmartEraseEffect
  <2>3. ShotsInv'
    BY <1>1, <2>2 DEF LoopInv, ShotsInv
  <2>4. /\ RegistryInv' /\ DOMAIN clients' = DOMAIN clients
        /\ clients'[id].health = clients[id].health - 1
        /\ \A c \in DOMAIN clients : /\ clients'[c].rect = clients[c].rect
                                     /\ clients'[c].playerId = clients[c].playerId
                                     /\ clients'[c].input = clients[c].input
        /\ \A c \in DOMAIN clients : c # id => clients'[c].health = clients[c].health
    <3>1. /\ clients' = [c \in DOMAIN clients |->
                           IF c = id THEN [clients[id] EXCEPT !.health = clients[id].health - 1]
                           ELSE clients[c]]
          /\ idx' = idx /\ idx \in Nat /\ DOMAIN clients \subseteq 0 .. idx - 1
      BY <1>1, <1>4 DEF LoopInv, RegistryInv
    <3>2. \A c \in DOMAIN clients : IsRecord(clients[c], EntryFields)
      BY DEF LoopInv, RegistryInv
    <3>3. /\ DOMAIN clients' = DOMAIN clients /\ IsRecord(clients', DOMAIN clients')
          /\ clients'[id] = [clients[id] EXCEPT !.health = clients[id].health - 1]
          /\ \A c \in DOMAIN clients : c # id => clients'[c] = clients[c]
      BY <1>1, <3>1 DEF IsRecord
    <3>4. /\ IsRecord(clients'[id], EntryFields)
          /\ clients'[id].health = clients[id].health - 1
          /\ clients'[id].rect = clients[id].rect
          /\ clients'[id].playerId = clients[id].playerId
          /\ clients'[id].input = clients[id].input
      BY <1>1, <3>2, <3>3 DEF IsRecord, EntryFields
    <3>5. \A c \in DOMAIN clients' : IsRecord(clients'[c], EntryFields)
      BY <3>2, <3>3, <3>4
    <3>6. RegistryInv'
      BY <3>1, <3>3, <3>5 DEF RegistryInv
    <3> QED
      BY <3>3, <3>4, <3>6
  <2> QED
    BY <1>1, <1>4, <2>2, <2>3, <2>4
<1> QED
  BY <1>2, <1>3, <1>4

\* A packet adds an entry, removes one, or stores an input.
LEMMA ReceiveEffect ==
  ASSUME LoopInv, ReceivePacket
  PROVE  /\ phase = "waiting" /\ phase' = "ticking" /\ RegistryInv'
         /\ UNCHANGED <<shots, ticks, todo, itr, struck>>
         /\ idx' \in {idx, idx + 1} /\ DOMAIN clients' \subseteq DOMAIN clients \cup {idx}
         /\ \A c \in DOMAIN clients' :
              \/ c = idx /\ idx' = idx + 1 /\ clients'[c] = NewEntry
              \/ /\ c \in DOMAIN clients /\ clients'[c].health = clients[c].health
                 /\ clients'[c].rect = clients[c].rect
                 /\ \/ clients'[c] = clients[c]
                    \/ /\ clients'[c].playerId = Narrow(c)
                       /\ clients'[c].input \in InputsAt(now')
<1>1. phase = "waiting" /\ phase' = "ticking" /\ UNCHANGED <<shots, ticks, todo, itr, struck>>
  BY DEF ReceivePacket
<1>2. CASE Join
  <2>1. IsRecord(NewEntry, EntryFields)
    BY DEF NewEntry, IsRecord, EntryFields
  <2>2. idx \in Nat /\ idx \notin DOMAIN clients
    BY DEF LoopInv, RegistryInv
  <2>3. /\ idx' = idx + 1 /\ DOMAIN clients' = DOMAIN clients \cup {idx}
        /\ IsRecord(clients', DOMAIN clients') /\ clients'[idx] = NewEntry
        /\ \A c \in DOMAIN clients : clients'[c] = clients[c]
    BY <1>2, <2>2 DEF Join, IsRecord
  <2>4. RegistryInv'
    BY <2>1, <2>2, <2>3 DEF LoopInv, RegistryInv
  <2> QED
    BY <1>1, <2>3, <2>4
<1>3. CASE \E id \in DOMAIN clients, input \in InputsAt(now') : HandleInput(id, input)
  <2>1. PICK id \in DOMAIN clients, input \in InputsAt(now') : HandleInput(id, input)
    BY <1>3
  <2>2. /\ IsRecord(clients, DOMAIN clients) /\ IsRecord(clients[id], EntryFields)
        /\ clients' = [clients EXCEPT ![id] = [clients[id] EXCEPT !.input = input, !.playerId = Narrow(id)]]
        /\ idx' = idx
    BY <2>1 DEF HandleInput, LoopInv, RegistryInv
  <2> DEFINE entry == [clients[id] EXCEPT !.input = input, !.playerId = Narrow(id)]
  <2>3. /\ IsRecord(entry, EntryFields) /\ entry.input = input /\ entry.playerId = Narrow(id)
        /\ entry.health = clients[id].health /\ entry.rect = clients[id].rect
    BY <2>2 DEF IsRecord, EntryFields
  <2> HIDE DEF entry
  <2>4. /\ DOMAIN clients' = DOMAIN clients /\ IsRecord(clients', DOMAIN clients')
        /\ clients'[id] = entry
        /\ \A c \in DOMAIN clients : c # id => clients'[c] = clients[c]
    BY <2>2 DEF IsRecord, entry
  <2>5. RegistryInv'
    BY <2>2, <2>3, <2>4 DEF LoopInv, RegistryInv
  <2> QED
    BY <1>1, <2>1, <2>2, <2>3, <2>4, <2>5
<1>4. CASE \E id \in DOMAIN clients : Leave(id)
  <2>1. /\ idx' = idx /\ DOMAIN clients' \subseteq DOMAIN clients
        /\ IsRecord(clients', DOMAIN clients')
        /\ \A c \in DOMAIN clients' : clients'[c] = clients[c]
    BY <1>4 DEF Leave, Restrict, IsRecord
  <2>2. RegistryInv'
    BY <2>1 DEF LoopInv, RegistryInv
  <2> QED
    BY <1>1, <2>1, <2>2
<1>5. CASE UNCHANGED registry
  <2>1. idx' = idx /\ clients' = clients
    BY <1>5 DEF registry
  <2>2. RegistryInv'
    BY <2>1 DEF LoopInv, RegistryInv
  <2> QED
    BY <1>1, <2>1, <2>2
<1> QED
  BY <1>2, <1>3, <1>4, <1>5 DEF ReceivePacket

LEMMA LoopInvStep == LoopInv /\ [Next]_vars => LoopInv'
<1> SUFFICES ASSUME LoopInv, [Next]_vars
             PROVE  LoopInv'
  OBVIOUS
<1>0. Len(bullets) \in Nat
  BY LenType DEF LoopInv
<1>1. CASE ReceivePacket
  BY <1>0, <1>1, ReceiveEffect DEF LoopInv, IteratorInv, ShotsInv, Phases, shots
<1>2. CASE StartUpdate \/ StartMoving \/ StartHitting \/ StartBullet \/ NextBullet \/ Broadcast
  <2>1. UNCHANGED <<clients, idx, bullets, bulletIdx>>
    BY <1>2 DEF StartUpdate, StartMoving, StartHitting, StartBullet, NextBullet, Broadcast,
                registry, shots
  <2>2. IteratorInv
    BY DEF LoopInv
  <2> SUFFICES IteratorInv'
    BY <2>1 DEF LoopInv, RegistryInv, ShotsInv
  <2>3. CASE StartUpdate
    BY <1>0, <2>1, <2>2, <2>3 DEF StartUpdate, IteratorInv, Phases
  <2>4. CASE StartMoving
    BY <1>0, <2>1, <2>2, <2>4 DEF StartMoving, IteratorInv, Phases
  <2>5. CASE StartHitting
    BY <1>0, <2>1, <2>2, <2>5 DEF StartHitting, IteratorInv, Phases
  <2>6. CASE StartBullet
    BY <1>0, <2>1, <2>2, <2>6 DEF StartBullet, IteratorInv, Phases
  <2>7. CASE NextBullet
    BY <1>0, <2>1, <2>2, <2>7 DEF NextBullet, IteratorInv, Phases
  <2>8. CASE Broadcast
    BY <1>0, <2>1, <2>2, <2>8 DEF Broadcast, Broadcasting, IteratorInv, Phases
  <2> QED
    BY <1>2, <2>3, <2>4, <2>5, <2>6, <2>7, <2>8
<1>3. CASE \E id \in todo : MovePlayer(id)
  <2>1. PICK id \in todo : MovePlayer(id)
    BY <1>3
  <2> QED
    BY <1>0, <2>1, MovePlayerEffect DEF LoopInv, IteratorInv
<1>4. CASE MoveBullet
  <2>1. RegistryInv' /\ ShotsInv'
    BY <1>4, MoveBulletEffect DEF LoopInv, RegistryInv, registry
  <2>0. /\ itr \in 1 .. Len(bullets)
        /\ \/ itr' = itr + 1 /\ Len(bullets') = Len(bullets)
           \/ itr' = itr /\ Len(bullets') = Len(bullets) - 1
    BY <1>4, MoveBulletEffect
  <2>2. /\ phase = "moving" /\ phase' = phase /\ todo' = todo /\ DOMAIN clients' = DOMAIN clients
        /\ itr' \in Int /\ itr' \in 1 .. Len(bullets') + 1
    BY <1>0, <1>4, <2>0, MoveBulletEffect DEF registry
  <2>3. IteratorInv
    BY DEF LoopInv
  <2>4. IteratorInv'
    BY <2>2, <2>3 DEF IteratorInv, Phases
  <2> QED
    BY <2>1, <2>4 DEF LoopInv
<1>5. CASE \E id \in todo : Test(id)
  <2>1. PICK id \in todo : Test(id)
    BY <1>5
  <2>2. /\ phase = "testing" /\ phase' = phase /\ todo' = todo \ {id}
        /\ itr \in 1 .. Len(bullets) /\ DOMAIN clients' = DOMAIN clients
        /\ \/ Len(bullets') = Len(bullets) /\ itr' = itr
           \/ itr' = itr - 1 /\ Len(bullets') = Len(bullets) - 1
    BY <2>1, TestEffect
  <2>3. itr' \in Int /\ itr' \in 0 .. Len(bullets')
    BY <1>0, <2>2
  <2>4. IteratorInv
    BY DEF LoopInv
  <2>5. IteratorInv'
    BY <2>2, <2>3, <2>4 DEF IteratorInv, Phases
  <2> QED
    BY <2>1, <2>5, TestEffect DEF LoopInv
<1>6. CASE \E id \in todo : TestWild(id)
  BY <1>0, <1>6 DEF TestWild, LoopInv, RegistryInv, ShotsInv, IteratorInv, Phases, registry, shots
<1>7. CASE EndUpdate
  BY <1>0, <1>7 DEF EndUpdate, LoopInv, RegistryInv, ShotsInv, IteratorInv, Phases, registry, shots
<1>8. CASE UNCHANGED vars
  BY <1>8 DEF vars, registry, shots, LoopInv, RegistryInv, ShotsInv, IteratorInv
<1> QED
  BY <1>1, <1>2, <1>3, <1>4, <1>5, <1>6, <1>7, <1>8 DEF Next, Turn

LEMMA LoopInvInit == Init => LoopInv
<1> SUFFICES ASSUME Init
             PROVE  LoopInv
  OBVIOUS
<1>1. bullets \in Seq({}) /\ Len(bullets) = 0
  BY EmptySeq DEF Init
<1> QED
  BY <1>1 DEF Init, LoopInv, RegistryInv, ShotsInv, IteratorInv, IsRecord, Phases

(***************************************************************************)
(* No loop of update runs over its end or under its beginning: between its *)
(* iterations every iterator is at an element or at the end of its         *)
(* container.  (Within the hit loop it may be in front of it.)             *)
(***************************************************************************)
THEOREM LoopsHold == Spec => []LoopInv
<1>1. LoopInv /\ [Next]_vars => LoopInv'
  BY LoopInvStep
<1> QED
  BY <1>1, LoopInvInit, PTL DEF Spec

-----------------------------------------------------------------------------
(* The ids of the bullets. *)

IdsInv ==
  /\ \A i \in 1 .. Len(bullets) : bullets[i].id \in Nat /\ bullets[i].id < bulletIdx
  /\ \A i, j \in 1 .. Len(bullets) : bullets[i].id = bullets[j].id => i = j

\* Only a player's step and the two erasures change which bullets there are.
LEMMA OtherSteps ==
  ASSUME [Next]_vars, ~MoveBullet, \A id \in todo : ~MovePlayer(id) /\ ~Test(id)
  PROVE  UNCHANGED <<shots, struck, stopped>>
<1> USE DEF shots
<1>1. CASE ReceivePacket
  BY <1>1 DEF ReceivePacket
<1>2. CASE StartUpdate \/ StartMoving \/ StartHitting \/ StartBullet \/ NextBullet
  BY <1>2 DEF StartUpdate, StartMoving, StartHitting, StartBullet, NextBullet
<1>3. CASE EndUpdate \/ Broadcast \/ \E id \in todo : TestWild(id)
  BY <1>3 DEF EndUpdate, Broadcast, TestWild
<1>4. CASE UNCHANGED vars
  BY <1>4 DEF vars
<1> QED
  BY <1>1, <1>2, <1>3, <1>4 DEF Next, Turn

\* An erasure, wherever it is done, leaves every other bullet there once.
LEMMA Erased ==
  ASSUME ShotsInv, NEW k \in 1 .. Len(bullets), Len(bullets') = Len(bullets) - 1,
         \A i \in 1 .. Len(bullets) - 1 :
           bullets'[i] = IF i = k THEN bullets[Len(bullets)] ELSE bullets[i]
  PROVE  \E from \in [1 .. Len(bullets') -> 1 .. Len(bullets)] :
           /\ \A i \in 1 .. Len(bullets') : bullets'[i] = bullets[from[i]] /\ from[i] # k
           /\ \A i \in 1 .. Len(bullets') : from[i] = i \/ (i = k /\ from[i] > k)
           /\ \A i, j \in 1 .. Len(bullets') : from[i] = from[j] => i = j
<1>1. Len(bullets) \in Nat
  BY LenType
<1> DEFINE from == [i \in 1 .. Len(bullets) - 1 |-> IF i = k THEN Len(bullets) ELSE i]
<1>2. from \in [1 .. Len(bullets) - 1 -> 1 .. Len(bullets)]
  BY <1>1
<1>3. \A i \in 1 .. Len(bullets) - 1 : bullets'[i] = bullets[from[i]] /\ from[i] # k
  BY <1>1
<1>4. \A i \in 1 .. Len(bullets) - 1 : from[i] = i \/ (i = k /\ from[i] > k)
  BY <1>1
<1>5. \A i, j \in 1 .. Len(bullets) - 1 : from[i] = from[j] => i = j
  BY <1>1
<1> QED
  BY <1>2, <1>3, <1>4, <1>5

LEMMA ErasureKeepsIds ==
  ASSUME ShotsInv, IdsInv, bulletIdx' = bulletIdx,
         NEW k \in 1 .. Len(bullets), Len(bullets') = Len(bullets) - 1,
         \A i \in 1 .. Len(bullets) - 1 :
           bullets'[i] = IF i = k THEN bullets[Len(bullets)] ELSE bullets[i]
  PROVE  IdsInv'
<1>1. PICK from \in [1 .. Len(bullets') -> 1 .. Len(bullets)] :
        /\ \A i \in 1 .. Len(bullets') : bullets'[i] = bullets[from[i]] /\ from[i] # k
        /\ \A i \in 1 .. Len(bullets') : from[i] = i \/ (i = k /\ from[i] > k)
        /\ \A i, j \in 1 .. Len(bullets') : from[i] = from[j] => i = j
  BY Erased
<1>2. \A i \in 1 .. Len(bullets') : from[i] \in 1 .. Len(bullets)
  BY <1>1
<1>3. \A i \in 1 .. Len(bullets') : bullets'[i].id \in Nat /\ bullets'[i].id < bulletIdx'
  BY <1>1, <1>2 DEF IdsInv
<1>4. \A i, j \in 1 .. Len(bullets') : bullets'[i].id = bullets'[j].id => i = j
  <2> TAKE i, j \in 1 .. Len(bullets')
  <2>1. /\ bullets'[i] = bullets[from[i]] /\ bullets'[j] = bullets[from[j]]
        /\ from[i] \in 1 .. Len(bullets) /\ from[j] \in 1 .. Len(bullets)
        /\ from[i] = from[j] => i = j
    BY <1>1, <1>2
  <2> QED
    BY <2>1 DEF IdsInv
<1> QED
  BY <1>3, <1>4 DEF IdsInv

LEMMA IdsInvStep ==
  ASSUME LoopInv, IdsInv, [Next]_vars
  PROVE  IdsInv'
<1>0. Len(bullets) \in Nat /\ bulletIdx \in Nat
  BY LenType DEF LoopInv, ShotsInv
<1>1. CASE MoveBullet
  <2>1. /\ itr \in 1 .. Len(bullets) /\ bulletIdx' = bulletIdx
        /\ \/ /\ Len(bullets') = Len(bullets)
              /\ \A i \in 1 .. Len(bullets) : i # itr => bullets'[i] = bullets[i]
              /\ bullets'[itr].id = bullets[itr].id
           \/ /\ Len(bullets') = Len(bullets) - 1
              /\ \A i \in 1 .. Len(bullets) - 1 :
                   bullets'[i] = IF i = itr THEN bullets[Len(bullets)] ELSE bullets[i]
    BY <1>1, MoveBulletEffect DEF BulletFields
  <2>2. CASE /\ Len(bullets') = Len(bullets)
             /\ \A i \in 1 .. Len(bullets) : i # itr => bullets'[i] = bullets[i]
             /\ bullets'[itr].id = bullets[itr].id
    <3>1. \A i \in 1 .. Len(bullets) : bullets'[i].id = bullets[i].id
      BY <2>2
    <3> QED
      BY <2>1, <2>2, <3>1 DEF IdsInv
  <2>3. CASE /\ Len(bullets') = Len(bullets) - 1
             /\ \A i \in 1 .. Len(bullets) - 1 :
                  bullets'[i] = IF i = itr THEN bullets[Len(bullets)] ELSE bullets[i]
    BY <2>1, <2>3, ErasureKeepsIds DEF LoopInv
  <2> QED
    BY <2>1, <2>2, <2>3
<1>2. CASE \E id \in todo : MovePlayer(id)
  <2>1. PICK id \in todo : MovePlayer(id)
    BY <1>2
  <2>2. \/ bullets' = bullets /\ bulletIdx' = bulletIdx
        \/ /\ Len(bullets') = Len(bullets) + 1 /\ bulletIdx' = bulletIdx + 1
           /\ \A i \in 1 .. Len(bullets) : bullets'[i] = bullets[i]
           /\ bullets'[Len(bullets) + 1].id = bulletIdx
    BY <2>1, MovePlayerEffect
  <2>3. CASE bullets' = bullets /\ bulletIdx' = bulletIdx
    BY <2>3 DEF IdsInv
  <2>4. CASE /\ Len(bullets') = Len(bullets) + 1 /\ bulletIdx' = bulletIdx + 1
             /\ \A i \in 1 .. Len(bullets) : bullets'[i] = bullets[i]
             /\ bullets'[Len(bullets) + 1].id = bulletIdx
    <3>1. \A i \in 1 .. Len(bullets') : i \in 1 .. Len(bullets) \/ i = Len(bullets) + 1
      BY <1>0, <2>4
    <3>2. \A i \in 1 .. Len(bullets') : bullets'[i].id \in Nat /\ bullets'[i].id < bulletIdx'
      BY <1>0, <2>4, <3>1 DEF IdsInv
    <3>3. ASSUME NEW i \in 1 .. Len(bullets'), NEW j \in 1 .. Len(bullets'),
                 bullets'[i].id = bullets'[j].id
          PROVE  i = j
      <4>1. CASE i \in 1 .. Len(bullets) /\ j \in 1 .. Len(bullets)
        BY <2>4, <3>3, <4>1 DEF IdsInv
      <4>2. CASE i = Len(bullets) + 1 \/ j = Len(bullets) + 1
        BY <1>0, <2>4, <3>1, <3>3, <4>2 DEF IdsInv
      <4> QED
        BY <3>1, <4>1, <4>2
    <3> QED
      BY <3>2, <3>3 DEF IdsInv
  <2> QED
    BY <2>2, <2>3, <2>4
<1>3. CASE \E id \in todo : Test(id)
  <2>1. PICK id \in todo : Test(id)
    BY <1>3
  <2>2. /\ itr \in 1 .. Len(bullets) /\ bulletIdx' = bulletIdx
        /\ \/ bullets' = bullets
           \/ /\ Len(bullets') = Len(bullets) - 1
              /\ \A i \in 1 .. Len(bullets) - 1 :
                   bullets'[i] = IF i = itr THEN bullets[Len(bullets)] ELSE bullets[i]
    BY <2>1, TestEffect
  <2>3. CASE bullets' = bullets
    BY <2>2, <2>3 DEF IdsInv
  <2> QED
    BY <2>2, <2>3, ErasureKeepsIds DEF LoopInv
<1>4. CASE UNCHANGED shots
  BY <1>4 DEF shots, IdsInv
<1> QED
  BY <1>1, <1>2, <1>3, <1>4, OtherSteps

\* The ids in bullet_state are different and below the next one, always.
THEOREM IdsHold == Spec => []IdsInv
<1>1. Init => IdsInv
  BY DEF Init, IdsInv
<1>2. LoopInv /\ IdsInv /\ [Next]_vars => IdsInv'
  BY IdsInvStep
<1> QED
  BY <1>1, <1>2, LoopsHold, PTL DEF Spec

-----------------------------------------------------------------------------
(* The hits. *)

HitsInv ==
  /\ IsFiniteSet(struck)
  /\ \A h \in struck : /\ h = [bullet |-> h.bullet, victim |-> h.victim]
                       /\ h.bullet \in Nat /\ h.bullet < bulletIdx
                       /\ h.victim \in Nat /\ h.victim < idx
  /\ EveryHitCounted

Wounds(id) == {h \in struck : h.victim = id}

\* What neither fires nor hits: the registry may change, the hits do not.
LEMMA HitsKept ==
  ASSUME LoopInv, HitsInv, RegistryInv', idx' \in {idx, idx + 1},
         struck' = struck, bulletIdx' = bulletIdx, ShotsInv',
         \A i \in 1 .. Len(bullets') : \E j \in 1 .. Len(bullets) : bullets'[i].id = bullets[j].id,
         \A c \in DOMAIN clients' :
           \/ c \in DOMAIN clients /\ clients'[c].health = clients[c].health
           \/ c = idx /\ clients'[c].health = FullHealth
  PROVE  HitsInv'
<1>1. DOMAIN bullets = 1 .. Len(bullets) /\ DOMAIN bullets' = 1 .. Len(bullets')
  BY LenType DEF LoopInv, ShotsInv
<1>2. \A h \in struck, i \in DOMAIN bullets' : h.bullet # bullets'[i].id
  BY <1>1 DEF HitsInv, EveryHitCounted
<1>3. \A c \in DOMAIN clients' : clients'[c].health = FullHealth - Cardinality(Wounds(c))
  <2> TAKE c \in DOMAIN clients'
  <2>1. CASE c \in DOMAIN clients /\ clients'[c].health = clients[c].health
    BY <2>1 DEF HitsInv, EveryHitCounted, Wounds
  <2>2. CASE c = idx /\ clients'[c].health = FullHealth
    <3>1. Wounds(c) = {}
      BY <2>2 DEF HitsInv, Wounds
    <3> QED
      BY <2>2, <3>1, FS_EmptySet, ConstantTypes
  <2> QED
    BY <2>1, <2>2
<1>4. idx \in Nat /\ idx' \in Nat /\ idx <= idx'
  BY DEF LoopInv, RegistryInv
<1>5. EveryHitCounted'
  BY <1>2, <1>3 DEF HitsInv, EveryHitCounted, Wounds
<1> QED
  BY <1>4, <1>5 DEF HitsInv

LEMMA HitsInvStep ==
  ASSUME LoopInv, IdsInv, HitsInv, [Next]_vars
  PROVE  HitsInv'
<1>0. /\ Len(bullets) \in Nat /\ bulletIdx \in Nat /\ idx \in Nat
      /\ RegistryInv' /\ ShotsInv'
  BY LenType, LoopInvStep DEF LoopInv, ShotsInv, RegistryInv
<1>1. CASE ReceivePacket
  <2>1. NewEntry.health = FullHealth
    BY DEF NewEntry
  <2>2. /\ bullets' = bullets /\ bulletIdx' = bulletIdx /\ struck' = struck /\ idx' \in {idx, idx + 1}
        /\ \A c \in DOMAIN clients' :
             \/ c \in DOMAIN clients /\ clients'[c].health = clients[c].health
             \/ c = idx /\ clients'[c].health = FullHealth
    BY <1>1, <2>1, ReceiveEffect DEF shots
  <2> QED
    BY <1>0, <2>2, HitsKept
<1>2. CASE \E id \in todo : MovePlayer(id)
  <2>1. PICK id \in todo : MovePlayer(id)
    BY <1>2
  <2>2. /\ idx' = idx /\ DOMAIN clients' = DOMAIN clients /\ struck' = struck
        /\ \A c \in DOMAIN clients : clients'[c].health = clients[c].health
        /\ \/ bullets' = bullets /\ bulletIdx' = bulletIdx
           \/ /\ Len(bullets') = Len(bullets) + 1 /\ bulletIdx' = bulletIdx + 1
              /\ \A i \in 1 .. Len(bullets) : bullets'[i] = bullets[i]
              /\ bullets'[Len(bullets) + 1].id = bulletIdx
    BY <2>1, MovePlayerEffect DEF MovePlayer
  <2>3. DOMAIN bullets = 1 .. Len(bullets) /\ DOMAIN bullets' = 1 .. Len(bullets')
    BY <1>0, LenType DEF LoopInv, ShotsInv
  <2>4. \A h \in struck, i \in DOMAIN bullets' : h.bullet # bullets'[i].id
    <3> TAKE h \in struck, i \in DOMAIN bullets'
    <3>1. CASE i \in DOMAIN bullets /\ bullets'[i] = bullets[i]
      BY <3>1 DEF HitsInv, EveryHitCounted
    <3>2. CASE bullets'[i].id = bulletIdx
      BY <1>0, <3>2 DEF HitsInv
    <3>3. CASE bullets' = bullets
      BY <3>1, <3>3
    <3>4. CASE /\ Len(bullets') = Len(bullets) + 1 /\ bullets'[Len(bullets) + 1].id = bulletIdx
               /\ \A k \in 1 .. Len(bullets) : bullets'[k] = bullets[k]
      <4>1. i \in 1 .. Len(bullets) \/ i = Len(bullets) + 1
        BY <1>0, <2>3, <3>4
      <4> QED
        BY <2>3, <3>1, <3>2, <3>4, <4>1
    <3> QED
      BY <2>2, <3>3, <3>4
  <2>5. EveryHitCounted'
    BY <2>2, <2>4 DEF HitsInv, EveryHitCounted
  <2>6. bulletIdx' \in Nat /\ bulletIdx <= bulletIdx'
    BY <1>0, <2>2
  <2> QED
    BY <1>0, <2>2, <2>5, <2>6 DEF HitsInv
<1>3. CASE MoveBullet
  <2>1. /\ clients' = clients /\ idx' = idx /\ bulletIdx' = bulletIdx /\ struck' = struck
        /\ itr \in 1 .. Len(bullets)
        /\ \/ /\ Len(bullets') = Len(bullets)
              /\ \A i \in 1 .. Len(bullets) : i # itr => bullets'[i] = bullets[i]
              /\ bullets'[itr].id = bullets[itr].id
           \/ /\ Len(bullets') = Len(bullets) - 1
              /\ \A i \in 1 .. Len(bullets) - 1 :
                   bullets'[i] = IF i = itr THEN bullets[Len(bullets)] ELSE bullets[i]
    BY <1>3, MoveBulletEffect DEF BulletFields, registry, MoveBullet
  <2>2. \A i \in 1 .. Len(bullets') : \E j \in 1 .. Len(bullets) : bullets'[i].id = bullets[j].id
    BY <1>0, <2>1
  <2> QED
    BY <1>0, <2>1, <2>2, HitsKept DEF HitsInv, EveryHitCounted
<1>4. CASE \E id \in todo : Test(id)
  <2>1. PICK id \in todo : Test(id)
    BY <1>4
  <2>2. CASE UNCHANGED <<bullets, itr, clients, struck>>
    BY <2>1, <2>2, TestEffect DEF HitsInv, EveryHitCounted
  <2>3. CASE /\ itr' = itr - 1 /\ Len(bullets') = Len(bullets) - 1
             /\ \A i \in 1 .. Len(bullets) - 1 :
                  bullets'[i] = IF i = itr THEN bullets[Len(bullets)] ELSE bullets[i]
             /\ struck' = struck \cup {[bullet |-> bullets[itr].id, victim |-> id]}
             /\ clients'[id].health = clients[id].health - 1
    <3> DEFINE hit == [bullet |-> bullets[itr].id, victim |-> id]
    <3>a. /\ itr \in 1 .. Len(bullets) /\ idx' = idx /\ bulletIdx' = bulletIdx
          /\ DOMAIN clients' = DOMAIN clients
      BY <2>1, TestEffect
    <3>b. \A c \in DOMAIN clients : c # id => clients'[c].health = clients[c].health
      BY <2>1, TestEffect
    <3>1. /\ itr \in 1 .. Len(bullets) /\ idx' = idx /\ bulletIdx' = bulletIdx
          /\ DOMAIN clients' = DOMAIN clients /\ struck' = struck \cup {hit}
          /\ clients'[id].health = clients[id].health - 1
          /\ \A c \in DOMAIN clients : c # id => clients'[c].health = clients[c].health
          /\ Len(bullets') = Len(bullets) - 1
          /\ \A i \in 1 .. Len(bullets) - 1 :
               bullets'[i] = IF i = itr THEN bullets[Len(bullets)] ELSE bullets[i]
      BY <2>3, <3>a, <3>b
    <3>2. /\ DOMAIN bullets = 1 .. Len(bullets) /\ DOMAIN bullets' = 1 .. Len(bullets')
          /\ id \in DOMAIN clients /\ id \in Nat /\ id < idx
      BY <1>0, LenType DEF LoopInv, ShotsInv, RegistryInv, IteratorInv
    <3>3. \A h \in struck : h.bullet # hit.bullet
      BY <3>1, <3>2 DEF HitsInv, EveryHitCounted
    <3>4. \A i \in DOMAIN bullets' : bullets'[i].id # hit.bullet
                                     /\ \A h \in struck : h.bullet # bullets'[i].id
      <4>1. PICK from \in [1 .. Len(bullets') -> 1 .. Len(bullets)] :
              \A i \in 1 .. Len(bullets') : bullets'[i] = bullets[from[i]] /\ from[i] # itr
        BY <3>1, Erased DEF LoopInv
      <4>2. \A i \in DOMAIN bullets' : /\ from[i] \in DOMAIN bullets /\ from[i] # itr
                                       /\ bullets'[i] = bullets[from[i]]
        BY <3>2, <4>1
      <4> QED
        BY <3>1, <3>2, <4>2 DEF IdsInv, HitsInv, EveryHitCounted
    <3>5. \A c \in DOMAIN clients' :
            clients'[c].health = FullHealth - Cardinality({h \in struck' : h.victim = c})
      <4> TAKE c \in DOMAIN clients'
      <4>1. IsFiniteSet(Wounds(c)) /\ Cardinality(Wounds(c)) \in Nat
        BY FS_Subset, FS_CardinalityType DEF HitsInv, Wounds
      <4>2. clients[c].health = FullHealth - Cardinality(Wounds(c))
        BY <3>1 DEF HitsInv, EveryHitCounted, Wounds
      <4>3. CASE c = id
        <5>1. {h \in struck' : h.victim = c} = Wounds(c) \cup {hit} /\ hit \notin Wounds(c)
          BY <3>1, <3>3, <4>3 DEF Wounds
        <5>2. Cardinality(Wounds(c) \cup {hit}) = Cardinality(Wounds(c)) + 1
          BY <4>1, <5>1, FS_AddElement
        <5>3. clients'[c].health = FullHealth - (Cardinality(Wounds(c)) + 1)
          BY <3>1, <4>1, <4>2, <4>3, ConstantTypes
        <5> QED
          BY <5>1, <5>2, <5>3
      <4>4. CASE c # id
        <5>1. {h \in struck' : h.victim = c} = Wounds(c)
          BY <3>1, <4>4 DEF Wounds
        <5> QED
          BY <3>1, <4>2, <4>4, <5>1
      <4> QED
        BY <4>3, <4>4
    <3>6. \A h, g \in struck' : h.bullet = g.bullet => h = g
      BY <3>1, <3>3 DEF HitsInv, EveryHitCounted
    <3>7. EveryHitCounted'
      BY <3>1, <3>4, <3>5, <3>6 DEF EveryHitCounted
    <3>8. IsFiniteSet(struck')
      BY <3>1, FS_AddElement DEF HitsInv
    <3>9. hit.bullet \in Nat /\ hit.bullet < bulletIdx
      BY <3>1 DEF IdsInv
    <3>10. \A h \in struck' : /\ h = [bullet |-> h.bullet, victim |-> h.victim]
                              /\ h.bullet \in Nat /\ h.bullet < bulletIdx'
                              /\ h.victim \in Nat /\ h.victim < idx'
      BY <3>1, <3>2, <3>9 DEF HitsInv
    <3> QED
      BY <3>7, <3>8, <3>10 DEF HitsInv
  <2> QED
    BY <2>1, <2>2, <2>3, TestEffect
<1>5. CASE UNCHANGED <<shots, struck, registry>>
  BY <1>5 DEF shots, registry, HitsInv, EveryHitCounted
<1>6. CASE /\ ~ReceivePacket /\ ~MoveBullet
           /\ \A id \in todo : ~MovePlayer(id) /\ ~Test(id)
  <2>1. UNCHANGED registry
    BY <1>6 DEF Next, Turn, StartUpdate, StartMoving, StartHitting, StartBullet, NextBullet,
                EndUpdate, Broadcast, TestWild, vars
  <2> QED
    BY <1>5, <1>6, <2>1, OtherSteps
<1> QED
  BY <1>1, <1>2, <1>3, <1>4, <1>6

\* The hits that were counted are of bullets fired at clients that joined.
THEOREM HitsHold == Spec => []HitsInv
<1>1. Init => HitsInv
  BY FS_EmptySet DEF Init, HitsInv, EveryHitCounted
<1>2. LoopInv /\ IdsInv /\ HitsInv /\ [Next]_vars => HitsInv'
  BY HitsInvStep
<1> QED
  BY <1>1, <1>2, LoopsHold, IdsHold, PTL DEF Spec

(***************************************************************************)
(* A bullet hurts at most one player, once, and is gone then; what is left *)
(* of a player's health is what no bullet took: although update erases     *)
(* bullets in the middle of two nested loops (server.cpp:218).             *)
(***************************************************************************)
THEOREM HitsCounted == Spec => []EveryHitCounted
<1>1. HitsInv => EveryHitCounted
  BY DEF HitsInv
<1> QED
  BY <1>1, HitsHold, PTL

-----------------------------------------------------------------------------
(* Every bullet that was fired is somewhere. *)

\* Nor is an id twice in the packet cut from bullet_state.
LEMMA PacketIdsDiffer ==
  ASSUME LoopInv, IdsInv
  PROVE  \A i, j \in DOMAIN BulletState : BulletState[i].id = BulletState[j].id => i = j
<1>1. PICK S : bullets \in Seq(S)
  BY DEF LoopInv, ShotsInv
<1>2. Len(bullets) \in Nat /\ DOMAIN bullets = 1 .. Len(bullets)
  BY <1>1
<1> DEFINE n == Min({MaxBulletsPerPacket, Len(bullets)})
           sent == SubSeq(bullets, 1, n)
<1>3. n \in Nat /\ n <= Len(bullets)
  BY <1>2, ConstantTypes DEF Min
<1> HIDE DEF n
<1>4. \A i \in 1 .. n : bullets[i] \in S
  BY <1>1, <1>2, <1>3
<1>5. sent \in Seq(S) /\ Len(sent) = n /\ \A i \in 1 .. n : sent[i] = bullets[i]
  BY <1>1, <1>3, <1>4, SubSeqProperties
<1>6. DOMAIN sent = 1 .. n
  BY <1>3, <1>5
<1>7. BulletState = [i \in DOMAIN sent |-> [sender |-> sent[i].sender, id |-> sent[i].id,
                                            pos |-> sent[i].rect.x]]
  BY DEF BulletState, n
<1> HIDE DEF sent
<1>8. DOMAIN BulletState = 1 .. n /\ \A i \in 1 .. n : BulletState[i].id = bullets[i].id
  BY <1>5, <1>6, <1>7
<1> QED
  BY <1>2, <1>3, <1>8 DEF IdsInv

\* Where the bullets are that were fired.
AccountInv ==
  /\ \A n \in Nat : n < bulletIdx => Flying(n) \/ HasHurt(n) \/ n \in stopped
  /\ \A n \in stopped : n \in Nat /\ n < bulletIdx /\ ~Flying(n) /\ ~HasHurt(n)

\* An erasure takes one bullet out of the air and leaves the others there.
LEMMA OneFlightEnds ==
  ASSUME ShotsInv, ShotsInv', IdsInv,
         NEW k \in 1 .. Len(bullets), Len(bullets') = Len(bullets) - 1,
         \A i \in 1 .. Len(bullets) - 1 :
           bullets'[i] = IF i = k THEN bullets[Len(bullets)] ELSE bullets[i]
  PROVE  \A n : Flying(n)' <=> Flying(n) /\ n # bullets[k].id
<1>0. /\ DOMAIN bullets = 1 .. Len(bullets) /\ DOMAIN bullets' = 1 .. Len(bullets')
      /\ Len(bullets) \in Nat
  BY LenType
<1>1. ASSUME NEW n, Flying(n)'
      PROVE  Flying(n) /\ n # bullets[k].id
  <2>1. PICK i \in 1 .. Len(bullets) - 1 : bullets'[i].id = n
    BY <1>0, <1>1 DEF Flying
  <2>2. PICK j \in 1 .. Len(bullets) : bullets'[i] = bullets[j] /\ j # k
    <3>1. CASE i = k
      <4>1. Len(bullets) \in 1 .. Len(bullets) /\ Len(bullets) # k
        BY <1>0, <3>1
      <4> QED
        BY <3>1, <4>1
    <3>2. CASE i # k
      <4>1. i \in 1 .. Len(bullets)
        BY <1>0
      <4> QED
        BY <3>2, <4>1
    <3> QED
      BY <3>1, <3>2
  <2> QED
    BY <1>0, <2>1, <2>2 DEF Flying, IdsInv
<1>2. ASSUME NEW n, Flying(n), n # bullets[k].id
      PROVE  Flying(n)'
  <2>1. PICK j \in 1 .. Len(bullets) : bullets[j].id = n
    BY <1>0, <1>2 DEF Flying
  <2>2. j # k
    BY <1>2, <2>1
  <2>3. \E i \in 1 .. Len(bullets) - 1 : bullets'[i] = bullets[j]
    <3>1. CASE j = Len(bullets)
      <4>1. k \in 1 .. Len(bullets) - 1
        BY <1>0, <2>2, <3>1
      <4> QED
        BY <3>1, <4>1
    <3>2. CASE j # Len(bullets)
      <4>1. j \in 1 .. Len(bullets) - 1
        BY <1>0, <3>2
      <4> QED
        BY <2>2, <4>1
    <3> QED
      BY <3>1, <3>2
  <2> QED
    BY <1>0, <2>1, <2>3 DEF Flying
<1> QED
  BY <1>1, <1>2

LEMMA AccountInvStep ==
  ASSUME LoopInv, LoopInv', IdsInv, HitsInv, AccountInv, [Next]_vars
  PROVE  AccountInv'
<1>0. /\ DOMAIN bullets = 1 .. Len(bullets) /\ DOMAIN bullets' = 1 .. Len(bullets')
      /\ Len(bullets) \in Nat /\ bulletIdx \in Nat
  BY LenType DEF LoopInv, ShotsInv
<1>1. CASE MoveBullet
  <2>1. itr \in 1 .. Len(bullets) /\ bulletIdx' = bulletIdx /\ struck' = struck
    BY <1>1, MoveBulletEffect DEF MoveBullet
  <2>2. CASE /\ Len(bullets') = Len(bullets) /\ stopped' = stopped
             /\ \A i \in 1 .. Len(bullets) : i # itr => bullets'[i] = bullets[i]
             /\ bullets'[itr].id = bullets[itr].id
    <3>1. \A i \in 1 .. Len(bullets) : bullets'[i].id = bullets[i].id
      BY <2>2
    <3>2. \A n : Flying(n)' <=> Flying(n)
      BY <1>0, <2>2, <3>1 DEF Flying
    <3>3. \A n : HasHurt(n)' <=> HasHurt(n)
      BY <2>1 DEF HasHurt
    <3> QED
      BY <2>1, <2>2, <3>2, <3>3 DEF AccountInv
  <2>3. CASE /\ Len(bullets') = Len(bullets) - 1 /\ stopped' = stopped \cup {bullets[itr].id}
             /\ \A i \in 1 .. Len(bullets) - 1 :
                  bullets'[i] = IF i = itr THEN bullets[Len(bullets)] ELSE bullets[i]
    <3>1. \A n : Flying(n)' <=> Flying(n) /\ n # bullets[itr].id
      BY <2>1, <2>3, OneFlightEnds DEF LoopInv
    <3>2. \A n : HasHurt(n)' <=> HasHurt(n)
      BY <2>1 DEF HasHurt
    <3>3. bullets[itr].id \in Nat /\ bullets[itr].id < bulletIdx /\ ~HasHurt(bullets[itr].id)
      BY <1>0, <2>1 DEF IdsInv, HitsInv, EveryHitCounted, HasHurt
    <3> QED
      BY <2>1, <2>3, <3>1, <3>2, <3>3 DEF AccountInv
  <2> QED
    BY <1>1, <2>2, <2>3, MoveBulletEffect DEF BulletFields
<1>2. CASE \E id \in todo : MovePlayer(id)
  <2>1. PICK id \in todo : MovePlayer(id)
    BY <1>2
  <2>2. struck' = struck /\ stopped' = stopped
    BY <2>1 DEF MovePlayer
  <2>3. \A n : HasHurt(n)' <=> HasHurt(n)
    BY <2>2 DEF HasHurt
  <2>4. CASE bullets' = bullets /\ bulletIdx' = bulletIdx
    BY <2>2, <2>3, <2>4 DEF AccountInv, Flying
  <2>5. CASE /\ Len(bullets') = Len(bullets) + 1 /\ bulletIdx' = bulletIdx + 1
             /\ \A i \in 1 .. Len(bullets) : bullets'[i] = bullets[i]
             /\ bullets'[Len(bullets) + 1].id = bulletIdx
    <3>1. \A i \in 1 .. Len(bullets') : i \in 1 .. Len(bullets) \/ i = Len(bullets) + 1
      BY <1>0, <2>5
    <3>2. \A i \in 1 .. Len(bullets) : i \in 1 .. Len(bullets')
      BY <1>0, <2>5
    <3>3. Len(bullets) + 1 \in 1 .. Len(bullets')
      BY <1>0, <2>5
    <3>4. \A n : Flying(n)' <=> Flying(n) \/ n = bulletIdx
      BY <1>0, <2>5, <3>1, <3>2, <3>3 DEF Flying
    <3>5. /\ \A n \in Nat : n < bulletIdx + 1 => n < bulletIdx \/ n = bulletIdx
          /\ \A n \in Nat : n < bulletIdx => n < bulletIdx + 1 /\ n # bulletIdx
      BY <1>0
    <3> QED
      BY <2>2, <2>3, <2>5, <3>4, <3>5 DEF AccountInv
  <2> QED
    BY <2>1, <2>4, <2>5, MovePlayerEffect
<1>3. CASE \E id \in todo : Test(id)
  <2>1. PICK id \in todo : Test(id)
    BY <1>3
  <2>2. itr \in 1 .. Len(bullets) /\ bulletIdx' = bulletIdx /\ stopped' = stopped
    BY <2>1, TestEffect DEF Test
  <2>3. CASE bullets' = bullets /\ struck' = struck
    BY <2>2, <2>3 DEF AccountInv, Flying, HasHurt
  <2>4. CASE /\ Len(bullets') = Len(bullets) - 1
             /\ \A i \in 1 .. Len(bullets) - 1 :
                  bullets'[i] = IF i = itr THEN bullets[Len(bullets)] ELSE bullets[i]
             /\ struck' = struck \cup {[bullet |-> bullets[itr].id, victim |-> id]}
    <3>1. \A n : Flying(n)' <=> Flying(n) /\ n # bullets[itr].id
      BY <2>2, <2>4, OneFlightEnds DEF LoopInv
    <3>2. \A n : HasHurt(n)' <=> HasHurt(n) \/ n = bullets[itr].id
      <4> DEFINE hit == [bullet |-> bullets[itr].id, victim |-> id]
      <4>1. struck' = struck \cup {hit} /\ hit.bullet = bullets[itr].id
        BY <2>4
      <4> HIDE DEF hit
      <4> QED
        BY <4>1 DEF HasHurt
    <3>3. Flying(bullets[itr].id)
      BY <1>0, <2>2 DEF Flying
    <3> QED
      BY <2>2, <3>1, <3>2, <3>3 DEF AccountInv
  <2> QED
    BY <2>1, <2>3, <2>4, TestEffect
<1>4. CASE UNCHANGED <<shots, struck, stopped>>
  BY <1>4 DEF shots, AccountInv, Flying, HasHurt
<1> QED
  BY <1>1, <1>2, <1>3, <1>4, OtherSteps

\* Between the erasures of both loops no bullet is missing, and none is twice.
THEOREM AccountHolds == Spec => []AccountInv
<1>1. Init => AccountInv
  BY DEF Init, AccountInv
<1>2. LoopInv /\ LoopInv' /\ IdsInv /\ HitsInv /\ AccountInv /\ [Next]_vars => AccountInv'
  BY AccountInvStep
<1> QED
  BY <1>1, <1>2, LoopsHold, IdsHold, HitsHold, PTL DEF Spec

(***************************************************************************)
(* Erasing from the vector that is iterated over neither loses a bullet    *)
(* nor leaves it twice, in both loops of update: all that were ever fired  *)
(* are flying, have hit a player or have ended at a wall.                  *)
(***************************************************************************)
THEOREM NoBulletIsLost == Spec => []NoBulletLost
<1>1. LoopInv /\ IdsInv /\ AccountInv => NoBulletLost
  <2> SUFFICES ASSUME LoopInv, IdsInv, AccountInv
               PROVE  NoBulletLost
    OBVIOUS
  <2>1. DOMAIN bullets = 1 .. Len(bullets) /\ bulletIdx \in Nat
    BY LenType DEF LoopInv, ShotsInv
  <2>2. \A n \in 0 .. bulletIdx - 1 : n \in Nat /\ n < bulletIdx
    BY <2>1
  <2>3. \A i, j \in DOMAIN bullets : bullets[i].id = bullets[j].id => i = j
    BY <2>1 DEF IdsInv
  <2> QED
    BY <2>2, <2>3, PacketIdsDiffer DEF AccountInv, NoBulletLost
<1> QED
  BY <1>1, LoopsHold, IdsHold, AccountHolds, PTL

(***************************************************************************)
(* What the two hit loops have got through: the places in front of the     *)
(* iterator hit nobody, and the bullet at it none of the clients the inner *)
(* loop has passed.  When a hit steps the iterator back, in the middle of  *)
(* the inner loop, the bullet it comes to is one of those in front.        *)
(***************************************************************************)
ResolvedInv ==
  /\ phase \in {"hitting", "testing"} =>
       \A i \in 1 .. Len(bullets), c \in DOMAIN clients : i < itr => ~Hits(bullets[i], clients[c])
  /\ phase = "testing" /\ itr \in 1 .. Len(bullets) =>
       \A c \in DOMAIN clients \ todo : ~Hits(bullets[itr], clients[c])

LEMMA ResolvedInvStep ==
  ASSUME LoopInv, ResolvedInv, [Next]_vars
  PROVE  ResolvedInv'
<1>0. Len(bullets) \in Nat /\ itr \in Int
  BY LenType DEF LoopInv, IteratorInv
<1>1. CASE phase' \notin {"hitting", "testing"}
  BY <1>1 DEF ResolvedInv
<1>2. CASE StartHitting
  BY <1>0, <1>2 DEF StartHitting, ResolvedInv, shots, registry
<1>3. CASE StartBullet
  <2>1. /\ phase = "hitting" /\ phase' = "testing" /\ todo' = DOMAIN clients
        /\ UNCHANGED <<bullets, clients, itr>>
    BY <1>3 DEF StartBullet, shots, registry
  <2> QED
    BY <2>1 DEF ResolvedInv
<1>4. CASE NextBullet
  <2>1. /\ phase = "testing" /\ todo = {} /\ itr' = itr + 1 /\ phase' = "hitting"
        /\ UNCHANGED <<bullets, clients>>
    BY <1>4 DEF NextBullet, shots, registry
  <2>2. ASSUME NEW i \in 1 .. Len(bullets), NEW c \in DOMAIN clients, i < itr + 1
        PROVE  ~Hits(bullets[i], clients[c])
    <3>1. CASE i < itr
      BY <2>1, <3>1 DEF ResolvedInv
    <3>2. CASE i = itr
      BY <2>1, <3>2 DEF ResolvedInv
    <3> QED
      BY <1>0, <2>2, <3>1, <3>2
  <2> QED
    BY <2>1, <2>2 DEF ResolvedInv
<1>5. CASE \E id \in todo : Test(id)
  <2>1. PICK id \in todo : Test(id)
    BY <1>5
  <2>2. /\ phase = "testing" /\ phase' = phase /\ todo' = todo \ {id} /\ itr \in 1 .. Len(bullets)
        /\ DOMAIN clients' = DOMAIN clients
        /\ \A c \in DOMAIN clients : /\ clients'[c].rect = clients[c].rect
                                     /\ clients'[c].playerId = clients[c].playerId
                                     /\ clients'[c].input = clients[c].input
    BY <2>1, TestEffect
  <2>3. \A b, c : c \in DOMAIN clients => (Hits(b, clients'[c]) <=> Hits(b, clients[c]))
    BY <2>2 DEF Hits
  <2>4. CASE ~Hits(bullets[itr], clients[id]) /\ UNCHANGED <<bullets, itr, clients, struck>>
    BY <2>2, <2>4 DEF ResolvedInv
  <2>5. CASE /\ itr' = itr - 1 /\ Len(bullets') = Len(bullets) - 1
             /\ \A i \in 1 .. Len(bullets) - 1 :
                  bullets'[i] = IF i = itr THEN bullets[Len(bullets)] ELSE bullets[i]
    <3>1. \A i \in 1 .. Len(bullets') : i < itr => i \in 1 .. Len(bullets) /\ bullets'[i] = bullets[i]
      BY <1>0, <2>2, <2>5
    <3>2. \A i \in 1 .. Len(bullets'), c \in DOMAIN clients' : i < itr => ~Hits(bullets'[i], clients'[c])
      BY <2>2, <2>3, <3>1 DEF ResolvedInv
    <3>3. itr' < itr /\ \A i \in 1 .. Len(bullets') : i < itr' => i < itr
      BY <1>0, <2>5
    <3> QED
      BY <2>2, <3>2, <3>3 DEF ResolvedInv
  <2> QED
    BY <2>1, <2>4, <2>5, TestEffect
<1>6. CASE \E id \in todo : TestWild(id)
  <2>1. /\ phase = "testing" /\ itr \notin 1 .. Len(bullets)
        /\ UNCHANGED <<bullets, clients, itr>>
    BY <1>6, LenType DEF LoopInv, TestWild, shots, registry
  <2> QED
    BY <2>1 DEF ResolvedInv
<1>7. CASE UNCHANGED vars
  BY <1>7 DEF vars, shots, registry, ResolvedInv
<1>8. CASE ReceivePacket \/ StartUpdate \/ StartMoving \/ MoveBullet \/ EndUpdate \/ Broadcast
           \/ \E id \in todo : MovePlayer(id)
  BY <1>1, <1>8 DEF ReceivePacket, StartUpdate, StartMoving, MoveBullet, EndUpdate, Broadcast, MovePlayer
<1> QED
  BY <1>2, <1>3, <1>4, <1>5, <1>6, <1>7, <1>8 DEF Next, Turn

(***************************************************************************)
(* At the end of the hit loops no bullet is left that hits a player: an    *)
(* erasure hides none from them (server.cpp:237).                          *)
(***************************************************************************)
THEOREM HitsStayResolved == Spec => []HitsAreResolved
<1>1. Init => ResolvedInv
  BY DEF Init, ResolvedInv
<1>2. LoopInv /\ ResolvedInv /\ [Next]_vars => ResolvedInv'
  BY ResolvedInvStep
<1>3. LoopInv /\ ResolvedInv => HitsAreResolved
  BY LenType DEF LoopInv, ResolvedInv, HitsAreResolved
<1> QED
  BY <1>1, <1>2, <1>3, LoopsHold, PTL DEF Spec

-----------------------------------------------------------------------------
(* Every turn ends. *)

LEMMA BeforeInOrder ==
  ASSUME NEW a1 \in Int, NEW a2 \in Int, NEW a3 \in Int, NEW a4 \in Int,
         NEW b1 \in Int, NEW b2 \in Int, NEW b3 \in Int, NEW b4 \in Int,
         \/ a1 < b1
         \/ a1 = b1 /\ a2 < b2
         \/ a1 = b1 /\ a2 = b2 /\ a3 < b3
         \/ a1 = b1 /\ a2 = b2 /\ a3 = b3 /\ a4 < b4
  PROVE  Before(<<a1, a2, a3, a4>>, <<b1, b2, b3, b4>>)
<1> DEFINE a == <<a1, a2, a3, a4>>
           b == <<b1, b2, b3, b4>>
<1>1. DOMAIN a = 1 .. 4
  OBVIOUS
<1>2. /\ a[1] = a1 /\ a[2] = a2 /\ a[3] = a3 /\ a[4] = a4
      /\ b[1] = b1 /\ b[2] = b2 /\ b[3] = b3 /\ b[4] = b4
  OBVIOUS
<1> HIDE DEF a, b
<1>3. CASE a1 < b1
  <2>1. a[1] < b[1] /\ \A j \in 1 .. 1 - 1 : a[j] = b[j]
    BY <1>2, <1>3
  <2> QED
    BY <1>1, <2>1 DEF Before
<1>4. CASE a1 = b1 /\ a2 < b2
  <2>1. a[2] < b[2] /\ \A j \in 1 .. 2 - 1 : a[j] = b[j]
    BY <1>2, <1>4
  <2> QED
    BY <1>1, <2>1 DEF Before
<1>5. CASE a1 = b1 /\ a2 = b2 /\ a3 < b3
  <2>1. a[3] < b[3] /\ \A j \in 1 .. 3 - 1 : a[j] = b[j]
    BY <1>2, <1>5
  <2> QED
    BY <1>1, <2>1 DEF Before
<1>6. CASE a1 = b1 /\ a2 = b2 /\ a3 = b3 /\ a4 < b4
  <2>1. a[4] < b[4] /\ \A j \in 1 .. 4 - 1 : a[j] = b[j]
    BY <1>2, <1>6
  <2> QED
    BY <1>1, <2>1 DEF Before
<1> QED
  BY <1>3, <1>4, <1>5, <1>6

ClientsToGo == IF phase \in {"players", "testing"} THEN Cardinality(todo) ELSE 0
BulletsOrNone == IF phase \in {"moving", "hitting", "testing"} THEN BulletsToGo ELSE 0

ToGoInv ==
  /\ ToGo = <<accumulate, Stage, BulletsOrNone, ClientsToGo>>
  /\ accumulate \in Int /\ Stage \in Int /\ BulletsOrNone \in Int /\ ClientsToGo \in Int
  /\ IsFiniteSet(todo)

LEMMA ToGoType ==
  ASSUME LoopInv, ClockInv
  PROVE  ToGoInv
<1>1. ToGo = <<accumulate, Stage, BulletsOrNone, ClientsToGo>>
  BY DEF ToGo, BulletsOrNone, ClientsToGo
<1>2. accumulate \in Int
  BY DEF ClockInv
<1>3. Stage \in Int
  BY DEF Stage
<1>4. BulletsOrNone \in Int
  BY LenType DEF LoopInv, IteratorInv, BulletsOrNone, BulletsToGo
<1>5. IsFiniteSet(0 .. idx - 1)
  BY FS_Interval DEF LoopInv, RegistryInv
<1>6. todo \subseteq 0 .. idx - 1
  BY DEF LoopInv, RegistryInv, IteratorInv
<1>7. IsFiniteSet(todo)
  BY <1>5, <1>6, FS_Subset
<1>8. ClientsToGo \in Int
  BY <1>7, FS_CardinalityType DEF ClientsToGo
<1> QED
  BY <1>1, <1>2, <1>3, <1>4, <1>7, <1>8 DEF ToGoInv

\* A step of a loop over the registry leaves one client fewer to go.
LEMMA OneClientFewer ==
  ASSUME ToGoInv, NEW id \in todo, todo' = todo \ {id}, phase' = phase,
         phase \in {"players", "testing"}
  PROVE  ClientsToGo' < ClientsToGo
<1>1. IsFiniteSet(todo)
  BY DEF ToGoInv
<1>2. Cardinality(todo \ {id}) = Cardinality(todo) - 1 /\ Cardinality(todo) \in Nat
  BY <1>1, FS_RemoveElement, FS_CardinalityType
<1> QED
  BY <1>2 DEF ClientsToGo

LEMMA StepLowersToGo ==
  ASSUME LoopInv, ToGoInv, ToGoInv', Turn
  PROVE  phase # "waiting" /\ Before(ToGo', ToGo)
<1>1. /\ ToGo = <<accumulate, Stage, BulletsOrNone, ClientsToGo>>
      /\ accumulate \in Int /\ Stage \in Int /\ BulletsOrNone \in Int /\ ClientsToGo \in Int
  BY DEF ToGoInv
<1>2. /\ ToGo' = <<accumulate', Stage', BulletsOrNone', ClientsToGo'>>
      /\ accumulate' \in Int /\ Stage' \in Int /\ BulletsOrNone' \in Int /\ ClientsToGo' \in Int
  BY DEF ToGoInv
<1>3. Len(bullets) \in Nat /\ itr \in Int
  BY LenType DEF LoopInv, IteratorInv
<1> SUFFICES /\ phase # "waiting"
             /\ \/ accumulate' < accumulate
                \/ accumulate' = accumulate /\ Stage' < Stage
                \/ accumulate' = accumulate /\ Stage' = Stage /\ BulletsOrNone' < BulletsOrNone
                \/ /\ accumulate' = accumulate /\ Stage' = Stage
                   /\ BulletsOrNone' = BulletsOrNone /\ ClientsToGo' < ClientsToGo
  <2> HIDE DEF ToGo
  <2> QED
    BY <1>1, <1>2, BeforeInOrder
<1>4. CASE StartUpdate \/ StartMoving \/ StartHitting \/ Broadcast
  <2>1. accumulate' = accumulate
    BY <1>4 DEF StartUpdate, StartMoving, StartHitting, Broadcast, clock
  <2>2. phase # "waiting" /\ Stage' < Stage
    BY <1>4 DEF StartUpdate, StartMoving, StartHitting, Broadcast, Broadcasting, Stage
  <2> QED
    BY <2>1, <2>2
<1>5. CASE \E id \in todo : MovePlayer(id)
  <2>1. PICK id \in todo : MovePlayer(id)
    BY <1>5
  <2>2. phase = "players" /\ phase' = phase /\ todo' = todo \ {id}
    BY <2>1, MovePlayerEffect
  <2>3. accumulate' = accumulate
    BY <2>1 DEF MovePlayer, clock
  <2>4. Stage' = Stage /\ BulletsOrNone' = BulletsOrNone /\ ClientsToGo' < ClientsToGo
    BY <2>2, OneClientFewer DEF Stage, BulletsOrNone
  <2> QED
    BY <2>2, <2>3, <2>4
<1>6. CASE MoveBullet
  <2>1. /\ phase = "moving" /\ phase' = phase
        /\ \/ itr' = itr + 1 /\ Len(bullets') = Len(bullets)
           \/ itr' = itr /\ Len(bullets') = Len(bullets) - 1
    BY <1>6, MoveBulletEffect
  <2>2. accumulate' = accumulate
    BY <1>6 DEF MoveBullet, clock
  <2>3. Stage' = Stage /\ BulletsOrNone' < BulletsOrNone
    BY <1>3, <2>1 DEF Stage, BulletsOrNone, BulletsToGo
  <2> QED
    BY <2>1, <2>2, <2>3
<1>7. CASE StartBullet \/ NextBullet
  <2>1. accumulate' = accumulate /\ phase # "waiting" /\ bullets' = bullets
    BY <1>7 DEF StartBullet, NextBullet, clock, shots
  <2>2. Stage' = Stage /\ BulletsOrNone' < BulletsOrNone
    BY <1>3, <1>7, <2>1 DEF StartBullet, NextBullet, Stage, BulletsOrNone, BulletsToGo
  <2> QED
    BY <2>1, <2>2
<1>8. CASE \E id \in todo : Test(id)
  <2>1. PICK id \in todo : Test(id)
    BY <1>8
  <2>2. /\ phase = "testing" /\ phase' = phase /\ todo' = todo \ {id}
        /\ \/ Len(bullets') = Len(bullets) /\ itr' = itr
           \/ itr' = itr - 1 /\ Len(bullets') = Len(bullets) - 1
    BY <2>1, TestEffect
  <2>3. accumulate' = accumulate
    BY <2>1 DEF Test, clock
  <2>4. Stage' = Stage /\ BulletsOrNone' = BulletsOrNone
    BY <1>3, <2>2 DEF Stage, BulletsOrNone, BulletsToGo
  <2>5. ClientsToGo' < ClientsToGo
    BY <2>2, OneClientFewer
  <2> QED
    BY <2>2, <2>3, <2>4, <2>5
<1>9. CASE \E id \in todo : TestWild(id)
  <2>1. PICK id \in todo : TestWild(id)
    BY <1>9
  <2>2. /\ phase = "testing" /\ phase' \in {"testing", "crashed"} /\ todo' = todo \ {id}
        /\ accumulate' = accumulate /\ bullets' = bullets /\ itr' = itr
    BY <2>1 DEF TestWild, clock, shots
  <2>3. CASE phase' = "crashed"
    <3>1. Stage' < Stage
      BY <2>2, <2>3 DEF Stage
    <3> QED
      BY <2>2, <3>1
  <2>4. CASE phase' = phase
    <3>1. Stage' = Stage /\ BulletsOrNone' = BulletsOrNone
      BY <2>2, <2>4 DEF Stage, BulletsOrNone, BulletsToGo
    <3>2. ClientsToGo' < ClientsToGo
      BY <2>2, <2>4, OneClientFewer
    <3> QED
      BY <2>2, <3>1, <3>2
  <2> QED
    BY <2>2, <2>3, <2>4
<1>10. CASE EndUpdate
  <2>1. phase # "waiting" /\ accumulate' = accumulate - TickInterval
    BY <1>10 DEF EndUpdate, TickTaken
  <2> QED
    BY <1>1, <2>1, ConstantTypes
<1> QED
  BY <1>4, <1>5, <1>6, <1>7, <1>8, <1>9, <1>10 DEF Turn

(***************************************************************************)
(* Every turn ends: until the server waits again each step of update and   *)
(* serve leaves fewer ticks, loops, bullets or clients to go, although a   *)
(* hit steps the iterator back and shooting makes bullets.                 *)
(***************************************************************************)
THEOREM EveryTurnEnds == Spec => TurnsEnd
<1>1. LoopInv /\ ClockInv /\ ToGoInv /\ ToGoInv' /\ [Next]_vars
        => [phase # "waiting" => accumulate >= 0 /\ Before(ToGo', ToGo)]_vars
  <2> SUFFICES ASSUME LoopInv, ClockInv, ToGoInv, ToGoInv', Next, phase # "waiting"
               PROVE  accumulate >= 0 /\ Before(ToGo', ToGo)
    OBVIOUS
  <2>1. ~ReceivePacket
    BY DEF ReceivePacket
  <2>2. accumulate >= 0
    BY DEF ClockInv
  <2> QED
    BY <2>1, <2>2, StepLowersToGo DEF Next
<1>2. LoopInv /\ ClockInv => ToGoInv
  BY ToGoType
<1> QED
  BY <1>1, <1>2, LoopsHold, ClockHolds, PTL DEF Spec, TurnsEnd

-----------------------------------------------------------------------------
(* What the entries and the bullets are. *)

LEMMA PlaceTypes ==
  /\ WholeMap(map) /\ Spawn \in Rects /\ BulletSize \in Nat \ {0}
  /\ \A v \in Velocities \cup {0} : v \in Int
  /\ 0 \in Velocities \cup {0} /\ 0 \in Aims \cup {0}
  /\ \A a \in Aims \cup {0} : a \in Int
  /\ Boot > TickInterval /\ FullHealth \in Int /\ NoId \in Int /\ NoId < 0
<1>1. Spawn \in Rects
  BY WorldAssumption DEF Rects, Rect
<1> QED
  BY <1>1, WorldAssumption DEF map, NoId

LEMMA NarrowTypes == \A n \in Int : Narrow(n) \in Int
<1>1. 2 * IdHalf \in Nat \ {0} /\ IdHalf \in Int
  BY WorldAssumption
<1>2. \A n, h \in Int, w \in Nat \ {0} : ((n + h) % w) - h \in Int
  OBVIOUS
<1> QED
  BY <1>1, <1>2 DEF Narrow

\* An entry is as it was made until its player sends its first input, which
\* gives it its id in as many bits as it has room for.
Known(c, e) ==
  /\ e \in Entry
  /\ e = NewEntry \/ e.playerId = Narrow(c)

LEMMA NewIsKnown == \A c : Known(c, NewEntry)
<1>1. Idle \in [dx : Velocities \cup {0}, mouseDown : BOOLEAN, aim : Aims \cup {0}, timestamp : Int]
  BY PlaceTypes DEF Idle
<1>2. Spawn \in [x : Int, y : Int, w : {Spawn.w}, h : {Spawn.h}]
  BY PlaceTypes DEF Rects
<1> QED
  BY <1>1, <1>2, PlaceTypes DEF Known, Entry, NewEntry

LEMMA PlayerUpdateTypes ==
  ASSUME NEW r \in Placed(Spawn), NEW d \in Int
  PROVE  PlayerUpdate(map, r, d, 0) \in Placed(Spawn)
<1>1. r \in Rects /\ Placed(r) = Placed(Spawn)
  BY PlaceTypes, DisplacedTypes DEF Placed
<1> DEFINE s == AxisMove(map, r, d, 0)
<1>2. s \in Placed(Spawn)
  BY <1>1, PlaceTypes, AxisMoveTypes
<1> HIDE DEF s
<1>3. s \in Rects /\ Placed(s) = Placed(Spawn)
  BY <1>2, PlaceTypes, DisplacedTypes DEF Placed
<1>4. AxisMove(map, s, 0, 0) \in Placed(Spawn)
  BY <1>3, PlaceTypes, AxisMoveTypes
<1> QED
  BY <1>4 DEF PlayerUpdate, s

\* Nobody moves without having asked to.
LEMMA KnownMoves ==
  ASSUME NEW c, NEW e, Known(c, e)
  PROVE  /\ PlayerUpdate(map, e.rect, e.input.dx, 0) \in Placed(Spawn)
         /\ Known(c, [e EXCEPT !.rect = PlayerUpdate(map, e.rect, e.input.dx, 0)])
<1> DEFINE rect == PlayerUpdate(map, e.rect, e.input.dx, 0)
           moved == [e EXCEPT !.rect = rect]
<1>1. e \in Entry /\ e.input.dx \in Velocities \cup {0} /\ e.rect \in Placed(Spawn)
  BY DEF Known, Entry, Placed
<1>2. rect \in Placed(Spawn)
  BY <1>1, PlaceTypes, PlayerUpdateTypes
<1>3. CASE e = NewEntry
  <2>2. e.rect = Spawn /\ e.input.dx = 0
    BY <1>3 DEF NewEntry, Idle
  <2>3. rect = Spawn
    BY <2>2, PlaceTypes, AxisMoveStill DEF PlayerUpdate
  <2> HIDE DEF rect
  <2>4. moved = NewEntry
    BY <1>3, <2>3 DEF NewEntry
  <2> HIDE DEF moved
  <2> QED
    BY <1>2, <2>4, NewIsKnown DEF rect, moved
<1>4. CASE e.playerId = Narrow(c)
  <2> HIDE DEF rect
  <2>1. moved \in Entry /\ moved.playerId = e.playerId
    BY <1>1, <1>2 DEF Entry, Placed
  <2> HIDE DEF moved
  <2>2. Known(c, moved)
    BY <1>4, <2>1 DEF Known
  <2> QED
    BY <1>2, <2>2 DEF rect, moved
<1> QED
  BY <1>3, <1>4 DEF Known

BulletType ==
  [id : Nat, sender : Int, rect : [x : Int, y : Int, w : {BulletSize}, h : {BulletSize}],
   dx : {-BulletStep, 0, BulletStep}, timestamp : Int, born : Nat, start : Int]

\* A bullet t ticks after the boot, which has moved n times in the next one.
Flies(b, t, n) ==
  /\ b \in BulletType
  /\ b.born <= t /\ Boot <= b.timestamp
  /\ b.rect.x = b.start + b.dx * (t - b.born + n)

LEMMA StepTypes == \A d \in {-BulletStep, 0, BulletStep} : d \in Int
BY ConstantTypes

LEMMA FiredFlies ==
  ASSUME NEW rect \in Placed(Spawn), NEW sender \in Int, NEW to \in Int,
         now \in Int, Boot <= now, bulletIdx \in Nat, ticks \in Nat
  PROVE  Flies(Bullet(bulletIdx, sender,
                      Rect(rect.x + rect.w \div 2, rect.y + rect.h \div 2, BulletSize, BulletSize),
                      BulletStep * Direction(rect.x, to)), ticks, 0)
<1> DEFINE x == rect.x + rect.w \div 2
           y == rect.y + rect.h \div 2
           dx == BulletStep * Direction(rect.x, to)
           b == Bullet(bulletIdx, sender, Rect(x, y, BulletSize, BulletSize), dx)
<1>1. x \in Int /\ y \in Int
  <2>1. rect.x \in Int /\ rect.y \in Int /\ rect.w \in Int /\ rect.h \in Int
    BY PlaceTypes DEF Placed, Rects
  <2>2. rect.w \div 2 \in Int /\ rect.h \div 2 \in Int
    BY <2>1
  <2> QED
    BY <2>1, <2>2
<1>2. dx \in {-BulletStep, 0, BulletStep}
  <2>1. BulletStep * 1 = BulletStep /\ BulletStep * (-1) = -BulletStep /\ BulletStep * 0 = 0
    BY ConstantTypes
  <2>2. Direction(rect.x, to) \in {1, -1, 0}
    BY DEF Direction
  <2> QED
    BY <2>1, <2>2
<1> HIDE DEF x, y, dx
<1>3. b = [id |-> bulletIdx, sender |-> sender, rect |-> Rect(x, y, BulletSize, BulletSize), dx |-> dx,
           timestamp |-> now, born |-> ticks, start |-> x]
  BY DEF Bullet, Rect
<1>4. b \in BulletType
  BY <1>1, <1>2, <1>3 DEF BulletType, Rect
<1>5. b.rect.x = x /\ b.start = x /\ b.born = ticks /\ b.dx = dx
      /\ b.timestamp = now /\ b.sender = sender
  BY <1>3 DEF Rect
<1>6. x = x + dx * (ticks - ticks + 0)
  <2>1. ticks - ticks + 0 = 0 /\ dx * 0 = 0
    BY <1>2, StepTypes
  <2> QED
    BY <1>1, <2>1
<1> HIDE DEF b
<1>7. Flies(b, ticks, 0)
  BY <1>4, <1>5, <1>6 DEF Flies
<1> QED
  BY <1>7 DEF b, x, y, dx

LEMMA OneMore ==
  ASSUME NEW d \in Int, NEW n \in Int
  PROVE  d * (n + 1) = d * n + d
OBVIOUS

LEMMA MovedFlies ==
  ASSUME NEW b, NEW t \in Nat, Flies(b, t, 0), now \in Int, Boot <= now
  PROVE  Flies([b EXCEPT !.rect = BulletMoved(b.rect, b.dx, 0), !.timestamp = now], t, 1)
<1> DEFINE rect == BulletMoved(b.rect, b.dx, 0)
           moved == [b EXCEPT !.rect = rect, !.timestamp = now]
<1>1. /\ b \in BulletType /\ b.born <= t
      /\ b.rect.x = b.start + b.dx * (t - b.born + 0)
  BY DEF Flies
<1>2. /\ b.rect \in [x : Int, y : Int, w : {BulletSize}, h : {BulletSize}]
      /\ b.dx \in Int /\ b.start \in Int /\ b.born \in Int
  BY <1>1, StepTypes DEF BulletType
<1>3. rect \in [x : Int, y : Int, w : {BulletSize}, h : {BulletSize}] /\ rect.x = b.rect.x + b.dx
  <2> DEFINE a == b.rect.x + b.dx
             c == b.rect.y + 0
  <2>1. a \in Int /\ c \in Int
    BY <1>2
  <2>2. rect = [b.rect EXCEPT !.x = a, !.y = c]
    BY DEF BulletMoved
  <2> HIDE DEF a, c, rect
  <2>3. rect \in [x : Int, y : Int, w : {BulletSize}, h : {BulletSize}] /\ rect.x = a
    BY <1>2, <2>1, <2>2
  <2> QED
    BY <2>3 DEF a
<1> HIDE DEF rect
<1>4. /\ moved \in BulletType /\ moved.rect = rect /\ moved.timestamp = now
      /\ moved.born = b.born /\ moved.sender = b.sender /\ moved.start = b.start /\ moved.dx = b.dx
  BY <1>1, <1>3 DEF BulletType
<1>5. rect.x = b.start + b.dx * (t - b.born + 1)
  <2> DEFINE n == t - b.born + 0
             way == b.dx * n
  <2>1. n \in Int /\ way \in Int /\ b.rect.x = b.start + way
    BY <1>1, <1>2
  <2>2. b.dx * (n + 1) = way + b.dx
    BY <1>2, <2>1, OneMore
  <2>3. t - b.born + 1 = n + 1
    BY <1>2
  <2> HIDE DEF n, way
  <2>4. b.rect.x + b.dx = b.start + (way + b.dx)
    BY <1>2, <2>1
  <2> QED
    BY <1>3, <2>2, <2>3, <2>4
<1> HIDE DEF moved
<1>6. Flies(moved, t, 1)
  BY <1>1, <1>4, <1>5 DEF Flies
<1> QED
  BY <1>6 DEF moved, rect

LEMMA FliesOn ==
  ASSUME NEW b, NEW t \in Nat, Flies(b, t, 1)
  PROVE  Flies(b, t + 1, 0)
<1>1. b.born \in Int /\ b.born <= t
  BY DEF Flies, BulletType
<1>2. t - b.born + 1 = (t + 1) - b.born + 0 /\ b.born <= t + 1
  BY <1>1
<1> QED
  BY <1>2 DEF Flies

(***************************************************************************)
(* What holds of every entry, of every bullet and of the clock they are    *)
(* stamped with, between any two iterations of the loops of update.        *)
(***************************************************************************)
EntriesInv == \A c \in DOMAIN clients : Known(c, clients[c])

FlightInv == \A i \in 1 .. Len(bullets) : Flies(bullets[i], ticks, Moved(i))

BoundsInv ==
  /\ now \in Int /\ Boot <= now
  /\ idx <= MaxIds
  /\ itr \in 0 .. Len(bullets) + 1

LEMMA BoundsInvStep ==
  ASSUME LoopInv, LoopInv', ClockInv', BoundsInv, [Next]_vars
  PROVE  BoundsInv'
<1>0. /\ Len(bullets) \in Nat /\ Len(bullets') \in Nat /\ itr \in Int /\ idx \in Nat
      /\ now \in Int /\ now' \in Int /\ Boot <= now /\ idx <= MaxIds /\ itr \in 0 .. Len(bullets) + 1
  <2>1. Len(bullets) \in Nat
    BY LenType DEF LoopInv
  <2>2. Len(bullets') \in Nat
    <3>1. PICK S : bullets' \in Seq(S)
      BY DEF LoopInv, ShotsInv
    <3> QED
      BY <3>1
  <2>3. itr \in Int /\ idx \in Nat
    BY DEF LoopInv, IteratorInv, RegistryInv
  <2>4. /\ now \in Int /\ now' \in Int /\ Boot <= now /\ idx <= MaxIds
        /\ itr \in 0 .. Len(bullets) + 1
    BY DEF ClockInv, BoundsInv
  <2> QED
    BY <2>1, <2>2, <2>3, <2>4
<1>1. now <= now'
  <2>1. CASE ReceivePacket \/ EndUpdate
    BY <1>0, <2>1, ConstantTypes DEF ReceivePacket, EndUpdate, TickTaken
  <2>2. CASE UNCHANGED clock
    BY <1>0, <2>2 DEF clock
  <2> QED
    BY <2>1, <2>2, ClockStep
<1>2. idx' <= MaxIds
  <2>1. CASE ReceivePacket
    <3>1. idx' = idx \/ (idx < MaxIds /\ idx' = idx + 1)
      <4>1. CASE Join
        BY <4>1 DEF Join
      <4>2. CASE \E id \in DOMAIN clients, input \in InputsAt(now') : HandleInput(id, input)
        BY <4>2 DEF HandleInput
      <4>3. CASE \E id \in DOMAIN clients : Leave(id)
        BY <4>3 DEF Leave
      <4>4. CASE UNCHANGED registry
        BY <4>4 DEF registry
      <4> QED
        BY <2>1, <4>1, <4>2, <4>3, <4>4 DEF ReceivePacket
    <3> QED
      BY <1>0, <3>1, ConstantTypes
  <2>2. CASE UNCHANGED idx
    BY <1>0, <2>2
  <2> QED
    BY <2>1, <2>2 DEF Next, Turn, StartUpdate, MovePlayer, StartMoving, MoveBullet, StartHitting,
         StartBullet, Test, TestWild, NextBullet, EndUpdate, Broadcast, vars, registry
<1>3. itr' \in 0 .. Len(bullets') + 1
  <2>1. CASE phase' \in {"moving", "hitting", "testing"}
    BY <1>0, <2>1 DEF LoopInv, IteratorInv
  <2>2. CASE \E id \in todo : MovePlayer(id)
    BY <1>0, <2>2, MovePlayerEffect
  <2>3. CASE UNCHANGED <<bullets, itr>>
    BY <1>0, <2>3
  <2>4. CASE StartMoving \/ MoveBullet \/ StartHitting \/ StartBullet \/ NextBullet
    BY <2>1, <2>4, MoveBulletEffect DEF StartMoving, MoveBullet, StartHitting, StartBullet, NextBullet
  <2>5. CASE \E id \in todo : Test(id)
    BY <2>1, <2>5, TestEffect
  <2> QED
    BY <2>2, <2>3, <2>4, <2>5 DEF Next, Turn, ReceivePacket, StartUpdate, TestWild, EndUpdate,
         Broadcast, vars, shots
<1> QED
  BY <1>0, <1>1, <1>2, <1>3, ConstantTypes DEF BoundsInv

\* An input arrives with its sender known, and can be any.
LEMMA InputKnown ==
  ASSUME NEW e, IsRecord(e, EntryFields), NEW c \in Nat, NEW old, Known(c, old), NEW t \in Int,
         e.rect = old.rect, e.health = old.health, e.playerId = Narrow(c), e.input \in InputsAt(t)
  PROVE  Known(c, e)
<1>1. e.rect \in [x : Int, y : Int, w : {Spawn.w}, h : {Spawn.h}] /\ e.health \in Int
  BY DEF Known, Entry
<1>2. \A n \in t - MaxDelay .. t : n \in Int
  BY ConstantTypes
<1>3. e.input \in [dx : Velocities \cup {0}, mouseDown : BOOLEAN, aim : Aims \cup {0}, timestamp : Int]
  BY <1>2 DEF InputsAt
<1>4. e = [rect |-> e.rect, health |-> e.health, playerId |-> e.playerId, input |-> e.input]
  BY DEF IsRecord, EntryFields
<1>5. e.playerId \in Int
  BY NarrowTypes
<1> QED
  BY <1>1, <1>3, <1>4, <1>5 DEF Entry, Known

\* No bullet is from the time of the Idle input.
LEMMA HitsTheKnown ==
  ASSUME NEW b, NEW t, NEW n, Flies(b, t, n), NEW e, Hits(b, e)
  PROVE  e # NewEntry
<1> SUFFICES ASSUME e = NewEntry
             PROVE  FALSE
  OBVIOUS
<1>1. e.input.timestamp = 0
  BY DEF NewEntry, Idle
<1>2. b.timestamp \in Int /\ Boot <= b.timestamp
  BY DEF Flies, BulletType
<1>3. b.timestamp - 0 <= TickInterval
  BY <1>1, <1>2, ConstantTypes DEF Hits
<1> QED
  BY <1>2, <1>3, PlaceTypes, ConstantTypes

LEMMA EntriesInvStep ==
  ASSUME LoopInv, LoopInv', ClockInv', EntriesInv, FlightInv, [Next]_vars
  PROVE  EntriesInv'
<1>1. CASE ReceivePacket
  <2> SUFFICES ASSUME NEW c \in DOMAIN clients'
               PROVE  Known(c, clients'[c])
    BY DEF EntriesInv
  <2>1. c \in Nat /\ IsRecord(clients'[c], EntryFields) /\ now' \in Int
    BY DEF LoopInv, RegistryInv, ClockInv
  <2>2. CASE clients'[c] = NewEntry
    BY <2>2, NewIsKnown
  <2>3. CASE c \in DOMAIN clients /\ clients'[c] = clients[c]
    BY <2>3 DEF EntriesInv
  <2>4. CASE /\ c \in DOMAIN clients /\ clients'[c].health = clients[c].health
             /\ clients'[c].rect = clients[c].rect
             /\ clients'[c].playerId = Narrow(c) /\ clients'[c].input \in InputsAt(now')
    BY <2>1, <2>4, InputKnown DEF EntriesInv
  <2> QED
    BY <1>1, <2>2, <2>3, <2>4, ReceiveEffect
<1>2. CASE \E id \in todo : MovePlayer(id)
  <2>1. PICK id \in todo : MovePlayer(id)
    BY <1>2
  <2> DEFINE rect == PlayerUpdate(map, clients[id].rect, clients[id].input.dx, 0)
  <2>2. clients' = [clients EXCEPT ![id].rect = rect] /\ id \in DOMAIN clients
    BY <2>1 DEF MovePlayer, LoopInv, IteratorInv
  <2>3. Known(id, [clients[id] EXCEPT !.rect = rect])
    BY <2>2, KnownMoves DEF EntriesInv
  <2> HIDE DEF rect
  <2>4. DOMAIN clients' = DOMAIN clients /\ clients'[id] = [clients[id] EXCEPT !.rect = rect]
        /\ \A c \in DOMAIN clients : c # id => clients'[c] = clients[c]
    BY <2>2 DEF LoopInv, RegistryInv, IsRecord
  <2> QED
    BY <2>3, <2>4 DEF EntriesInv
<1>3. CASE \E id \in todo : Test(id)
  <2>1. PICK id \in todo : Test(id)
    BY <1>3
  <2>2. itr \in 1 .. Len(bullets) /\ id \in DOMAIN clients
    BY <2>1, TestEffect DEF LoopInv, IteratorInv
  <2>3. CASE clients' = clients
    BY <2>3 DEF EntriesInv
  <2>4. CASE /\ Hits(bullets[itr], clients[id])
             /\ clients' = [clients EXCEPT ![id].health = clients[id].health - 1]
    <3> DEFINE e == clients[id]
               hurt == e.health - 1
               after == [e EXCEPT !.health = hurt]
    <3>1. Known(id, e) /\ e \in Entry
      BY <2>2 DEF EntriesInv, Known
    <3>2. e.playerId = Narrow(id)
      BY <2>2, <2>4, <3>1, HitsTheKnown DEF FlightInv, Known
    <3>3. hurt \in Int
      BY <3>1 DEF Entry
    <3> HIDE DEF hurt
    <3>4. after \in Entry /\ after.playerId = e.playerId
      BY <3>1, <3>3 DEF Entry
    <3>5. Known(id, after)
      BY <3>2, <3>4 DEF Known
    <3>6. DOMAIN clients' = DOMAIN clients /\ clients'[id] = after
          /\ \A c \in DOMAIN clients : c # id => clients'[c] = clients[c]
      BY <2>2, <2>4 DEF LoopInv, RegistryInv, IsRecord, hurt
    <3> QED
      BY <3>5, <3>6 DEF EntriesInv
  <2> QED
    BY <2>1, <2>3, <2>4 DEF Test
<1>4. CASE UNCHANGED clients
  BY <1>4 DEF EntriesInv
<1> QED
  BY <1>1, <1>2, <1>3, <1>4 DEF Next, Turn, StartUpdate, StartMoving, MoveBullet, StartHitting,
       StartBullet, TestWild, NextBullet, EndUpdate, Broadcast, vars, registry

LEMMA FlightInvStep ==
  ASSUME LoopInv, LoopInv', ClockInv, BoundsInv, EntriesInv, FlightInv, [Next]_vars
  PROVE  FlightInv'
<1>0. /\ Len(bullets) \in Nat /\ Len(bullets') \in Nat /\ itr \in Int
      /\ bulletIdx \in Nat /\ ticks \in Nat /\ now \in Int /\ Boot <= now
  BY LenType DEF LoopInv, IteratorInv, ShotsInv, ClockInv, BoundsInv
<1>1. CASE UNCHANGED <<bullets, ticks>> /\ \A i \in 1 .. Len(bullets) : Moved(i)' = Moved(i)
  BY <1>1 DEF FlightInv
<1>2. CASE \E id \in todo : MovePlayer(id)
  <2>1. PICK id \in todo : MovePlayer(id)
    BY <1>2
  <2> DEFINE e == clients[id]
             rect == PlayerUpdate(map, e.rect, e.input.dx, 0)
             middle == Rect(rect.x + rect.w \div 2, rect.y + rect.h \div 2, BulletSize, BulletSize)
             fired == Bullet(bulletIdx, e.playerId, middle, BulletStep * Direction(rect.x, e.input.aim))
  <2>2. phase = "players" /\ phase' = "players" /\ ticks' = ticks
    BY <2>1 DEF MovePlayer, clock
  <2>3. \A i : Moved(i) = 0 /\ Moved(i)' = 0
    BY <2>2 DEF Moved
  <2>4. Known(id, e) /\ e \in Entry
    BY <2>1 DEF LoopInv, IteratorInv, EntriesInv, Known
  <2>5. CASE e.input.mouseDown
    <3>1. bullets' = Append(bullets, fired)
      BY <2>1, <2>5 DEF MovePlayer
    <3>3. rect \in Placed(Spawn) /\ e.playerId \in Int /\ e.input.aim \in Int
      BY <2>4, KnownMoves, PlaceTypes DEF Entry
    <3> HIDE DEF rect, e
    <3>4. Flies(fired, ticks, 0)
      BY <1>0, <3>3, FiredFlies
    <3> HIDE DEF fired
    <3>5. PICK S : bullets \in Seq(S)
      BY DEF LoopInv, ShotsInv
    <3>6. bullets \in Seq(S \cup {fired})
      BY <3>5
    <3>7. /\ Len(bullets') = Len(bullets) + 1 /\ bullets'[Len(bullets) + 1] = fired
          /\ \A i \in 1 .. Len(bullets) : bullets'[i] = bullets[i]
      BY <3>1, <3>6, AppendProperties
    <3>8. \A i \in 1 .. Len(bullets') : i \in 1 .. Len(bullets) \/ i = Len(bullets) + 1
      BY <1>0, <3>7
    <3>9. \A i \in 1 .. Len(bullets') : Flies(bullets'[i], ticks', 0)
      BY <2>2, <2>3, <3>4, <3>7, <3>8 DEF FlightInv
    <3> QED
      BY <2>3, <3>9 DEF FlightInv
  <2>6. CASE ~e.input.mouseDown
    <3>1. bullets' = bullets
      BY <2>1, <2>6 DEF MovePlayer, shots
    <3> QED
      BY <2>2, <2>3, <3>1 DEF FlightInv
  <2> QED
    BY <2>5, <2>6
<1>3. CASE MoveBullet
  <2> DEFINE b == bullets[itr]
             moved == [b EXCEPT !.rect = BulletMoved(b.rect, b.dx, 0), !.timestamp = now]
  <2>1. /\ phase = "moving" /\ phase' = "moving" /\ ticks' = ticks /\ itr \in 1 .. Len(bullets)
    BY <1>3, MoveBulletEffect DEF MoveBullet, clock
  <2>2. \A i : Moved(i) = (IF i < itr THEN 1 ELSE 0) /\ Moved(i)' = (IF i < itr' THEN 1 ELSE 0)
    BY <2>1 DEF Moved
  <2>3. CASE itr' = itr /\ Len(bullets') = Len(bullets) - 1
    <3>1. \A i \in 1 .. Len(bullets) - 1 :
            bullets'[i] = IF i = itr THEN bullets[Len(bullets)] ELSE bullets[i]
      BY <1>0, <1>3, <2>3, MoveBulletEffect
    <3> SUFFICES ASSUME NEW i \in 1 .. Len(bullets')
                 PROVE  Flies(bullets'[i], ticks, Moved(i)')
      BY <2>1 DEF FlightInv
    <3>2. i \in 1 .. Len(bullets) - 1 /\ i \in 1 .. Len(bullets) /\ Len(bullets) \in 1 .. Len(bullets)
      BY <1>0, <2>3
    <3>3. CASE i = itr
      <4>1. bullets'[i] = bullets[Len(bullets)] /\ Moved(Len(bullets)) = 0 /\ Moved(i)' = 0
        BY <1>0, <2>2, <2>3, <3>1, <3>2, <3>3
      <4> QED
        BY <3>2, <4>1 DEF FlightInv
    <3>4. CASE i # itr
      <4>1. bullets'[i] = bullets[i] /\ Moved(i)' = Moved(i)
        BY <2>2, <2>3, <3>1, <3>2, <3>4
      <4> QED
        BY <3>2, <4>1 DEF FlightInv
    <3> QED
      BY <3>3, <3>4
  <2>4. CASE itr' = itr + 1
    <3>1. bullets' = [bullets EXCEPT ![itr] = moved]
      BY <1>0, <1>3, <2>4 DEF MoveBullet, AfterErase
    <3>2. Flies(b, ticks, 0)
      BY <2>1, <2>2, <1>0 DEF FlightInv
    <3>3. Flies(moved, ticks, 1)
      BY <1>0, <3>2, MovedFlies
    <3> HIDE DEF moved
    <3>4. PICK S : bullets \in Seq(S)
      BY DEF LoopInv, ShotsInv
    <3>5. bullets \in Seq(S \cup {moved})
      BY <3>4
    <3>6. /\ Len(bullets') = Len(bullets)
          /\ \A i \in 1 .. Len(bullets) : bullets'[i] = IF i = itr THEN moved ELSE bullets[i]
      BY <2>1, <3>1, <3>5, ExceptSeq
    <3> SUFFICES ASSUME NEW i \in 1 .. Len(bullets)
                 PROVE  Flies(bullets'[i], ticks, Moved(i)')
      BY <2>1, <3>6 DEF FlightInv
    <3>7. CASE i = itr
      <4>1. Moved(i)' = 1
        BY <1>0, <2>2, <2>4, <3>7
      <4> QED
        BY <3>3, <3>6, <3>7, <4>1
    <3>8. CASE i # itr
      <4>1. Moved(i)' = Moved(i)
        BY <1>0, <2>2, <2>4, <3>8
      <4> QED
        BY <3>6, <3>8, <4>1 DEF FlightInv
    <3> QED
      BY <3>7, <3>8
  <2> QED
    BY <1>3, <2>3, <2>4, MoveBulletEffect
<1>4. CASE \E id \in todo : Test(id)
  <2>1. PICK id \in todo : Test(id)
    BY <1>4
  <2>2. phase = "testing" /\ phase' = "testing" /\ ticks' = ticks
    BY <2>1 DEF Test, clock
  <2>3. \A i : Moved(i) = 1 /\ Moved(i)' = 1
    BY <2>2 DEF Moved
  <2>4. \/ bullets' = bullets
        \/ /\ itr \in 1 .. Len(bullets) /\ Len(bullets') = Len(bullets) - 1
           /\ \A i \in 1 .. Len(bullets) - 1 :
                bullets'[i] = IF i = itr THEN bullets[Len(bullets)] ELSE bullets[i]
    BY <2>1, TestEffect
  <2>5. \A i \in 1 .. Len(bullets') : \E j \in 1 .. Len(bullets) : bullets'[i] = bullets[j]
    BY <1>0, <2>4
  <2>6. \A i \in 1 .. Len(bullets') : Flies(bullets'[i], ticks, 1)
    BY <2>3, <2>5 DEF FlightInv
  <2> QED
    BY <2>2, <2>3, <2>6 DEF FlightInv
<1>5. CASE EndUpdate
  <2>1. phase = "hitting" /\ phase' = "ticking" /\ ticks' = ticks + 1 /\ bullets' = bullets
    BY <1>5 DEF EndUpdate, shots
  <2>2. \A i : Moved(i) = 1 /\ Moved(i)' = 0
    BY <2>1 DEF Moved
  <2>3. \A i \in 1 .. Len(bullets) : Flies(bullets[i], ticks, 1)
    BY <2>2 DEF FlightInv
  <2> QED
    BY <1>0, <2>1, <2>2, <2>3, FliesOn DEF FlightInv
<1>6. CASE StartMoving
  <2>1. phase = "players" /\ phase' = "moving" /\ itr' = 1
    BY <1>6 DEF StartMoving
  <2>2. \A i \in 1 .. Len(bullets) : Moved(i) = 0 /\ Moved(i)' = 0
    BY <1>0, <2>1 DEF Moved
  <2> QED
    BY <1>1, <1>6, <2>2 DEF StartMoving, shots, clock
<1>7. CASE StartHitting
  <2>1. phase = "moving" /\ phase' = "hitting" /\ itr > Len(bullets)
    BY <1>7 DEF StartHitting
  <2>2. \A i \in 1 .. Len(bullets) : Moved(i) = 1 /\ Moved(i)' = 1
    BY <1>0, <2>1 DEF Moved
  <2> QED
    BY <1>1, <1>7, <2>2 DEF StartHitting, shots, clock
<1>8. CASE StartBullet \/ NextBullet \/ \E id \in todo : TestWild(id)
  <2>1. \A i : Moved(i) = 1 /\ Moved(i)' = 1
    BY <1>8 DEF StartBullet, NextBullet, TestWild, Moved
  <2> QED
    BY <1>1, <1>8, <2>1 DEF StartBullet, NextBullet, TestWild, shots, clock
<1>9. CASE StartUpdate \/ Broadcast \/ ReceivePacket
  <2>1. \A i : Moved(i) = 0 /\ Moved(i)' = 0
    BY <1>9 DEF StartUpdate, Broadcast, Broadcasting, ReceivePacket, Moved
  <2> QED
    BY <1>1, <1>9, <2>1 DEF StartUpdate, Broadcast, ReceivePacket, shots, clock
<1>10. CASE UNCHANGED vars
  BY <1>1, <1>10 DEF vars, shots, clock, Moved
<1> QED
  BY <1>2, <1>3, <1>4, <1>5, <1>6, <1>7, <1>8, <1>9, <1>10 DEF Next, Turn

WorldInv == BoundsInv /\ EntriesInv /\ FlightInv

\* Types, flights and first inputs hold on together.
THEOREM WorldHolds == Spec => []WorldInv
<1>1. Init => WorldInv
  <2> SUFFICES ASSUME Init
               PROVE  WorldInv
    OBVIOUS
  <2>1. Len(bullets) = 0 /\ now = Boot /\ idx = 0 /\ itr = 1 /\ DOMAIN clients = {}
    BY DEF Init
  <2> QED
    BY <2>1, ConstantTypes DEF WorldInv, BoundsInv, EntriesInv, FlightInv
<1>2. LoopInv /\ LoopInv' /\ ClockInv /\ ClockInv' /\ WorldInv /\ [Next]_vars => WorldInv'
  BY BoundsInvStep, EntriesInvStep, FlightInvStep DEF WorldInv
<1> QED
  BY <1>1, <1>2, LoopsHold, ClockHolds, PTL DEF Spec

(***************************************************************************)
(* Every bullet moves exactly once in every tick, the one it was fired in  *)
(* included, whichever bullets update erases around it, by swapping the    *)
(* last one into their place (server.cpp:199): its place is its start and  *)
(* as many steps as there were ticks.                                      *)
(***************************************************************************)
THEOREM FlightIsStraight == Spec => []BulletsFlyStraight
<1>1. LoopInv /\ WorldInv => BulletsFlyStraight
  BY LenType DEF LoopInv, WorldInv, FlightInv, Flies, BulletsFlyStraight
<1> QED
  BY <1>1, LoopsHold, WorldHolds, PTL

-----------------------------------------------------------------------------
(* Who has no id. *)

\* Whoever fired was told its id before: it is that of a client, narrowed.
SendersInv ==
  \A i \in 1 .. Len(bullets) : \E c \in 0 .. idx - 1 : bullets[i].sender = Narrow(c)

LEMMA SendersKept ==
  ASSUME LoopInv, SendersInv, idx' \in Nat, idx <= idx',
         \A i \in 1 .. Len(bullets') :
           \E j \in 1 .. Len(bullets) : bullets'[i].sender = bullets[j].sender
  PROVE  SendersInv'
<1>1. \A c \in 0 .. idx - 1 : c \in 0 .. idx' - 1
  <2>1. idx \in Nat
    BY DEF LoopInv, RegistryInv
  <2>2. \A m, n \in Nat : m <= n => \A c \in 0 .. m - 1 : c \in 0 .. n - 1
    OBVIOUS
  <2> QED
    BY <2>1, <2>2
<1>2. \A n : Narrow(n)' = Narrow(n)
  BY DEF Narrow
<1> SUFFICES ASSUME NEW i \in 1 .. Len(bullets')
             PROVE  \E c \in 0 .. idx' - 1 : bullets'[i].sender = Narrow(c)
  BY <1>2 DEF SendersInv
<1>3. PICK j \in 1 .. Len(bullets) : bullets'[i].sender = bullets[j].sender
  OBVIOUS
<1>4. PICK c \in 0 .. idx - 1 : bullets[j].sender = Narrow(c)
  BY DEF SendersInv
<1> QED
  BY <1>1, <1>3, <1>4

LEMMA SendersInvStep ==
  ASSUME LoopInv, LoopInv', EntriesInv, SendersInv, [Next]_vars
  PROVE  SendersInv'
<1>0. Len(bullets) \in Nat /\ idx \in Nat /\ idx' \in Nat
  BY LenType DEF LoopInv, RegistryInv
<1>1. CASE \E id \in todo : MovePlayer(id)
  <2>1. PICK id \in todo : MovePlayer(id)
    BY <1>1
  <2>2. idx' = idx /\ id \in DOMAIN clients /\ id \in 0 .. idx - 1
    BY <1>0, <2>1, MovePlayerEffect DEF LoopInv, IteratorInv, RegistryInv
  <2>3. CASE ~clients[id].input.mouseDown
    <3>1. bullets' = bullets
      BY <2>1, <2>3 DEF MovePlayer, shots
    <3> QED
      BY <1>0, <2>2, <3>1, SendersKept
  <2>4. CASE clients[id].input.mouseDown
    <3>1. clients[id].playerId = Narrow(id)
      BY <2>2, <2>4 DEF EntriesInv, Known, NewEntry, Idle
    <3>2. PICK fired : /\ fired.sender = clients[id].playerId
                       /\ bullets' = Append(bullets, fired)
      BY <2>1, <2>4 DEF MovePlayer, Bullet
    <3>3. PICK S : bullets \in Seq(S)
      BY DEF LoopInv, ShotsInv
    <3>4. bullets \in Seq(S \cup {fired})
      BY <3>3
    <3>5. /\ Len(bullets') = Len(bullets) + 1 /\ bullets'[Len(bullets) + 1] = fired
          /\ \A i \in 1 .. Len(bullets) : bullets'[i] = bullets[i]
      BY <3>2, <3>4, AppendProperties
    <3>6. \A i \in 1 .. Len(bullets') : i \in 1 .. Len(bullets) \/ i = Len(bullets) + 1
      BY <1>0, <3>5
    <3>7. \A n : Narrow(n)' = Narrow(n)
      BY DEF Narrow
    <3> QED
      BY <2>2, <3>1, <3>2, <3>5, <3>6, <3>7 DEF SendersInv
  <2> QED
    BY <2>3, <2>4
<1>2. CASE MoveBullet
  <2>1. idx' = idx
    BY <1>2, MoveBulletEffect DEF registry
  <2>2. \A i \in 1 .. Len(bullets') :
          \E j \in 1 .. Len(bullets) : bullets'[i].sender = bullets[j].sender
    <3> SUFFICES ASSUME NEW i \in 1 .. Len(bullets')
                 PROVE  \E j \in 1 .. Len(bullets) : bullets'[i].sender = bullets[j].sender
      OBVIOUS
    <3>1. CASE Len(bullets') = Len(bullets)
      <4>1. i \in 1 .. Len(bullets)
        BY <3>1
      <4>2. bullets'[i].sender = bullets[i].sender
        BY <1>0, <1>2, <3>1, <4>1, MoveBulletEffect DEF BulletFields
      <4> QED
        BY <4>1, <4>2
    <3>2. CASE Len(bullets') = Len(bullets) - 1
      <4>1. i \in 1 .. Len(bullets) /\ Len(bullets) \in 1 .. Len(bullets)
        BY <1>0, <3>2
      <4>2. bullets'[i] = bullets[i] \/ bullets'[i] = bullets[Len(bullets)]
        BY <1>0, <1>2, <3>2, MoveBulletEffect
      <4> QED
        BY <4>1, <4>2
    <3> QED
      BY <1>2, <3>1, <3>2, MoveBulletEffect
  <2> QED
    BY <1>0, <2>1, <2>2, SendersKept
<1>3. CASE \E id \in todo : Test(id)
  <2>1. PICK id \in todo : Test(id)
    BY <1>3
  <2>2. \/ bullets' = bullets
        \/ /\ itr \in 1 .. Len(bullets) /\ Len(bullets') = Len(bullets) - 1
           /\ \A i \in 1 .. Len(bullets) - 1 :
                bullets'[i] = IF i = itr THEN bullets[Len(bullets)] ELSE bullets[i]
    BY <2>1, TestEffect
  <2>3. \A i \in 1 .. Len(bullets') : \E j \in 1 .. Len(bullets) : bullets'[i] = bullets[j]
    BY <1>0, <2>2
  <2>4. idx' = idx
    BY <2>1, TestEffect
  <2> QED
    BY <1>0, <2>3, <2>4, SendersKept
<1>4. CASE UNCHANGED shots
  <2>1. idx' \in {idx, idx + 1}
    <3>1. CASE ReceivePacket
      BY <3>1, ReceiveEffect
    <3>2. CASE UNCHANGED idx
      BY <3>2
    <3> QED
      BY <3>1, <3>2 DEF Next, Turn, StartUpdate, MovePlayer, StartMoving, MoveBullet, StartHitting,
           StartBullet, Test, TestWild, NextBullet, EndUpdate, Broadcast, vars, registry
  <2>2. idx <= idx'
    BY <1>0, <2>1
  <2>3. bullets' = bullets
    BY <1>4 DEF shots
  <2> QED
    BY <1>0, <2>2, <2>3, SendersKept
<1> QED
  BY <1>1, <1>2, <1>3, <1>4, OtherSteps

\* Bullets never outlive the ids they were fired under.
THEOREM SendersHold == Spec => []SendersInv
<1>1. Init => SendersInv
  <2> SUFFICES ASSUME Init
               PROVE  SendersInv
    OBVIOUS
  <2>1. Len(bullets) = 0
    BY DEF Init
  <2> QED
    BY <2>1 DEF SendersInv
<1>2. LoopInv /\ LoopInv' /\ WorldInv /\ SendersInv /\ [Next]_vars => SendersInv'
  BY SendersInvStep DEF WorldInv
<1> QED
  BY <1>1, <1>2, LoopsHold, WorldHolds, PTL DEF Spec

(***************************************************************************)
(* What a client takes for itself before it knows its id (client.cpp:240)  *)
(* is a player that stands where every player spawns, unhurt, and has      *)
(* fired nothing: such a player does not move, and no bullet's time is     *)
(* near the time 0 of the input it was made with.  That goes for every     *)
(* client but those whose id becomes -1 in an int8_t (server.cpp:164): for *)
(* these nothing is claimed, and while none of them ever joined no bullet  *)
(* is without a sender.                                                    *)
(***************************************************************************)
THEOREM UnknownStayFresh == Spec => []UnknownAreFresh
<1>1. LoopInv /\ WorldInv /\ SendersInv => UnknownAreFresh
  <2> SUFFICES ASSUME LoopInv, WorldInv, SendersInv
               PROVE  UnknownAreFresh
    OBVIOUS
  <2>1. ASSUME NEW c \in DOMAIN GameState, GameState[c].id = NoId, ~Nameless(c)
        PROVE  GameState[c].rect = Spawn /\ GameState[c].health = FullHealth
    <3>1. /\ c \in DOMAIN clients /\ clients[c].playerId = NoId
          /\ GameState[c].rect = clients[c].rect /\ GameState[c].health = clients[c].health
      BY <2>1 DEF GameState
    <3>2. clients[c] = NewEntry
      BY <2>1, <3>1 DEF WorldInv, EntriesInv, Known, Nameless
    <3> QED
      BY <3>1, <3>2 DEF NewEntry
  <2>2. ASSUME NEW i \in DOMAIN bullets, bullets[i].sender = NoId
        PROVE  \E c \in 0 .. idx - 1 : Nameless(c)
    <3>1. i \in 1 .. Len(bullets)
      BY LenType DEF LoopInv
    <3> QED
      BY <2>2, <3>1 DEF SendersInv, Nameless
  <2> QED
    BY <2>1, <2>2 DEF UnknownAreFresh
<1> QED
  BY <1>1, LoopsHold, WorldHolds, SendersHold, PTL

-----------------------------------------------------------------------------
(* The types. *)

(***************************************************************************)
(* Every variable keeps its type: players and bullets keep their sizes,    *)
(* whatever walls they were pushed back by, and every number refers to     *)
(* what it is a number of.                                                 *)
(***************************************************************************)
THEOREM TypeCorrect == Spec => []TypeOK
<1>1. LoopInv /\ ClockInv /\ IdsInv /\ HitsInv /\ AccountInv /\ WorldInv => TypeOK
  <2> SUFFICES ASSUME LoopInv, ClockInv, IdsInv, HitsInv, AccountInv, WorldInv
               PROVE  TypeOK
    OBVIOUS
  <2>1. DOMAIN clients \subseteq 0 .. idx - 1 /\ idx \in 0 .. MaxIds
    BY DEF LoopInv, RegistryInv, WorldInv, BoundsInv
  <2>2. clients \in [DOMAIN clients -> Entry]
    BY DEF LoopInv, RegistryInv, IsRecord, WorldInv, EntriesInv, Known
  <2>3. bulletIdx \in Nat /\ bullets \in Seq(BulletRecord)
    <3>1. PICK S : bullets \in Seq(S)
      BY DEF LoopInv, ShotsInv
    <3>2. \A i \in 1 .. Len(bullets) : bullets[i] \in BulletRecord
      <4> TAKE i \in 1 .. Len(bullets)
      <4>1. bullets[i] \in BulletType /\ bullets[i].born <= ticks /\ ticks \in Nat
        BY DEF WorldInv, FlightInv, Flies, ClockInv
      <4>2. bullets[i].id \in 0 .. bulletIdx - 1 /\ bulletIdx \in Nat
        BY DEF IdsInv, LoopInv, ShotsInv
      <4> QED
        BY <4>1, <4>2 DEF BulletType, BulletRecord
    <3> QED
      BY <3>1, <3>2 DEF LoopInv, ShotsInv
  <2>4. {now, lastT, accumulate} \subseteq Int /\ ticks \in Nat
    BY DEF ClockInv
  <2>5. phase \in Phases /\ todo \subseteq DOMAIN clients
    BY DEF LoopInv, IteratorInv
  <2>6. itr \in 0 .. Len(bullets) + 1
    BY DEF WorldInv, BoundsInv
  <2>7. struck \subseteq [bullet : 0 .. bulletIdx - 1, victim : 0 .. idx - 1]
    <3> SUFFICES ASSUME NEW h \in struck
                 PROVE  h \in [bullet : 0 .. bulletIdx - 1, victim : 0 .. idx - 1]
      OBVIOUS
    <3>1. /\ h = [bullet |-> h.bullet, victim |-> h.victim]
          /\ h.bullet \in 0 .. bulletIdx - 1 /\ h.victim \in 0 .. idx - 1
      BY DEF HitsInv, LoopInv, ShotsInv, RegistryInv
    <3> QED
      BY <3>1
  <2>8. stopped \subseteq 0 .. bulletIdx - 1
    BY <2>3 DEF AccountInv
  <2> QED
    BY <2>1, <2>2, <2>3, <2>4, <2>5, <2>6, <2>7, <2>8 DEF TypeOK
<1> QED
  BY <1>1, LoopsHold, ClockHolds, IdsHold, HitsHold, AccountHolds, WorldHolds, PTL
=============================================================================
