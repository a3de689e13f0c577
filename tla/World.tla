--------------------------------- MODULE World ---------------------------------
(***************************************************************************)
(* The simulation of the server: Server::serve with the clock it keeps,    *)
(* and Server::update with its three loops, an iteration a step.           *)
(*                                                                         *)
(* Times are milliseconds of the server's steady clock.  A position is a   *)
(* rectangle on the map of GameMap, bullets fly along x.  Registration is  *)
(* left to ClientManager: a client is its id here, handed out in order.    *)
(***************************************************************************)
EXTENDS GameMap, FiniteSets, FiniteSetsExt

CONSTANTS
  Map,                  \* the GameMap the server loads
  Spawn,                \* PlayerState::rect when an entry is made
  FullHealth,           \* hits that use up health, 1.0 in steps of 0.2
  Velocities,           \* displacements of a player along x in one tick
  Aims,                 \* mouse_pos.x of a click
  BulletSize,
  BulletStep,           \* how far a bullet flies in one tick
  TickInterval,
  MaxBulletsPerPacket,
  IdHalf,               \* 2^7 in the code: an int8_t holds -IdHalf .. IdHalf-1
  Boot,                 \* when the server starts, by its steady clock
  MaxDelay,             \* bound: age of an INPUT when it arrives
  MaxWait,              \* bound: time between two packets
  MaxWork,              \* bound: time an update takes
  MaxTime,              \* bound: when the last packet arrives
  MaxIds                \* bound: clients that ever join, fewer than the places

ASSUME WorldAssumption ==
  /\ {MaxBulletsPerPacket, BulletStep, MaxDelay, MaxWait, MaxWork, MaxTime, MaxIds} \subseteq Nat
  /\ FullHealth \in Nat /\ TickInterval \in Nat \ {0} /\ IdHalf \in Nat \ {0}
  /\ Boot \in Nat /\ Boot > TickInterval
  /\ WholeMap(Map) /\ Spawn = Rect(Spawn.x, Spawn.y, Spawn.w, Spawn.h)
  /\ Velocities \cup Aims \cup {Spawn.x, Spawn.y} \subseteq Int
  /\ {Spawn.w, Spawn.h, BulletSize} \subseteq Nat \ {0}

VARIABLES
  clients,      \* ClientManager: id -> entry
  idx,          \* the next id
  bullets,      \* bullet_state
  bulletIdx,    \* bullet_idx
  now,          \* the steady clock
  lastT,        \* last_t
  accumulate,
  phase,        \* where the server is
  todo,         \* clients the running loop over the registry has not reached
  itr,          \* the iterator into bullet_state, by its place from 1
  ticks,        \* calls of update that have returned
  struck,       \* every hit so far: the bullet and whom it hurt
  stopped       \* every bullet that ended at a wall so far

clock == <<now, lastT, accumulate, ticks>>
registry == <<clients, idx>>
shots == <<bullets, bulletIdx>>
vars == <<registry, shots, clock, phase, todo, itr, struck, stopped>>

\* (TLC evaluates this one once.)
map == Map

NoId == -1
Idle == [dx |-> 0, mouseDown |-> FALSE, aim |-> 0, timestamp |-> 0]
NewEntry == [rect |-> Spawn, health |-> FullHealth, playerId |-> NoId, input |-> Idle]

Init ==
  /\ clients = [id \in {} |-> NewEntry] /\ idx = 0
  /\ bullets = <<>> /\ bulletIdx = 0
  /\ now = Boot /\ lastT = Boot /\ accumulate = 0
  /\ phase = "waiting" /\ todo = {} /\ itr = 1
  /\ ticks = 0 /\ struck = {} /\ stopped = {}

-----------------------------------------------------------------------------
(* process_events, as far as the world is concerned. *)

Join ==
  /\ idx < MaxIds
  /\ clients' = [id \in DOMAIN clients \cup {idx} |->
                   IF id = idx THEN NewEntry ELSE clients[id]]
  /\ idx' = idx + 1

\* ClientID is an int, PlayerState::id an int8_t: the assignment wraps.
Narrow(n) == ((n + IdHalf) % (2 * IdHalf)) - IdHalf

\* Mutated: the player is not told its id.
HandleInputOnly(id, input) ==
  /\ input.timestamp > clients[id].input.timestamp
  /\ clients' = [clients EXCEPT ![id].input = input]
  /\ idx' = idx

HandleInput(id, input) ==
  /\ input.timestamp > clients[id].input.timestamp
  /\ clients' = [clients EXCEPT ![id].input = input, ![id].playerId = Narrow(id)]
  /\ idx' = idx

Leave(id) ==
  /\ clients' = Restrict(clients, DOMAIN clients \ {id})
  /\ idx' = idx

\* The clients' clocks are in step with the server's, packets take a while.
InputsAt(time) ==
  [dx : Velocities, mouseDown : {FALSE}, aim : {0}, timestamp : time - MaxDelay .. time]
    \cup [dx : {0}, mouseDown : {TRUE}, aim : Aims, timestamp : time - MaxDelay .. time]

(***************************************************************************)
(* One packet ends epoll_wait, whatever process_events makes of it: stale  *)
(* inputs, repeats and packets of strangers change nothing.                *)
(***************************************************************************)
ReceivePacket ==
  /\ phase = "waiting" /\ now < MaxTime
  /\ \E wait \in 0 .. MaxWait : now' = now + wait
  /\ \/ Join
     \/ \E id \in DOMAIN clients, input \in InputsAt(now') : HandleInput(id, input)
     \/ \E id \in DOMAIN clients : Leave(id)
     \/ UNCHANGED registry
  /\ accumulate' = now' - lastT
  /\ phase' = "ticking"
  /\ UNCHANGED <<shots, lastT, ticks, todo, itr, struck, stopped>>

-----------------------------------------------------------------------------
(* update: the players move, and shoot. *)

StartUpdate ==
  /\ phase = "ticking" /\ accumulate >= TickInterval
  /\ phase' = "players" /\ todo' = DOMAIN clients
  /\ UNCHANGED <<registry, shots, clock, itr, struck, stopped>>

\* The direction of the shot, Vector2Normalize of a displacement along x: none
\* when the mouse is where the player's rectangle begins.
Direction(from, to) == IF to > from THEN 1 ELSE IF to < from THEN -1 ELSE 0

Bullet(id, sender, rect, dx) ==
  [id |-> id, sender |-> sender, rect |-> rect, dx |-> dx, timestamp |-> now,
   born |-> ticks, start |-> rect.x]

MovePlayer(id) ==
  LET input == clients[id].input
      rect == PlayerUpdate(map, clients[id].rect, input.dx, 0)
      middle == Rect(rect.x + rect.w \div 2, rect.y + rect.h \div 2, BulletSize, BulletSize)
  IN  /\ phase = "players" /\ id \in todo
      /\ todo' = todo \ {id}
      /\ clients' = [clients EXCEPT ![id].rect = rect]
      /\ IF input.mouseDown
         THEN /\ bullets' = Append(bullets,
                              Bullet(bulletIdx, clients[id].playerId, middle,
                                     BulletStep * Direction(rect.x, input.aim)))
              /\ bulletIdx' = bulletIdx + 1
         ELSE UNCHANGED shots
      /\ UNCHANGED <<idx, clock, phase, itr, struck, stopped>>

StartMoving ==
  /\ phase = "players" /\ todo = {}
  /\ phase' = "moving" /\ itr' = 1
  /\ UNCHANGED <<registry, shots, clock, todo, struck, stopped>>

-----------------------------------------------------------------------------
(* update: the bullets move, and end at walls. *)

\* Mutated: pop_back() without the swap.
PopOnly(seq, k) == SubSeq(seq, 1, Len(seq) - 1)

\* Mutated: the last element is copied and stays.
CopyOnly(seq, k) == [i \in 1 .. Len(seq) |-> IF i = k THEN seq[Len(seq)] ELSE seq[i]]

\* "smart erase": std::swap with back(), then pop_back().
SmartErase(seq, k) == [i \in 1 .. Len(seq) - 1 |-> IF i = k THEN seq[Len(seq)] ELSE seq[i]]

\* Mutated: the loop goes on behind the element that took the erased one's place.
AfterEraseBehind(k) == k + 1

\* The place the loop goes on at: itr-- and the loop's own ++itr.
AfterErase(k) == k

MoveBullet ==
  LET moved == [bullets[itr] EXCEPT !.rect = BulletMoved(@, bullets[itr].dx, 0),
                                    !.timestamp = now]
  IN  /\ phase = "moving" /\ itr <= Len(bullets)
      /\ IF BulletHitsWall(map, moved.rect)
         THEN /\ bullets' = SmartErase([bullets EXCEPT ![itr] = moved], itr)
              /\ itr' = AfterErase(itr)
              /\ stopped' = stopped \cup {moved.id}
         ELSE /\ bullets' = [bullets EXCEPT ![itr] = moved]
              /\ itr' = itr + 1
              /\ UNCHANGED stopped
      /\ UNCHANGED <<registry, bulletIdx, clock, phase, todo, struck>>

StartHitting ==
  /\ phase = "moving" /\ itr > Len(bullets)
  /\ phase' = "hitting" /\ itr' = 1
  /\ UNCHANGED <<registry, shots, clock, todo, struck, stopped>>

-----------------------------------------------------------------------------
(* update: the bullets hit players. *)

Hits(bullet, entry) ==
  /\ bullet.timestamp - entry.input.timestamp \in -TickInterval .. TickInterval
  /\ entry.playerId # bullet.sender
  /\ CheckCollisionRecs(entry.rect, bullet.rect)

StartBullet ==
  /\ phase = "hitting" /\ itr <= Len(bullets)
  /\ phase' = "testing" /\ todo' = DOMAIN clients
  /\ UNCHANGED <<registry, shots, clock, itr, struck, stopped>>

\* Mutated: the loop over the clients goes on with what took the bullet's place.
BackBehind(k) == k

\* Only itr--: the loop over the clients goes on with the bullet before.
Back(k) == k - 1

Test(id) ==
  /\ phase = "testing" /\ id \in todo /\ itr \in DOMAIN bullets
  /\ todo' = todo \ {id}
  /\ IF Hits(bullets[itr], clients[id])
     THEN /\ bullets' = SmartErase(bullets, itr)
          /\ itr' = Back(itr)
          /\ clients' = [clients EXCEPT ![id].health = @ - 1]
          /\ struck' = struck \cup {[bullet |-> bullets[itr].id, victim |-> id]}
     ELSE UNCHANGED <<bullets, itr, clients, struck>>
  /\ UNCHANGED <<idx, bulletIdx, clock, phase, stopped>>

(***************************************************************************)
(* When the first bullet hits, the rest of the loop over the clients reads *)
(* in front of the vector.  What is there matches nobody, or the swap that *)
(* follows destroys the heap.                                              *)
(***************************************************************************)
TestWild(id) ==
  /\ phase = "testing" /\ id \in todo /\ itr \notin DOMAIN bullets
  /\ todo' = todo \ {id}
  /\ phase' \in {"testing", "crashed"}
  /\ UNCHANGED <<registry, shots, clock, itr, struck, stopped>>

NextBullet ==
  /\ phase = "testing" /\ todo = {}
  /\ phase' = "hitting" /\ itr' = itr + 1
  /\ UNCHANGED <<registry, shots, clock, todo, struck, stopped>>

-----------------------------------------------------------------------------
(* The loop of serve. *)

\* Mutated: the tick is counted, the clock is not.
TickTakenTwice ==
  /\ accumulate' = accumulate - TickInterval
  /\ UNCHANGED <<now, lastT>>

\* last_t is the time when the update was done, not the time it was due.
TickTaken ==
  /\ accumulate' = accumulate - TickInterval
  /\ \E work \in 0 .. MaxWork : now' = now + work
  /\ lastT' = now'

EndUpdate ==
  /\ phase = "hitting" /\ itr > Len(bullets)
  /\ TickTaken
  /\ ticks' = ticks + 1
  /\ phase' = "ticking"
  /\ UNCHANGED <<registry, shots, todo, itr, struck, stopped>>

\* The players of send_game_state and the bullets of send_bullet_state.
GameState ==
  [c \in DOMAIN clients |-> [id |-> clients[c].playerId, rect |-> clients[c].rect,
                             health |-> clients[c].health]]
BulletState ==
  LET sent == SubSeq(bullets, 1, Min({MaxBulletsPerPacket, Len(bullets)}))
  IN  [i \in DOMAIN sent |-> [sender |-> sent[i].sender, id |-> sent[i].id,
                              pos |-> sent[i].rect.x]]

Broadcasting == phase = "ticking" /\ accumulate < TickInterval

Broadcast ==
  /\ Broadcasting
  /\ phase' = "waiting"
  /\ UNCHANGED <<registry, shots, clock, todo, itr, struck, stopped>>

\* What the server does on its own until it waits again.
Turn ==
  \/ StartUpdate
  \/ \E id \in todo : MovePlayer(id)
  \/ StartMoving \/ MoveBullet \/ StartHitting
  \/ StartBullet
  \/ \E id \in todo : Test(id)
  \/ \E id \in todo : TestWild(id)
  \/ NextBullet
  \/ EndUpdate \/ Broadcast

Next == ReceivePacket \/ Turn

Spec == Init /\ [][Next]_vars

-----------------------------------------------------------------------------
Entry ==
  [rect : [x : Int, y : Int, w : {Spawn.w}, h : {Spawn.h}], health : Int,
   playerId : Int,
   input : [dx : Velocities \cup {0}, mouseDown : BOOLEAN, aim : Aims \cup {0}, timestamp : Int]]

BulletRecord ==
  [id : 0 .. bulletIdx - 1, sender : Int,
   rect : [x : Int, y : Int, w : {BulletSize}, h : {BulletSize}],
   dx : {-BulletStep, 0, BulletStep}, timestamp : Int, born : 0 .. ticks, start : Int]

Phases == {"waiting", "ticking", "players", "moving", "hitting", "testing", "crashed"}

TypeOK ==
  /\ DOMAIN clients \subseteq 0 .. idx - 1 /\ idx \in 0 .. MaxIds
  /\ clients \in [DOMAIN clients -> Entry]
  /\ bulletIdx \in Nat /\ bullets \in Seq(BulletRecord)
  /\ {now, lastT, accumulate} \subseteq Int /\ ticks \in Nat
  /\ phase \in Phases /\ todo \subseteq DOMAIN clients
  /\ itr \in 0 .. Len(bullets) + 1
  /\ struck \subseteq [bullet : 0 .. bulletIdx - 1, victim : 0 .. idx - 1]
  /\ stopped \subseteq 0 .. bulletIdx - 1

(***************************************************************************)
(* Every bullet moves exactly once in every tick, the one it was fired in  *)
(* included, whichever bullets the loop erases around it: its place is its *)
(* start and as many steps as there were ticks.                            *)
(***************************************************************************)
Moved(i) == IF phase \in {"hitting", "testing", "crashed"} \/ (phase = "moving" /\ i < itr)
            THEN 1 ELSE 0

BulletsFlyStraight ==
  \A i \in DOMAIN bullets :
    bullets[i].rect.x
      = bullets[i].start + bullets[i].dx * (ticks - bullets[i].born + Moved(i))

(***************************************************************************)
(* A bullet hurts at most one player, once, and is gone then: what is left *)
(* of a player's health is what no bullet took.                            *)
(***************************************************************************)
EveryHitCounted ==
  /\ \A h, g \in struck : h.bullet = g.bullet => h = g
  /\ \A h \in struck, i \in DOMAIN bullets : h.bullet # bullets[i].id
  /\ \A id \in DOMAIN clients :
       clients[id].health = FullHealth - Cardinality({h \in struck : h.victim = id})

(***************************************************************************)
(* No erasure loses or doubles a bullet: every bullet that was fired is in *)
(* bullet_state, or has hurt a player, or has ended at a wall, and only    *)
(* one of these; and no id is twice in bullet_state or in the packet cut   *)
(* from it, which render_bullets searches by id.                           *)
(***************************************************************************)
Flying(n) == \E i \in DOMAIN bullets : bullets[i].id = n
HasHurt(n) == \E h \in struck : h.bullet = n

NoBulletLost ==
  /\ \A n \in 0 .. bulletIdx - 1 : Flying(n) \/ HasHurt(n) \/ n \in stopped
  /\ \A n \in stopped : ~Flying(n) /\ ~HasHurt(n)
  /\ \A i, j \in DOMAIN bullets : bullets[i].id = bullets[j].id => i = j
  /\ \A i, j \in DOMAIN BulletState : BulletState[i].id = BulletState[j].id => i = j

(***************************************************************************)
(* The places the hit loop has passed hold no bullet that still hits a     *)
(* player, so at its end none is left: erasing hides none from the loop.   *)
(***************************************************************************)
HitsAreResolved ==
  phase = "hitting" =>
    \A i \in DOMAIN bullets, id \in DOMAIN clients :
      i < itr => ~Hits(bullets[i], clients[id])

(***************************************************************************)
(* A client that does not know its id yet takes a player without one for   *)
(* its own (client.cpp:240).  Such a player stands where every player      *)
(* spawns, unhurt, and has fired nothing, so no harm is done, but for the  *)
(* clients whose id an int8_t turns into -1 (the 256th, and every 256th    *)
(* after it): these are listed without an id for as long as they play.     *)
(***************************************************************************)
Nameless(c) == Narrow(c) = NoId

UnknownAreFresh ==
  /\ Broadcasting =>
       \A c \in DOMAIN GameState :
         GameState[c].id = NoId /\ ~Nameless(c) =>
           GameState[c].rect = Spawn /\ GameState[c].health = FullHealth
  /\ \A i \in DOMAIN bullets :
       bullets[i].sender = NoId => \E c \in 0 .. idx - 1 : Nameless(c)

(***************************************************************************)
(* The simulation never runs ahead of the clock: however packets arrive    *)
(* and ticks are caught up, there were no more ticks than intervals.       *)
(***************************************************************************)
NeverAheadOfClock == ticks * TickInterval <= now - Boot

(***************************************************************************)
(* Every turn ends, although the loops step their iterator back: each step *)
(* on the way leaves fewer ticks, loops, bullets or clients to go.         *)
(***************************************************************************)
Stage == CASE phase = "ticking" -> 4 [] phase = "players" -> 3 [] phase = "moving" -> 2
           [] phase \in {"hitting", "testing"} -> 1 [] OTHER -> 0

BulletsToGo == 2 * (Len(bullets) - itr) + (IF phase = "testing" THEN 0 ELSE 1)

Before(a, b) ==
  \E i \in DOMAIN a : a[i] < b[i] /\ \A j \in 1 .. i - 1 : a[j] = b[j]

ToGo ==
  <<accumulate, Stage,
    IF phase \in {"moving", "hitting", "testing"} THEN BulletsToGo ELSE 0,
    IF phase \in {"players", "testing"} THEN Cardinality(todo) ELSE 0>>

TurnsEnd == [][phase # "waiting" => accumulate >= 0 /\ Before(ToGo', ToGo)]_vars

(***************************************************************************)
(* "check if bullets hit any clients" (server.cpp:217): what is compared   *)
(* with a client is a bullet.  Does not hold.                              *)
(***************************************************************************)
OnlyBulletsTested == phase = "testing" /\ todo # {} => itr \in DOMAIN bullets
=============================================================================
