--------------------------------- MODULE Walk ---------------------------------
(***************************************************************************)
(* One player and one bullet on a map: any sequence of player_update and   *)
(* bullet_update calls with displacements the speeds and time steps allow. *)
(* The two do not meet here, so the player waits while the bullet flies.   *)
(***************************************************************************)
EXTENDS GameMap, FiniteSets

CONSTANTS
  Maps,          \* a sequence of maps to walk on
  Rooms,         \* for each of them, tiles around the spawn that walls close off
  Spawn,         \* the player's first rectangle
  BulletSize,
  Steps,         \* displacements of a player along an axis in one update
  Speeds         \* displacements of a bullet along an axis in one update

\* A room keeps off the edges of the map, and whatever is next to a tile of it,
\* cornerwise too, is in the room as well or a wall.
ClosedByWalls(m, room) ==
  \A i \in room :
    /\ i \div m.width \in 1 .. m.height - 2 /\ i % m.width \in 1 .. m.width - 2
    /\ \A a, b \in {-1, 0, 1} :
         i + a * m.width + b \in room \cup GetTilesWithProperty(m, "blocked")

TileAt(m, x, y) == (y \div m.tileHeight) * m.width + x \div m.tileWidth

LiesIn(m, room, r) ==
  \A x \in r.x .. r.x + r.w - 1, y \in r.y .. r.y + r.h - 1 : TileAt(m, x, y) \in room

\* Nothing moves by more than a tile, and a bullet fired at the edge of its
\* shooter sticks out of it by less than a tile after its first step.
WithinATile(m) ==
  /\ \A d \in Steps \cup Speeds :
       /\ -m.tileWidth <= d /\ d <= m.tileWidth
       /\ -m.tileHeight <= d /\ d <= m.tileHeight
  /\ \A d \in Speeds :
       /\ Spawn.w \div 2 + BulletSize + d <= Spawn.w + m.tileWidth
       /\ Spawn.h \div 2 + BulletSize + d <= Spawn.h + m.tileHeight

ASSUME WalkAssumption ==
  /\ Maps \in Seq(ToSet(Maps))
  /\ Spawn = Rect(Spawn.x, Spawn.y, Spawn.w, Spawn.h)
  /\ {Spawn.x, Spawn.y} \cup Steps \cup Speeds \subseteq Int
  /\ {Spawn.w, Spawn.h, BulletSize} \subseteq Nat \ {0}
  /\ \A n \in DOMAIN Maps :
       /\ WholeMap(Maps[n])
       /\ Rooms[n] \subseteq Int /\ ClosedByWalls(Maps[n], Rooms[n])
       /\ LiesIn(Maps[n], Rooms[n], Spawn)
       /\ \A l \in DOMAIN Maps[n].layers : Maps[n].layers[l].visible
       /\ InBounds(Maps[n], Spawn) /\ WithinATile(Maps[n])

VARIABLES
  world,         \* the map's place in Maps
  player,        \* PlayerState::rect
  bullets        \* the bullet in flight, if any: its rectangle and displacement

vars == <<world, player, bullets>>

\* (TLC evaluates this one once.)
Atlas == Maps

map == Atlas[world]

\* Where the walls of each map are, by the other way to ask a map for them.
Solid == <<>> \o [n \in DOMAIN Atlas |->
            {SetTileRect(Atlas[n], i) : i \in GetTilesWithProperty(Atlas[n], "blocked")}]

Blocked(r) == \E wall \in Solid[world] : CheckCollisionRecs(wall, r)

Init ==
  /\ world \in {n \in DOMAIN Atlas : \A wall \in Solid[n] : ~CheckCollisionRecs(wall, Spawn)}
  /\ player = Spawn
  /\ bullets = {}

Move(dx, dy) ==
  /\ bullets = {}
  /\ player' = PlayerUpdate(map, player, dx, dy)
  /\ UNCHANGED <<world, bullets>>

Flown(rect, dx, dy) ==
  LET moved == BulletMoved(rect, dx, dy)
  IN  /\ bullets' = IF BulletHitsWall(map, moved) THEN {}
                    ELSE {[rect |-> moved, dx |-> dx, dy |-> dy]}
      /\ UNCHANGED <<world, player>>

\* A bullet starts in the middle of the player and is moved by the same update.
Shoot(dx, dy) ==
  /\ bullets = {}
  /\ Flown(Rect(player.x + player.w \div 2, player.y + player.h \div 2,
                BulletSize, BulletSize), dx, dy)

Fly == \E b \in bullets : Flown(b.rect, b.dx, b.dy)

Next ==
  \/ \E dx, dy \in Steps : Move(dx, dy)
  \/ \E dx, dy \in Speeds : Shoot(dx, dy)
  \/ Fly

Spec == Init /\ [][Next]_vars

-----------------------------------------------------------------------------
TypeOK ==
  /\ world \in DOMAIN Maps
  /\ player = Rect(player.x, player.y, Spawn.w, Spawn.h)
  /\ player.x \in 0 .. map.width * map.tileWidth /\ player.y \in 0 .. map.height * map.tileHeight
  /\ Cardinality(bullets) <= 1

(***************************************************************************)
(* From a room closed by walls no sequence of moves gets a player out,     *)
(* into a wall or off the map, where nothing would be a wall any more; and *)
(* a bullet ends with the first step that gets it into a wall, or it would *)
(* fly on for ever in a vector that never shrinks.                         *)
(***************************************************************************)
NeverInWall ==
  \A r \in {player} \cup {b.rect : b \in bullets} :
    ~Blocked(r) /\ InBounds(map, r) /\ LiesIn(map, Rooms[world], r)

(***************************************************************************)
(* "resolve movement axes separately": a move ends where a player would    *)
(* who walks the displacement pixel by pixel, first along x, then along y, *)
(* and stops where the next pixel is blocked.  Whatever the walls around   *)
(* it, it neither stops short, nor is pushed through, nor slides.          *)
(***************************************************************************)
Sign(n) == IF n > 0 THEN 1 ELSE IF n < 0 THEN -1 ELSE 0

NextPixel(s, dx, dy) ==
  LET next == [s EXCEPT !.x = @ + Sign(dx), !.y = @ + Sign(dy)]
  IN  IF Blocked(next) THEN s ELSE next

Far(dx, dy) == IF dx + dy > 0 THEN dx + dy ELSE -(dx + dy)

Walked(r, dx, dy) ==
  FoldLeft(LAMBDA s, k : NextPixel(s, dx, dy), r, [k \in 1 .. Far(dx, dy) |-> k])

WalksPixelByPixel == bullets = {} =>
  \A dx, dy \in Steps :
    PlayerUpdate(map, player, dx, dy)
      = Walked(Walked(player, dx, 0), 0, dy)
=============================================================================
