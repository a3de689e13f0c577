-------------------------------- MODULE GameMap --------------------------------
(***************************************************************************)
(* GameMap (src/map/map.cpp) and what moves on it: player_update and       *)
(* bullet_update.  A map is what the TMX loader leaves: its size in tiles, *)
(* the tile size in pixels, layers of tiles in row-major order, tilesets.  *)
(*   tile     [gid, tilesetIndex, tileFlatIndex]                           *)
(*   layer    [visible, width, tiles]                                      *)
(*   tileset  [definitions]: flat index -> set of property names           *)
(* Coordinates are whole pixels, a displacement is vel * dt.               *)
(***************************************************************************)
EXTENDS Integers, Sequences, SequencesExt

\* What GameMap takes for granted: every layer is there, all of it.
WholeMap(m) ==
  /\ {m.width, m.height, m.tileWidth, m.tileHeight} \subseteq Nat \ {0}
  /\ m.layers \in Seq(ToSet(m.layers))
  /\ \A l \in DOMAIN m.layers :
       /\ m.layers[l].width = m.width
       /\ m.layers[l].tiles \in Seq(ToSet(m.layers[l].tiles))
       /\ Len(m.layers[l].tiles) = m.width * m.height

Rect(x, y, w, h) == [x |-> x, y |-> y, w |-> w, h |-> h]

\* raylib: rectangles that only touch do not collide.
CheckCollisionRecs(r, s) ==
  /\ r.x < s.x + s.w /\ s.x < r.x + r.w
  /\ r.y < s.y + s.h /\ s.y < r.y + r.h

SetTileRect(m, i) ==
  Rect((i % m.width) * m.tileWidth, (i \div m.width) * m.tileHeight,
       m.tileWidth, m.tileHeight)

ContainsProperty(m, tile, property) ==
  LET definitions == m.tilesets[tile.tilesetIndex + 1].definitions
  IN  /\ tile.tileFlatIndex \in DOMAIN definitions
      /\ property \in definitions[tile.tileFlatIndex]

InBounds(m, r) ==
  /\ r.x >= 0 /\ r.x + r.w <= m.width * m.tileWidth
  /\ r.y >= 0 /\ r.y + r.h <= m.height * m.tileHeight

\* Mutated: the last column and row are taken for exclusive bounds.
LastTileExclusive(from, size, unit, count) == (from + size) \div unit - 1

\* The last column (or row) of tiles that size pixels from from on lie over.
LastTile(from, size, unit, count) ==
  LET last == (from + size) \div unit
  IN  IF last < count THEN last ELSE count - 1

(***************************************************************************)
(* The indices of the tiles of a layer around r, row by row, that func     *)
(* accepts: in both callers, those with a property.  Blank tiles are       *)
(* passed over, and whole layers when they are invisible.                  *)
(***************************************************************************)
Counts(m, layer, i, property) ==
  /\ layer.tiles[i + 1].gid # 0
  /\ ContainsProperty(m, layer.tiles[i + 1], property)

Around(m, layer, r) ==
  LET left == r.x \div m.tileWidth
      top == r.y \div m.tileHeight
      columns == LastTile(r.x, r.w, m.tileWidth, m.width) - left + 1
      rows == LastTile(r.y, r.h, m.tileHeight, m.height) - top + 1
  IN  [k \in 1 .. rows * columns |->
         (top + (k - 1) \div columns) * layer.width + left + ((k - 1) % columns)]

TilesOf(m, layer, r, property) ==
  IF layer.visible
  THEN FoldLeft(LAMBDA found, i : IF Counts(m, layer, i, property)
                                  THEN Append(found, i) ELSE found,
                <<>>, Around(m, layer, r))
  ELSE <<>>

\* A rectangle that is not entirely on the map meets nothing.
GetIntersectRects(m, r, property) ==
  IF InBounds(m, r)
  THEN FoldLeft(LAMBDA found, layer : found \o TilesOf(m, layer, r, property),
                <<>>, m.layers)
  ELSE <<>>

\* The collision rectangles both updates ask for: the blocked tiles around r.
Walls(m, r) ==
  LET found == GetIntersectRects(m, r, "blocked")
  IN  [i \in DOMAIN found |-> SetTileRect(m, found[i])]

\* Every tile of a map with a property, visible or not.
GetTilesWithProperty(m, property) ==
  UNION {{i - 1 : i \in {j \in DOMAIN layer.tiles :
                           /\ layer.tiles[j].gid # 0
                           /\ ContainsProperty(m, layer.tiles[j], property)}} :
         layer \in ToSet(m.layers)}

-----------------------------------------------------------------------------
\* player_update moves and resolves one axis, then the other.

PushedBack(r, wall, dx, dy) ==
  [r EXCEPT !.x = IF dx < 0 THEN wall.x + wall.w ELSE IF dx > 0 THEN wall.x - r.w ELSE @,
            !.y = IF dy < 0 THEN wall.y + wall.h ELSE IF dy > 0 THEN wall.y - r.h ELSE @]

\* Each wall in turn, against where the walls before it have left the player.
AxisMove(m, r, dx, dy) ==
  LET moved == [r EXCEPT !.x = @ + dx, !.y = @ + dy]
  IN  FoldLeft(LAMBDA s, wall : IF CheckCollisionRecs(wall, s)
                                THEN PushedBack(s, wall, dx, dy) ELSE s,
               moved, Walls(m, moved))

\* Mutated: both axes at once.
PlayerUpdateAtOnce(m, r, dx, dy) == AxisMove(m, r, dx, dy)

PlayerUpdate(m, r, dx, dy) == AxisMove(m, AxisMove(m, r, dx, 0), 0, dy)

BulletMoved(r, dx, dy) == [r EXCEPT !.x = @ + dx, !.y = @ + dy]

\* What bullet_update returns: does the moved bullet lie over a wall?
BulletHitsWall(m, r) == \E i \in DOMAIN Walls(m, r) : CheckCollisionRecs(Walls(m, r)[i], r)
=============================================================================
