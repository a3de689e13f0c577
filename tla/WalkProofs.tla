------------------------------- MODULE WalkProofs -------------------------------
(***************************************************************************)
(* What is proved of Walk, for every choice of maps with a room closed by  *)
(* walls and of displacements that are no longer than a tile.              *)
(***************************************************************************)
EXTENDS Walk, OperatorFacts

\* WalkAssumption, for one map.
LEMMA MapAssumed ==
  ASSUME NEW n \in DOMAIN Maps
  PROVE  /\ WholeMap(Maps[n])
         /\ Rooms[n] \subseteq Int /\ ClosedByWalls(Maps[n], Rooms[n])
         /\ LiesIn(Maps[n], Rooms[n], Spawn)
         /\ \A l \in DOMAIN Maps[n].layers : Maps[n].layers[l].visible
         /\ InBounds(Maps[n], Spawn) /\ WithinATile(Maps[n])
BY WalkAssumption

LEMMA SizesAssumed ==
  /\ Spawn \in Rects /\ Spawn.w \in Nat \ {0} /\ Spawn.h \in Nat \ {0} /\ BulletSize \in Nat \ {0}
  /\ Steps \subseteq Int /\ Speeds \subseteq Int
<1>1. /\ Spawn.x \in Int /\ Spawn.y \in Int /\ Steps \subseteq Int /\ Speeds \subseteq Int
      /\ Spawn.w \in Nat \ {0} /\ Spawn.h \in Nat \ {0} /\ BulletSize \in Nat \ {0}
      /\ Spawn = Rect(Spawn.x, Spawn.y, Spawn.w, Spawn.h)
  BY WalkAssumption
<1>2. Spawn \in Rects
  BY <1>1 DEF Rect, Rects
<1> QED
  BY <1>1, <1>2

-----------------------------------------------------------------------------
(* The walls, asked for in either way. *)

LEMMA SameTiles ==
  ASSUME NEW m, WholeMap(m), \A l \in DOMAIN m.layers : m.layers[l].visible
  PROVE  GetTilesWithProperty(m, "blocked") = {i \in TileIndices(m) : Accepted(m, i, "blocked")}
<1> DEFINE Of(layer) == {i - 1 : i \in {j \in DOMAIN layer.tiles :
                           /\ layer.tiles[j].gid # 0
                           /\ ContainsProperty(m, layer.tiles[j], "blocked")}}
<1>1. m.width * m.height \in Nat /\ \E S : m.layers \in Seq(S)
  BY WholeMapTypes
<1>2. ToSet(m.layers) = {m.layers[l] : l \in DOMAIN m.layers}
  BY DEF ToSet
<1>3. \A l \in DOMAIN m.layers : DOMAIN m.layers[l].tiles = 1 .. m.width * m.height
  BY DEF WholeMap
<1>4. ASSUME NEW l \in DOMAIN m.layers, NEW i
      PROVE  i \in Of(m.layers[l])
               <=> i \in TileIndices(m) /\ Counts(m, m.layers[l], i, "blocked")
  <2> DEFINE layer == m.layers[l]
             size == m.width * m.height
             Is(j) == /\ layer.tiles[j].gid # 0
                      /\ ContainsProperty(m, layer.tiles[j], "blocked")
  <2>1. Counts(m, layer, i, "blocked") <=> Is(i + 1)
    BY DEF Counts
  <2>2. Of(layer) = {j - 1 : j \in {k \in 1 .. size : Is(k)}}
    BY <1>3
  <2>3. size \in Nat /\ TileIndices(m) = 0 .. size - 1
    BY <1>1 DEF TileIndices
  <2> HIDE DEF layer, size, Is, Of
  <2>4. ASSUME NEW j \in 1 .. size, Is(j), i = j - 1
        PROVE  i \in 0 .. size - 1 /\ Is(i + 1)
    <3>1. i \in 0 .. size - 1 /\ i + 1 = j
      BY <2>3, <2>4
    <3> QED
      BY <2>4, <3>1
  <2>5. ASSUME i \in 0 .. size - 1, Is(i + 1)
        PROVE  \E j \in 1 .. size : Is(j) /\ i = j - 1
    <3>1. i + 1 \in 1 .. size /\ i = (i + 1) - 1
      BY <2>3, <2>5
    <3> QED
      BY <2>5, <3>1
  <2>6. i \in Of(layer) <=> \E j \in 1 .. size : Is(j) /\ i = j - 1
    BY <2>2
  <2>7. i \in Of(layer) <=> i \in TileIndices(m) /\ Counts(m, layer, i, "blocked")
    BY <2>1, <2>3, <2>4, <2>5, <2>6
  <2> QED
    BY <2>7 DEF layer
<1>5. GetTilesWithProperty(m, "blocked") = UNION {Of(layer) : layer \in ToSet(m.layers)}
  BY DEF GetTilesWithProperty
<1> HIDE DEF Of
<1>6. \A i : i \in GetTilesWithProperty(m, "blocked")
               <=> \E l \in DOMAIN m.layers : i \in Of(m.layers[l])
  BY <1>2, <1>5
<1>7. \A i : i \in GetTilesWithProperty(m, "blocked")
               <=> i \in TileIndices(m) /\ Accepted(m, i, "blocked")
  BY <1>4, <1>6 DEF Accepted
<1> QED
  BY <1>7

\* What is blocked by Solid is what is not clear.
LEMMA BlockedIsNotClear ==
  ASSUME NEW n \in DOMAIN Maps
  PROVE  Solid[n] = WallRects(Maps[n])
<1> DEFINE solid == [k \in DOMAIN Atlas |->
                       {SetTileRect(Atlas[k], i) : i \in GetTilesWithProperty(Atlas[k], "blocked")}]
           S == {solid[k] : k \in DOMAIN Atlas}
<1>1. Atlas = Maps /\ DOMAIN Maps = 1 .. Len(Maps) /\ Len(Maps) \in Nat
  BY WalkAssumption DEF Atlas
<1>2. solid \in Seq(S)
  BY <1>1
<1>3. Solid = <<>> \o solid
  BY DEF Solid
<1>4. solid[n] = {SetTileRect(Maps[n], i) : i \in GetTilesWithProperty(Maps[n], "blocked")}
  BY <1>1
<1> HIDE DEF solid, S
<1>5. Solid = solid
  BY <1>2, <1>3, ConcatEmptySeq
<1>6. GetTilesWithProperty(Maps[n], "blocked")
        = {i \in TileIndices(Maps[n]) : Accepted(Maps[n], i, "blocked")}
  BY MapAssumed, SameTiles
<1> QED
  BY <1>4, <1>5, <1>6 DEF WallRects

-----------------------------------------------------------------------------
(* A room closed by walls. *)

OnFloor(m, r) == r \in Rects /\ InBounds(m, r) /\ Clear(m, r)

InRoom(m, room, r) == OnFloor(m, r) /\ LiesIn(m, room, r)

Closed(m, room) ==
  /\ WholeMap(m) /\ \A l \in DOMAIN m.layers : m.layers[l].visible
  /\ room \subseteq Int /\ ClosedByWalls(m, room)

\* Where in a row of tiles a pixel is.
LEMMA TileUnder ==
  ASSUME NEW a \in Int, NEW unit \in Nat \ {0}, NEW count \in Nat \ {0}, 0 <= a, a < count * unit
  PROVE  LET q == a \div unit
         IN  q \in 0 .. count - 1 /\ q * unit <= a /\ a < q * unit + unit
<1> DEFINE q == a \div unit
<1>1. q \in Int /\ a % unit = a - unit * q /\ a % unit \in 0 .. unit - 1
  BY Division
<1>2. unit * 0 = 0 /\ unit * count = count * unit
  BY Distributes
<1>3. 0 <= q
  BY <1>2, TileOrder
<1>4. q < count
  <2>1. a < unit * count
    BY <1>2
  <2> QED
    BY <2>1, TileOrder
<1> DEFINE rest == a % unit
           first == q * unit
<1>5. first \in Int /\ rest = a - first /\ rest \in 0 .. unit - 1
  <2> HIDE DEF q
  <2>1. unit * q = q * unit /\ q * unit \in Int
    BY <1>1, Distributes
  <2> QED
    BY <1>1, <2>1
<1> HIDE DEF rest, first, q
<1>6. first <= a /\ a < first + unit
  BY <1>5
<1>7. q \in 0 .. count - 1
  BY <1>1, <1>3, <1>4
<1> QED
  BY <1>6, <1>7 DEF first, q

\* The tile under a pixel of the map: which one, and where.
LEMMA TileAtPlace ==
  ASSUME NEW m, WholeMap(m), NEW x \in Int, NEW y \in Int,
         0 <= x, x < m.width * m.tileWidth, 0 <= y, y < m.height * m.tileHeight
  PROVE  LET i == TileAt(m, x, y)
             column == x \div m.tileWidth
             row == y \div m.tileHeight
         IN  /\ i \in TileIndices(m) /\ i % m.width = column /\ i \div m.width = row
             /\ i = row * m.width + column /\ row * m.width \in Int
             /\ column \in 0 .. m.width - 1 /\ row \in 0 .. m.height - 1
             /\ column * m.tileWidth <= x /\ x < column * m.tileWidth + m.tileWidth
             /\ row * m.tileHeight <= y /\ y < row * m.tileHeight + m.tileHeight
             /\ SetTileRect(m, i) = Rect(column * m.tileWidth, row * m.tileHeight,
                                         m.tileWidth, m.tileHeight)
<1> DEFINE W == m.width
           H == m.height
           i == TileAt(m, x, y)
           column == x \div m.tileWidth
           row == y \div m.tileHeight
<1>1. W \in Nat \ {0} /\ H \in Nat \ {0} /\ m.tileWidth \in Nat \ {0} /\ m.tileHeight \in Nat \ {0}
  BY WholeMapTypes
<1>2. /\ column \in 0 .. W - 1 /\ row \in 0 .. H - 1
      /\ column * m.tileWidth <= x /\ x < column * m.tileWidth + m.tileWidth
      /\ row * m.tileHeight <= y /\ y < row * m.tileHeight + m.tileHeight
  BY <1>1, TileUnder
<1>3. i = row * W + column
  BY DEF TileAt
<1> HIDE DEF W, H, i, column, row
<1>4. row * W = W * row /\ row * W \in Int /\ H * W = W * H
  BY <1>1, <1>2, Distributes
<1>5. i = W * row + column
  BY <1>3, <1>4
<1>6. i \in 0 .. H * W - 1 /\ i \div W = row /\ i % W = column
  <2>1. /\ W * row + column \in 0 .. H * W - 1
        /\ (W * row + column) \div W = row /\ (W * row + column) % W = column
    <3>1. W \in Nat \ {0} /\ H \in Nat /\ row \in 0 .. H - 1 /\ column \in 0 .. W - 1
      BY <1>1, <1>2
    <3> QED
      BY <3>1, PlaceInTable
  <2> QED
    BY <1>5, <2>1
<1>7. i \in TileIndices(m)
  BY <1>4, <1>6 DEF TileIndices, W, H
<1>8. SetTileRect(m, i) = Rect(column * m.tileWidth, row * m.tileHeight, m.tileWidth, m.tileHeight)
  BY <1>6 DEF SetTileRect, W
<1> QED
  BY <1>2, <1>3, <1>4, <1>6, <1>7, <1>8 DEF W, H, i, column, row

\* Who is in a room keeps a tile away from the edges of the map.
LEMMA AwayFromEdges ==
  ASSUME NEW m, NEW room, Closed(m, room), NEW r, InRoom(m, room, r)
  PROVE  /\ m.tileWidth <= r.x /\ r.x + r.w <= m.width * m.tileWidth - m.tileWidth
         /\ m.tileHeight <= r.y /\ r.y + r.h <= m.height * m.tileHeight - m.tileHeight
<1> DEFINE W == m.width
           H == m.height
           tw == m.tileWidth
           th == m.tileHeight
           width == W * tw
           height == H * th
<1>1. /\ W \in Nat \ {0} /\ H \in Nat \ {0} /\ tw \in Nat \ {0} /\ th \in Nat \ {0}
      /\ WholeMap(m)
  BY WholeMapTypes DEF Closed
<1>2. /\ r.x \in Int /\ r.y \in Int /\ r.w \in Nat \ {0} /\ r.h \in Nat \ {0}
      /\ r.x >= 0 /\ r.x + r.w <= width /\ r.y >= 0 /\ r.y + r.h <= height
  BY DEF InRoom, OnFloor, Rects, InBounds
<1>3. width \in Int /\ height \in Int
  BY <1>1, Distributes
<1>4. ASSUME NEW x \in r.x .. r.x + r.w - 1, NEW y \in r.y .. r.y + r.h - 1
      PROVE  tw <= x /\ x < width - tw /\ th <= y /\ y < height - th
  <2> DEFINE i == TileAt(m, x, y)
             column == x \div tw
             row == y \div th
             left == column * tw
             top == row * th
  <2>1. i \in room
    BY DEF InRoom, LiesIn
  <2>2. /\ x \in Int /\ y \in Int /\ 0 <= x /\ x < width /\ 0 <= y /\ y < height
    <3> HIDE DEF width, height, tw, th
    <3> QED
      BY <1>2, <1>3
  <2>3. /\ i % W = column /\ i \div W = row
        /\ left <= x /\ x < left + tw /\ top <= y /\ y < top + th
        /\ column \in 0 .. W - 1 /\ row \in 0 .. H - 1
    BY <1>1, <2>2, TileAtPlace
  <2>4. row \in 1 .. H - 2 /\ column \in 1 .. W - 2
    BY <2>1, <2>3 DEF Closed, ClosedByWalls
  <2> HIDE DEF i, column, row, left, top
  <2>5. /\ tw * 1 <= tw * column /\ tw * column <= tw * (W - 2)
        /\ th * 1 <= th * row /\ th * row <= th * (H - 2)
    <3> HIDE DEF W, H, tw, th, width, height
    <3>1. column \in Int /\ row \in Int /\ W - 2 \in Int /\ H - 2 \in Int /\ 1 \in Int
          /\ 1 <= column /\ column <= W - 2 /\ 1 <= row /\ row <= H - 2
          /\ tw \in Nat /\ th \in Nat
      BY <1>1, <2>4
    <3> QED
      BY <3>1, ProductOrder
  <2>6. /\ tw * 1 = tw /\ th * 1 = th /\ tw * column = left /\ th * row = top
        /\ left \in Int /\ top \in Int
        /\ tw * (W - 2) = width - 2 * tw /\ th * (H - 2) = height - 2 * th
    <3>1. /\ tw * column = column * tw /\ th * row = row * th
          /\ tw * column \in Int /\ th * row \in Int
          /\ tw * (W - 2) = tw * W - tw * 2 /\ th * (H - 2) = th * H - th * 2
          /\ tw * W = W * tw /\ th * H = H * th
          /\ tw * 2 = 2 * tw /\ th * 2 = 2 * th
      <4> HIDE DEF W, H, tw, th
      <4>1. column \in Int /\ row \in Int /\ W \in Int /\ H \in Int /\ tw \in Int /\ th \in Int /\ 2 \in Int
        BY <1>1, <2>4
      <4> QED
        BY <4>1, Distributes
    <3>2. tw * 1 = tw /\ th * 1 = th
      BY <1>1
    <3> QED
      BY <3>1, <3>2 DEF left, top
  <2> HIDE DEF W, H, tw, th, width, height
  <2>7. tw <= left /\ left <= width - 2 * tw /\ th <= top /\ top <= height - 2 * th
    BY <2>5, <2>6
  <2>8. tw \in Nat /\ th \in Nat
    BY <1>1
  <2> QED
    BY <1>3, <2>2, <2>3, <2>6, <2>7, <2>8
<1> HIDE DEF W, H, tw, th, width, height
<1>5. /\ r.x \in r.x .. r.x + r.w - 1 /\ r.x + r.w - 1 \in r.x .. r.x + r.w - 1
      /\ r.y \in r.y .. r.y + r.h - 1 /\ r.y + r.h - 1 \in r.y .. r.y + r.h - 1
  BY <1>2
<1>6. tw <= r.x /\ r.x + r.w - 1 < width - tw /\ th <= r.y /\ r.y + r.h - 1 < height - th
  BY <1>4, <1>5
<1>7. tw <= r.x /\ r.x + r.w <= width - tw /\ th <= r.y /\ r.y + r.h <= height - th
  BY <1>1, <1>2, <1>3, <1>6
<1> QED
  BY <1>7 DEF W, H, tw, th, width, height

\* From a pixel of an extent, the nearest one of another that begins and ends
\* no more than a tile before or after it is in the same tile or the next one.
LEMMA NextTile ==
  ASSUME NEW unit \in Nat \ {0}, NEW p \in Int, NEW w \in Nat \ {0},
         NEW q \in Int, NEW v \in Nat \ {0}, p - unit <= q, q + v <= p + w + unit,
         NEW b \in q .. q + v - 1
  PROVE  \E a \in p .. p + w - 1 : (b \div unit) - (a \div unit) \in {-1, 0, 1}
<1>1. \E a \in p .. p + w - 1 : b - unit <= a /\ a <= b + unit
  <2>1. CASE b < p
    BY <2>1
  <2>2. CASE b > p + w - 1
    BY <2>2
  <2>3. CASE p <= b /\ b <= p + w - 1
    BY <2>3
  <2> QED
    BY <2>1, <2>2, <2>3
<1>2. PICK a \in p .. p + w - 1 : b - unit <= a /\ a <= b + unit
  BY <1>1
<1> DEFINE k == a \div unit
           n == b \div unit
<1>3. /\ k \in Int /\ unit * k <= a /\ a < unit * k + unit
      /\ n \in Int /\ unit * n <= b /\ b < unit * n + unit
      /\ a \in Int /\ b \in Int
  <2>1. a \in Int /\ b \in Int
    OBVIOUS
  <2>2. /\ k \in Int /\ a % unit \in 0 .. unit - 1 /\ a % unit = a - unit * k
        /\ n \in Int /\ b % unit \in 0 .. unit - 1 /\ b % unit = b - unit * n
    BY <2>1, Division
  <2> DEFINE first == unit * k
             second == unit * n
             rest == a % unit
             more == b % unit
  <2>3. first \in Int /\ second \in Int
    BY <2>2, Distributes
  <2> HIDE DEF first, second, rest, more, k, n
  <2>4. first <= a /\ a < first + unit /\ second <= b /\ b < second + unit
    BY <2>1, <2>2, <2>3 DEF first, second, rest, more
  <2> QED
    BY <2>1, <2>2, <2>4 DEF first, second
<1> HIDE DEF k, n
<1>4. n <= k + 1
  <2>1. unit * (k + 2) = unit * k + unit * 2
    BY <1>3, Distributes
  <2>2. CASE n >= k + 2
    <3>1. unit * (k + 2) <= unit * n
      BY <1>3, <2>2, ProductOrder
    <3> QED
      BY <1>2, <1>3, <2>1, <3>1
  <2> QED
    BY <1>3, <2>2
<1>5. k <= n + 1
  <2>1. unit * (n + 2) = unit * n + unit * 2
    BY <1>3, Distributes
  <2>2. CASE k >= n + 2
    <3>1. unit * (n + 2) <= unit * k
      BY <1>3, <2>2, ProductOrder
    <3> QED
      BY <1>2, <1>3, <2>1, <3>1
  <2> QED
    BY <1>3, <2>2
<1>6. n - k \in {-1, 0, 1}
  BY <1>3, <1>4, <1>5
<1> QED
  BY <1>6 DEF k, n

\* Who is in a room does not leave it by a tile.
LEMMA StaysInRoom ==
  ASSUME NEW m, NEW room, Closed(m, room), NEW r, InRoom(m, room, r), NEW s, OnFloor(m, s),
         r.x - m.tileWidth <= s.x, s.x + s.w <= r.x + r.w + m.tileWidth,
         r.y - m.tileHeight <= s.y, s.y + s.h <= r.y + r.h + m.tileHeight
  PROVE  InRoom(m, room, s)
<1> SUFFICES ASSUME NEW x \in s.x .. s.x + s.w - 1, NEW y \in s.y .. s.y + s.h - 1
             PROVE  TileAt(m, x, y) \in room
  BY DEF InRoom, LiesIn
<1> DEFINE W == m.width
           tw == m.tileWidth
           th == m.tileHeight
           width == m.width * m.tileWidth
           height == m.height * m.tileHeight
<1>1. /\ W \in Nat \ {0} /\ tw \in Nat \ {0} /\ th \in Nat \ {0} /\ WholeMap(m)
      /\ width \in Int /\ height \in Int
  BY WholeMapTypes, Distributes DEF Closed
<1>2. /\ r.x \in Int /\ r.y \in Int /\ r.w \in Nat \ {0} /\ r.h \in Nat \ {0}
      /\ s.x \in Int /\ s.y \in Int /\ s.w \in Nat \ {0} /\ s.h \in Nat \ {0}
      /\ r.x >= 0 /\ r.x + r.w <= width /\ r.y >= 0 /\ r.y + r.h <= height
      /\ s.x >= 0 /\ s.x + s.w <= width /\ s.y >= 0 /\ s.y + s.h <= height
  BY DEF InRoom, OnFloor, Rects, InBounds
<1>3. /\ r.x - tw <= s.x /\ s.x + s.w <= r.x + r.w + tw
      /\ r.y - th <= s.y /\ s.y + s.h <= r.y + r.h + th
  OBVIOUS
<1> HIDE DEF tw, th, width, height, W
<1>4. PICK a \in r.x .. r.x + r.w - 1 : (x \div tw) - (a \div tw) \in {-1, 0, 1}
  BY <1>1, <1>2, <1>3, NextTile
<1>5. PICK b \in r.y .. r.y + r.h - 1 : (y \div th) - (b \div th) \in {-1, 0, 1}
  BY <1>1, <1>2, <1>3, NextTile
<1>6. /\ x \in Int /\ 0 <= x /\ x < width /\ y \in Int /\ 0 <= y /\ y < height
      /\ a \in Int /\ 0 <= a /\ a < width /\ b \in Int /\ 0 <= b /\ b < height
  BY <1>1, <1>2
<1> DEFINE i == TileAt(m, x, y)
           j == TileAt(m, a, b)
           column == x \div tw
           row == y \div th
           left == column * tw
           top == row * th
           near == a \div tw
           level == b \div th
<1>7. /\ i \in TileIndices(m) /\ i = row * W + column /\ row * W \in Int /\ row \in Int /\ column \in Int
      /\ SetTileRect(m, i) = Rect(left, top, tw, th)
      /\ left <= x /\ x < left + tw /\ top <= y /\ y < top + th
      /\ left \in Int /\ top \in Int
  <2>1. /\ i \in TileIndices(m) /\ i = row * W + column /\ row * W \in Int
        /\ row \in 0 .. m.height - 1 /\ column \in 0 .. W - 1
        /\ SetTileRect(m, i) = Rect(left, top, tw, th)
        /\ left <= x /\ x < left + tw /\ top <= y /\ y < top + th
    BY <1>1, <1>6, TileAtPlace DEF W, tw, th, width, height
  <2>2. row \in Int /\ column \in Int
    BY <2>1
  <2>3. left \in Int /\ top \in Int
    <3> HIDE DEF row, column
    <3> QED
      BY <1>1, <2>2, Distributes
  <2> QED
    BY <2>1, <2>2, <2>3
<1>8. j = level * W + near /\ level * W \in Int /\ level \in Int /\ near \in Int
  <2>1. /\ j = level * W + near /\ level * W \in Int
        /\ level \in 0 .. m.height - 1 /\ near \in 0 .. W - 1
    BY <1>1, <1>6, TileAtPlace DEF W, tw, th, width, height
  <2> QED
    BY <2>1
<1>9. j \in room
  BY DEF InRoom, LiesIn
<1>10. column - near \in {-1, 0, 1} /\ row - level \in {-1, 0, 1}
  BY <1>4, <1>5
<1> HIDE DEF i, j, column, row, left, top, near, level
<1>11. j + (row - level) * W + (column - near) = i
  <2>1. (row - level) * W = row * W - level * W
    <3>1. W * (row - level) = W * row - W * level /\ W * row = row * W /\ W * level = level * W
          /\ W * (row - level) = (row - level) * W
      BY <1>1, <1>7, <1>8, Distributes
    <3> QED
      BY <3>1
  <2> DEFINE u == row * W
             v == level * W
  <2>2. u \in Int /\ v \in Int /\ i = u + column /\ j = v + near
        /\ (row - level) * W = u - v
    BY <1>7, <1>8, <2>1
  <2> HIDE DEF u, v
  <2>3. j + (u - v) + (column - near) = i
    BY <1>7, <1>8, <2>2
  <2> QED
    BY <2>2, <2>3
<1>12. i \in room \cup GetTilesWithProperty(m, "blocked")
  <2>1. \A d, e \in {-1, 0, 1} : j + d * m.width + e \in room \cup GetTilesWithProperty(m, "blocked")
    BY <1>9 DEF Closed, ClosedByWalls
  <2> QED
    BY <1>10, <1>11, <2>1 DEF W
<1>13. i \notin GetTilesWithProperty(m, "blocked")
  <2> SUFFICES ASSUME i \in GetTilesWithProperty(m, "blocked")
               PROVE  FALSE
    OBVIOUS
  <2>1. Accepted(m, i, "blocked")
    BY SameTiles DEF Closed
  <2>2. Rect(left, top, tw, th) \in WallRects(m)
    BY <1>7, <2>1 DEF WallRects
  <2>3. ~ CheckCollisionRecs(Rect(left, top, tw, th), s)
    BY <2>2 DEF OnFloor, Clear
  <2>4. left < s.x + s.w /\ s.x < left + tw /\ top < s.y + s.h /\ s.y < top + th
    BY <1>1, <1>2, <1>6, <1>7
  <2> QED
    BY <2>3, <2>4 DEF CheckCollisionRecs, Rect
<1> QED
  BY <1>12, <1>13 DEF i

-----------------------------------------------------------------------------
(* Moving in a room. *)

\* A displacement by a tile at most leads nowhere off the map.
LEMMA StaysOnMap ==
  ASSUME NEW m, NEW room, Closed(m, room), NEW r, InRoom(m, room, r), NEW dx \in Int, NEW dy \in Int,
         -m.tileWidth <= dx, dx <= m.tileWidth, -m.tileHeight <= dy, dy <= m.tileHeight
  PROVE  InBounds(m, Displaced(r, dx, dy))
<1> DEFINE width == m.width * m.tileWidth
           height == m.height * m.tileHeight
           tw == m.tileWidth
           th == m.tileHeight
           s == Displaced(r, dx, dy)
<1>1. /\ tw <= r.x /\ r.x + r.w <= width - tw
      /\ th <= r.y /\ r.y + r.h <= height - th
  BY AwayFromEdges
<1>2. r.x \in Int /\ r.y \in Int /\ r.w \in Int /\ r.h \in Int
  BY DEF InRoom, OnFloor, Rects
<1>3. s.x = r.x + dx /\ s.y = r.y + dy /\ s.w = r.w /\ s.h = r.h
  BY DEF InRoom, OnFloor, Rects, Displaced
<1>4. tw \in Nat /\ th \in Nat /\ width \in Int /\ height \in Int
      /\ -tw <= dx /\ dx <= tw /\ -th <= dy /\ dy <= th
  BY WholeMapTypes, Distributes DEF Closed
<1>5. InBounds(m, s) <=> /\ s.x >= 0 /\ s.x + s.w <= width /\ s.y >= 0 /\ s.y + s.h <= height
  BY DEF InBounds
<1> HIDE DEF width, height, tw, th, s
<1>6. /\ s.x >= 0 /\ s.x + s.w <= width
  BY <1>1, <1>2, <1>3, <1>4
<1>7. /\ s.y >= 0 /\ s.y + s.h <= height
  BY <1>1, <1>2, <1>3, <1>4
<1> QED
  BY <1>5, <1>6, <1>7 DEF s

\* Where a displacement along x ends there is floor.
LEMMA StopOnFloorAlongX ==
  ASSUME NEW m, WholeMap(m), NEW r, OnFloor(m, r), NEW dx \in Int,
         InBounds(m, Displaced(r, dx, 0)), NEW s, StopsAlongX(m, r, dx, s)
  PROVE  OnFloor(m, s) /\ s = [r EXCEPT !.x = s.x] /\ s \in Placed(r)
<1>1. r \in Rects /\ r.x \in Int /\ r.y \in Int /\ r.w \in Nat \ {0} /\ r.h \in Nat \ {0}
  BY DEF OnFloor, Rects
<1>2. s \in Placed(r) /\ s.y = r.y /\ s.x \in Between(r.x, r.x + dx)
  BY DEF StopsAlongX
<1>3. s = [r EXCEPT !.x = s.x] /\ s.w = r.w /\ s.h = r.h
  BY <1>1, <1>2 DEF Placed, Rects
<1>4. s.x \in Int /\ s.x \in Between(r.x, s.x)
  BY <1>1, <1>2 DEF Between
<1>5. Clear(m, [r EXCEPT !.x = s.x])
  BY <1>4 DEF StopsAlongX
<1>6. InBounds(m, s)
  <2> DEFINE width == m.width * m.tileWidth
             height == m.height * m.tileHeight
             d == Displaced(r, dx, 0)
  <2>1. d.x = r.x + dx /\ d.y = r.y /\ d.w = r.w /\ d.h = r.h
    BY <1>1, DisplacedAlong DEF Rects
  <2>2. /\ r.x >= 0 /\ r.x + r.w <= width /\ r.y >= 0 /\ r.y + r.h <= height
        /\ d.x >= 0 /\ d.x + d.w <= width
    BY DEF OnFloor, InBounds
  <2>3. InBounds(m, s) <=> /\ s.x >= 0 /\ s.x + s.w <= width /\ s.y >= 0 /\ s.y + s.h <= height
    BY DEF InBounds
  <2>4. \/ r.x <= s.x /\ s.x <= r.x + dx
        \/ r.x + dx <= s.x /\ s.x <= r.x
    BY <1>2 DEF Between
  <2>5. r.x + dx >= 0 /\ r.x + dx + r.w <= width
    BY <2>1, <2>2
  <2>6. width \in Int /\ height \in Int
    <3>1. /\ m.width \in Int /\ m.tileWidth \in Int
          /\ m.height \in Int /\ m.tileHeight \in Int
      BY WholeMapTypes
    <3> QED
      BY <3>1, Distributes
  <2> HIDE DEF width, height, d
  <2>7. s.x >= 0
    BY <1>1, <1>4, <2>2, <2>4, <2>5, <2>6
  <2>8. s.x + s.w <= width
    BY <1>1, <1>3, <1>4, <2>2, <2>4, <2>5, <2>6
  <2> QED
    BY <1>2, <1>3, <2>2, <2>3, <2>7, <2>8
<1>7. s \in Rects
  BY <1>1, <1>2, DisplacedTypes
<1>8. Clear(m, s)
  BY <1>3, <1>5
<1> QED
  BY <1>2, <1>3, <1>6, <1>7, <1>8 DEF OnFloor

\* Where a displacement along y ends there is floor.
LEMMA StopOnFloorAlongY ==
  ASSUME NEW m, WholeMap(m), NEW r, OnFloor(m, r), NEW dy \in Int,
         InBounds(m, Displaced(r, 0, dy)), NEW s, StopsAlongY(m, r, dy, s)
  PROVE  OnFloor(m, s) /\ s = [r EXCEPT !.y = s.y] /\ s \in Placed(r)
<1>1. r \in Rects /\ r.y \in Int /\ r.x \in Int /\ r.h \in Nat \ {0} /\ r.w \in Nat \ {0}
  BY DEF OnFloor, Rects
<1>2. s \in Placed(r) /\ s.x = r.x /\ s.y \in Between(r.y, r.y + dy)
  BY DEF StopsAlongY
<1>3. s = [r EXCEPT !.y = s.y] /\ s.h = r.h /\ s.w = r.w
  BY <1>1, <1>2 DEF Placed, Rects
<1>4. s.y \in Int /\ s.y \in Between(r.y, s.y)
  BY <1>1, <1>2 DEF Between
<1>5. Clear(m, [r EXCEPT !.y = s.y])
  BY <1>4 DEF StopsAlongY
<1>6. InBounds(m, s)
  <2> DEFINE height == m.height * m.tileHeight
             width == m.width * m.tileWidth
             d == Displaced(r, 0, dy)
  <2>1. d.y = r.y + dy /\ d.x = r.x /\ d.h = r.h /\ d.w = r.w
    BY <1>1, DisplacedAlong DEF Rects
  <2>2. /\ r.y >= 0 /\ r.y + r.h <= height /\ r.x >= 0 /\ r.x + r.w <= width
        /\ d.y >= 0 /\ d.y + d.h <= height
    BY DEF OnFloor, InBounds
  <2>3. InBounds(m, s) <=> /\ s.y >= 0 /\ s.y + s.h <= height /\ s.x >= 0 /\ s.x + s.w <= width
    BY DEF InBounds
  <2>4. \/ r.y <= s.y /\ s.y <= r.y + dy
        \/ r.y + dy <= s.y /\ s.y <= r.y
    BY <1>2 DEF Between
  <2>5. r.y + dy >= 0 /\ r.y + dy + r.h <= height
    BY <2>1, <2>2
  <2>6. height \in Int /\ width \in Int
    <3>1. /\ m.height \in Int /\ m.tileHeight \in Int
          /\ m.width \in Int /\ m.tileWidth \in Int
      BY WholeMapTypes
    <3> QED
      BY <3>1, Distributes
  <2> HIDE DEF height, width, d
  <2>7. s.y >= 0
    BY <1>1, <1>4, <2>2, <2>4, <2>5, <2>6
  <2>8. s.y + s.h <= height
    BY <1>1, <1>3, <1>4, <2>2, <2>4, <2>5, <2>6
  <2> QED
    BY <1>2, <1>3, <2>2, <2>3, <2>7, <2>8
<1>7. s \in Rects
  BY <1>1, <1>2, DisplacedTypes
<1>8. Clear(m, s)
  BY <1>3, <1>5
<1> QED
  BY <1>2, <1>3, <1>6, <1>7, <1>8 DEF OnFloor

\* player_update, one axis and then the other.
LEMMA PlayerUpdateStops ==
  ASSUME NEW m, NEW room, Closed(m, room), NEW r, InRoom(m, room, r),
         NEW dx \in Int, NEW dy \in Int,
         -m.tileWidth <= dx, dx <= m.tileWidth, -m.tileHeight <= dy, dy <= m.tileHeight
  PROVE  \E s :
           /\ StopsAlongX(m, r, dx, s) /\ InRoom(m, room, s) /\ s \in Placed(r)
           /\ s = [r EXCEPT !.x = s.x]
           /\ StopsAlongY(m, s, dy, PlayerUpdate(m, r, dx, dy))
           /\ InRoom(m, room, PlayerUpdate(m, r, dx, dy)) /\ PlayerUpdate(m, r, dx, dy) \in Placed(r)
<1> DEFINE s == AxisMove(m, r, dx, 0)
           end == AxisMove(m, s, 0, dy)
<1>1. /\ m.tileWidth \in Nat \ {0} /\ m.tileHeight \in Nat \ {0} /\ WholeMap(m)
      /\ r \in Rects /\ Clear(m, r) /\ OnFloor(m, r)
      /\ r.x \in Int /\ r.y \in Int /\ r.w \in Nat \ {0} /\ r.h \in Nat \ {0}
  BY WholeMapTypes DEF Closed, InRoom, OnFloor, Rects
<1>2. -m.tileHeight <= 0 /\ 0 <= m.tileHeight /\ -m.tileWidth <= 0 /\ 0 <= m.tileWidth
      /\ 0 \in Int
  BY <1>1
<1>3. InBounds(m, Displaced(r, dx, 0))
  BY <1>2, StaysOnMap
<1>4. -(r.w + m.tileWidth) < dx /\ dx < r.w + m.tileWidth
  BY <1>1
<1>5. StopsAlongX(m, r, dx, s)
  BY <1>1, <1>3, <1>4, MovesAlongX
<1> HIDE DEF s
<1>6. OnFloor(m, s) /\ s = [r EXCEPT !.x = s.x] /\ s \in Placed(r)
  BY <1>1, <1>3, <1>5, StopOnFloorAlongX
<1>7. InRoom(m, room, s)
  <2>1. s.x \in Between(r.x, r.x + dx) /\ s.y = r.y /\ s.w = r.w /\ s.h = r.h
    BY <1>5, <1>6 DEF StopsAlongX, Placed
  <2>2. /\ r.x - m.tileWidth <= s.x /\ s.x + s.w <= r.x + r.w + m.tileWidth
        /\ r.y - m.tileHeight <= s.y /\ s.y + s.h <= r.y + r.h + m.tileHeight
    BY <1>1, <2>1 DEF Between
  <2> QED
    BY <1>6, <2>2, StaysInRoom
<1>8. InBounds(m, Displaced(s, 0, dy))
  BY <1>2, <1>7, StaysOnMap
<1>9. s \in Rects /\ Clear(m, s) /\ s.x \in Int /\ s.y \in Int /\ s.w \in Nat \ {0} /\ s.h \in Nat \ {0}
  BY <1>6 DEF OnFloor, Rects
<1>10. -(s.h + m.tileHeight) < dy /\ dy < s.h + m.tileHeight
  BY <1>1, <1>9
<1>11. StopsAlongY(m, s, dy, end)
  BY <1>1, <1>8, <1>9, <1>10, MovesAlongY
<1> HIDE DEF end
<1>12. OnFloor(m, end) /\ end \in Placed(s)
  BY <1>1, <1>6, <1>8, <1>11, StopOnFloorAlongY
<1>13. InRoom(m, room, end)
  <2>1. end.y \in Between(s.y, s.y + dy) /\ end.x = s.x /\ end.w = s.w /\ end.h = s.h
    BY <1>11, <1>12 DEF StopsAlongY, Placed
  <2>2. /\ s.y - m.tileHeight <= end.y /\ end.y + end.h <= s.y + s.h + m.tileHeight
        /\ s.x - m.tileWidth <= end.x /\ end.x + end.w <= s.x + s.w + m.tileWidth
    BY <1>1, <1>9, <2>1 DEF Between
  <2> QED
    BY <1>12, <1>7, <2>2, StaysInRoom
<1>14. end \in Placed(r)
  BY <1>6, <1>12 DEF Placed
<1>15. PlayerUpdate(m, r, dx, dy) = end
  BY DEF PlayerUpdate, s, end
<1> QED
  BY <1>5, <1>6, <1>11, <1>14, <1>15, <1>7, <1>13

-----------------------------------------------------------------------------
(* The invariant. *)

Shots == [rect : [x : Int, y : Int, w : {BulletSize}, h : {BulletSize}], dx : Speeds, dy : Speeds]

WalkInv ==
  /\ world \in DOMAIN Maps
  /\ InRoom(map, Rooms[world], player) /\ player \in Placed(Spawn)
  /\ bullets \subseteq Shots /\ \A b \in bullets : InRoom(map, Rooms[world], b.rect)
  /\ bullets = {} \/ \E b : bullets = {b}

LEMMA MapFacts ==
  ASSUME WalkInv
  PROVE  /\ world \in DOMAIN Maps /\ map = Maps[world]
         /\ WholeMap(map) /\ Closed(map, Rooms[world]) /\ WithinATile(map)
<1>1. world \in DOMAIN Maps
  BY DEF WalkInv
<1>2. map = Maps[world]
  BY DEF map, Atlas
<1>3. WholeMap(map) /\ Closed(map, Rooms[world]) /\ WithinATile(map)
  BY <1>1, <1>2, MapAssumed DEF Closed
<1> QED
  BY <1>1, <1>2, <1>3

\* A bullet that is still there after its step is in the room.
LEMMA FlownInRoom ==
  ASSUME WalkInv, NEW rect \in [x : Int, y : Int, w : {BulletSize}, h : {BulletSize}],
         NEW dx \in Speeds, NEW dy \in Speeds, InBounds(map, BulletMoved(rect, dx, dy)),
         NEW r, InRoom(map, Rooms[world], r),
         r.x - map.tileWidth <= rect.x + dx, rect.x + dx + BulletSize <= r.x + r.w + map.tileWidth,
         r.y - map.tileHeight <= rect.y + dy, rect.y + dy + BulletSize <= r.y + r.h + map.tileHeight,
         Flown(rect, dx, dy)
  PROVE  WalkInv'
<1> DEFINE moved == BulletMoved(rect, dx, dy)
           shot == [rect |-> moved, dx |-> dx, dy |-> dy]
<1>1. map' = map /\ UNCHANGED <<world, player>>
  BY DEF Flown, map, Atlas
<1>2. moved \in [x : Int, y : Int, w : {BulletSize}, h : {BulletSize}] /\ moved \in Rects
  <2> DEFINE a == rect.x + dx
             b == rect.y + dy
  <2>1. a \in Int /\ b \in Int
    BY SizesAssumed
  <2>2. moved = [rect EXCEPT !.x = a, !.y = b]
    BY DEF BulletMoved
  <2> HIDE DEF a, b, moved
  <2>3. moved \in [x : Int, y : Int, w : {BulletSize}, h : {BulletSize}]
    BY <2>1, <2>2
  <2>4. BulletSize \in Nat \ {0}
    BY SizesAssumed
  <2> QED
    BY <2>3, <2>4 DEF Rects
<1>3. WholeMap(map)
  BY MapFacts
<1>4. BulletHitsWall(map, moved) \/ Clear(map, moved)
  BY <1>2, <1>3, BulletsEndAtWalls
<1>5. bullets' = IF BulletHitsWall(map, moved) THEN {} ELSE {shot}
  BY DEF Flown
<1>6. shot \in Shots /\ shot.rect = moved
  BY <1>2 DEF Shots
<1>7. CASE BulletHitsWall(map, moved)
  BY <1>1, <1>5, <1>7 DEF WalkInv
<1>8. CASE ~ BulletHitsWall(map, moved)
  <2>1. bullets' = {shot} /\ OnFloor(map, moved)
    BY <1>2, <1>4, <1>5, <1>8 DEF OnFloor
  <2>2. moved.x = rect.x + dx /\ moved.y = rect.y + dy /\ moved.w = BulletSize /\ moved.h = BulletSize
    BY DEF BulletMoved
  <2> HIDE DEF shot, moved
  <2>3. InRoom(map, Rooms[world], moved)
    <3>1. Closed(map, Rooms[world])
      BY MapFacts
    <3> QED
      BY <2>1, <2>2, <3>1, StaysInRoom
  <2> QED
    BY <1>1, <1>6, <2>1, <2>3 DEF WalkInv
<1> QED
  BY <1>7, <1>8

LEMMA WalkInvInductive == (Init => WalkInv) /\ (WalkInv /\ [Next]_vars => WalkInv')
<1>1. Init => WalkInv
  <2> SUFFICES ASSUME Init PROVE WalkInv
    OBVIOUS
  <2>1. world \in DOMAIN Maps /\ map = Maps[world] /\ Atlas = Maps /\ player = Spawn /\ bullets = {}
    BY DEF Init, map, Atlas
  <2>2. Clear(map, Spawn)
    BY <2>1, BlockedIsNotClear DEF Init, Clear
  <2>3. InRoom(map, Rooms[world], Spawn) /\ Spawn \in Placed(Spawn)
    BY <2>1, <2>2, SizesAssumed, MapAssumed, DisplacedTypes DEF OnFloor, InRoom
  <2> QED
    BY <2>1, <2>3 DEF WalkInv
<1>2. ASSUME WalkInv, [Next]_vars
      PROVE  WalkInv'
  <2>1. /\ Closed(map, Rooms[world]) /\ WithinATile(map) /\ WholeMap(map)
        /\ InRoom(map, Rooms[world], player) /\ player \in Placed(Spawn)
        /\ world' = world => map' = map
    <3>1. world' = world => map' = map
      BY DEF map, Atlas
    <3>2. InRoom(map, Rooms[world], player) /\ player \in Placed(Spawn)
      BY <1>2 DEF WalkInv
    <3> QED
      BY <1>2, <3>1, <3>2, MapFacts
  <2>2. ASSUME NEW dx \in Steps, NEW dy \in Steps, Move(dx, dy)
        PROVE  WalkInv'
    <3>1. /\ dx \in Int /\ dy \in Int
          /\ -map.tileWidth <= dx /\ dx <= map.tileWidth
          /\ -map.tileHeight <= dy /\ dy <= map.tileHeight
      BY <2>1, SizesAssumed DEF WithinATile
    <3>2. InRoom(map, Rooms[world], player')
          /\ player' \in Placed(player)
      <4>1. player' = PlayerUpdate(map, player, dx, dy)
        BY <2>2 DEF Move
      <4> QED
        BY <2>1, <3>1, <4>1, PlayerUpdateStops
    <3>3. map' = map /\ UNCHANGED <<world, bullets>> /\ player \in Placed(Spawn)
      BY <2>1, <2>2 DEF Move
    <3>4. player' \in Placed(Spawn)
      BY <3>2, <3>3 DEF Placed
    <3> QED
      BY <1>2, <3>2, <3>3, <3>4 DEF WalkInv
  <2>3. ASSUME NEW dx \in Speeds, NEW dy \in Speeds, Shoot(dx, dy)
        PROVE  WalkInv'
    <3> DEFINE a == player.w \div 2
               b == player.h \div 2
               start == Rect(player.x + a, player.y + b, BulletSize, BulletSize)
               moved == BulletMoved(start, dx, dy)
               width == map.width * map.tileWidth
               height == map.height * map.tileHeight
    <3>1. /\ player.x \in Int /\ player.y \in Int /\ player.w = Spawn.w /\ player.h = Spawn.h
          /\ Spawn.w \in Nat \ {0} /\ Spawn.h \in Nat \ {0} /\ BulletSize \in Nat \ {0}
          /\ dx \in Int /\ dy \in Int
      BY <2>1, SizesAssumed DEF Placed
    <3>2. a \in Int /\ b \in Int /\ 0 <= a /\ 0 <= b
      BY <3>1
    <3>3. /\ -map.tileWidth <= dx /\ -map.tileHeight <= dy
          /\ a + BulletSize + dx <= player.w + map.tileWidth
          /\ b + BulletSize + dy <= player.h + map.tileHeight
      BY <2>1, <3>1 DEF WithinATile
    <3>4. /\ map.tileWidth <= player.x /\ player.x + player.w <= width - map.tileWidth
          /\ map.tileHeight <= player.y /\ player.y + player.h <= height - map.tileHeight
      BY <2>1, AwayFromEdges
    <3>5. map.tileWidth \in Nat /\ map.tileHeight \in Nat /\ width \in Int /\ height \in Int
      BY <2>1, WholeMapTypes, Distributes DEF Closed
    <3>6. InBounds(map, moved) <=> /\ moved.x >= 0 /\ moved.x + moved.w <= width
                                   /\ moved.y >= 0 /\ moved.y + moved.h <= height
      BY DEF InBounds
    <3>7. /\ moved.x = player.x + a + dx /\ moved.y = player.y + b + dy
          /\ moved.w = BulletSize /\ moved.h = BulletSize
      BY DEF BulletMoved, Rect
    <3>8. start \in [x : Int, y : Int, w : {BulletSize}, h : {BulletSize}]
      BY <3>1, <3>2 DEF Rect
    <3>9. Flown(start, dx, dy)
      BY <2>3 DEF Shoot
    <3>10. /\ player.x - map.tileWidth <= start.x + dx
           /\ start.x + dx + BulletSize <= player.x + player.w + map.tileWidth
           /\ player.y - map.tileHeight <= start.y + dy
           /\ start.y + dy + BulletSize <= player.y + player.h + map.tileHeight
      <4>1. start.x = player.x + a /\ start.y = player.y + b
        BY DEF Rect
      <4> HIDE DEF a, b, start
      <4> QED
        BY <3>1, <3>2, <3>3, <3>5, <4>1
    <3> HIDE DEF a, b, start, moved, width, height
    <3>11. moved.x >= 0 /\ moved.x + moved.w <= width
      BY <3>1, <3>2, <3>3, <3>4, <3>5, <3>7
    <3>12. moved.y >= 0 /\ moved.y + moved.h <= height
      BY <3>1, <3>2, <3>3, <3>4, <3>5, <3>7
    <3> QED
      BY <1>2, <2>1, <3>6, <3>8, <3>9, <3>11, <3>12, <3>10, FlownInRoom DEF moved
  <2>4. ASSUME Fly
        PROVE  WalkInv'
    <3>1. PICK b \in bullets : Flown(b.rect, b.dx, b.dy)
      BY <2>4 DEF Fly
    <3>2. b \in Shots /\ InRoom(map, Rooms[world], b.rect)
      BY <1>2 DEF WalkInv
    <3> DEFINE r == b.rect
               dx == b.dx
               dy == b.dy
    <3>3. /\ r \in [x : Int, y : Int, w : {BulletSize}, h : {BulletSize}]
          /\ dx \in Speeds /\ dy \in Speeds /\ InRoom(map, Rooms[world], r) /\ Flown(r, dx, dy)
      BY <3>1, <3>2 DEF Shots
    <3> HIDE DEF r, dx, dy
    <3>4. /\ dx \in Int /\ dy \in Int
          /\ -map.tileWidth <= dx /\ dx <= map.tileWidth
          /\ -map.tileHeight <= dy /\ dy <= map.tileHeight
      BY <2>1, <3>3, SizesAssumed DEF WithinATile
    <3>5. InBounds(map, Displaced(r, dx, dy))
      BY <2>1, <3>3, <3>4, StaysOnMap
    <3>6. BulletMoved(r, dx, dy) = Displaced(r, dx, dy)
      BY DEF BulletMoved, Displaced
    <3>7. /\ r.x - map.tileWidth <= r.x + dx /\ r.x + dx + BulletSize <= r.x + r.w + map.tileWidth
          /\ r.y - map.tileHeight <= r.y + dy /\ r.y + dy + BulletSize <= r.y + r.h + map.tileHeight
      <4>1. /\ r.x \in Int /\ r.y \in Int /\ r.w = BulletSize /\ r.h = BulletSize
            /\ BulletSize \in Int /\ map.tileWidth \in Int /\ map.tileHeight \in Int
        BY <2>1, <3>3, SizesAssumed, WholeMapTypes
      <4> QED
        BY <3>4, <4>1
    <3> QED
      BY <1>2, <3>3, <3>5, <3>6, <3>7, FlownInRoom
  <2>5. CASE UNCHANGED vars
    <3>1. UNCHANGED <<world, player, bullets>> /\ map' = map
      BY <2>1, <2>5 DEF vars
    <3> QED
      BY <1>2, <3>1 DEF WalkInv
  <2> QED
    BY <1>2, <2>2, <2>3, <2>4, <2>5 DEF Next
<1> QED
  BY <1>1, <1>2

\* The invariant holds in every state.
THEOREM WalkInvHolds == Spec => []WalkInv
<1> QED
  BY WalkInvInductive, PTL DEF Spec

(***************************************************************************)
(* From a room closed by walls, by steps of up to a tile, nobody gets out, *)
(* into a wall or off the map; nor does a bullet: bullet_update ends it in *)
(* time.                                                                   *)
(***************************************************************************)
THEOREM NobodyInWalls == Spec => []NeverInWall
<1>1. WalkInv => NeverInWall
  <2> SUFFICES ASSUME WalkInv, NEW r \in {player} \cup {b.rect : b \in bullets}
               PROVE  ~ Blocked(r) /\ InBounds(map, r) /\ LiesIn(map, Rooms[world], r)
    BY DEF NeverInWall
  <2>1. OnFloor(map, r) /\ LiesIn(map, Rooms[world], r)
    BY DEF WalkInv, InRoom
  <2>2. Solid[world] = WallRects(map)
    BY BlockedIsNotClear DEF WalkInv, map, Atlas
  <2> QED
    BY <2>1, <2>2 DEF OnFloor, Clear, Blocked
<1> QED
  BY <1>1, WalkInvHolds, PTL

(***************************************************************************)
(* Types: the player is on the map, in its size.                           *)
(***************************************************************************)
THEOREM TypeCorrect == Spec => []TypeOK
<1>1. WalkInv => TypeOK
  <2> SUFFICES ASSUME WalkInv PROVE TypeOK
    OBVIOUS
  <2> DEFINE width == map.width * map.tileWidth
             height == map.height * map.tileHeight
  <2>1. /\ player.x \in Int /\ player.y \in Int /\ player.w = Spawn.w /\ player.h = Spawn.h
        /\ Spawn.w \in Nat \ {0} /\ Spawn.h \in Nat \ {0}
    BY SizesAssumed DEF WalkInv, Placed
  <2>2. player = Rect(player.x, player.y, Spawn.w, Spawn.h)
    BY DEF WalkInv, Placed, Rect
  <2>3. /\ player.x >= 0 /\ player.x + player.w <= width
        /\ player.y >= 0 /\ player.y + player.h <= height
    BY DEF WalkInv, InRoom, OnFloor, InBounds
  <2>4. WholeMap(map) /\ width \in Int /\ height \in Int
    <3>1. WholeMap(map)
      BY MapAssumed DEF WalkInv, map, Atlas
    <3>2. /\ map.width \in Int /\ map.height \in Int
          /\ map.tileWidth \in Int /\ map.tileHeight \in Int
      BY <3>1, WholeMapTypes
    <3>3. width \in Int
      BY <3>2, Distributes
    <3>4. height \in Int
      BY <3>2, Distributes
    <3> QED
      BY <3>1, <3>3, <3>4
  <2>5. world \in DOMAIN Maps
    BY DEF WalkInv
  <2>6. Cardinality(bullets) <= 1
    <3>1. CASE bullets = {}
      BY <3>1, FS_EmptySet
    <3>2. CASE \E b : bullets = {b}
      <4>1. Cardinality(bullets) = 1
        BY <3>2, FS_Singleton
      <4> QED
        BY <4>1
    <3> QED
      BY <3>1, <3>2 DEF WalkInv
  <2> HIDE DEF width, height
  <2>7. player.x \in 0 .. width /\ player.y \in 0 .. height
    BY <2>1, <2>3, <2>4
  <2> QED
    BY <2>2, <2>5, <2>6, <2>7 DEF TypeOK, width, height
<1> QED
  BY <1>1, WalkInvHolds, PTL

-----------------------------------------------------------------------------
(* Walking pixel by pixel. *)

LEMMA FarNat ==
  ASSUME NEW dx \in Int, NEW dy \in Int
  PROVE  Far(dx, dy) \in Nat /\ Sign(dx) \in Int /\ Sign(dy) \in Int
BY DEF Far, Sign

LEMMA NextPixelStays ==
  ASSUME NEW r \in Rects, NEW s \in Placed(r), NEW dx \in Int, NEW dy \in Int
  PROVE  NextPixel(s, dx, dy) \in Placed(r)
<1> DEFINE a == s.x + Sign(dx)
           b == s.y + Sign(dy)
           next == [s EXCEPT !.x = a, !.y = b]
<1>1. a \in Int /\ b \in Int
  <2>1. s.x \in Int /\ s.y \in Int
    BY DEF Placed
  <2>2. Sign(dx) \in Int /\ Sign(dy) \in Int
    BY FarNat
  <2> QED
    BY <2>1, <2>2
<1>2. NextPixel(s, dx, dy) = IF Blocked(next) THEN s ELSE next
  BY DEF NextPixel
<1> HIDE DEF a, b
<1>3. next \in Placed(r)
  BY <1>1 DEF Placed
<1> HIDE DEF next
<1> QED
  BY <1>2, <1>3

\* result is where as many steps as s has places lead.
WalkedFrom(r, dx, dy, s, result) ==
  \E run : /\ run[0] = r
           /\ \A k \in 1 .. Len(s) : run[k] = NextPixel(run[k - 1], dx, dy)
           /\ result = run[Len(s)]

\* A walk takes one step after the other.
LEMMA WalkedRun ==
  ASSUME NEW r \in Rects, NEW dx \in Int, NEW dy \in Int
  PROVE  WalkedFrom(r, dx, dy, [k \in 1 .. Far(dx, dy) |-> k],
           Walked(r, dx, dy))
<1> DEFINE s == [k \in 1 .. Far(dx, dy) |-> k]
           n == Len(s)
           A == Placed(r)
           B == Int
           step == [x \in A \X B |-> NextPixel(x[1], dx, dy)]
           Folds(it) == it = [t \in SUBSET (1 .. n) |->
                                IF t = {} THEN r
                                ELSE NextPixel(it[t \ {Latest(t)}], dx, dy)]
<1>1. n \in Nat /\ DOMAIN s = 1 .. n /\ \A i \in 1 .. n : s[i] \in B
  <2>1. Far(dx, dy) \in Nat
    BY FarNat
  <2> QED
    BY <2>1
<1>2. Walked(r, dx, dy) = (CHOOSE it : Folds(it))[1 .. n]
  BY <1>1 DEF Walked, FoldLeft, MapThenFoldSet, Latest, Max
<1>3. step \in [A \X B -> A] /\ r \in A
  BY DisplacedTypes, NextPixelStays
<1> HIDE DEF s, n, A, B, step
<1>4. n \in Nat /\ \A i \in 1 .. n : s[i] \in B
  BY <1>1
<1>5. PICK it \in [SUBSET (1 .. n) -> A] : Stepwise(it, step, r, s, n)
  BY <1>3, <1>4, StepwiseExists, Zenon
<1>6. \A t \in SUBSET (1 .. n) :
        Body(it, step, r, s, t)
          = IF t = {} THEN r ELSE NextPixel(it[t \ {Latest(t)}], dx, dy)
  <2> SUFFICES ASSUME NEW t \in SUBSET (1 .. n), t # {}
               PROVE  step[<<it[t \ {Latest(t)}], s[Latest(t)]>>] = NextPixel(it[t \ {Latest(t)}], dx, dy)
    BY Zenon DEF Body
  <2>1. Latest(t) \in 1 .. n /\ t \ {Latest(t)} \in SUBSET (1 .. n)
    BY <1>1, LatestIsOne
  <2>2. it[t \ {Latest(t)}] \in A /\ s[Latest(t)] \in B
    BY <1>4, <2>1, Zenon
  <2> QED
    BY <2>2 DEF step
<1>7. Folds(it)
  BY <1>5, <1>6, Zenon DEF Stepwise
<1> DEFINE f == CHOOSE h : Folds(h)
<1>8. Folds(f)
  <2> HIDE DEF Folds
  <2> QED
    BY <1>7, Zenon
<1> HIDE DEF f
<1> DEFINE run == [k \in 0 .. n |-> f[1 .. k]]
<1>9. run[0] = r
  <2>1. 1 .. 0 = {} /\ 0 \in 0 .. n /\ {} \in SUBSET (1 .. n)
    BY <1>4
  <2>2. f[{}] = r
    BY <1>8, <2>1
  <2> QED
    BY <2>1, <2>2
<1>10. \A k \in 1 .. n : run[k] = NextPixel(run[k - 1], dx, dy)
  <2> SUFFICES ASSUME NEW k \in 1 .. n
               PROVE  run[k] = NextPixel(run[k - 1], dx, dy)
    OBVIOUS
  <2>1. /\ k \in Nat \ {0} /\ k \in 0 .. n /\ k - 1 \in 0 .. n
        /\ 1 .. k \in SUBSET (1 .. n)
    BY <1>4
  <2>2. 1 .. k # {} /\ Latest(1 .. k) = k /\ (1 .. k) \ {Latest(1 .. k)} = 1 .. (k - 1)
    BY <2>1, PlacesInOrder
  <2>3. f[1 .. k] = NextPixel(f[(1 .. k) \ {Latest(1 .. k)}], dx, dy)
    BY <1>8, <2>1, <2>2
  <2>4. run[k] = f[1 .. k] /\ run[k - 1] = f[1 .. (k - 1)]
    BY <2>1
  <2> QED
    BY <2>2, <2>3, <2>4
<1>11. Walked(r, dx, dy) = run[n]
  <2>1. n \in 0 .. n
    BY <1>4
  <2> QED
    BY <1>2, <2>1, Zenon DEF f
<1>12. WalkedFrom(r, dx, dy, s,
         Walked(r, dx, dy))
  BY <1>9, <1>10, <1>11, Zenon DEF WalkedFrom, n
<1> QED
  BY <1>12 DEF s

\* In one dimension, g is how a walk over d from p goes on, a step a place,
\* standing still before a place of B.
Advances(g, n, p, d, B) ==
  /\ n \in Nat
  /\ n = Far(d, 0) \/ n = Far(0, d)
  /\ g[0] = p
  /\ \A k \in 1 .. n : g[k] = IF g[k - 1] + Sign(d) \in B THEN g[k - 1] ELSE g[k - 1] + Sign(d)

\* From p towards p + d, e is before the first of B.
LastFree(p, d, e, B) ==
  /\ p \in Int
  /\ d \in Int
  /\ e \in Between(p, p + d)
  /\ \A q \in Between(p, e) : q \notin B
  /\ e = p + d \/ e + Sign(d) \in B

LEMMA StepsUpTo ==
  ASSUME NEW p, NEW d, NEW e, NEW B, LastFree(p, d, e, B),
         NEW n, NEW g, Advances(g, n, p, d, B)
  PROVE  g[n] = e
<1>0. /\ n \in Nat /\ (n = Far(d, 0) \/ n = Far(0, d)) /\ g[0] = p
      /\ p \in Int /\ d \in Int /\ e \in Between(p, p + d)
      /\ \A q \in Between(p, e) : q \notin B
      /\ e = p + d \/ e + Sign(d) \in B
      /\ \A k \in 1 .. n : g[k] = IF g[k - 1] + Sign(d) \in B THEN g[k - 1] ELSE g[k - 1] + Sign(d)
  BY DEF Advances, LastFree
<1> p \in Int /\ d \in Int /\ n \in Nat
  BY <1>0
<1>1. n = IF d > 0 THEN d ELSE -d
  BY <1>0 DEF Far
<1>2. e \in Int /\ \/ p <= e /\ e <= p + d
                   \/ p + d <= e /\ e <= p
  <2>1. e \in Between(p, p + d)
    BY <1>0
  <2> QED
    BY <2>1 DEF Between
<1>3. CASE d = 0
  <2>1. n = 0 /\ p + d = p
    <3>1. n + d = 0
      BY <1>1, <1>3
    <3> QED
      BY <1>3, <3>1
  <2>2. e = p
    BY <1>2, <2>1
  <2>3. g[0] = p
    BY <1>0
  <2> QED
    BY <2>1, <2>2, <2>3
<1>4. CASE d > 0
  <2> DEFINE T == {k \in 0 .. n : g[k] = IF p + k <= e THEN p + k ELSE e}
  <2>1. Sign(d) = 1 /\ n = d /\ p <= e /\ e <= p + d
    BY <1>1, <1>2, <1>4 DEF Sign
  <2>2. 0 \in T
    BY <1>0, <1>2, <2>1
  <2>3. \A k \in 1 .. n : k - 1 \in T => k \in T
    <3> SUFFICES ASSUME NEW k \in 1 .. n, k - 1 \in T
                 PROVE  k \in T
      OBVIOUS
    <3>1. g[k - 1] = (IF p + (k - 1) <= e THEN p + (k - 1) ELSE e) /\ k \in 0 .. n /\ k \in Int
      BY <1>0
    <3>2. g[k] = IF g[k - 1] + 1 \in B THEN g[k - 1] ELSE g[k - 1] + 1
      BY <1>0, <2>1
    <3>3. CASE p + k <= e
      <4>1. g[k - 1] + 1 = p + k
        BY <1>0, <1>2, <3>1, <3>3
      <4>2. p + k \in Between(p, e)
        BY <1>0, <1>2, <2>1, <3>3 DEF Between
      <4> QED
        BY <1>0, <3>1, <3>2, <3>3, <4>1, <4>2
    <3>4. CASE ~ (p + k <= e)
      <4>1. g[k - 1] = e
        BY <1>0, <1>2, <3>1, <3>4
      <4>2. e # p + d
        BY <1>0, <2>1, <3>1, <3>4
      <4>3. e + 1 \in B
        BY <1>0, <2>1, <4>2
      <4> QED
        BY <1>0, <3>1, <3>2, <3>4, <4>1, <4>3
    <3> QED
      BY <3>3, <3>4
  <2> HIDE DEF T
  <2>4. \A k \in 0 .. n : k \in T
    BY <1>0, <2>2, <2>3, UpTo
  <2>5. n \in T
    BY <1>0, <2>4
  <2> QED
    <3>1. g[n] = IF p + n <= e THEN p + n ELSE e
      BY <2>5 DEF T
    <3>2. p \in Int /\ d \in Int /\ n \in Int /\ p + n = p + d
      <4>1. p \in Int /\ d \in Int
        BY <1>0
      <4> QED
        BY <2>1, <4>1
    <3>3. e \in Int
      BY <1>2
    <3> QED
      BY <2>1, <3>1, <3>2, <3>3
<1>5. CASE d < 0
  <2> DEFINE T == {k \in 0 .. n : g[k] = IF e <= p - k THEN p - k ELSE e}
  <2>1. Sign(d) = -1 /\ n = -d /\ e <= p /\ p + d <= e
    BY <1>1, <1>2, <1>5 DEF Sign
  <2>2. 0 \in T
    BY <1>0, <1>2, <2>1
  <2>3. \A k \in 1 .. n : k - 1 \in T => k \in T
    <3> SUFFICES ASSUME NEW k \in 1 .. n, k - 1 \in T
                 PROVE  k \in T
      OBVIOUS
    <3>1. g[k - 1] = (IF e <= p - (k - 1) THEN p - (k - 1) ELSE e) /\ k \in 0 .. n /\ k \in Int
      BY <1>0
    <3>2. g[k] = IF g[k - 1] + (-1) \in B THEN g[k - 1] ELSE g[k - 1] + (-1)
      BY <1>0, <2>1
    <3>3. CASE e <= p - k
      <4>1. g[k - 1] + (-1) = p - k
        BY <1>0, <1>2, <3>1, <3>3
      <4>2. p - k \in Between(p, e)
        BY <1>0, <1>2, <2>1, <3>3 DEF Between
      <4> QED
        BY <1>0, <3>1, <3>2, <3>3, <4>1, <4>2
    <3>4. CASE ~ (e <= p - k)
      <4>1. g[k - 1] = e
        BY <1>0, <1>2, <3>1, <3>4
      <4>2. e # p + d
        BY <1>0, <2>1, <3>1, <3>4
      <4>3. e + (-1) \in B
        BY <1>0, <2>1, <4>2
      <4> QED
        BY <1>0, <3>1, <3>2, <3>4, <4>1, <4>3
    <3> QED
      BY <3>3, <3>4
  <2> HIDE DEF T
  <2>4. \A k \in 0 .. n : k \in T
    BY <1>0, <2>2, <2>3, UpTo
  <2>5. n \in T
    BY <1>0, <2>4
  <2> QED
    <3>1. g[n] = IF e <= p - n THEN p - n ELSE e
      BY <2>5 DEF T
    <3>2. p \in Int /\ d \in Int /\ n \in Int /\ p - n = p + d
      <4>1. p \in Int /\ d \in Int
        BY <1>0
      <4> QED
        BY <2>1, <4>1
    <3>3. e \in Int
      BY <1>2
    <3> QED
      BY <2>1, <3>1, <3>2, <3>3
<1> QED
  BY <1>3, <1>4, <1>5

(***************************************************************************)
(* Where player_update stops along an axis a walk pixel by pixel does.     *)
(***************************************************************************)
LEMMA WalkStopsAlongX ==
  ASSUME NEW m, m = map, WalkInv, NEW r, OnFloor(m, r), NEW dx \in Int,
         NEW s, s \in Placed(r), s = [r EXCEPT !.x = s.x], StopsAlongX(m, r, dx, s)
  PROVE  Walked(r, dx, 0) = s
<1> DEFINE n == Far(dx, 0)
           end == Walked(r, dx, 0)
           places == [k \in 1 .. n |-> k]
           Is(q) == ~ Clear(m, [r EXCEPT !.x = q])
           B == {q \in Int : Is(q)}
<1>1. n \in Nat /\ Len(places) = n
  <2>1. n \in Nat
    BY FarNat
  <2> HIDE DEF n
  <2> QED
    BY <2>1
<1>2. r \in Rects /\ r.x \in Int /\ s.x \in Int
  BY DEF OnFloor, Rects, Placed
<1>3. WalkedFrom(r, dx, 0, places, end)
  BY <1>2, WalkedRun
<1> HIDE DEF end, places
<1>4. PICK run : /\ run[0] = r
                 /\ \A k \in 1 .. n : run[k] = NextPixel(run[k - 1], dx, 0)
                 /\ end = run[n]
  BY <1>1, <1>3 DEF WalkedFrom
<1>5. \A q \in Int : q \in B <=> Is(q)
  OBVIOUS
<1>6. ASSUME NEW q \in Int
      PROVE  NextPixel([r EXCEPT !.x = q], dx, 0)
               = IF q + Sign(dx) \in B THEN [r EXCEPT !.x = q] ELSE [r EXCEPT !.x = q + Sign(dx)]
  <2> DEFINE here == [r EXCEPT !.x = q]
             next == [r EXCEPT !.x = q + Sign(dx)]
  <2>1. [here EXCEPT !.x = here.x + Sign(dx), !.y = here.y + Sign(0)] = next
    <3>1. here.x = q /\ here.y = r.y /\ r.y \in Int
      BY <1>2 DEF Rects
    <3>2. here.y + Sign(0) = r.y
      BY <3>1 DEF Sign
    <3>3. [here EXCEPT !.x = q + Sign(dx), !.y = r.y] = next
      BY <1>2 DEF Rects
    <3> QED
      BY <3>1, <3>2, <3>3
  <2>2. Blocked(next) <=> Is(q + Sign(dx))
    <3>1. Solid[world] = WallRects(m)
      BY BlockedIsNotClear, MapFacts
    <3> QED
      BY <3>1 DEF Blocked, Clear
  <2>3. q + Sign(dx) \in Int
    BY FarNat
  <2>4. NextPixel(here, dx, 0) = IF Blocked(next) THEN here ELSE next
    BY <2>1 DEF NextPixel
  <2> HIDE DEF here, next
  <2>5. NextPixel(here, dx, 0) = IF q + Sign(dx) \in B THEN here ELSE next
    BY <1>5, <2>2, <2>3, <2>4
  <2> QED
    BY <2>5 DEF here, next
<1> DEFINE g == [k \in 0 .. n |-> run[k].x]
           T == {k \in 0 .. n : run[k] = [r EXCEPT !.x = run[k].x] /\ run[k].x \in Int}
<1> HIDE DEF B
<1>7. \A k \in 0 .. n : run[k] = [r EXCEPT !.x = run[k].x] /\ run[k].x \in Int
  <2> HIDE DEF n
  <2>1. 0 \in T
    <3>1. run[0] = r /\ [r EXCEPT !.x = r.x] = r /\ 0 \in 0 .. n
      <4>1. run[0] = r
        BY <1>4
      <4>2. [r EXCEPT !.x = r.x] = r
        BY <1>2, Unmoved
      <4>3. 0 \in 0 .. n
        BY <1>1
      <4> QED
        BY <4>1, <4>2, <4>3
    <3> QED
      BY <1>2, <3>1
  <2>2. \A k \in 1 .. n : k - 1 \in T => k \in T
    <3> SUFFICES ASSUME NEW k \in 1 .. n, k - 1 \in T
                 PROVE  run[k] = [r EXCEPT !.x = run[k].x] /\ run[k].x \in Int
      BY <1>1
    <3> DEFINE q == run[k - 1].x
    <3>1. q \in Int /\ run[k - 1] = [r EXCEPT !.x = q] /\ Sign(dx) \in Int
      BY FarNat
    <3>2. run[k] = NextPixel([r EXCEPT !.x = q], dx, 0)
      BY <1>4, <3>1
    <3> HIDE DEF q
    <3>3. run[k] = [r EXCEPT !.x = q] \/ run[k] = [r EXCEPT !.x = q + Sign(dx)]
      BY <1>6, <3>1, <3>2
    <3>4. q + Sign(dx) \in Int
      BY <3>1
    <3>5. \A v \in Int : [r EXCEPT !.x = v].x = v
      BY <1>2 DEF Rects
    <3> QED
      BY <3>1, <3>3, <3>4, <3>5
  <2> HIDE DEF T
  <2>3. \A k \in 0 .. n : k \in T
    BY <1>1, <2>1, <2>2, UpTo
  <2> QED
    BY <2>3 DEF T
<1>8. \A k \in 1 .. n : g[k] = IF g[k - 1] + Sign(dx) \in B THEN g[k - 1] ELSE g[k - 1] + Sign(dx)
  <2> SUFFICES ASSUME NEW k \in 1 .. n
               PROVE  g[k] = IF g[k - 1] + Sign(dx) \in B THEN g[k - 1] ELSE g[k - 1] + Sign(dx)
    OBVIOUS
  <2>1. k \in 0 .. n /\ k - 1 \in 0 .. n
    BY <1>1
  <2> DEFINE q == g[k - 1]
  <2>2. q \in Int /\ run[k - 1] = [r EXCEPT !.x = q] /\ g[k] = run[k].x
    BY <1>7, <2>1
  <2>3. run[k] = NextPixel([r EXCEPT !.x = q], dx, 0)
    BY <1>4, <2>2
  <2> HIDE DEF q, g
  <2>4. run[k] = IF q + Sign(dx) \in B THEN [r EXCEPT !.x = q] ELSE [r EXCEPT !.x = q + Sign(dx)]
    BY <1>6, <2>2, <2>3
  <2>5. \A v : [r EXCEPT !.x = v].x = v
    BY <1>2 DEF Rects
  <2> QED
    BY <2>2, <2>4, <2>5 DEF q
<1>9. \A q \in Between(r.x, s.x) : q \notin B
  BY <1>2, <1>5 DEF StopsAlongX, Between
<1>10. s.x = r.x + dx \/ s.x + Sign(dx) \in B
  <2>1. CASE s.x = r.x + dx
    BY <2>1
  <2>2. CASE dx > 0 /\ Is(s.x + 1)
    BY <1>2, <1>5, <2>2 DEF Sign
  <2>3. CASE dx < 0 /\ Is(s.x - 1)
    <3>1. Sign(dx) = -1 /\ s.x + (-1) = s.x - 1 /\ s.x - 1 \in Int
      BY <1>2, <2>3 DEF Sign
    <3> QED
      BY <1>5, <2>3, <3>1
  <2> QED
    BY <2>1, <2>2, <2>3 DEF StopsAlongX
<1>11. g[0] = r.x /\ 0 \in 0 .. n /\ n \in 0 .. n
  BY <1>1, <1>4
<1>12. s.x \in Between(r.x, r.x + dx) /\ (n = Far(dx, 0) \/ n = Far(0, dx))
  BY DEF StopsAlongX
<1>13. g[n] = s.x
  <2> DEFINE p == r.x
             e == s.x
  <2>1. LastFree(p, dx, e, B)
    BY <1>2, <1>9, <1>10, <1>12 DEF LastFree
  <2>2. Advances(g, n, p, dx, B)
    <3> HIDE DEF g, n
    <3> QED
      BY <1>1, <1>8, <1>11, <1>12 DEF Advances
  <2> HIDE DEF p, e, g, n
  <2>3. g[n] = e
    BY <2>1, <2>2, StepsUpTo
  <2> QED
    BY <2>3 DEF e
<1>14. end = [r EXCEPT !.x = s.x]
  BY <1>4, <1>7, <1>11, <1>13
<1> QED
  BY <1>14 DEF end

LEMMA WalkStopsAlongY ==
  ASSUME NEW m, m = map, WalkInv, NEW r, OnFloor(m, r), NEW dy \in Int,
         NEW s, s \in Placed(r), s = [r EXCEPT !.y = s.y], StopsAlongY(m, r, dy, s)
  PROVE  Walked(r, 0, dy) = s
<1> DEFINE n == Far(0, dy)
           end == Walked(r, 0, dy)
           places == [k \in 1 .. n |-> k]
           Is(q) == ~ Clear(m, [r EXCEPT !.y = q])
           B == {q \in Int : Is(q)}
<1>1. n \in Nat /\ Len(places) = n
  <2>1. n \in Nat
    BY FarNat
  <2> HIDE DEF n
  <2> QED
    BY <2>1
<1>2. r \in Rects /\ r.y \in Int /\ s.y \in Int
  BY DEF OnFloor, Rects, Placed
<1>3. WalkedFrom(r, 0, dy, places, end)
  <2>1. 0 \in Int
    OBVIOUS
  <2>2. WalkedFrom(r, 0, dy, [k \in 1 .. Far(0, dy) |-> k], Walked(r, 0, dy))
    BY <1>2, <2>1, WalkedRun, Zenon
  <2> QED
    BY <2>2
<1> HIDE DEF end, places
<1>4. PICK run : /\ run[0] = r
                 /\ \A k \in 1 .. n : run[k] = NextPixel(run[k - 1], 0, dy)
                 /\ end = run[n]
  BY <1>1, <1>3 DEF WalkedFrom
<1>5. \A q \in Int : q \in B <=> Is(q)
  OBVIOUS
<1>6. ASSUME NEW q \in Int
      PROVE  NextPixel([r EXCEPT !.y = q], 0, dy)
               = IF q + Sign(dy) \in B THEN [r EXCEPT !.y = q] ELSE [r EXCEPT !.y = q + Sign(dy)]
  <2> DEFINE here == [r EXCEPT !.y = q]
             next == [r EXCEPT !.y = q + Sign(dy)]
  <2>1. [here EXCEPT !.x = here.x + Sign(0), !.y = here.y + Sign(dy)] = next
    <3>1. here.y = q /\ here.x = r.x /\ r.x \in Int
      BY <1>2 DEF Rects
    <3>2. here.x + Sign(0) = r.x
      BY <3>1 DEF Sign
    <3>3. [here EXCEPT !.x = r.x, !.y = q + Sign(dy)] = next
      BY <1>2 DEF Rects
    <3> QED
      BY <3>1, <3>2, <3>3
  <2>2. Blocked(next) <=> Is(q + Sign(dy))
    <3>1. Solid[world] = WallRects(m)
      BY BlockedIsNotClear, MapFacts
    <3> QED
      BY <3>1 DEF Blocked, Clear
  <2>3. q + Sign(dy) \in Int
    BY FarNat
  <2>4. NextPixel(here, 0, dy) = IF Blocked(next) THEN here ELSE next
    BY <2>1 DEF NextPixel
  <2> HIDE DEF here, next
  <2>5. NextPixel(here, 0, dy) = IF q + Sign(dy) \in B THEN here ELSE next
    BY <1>5, <2>2, <2>3, <2>4
  <2> QED
    BY <2>5 DEF here, next
<1> DEFINE g == [k \in 0 .. n |-> run[k].y]
           T == {k \in 0 .. n : run[k] = [r EXCEPT !.y = run[k].y] /\ run[k].y \in Int}
<1> HIDE DEF B
<1>7. \A k \in 0 .. n : run[k] = [r EXCEPT !.y = run[k].y] /\ run[k].y \in Int
  <2> HIDE DEF n
  <2>1. 0 \in T
    <3>1. run[0] = r /\ [r EXCEPT !.y = r.y] = r /\ 0 \in 0 .. n
      <4>1. run[0] = r
        BY <1>4
      <4>2. [r EXCEPT !.y = r.y] = r
        BY <1>2, Unmoved
      <4>3. 0 \in 0 .. n
        BY <1>1
      <4> QED
        BY <4>1, <4>2, <4>3
    <3> QED
      BY <1>2, <3>1
  <2>2. \A k \in 1 .. n : k - 1 \in T => k \in T
    <3> SUFFICES ASSUME NEW k \in 1 .. n, k - 1 \in T
                 PROVE  run[k] = [r EXCEPT !.y = run[k].y] /\ run[k].y \in Int
      BY <1>1
    <3> DEFINE q == run[k - 1].y
    <3>1. q \in Int /\ run[k - 1] = [r EXCEPT !.y = q] /\ Sign(dy) \in Int
      BY FarNat
    <3>2. run[k] = NextPixel([r EXCEPT !.y = q], 0, dy)
      BY <1>4, <3>1
    <3> HIDE DEF q
    <3>3. run[k] = [r EXCEPT !.y = q] \/ run[k] = [r EXCEPT !.y = q + Sign(dy)]
      BY <1>6, <3>1, <3>2
    <3>4. q + Sign(dy) \in Int
      BY <3>1
    <3>5. \A v \in Int : [r EXCEPT !.y = v].y = v
      BY <1>2 DEF Rects
    <3> QED
      BY <3>1, <3>3, <3>4, <3>5
  <2> HIDE DEF T
  <2>3. \A k \in 0 .. n : k \in T
    BY <1>1, <2>1, <2>2, UpTo
  <2> QED
    BY <2>3 DEF T
<1>8. \A k \in 1 .. n : g[k] = IF g[k - 1] + Sign(dy) \in B THEN g[k - 1] ELSE g[k - 1] + Sign(dy)
  <2> SUFFICES ASSUME NEW k \in 1 .. n
               PROVE  g[k] = IF g[k - 1] + Sign(dy) \in B THEN g[k - 1] ELSE g[k - 1] + Sign(dy)
    OBVIOUS
  <2>1. k \in 0 .. n /\ k - 1 \in 0 .. n
    BY <1>1
  <2> DEFINE q == g[k - 1]
  <2>2. q \in Int /\ run[k - 1] = [r EXCEPT !.y = q] /\ g[k] = run[k].y
    BY <1>7, <2>1
  <2>3. run[k] = NextPixel([r EXCEPT !.y = q], 0, dy)
    BY <1>4, <2>2
  <2> HIDE DEF q, g
  <2>4. run[k] = IF q + Sign(dy) \in B THEN [r EXCEPT !.y = q] ELSE [r EXCEPT !.y = q + Sign(dy)]
    BY <1>6, <2>2, <2>3
  <2>5. \A v : [r EXCEPT !.y = v].y = v
    BY <1>2 DEF Rects
  <2> QED
    BY <2>2, <2>4, <2>5 DEF q
<1>9. \A q \in Between(r.y, s.y) : q \notin B
  BY <1>2, <1>5 DEF StopsAlongY, Between
<1>10. s.y = r.y + dy \/ s.y + Sign(dy) \in B
  <2>1. CASE s.y = r.y + dy
    BY <2>1
  <2>2. CASE dy > 0 /\ Is(s.y + 1)
    BY <1>2, <1>5, <2>2 DEF Sign
  <2>3. CASE dy < 0 /\ Is(s.y - 1)
    <3>1. Sign(dy) = -1 /\ s.y + (-1) = s.y - 1 /\ s.y - 1 \in Int
      BY <1>2, <2>3 DEF Sign
    <3> QED
      BY <1>5, <2>3, <3>1
  <2> QED
    BY <2>1, <2>2, <2>3 DEF StopsAlongY
<1>11. g[0] = r.y /\ 0 \in 0 .. n /\ n \in 0 .. n
  BY <1>1, <1>4
<1>12. s.y \in Between(r.y, r.y + dy) /\ (n = Far(dy, 0) \/ n = Far(0, dy))
  BY DEF StopsAlongY
<1>13. g[n] = s.y
  <2> DEFINE p == r.y
             e == s.y
  <2>1. LastFree(p, dy, e, B)
    BY <1>2, <1>9, <1>10, <1>12 DEF LastFree
  <2>2. Advances(g, n, p, dy, B)
    <3> HIDE DEF g, n
    <3> QED
      BY <1>1, <1>8, <1>11, <1>12 DEF Advances
  <2> HIDE DEF p, e, g, n
  <2>3. g[n] = e
    BY <2>1, <2>2, StepsUpTo
  <2> QED
    BY <2>3 DEF e
<1>14. end = [r EXCEPT !.y = s.y]
  BY <1>4, <1>7, <1>11, <1>13
<1> QED
  BY <1>14 DEF end

(***************************************************************************)
(* player_update is the walk pixel by pixel, first along x, then along y,  *)
(* from every place a sequence of moves can lead to.                       *)
(***************************************************************************)
THEOREM UpdatesAreWalks == Spec => []WalksPixelByPixel
<1>1. WalkInv => WalksPixelByPixel
  <2> SUFFICES ASSUME WalkInv, NEW dx \in Steps, NEW dy \in Steps
               PROVE  PlayerUpdate(map, player, dx, dy) = Walked(Walked(player, dx, 0), 0, dy)
    BY DEF WalksPixelByPixel
  <2> DEFINE m == map
             r == player
             end == PlayerUpdate(m, r, dx, dy)
  <2> DEFINE room == Rooms[world]
  <2>1. Closed(m, room) /\ WithinATile(m) /\ WholeMap(m)
    BY MapFacts
  <2>2. InRoom(m, room, r) /\ OnFloor(m, r)
    BY DEF WalkInv, InRoom
  <2>3. /\ dx \in Int /\ dy \in Int /\ m = map
        /\ -m.tileWidth <= dx /\ dx <= m.tileWidth /\ -m.tileHeight <= dy /\ dy <= m.tileHeight
    BY <2>1, SizesAssumed DEF WithinATile
  <2> HIDE DEF m, r, room
  <2>4. PICK s : /\ StopsAlongX(m, r, dx, s) /\ InRoom(m, room, s) /\ s \in Placed(r)
                 /\ s = [r EXCEPT !.x = s.x]
                 /\ StopsAlongY(m, s, dy, end)
    BY <2>1, <2>2, <2>3, PlayerUpdateStops
  <2>5. OnFloor(m, s)
    BY <2>4 DEF InRoom
  <2> HIDE DEF end
  <2>6. Walked(r, dx, 0) = s
    BY <2>2, <2>3, <2>4, WalkStopsAlongX
  <2>7. InBounds(m, Displaced(s, 0, dy))
    <3>1. -m.tileWidth <= 0 /\ 0 <= m.tileWidth /\ 0 \in Int
      BY <2>1, WholeMapTypes
    <3> QED
      BY <2>1, <2>3, <2>4, <3>1, StaysOnMap
  <2>8. end \in Placed(s) /\ end = [s EXCEPT !.y = end.y]
    BY <2>1, <2>3, <2>4, <2>7, <2>5, StopOnFloorAlongY
  <2>9. Walked(s, 0, dy) = end
    BY <2>3, <2>4, <2>8, <2>5, WalkStopsAlongY
  <2> QED
    BY <2>6, <2>9 DEF m, r, end
<1> QED
  BY <1>1, WalkInvHolds, PTL
=============================================================================
