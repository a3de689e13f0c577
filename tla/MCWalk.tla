-------------------------------- MODULE MCWalk --------------------------------
(***************************************************************************)
(* Walk in every room of 4 by 5 tiles that is closed by walls and leaves   *)
(* the spawn free, on a map that goes on beside it with a column of blank  *)
(* tiles; and on res/map/map1.tmx.  A pixel of the model is four of the    *)
(* game's: tiles of 4, a player of 2 by 3; a bullet has 2 instead of 1.5.  *)
(***************************************************************************)
EXTENDS Walk

Tile(g) == [gid |-> g, tilesetIndex |-> 0, tileFlatIndex |-> g - 1]
WallGids == {37, 38, 69, 70}
Definitions == [i \in {g - 1 : g \in WallGids} |-> {"blocked"}]

MapOf(columns, gids) ==
  [width |-> columns, height |-> Len(gids) \div columns, tileWidth |-> 4, tileHeight |-> 4,
   tilesets |-> <<[definitions |-> Definitions]>>,
   layers |-> <<[visible |-> TRUE, width |-> columns,
                 tiles |-> <<>> \o [i \in DOMAIN gids |-> Tile(gids[i])]]>>]

\* The inner cells that can be walls, and every choice of walls by its number.
Inner == <<7, 11, 12, 16, 17>>
Chosen(n) == {Inner[i] : i \in {j \in DOMAIN Inner : (n \div 2^(j - 1)) % 2 = 1}}
Border == {i \in 0 .. 24 : i % 5 \in {0, 3} \/ i \div 5 \in {0, 4}}
Closed(walls) ==
  MapOf(5, [i \in 1 .. 25 |-> IF (i - 1) % 5 = 4 THEN 0
                             ELSE IF i - 1 \in Border \cup walls THEN 37 ELSE 35])

Map1 == MapOf(20, <<
  69,38,38,38,38,38,38,38,38,38,38,38,38,38,38,38,38,38,38,70,
  69,1,35,33,33,35,35,35,35,35,35,35,35,35,35,33,33,35,3,70,
  69,35,35,35,35,35,35,35,35,35,35,35,35,35,35,35,35,35,1,70,
  69,65,35,35,35,34,34,35,35,35,34,35,35,35,35,35,35,35,67,70,
  69,1,35,35,35,35,35,35,35,35,35,35,35,35,35,67,37,37,37,37,
  69,65,35,35,35,35,35,35,35,35,35,35,35,37,37,37,70,0,0,0,
  37,37,37,37,37,37,37,37,37,35,35,35,35,70,0,0,0,0,0,0,
  0,0,0,0,0,0,0,0,69,67,65,35,35,70,0,0,0,0,0,0,
  0,0,0,0,0,0,0,0,69,3,1,35,33,70,0,0,0,0,0,0,
  0,0,0,0,0,0,0,0,69,35,35,35,35,70,0,0,0,0,0,0,
  0,0,0,0,0,0,0,0,69,35,35,35,67,70,0,0,0,0,0,0,
  69,38,38,38,70,0,0,0,69,35,1,35,67,70,0,0,0,0,0,0,
  69,1,35,3,70,0,0,0,69,35,35,35,3,70,0,0,0,0,0,0,
  69,35,35,35,70,0,0,0,69,35,35,35,2,37,37,37,37,37,37,37,
  69,35,35,35,70,0,0,0,69,35,35,35,35,35,3,1,35,35,3,70,
  69,35,35,33,37,37,37,37,37,35,66,35,35,35,35,35,35,33,33,70,
  69,35,35,35,35,35,35,35,35,35,35,35,35,35,35,35,35,35,2,70,
  69,35,35,35,35,35,35,35,34,2,35,35,35,35,35,35,2,35,35,70,
  69,65,66,33,67,65,2,35,35,34,35,35,35,35,66,3,35,3,67,70,
  37,37,37,37,37,37,37,37,37,37,37,37,37,37,37,37,37,37,37,37>>)

ClosedMaps == <<>> \o [n \in 1 .. 2^Len(Inner) |-> Closed(Chosen(n))] \o <<Map1>>
FloorTiles ==
  <<>> \o [n \in DOMAIN ClosedMaps |->
            {i \in 0 .. Len(ClosedMaps[n].layers[1].tiles) - 1 :
               ClosedMaps[n].layers[1].tiles[i + 1].gid \notin WallGids \cup {0}}]
Start == Rect(5, 5, 2, 3)
UpToATile == {-4, -2, -1, 0, 1, 3}
BulletSpeeds == {-3, 2}
=============================================================================
