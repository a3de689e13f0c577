-------------------------------- MODULE MCWorld --------------------------------
(***************************************************************************)
(* World in a corridor: one row of free tiles of 4 pixels, closed by walls.*)
(***************************************************************************)
EXTENDS World

CONSTANT Length  \* free tiles

Wall == [gid |-> 1, tilesetIndex |-> 0, tileFlatIndex |-> 0]
Floor == [gid |-> 2, tilesetIndex |-> 0, tileFlatIndex |-> 1]

Corridor ==
  LET columns == Length + 2
      IsFloor(i) == i \div columns = 1 /\ i % columns \notin {0, columns - 1}
  IN  [width |-> columns, height |-> 3, tileWidth |-> 4, tileHeight |-> 4,
       tilesets |-> <<[definitions |-> [i \in {0} |-> {"blocked"}]]>>,
       layers |-> <<[visible |-> TRUE, width |-> columns,
                     tiles |-> <<>> \o [i \in 1 .. 3 * columns |->
                                          IF IsFloor(i - 1) THEN Floor ELSE Wall]]>>]

Start == Rect(5, 4, 2, 3)
Walking == {-1, 1}
Ends == {5, 40}
=============================================================================
