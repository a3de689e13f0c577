--------------------------------- MODULE MapFile ---------------------------------
(***************************************************************************)
(* Loading a map: GameMap's constructor, that is parseFromFile with the    *)
(* XML parser below it, an element a step, and then MapRenderer::setup.    *)
(* A tileset in a file of its own is read by a second XMLDocument.         *)
(***************************************************************************)
EXTENDS Xml, Tmx, GameMap

CONSTANTS
  Disks,          \* the disks and what was meant by them, see disk
  MapPath,        \* the path of the map
  TilesetPath     \* the directory of the tilesets

\* A file is a sequence of items, and a tag has a sequence of attributes.
IsSequence(s) == Len(s) \in Nat /\ s = [i \in 1 .. Len(s) |-> s[i]]

Kinds == DOMAIN Unended \cup {"tag", "space"}
ItemType(item) ==
  /\ item.kind \in Kinds
  /\ item.kind = "tag" => item.closing \in BOOLEAN /\ IsSequence(item.attrs)

\* White space in front of "<" belongs to the text it follows, and is no item.
TextsReachMarkup(items) ==
  \A i \in 2 .. Len(items) : items[i - 1].kind = "text" => items[i].kind \notin {"text", "space"}

ASSUME DisksAssumption ==
  \A d \in Disks : \A path \in DOMAIN d.files :
    LET items == d.files[path]
    IN  /\ IsSequence(items) /\ TextsReachMarkup(items)
        /\ \A i \in DOMAIN items : ItemType(items[i])

VARIABLES
  disk,       \* files: path -> items; and for the properties alone the tiles
              \* gids: layer -> cell -> gid, blocked: the gids with that property
  stage,      \* where the loader is
  map,        \* the <map> element
  queue,      \* the children of the running loop still to come
  out,        \* the TmxMap
  ret,        \* what parseFromFile returned, "" before
  drawn       \* per layer what setup drew

mapVars == <<disk, stage, map, queue, out, ret, drawn>>
vars == <<xmlVars, mapVars>>

\* size: what was read of the four numbers every map must have, in this order.
Sizes == <<"width", "height", "tilewidth", "tileheight">>

EmptyMap == [size |-> <<>>, propertyMap |-> <<>>, tilesets |-> <<>>, layers |-> <<>>,
             objectGroups |-> <<>>, imageLayers |-> <<>>]

Init ==
  /\ XmlInit
  /\ disk \in Disks
  /\ stage = "start" /\ map = Document /\ queue = <<>>
  /\ out = EmptyMap /\ ret = "" /\ drawn = <<>>

OnDisk(path) == path \in DOMAIN disk.files
Load(path) == LoadFile(OnDisk(path), IF OnDisk(path) THEN disk.files[path] ELSE <<>>)

Open ==
  /\ stage = "start" /\ stage' = "reading"
  /\ Load(MapPath)
  /\ UNCHANGED <<disk, map, queue, out, ret, drawn>>

Read == stage \in {"reading", "readingTileset"} /\ ParseStep /\ UNCHANGED mapVars

\* parseFromFile returns; the constructor only logs an error, and goes on.
Return(r) ==
  /\ ret' = r
  /\ stage' = IF r = "crash" THEN "crashed" ELSE "loaded"

(***************************************************************************)
(* _parseMapNode.  On an error the map keeps what it was given before.     *)
(***************************************************************************)
\* Each number is stored before the next one is looked for.
SizesRead(e) == {i \in DOMAIN Sizes : \A j \in 1 .. i : Has(e, Sizes[j])}

ParseMapNode(e) ==
  LET properties == ParsePropertyNode(e)
      read == [out EXCEPT !.size = [name \in {Sizes[i] : i \in SizesRead(e)} |-> Value(e, name)]]
  IN  /\ map' = e
      /\ IF ~Has(e, "version") THEN Return("crash") /\ UNCHANGED <<queue, out>>
         ELSE IF SizesRead(e) # DOMAIN Sizes
         THEN Return("kMissingRequiredAttribute") /\ out' = read /\ UNCHANGED queue
         ELSE IF ~Succeeded(properties)
         THEN Return(properties.ret) /\ out' = read /\ UNCHANGED queue
         ELSE /\ out' = [read EXCEPT !.propertyMap = properties.value]
              /\ stage' = "tilesets" /\ queue' = ChildElements(e, "tileset")
              /\ UNCHANGED ret

ParseMap ==
  /\ stage = "reading" /\ p = "stopped"
  /\ IF error # "XML_SUCCESS" \/ ~HasChild(open[1], "map")
     THEN /\ Return(IF error # "XML_SUCCESS" THEN "kErrorParsing" ELSE "kMissingMapNode")
          /\ UNCHANGED <<map, queue, out>>
     ELSE ParseMapNode(FirstChildElement(open[1], "map"))
  /\ UNCHANGED <<xmlVars, disk, drawn>>

\* What a child was parsed to goes to the end of its collection.
Keep(collection, r, then) ==
  /\ IF Succeeded(r)
     THEN /\ out' = [out EXCEPT ![collection] = Append(@, r.value)]
          /\ queue' = Tail(queue) /\ stage' = then /\ UNCHANGED ret
     ELSE Return(r.ret) /\ UNCHANGED <<out, queue>>
  /\ UNCHANGED <<disk, map, drawn>>

\* _parseTilesetNode: embedded, or in the file its source names.
ParseTilesetNode ==
  /\ stage = "tilesets" /\ queue # <<>>
  /\ LET e == Head(queue)
     IN  IF ~Has(e, "firstgid")
         THEN Keep("tilesets", Fail("kMissingRequiredAttribute"), "tilesets") /\ UNCHANGED xmlVars
         ELSE IF Has(e, "source")
         THEN /\ Load(UpdatePath(Value(e, "source"), TilesetPath))
              /\ stage' = "readingTileset"
              /\ UNCHANGED <<disk, map, queue, out, ret, drawn>>
         ELSE /\ Keep("tilesets", ParseTileset(e, Value(e, "firstgid")), "tilesets")
              /\ UNCHANGED xmlVars

TilesetRead ==
  /\ stage = "readingTileset" /\ p = "stopped"
  /\ Keep("tilesets",
          IF error # "XML_SUCCESS" THEN Fail("kErrorParsing")
          ELSE IF ~HasChild(open[1], "tileset") THEN Fail("kMissingTilesetNode")
          ELSE ParseTileset(FirstChildElement(open[1], "tileset"), Value(Head(queue), "firstgid")),
          "tilesets")
  /\ UNCHANGED xmlVars

Loop(at, collection, Parse(_)) ==
  /\ stage = at /\ queue # <<>>
  /\ Keep(collection, Parse(Head(queue)), at)
  /\ UNCHANGED xmlVars

ParseLayer == Loop("layers", "layers", LAMBDA e : ParseLayerNode(e, out.tilesets))
ParseObjectGroup == Loop("objectgroups", "objectGroups", ParseObjectGroupNode)
ParseImageLayer == Loop("imagelayers", "imageLayers", ParseImageLayerNode)

\* The next loop begins when the children of one name are done.
NextLoop(at, then, name) ==
  /\ stage = at /\ queue = <<>>
  /\ stage' = then /\ queue' = ChildElements(map, name)
  /\ UNCHANGED <<xmlVars, disk, map, out, ret, drawn>>

\* _parseEnd: images without a directory are looked for beside the tilesets.
WithPaths(items) ==
  [i \in DOMAIN items |-> [items[i] EXCEPT !.image.source = UpdatePath(@, TilesetPath)]]

ParseEnd ==
  /\ stage = "imagelayers" /\ queue = <<>>
  /\ out' = [out EXCEPT !.tilesets = WithPaths(@), !.imageLayers = WithPaths(@)]
  /\ Return("kSuccess")
  /\ UNCHANGED <<xmlVars, disk, map, queue, drawn>>

-----------------------------------------------------------------------------
\* Mutated: the source is found by the tile's gid.
SourceTileByGid(tileset, tile) ==
  [x |-> (tile.gid % tileset.colCount) * tileset.tileWidth,
   y |-> (tile.gid \div tileset.colCount) * tileset.tileHeight]

\* The pixels of a tile in its image; margin and spacing are not looked at.
SourceTile(tileset, tile) ==
  [x |-> (tile.tileFlatIndex % tileset.colCount) * tileset.tileWidth,
   y |-> (tile.tileFlatIndex \div tileset.colCount) * tileset.tileHeight]

\* What setup draws for a layer, always from the first tileset's texture.
LayerDrawn(layer) ==
  {[texture |-> out.tilesets[1].image.source,
    source |-> SourceTile(out.tilesets[layer.tiles[i].tilesetIndex + 1], layer.tiles[i]),
    x |-> ((i - 1) % layer.width) * out.size["tilewidth"],
    y |-> ((i - 1) \div layer.width) * out.size["tileheight"]] :
   i \in {j \in DOMAIN layer.tiles : layer.tiles[j].gid # 0}}

\* A tile without a tileset, and a layer without a width, are beyond setup.
Drawable(layer) ==
  /\ layer.tiles # <<>> => layer.width # 0
  /\ \A i \in DOMAIN layer.tiles : layer.tiles[i].gid # 0 =>
       /\ layer.tiles[i].tilesetIndex < Len(out.tilesets)
       /\ out.tilesets[layer.tiles[i].tilesetIndex + 1].colCount # 0

Setup ==
  /\ stage = "loaded"
  /\ IF \A i \in DOMAIN out.layers : Drawable(out.layers[i])
     THEN /\ drawn' = [i \in DOMAIN out.layers |-> LayerDrawn(out.layers[i])]
          /\ stage' = "drawn"
     ELSE stage' = "crashed" /\ UNCHANGED drawn
  /\ UNCHANGED <<xmlVars, disk, map, queue, out, ret>>

Next ==
  \/ Open \/ Read
  \/ ParseMap
  \/ ParseTilesetNode \/ TilesetRead \/ NextLoop("tilesets", "layers", "layer")
  \/ ParseLayer \/ NextLoop("layers", "objectgroups", "objectgroup")
  \/ ParseObjectGroup \/ NextLoop("objectgroups", "imagelayers", "imagelayer")
  \/ ParseImageLayer \/ ParseEnd
  \/ Setup

Spec == Init /\ [][Next]_vars

-----------------------------------------------------------------------------
(* Properties of the XML parser, once it has read the map's file. *)

Stages == {"start", "reading", "readingTileset", "tilesets", "layers", "objectgroups",
           "imagelayers", "loaded", "drawn", "crashed"}

\* Every variable is of its kind, nothing is held by less than one document,
\* and no pool (tinyxml2.h:347) ever gives back more than it handed out.
TypeOK ==
  /\ p \in {"reading", "null", "stopped"} /\ stage \in Stages
  /\ Len(open) \in 1 .. MaxDepth - 1 /\ open[1].kind = "document" /\ depth \in 0 .. MaxDepth - 1
  /\ \A i \in 2 .. Len(open) : open[i].kind = "element"
  /\ live \in [Pools -> Nat]
  /\ out.tilesets # <<>> => DOMAIN out.size = ToSet(Sizes)
  /\ ret # "" <=> stage \in {"loaded", "drawn", "crashed"}

Opens(item) == item.kind = "tag" /\ item.end = "open" /\ ~item.closing
Closes(item) == item.kind = "tag" /\ item.end = "open" /\ item.closing

\* How many elements are open after each item.
Nesting(item) == IF Opens(item) THEN 1 ELSE IF Closes(item) THEN -1 ELSE 0
Depths(items) ==
  Tail(FoldLeft(LAMBDA depths, item : Append(depths, Last(depths) + Nesting(item)), <<0>>, items))

\* The items in front of the first end tag that ends nothing.
Before(depths) == {i \in DOMAIN depths : \A j \in 1 .. i : depths[j] >= 0}

SoundTag(tag) ==
  /\ tag.name # "" /\ tag.end \in {"open", "closed"}
  /\ \A i, j \in DOMAIN tag.attrs : /\ tag.attrs[i].ok
                                    /\ i # j => tag.attrs[i].name # tag.attrs[j].name

\* What follows a text is markup; a text the file ends with is not ended.
Sound(items, i) ==
  CASE items[i].kind = "tag" -> SoundTag(items[i])
    [] items[i].kind = "space" -> TRUE
    [] OTHER -> items[i].ended /\ (items[i].kind = "text" => i < Len(items))

\* An end tag ends the last element opened at its depth, and has its name.
Matched(items, depths, i) ==
  LET j == Max({k \in 1 .. i - 1 : Opens(items[k]) /\ depths[k] = depths[i] + 1})
  IN  items[j].name = items[i].name

\* Nothing but space and declarations is in front of a declaration.
WellPlaced(items, i) ==
  items[i].kind = "declaration" => \A j \in 1 .. i - 1 : items[j].kind \in {"declaration", "space"}

WellFormed(items) ==
  LET depths == Depths(items)
      before == Before(depths)
  IN  /\ ~Blank(items)
      /\ \A i \in DOMAIN items : (i \in before \/ i - 1 \in before \cup {0}) => Sound(items, i)
      /\ \A i \in before : /\ depths[i] < MaxDepth - 1
                           /\ Closes(items[i]) => Matched(items, depths, i)
                           /\ WellPlaced(items, i)
      /\ before # {} => depths[Max(before)] = 0

Items == disk.files[MapPath]
MapRead == stage = "reading" /\ p = "stopped" /\ OnDisk(MapPath)

\* The parser, which goes through nested calls and end tags in one pass
\* (tinyxml2.cpp:1050), accepts exactly the texts whose tags nest, seen as a
\* whole; an end tag that ends nothing cuts the text off without an error.
ParsesWellFormed == MapRead => (error = "XML_SUCCESS" <=> WellFormed(Items))

\* Nothing is allocated that the document does not reach: not for an end tag,
\* not after an error anywhere in the text (tinyxml2.cpp:1086, 1126).
NoNodeLost == live = Sum([i \in DOMAIN open |-> Allocs(open[i], MaxDepth)])

-----------------------------------------------------------------------------
(* Properties of the loaded map. *)

\* What an element must have, and all that is read of what is below it.
AllOf(e, name, Complete(_)) == \A node \in ToSet(ChildElements(e, name)) : Complete(node)

CompleteProperties(e) ==
  HasChild(e, "properties") =>
    AllOf(FirstChildElement(e, "properties"), "property", LAMBDA node : HasAll(node, {"name", "value"}))

CompleteObject(e) ==
  /\ CompleteProperties(e)
  /\ \A shape \in {"polygon", "polyline"} :
       Shape(e) = shape => Has(FirstChildElement(e, shape), "points")

CompleteObjectGroup(e) == CompleteProperties(e) /\ AllOf(e, "object", CompleteObject)
CompleteTile(e) == CompleteProperties(e) /\ AllOf(e, "objectgroup", CompleteObjectGroup)

CompleteTileset(e) ==
  /\ Has(e, "firstgid")
  /\ ~Has(e, "source") => /\ HasAll(e, {"tilewidth", "tileheight"})
                          /\ HasChild(e, "image") /\ Has(FirstChildElement(e, "image"), "source")
                          /\ AllOf(e, "tile", CompleteTile)

CompleteLayer(e) == Has(e, "name") /\ CompleteProperties(e) /\ HasChild(e, "data")
CompleteImageLayer(e) ==
  /\ Has(e, "name") /\ CompleteProperties(e)
  /\ HasChild(e, "image") => Has(FirstChildElement(e, "image"), "source")

CompleteMap(e) ==
  /\ HasAll(e, {"version"} \cup ToSet(Sizes)) /\ CompleteProperties(e)
  /\ AllOf(e, "tileset", CompleteTileset) /\ AllOf(e, "layer", CompleteLayer)
  /\ AllOf(e, "objectgroup", CompleteObjectGroup) /\ AllOf(e, "imagelayer", CompleteImageLayer)

\* Of a map that is returned as parsed no element that is read, however deep,
\* lacks what it must have, and no tileset, layer or group is missing: so far
\* errors find their way up (tmxparser.cpp:627, 424, 276).  Of gids it says
\* nothing: the error of a tile is lost when the next one has none (tmxparser.cpp:494).
ParsedIsComplete ==
  ret = "kSuccess" =>
    /\ CompleteMap(map)
    /\ Len(out.tilesets) = Len(ChildElements(map, "tileset"))
    /\ Len(out.layers) = Len(ChildElements(map, "layer"))
    /\ Len(out.objectGroups) = Len(ChildElements(map, "objectgroup"))
    /\ Len(out.imageLayers) = Len(ChildElements(map, "imagelayer"))

Cells == {<<l, i>> : l \in DOMAIN out.layers, i \in 1 .. 8}
IsCell(cell) == cell[2] \in DOMAIN disk.gids[cell[1]]
Written(cell) == disk.gids[cell[1]][cell[2]]

\* Every gid is blank or a tile of a tileset.
InRange(gid, tileset) == tileset.firstgid <= gid /\ gid < EndIndex(tileset)

GidsKnown ==
  \A l \in DOMAIN out.layers : \A tile \in ToSet(out.layers[l].tiles) :
    tile.gid = 0 \/ \E t \in DOMAIN out.tilesets : InRange(tile.gid, out.tilesets[t])

\* The map is one the parser is meant for: it knows every gid it has read, and
\* the tilesets follow one another without a gap.
Meant ==
  /\ ret = "kSuccess" /\ stage \in {"loaded", "drawn"}
  /\ \A i \in DOMAIN out.tilesets :
       out.tilesets[i].firstgid = IF i = 1 THEN 1 ELSE EndIndex(out.tilesets[i - 1])
  /\ GidsKnown

\* What GameMap sees of it.
Seen ==
  [width |-> out.size["width"], height |-> out.size["height"],
   tileWidth |-> out.size["tilewidth"], tileHeight |-> out.size["tileheight"],
   layers |-> out.layers,
   tilesets |-> [t \in DOMAIN out.tilesets |->
     [definitions |-> [id \in DOMAIN out.tilesets[t].tileDefinitions |->
                         DOMAIN out.tilesets[t].tileDefinitions[id].propertyMap]]]]

\* The blocked tiles the game collides with (map.cpp:92) are those that were
\* meant to be: encoding, gid, tileset and tile definition fit together.
WallsAsWritten ==
  Meant =>
    GetTilesWithProperty(Seen, "blocked") =
      {cell[2] - 1 : cell \in {c \in Cells : IsCell(c) /\ Written(c) \in disk.blocked}}

\* Where a tile of the first tileset is in its image.
Pixels(gid) ==
  LET t == out.tilesets[1]
  IN  [x |-> ((gid - 1) % t.colCount) * t.tileWidth, y |-> ((gid - 1) \div t.colCount) * t.tileHeight]

\* Every tile that was meant is drawn once, where it was meant, and nothing else
\* is (map_renderer.cpp:43); tiles of the first tileset, the only one there is a
\* texture for, with their own pixels.
DrawnAsWritten ==
  (Meant /\ stage = "drawn") =>
    \A l \in DOMAIN out.layers :
      LET cells == {i \in DOMAIN disk.gids[l] : disk.gids[l][i] # 0}
          Place(i) == <<((i - 1) % out.layers[l].width) * out.size["tilewidth"],
                        ((i - 1) \div out.layers[l].width) * out.size["tileheight"]>>
      IN  /\ {<<d.x, d.y>> : d \in drawn[l]} = {Place(i) : i \in cells}
          /\ Cardinality(drawn[l]) = Cardinality(cells)
          /\ \A i \in cells : InRange(disk.gids[l][i], out.tilesets[1]) =>
               \E d \in drawn[l] : <<d.x, d.y>> = Place(i) /\ d.source = Pixels(disk.gids[l][i])
=============================================================================
