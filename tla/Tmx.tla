----------------------------------- MODULE Tmx -----------------------------------
(***************************************************************************)
(* The handlers of tmxparser.cpp: what each makes of an XML element.  A    *)
(* handler returns [ret, value]: a TmxReturn, and on kSuccess the parsed   *)
(* structure.  "crash" stands for the reads through a null pointer.        *)
(* A path is [dir, base]; dir is "" when the path has no separator.  Names *)
(* and colours, opacities and offsets are kept by the code only to draw.   *)
(***************************************************************************)
EXTENDS XmlNode, Base64, FiniteSets, FiniteSetsExt

CONSTANTS
  Word,         \* unsigned int is modulo this
  FlipUnit      \* the three highest bits of a gid are flip flags: 2^29 in the code

Ok(value) == [ret |-> "kSuccess", value |-> value]
Fail(ret) == [ret |-> ret, value |-> <<>>]
Succeeded(r) == r.ret = "kSuccess"
Then(r, Continue(_)) == IF Succeeded(r) THEN Continue(r.value) ELSE r

\* The loops over the children of one name: the first error ends them.
Each(Parse(_), nodes) ==
  LET parsed == [i \in DOMAIN nodes |-> Parse(nodes[i])]
      failed == {i \in DOMAIN nodes : ~Succeeded(parsed[i])}
  IN  IF failed # {} THEN parsed[Min(failed)] ELSE Ok([i \in DOMAIN nodes |-> parsed[i].value])

HasAll(e, names) == \A name \in names : Has(e, name)

\* _updatePath: a bare file name is looked for in the tileset directory.
UpdatePath(path, tilesetPath) == IF path.dir = "" THEN [path EXCEPT !.dir = tilesetPath] ELSE path

-----------------------------------------------------------------------------
\* The properties of any element: name -> value; the later of two of a name counts.
ParsePropertyNode(e) ==
  LET given == IF HasChild(e, "properties")
               THEN ChildElements(FirstChildElement(e, "properties"), "property") ELSE <<>>
  IN  IF \E i \in DOMAIN given : ~HasAll(given[i], {"name", "value"})
      THEN Fail("kMalformedPropertyNode")
      ELSE Ok([name \in {Value(given[i], "name") : i \in DOMAIN given} |->
                 Value(given[Max({i \in DOMAIN given : Value(given[i], "name") = name})], "value")])

\* A required string that is missing is assigned from a null pointer first.
RequiredString(e, name, Continue(_)) ==
  IF ~Has(e, name) THEN Fail("crash") ELSE Continue(Value(e, name))

ParseImageNode(e) ==
  RequiredString(e, "source", LAMBDA source :
    IF source.base = "" THEN Fail("kMissingRequiredAttribute")
    ELSE Ok([source |-> source, width |-> UnsignedAttribute(e, "width"),
             height |-> UnsignedAttribute(e, "height")]))

ParseTileAnimationNode(e) ==
  LET frames == ChildElements(e, "frame")
  IN  [i \in DOMAIN frames |-> UnsignedAttribute(frames[i], "tileid")]

-----------------------------------------------------------------------------
(* Objects. *)

Shape(e) == IF HasChild(e, "ellipse") THEN "ellipse" ELSE IF HasChild(e, "polygon") THEN "polygon"
            ELSE IF HasChild(e, "polyline") THEN "polyline" ELSE "square"

\* Mutated: a shape may come without its points.
PointsMissingNever(e) == FALSE

PointsMissing(e) ==
  Shape(e) \in {"polygon", "polyline"} /\ ~Has(FirstChildElement(e, Shape(e)), "points")

ParseObjectNode(e) ==
  Then(ParsePropertyNode(e), LAMBDA properties :
    IF PointsMissing(e) THEN Fail("kErrorParsing")
    ELSE Ok([gid |-> UnsignedAttribute(e, "gid"), visible |-> BoolAttribute(e, "visible", FALSE),
             shape |-> Shape(e), propertyMap |-> properties]))

\* Whatever is wrong with an object, the group reports kErrorParsing.
ParseObjectGroupNode(e) ==
  Then(ParsePropertyNode(e), LAMBDA properties :
    LET objects == Each(ParseObjectNode, ChildElements(e, "object"))
    IN  IF ~Succeeded(objects) THEN Fail("kErrorParsing")
        ELSE Ok([visible |-> BoolAttribute(e, "visible", TRUE), propertyMap |-> properties,
                 objects |-> objects.value]))

\* A missing attribute leaves its default, an image and properties are optional.
ParseImageLayerNode(e) ==
  RequiredString(e, "name", LAMBDA name :
    IF name = "" THEN Fail("kMissingRequiredAttribute")
    ELSE Then(ParsePropertyNode(e), LAMBDA properties :
         Then(IF HasChild(e, "image") THEN ParseImageNode(FirstChildElement(e, "image"))
              ELSE Ok([source |-> [dir |-> "", base |-> ""], width |-> 0, height |-> 0]),
              LAMBDA image : Ok([visible |-> BoolAttribute(e, "visible", TRUE),
                                 propertyMap |-> properties, image |-> image]))))

-----------------------------------------------------------------------------
(* Tilesets. *)

ParseTileDefinitionNode(e) ==
  Then(ParsePropertyNode(e), LAMBDA properties :
    Then(Each(ParseObjectGroupNode, ChildElements(e, "objectgroup")), LAMBDA groups :
      Ok([id |-> UnsignedAttribute(e, "id"), propertyMap |-> properties, objectgroups |-> groups,
          animations |-> IF HasChild(e, "animation")
                         THEN ParseTileAnimationNode(FirstChildElement(e, "animation")) ELSE <<>>])))

\* Columns (or rows) of an image: a margin, then tiles with their spacing.
TilesAcross(size, margin, tile, spacing) == ((size - margin) % Word) \div (tile + spacing)

\* Mutated: a tile definition counts from 1 like the gids.
TileDefinitionsFromOne(tiles) ==
  [id \in {tiles[i].id + 1 : i \in DOMAIN tiles} |->
     tiles[Max({i \in DOMAIN tiles : tiles[i].id + 1 = id})]]

TileDefinitions(tiles) ==
  [id \in {tiles[i].id : i \in DOMAIN tiles} |-> tiles[Max({i \in DOMAIN tiles : tiles[i].id = id})]]

ParseTileset(e, firstgid) ==
  LET tileWidth == UnsignedAttribute(e, "tilewidth")
      tileHeight == UnsignedAttribute(e, "tileheight")
      spacing == UnsignedAttribute(e, "spacing")
      margin == UnsignedAttribute(e, "margin")
  IN  IF ~HasAll(e, {"tilewidth", "tileheight"}) THEN Fail("kMissingRequiredAttribute")
      ELSE IF ~HasChild(e, "image") THEN Fail("kErrorParsing")
      ELSE Then(ParseImageNode(FirstChildElement(e, "image")), LAMBDA image :
           Then(Each(ParseTileDefinitionNode, ChildElements(e, "tile")), LAMBDA tiles :
             IF 0 \in {tileWidth + spacing, tileHeight + spacing} THEN Fail("crash")
             ELSE Ok([firstgid |-> firstgid, tileWidth |-> tileWidth, tileHeight |-> tileHeight,
                      image |-> image, tileDefinitions |-> TileDefinitions(tiles),
                      colCount |-> TilesAcross(image.width, margin, tileWidth, spacing),
                      rowCount |-> TilesAcross(image.height, margin, tileHeight, spacing)])))

-----------------------------------------------------------------------------
(* Layers. *)

EndIndex(tileset) == tileset.firstgid + tileset.colCount * tileset.rowCount

\* The flat index counts from the end of the tileset before.
FlatIndex(tilesets, i, gid) == gid - IF i = 1 THEN 1 ELSE EndIndex(tilesets[i - 1])

\* _calculateTileIndices: the first tileset whose range has the gid.
CalculateTileIndices(tilesets, gid) ==
  LET holders == {i \in DOMAIN tilesets : /\ gid >= tilesets[i].firstgid
                                          /\ gid < EndIndex(tilesets[i])}
      i == Min(holders)
      blank == [gid |-> gid, tilesetIndex |-> 0, tileFlatIndex |-> 0]
  IN  IF gid = 0 THEN [ret |-> "kSuccess", tile |-> blank]
      ELSE IF holders = {} THEN [ret |-> "kUnknownTileIndices", tile |-> blank]
      ELSE [ret |-> "kSuccess",
            tile |-> [blank EXCEPT !.tilesetIndex = i - 1,
                                   !.tileFlatIndex = FlatIndex(tilesets, i, gid)]]

\* Every tile is kept; the error of the last one, of the one kind there is, is
\* the error of the layer.
Tiles(tilesets, gids) ==
  LET each == [i \in DOMAIN gids |-> CalculateTileIndices(tilesets, gids[i])]
  IN  IF gids # <<>> /\ ~Succeeded(Last(each)) THEN Fail("kUnknownTileIndices")
      ELSE Ok([i \in DOMAIN each |-> each[i].tile])

\* Tiles as XML: only here the flip flags are taken off the gid.
XmlGids(data) ==
  LET tiles == ChildElements(data, "tile")
  IN  [i \in DOMAIN tiles |-> UnsignedAttribute(tiles[i], "gid") % FlipUnit]

\* Numbers, each with what follows it: the stream fails at anything else.
CsvGids(numbers) ==
  LET Stops(i) == numbers[i].then = "other"
      read == CHOOSE n \in 0 .. Len(numbers) :
                /\ \A i \in 1 .. n - 1 : ~Stops(i)
                /\ n = Len(numbers) \/ (n > 0 /\ Stops(n))
  IN  [i \in 1 .. read |-> numbers[i].gid]

\* Little-endian words of four bytes.
Base64Gids(chars) ==
  LET bytes == Base64Decode(SelectSeq(chars, LAMBDA c : c # NewLine))
  IN  [i \in 1 .. Len(bytes) \div 4 |->
         LET w == Group(bytes, i, 4) IN w[1] + 256 * (w[2] + 256 * (w[3] + 256 * w[4]))]

ParseLayerDataNode(data, tilesets) ==
  IF Has(data, "compression") THEN Fail("kErrorParsing")
  ELSE IF ~Has(data, "encoding") THEN Tiles(tilesets, XmlGids(data))
  ELSE IF Value(data, "encoding") \notin {"csv", "base64"} THEN Fail("kErrorParsing")
  ELSE IF data.kids = <<>> THEN Fail("crash")
  ELSE Tiles(tilesets, IF Value(data, "encoding") = "csv" THEN CsvGids(data.kids[1].name)
                       ELSE Base64Gids(data.kids[1].name))

ParseLayerNode(e, tilesets) ==
  RequiredString(e, "name", LAMBDA name :
    Then(ParsePropertyNode(e), LAMBDA properties :
      IF ~HasChild(e, "data") THEN Fail("kMissingDataNode")
      ELSE Then(ParseLayerDataNode(FirstChildElement(e, "data"), tilesets), LAMBDA tiles :
             Ok([visible |-> IntAttribute(e, "visible", 1) = 1,
                 width |-> UnsignedAttribute(e, "width"),
                 propertyMap |-> properties, tiles |-> tiles]))))
=============================================================================
