------------------------------ MODULE MCMapFile ------------------------------
(***************************************************************************)
(* Two kinds of maps on disk: short texts of every sort, most of them not  *)
(* well-formed, and maps of 2 by 2 cells with every part in every variant, *)
(* two parts at a time.                                                    *)
(***************************************************************************)
EXTENDS XmlPrinter

A(name, value) == Attribute(name, value)
Path(dir, base) == [dir |-> dir, base |-> base]
External == Path("tiles", "b.tsx")
Disk(files, gids, blocked) == [files |-> files, gids |-> gids, blocked |-> blocked]

-----------------------------------------------------------------------------
\* Texts.
Lexemes ==
  {Tag(FALSE, "a", <<>>, "open"), Tag(FALSE, "b", <<A("x", 1)>>, "open"),
   Tag(FALSE, "b", <<A("x", 1), A("x", 2)>>, "closed"), Tag(TRUE, "a", <<>>, "open"),
   Tag(TRUE, "b", <<A("x", 1)>>, "open"), Tag(TRUE, "a", <<>>, "closed"),
   Tag(FALSE, "", <<>>, "open"), Tag(FALSE, "a", <<>>, "none"),
   Tag(FALSE, "a", <<[A("x", 1) EXCEPT !.ok = FALSE]>>, "open"),
   Item("space", "", TRUE), Item("text", "t", TRUE),
   Item("declaration", "d", TRUE), Item("comment", "c", FALSE)}

Nested(n) ==
  [i \in 1 .. 2 * n |-> IF i <= n THEN Tag(FALSE, "a", <<>>, "open") ELSE Tag(TRUE, "a", <<>>, "open")]

\* Elements beside one another, more than may be inside one another.
Beside(n) ==
  [i \in 1 .. 2 * n |-> IF i % 2 = 1 THEN Tag(FALSE, "a", <<>>, "open") ELSE Tag(TRUE, "a", <<>>, "open")]

Texts ==
  {t \in UNION {[1 .. n -> Lexemes] : n \in 0 .. 4} : TextsReachMarkup(t)}
    \cup {Nested(n) : n \in 5 .. 8} \cup {Beside(8)}

TextDisks == {Disk(MapPath :> t, <<>>, {}) : t \in Texts}

-----------------------------------------------------------------------------
\* The parts of a map.  The first of each list is the usual one.
Attrs ==
  <<A("version", 1), A("width", 2), A("height", 2), A("tilewidth", 1), A("tileheight", 1)>>

Property(name) == Element("property", <<A("name", name), A("value", 1)>>, <<>>)
Properties(kids) == Element("properties", <<>>, kids)
Malformed == Properties(<<Property("p"), Element("property", <<A("name", "q")>>, <<>>)>>)
Props == Properties(<<Property("p"), Property("p")>>)

Object(kids) == Element("object", <<A("gid", 1)>>, kids)
ObjectGroup(objects) == Element("objectgroup", <<A("visible", 1)>>, objects)
Shaped(kind, attrs) == ObjectGroup(<<Object(<<Element(kind, attrs, <<>>)>>)>>)
BadShape == Shaped("polygon", <<>>)

TileDef(id, kids) == Element("tile", <<A("id", id)>>, kids)
Blocked(id) == TileDef(id, <<Properties(<<Property("blocked")>>)>>)
Animated(id) ==
  TileDef(id, <<Element("animation", <<>>, <<Element("frame", <<A("tileid", 1)>>, <<>>)>>)>>)

Image(source, w, h) == Element("image", <<A("source", source), A("width", w), A("height", h)>>, <<>>)
TileSize == <<A("tilewidth", 1), A("tileheight", 1)>>
Set(attrs, kids) == Element("tileset", attrs, kids)
Picture == Image(Path("", "t.png"), 3, 2)
SixTiles == Set(<<A("firstgid", 1)>> \o TileSize, <<Picture, Blocked(0), Blocked(4), Animated(3)>>)
ByFile(source) == Set(<<A("firstgid", 7), A("source", source)>>, <<>>)
Within(attrs, kids) == Set(<<A("firstgid", 1)>> \o attrs, <<Picture>> \o kids)

Sets ==
  <<[nodes |-> <<SixTiles>>, blocked |-> {1, 5}],
    [nodes |-> <<SixTiles, ByFile(External)>>, blocked |-> {1, 5, 8}],
    [nodes |-> <<SixTiles, ByFile(Path("", "b.tsx"))>>, blocked |-> {1, 5, 8}]>>
  \o [i \in 1 .. 13 |-> [blocked |-> {}, nodes |->
       <<<<>>, <<SixTiles, ByFile(Path("", "c.tsx"))>>, <<Set(TileSize, <<Picture>>)>>,
         <<Set(<<A("firstgid", 1)>> \o TileSize, <<>>)>>,
         <<Set(<<A("firstgid", 1)>> \o TileSize, <<Element("image", <<>>, <<>>)>>)>>,
         <<Set(<<A("firstgid", 1)>> \o TileSize, <<Image(Path("", ""), 3, 2)>>)>>,
         <<Within(<<A("tilewidth", 1)>>, <<>>)>>,
         <<Within(<<A("tilewidth", 0), A("tileheight", 1)>>, <<>>)>>,
         <<Within(TileSize \o <<A("spacing", 1)>>, <<>>)>>,
         <<Within(TileSize \o <<A("margin", 3)>>, <<>>)>>,
         <<Within(TileSize, <<TileDef(0, <<Malformed>>)>>)>>,
         <<Within(TileSize, <<TileDef(1, <<BadShape>>)>>)>>,
         <<SixTiles, Set(<<A("firstgid", 9), A("source", External)>>, <<>>)>>>>[i]]]

\* The file of the second tileset.
TwoTiles == Set(TileSize, <<Image(Path("img", "b.png"), 2, 1), Blocked(1)>>)
Files == <<PrintNode(TwoTiles), PrintNode(Element("tile", <<>>, <<>>)), <<Item("space", "", TRUE)>>>>

\* Layers: the cells 1, 0, 5, 2 or 1, 8, 0, 5 in every encoding.
Number(gid, then) == [gid |-> gid, then |-> then]
Csv(gids) == [i \in DOMAIN gids |-> Number(gids[i], "separator")]
Bytes(gids) == FlattenSeq([i \in DOMAIN gids |-> <<gids[i], 0, 0, 0>>])
Base64(gids) == Base64Encode(Bytes(gids))
Data(encoding, kids) == Element("data", <<A("encoding", encoding)>>, kids)
DataText(encoding, value) == Data(encoding, <<Leaf("text", value)>>)
DataXml(gids) ==
  Element("data", <<>>, [i \in DOMAIN gids |-> Element("tile", <<A("gid", gids[i])>>, <<>>)])
LayerOf(attrs, kids) == Element("layer", <<A("name", "l"), A("width", 2)>> \o attrs, kids)
Layer(data) == LayerOf(<<>>, <<data>>)
OneLayer(node, gids) == [nodes |-> <<node>>, gids |-> <<gids>>]

One == <<1, 0, 5, 2>>
Two == <<1, 8, 0, 5>>
Flag == 3 * FlipUnit

LayerSets ==
  <<OneLayer(Layer(DataText("csv", Csv(One))), One),
    OneLayer(Layer(DataText("csv", Csv(Two))), Two),
    OneLayer(Layer(DataXml(<<1 + Flag, 0, 5 + Flag, 2>>)), One),
    OneLayer(Layer(DataXml(Two)), Two),
    OneLayer(Layer(DataText("base64", <<NewLine>> \o Base64(One) \o <<NewLine>>)), One),
    OneLayer(Layer(DataText("base64", Base64(Two) \o <<Foreign, 0>>)), Two),
    OneLayer(Layer(DataText("csv", <<Number(1, "separator"), Number(0, "other"), Number(5, "separator")>>)),
             <<1, 0>>),
    OneLayer(LayerOf(<<A("visible", 0)>>, <<Props, DataText("csv", Csv(One))>>), One),
    OneLayer(Layer(DataText("csv", Csv(<<1, 5 + Flag, 0, 2>>))), <<1, 5, 0, 2>>),
    OneLayer(Layer(DataText("csv", Csv(<<1, 5, 0, 2 + Flag>>))), <<1, 5, 0, 2>>),
    [nodes |-> <<>>, gids |-> <<>>],
    [nodes |-> <<Layer(DataText("csv", Csv(One))), Layer(DataXml(Two))>>, gids |-> <<One, Two>>]>>
  \o [i \in 1 .. 8 |-> OneLayer(
       <<Layer(Element("data", <<A("encoding", "csv"), A("compression", "zlib")>>, <<Leaf("text", Csv(One))>>)),
         Layer(DataText("hex", Csv(One))), Layer(Data("csv", <<>>)), LayerOf(<<>>, <<>>),
         Element("layer", <<>>, <<DataXml(One)>>),
         Element("layer", <<A("name", "l")>>, <<DataXml(One)>>),
         LayerOf(<<>>, <<Malformed, DataXml(One)>>), Layer(DataXml(<<>>))>>[i],
       <<One, One, One, One, One, One, One, <<>>>>[i])]

Groups ==
  <<<<>>, <<ObjectGroup(<<>>), Shaped("ellipse", <<>>)>>, <<Shaped("polygon", <<A("points", "q")>>)>>,
    <<BadShape>>, <<ObjectGroup(<<Object(<<>>)>>), Shaped("polyline", <<>>)>>,
    <<ObjectGroup(<<Object(<<Malformed>>)>>)>>, <<Element("objectgroup", <<>>, <<Malformed>>)>>>>

ImageLayer(kids) == Element("imagelayer", <<A("name", "i")>>, kids)
ImageLayers ==
  <<<<>>, <<ImageLayer(<<Picture>>), ImageLayer(<<Props>>)>>, <<ImageLayer(<<Malformed>>)>>,
    <<ImageLayer(<<Element("image", <<>>, <<>>)>>)>>, <<Element("imagelayer", <<>>, <<>>)>>,
    <<Element("imagelayer", <<A("name", "")>>, <<>>)>>>>

AttrSets == <<Attrs>> \o [i \in DOMAIN Attrs |-> RemoveAt(Attrs, i)]
PropSets == <<<<>>, <<Props>>, <<Malformed>>>>

-----------------------------------------------------------------------------
Parts == [attrs |-> DOMAIN AttrSets, props |-> DOMAIN PropSets, sets |-> DOMAIN Sets,
          file |-> DOMAIN Files, layers |-> DOMAIN LayerSets, groups |-> DOMAIN Groups,
          images |-> DOMAIN ImageLayers]

\* Which variant of each part: all usual, but for at most two.
Variants ==
  LET parts == Parts
      usual == [part \in DOMAIN parts |-> 1]
  IN  UNION {{[usual EXCEPT ![a] = i, ![b] = j] : i \in parts[a], j \in parts[b]} :
             a \in DOMAIN parts, b \in DOMAIN parts}

\* Printed once, part by part.
Prints(nodes) == <<>> \o FlattenSeq([i \in DOMAIN nodes |-> PrintNode(nodes[i])])
PrintsOf(nodeLists) == <<>> \o [i \in DOMAIN nodeLists |-> Prints(nodeLists[i])]
Printed ==
  LET sets == Sets
      layers == LayerSets
  IN  [files |-> Files, props |-> PrintsOf(PropSets), groups |-> PrintsOf(Groups),
       images |-> PrintsOf(ImageLayers), attrs |-> AttrSets,
       sets |-> PrintsOf([i \in DOMAIN sets |-> sets[i].nodes]),
       blocked |-> <<>> \o [i \in DOMAIN sets |-> sets[i].blocked],
       layers |-> PrintsOf([i \in DOMAIN layers |-> layers[i].nodes]),
       gids |-> <<>> \o [i \in DOMAIN layers |-> layers[i].gids]]

MapDisk(c, printed) ==
  LET doc == <<Item("declaration", "d", TRUE), Tag(FALSE, "map", printed.attrs[c.attrs], "open")>>
               \o printed.props[c.props] \o printed.sets[c.sets] \o printed.images[c.images]
               \o printed.groups[c.groups] \o printed.layers[c.layers]
               \o <<Tag(TRUE, "map", <<>>, "open")>>
  IN  Disk((MapPath :> doc) @@ (External :> printed.files[c.file]),
           printed.gids[c.layers], printed.blocked[c.sets])

\* A tileset in a file and tiles of it go together with any third part.
MapDisks ==
  LET printed == Printed
      variants == Variants
      withFile == {[c EXCEPT !.sets = 2, !.layers = 2] : c \in variants}
  IN  {MapDisk(c, printed) : c \in variants \cup withFile}

NoDisk == Disk(<<>>, <<>>, {})

MCMapPath == Path("map", "m.tmx")
MCDisks == TextDisks \cup MapDisks \cup {NoDisk}
=============================================================================
