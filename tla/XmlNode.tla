-------------------------------- MODULE XmlNode --------------------------------
(***************************************************************************)
(* The nodes of a tinyxml2 document, what is asked of them, and how they   *)
(* are printed.  Text is a sequence of lexical items, not of characters:   *)
(*   tag    [kind, closing, name, attrs, end]   end: how the tag ends      *)
(*   other  [kind, value, ended]                ended: was its end found?  *)
(* A text is ended by the tag that follows it.  Only items at the end of   *)
(* the text have no end of their own.  Entities, line ends and quotes are  *)
(* taken as converted.                                                     *)
(***************************************************************************)
EXTENDS Integers, Sequences, SequencesExt

Attribute(name, value) == [name |-> name, value |-> value, ok |-> TRUE]
Node(kind, name, attrs, kids) == [kind |-> kind, name |-> name, attrs |-> attrs, kids |-> kids]
Element(name, attrs, kids) == Node("element", name, attrs, kids)
Leaf(kind, value) == Node(kind, value, <<>>, <<>>)
Document == Node("document", "", <<>>, <<>>)

Tag(closing, name, attrs, end) ==
  [kind |-> "tag", closing |-> closing, name |-> name, attrs |-> attrs, end |-> end]
Item(kind, value, ended) == [kind |-> kind, value |-> value, ended |-> ended]

-----------------------------------------------------------------------------
(* Queries. *)

IsElement(node, name) == node.kind = "element" /\ node.name = name

\* FirstChildElement(name), and NextSiblingElement(name) until there is none.
ChildElements(e, name) ==
  FlattenSeq([i \in DOMAIN e.kids |-> IF IsElement(e.kids[i], name) THEN <<e.kids[i]>> ELSE <<>>])
HasChild(e, name) == ChildElements(e, name) # <<>>
FirstChildElement(e, name) == ChildElements(e, name)[1]

\* FindAttribute: the first one of that name.
Find(e, name) == {i \in DOMAIN e.attrs : e.attrs[i].name = name}
Has(e, name) == Find(e, name) # {}
Value(e, name) == e.attrs[CHOOSE i \in Find(e, name) : \A j \in Find(e, name) : i <= j].value

\* IntAttribute, UnsignedAttribute, BoolAttribute with their default values.
IntAttribute(e, name, default) == IF Has(e, name) THEN Value(e, name) ELSE default
UnsignedAttribute(e, name) == IntAttribute(e, name, 0)
BoolAttribute(e, name, default) == IF Has(e, name) THEN Value(e, name) # 0 ELSE default

-----------------------------------------------------------------------------
(* The pools a document allocates from. *)

Pools == {"element", "attribute", "text", "comment"}

Pool(kind) == CASE kind = "element" -> "element" [] kind \in {"text", "cdata"} -> "text"
                [] kind \in {"comment", "declaration", "unknown"} -> "comment"
                [] OTHER -> "none"

None == [pool \in Pools |-> 0]
Plus(f, g) == [pool \in Pools |-> f[pool] + g[pool]]
Minus(f, g) == [pool \in Pools |-> f[pool] - g[pool]]
Sum(amounts) == FoldLeft(Plus, None, amounts)

\* What a node itself takes from the pools, without what is below it.
Own(node) ==
  [pool \in Pools |-> IF pool = "attribute" THEN Len(node.attrs)
                      ELSE IF pool = Pool(node.kind) THEN 1 ELSE 0]

\* The children of some nodes, in order.
KidsOf(nodes) == FlattenSeq([i \in DOMAIN nodes |-> nodes[i].kids])

\* A tree level by level: the node itself, its children, their children.
Levels(node, depth) ==
  LET level[d \in 0 .. depth] == IF d = 0 THEN <<node>> ELSE KidsOf(level[d - 1])
  IN  level

\* What a node and all below it take, down to a depth.
Allocs(node, depth) ==
  Sum([d \in 1 .. depth |->
         LET level == Levels(node, depth)[d - 1] IN Sum([i \in DOMAIN level |-> Own(level[i])])])
=============================================================================
