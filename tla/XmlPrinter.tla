------------------------------- MODULE XmlPrinter -------------------------------
(***************************************************************************)
(* XMLPrinter of tinyxml2, and what it shows of the parser: a text that is *)
(* read is still all there.                                                *)
(***************************************************************************)
EXTENDS MapFile

(* XMLPrinter, compact: no space but what belongs to a text. *)

\* OpenElement and PushAttribute; an element without content is sealed with "/>".
OpenElement(node) ==
  <<Tag(FALSE, node.name, node.attrs, IF node.kids = <<>> THEN "closed" ELSE "open")>>

CloseElement(node) == IF node.kids = <<>> THEN <<>> ELSE <<Tag(TRUE, node.name, <<>>, "open")>>

\* PushText, PushComment, PushDeclaration, PushUnknown.
Push(node) == <<Item(node.kind, node.name, TRUE)>>

\* Accept: a visit on the way into a node, one to each child, one on the way out.
RECURSIVE PrintNode(_)
PrintNode(node) ==
  LET within == FlattenSeq([i \in DOMAIN node.kids |-> PrintNode(node.kids[i])])
  IN  CASE node.kind = "document" -> within
        [] node.kind = "element" -> OpenElement(node) \o within \o CloseElement(node)
        [] OTHER -> Push(node)

-----------------------------------------------------------------------------
\* What a text is when it is printed again: no space, nothing on end tags,
\* and an element with nothing in it is one tag.
Plain(items) ==
  LET before == Before(Depths(items))
      kept == SelectSeq([i \in DOMAIN items |-> i],
                        LAMBDA i : i \in before /\ items[i].kind # "space")
      Empty(n) == n \in 1 .. Len(kept) - 1 /\ Opens(items[kept[n]]) /\ Closes(items[kept[n + 1]])
      seen == SelectSeq([n \in DOMAIN kept |-> n], LAMBDA n : ~Empty(n - 1))
      One(n) == LET item == items[kept[n]]
                IN  IF item.kind # "tag" THEN item
                    ELSE IF Closes(item) THEN [item EXCEPT !.attrs = <<>>]
                    ELSE [item EXCEPT !.closing = FALSE, !.end = IF Empty(n) THEN "closed" ELSE @]
  IN  [n \in DOMAIN seen |-> One(seen[n])]

\* The tree of an accepted text has every item of it in its place: printed
\* (tinyxml2.cpp:2935) it is that text again.
TreePrintsBack == MapRead /\ error = "XML_SUCCESS" => PrintNode(open[1]) = Plain(Items)
=============================================================================
