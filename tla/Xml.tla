----------------------------------- MODULE Xml -----------------------------------
(***************************************************************************)
(* XMLDocument::Parse of tinyxml2: one item of the text a step.            *)
(* XMLNode::ParseDeep calls itself for the content of every element.  The  *)
(* elements whose calls have not returned are a stack, the document below  *)
(* them.  A call that returns 0 makes its caller delete the node and       *)
(* return 0 as well.                                                       *)
(***************************************************************************)
EXTENDS XmlNode

CONSTANT MaxDepth    \* TINYXML2_MAX_ELEMENT_DEPTH

ASSUME MaxDepthAssumption == MaxDepth \in Nat /\ MaxDepth > 1

VARIABLES
  text,     \* the items not read yet
  open,     \* the document, and the open elements from the outermost on
  depth,    \* _parsingDepth, counted by the DepthTracker of every call
  error,    \* _errorID
  p,        \* the pointer: reading, null (ParseDeep returned 0), or stopped
  live      \* pool -> objects allocated and not freed

xmlVars == <<text, open, depth, error, p, live>>

XmlInit ==
  /\ text = <<>> /\ open = <<Document>> /\ depth = 0
  /\ error = "XML_SUCCESS" /\ p = "stopped" /\ live = None

Blank(items) == \A i \in DOMAIN items : items[i].kind = "space"

\* LoadFile and Parse: the document is cleared, then read by the first call.
LoadFile(found, items) ==
  LET refused == IF ~found THEN "XML_ERROR_FILE_NOT_FOUND"
                 ELSE IF Blank(items) THEN "XML_ERROR_EMPTY_DOCUMENT" ELSE "XML_SUCCESS"
  IN  /\ error' = refused
      /\ text' = IF refused = "XML_SUCCESS" THEN items ELSE <<>>
      /\ p' = IF refused = "XML_SUCCESS" THEN "reading" ELSE "stopped"
      /\ depth' = IF refused = "XML_SUCCESS" THEN 1 ELSE 0
      /\ open' = <<Document>> /\ live' = None

Current == Head(text)
At(kinds) == p = "reading" /\ text # <<>> /\ Current.kind \in kinds

\* The node just parsed returned 0: its level deletes it and returns 0 as well.
Null(e) == error' = e /\ p' = "null" /\ text' = Tail(text) /\ UNCHANGED <<open, depth, live>>

InsertEndChild(stack, node) == [stack EXCEPT ![Len(stack)].kids = Append(@, node)]

\* What a node takes from its pool and gives back with all that is below it.
Taken(node) == Plus(live, Own(node))
GivenBack(node) == Minus(live, Allocs(node, MaxDepth))

Insert(node) ==
  /\ open' = InsertEndChild(open, node)
  /\ live' = Taken(node)
  /\ text' = Tail(text) /\ UNCHANGED <<depth, error, p>>

\* Identify skips white space in front of whatever comes next.
SkipWhiteSpace ==
  At({"space"}) /\ text' = Tail(text) /\ UNCHANGED <<open, depth, error, p, live>>

Unended ==
  [text |-> "XML_ERROR_PARSING_TEXT", cdata |-> "XML_ERROR_PARSING_CDATA",
   comment |-> "XML_ERROR_PARSING_COMMENT", unknown |-> "XML_ERROR_PARSING_UNKNOWN",
   declaration |-> "XML_ERROR_PARSING_DECLARATION"]

\* Text ends at a "<" only, at which every item begins that is no space: an item
\* of text reaches up to it, or to the end of the file.
Ended(item) == item.ended /\ (item.kind = "text" => Len(text) > 1)

\* Mutated: a declaration may stand between other nodes of the document.
WellLocatedAnywhere == Len(open) = 1

\* A declaration comes before everything else.
WellLocated ==
  LET kids == Last(open).kids
  IN  /\ Len(open) = 1
      /\ kids # <<>> => kids[1].kind = "declaration" /\ Last(kids).kind = "declaration"

ParseLeaf ==
  /\ At(DOMAIN Unended)
  /\ IF ~Ended(Current) THEN Null(Unended[Current.kind])
     ELSE IF Current.kind = "declaration" /\ ~WellLocated
     THEN Null("XML_ERROR_PARSING_DECLARATION")
     ELSE Insert(Leaf(Current.kind, Current.value))

-----------------------------------------------------------------------------
\* ParseAttributes: a name given twice is an error, like a value without quotes.
AttributesOf(tag) ==
  IF \E i \in DOMAIN tag.attrs : ~tag.attrs[i].ok \/ \E j \in 1 .. i - 1 :
                                   tag.attrs[j].name = tag.attrs[i].name
  THEN "XML_ERROR_PARSING_ATTRIBUTE"
  ELSE IF tag.end \in {"open", "closed"} THEN "XML_SUCCESS" ELSE "XML_ERROR_PARSING_ELEMENT"

\* A tag without a name is an error its parent reports.
TagError(tag) == IF tag.name = "" THEN "XML_ERROR_PARSING" ELSE AttributesOf(tag)

ClosingType(tag) ==
  IF tag.end = "closed" THEN "CLOSED" ELSE IF tag.closing THEN "CLOSING" ELSE "OPEN"

AtTag(type) == At({"tag"}) /\ TagError(Current) = "XML_SUCCESS" /\ ClosingType(Current) = type

ParseBadTag == At({"tag"}) /\ TagError(Current) # "XML_SUCCESS" /\ Null(TagError(Current))

ParseClosedElement == AtTag("CLOSED") /\ Insert(Element(Current.name, Current.attrs, <<>>))

\* Mutated: the depth is looked at before it is counted up.
TooDeepBelow == depth = MaxDepth

\* One call of ParseDeep more is one too many: PushDepth sets the error, and the
\* call returns at once, its DepthTracker having counted down again.
TooDeep == depth + 1 = MaxDepth

\* Mutated: no DepthTracker counts down.
PopDepthNever == depth' = depth

\* A call of ParseDeep returns.
PopDepth == depth' = depth - 1

\* The content is parsed by a call of its own, unless the text ends here.
ParseOpenElement ==
  LET element == Element(Current.name, Current.attrs, <<>>)
  IN  /\ AtTag("OPEN")
      /\ IF Len(text) = 1 THEN Null("XML_ERROR_MISMATCHED_ELEMENT")
         ELSE IF TooDeep THEN Null("XML_ELEMENT_DEPTH_EXCEEDED")
         ELSE /\ open' = Append(open, element) /\ depth' = depth + 1
              /\ live' = Taken(element)
              /\ text' = Tail(text) /\ UNCHANGED <<error, p>>

\* Mutated: the element made for an end tag is kept.
FreeEndTagNever == live' = Plus(live, [None EXCEPT !["element"] = 1])

\* An end tag is read as an element, and deleted at once.
FreeEndTag == live' = live

\* Mutated: whichever element is open is closed.
EndsAny(name) == TRUE

Ends(name) == Last(open).name = name

\* The element that was open becomes a child of the one around it.
ParseEndTag ==
  /\ AtTag("CLOSING") /\ Len(open) > 1
  /\ PopDepth
  /\ IF Ends(Current.name)
     THEN /\ open' = InsertEndChild(Front(open), Last(open))
          /\ FreeEndTag
          /\ text' = Tail(text) /\ UNCHANGED <<error, p>>
     ELSE /\ open' = Front(open)
          /\ live' = GivenBack(Last(open))
          /\ error' = "XML_ERROR_MISMATCHED_ELEMENT" /\ p' = "null" /\ text' = Tail(text)

\* An end tag that ends nothing ends the document, and is no error.
ParseStrayEndTag ==
  /\ AtTag("CLOSING") /\ Len(open) = 1
  /\ p' = "stopped" /\ text' = <<>> /\ PopDepth
  /\ UNCHANGED <<open, error, live>>

EndOfText ==
  /\ p = "reading" /\ text = <<>>
  /\ IF Len(open) = 1 THEN p' = "stopped" /\ PopDepth ELSE p' = "null" /\ UNCHANGED depth
  /\ UNCHANGED <<text, open, error, live>>

\* Back from a call that returned 0.
Unwind ==
  /\ p = "null"
  /\ PopDepth
  /\ IF Len(open) = 1
     THEN p' = "stopped" /\ UNCHANGED <<text, open, error, live>>
     ELSE /\ open' = Front(open)
          /\ live' = GivenBack(Last(open))
          /\ error' = IF error = "XML_SUCCESS" THEN "XML_ERROR_PARSING" ELSE error
          /\ UNCHANGED <<text, p>>

ParseStep ==
  \/ SkipWhiteSpace \/ ParseLeaf
  \/ ParseBadTag \/ ParseClosedElement \/ ParseOpenElement
  \/ ParseEndTag \/ ParseStrayEndTag
  \/ EndOfText \/ Unwind
=============================================================================
