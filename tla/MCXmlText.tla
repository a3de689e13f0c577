-------------------------------- MODULE MCXmlText --------------------------------
\* Texts for XmlText: every sequence of up to three pieces, in every mode.
EXTENDS XmlText

\* A piece of a text, and what it means where entities are converted.
Piece(chars, means) == [chars |-> chars, means |-> means, sound |-> TRUE]
Junk(chars) == [chars |-> chars, means |-> chars, sound |-> FALSE]

NewLines == {Piece(<<CR>>, <<LF>>), Piece(<<LF>>, <<LF>>), Piece(<<CR, LF>>, <<LF>>),
             Piece(<<LF, CR>>, <<LF>>)}

Ref(digits) == <<Ampersand, Hash>> \o digits \o <<Semicolon>>

Pieces ==
  NewLines
    \cup {Piece(<<c>>, <<c>>) : c \in {97, LetterX, Semicolon, Hash, Apostrophe}}
    \cup {Piece(<<Ampersand>> \o e.pattern \o <<Semicolon>>, <<e.value>>) : e \in Entities}
    \cup {Piece(Ref(<<54, 48>>), <<Less>>),                                    \* &#60;
          Piece(Ref(<<49, 51>>), <<CR>>),                                      \* &#13;
          Piece(Ref(<<LetterX, 56, 48>>), <<194, 128>>),                       \* &#x80;
          Piece(Ref(<<LetterX, 50, 48, 65, 99>>), <<226, 130, 172>>),          \* &#x20Ac;
          Piece(Ref(<<LetterX, 49, 48, 70, 102, 102, 102>>), <<244, 143, 191, 191>>)}
    \cup {Junk(<<Ampersand>>), Junk(Ref(<<>>)), Junk(Ref(<<LetterX, 50, 48, 48, 48, 48, 48>>)),
          Junk(Ref(<<LetterX, 49, 48, 48, 48, 48, 48, 48, 48, 51, 67>>)),     \* &#x10000003C;
          Junk(Ref(<<LetterX, 49, LetterX, 54, 49>>)), Junk(<<Ampersand, 108>>)}

Sequences3 == UNION {[1 .. n -> Pieces] : n \in 0 .. 3}

Converts(m) == "entities" \in Modes[m].needs

Meaning(s, m) ==
  FlattenSeq([i \in DOMAIN s |-> IF s[i] \in NewLines \/ Converts(m) THEN s[i].means ELSE s[i].chars])

\* One line end next to another may be one with it, or not.
Unambiguous(s) == \A i \in 1 .. Len(s) - 1 : ~(s[i] \in NewLines /\ s[i + 1] \in NewLines)

MCTexts ==
  {[mode |-> m, chars |-> FlattenSeq([i \in DOMAIN s |-> s[i].chars]), meant |-> Meaning(s, m),
    sound |-> Unambiguous(s) /\ (Converts(m) => \A i \in DOMAIN s : s[i].sound)] :
   s \in Sequences3, m \in DOMAIN Modes}
=============================================================================
