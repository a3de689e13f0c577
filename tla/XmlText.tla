--------------------------------- MODULE XmlText ---------------------------------
(***************************************************************************)
(* One value of an XML document: StrPair of tinyxml2 and what XMLPrinter   *)
(* writes for it.  The parser only marks a value in the buffer the file    *)
(* was read into; whoever asks for it first has it converted in place.     *)
(* Characters are bytes, mem[0] of the code is mem[1] here.                *)
(***************************************************************************)
EXTENDS Integers, Sequences, SequencesExt, FiniteSetsExt

LF == 10
CR == 13
Quote == 34
Hash == 35
Ampersand == 38
Apostrophe == 39
Semicolon == 59
Less == 60
Greater == 62
LetterX == 120

CONSTANTS
  Texts,     \* [mode, chars, meant, sound]: what meant says if sound
  Unsigned   \* an unsigned int is modulo this: 2^32
VARIABLES
  mode,     \* which ParseDeep reads the value
  mem,      \* the buffer: the value, its end tag and the terminating 0
  pair,     \* _start, _end and _flags
  at,       \* where GetStr or its caller is
  p, q,     \* the pointer that reads and the one that writes
  meant,    \* for the properties: what the value means,
  sound,    \* ... if that is defined,
  printed   \* ... and whether mem was printed by XMLPrinter

vars == <<mode, mem, pair, at, p, q, meant, sound, printed>>

Modes ==
  [text      |-> [endTag |-> <<Less>>, needs |-> {"entities", "newlines"}],
   attribute |-> [endTag |-> <<Quote>>, needs |-> {"entities", "newlines"}],
   comment   |-> [endTag |-> <<45, 45, Greater>>, needs |-> {"newlines"}],
   cdata     |-> [endTag |-> <<93, 93, Greater>>, needs |-> {"newlines"}]]

Entities ==
  {[pattern |-> <<113, 117, 111, 116>>, value |-> Quote],
   [pattern |-> <<97, 109, 112>>, value |-> Ampersand],
   [pattern |-> <<97, 112, 111, 115>>, value |-> Apostrophe],
   [pattern |-> <<108, 116>>, value |-> Less],
   [pattern |-> <<103, 116>>, value |-> Greater]}

\* What strstr looks for: all of pattern, somewhere in chars.
HasInside(chars, pattern) ==
  \E k \in 1 .. Len(chars) - Len(pattern) + 1 :
    SubSeq(chars, k, k + Len(pattern) - 1) = pattern

(***************************************************************************)
(* A value has no terminating 0 in it, and ends where its end tag is first *)
(* found: what comes after is parsed as something else.                    *)
(***************************************************************************)
ASSUME UnsignedAssumption == Unsigned \in Nat \ {0}

ASSUME TextsAssumption ==
  \A t \in Texts :
    /\ t.mode \in DOMAIN Modes /\ t.chars \in Seq(1 .. 255)
    /\ ~HasInside(t.chars, Modes[t.mode].endTag)

Buffer(chars, m) == chars \o Modes[m].endTag \o <<0>>
NoPair == [start |-> 1, end |-> 1, flags |-> {}]

Init ==
  \E t \in Texts :
    /\ mode = t.mode /\ mem = Buffer(t.chars, t.mode)
    /\ meant = t.meant /\ sound = t.sound /\ printed = FALSE
    /\ pair = NoPair /\ at = "unparsed" /\ p = 1 /\ q = 1

\* strncmp: does the buffer go on like this from place i?
Follows(i, chars) ==
  i + Len(chars) - 1 <= Len(mem) /\ SubSeq(mem, i, i + Len(chars) - 1) = chars

\* strchr: the first place from i on that holds c, 0 when the string ends before.
Find(i, c) ==
  LET hits == {k \in i .. Len(mem) : mem[k] = c /\ \A j \in i .. k - 1 : mem[j] # 0}
  IN  IF hits = {} THEN 0 ELSE Min(hits)

ParseText ==
  LET ends == {k \in DOMAIN mem : Follows(k, Modes[mode].endTag)}
  IN  /\ at = "unparsed"
      /\ pair' = [start |-> 1, end |-> Min(ends), flags |-> Modes[mode].needs \cup {"flush"}]
      /\ at' = "caller"
      /\ UNCHANGED <<mode, mem, p, q, meant, sound, printed>>

-----------------------------------------------------------------------------
(* GetStr. *)

\* The end tag makes way for the end of the string.
Flush ==
  /\ at = "caller" /\ "flush" \in pair.flags
  /\ mem' = [mem EXCEPT ![pair.end] = 0]
  /\ pair' = [pair EXCEPT !.flags = @ \ {"flush"}]
  /\ at' = "converting" /\ p' = pair.start /\ q' = pair.start
  /\ UNCHANGED <<mode, meant, sound, printed>>

Reading == at = "converting" /\ p < pair.end
AtNewLine == "newlines" \in pair.flags /\ mem[p] \in {CR, LF}
AtAmpersand == "entities" \in pair.flags /\ mem[p] = Ampersand

\* length characters are read, bytes are written; mem after the writer keeps
\* what it was.
Convert(length, bytes) ==
  /\ mem' = [i \in DOMAIN mem |-> IF i \in q .. q + Len(bytes) - 1 THEN bytes[i - q + 1] ELSE mem[i]]
  /\ p' = p + length
  /\ q' = q + Len(bytes)
  /\ UNCHANGED <<mode, pair, at, meant, sound, printed>>

CopyCharacter == Reading /\ ~AtNewLine /\ ~AtAmpersand /\ Convert(1, <<mem[p]>>)

\* Mutated: a line end is two characters long.
LineEndTwo(c, next) == 2

\* CR LF and LF CR are one line end.
LineEnd(c, next) == IF {c, next} = {CR, LF} THEN 2 ELSE 1

NormalizeNewLine == Reading /\ AtNewLine /\ Convert(LineEnd(mem[p], mem[p + 1]), <<LF>>)

Named == {e \in Entities : Follows(p + 1, e.pattern \o <<Semicolon>>)}

ConvertEntity ==
  /\ Reading /\ AtAmpersand /\ mem[p + 1] # Hash
  /\ \E e \in Named : Convert(Len(e.pattern) + 2, <<e.value>>)

\* Both pointers go on and nothing is written: the place keeps what it held.
PassUnknownEntity ==
  /\ Reading /\ AtAmpersand /\ mem[p + 1] # Hash /\ Named = {}
  /\ Convert(1, <<mem[q]>>)

ConvertUTF32ToUTF8(ucs) ==
  LET Tail6(shifted) == 128 + (shifted % 64)
  IN  IF ucs < 128 THEN <<ucs>>
      ELSE IF ucs < 2048 THEN <<192 + ucs \div 64, Tail6(ucs)>>
      ELSE IF ucs < 65536 THEN <<224 + ucs \div 4096, Tail6(ucs \div 64), Tail6(ucs)>>
      ELSE IF ucs < 2097152
      THEN <<240 + ucs \div 262144, Tail6(ucs \div 4096), Tail6(ucs \div 64), Tail6(ucs)>>
      ELSE <<>>

\* The digit a character is in this base, or -1.
Digit(c, base) ==
  IF c \in 48 .. 57 THEN c - 48
  ELSE IF base = 16 /\ c \in 97 .. 102 THEN c - 87
  ELSE IF base = 16 /\ c \in 65 .. 70 THEN c - 55
  ELSE -1

NoRef == [length |-> 0, bytes |-> <<>>]

\* The digits are read from the semicolon back to the nearest 'x' or '#'.
Digits(mark, semicolon) ==
  Reverse(SubSeq(mem, Max({k \in p + 1 .. semicolon : mem[k] = mark}) + 1, semicolon - 1))

\* mult and digitScaled are unsigned int, the sum of what is scaled is longer.
AddDigit(sum, c, base) ==
  [mult |-> (base * sum.mult) % Unsigned,
   ucs |-> sum.ucs + ((sum.mult * Digit(c, base)) % Unsigned)]

NoDigits == [mult |-> 1, ucs |-> 0]

(***************************************************************************)
(* A reference without a semicolon, or with something else among its       *)
(* digits, is none.  Of "&#" at the end the ampersand is passed over.      *)
(***************************************************************************)
GetCharacterRef ==
  LET hex == mem[p + 2] = LetterX
      base == IF hex THEN 16 ELSE 10
      semicolon == Find(IF hex THEN p + 3 ELSE p + 2, Semicolon)
      digits == Digits(IF hex THEN LetterX ELSE Hash, semicolon)
      ucs == FoldLeft(LAMBDA sum, c : AddDigit(sum, c, base), NoDigits, digits).ucs
  IN  IF mem[p + 2] = 0 THEN [length |-> 1, bytes |-> <<>>]
      ELSE IF semicolon = 0 THEN NoRef
      ELSE IF \E i \in DOMAIN digits : Digit(digits[i], base) = -1 THEN NoRef
      ELSE [length |-> semicolon - p + 1, bytes |-> ConvertUTF32ToUTF8(ucs)]

ConvertCharacterRef ==
  /\ Reading /\ AtAmpersand /\ mem[p + 1] = Hash
  /\ IF GetCharacterRef = NoRef THEN Convert(1, <<mem[p]>>)
     ELSE Convert(GetCharacterRef.length, GetCharacterRef.bytes)

EndOfValue ==
  /\ at = "converting" /\ p >= pair.end
  /\ mem' = [mem EXCEPT ![q] = 0]
  /\ pair' = [pair EXCEPT !.flags = {}]
  /\ at' = "caller"
  /\ UNCHANGED <<mode, p, q, meant, sound, printed>>

-----------------------------------------------------------------------------
(* XMLPrinter. *)

Value == SubSeq(mem, pair.start, Find(pair.start, 0) - 1)
Known == at = "caller" /\ pair.flags = {}

\* Mutated: an attribute is printed like a text.
EscapedAlike(restricted) == {Ampersand, Less, Greater}

\* Quotes are left alone in a text.
Escaped(restricted) ==
  {Ampersand, Less, Greater} \cup IF restricted THEN {} ELSE {Quote, Apostrophe}

PrintString(chars, restricted) ==
  FlattenSeq([i \in DOMAIN chars |->
    IF chars[i] \in Escaped(restricted)
    THEN LET e == CHOOSE e \in Entities : e.value = chars[i]
         IN <<Ampersand>> \o e.pattern \o <<Semicolon>>
    ELSE <<chars[i]>>])

\* What was read is printed, as a value of the same kind, and parsed again.
PushText ==
  /\ Known /\ ~printed
  /\ mem' = Buffer(IF "entities" \in Modes[mode].needs
                   THEN PrintString(Value, mode = "text") ELSE Value, mode)
  /\ meant' = Value /\ sound' = (CR \notin ToSet(Value)) /\ printed' = TRUE
  /\ at' = "unparsed" /\ pair' = NoPair /\ p' = 1 /\ q' = 1
  /\ UNCHANGED mode

Next ==
  \/ ParseText \/ Flush
  \/ CopyCharacter \/ NormalizeNewLine
  \/ ConvertEntity \/ PassUnknownEntity \/ ConvertCharacterRef
  \/ EndOfValue \/ PushText

Spec == Init /\ [][Next]_vars

-----------------------------------------------------------------------------
(***************************************************************************)
(* Every variable is of its kind, and converting in place never writes     *)
(* what was not read yet, nor anything past the end of the value: that     *)
(* belongs to what is parsed next (tinyxml2.cpp:329, 336).                 *)
(***************************************************************************)
TypeOK ==
  /\ mode \in DOMAIN Modes /\ at \in {"unparsed", "caller", "converting"}
  /\ pair.flags \subseteq {"flush", "entities", "newlines"}
  /\ at = "converting" =>
       pair.start <= q /\ q <= p /\ p <= pair.end /\ pair.end < Len(mem)
  /\ \A i \in DOMAIN mem : mem[i] \in 0 .. 255
  /\ at # "unparsed" => SubSeq(mem, pair.end + 1, Len(mem)) = Tail(Modes[mode].endTag) \o <<0>>

(***************************************************************************)
(* However often it is asked for, a value is what its text means: line     *)
(* ends are one, known entities and references are resolved, once.  Asked  *)
(* of a text that was printed, too, it is the value that was printed.      *)
(***************************************************************************)
ReadsAsMeant == Known /\ sound => Value = meant
=============================================================================
