----------------------------- MODULE XmlTextProofs -----------------------------
(***************************************************************************)
(* What is proved of XmlText for every set of texts: converting a value in *)
(* place stays within what was read of it, and what was printed is read    *)
(* back.                                                                   *)
(***************************************************************************)
EXTENDS XmlText, OperatorFacts

Bytes == 0 .. 255
Chars == 1 .. 255

-----------------------------------------------------------------------------
(* The end tags. *)

Tag == Modes[mode].endTag
Needs == Modes[mode].needs

LEMMA TagFacts ==
  ASSUME NEW m \in DOMAIN Modes
  PROVE  /\ Modes[m].endTag \in Seq(Chars)
         /\ \/ /\ m \in {"text", "attribute"} /\ Len(Modes[m].endTag) = 1
               /\ Modes[m].needs = {"entities", "newlines"}
            \/ /\ m \in {"comment", "cdata"} /\ Len(Modes[m].endTag) = 3
               /\ Modes[m].needs = {"newlines"}
               /\ \A j \in 1 .. 3 : Modes[m].endTag[j] \notin {CR, LF}
               /\ \A j \in 1 .. 2 : Modes[m].endTag[j] # Modes[m].endTag[3]
<1>1. DOMAIN Modes = {"text", "attribute", "comment", "cdata"}
  BY Zenon DEF Modes
<1>2. CASE m \in {"text", "attribute"}
  <2>1. PICK c \in Chars : Modes[m].endTag = <<c>>
    <3>1. Modes["text"].endTag = <<Less>> /\ Modes["attribute"].endTag = <<Quote>>
      BY DEF Modes
    <3>2. Less \in Chars /\ Quote \in Chars
      BY DEF Less, Quote, Chars
    <3> QED
      BY <1>2, <3>1, <3>2
  <2>2. /\ Modes["text"].needs = {"entities", "newlines"}
        /\ Modes["attribute"].needs = {"entities", "newlines"}
    BY DEF Modes
  <2>3. <<c>> \in Seq(Chars) /\ Len(<<c>>) = 1
    OBVIOUS
  <2> QED
    BY <1>2, <2>1, <2>2, <2>3
<1>3. CASE m \in {"comment", "cdata"}
  <2>1. PICK c \in Chars : /\ Modes[m].endTag = <<c, c, Greater>>
                           /\ c \notin {CR, LF, Greater}
    <3>1. /\ Modes["comment"].endTag = <<45, 45, Greater>>
          /\ Modes["cdata"].endTag = <<93, 93, Greater>>
      BY DEF Modes
    <3>2. \A c \in {45, 93} : c \in Chars /\ c \notin {CR, LF, Greater}
      BY DEF Chars, CR, LF, Greater
    <3> QED
      BY <1>3, <3>1, <3>2
  <2>2. Modes["comment"].needs = {"newlines"} /\ Modes["cdata"].needs = {"newlines"}
    BY DEF Modes
  <2>3. Greater \in Chars /\ Greater \notin {CR, LF}
    BY DEF Chars, CR, LF, Greater
  <2>4. /\ <<c, c, Greater>> \in Seq(Chars) /\ Len(<<c, c, Greater>>) = 3
        /\ <<c, c, Greater>>[1] = c /\ <<c, c, Greater>>[2] = c
        /\ <<c, c, Greater>>[3] = Greater
    BY <2>3
  <2>5. Modes[m].endTag[1] = c /\ Modes[m].endTag[2] = c /\ Modes[m].endTag[3] = Greater
    BY <2>1, <2>4
  <2>6. \A j \in 1 .. 3 : j = 1 \/ j = 2 \/ j = 3
    OBVIOUS
  <2>7. \A j \in 1 .. 2 : j = 1 \/ j = 2
    OBVIOUS
  <2>8. \A j \in 1 .. 3 : Modes[m].endTag[j] \notin {CR, LF}
    BY <2>1, <2>3, <2>5, <2>6
  <2>9. \A j \in 1 .. 2 : Modes[m].endTag[j] # Modes[m].endTag[3]
    BY <2>1, <2>5, <2>7
  <2> QED
    BY <1>3, <2>1, <2>2, <2>4, <2>8, <2>9
<1> QED
  BY <1>1, <1>2, <1>3

\* The end tag and the flags of the value that is read.
LEMMA ModeFacts ==
  ASSUME mode \in DOMAIN Modes
  PROVE  /\ Tag \in Seq(Chars) /\ Tag \in Seq(Bytes) /\ Len(Tag) \in {1, 3} /\ Len(Tag) >= 1
         /\ \A j \in 1 .. Len(Tag) - 1 : Tag[j] # Tag[Len(Tag)]
         /\ Needs \in {{"newlines"}, {"entities", "newlines"}}
         /\ "entities" \in Needs <=> Len(Tag) = 1
         /\ "entities" \notin Needs => \A j \in 1 .. Len(Tag) : Tag[j] \notin {CR, LF}
<1> DEFINE t == Tag
<1>1. /\ t \in Seq(Chars)
      /\ \/ Len(t) = 1 /\ Needs = {"entities", "newlines"}
         \/ /\ Len(t) = 3 /\ Needs = {"newlines"}
            /\ \A j \in 1 .. 3 : t[j] \notin {CR, LF}
            /\ \A j \in 1 .. 2 : t[j] # t[3]
  BY TagFacts DEF Tag, Needs
<1> HIDE DEF t
<1>2. t \in Seq(Bytes)
  <2>1. Chars \subseteq Bytes
    BY DEF Chars, Bytes
  <2> QED
    BY <1>1, <2>1, SeqMonotonic
<1>3. CASE Len(t) = 1 /\ Needs = {"entities", "newlines"}
  BY <1>1, <1>2, <1>3 DEF t
<1>4. CASE /\ Len(t) = 3 /\ Needs = {"newlines"}
           /\ \A j \in 1 .. 3 : t[j] \notin {CR, LF}
           /\ \A j \in 1 .. 2 : t[j] # t[3]
  BY <1>1, <1>2, <1>4 DEF t
<1> QED
  BY <1>1, <1>3, <1>4

LEMMA BufferFacts ==
  ASSUME NEW m \in DOMAIN Modes, NEW chars \in Seq(Chars)
  PROVE  LET tag == Modes[m].endTag
             buffer == Buffer(chars, m)
         IN  /\ buffer \in Seq(Bytes)
             /\ Len(buffer) = Len(chars) + Len(tag) + 1
             /\ \A i \in 1 .. Len(chars) : buffer[i] = chars[i]
             /\ \A j \in 1 .. Len(tag) : buffer[Len(chars) + j] = tag[j]
             /\ buffer[Len(buffer)] = 0
<1> DEFINE tag == Modes[m].endTag
<1>1. /\ tag \in Seq(Bytes) /\ chars \in Seq(Bytes) /\ <<0>> \in Seq(Bytes)
      /\ Len(tag) \in Nat /\ Len(chars) \in Nat /\ Len(<<0>>) = 1 /\ <<0>>[1] = 0
  <2>1. tag \in Seq(Chars)
    BY TagFacts
  <2>2. Chars \subseteq Bytes /\ 0 \in Bytes
    BY DEF Chars, Bytes
  <2> HIDE DEF tag
  <2> QED
    BY <2>1, <2>2, SeqMonotonic
<1> HIDE DEF tag
<1> DEFINE front == chars \o tag
<1>2. /\ front \in Seq(Bytes) /\ Len(front) = Len(chars) + Len(tag)
      /\ \A i \in 1 .. Len(chars) + Len(tag) :
           front[i] = IF i <= Len(chars) THEN chars[i] ELSE tag[i - Len(chars)]
  BY <1>1, ConcatProperties
<1> HIDE DEF front
<1>3. /\ front \o <<0>> \in Seq(Bytes) /\ Len(front \o <<0>>) = Len(front) + 1
      /\ \A i \in 1 .. Len(front) + 1 :
           (front \o <<0>>)[i] = IF i <= Len(front) THEN front[i] ELSE <<0>>[i - Len(front)]
  BY <1>1, <1>2, ConcatProperties
<1>4. Buffer(chars, m) = front \o <<0>>
  BY DEF Buffer, front, tag
<1> DEFINE buffer == Buffer(chars, m)
<1> HIDE DEF buffer
<1>5. buffer = front \o <<0>>
  BY <1>4 DEF buffer
<1>6. buffer \in Seq(Bytes) /\ Len(buffer) = Len(chars) + Len(tag) + 1
  BY <1>2, <1>3, <1>5
<1>7. \A i \in 1 .. Len(chars) : buffer[i] = chars[i]
  BY <1>1, <1>2, <1>3, <1>5
<1>8. \A j \in 1 .. Len(tag) : buffer[Len(chars) + j] = tag[j]
  <2> TAKE j \in 1 .. Len(tag)
  <2>1. /\ Len(chars) + j \in 1 .. Len(chars) + Len(tag) /\ ~ (Len(chars) + j <= Len(chars))
        /\ (Len(chars) + j) - Len(chars) = j
    BY <1>1
  <2> QED
    BY <1>1, <1>2, <1>3, <1>5, <2>1
<1>9. buffer[Len(buffer)] = 0
  BY <1>1, <1>2, <1>3, <1>5, <1>6
<1> QED
  BY <1>6, <1>7, <1>8, <1>9 DEF buffer, tag

-----------------------------------------------------------------------------
(* Looking for characters. *)

LEMMA MatchesAt ==
  ASSUME NEW s \in Seq(Bytes), NEW pattern \in Seq(Bytes), NEW i \in Nat \ {0},
         i + Len(pattern) - 1 <= Len(s)
  PROVE  SubSeq(s, i, i + Len(pattern) - 1) = pattern
           <=> \A j \in 1 .. Len(pattern) : s[i + j - 1] = pattern[j]
<1> DEFINE n == Len(pattern)
           part == SubSeq(s, i, i + n - 1)
<1>1. n \in Nat /\ Len(s) \in Nat /\ i + n - 1 \in Int /\ i \in Int
  OBVIOUS
<1>2. \A k \in i .. i + n - 1 : s[k] \in Bytes
  BY <1>1
<1> HIDE DEF n
<1>3. /\ part \in Seq(Bytes)
      /\ Len(part) = IF i <= i + n - 1 THEN i + n - 1 - i + 1 ELSE 0
      /\ \A j \in 1 .. i + n - 1 - i + 1 : part[j] = s[i + j - 1]
  BY <1>1, <1>2, SubSeqProperties
<1>4. Len(part) = n /\ i + n - 1 - i + 1 = n
  BY <1>1, <1>3
<1>5. \A j \in 1 .. n : part[j] = s[i + j - 1]
  BY <1>3, <1>4
<1> HIDE DEF part
<1>6. part = pattern <=> \A j \in 1 .. n : part[j] = pattern[j]
  BY <1>3, <1>4, SeqEqual DEF n
<1> QED
  BY <1>5, <1>6 DEF n, part

LEMMA FollowsAt ==
  ASSUME mem \in Seq(Bytes), NEW pattern \in Seq(Bytes), NEW i \in Nat \ {0}
  PROVE  Follows(i, pattern)
           <=> /\ i + Len(pattern) - 1 <= Len(mem)
               /\ \A j \in 1 .. Len(pattern) : mem[i + j - 1] = pattern[j]
BY MatchesAt DEF Follows

\* A tag is nowhere inside the first n characters of f.
NoTag(f, n, tag) ==
  \A k \in 1 .. n - Len(tag) + 1 : \E j \in 1 .. Len(tag) : f[k + j - 1] # tag[j]

LEMMA NoTagInside ==
  ASSUME NEW s \in Seq(Bytes), NEW tag \in Seq(Bytes), Len(tag) >= 1
  PROVE  ~HasInside(s, tag) <=> NoTag(s, Len(s), tag)
<1>1. Len(s) \in Nat /\ Len(tag) \in Nat
  OBVIOUS
<1>2. \A k \in 1 .. Len(s) - Len(tag) + 1 :
        k \in Nat \ {0} /\ k + Len(tag) - 1 <= Len(s)
  BY <1>1
<1>3. \A k \in 1 .. Len(s) - Len(tag) + 1 :
        SubSeq(s, k, k + Len(tag) - 1) = tag
          <=> \A j \in 1 .. Len(tag) : s[k + j - 1] = tag[j]
  BY <1>2, MatchesAt
<1> QED
  BY <1>3 DEF HasInside, NoTag

\* The end tag of a value is found where the value ends.
LEMMA EndTagFound ==
  ASSUME mode \in DOMAIN Modes, NEW chars \in Seq(Chars), ~HasInside(chars, Tag),
         mem = Buffer(chars, mode)
  PROVE  /\ Min({k \in DOMAIN mem : Follows(k, Tag)}) = Len(chars) + 1
         /\ NoTag(mem, Len(chars), Tag)
<1> DEFINE n == Len(chars)
           d == Len(Tag)
<1>1. /\ n \in Nat /\ d \in {1, 3} /\ chars \in Seq(Bytes) /\ Tag \in Seq(Bytes)
      /\ \A j \in 1 .. d - 1 : Tag[j] # Tag[d]
  <2>1. chars \in Seq(Bytes)
    <3>1. Chars \subseteq Bytes
      BY DEF Chars, Bytes
    <3> QED
      BY <3>1, SeqMonotonic
  <2> QED
    BY <2>1, ModeFacts
<1>2. /\ mem \in Seq(Bytes) /\ Len(mem) = n + d + 1
      /\ \A i \in 1 .. n : mem[i] = chars[i]
      /\ \A j \in 1 .. d : mem[n + j] = Tag[j]
  BY BufferFacts DEF Tag
<1>3. NoTag(chars, n, Tag)
  BY <1>1, NoTagInside
<1> HIDE DEF n, d
<1>4. \A k \in 1 .. n : \E j \in 1 .. d : mem[k + j - 1] # Tag[j]
  <2> TAKE k \in 1 .. n
  <2>1. CASE k + d - 1 <= n
    <3>1. k \in 1 .. n - d + 1
      BY <1>1, <2>1
    <3>2. PICK j \in 1 .. d : chars[k + j - 1] # Tag[j]
      BY <1>3, <3>1 DEF NoTag, d
    <3>3. k + j - 1 \in 1 .. n
      BY <1>1, <2>1
    <3> QED
      BY <1>2, <3>2, <3>3
  <2>2. CASE k + d - 1 > n
    <3> DEFINE j == k + d - 1 - n
    <3>1. d \in 1 .. d /\ j \in 1 .. d - 1 /\ j \in 1 .. d /\ k + d - 1 = n + j
      BY <1>1, <2>2
    <3> HIDE DEF j
    <3>2. mem[k + d - 1] = Tag[j] /\ Tag[j] # Tag[d]
      BY <1>1, <1>2, <3>1
    <3> QED
      BY <3>1, <3>2
  <2> QED
    BY <1>1, <2>1, <2>2
<1>5. NoTag(mem, n, Tag)
  <2> SUFFICES ASSUME NEW k \in 1 .. n - Len(Tag) + 1
               PROVE  \E j \in 1 .. Len(Tag) : mem[k + j - 1] # Tag[j]
    BY DEF NoTag
  <2>1. k \in 1 .. n
    BY <1>1 DEF d
  <2> QED
    BY <1>4, <2>1 DEF d
<1> DEFINE ends == {k \in DOMAIN mem : Follows(k, Tag)}
<1>6. DOMAIN mem = 1 .. n + d + 1
  BY <1>2
<1>7. \A k \in 1 .. n + d + 1 : Follows(k, Tag)
        <=> k + d - 1 <= n + d + 1 /\ \A j \in 1 .. d : mem[k + j - 1] = Tag[j]
  <2> TAKE k \in 1 .. n + d + 1
  <2>1. k \in Nat \ {0}
    BY <1>1
  <2> QED
    BY <1>1, <1>2, <2>1, FollowsAt DEF d
<1>8. n + 1 \in ends
  <2>1. n + 1 \in 1 .. n + d + 1 /\ n + 1 + d - 1 <= n + d + 1
    BY <1>1
  <2>2. \A j \in 1 .. d : n + 1 + j - 1 = n + j
    BY <1>1
  <2>3. \A j \in 1 .. d : mem[n + 1 + j - 1] = Tag[j]
    BY <1>2, <2>2
  <2> QED
    BY <1>6, <1>7, <2>1, <2>3
<1>9. \A k \in ends : n + 1 <= k
  <2> SUFFICES ASSUME NEW k \in ends PROVE ~ (k \in 1 .. n)
    BY <1>1, <1>6
  <2> QED
    BY <1>4, <1>6, <1>7
<1>10. \A k \in ends : k \in Int
  BY <1>6
<1> HIDE DEF ends
<1>11. Min(ends) = n + 1
  <2>1. \A k \in ends : (\A m \in ends : k <= m) => k = n + 1
    BY <1>1, <1>8, <1>9, <1>10
  <2> QED
    BY <1>8, <1>9, <2>1, Zenon DEF Min
<1> QED
  BY <1>5, <1>11 DEF ends, n

\* strchr finds the first such place, or the string ends before there is one.
LEMMA FoundFirst ==
  ASSUME mem \in Seq(Bytes), NEW i \in Nat \ {0}, NEW c \in Bytes
  PROVE  \/ /\ Find(i, c) = 0
            /\ \A k \in i .. Len(mem) : mem[k] = c => \E j \in i .. k - 1 : mem[j] = 0
         \/ /\ Find(i, c) \in i .. Len(mem) /\ mem[Find(i, c)] = c
            /\ \A j \in i .. Find(i, c) - 1 : mem[j] # 0 /\ mem[j] # c
<1> DEFINE hits == {k \in i .. Len(mem) : mem[k] = c /\ \A j \in i .. k - 1 : mem[j] # 0}
<1>1. Len(mem) \in Nat
  OBVIOUS
<1>2. Find(i, c) = IF hits = {} THEN 0 ELSE Min(hits)
  BY DEF Find
<1>3. CASE hits = {}
  BY <1>2, <1>3
<1>4. CASE hits # {}
  <2>1. hits \subseteq Nat
    BY <1>1
  <2> HIDE DEF hits
  <2>2. \E k \in hits : \A m \in hits : k <= m
    BY <1>4, <2>1, LeastNatural
  <2>3. Min(hits) \in hits /\ \A m \in hits : Min(hits) <= m
    BY <2>2, Zenon DEF Min
  <2> DEFINE found == Min(hits)
  <2>4. /\ found \in i .. Len(mem) /\ mem[found] = c
        /\ \A j \in i .. found - 1 : mem[j] # 0
    BY <2>3 DEF hits
  <2>5. \A j \in i .. found - 1 : mem[j] # c
    <3> SUFFICES ASSUME NEW j \in i .. found - 1, mem[j] = c
                 PROVE  FALSE
      OBVIOUS
    <3>1. j \in i .. Len(mem) /\ ~ (found <= j)
      BY <1>1, <2>4
    <3>2. \A k \in i .. j - 1 : k \in i .. found - 1
      BY <2>4
    <3>3. j \in hits
      BY <2>4, <3>1, <3>2 DEF hits
    <3> QED
      BY <2>3, <3>1, <3>3
  <2> QED
    BY <1>2, <1>4, <2>4, <2>5
<1> QED
  BY <1>3, <1>4

-----------------------------------------------------------------------------
(* Entities and character references: what they are read as is no longer   *)
(* than they are.                                                          *)

LEMMA EntityFacts ==
  ASSUME NEW e \in Entities
  PROVE  /\ e.pattern \in Seq(97 .. 122) /\ Len(e.pattern) \in 2 .. 4
         /\ e.value \in {Quote, Ampersand, Apostrophe, Less, Greater}
<1>1. CASE e = [pattern |-> <<113, 117, 111, 116>>, value |-> Quote]
  BY <1>1
<1>2. CASE e = [pattern |-> <<97, 109, 112>>, value |-> Ampersand]
  BY <1>2
<1>3. CASE e = [pattern |-> <<97, 112, 111, 115>>, value |-> Apostrophe]
  BY <1>3
<1>4. CASE e = [pattern |-> <<108, 116>>, value |-> Less]
  BY <1>4
<1>5. CASE e = [pattern |-> <<103, 116>>, value |-> Greater]
  BY <1>5
<1> QED
  BY <1>1, <1>2, <1>3, <1>4, <1>5 DEF Entities

LEMMA ShortEncoding ==
  ASSUME NEW ucs \in Nat
  PROVE  /\ ConvertUTF32ToUTF8(ucs) \in Seq(Bytes)
         /\ Len(ConvertUTF32ToUTF8(ucs)) \in 0 .. 4
         /\ ucs = 0 => Len(ConvertUTF32ToUTF8(ucs)) = 1
<1> DEFINE tail(shifted) == 128 + (shifted % 64)
<1>1. \A n \in Nat : tail(n) \in Bytes
  BY DEF Bytes
<1>2. ucs \div 64 \in Nat /\ ucs \div 4096 \in Nat /\ ucs \div 262144 \in Nat
  OBVIOUS
<1>3. tail(ucs) \in Bytes /\ tail(ucs \div 64) \in Bytes /\ tail(ucs \div 4096) \in Bytes
  BY <1>1, <1>2
<1> HIDE DEF tail
<1>4. CASE ucs < 128
  <2>1. ucs \in Bytes /\ ConvertUTF32ToUTF8(ucs) = <<ucs>>
    BY <1>4 DEF Bytes, ConvertUTF32ToUTF8
  <2> QED
    BY <2>1
<1>5. CASE ~ (ucs < 128) /\ ucs < 2048
  <2>1. 192 + ucs \div 64 \in Bytes
    BY <1>5 DEF Bytes
  <2>2. ConvertUTF32ToUTF8(ucs) = <<192 + ucs \div 64, tail(ucs)>>
    BY <1>5 DEF ConvertUTF32ToUTF8, tail
  <2> DEFINE b == 192 + ucs \div 64
             c == tail(ucs)
  <2> HIDE DEF b, c
  <2>3. b \in Bytes /\ c \in Bytes /\ ConvertUTF32ToUTF8(ucs) = <<b, c>>
    BY <1>3, <2>1, <2>2 DEF b, c
  <2> QED
    BY <1>5, <2>3
<1>6. CASE ~ (ucs < 2048) /\ ucs < 65536
  <2>1. 224 + ucs \div 4096 \in Bytes
    BY <1>6 DEF Bytes
  <2>2. ConvertUTF32ToUTF8(ucs) = <<224 + ucs \div 4096, tail(ucs \div 64), tail(ucs)>>
    BY <1>6 DEF ConvertUTF32ToUTF8, tail
  <2> QED
    BY <1>3, <1>6, <2>1, <2>2
<1>7. CASE ~ (ucs < 65536) /\ ucs < 2097152
  <2>1. 240 + ucs \div 262144 \in Bytes
    BY <1>7 DEF Bytes
  <2>2. ConvertUTF32ToUTF8(ucs)
          = <<240 + ucs \div 262144, tail(ucs \div 4096), tail(ucs \div 64), tail(ucs)>>
    BY <1>7 DEF ConvertUTF32ToUTF8, tail
  <2> QED
    BY <1>3, <1>7, <2>1, <2>2
<1>8. CASE ~ (ucs < 2097152)
  <2>1. ConvertUTF32ToUTF8(ucs) = << >>
    BY <1>8 DEF ConvertUTF32ToUTF8
  <2> QED
    BY <1>8, <2>1
<1> QED
  BY <1>4, <1>5, <1>6, <1>7, <1>8

Sums == [mult : Nat, ucs : Nat]

LEMMA TimesNatural ==
  ASSUME NEW a \in Nat, NEW b \in Nat
  PROVE  a * b \in Nat
OBVIOUS

\* Digits make a number, none make 0.
LEMMA DigitsMakeANumber ==
  ASSUME NEW digits \in Seq(Bytes), NEW base \in {10, 16},
         \A i \in 1 .. Len(digits) : Digit(digits[i], base) # -1
  PROVE  LET total == FoldLeft(LAMBDA sum, c : AddDigit(sum, c, base), NoDigits, digits)
         IN  total \in Sums /\ (digits = << >> => total = NoDigits)
<1> DEFINE n == Len(digits)
           values == {c \in Bytes : Digit(c, base) # -1}
           step == [x \in Sums \X values |-> AddDigit(x[1], x[2], base)]
           Folds(it) == it = [t \in SUBSET (1 .. n) |->
                                IF t = {} THEN NoDigits
                                ELSE AddDigit(it[t \ {Latest(t)}], digits[Latest(t)], base)]
           total == FoldLeft(LAMBDA sum, c : AddDigit(sum, c, base), NoDigits, digits)
<1>1. n \in Nat /\ DOMAIN digits = 1 .. n /\ \A i \in 1 .. n : digits[i] \in values
  OBVIOUS
<1>2. total = (CHOOSE it : Folds(it))[1 .. n]
  BY <1>1 DEF FoldLeft, MapThenFoldSet, Latest, Max
<1>3. step \in [Sums \X values -> Sums]
  <2> SUFFICES ASSUME NEW sum \in Sums, NEW c \in values
               PROVE  AddDigit(sum, c, base) \in Sums
    OBVIOUS
  <2>1. Digit(c, base) \in Nat
    BY DEF Digit, Bytes
  <2>2. sum.mult \in Nat /\ sum.ucs \in Nat /\ base \in Nat
    BY DEF Sums
  <2> HIDE DEF values
  <2>3. base * sum.mult \in Nat /\ sum.mult * Digit(c, base) \in Nat
    BY <2>1, <2>2, TimesNatural, Zenon
  <2>4. \A k \in Nat : k % Unsigned \in Nat
    BY UnsignedAssumption
  <2>5. (base * sum.mult) % Unsigned \in Nat /\ (sum.mult * Digit(c, base)) % Unsigned \in Nat
    BY <2>3, <2>4, Zenon
  <2>6. sum.ucs + ((sum.mult * Digit(c, base)) % Unsigned) \in Nat
    <3>1. \A k, m \in Nat : k + m \in Nat
      OBVIOUS
    <3> QED
      BY <2>2, <2>5, <3>1, Zenon
  <2> QED
    BY <2>5, <2>6, Zenon DEF AddDigit, Sums
<1> HIDE DEF n, step, values
<1>4. PICK it \in [SUBSET (1 .. n) -> Sums] : Stepwise(it, step, NoDigits, digits, n)
  <2>1. NoDigits \in Sums
    BY DEF NoDigits, Sums
  <2> QED
    BY <1>1, <1>3, <2>1, StepwiseExists, Zenon
<1>5. \A t \in SUBSET (1 .. n) :
        Body(it, step, NoDigits, digits, t)
          = IF t = {} THEN NoDigits
            ELSE AddDigit(it[t \ {Latest(t)}], digits[Latest(t)], base)
  <2> SUFFICES ASSUME NEW t \in SUBSET (1 .. n), t # {}
               PROVE  step[<<it[t \ {Latest(t)}], digits[Latest(t)]>>]
                        = AddDigit(it[t \ {Latest(t)}], digits[Latest(t)], base)
    BY Zenon DEF Body
  <2>1. Latest(t) \in 1 .. n /\ t \ {Latest(t)} \in SUBSET (1 .. n)
    BY <1>1, LatestIsOne
  <2>2. it[t \ {Latest(t)}] \in Sums /\ digits[Latest(t)] \in values
    BY <1>1, <2>1
  <2> QED
    BY <2>2 DEF step
<1>6. Folds(it)
  BY <1>4, <1>5, Zenon DEF Stepwise
<1> DEFINE f == CHOOSE h : Folds(h)
<1>7. Folds(f)
  <2> HIDE DEF Folds
  <2> QED
    BY <1>6, Zenon
<1>8. total = f[1 .. n]
  BY <1>2
<1> HIDE DEF f, total
<1> DEFINE T == {k \in 0 .. n : f[1 .. k] \in Sums}
<1>9. f[{}] = NoDigits
  BY <1>7
<1>10. 0 \in T
  <2>1. 1 .. 0 = {} /\ 0 \in 0 .. n
    BY <1>1
  <2> QED
    BY <1>9, <2>1 DEF NoDigits, Sums
<1>11. \A k \in 1 .. n : k - 1 \in T => k \in T
  <2> SUFFICES ASSUME NEW k \in 1 .. n, k - 1 \in T
               PROVE  k \in T
    OBVIOUS
  <2>1. k \in Nat \ {0} /\ k \in 0 .. n /\ 1 .. k \in SUBSET (1 .. n)
    BY <1>1
  <2>2. 1 .. k # {} /\ Latest(1 .. k) = k /\ (1 .. k) \ {Latest(1 .. k)} = 1 .. (k - 1)
    BY <2>1, PlacesInOrder
  <2>3. f[1 .. k] = AddDigit(f[1 .. (k - 1)], digits[k], base)
    <3>1. \A t \in SUBSET (1 .. n) : t # {} =>
            f[t] = AddDigit(f[t \ {Latest(t)}], digits[Latest(t)], base)
      BY <1>7
    <3> DEFINE t == 1 .. k
    <3>2. t \in SUBSET (1 .. n) /\ t # {} /\ Latest(t) = k /\ t \ {Latest(t)} = 1 .. (k - 1)
      BY <2>1, <2>2
    <3> HIDE DEF t
    <3>3. f[t] = AddDigit(f[1 .. (k - 1)], digits[k], base)
      BY <3>1, <3>2
    <3> QED
      BY <3>3 DEF t
  <2>4. f[1 .. (k - 1)] \in Sums /\ digits[k] \in values
    BY <1>1
  <2>5. step[<<f[1 .. (k - 1)], digits[k]>>] = AddDigit(f[1 .. (k - 1)], digits[k], base)
    BY <2>4 DEF step
  <2>6. step[<<f[1 .. (k - 1)], digits[k]>>] \in Sums
    BY <1>3, <2>4
  <2> QED
    BY <2>1, <2>3, <2>5, <2>6
<1> HIDE DEF T
<1>12. \A k \in 0 .. n : k \in T
  BY <1>1, <1>10, <1>11, UpTo
<1>13. total \in Sums
  <2>1. n \in T
    BY <1>1, <1>12
  <2> QED
    BY <1>8, <2>1 DEF T
<1>14. digits = << >> => total = NoDigits
  <2> SUFFICES ASSUME digits = << >> PROVE total = NoDigits
    OBVIOUS
  <2>1. 1 .. n = {}
    BY DEF n
  <2> QED
    BY <1>8, <1>9, <2>1
<1> QED
  BY <1>13, <1>14, Zenon DEF total

\* A value that is being converted: of what is still to be read no character
\* is 0, and the first 0 is where the end tag began.
Unread ==
  /\ mem \in Seq(Bytes) /\ pair.end \in 1 .. Len(mem) /\ mem[pair.end] = 0
  /\ p \in 1 .. pair.end
  /\ \A i \in p .. pair.end - 1 : mem[i] \in Chars

LEMMA DigitsFound ==
  ASSUME Unread, NEW mark \in Bytes, NEW semicolon \in p + 2 .. Len(mem),
         \E k \in p + 1 .. semicolon : mem[k] = mark
  PROVE  /\ Digits(mark, semicolon) \in Seq(Bytes)
         /\ semicolon = p + 2 /\ mem[semicolon] # mark => Digits(mark, semicolon) = << >>
<1> DEFINE marks == {k \in p + 1 .. semicolon : mem[k] = mark}
           first == Max(marks) + 1
<1>1. p \in Nat /\ p >= 1 /\ Len(mem) \in Nat /\ semicolon \in Nat
  BY DEF Unread
<1>2. marks \in SUBSET (1 .. Len(mem)) /\ marks # {}
  BY <1>1
<1>3. Max(marks) \in marks
  <2> HIDE DEF marks
  <2>1. Latest(marks) \in marks
    BY <1>1, <1>2, LatestIsOne
  <2> QED
    BY <2>1, Zenon DEF Latest, Max
<1>4. first \in p + 2 .. semicolon + 1
  BY <1>1, <1>3
<1>5. semicolon = p + 2 /\ mem[semicolon] # mark => first = p + 2
  BY <1>1, <1>3
<1>6. Digits(mark, semicolon) = Reverse(SubSeq(mem, first, semicolon - 1))
  BY DEF Digits
<1> HIDE DEF first
<1>7. \A i \in first .. semicolon - 1 : mem[i] \in Bytes
  BY <1>1, <1>4 DEF Unread
<1>8. SubSeq(mem, first, semicolon - 1) \in Seq(Bytes)
  BY <1>1, <1>4, <1>7, SubSeqProperties
<1>9. semicolon = p + 2 /\ mem[semicolon] # mark => SubSeq(mem, first, semicolon - 1) = << >>
  BY <1>1, <1>4, <1>5, SubSeqEmpty
<1>10. \A s \in Seq(Bytes) : Reverse(s) \in Seq(Bytes) /\ (s = << >> => Reverse(s) = << >>)
  BY DEF Reverse
<1> QED
  BY <1>6, <1>8, <1>9, <1>10

\* What a reference is read as fits where it was.
Fits(ref) ==
  /\ ref.length \in 1 .. pair.end - p
  /\ ref.bytes \in Seq(Bytes) /\ Len(ref.bytes) <= ref.length

LEMMA ReferenceFits ==
  ASSUME Unread, p < pair.end, mem[p + 1] = Hash
  PROVE  GetCharacterRef = NoRef \/ Fits(GetCharacterRef)
<1> DEFINE hex == mem[p + 2] = LetterX
           base == IF hex THEN 16 ELSE 10
           from == IF hex THEN p + 3 ELSE p + 2
           semicolon == Find(from, Semicolon)
           mark == IF hex THEN LetterX ELSE Hash
           digits == Digits(mark, semicolon)
           ucs == FoldLeft(LAMBDA sum, c : AddDigit(sum, c, base), NoDigits, digits).ucs
<1>1. /\ p \in Nat \ {0} /\ pair.end \in Nat /\ Len(mem) \in Nat /\ pair.end <= Len(mem)
      /\ mem[pair.end] = 0 /\ mem \in Seq(Bytes)
  BY DEF Unread
<1>2. p + 2 <= pair.end
  BY <1>1 DEF Hash
<1>3. CASE mem[p + 2] = 0
  <2>1. GetCharacterRef = [length |-> 1, bytes |-> << >>]
    BY <1>3 DEF GetCharacterRef
  <2> QED
    BY <1>1, <2>1 DEF Fits
<1>4. CASE mem[p + 2] # 0 /\ semicolon = 0
  BY <1>4 DEF GetCharacterRef
<1>5. CASE mem[p + 2] # 0 /\ semicolon # 0
  <2>1. p + 3 <= pair.end
    BY <1>1, <1>2, <1>5
  <2>2. /\ from \in Nat \ {0} /\ from <= pair.end /\ from >= p + 2 /\ (hex => from = p + 3)
        /\ Semicolon \in Bytes /\ Semicolon # 0
    BY <1>1, <2>1 DEF Semicolon, Bytes
  <2> HIDE DEF from
  <2>3. /\ semicolon \in from .. Len(mem) /\ mem[semicolon] = Semicolon
        /\ \A j \in from .. semicolon - 1 : mem[j] # 0
    BY <1>1, <1>5, <2>2, FoundFirst
  <2> HIDE DEF semicolon
  <2>4. semicolon < pair.end
    <3> SUFFICES ASSUME ~ (semicolon < pair.end) PROVE FALSE
      OBVIOUS
    <3>1. semicolon # pair.end
      BY <1>1, <2>2, <2>3
    <3>2. pair.end \in from .. semicolon - 1
      BY <1>1, <2>2, <2>3, <3>1
    <3> QED
      BY <1>1, <2>3, <3>2
  <2>5. semicolon \in p + 2 .. Len(mem) /\ (hex => semicolon >= p + 3)
    BY <1>1, <2>2, <2>3
  <2>6. mark \in Bytes /\ mark # Semicolon /\ \E k \in p + 1 .. semicolon : mem[k] = mark
    BY <1>1, <2>5 DEF Bytes, LetterX, Hash, Semicolon
  <2> HIDE DEF mark
  <2>7. digits \in Seq(Bytes) /\ (semicolon = p + 2 => digits = << >>)
    BY <2>3, <2>5, <2>6, DigitsFound
  <2> HIDE DEF digits
  <2>8. DOMAIN digits = 1 .. Len(digits)
    BY <2>7
  <2>9. CASE \E i \in DOMAIN digits : Digit(digits[i], base) = -1
    BY <1>5, <2>9 DEF GetCharacterRef, digits, semicolon, mark, from
  <2>10. CASE ~ \E i \in DOMAIN digits : Digit(digits[i], base) = -1
    <3>1. base \in {10, 16}
      OBVIOUS
    <3>2. ucs \in Nat /\ (digits = << >> => ucs = 0)
      <4> HIDE DEF base
      <4> DEFINE total == FoldLeft(LAMBDA sum, c : AddDigit(sum, c, base), NoDigits, digits)
      <4>1. total \in Sums /\ (digits = << >> => total = NoDigits)
        BY <2>7, <2>8, <2>10, <3>1, DigitsMakeANumber
      <4> HIDE DEF total
      <4>2. total.ucs \in Nat /\ (digits = << >> => total.ucs = 0)
        BY <4>1 DEF Sums, NoDigits
      <4> QED
        BY <4>2 DEF total
    <3>3. GetCharacterRef = [length |-> semicolon - p + 1, bytes |-> ConvertUTF32ToUTF8(ucs)]
      BY <1>5, <2>10 DEF GetCharacterRef, digits, semicolon, mark, from
    <3> DEFINE bytes == ConvertUTF32ToUTF8(ucs)
               written == Len(bytes)
               read == semicolon - p + 1
    <3> HIDE DEF ucs
    <3>4. bytes \in Seq(Bytes) /\ written \in 0 .. 4 /\ (ucs = 0 => written = 1)
      BY <3>2, ShortEncoding
    <3> HIDE DEF bytes, written
    <3>5. read \in 1 .. pair.end - p /\ (semicolon # p + 2 => read >= 4) /\ read >= 3
      BY <1>1, <2>4, <2>5
    <3> HIDE DEF read
    <3>6. CASE semicolon = p + 2
      <4>1. written = 1
        BY <2>7, <3>2, <3>4, <3>6
      <4>2. written <= read
        BY <1>1, <3>5, <4>1
      <4> QED
        BY <3>3, <3>4, <3>5, <4>2 DEF Fits, bytes, written, read
    <3>7. CASE semicolon # p + 2
      <4>1. written <= read
        BY <1>1, <3>4, <3>5, <3>7
      <4> QED
        BY <3>3, <3>4, <3>5, <4>1 DEF Fits, bytes, written, read
    <3> QED
      BY <3>6, <3>7
  <2> QED
    BY <2>9, <2>10
<1> QED
  BY <1>3, <1>4, <1>5

-----------------------------------------------------------------------------
(***************************************************************************)
(* The invariant.  A value has been found where its end tag is, the buffer *)
(* from there on stays as it was, and the writer is not ahead of the       *)
(* reader.  In a comment or CDATA what is written and what is still to be  *)
(* read have, one after the other, no end tag in them.                     *)
(***************************************************************************)
InBuffer ==
  /\ mem \in Seq(Bytes) /\ pair.start = 1 /\ pair.end \in Nat \ {0}
  /\ Len(mem) = pair.end + Len(Tag)
  /\ SubSeq(mem, pair.end + 1, Len(mem)) = Tail(Tag) \o <<0>>

Unparsed ==
  /\ at = "unparsed" /\ pair = NoPair
  /\ \E chars \in Seq(Chars) : ~HasInside(chars, Tag) /\ mem = Buffer(chars, mode)

Marked ==
  /\ at = "caller" /\ pair.flags = Needs \cup {"flush"} /\ InBuffer
  /\ \A i \in 1 .. pair.end - 1 : mem[i] \in Chars
  /\ NoTag(mem, pair.end - 1, Tag)

\* What is written, and after it what is still to be read.
ToCome == [i \in Nat |-> IF i < q THEN mem[i] ELSE mem[i + p - q]]
HowMuch == (q - 1) + (pair.end - p)

Converting ==
  /\ at = "converting" /\ pair.flags = Needs /\ InBuffer /\ Unread /\ q \in 1 .. p
  /\ "entities" \notin Needs => NoTag(ToCome, HowMuch, Tag)

Converted ==
  /\ at = "caller" /\ pair.flags = {} /\ InBuffer
  /\ q \in 1 .. pair.end /\ mem[q] = 0
  /\ "entities" \notin Needs => NoTag(mem, q - 1, Tag)

TextInv ==
  /\ mode \in DOMAIN Modes
  /\ Unparsed \/ Marked \/ Converting \/ Converted

LEMMA SameFromThere ==
  ASSUME NEW s \in Seq(Bytes), NEW t \in Seq(Bytes), Len(s) = Len(t), NEW n \in Nat,
         n <= Len(s), \A i \in n + 1 .. Len(s) : s[i] = t[i]
  PROVE  SubSeq(s, n + 1, Len(s)) = SubSeq(t, n + 1, Len(t))
<1> DEFINE d == Len(s) - n
           a == SubSeq(s, n + 1, Len(s))
           b == SubSeq(t, n + 1, Len(t))
<1>1. Len(s) \in Nat /\ d \in Nat /\ Len(s) - (n + 1) + 1 = d
  OBVIOUS
<1>2. a \in Seq(Bytes) /\ Len(a) = d /\ \A i \in 1 .. d : a[i] = s[n + 1 + i - 1]
  <2>1. \A i \in n + 1 .. Len(s) : s[i] \in Bytes
    BY <1>1
  <2>2. n + 1 \in Int /\ Len(s) \in Int /\ n + 1 <= Len(s) + 1
    BY <1>1
  <2> HIDE DEF d
  <2>3. /\ a \in Seq(Bytes) /\ Len(a) = (IF n + 1 <= Len(s) THEN Len(s) - (n + 1) + 1 ELSE 0)
        /\ \A i \in 1 .. Len(s) - (n + 1) + 1 : a[i] = s[n + 1 + i - 1]
    BY <2>1, <2>2, SubSeqProperties
  <2>4. Len(a) = d
    BY <1>1, <2>3
  <2> QED
    BY <1>1, <2>3, <2>4
<1>3. b \in Seq(Bytes) /\ Len(b) = d /\ \A i \in 1 .. d : b[i] = t[n + 1 + i - 1]
  <2>1. \A i \in n + 1 .. Len(s) : t[i] \in Bytes
    BY <1>1
  <2>2. n + 1 \in Int /\ Len(s) \in Int /\ Len(t) = Len(s)
    BY <1>1
  <2> HIDE DEF d
  <2>3. /\ b \in Seq(Bytes) /\ Len(b) = (IF n + 1 <= Len(s) THEN Len(s) - (n + 1) + 1 ELSE 0)
        /\ \A i \in 1 .. Len(s) - (n + 1) + 1 : b[i] = t[n + 1 + i - 1]
    BY <2>1, <2>2, SubSeqProperties
  <2>4. Len(b) = d
    BY <1>1, <2>3
  <2> QED
    BY <1>1, <2>3, <2>4
<1>4. \A i \in 1 .. d : n + 1 + i - 1 \in n + 1 .. Len(s)
  BY <1>1
<1> HIDE DEF a, b, d
<1>5. \A i \in 1 .. d : a[i] = b[i]
  BY <1>2, <1>3, <1>4
<1>6. a = b
  BY <1>2, <1>3, <1>5, SeqEqual
<1> QED
  BY <1>6 DEF a, b

LEMMA NoTagAlike ==
  ASSUME NEW f, NEW g, NEW n \in Int, NEW tag \in Seq(Bytes), Len(tag) >= 1, NEW m \in Int, m <= n,
         \A i \in 1 .. m : f[i] = g[i], NoTag(f, n, tag)
  PROVE  NoTag(g, m, tag)
<1> DEFINE d == Len(tag)
<1>1. d \in Nat /\ d >= 1
  OBVIOUS
<1> SUFFICES ASSUME NEW k \in 1 .. m - d + 1
             PROVE  \E j \in 1 .. d : g[k + j - 1] # tag[j]
  BY DEF NoTag
<1>2. \A k1 \in 1 .. n - d + 1 : \E j \in 1 .. d : f[k1 + j - 1] # tag[j]
  BY DEF NoTag
<1> HIDE DEF d
<1>3. k \in 1 .. n - d + 1
  BY <1>1
<1>4. PICK j \in 1 .. d : f[k + j - 1] # tag[j]
  BY <1>2, <1>3
<1>5. k + j - 1 \in 1 .. m
  BY <1>1
<1> QED
  BY <1>4, <1>5

-----------------------------------------------------------------------------
(* The steps. *)

LEMMA InitIsUnparsed == Init => TextInv
<1> SUFFICES ASSUME Init PROVE TextInv
  OBVIOUS
<1>1. PICK t \in Texts : mode = t.mode /\ mem = Buffer(t.chars, t.mode)
  BY DEF Init
<1>2. t.mode \in DOMAIN Modes /\ t.chars \in Seq(Chars) /\ ~HasInside(t.chars, Modes[t.mode].endTag)
  BY TextsAssumption DEF Chars
<1> QED
  BY <1>1, <1>2 DEF Init, TextInv, Unparsed, Tag

LEMMA ParseTextStep ==
  ASSUME TextInv, ParseText
  PROVE  TextInv'
<1>1. PICK chars \in Seq(Chars) : ~HasInside(chars, Tag) /\ mem = Buffer(chars, mode)
  BY DEF TextInv, Unparsed, Marked, Converting, Converted, ParseText
<1> DEFINE n == Len(chars)
           d == Len(Tag)
<1>2. /\ n \in Nat /\ d \in Nat /\ d >= 1 /\ Tag \in Seq(Bytes) /\ mode \in DOMAIN Modes
  <2>1. mode \in DOMAIN Modes /\ n \in Nat
    BY DEF TextInv
  <2>2. Tag \in Seq(Bytes) /\ d \in {1, 3}
    BY <2>1, ModeFacts
  <2> HIDE DEF d, n
  <2> QED
    BY <2>1, <2>2
<1>3. /\ Min({k \in DOMAIN mem : Follows(k, Tag)}) = n + 1
      /\ NoTag(mem, n, Tag)
  BY <1>1, <1>2, EndTagFound
<1>4. /\ mem' = mem /\ mode' = mode /\ at' = "caller" /\ Tag' = Tag /\ Needs' = Needs
      /\ pair' = [start |-> 1, end |-> n + 1, flags |-> Needs \cup {"flush"}]
  BY <1>3 DEF ParseText, Tag, Needs
<1>5. /\ mem \in Seq(Bytes) /\ Len(mem) = n + d + 1
      /\ \A i \in 1 .. n : mem[i] = chars[i]
      /\ \A j \in 1 .. d : mem[n + j] = Tag[j]
      /\ mem[Len(mem)] = 0
  BY <1>1, <1>2, BufferFacts DEF Tag
<1>6. SubSeq(mem, n + 2, Len(mem)) = Tail(Tag) \o <<0>>
  <2> DEFINE a == SubSeq(mem, n + 2, Len(mem))
             rest == Tail(Tag)
             b == rest \o <<0>>
  <2> HIDE DEF n, d
  <2>1. /\ rest \in Seq(Bytes) /\ Len(rest) = d - 1
        /\ \A i \in 1 .. d - 1 : rest[i] = Tag[i + 1]
    <3>1. Tag # << >>
      BY <1>2 DEF d
    <3> QED
      BY <1>2, <3>1, HeadTailProperties DEF d
  <2> HIDE DEF rest
  <2>2. /\ b \in Seq(Bytes) /\ Len(b) = d
        /\ \A i \in 1 .. d : b[i] = IF i <= d - 1 THEN rest[i] ELSE 0
    <3>1. <<0>> \in Seq(Bytes) /\ Len(<<0>>) = 1 /\ <<0>>[1] = 0
      BY DEF Bytes
    <3> DEFINE l == <<0>>
    <3>2. l \in Seq(Bytes) /\ Len(l) = 1 /\ l[1] = 0 /\ b = rest \o l
      BY <3>1
    <3> HIDE DEF l, b
    <3>3. /\ b \in Seq(Bytes) /\ Len(b) = Len(rest) + Len(l)
          /\ \A i \in 1 .. Len(rest) + Len(l) :
               b[i] = IF i <= Len(rest) THEN rest[i] ELSE l[i - Len(rest)]
      BY <2>1, <3>2, ConcatProperties
    <3>4. \A i \in 1 .. d : b[i] = IF i <= d - 1 THEN rest[i] ELSE 0
      <4> TAKE i \in 1 .. d
      <4>1. i \in 1 .. Len(rest) + Len(l) /\ (~ (i <= d - 1) => i - Len(rest) = 1)
        BY <1>2, <2>1, <3>2
      <4> QED
        BY <2>1, <3>2, <3>3, <4>1
    <3> QED
      BY <1>2, <2>1, <3>2, <3>3, <3>4
  <2>3. a \in Seq(Bytes) /\ Len(a) = d /\ \A i \in 1 .. d : a[i] = mem[n + 2 + i - 1]
    <3>1. \A i \in n + 2 .. Len(mem) : mem[i] \in Bytes
      BY <1>2, <1>5
    <3>2. Len(mem) \in Int /\ n + 2 \in Int /\ Len(mem) - (n + 2) + 1 = d /\ n + 2 <= Len(mem)
      BY <1>2, <1>5
    <3> QED
      BY <3>1, <3>2, SubSeqProperties
  <2> HIDE DEF a, b
  <2>4. \A i \in 1 .. d : a[i] = b[i]
    <3> TAKE i \in 1 .. d
    <3>1. CASE i = d
      <4>1. n + 2 + i - 1 = Len(mem)
        BY <1>2, <1>5, <3>1
      <4> QED
        BY <1>2, <1>5, <2>2, <2>3, <3>1, <4>1
    <3>2. CASE i # d
      <4>1. i \in 1 .. d - 1 /\ i + 1 \in 1 .. d /\ n + 2 + i - 1 = n + (i + 1) /\ i <= d - 1
        BY <1>2, <3>2
      <4>2. mem[n + (i + 1)] = Tag[i + 1]
        BY <1>5, <4>1
      <4> QED
        BY <2>1, <2>2, <2>3, <4>1, <4>2
    <3> QED
      BY <3>1, <3>2
  <2>5. a = b
    BY <2>2, <2>3, <2>4, SeqEqual
  <2> QED
    BY <2>5 DEF a, b, rest
<1> HIDE DEF n, d
<1>7. /\ pair'.start = 1 /\ pair'.end = n + 1 /\ pair'.flags = Needs \cup {"flush"}
      /\ n + 1 \in Nat \ {0} /\ n + 1 + 1 = n + 2 /\ n + 1 - 1 = n /\ Len(mem) = n + 1 + d
  BY <1>2, <1>4, <1>5
<1>8. InBuffer'
  BY <1>4, <1>5, <1>6, <1>7 DEF InBuffer, d
<1>9. \A i \in 1 .. n : mem[i] \in Chars
  <2>1. \A i \in 1 .. n : chars[i] \in Chars
    BY DEF n
  <2> QED
    BY <1>5, <2>1
<1>10. Marked'
  <2>0. pair'.end - 1 = n /\ mem' = mem /\ Tag' = Tag
    BY <1>2, <1>4, <1>7
  <2>1. \A i \in 1 .. pair'.end - 1 : mem'[i] \in Chars
    BY <1>9, <2>0
  <2>2. NoTag(mem', pair'.end - 1, Tag')
    BY <1>3, <2>0
  <2> QED
    BY <1>4, <1>7, <1>8, <2>1, <2>2 DEF Marked
<1> QED
  BY <1>2, <1>4, <1>10 DEF TextInv

LEMMA FlushStep ==
  ASSUME TextInv, Flush
  PROVE  TextInv'
<1>1. /\ mode' = mode /\ Tag' = Tag /\ Needs' = Needs /\ at' = "converting"
      /\ mode \in DOMAIN Modes /\ Tag \in Seq(Bytes) /\ Len(Tag) \in {1, 3} /\ "flush" \notin Needs
  BY ModeFacts DEF TextInv, Flush, Tag, Needs
<1>2. Marked
  BY DEF TextInv, Unparsed, Marked, Converting, Converted, Flush
<1> DEFINE end == pair.end
           d == Len(Tag)
<1>3. /\ mem \in Seq(Bytes) /\ end \in Nat \ {0} /\ Len(mem) = end + d /\ d \in {1, 3}
      /\ pair.start = 1 /\ pair.flags = Needs \cup {"flush"}
      /\ SubSeq(mem, end + 1, Len(mem)) = Tail(Tag) \o <<0>>
      /\ \A i \in 1 .. end - 1 : mem[i] \in Chars
      /\ NoTag(mem, end - 1, Tag)
  BY <1>1, <1>2 DEF Marked, InBuffer
<1>4. pair'.start = 1 /\ pair'.end = end /\ pair'.flags = Needs
  <2>1. pair' = [pair EXCEPT !.flags = @ \ {"flush"}]
    BY DEF Flush
  <2>2. pair'.start = pair.start /\ pair'.end = pair.end
    BY <2>1
  <2>3. pair.flags \ {"flush"} = Needs
    BY <1>1, <1>3
  <2> QED
    BY <1>3, <2>1, <2>2, <2>3
<1>5. /\ p' = 1 /\ q' = 1 /\ mem' = [mem EXCEPT ![end] = 0]
  BY <1>3 DEF Flush
<1> HIDE DEF end, d
<1>6. /\ mem' \in Seq(Bytes) /\ Len(mem') = Len(mem) /\ end \in 1 .. Len(mem)
      /\ \A i \in 1 .. Len(mem) : mem'[i] = IF i = end THEN 0 ELSE mem[i]
  <2>1. end \in 1 .. Len(mem) /\ 0 \in Bytes
    BY <1>3 DEF Bytes
  <2> QED
    BY <1>3, <1>5, <2>1, ExceptSeq
<1>7. SubSeq(mem', end + 1, Len(mem')) = Tail(Tag) \o <<0>>
  <2>1. \A i \in end + 1 .. Len(mem) : mem'[i] = mem[i]
    BY <1>3, <1>6
  <2>2. end \in Nat /\ end <= Len(mem) /\ mem' \in Seq(Bytes) /\ Len(mem) = Len(mem')
        /\ \A i \in end + 1 .. Len(mem) : mem[i] = mem'[i]
    BY <1>3, <1>6, <2>1
  <2>3. SubSeq(mem, end + 1, Len(mem)) = SubSeq(mem', end + 1, Len(mem'))
    BY <1>3, <2>2, SameFromThere
  <2> QED
    BY <1>3, <2>3
<1>8. InBuffer'
  BY <1>1, <1>3, <1>4, <1>6, <1>7 DEF InBuffer, d
<1>9. Unread'
  <2>1. \A i \in 1 .. end - 1 : mem'[i] \in Chars
    BY <1>3, <1>6
  <2> QED
    BY <1>3, <1>4, <1>5, <1>6, <2>1 DEF Unread
<1>10. NoTag(ToCome', HowMuch', Tag')
  <2>1. HowMuch' = end - 1
    BY <1>3, <1>4, <1>5 DEF HowMuch
  <2>2. \A i \in 1 .. end - 1 : mem[i] = ToCome'[i]
    BY <1>3, <1>5, <1>6 DEF ToCome
  <2>3. end - 1 \in Int /\ end - 1 <= end - 1 /\ Len(Tag) >= 1
    <3>1. end - 1 \in Int /\ end - 1 <= end - 1
      BY <1>3
    <3>2. Len(Tag) >= 1
      BY ModeFacts DEF TextInv
    <3> QED
      BY <3>1, <3>2
  <2> HIDE DEF ToCome, HowMuch
  <2>4. NoTag(ToCome', end - 1, Tag)
    BY <1>1, <1>3, <2>2, <2>3, NoTagAlike
  <2> QED
    BY <1>1, <2>1, <2>4
<1>11. q' \in 1 .. p'
  BY <1>5
<1> QED
  BY <1>1, <1>4, <1>8, <1>9, <1>10, <1>11 DEF TextInv, Converting

\* Some characters are read, and no more are written: the reader stays ahead.
LEMMA ConvertKeeps ==
  ASSUME mode \in DOMAIN Modes, Converting, NEW length \in 1 .. pair.end - p,
         NEW bytes \in Seq(Bytes), Len(bytes) <= length, Convert(length, bytes)
  PROVE  /\ at' = "converting" /\ mode' = mode /\ Tag' = Tag /\ Needs' = Needs
         /\ pair'.flags = Needs' /\ InBuffer' /\ Unread' /\ q' \in 1 .. p'
         /\ \A i \in 1 .. q - 1 : mem'[i] = mem[i]
         /\ \A i \in 1 .. Len(bytes) : mem'[q + i - 1] = bytes[i]
         /\ \A i \in p + length .. pair.end - 1 : mem'[i] = mem[i]
<1> DEFINE end == pair.end
           w == Len(bytes)
<1>1. /\ mem \in Seq(Bytes) /\ end \in Nat /\ Len(mem) = end + Len(Tag) /\ Len(Tag) \in {1, 3}
      /\ mem[end] = 0 /\ p \in 1 .. end /\ q \in 1 .. p /\ w \in Nat /\ w <= length
      /\ SubSeq(mem, end + 1, Len(mem)) = Tail(Tag) \o <<0>>
  <2>1. Len(Tag) \in {1, 3}
    BY ModeFacts
  <2>2. w \in Nat /\ w <= length
    OBVIOUS
  <2>3. /\ mem \in Seq(Bytes) /\ end \in Nat /\ Len(mem) = end + Len(Tag)
        /\ SubSeq(mem, end + 1, Len(mem)) = Tail(Tag) \o <<0>>
    BY DEF Converting, InBuffer
  <2>4. mem[end] = 0 /\ p \in 1 .. end /\ q \in 1 .. p
    BY DEF Converting, Unread
  <2> QED
    BY <2>1, <2>2, <2>3, <2>4
<1>2. /\ at' = "converting" /\ mode' = mode /\ Tag' = Tag /\ Needs' = Needs /\ pair' = pair
      /\ p' = p + length /\ q' = q + w
      /\ mem' = [i \in DOMAIN mem |-> IF i \in q .. q + w - 1 THEN bytes[i - q + 1] ELSE mem[i]]
  BY DEF Convert, Converting, Tag, Needs
<1>3. DOMAIN mem = 1 .. Len(mem) /\ Len(mem) \in Nat
  BY <1>1
<1> HIDE DEF end, w
<1>4. \A i \in 1 .. Len(mem) :
        mem'[i] = IF i \in q .. q + w - 1 THEN bytes[i - q + 1] ELSE mem[i]
  BY <1>2, <1>3
<1>5. /\ \A i \in 1 .. q - 1 : mem'[i] = mem[i]
      /\ \A i \in p + length .. Len(mem) : mem'[i] = mem[i]
  <2>0. length \in 1 .. end - p
    BY DEF end
  <2>1. \A i \in 1 .. q - 1 : i \in 1 .. Len(mem) /\ i \notin q .. q + w - 1
    BY <1>1, <1>3
  <2>2. \A i \in p + length .. Len(mem) : i \in 1 .. Len(mem) /\ i \notin q .. q + w - 1
    BY <1>1, <1>3, <2>0
  <2> QED
    BY <1>4, <2>1, <2>2
<1>6. \A i \in 1 .. w : mem'[q + i - 1] = bytes[i]
  <2> TAKE i \in 1 .. w
  <2>1. q + i - 1 \in 1 .. Len(mem) /\ q + i - 1 \in q .. q + w - 1 /\ (q + i - 1) - q + 1 = i
    BY <1>1, <1>3 DEF end
  <2> QED
    BY <1>4, <2>1
<1>7. mem' \in Seq(Bytes) /\ Len(mem') = Len(mem)
  <2>1. \A i \in 1 .. Len(mem) : mem'[i] \in Bytes
    <3> TAKE i \in 1 .. Len(mem)
    <3>1. CASE i \in q .. q + w - 1
      <4>1. i - q + 1 \in 1 .. w
        BY <1>1, <3>1
      <4>2. bytes[i - q + 1] \in Bytes
        BY <4>1 DEF w
      <4> QED
        BY <1>4, <3>1, <4>2
    <3>2. CASE ~ (i \in q .. q + w - 1)
      BY <1>1, <1>4, <3>2
    <3> QED
      BY <3>1, <3>2
  <2>2. DOMAIN mem' = 1 .. Len(mem) /\ mem' = [i \in 1 .. Len(mem) |-> mem'[i]]
    BY <1>2, <1>3
  <2>3. mem' \in [1 .. Len(mem) -> Bytes]
    BY <2>1, <2>2, Zenon
  <2> QED
    BY <1>3, <2>3
<1>8. InBuffer'
  <2>1. \A i \in end + 1 .. Len(mem) : mem'[i] = mem[i]
    BY <1>1, <1>3, <1>5 DEF end
  <2>2. end \in Nat /\ end <= Len(mem) /\ Len(mem) = Len(mem')
        /\ \A i \in end + 1 .. Len(mem) : mem[i] = mem'[i]
    BY <1>1, <1>3, <1>7, <2>1
  <2>3. SubSeq(mem, end + 1, Len(mem)) = SubSeq(mem', end + 1, Len(mem'))
    BY <1>1, <1>7, <2>2, SameFromThere
  <2>4. pair.start = 1 /\ end # 0
    BY DEF Converting, InBuffer, end
  <2>5. pair'.start = 1 /\ pair'.end = end
    BY <1>2, <2>4 DEF end
  <2>6. Len(mem') = end + Len(Tag') /\ SubSeq(mem', end + 1, Len(mem')) = Tail(Tag') \o <<0>>
    BY <1>1, <1>2, <1>7, <2>3
  <2> QED
    BY <1>1, <1>7, <2>4, <2>5, <2>6 DEF InBuffer
<1>9. Unread'
  <2>0. length \in 1 .. end - p
    BY DEF end
  <2>1. p' \in 1 .. end /\ p + length <= end /\ end \in 1 .. Len(mem)
    BY <1>1, <1>2, <2>0
  <2>2. mem'[end] = 0
    BY <1>1, <1>3, <1>5, <2>1
  <2>3. \A i \in p' .. end - 1 : mem'[i] \in Chars
    <3> TAKE i \in p' .. end - 1
    <3>1. i \in p + length .. Len(mem) /\ i \in p .. end - 1
      BY <1>1, <1>2, <1>3
    <3>2. mem[i] \in Chars
      BY <3>1 DEF Converting, Unread, end
    <3> QED
      BY <1>5, <3>1, <3>2
  <2> QED
    BY <1>1, <1>2, <1>7, <2>1, <2>2, <2>3 DEF Unread, end
<1>10. q' \in 1 .. p'
  BY <1>1, <1>2
<1>11. \A i \in p + length .. end - 1 : mem'[i] = mem[i]
  BY <1>1, <1>3, <1>5
<1>12. pair'.flags = Needs'
  BY <1>2 DEF Converting
<1> QED
  BY <1>2, <1>5, <1>6, <1>8, <1>9, <1>10, <1>11, <1>12 DEF end, w

LEMMA CopyStep ==
  ASSUME TextInv, CopyCharacter
  PROVE  TextInv'
<1>1. mode \in DOMAIN Modes /\ Converting /\ p < pair.end
  BY DEF TextInv, Unparsed, Marked, Converting, Converted, CopyCharacter, Reading
<1> DEFINE end == pair.end
           bytes == <<mem[p]>>
<1>2. /\ p \in 1 .. end /\ q \in 1 .. p /\ end \in Nat /\ p < end /\ mem[p] \in Bytes
      /\ Tag \in Seq(Bytes) /\ Len(Tag) \in {1, 3}
  <2>1. p \in 1 .. end /\ q \in 1 .. p /\ end \in Nat /\ mem \in Seq(Bytes) /\ end \in 1 .. Len(mem)
    BY <1>1 DEF Converting, Unread, InBuffer
  <2>2. mem[p] \in Bytes
    BY <1>1, <2>1
  <2> QED
    BY <1>1, <2>1, <2>2, ModeFacts
<1>3. bytes \in Seq(Bytes) /\ Len(bytes) = 1 /\ bytes[1] = mem[p]
  BY <1>2
<1>4. Convert(1, bytes) /\ 1 \in 1 .. end - p /\ Len(bytes) <= 1
  BY <1>2, <1>3 DEF CopyCharacter
<1> HIDE DEF bytes
<1>5. /\ at' = "converting" /\ mode' = mode /\ Tag' = Tag /\ Needs' = Needs
      /\ pair'.flags = Needs' /\ InBuffer' /\ Unread' /\ q' \in 1 .. p'
      /\ \A i \in 1 .. q - 1 : mem'[i] = mem[i]
      /\ \A i \in 1 .. Len(bytes) : mem'[q + i - 1] = bytes[i]
      /\ \A i \in p + 1 .. end - 1 : mem'[i] = mem[i]
  BY <1>1, <1>3, <1>4, ConvertKeeps
<1>6. p' = p + 1 /\ q' = q + 1 /\ pair' = pair
  BY <1>3, <1>4 DEF Convert
<1>7. mem'[q] = mem[p]
  <2>1. q + 1 - 1 = q /\ 1 \in 1 .. Len(bytes)
    BY <1>2, <1>3
  <2> QED
    BY <1>3, <1>5, <2>1
<1> HIDE DEF end
<1>8. "entities" \notin Needs => NoTag(ToCome', HowMuch', Tag')
  <2> SUFFICES ASSUME "entities" \notin Needs
               PROVE  NoTag(ToCome', HowMuch', Tag')
    OBVIOUS
  <2>1. NoTag(ToCome, HowMuch, Tag)
    BY <1>1 DEF Converting
  <2> DEFINE n == HowMuch
  <2>2. n = (q - 1) + (end - p) /\ HowMuch' = n
    BY <1>2, <1>6 DEF HowMuch, end
  <2>3. \A i \in 1 .. n : ToCome[i] = ToCome'[i]
    <3> TAKE i \in 1 .. n
    <3>1. i \in Nat
      BY <1>2, <2>2
    <3>2. /\ ToCome[i] = IF i < q THEN mem[i] ELSE mem[i + p - q]
          /\ ToCome'[i] = IF i < q' THEN mem'[i] ELSE mem'[i + p' - q']
      BY <3>1 DEF ToCome
    <3>3. CASE i < q
      <4>1. i \in 1 .. q - 1 /\ i < q'
        BY <1>2, <1>6, <3>1, <3>3
      <4> QED
        BY <1>5, <3>2, <3>3, <4>1
    <3>4. CASE i = q
      <4>1. i < q' /\ ~ (i < q) /\ i + p - q = p
        BY <1>2, <1>6, <3>4
      <4> QED
        BY <1>7, <3>2, <3>4, <4>1
    <3>5. CASE i > q
      <4>1. /\ ~ (i < q') /\ ~ (i < q) /\ i + p' - q' = i + p - q
            /\ i + p - q \in p + 1 .. end - 1
        BY <1>2, <1>6, <2>2, <3>1, <3>5
      <4> QED
        BY <1>5, <3>2, <4>1
    <3> QED
      BY <1>2, <3>1, <3>3, <3>4, <3>5
  <2>4. n \in Int /\ n <= n /\ Len(Tag) >= 1
    <3>1. q \in Int /\ p \in Int /\ end \in Int
      BY <1>2
    <3>2. n \in Int /\ n <= n
      BY <2>2, <3>1
    <3>3. Len(Tag) >= 1
      BY <1>1, ModeFacts
    <3> QED
      BY <3>2, <3>3
  <2> HIDE DEF n
  <2>5. NoTag(ToCome', n, Tag)
    BY <1>2, <2>1, <2>3, <2>4, NoTagAlike DEF n
  <2> QED
    BY <1>5, <2>2, <2>5
<1> QED
  BY <1>1, <1>5, <1>8 DEF TextInv, Converting

\* Two line ends, or one, become one: nothing that was apart comes together
\* but a line end.
LEMMA NewLineStep ==
  ASSUME TextInv, NormalizeNewLine
  PROVE  TextInv'
<1>1. mode \in DOMAIN Modes /\ Converting /\ p < pair.end /\ mem[p] \in {CR, LF}
  BY DEF TextInv, Unparsed, Marked, Converting, Converted, NormalizeNewLine, Reading, AtNewLine
<1> DEFINE end == pair.end
           bytes == <<LF>>
           length == LineEnd(mem[p], mem[p + 1])
<1>2. /\ p \in 1 .. end /\ q \in 1 .. p /\ end \in Nat /\ p < end /\ mem[end] = 0
      /\ Tag \in Seq(Bytes) /\ Len(Tag) \in {1, 3}
  BY <1>1, ModeFacts DEF Converting, Unread, InBuffer
<1>3. bytes \in Seq(Bytes) /\ Len(bytes) = 1 /\ bytes[1] = LF
  BY DEF LF, Bytes
<1>4. length \in 1 .. end - p
  <2>1. CASE {mem[p], mem[p + 1]} = {CR, LF}
    <3>1. mem[p + 1] # 0
      BY <2>1 DEF CR, LF
    <3>2. p + 1 < end
      BY <1>2, <3>1
    <3>3. length = 2
      BY <2>1 DEF LineEnd
    <3> QED
      BY <1>2, <3>2, <3>3
  <2>2. CASE {mem[p], mem[p + 1]} # {CR, LF}
    BY <1>2, <2>2 DEF LineEnd
  <2> QED
    BY <2>1, <2>2
<1>5. Convert(length, bytes) /\ Len(bytes) <= length
  BY <1>3, <1>4 DEF NormalizeNewLine
<1> HIDE DEF bytes, length
<1>6. /\ at' = "converting" /\ mode' = mode /\ Tag' = Tag /\ Needs' = Needs
      /\ pair'.flags = Needs' /\ InBuffer' /\ Unread' /\ q' \in 1 .. p'
      /\ \A i \in 1 .. q - 1 : mem'[i] = mem[i]
      /\ \A i \in 1 .. Len(bytes) : mem'[q + i - 1] = bytes[i]
      /\ \A i \in p + length .. end - 1 : mem'[i] = mem[i]
  BY <1>1, <1>3, <1>4, <1>5, ConvertKeeps
<1>7. p' = p + length /\ q' = q + 1 /\ pair' = pair
  BY <1>3, <1>5 DEF Convert
<1>8. mem'[q] = LF
  <2>1. q + 1 - 1 = q /\ 1 \in 1 .. Len(bytes)
    BY <1>2, <1>3
  <2> QED
    BY <1>3, <1>6, <2>1
<1> HIDE DEF end
<1>9. "entities" \notin Needs => NoTag(ToCome', HowMuch', Tag')
  <2> SUFFICES ASSUME "entities" \notin Needs
               PROVE  NoTag(ToCome', HowMuch', Tag')
    OBVIOUS
  <2> DEFINE n == HowMuch
             m == HowMuch'
             f == ToCome
             g == ToCome'
  <2>1. /\ n = (q - 1) + (end - p) /\ m = n - (length - 1) /\ length \in 1 .. end - p
        /\ n \in Int /\ m \in Int
    <3>1. n = (q - 1) + (end - p) /\ m = (q' - 1) + (end - p')
      BY <1>7 DEF HowMuch, end
    <3>2. q' = q + 1 /\ p' = p + length /\ length \in 1 .. end - p
      BY <1>4, <1>7 DEF end
    <3>3. q \in Int /\ p \in Int /\ end \in Int
      BY <1>2
    <3> HIDE DEF n, m, length, f, g
    <3> QED
      BY <3>1, <3>2, <3>3
  <2>2. /\ \A i \in 1 .. q - 1 : g[i] = f[i]
        /\ g[q] = LF
        /\ \A i \in q + 1 .. m : g[i] = f[i + (length - 1)]
    <3>1. \A i \in Nat : /\ f[i] = IF i < q THEN mem[i] ELSE mem[i + p - q]
                         /\ g[i] = IF i < q' THEN mem'[i] ELSE mem'[i + p' - q']
      BY DEF ToCome
    <3> HIDE DEF f, g, m, n
    <3>2. \A i \in 1 .. q - 1 : g[i] = f[i]
      <4> TAKE i \in 1 .. q - 1
      <4>1. i \in Nat /\ i < q /\ i < q'
        BY <1>2, <1>7
      <4> QED
        BY <1>6, <3>1, <4>1
    <3>3. g[q] = LF
      BY <1>2, <1>7, <1>8, <3>1
    <3>4. \A i \in q + 1 .. m : g[i] = f[i + (length - 1)]
      <4> TAKE i \in q + 1 .. m
      <4> DEFINE j == i + (length - 1)
      <4>1. /\ i \in Nat /\ j \in Nat /\ ~ (i < q') /\ ~ (j < q)
            /\ i + p' - q' = j + p - q /\ j + p - q \in p + length .. end - 1
        BY <1>2, <1>7, <2>1
      <4>2. f[j] = mem[j + p - q] /\ g[i] = mem'[i + p' - q']
        BY <3>1, <4>1
      <4> HIDE DEF j
      <4>3. g[i] = f[j]
        BY <1>6, <4>1, <4>2
      <4> QED
        BY <4>3 DEF j
    <3> QED
      BY <3>2, <3>3, <3>4
  <2>3. NoTag(f, n, Tag)
    BY <1>1 DEF Converting
  <2>4. Len(Tag) = 3 /\ \A j \in 1 .. 3 : Tag[j] # LF
    <3>1. Len(Tag) = 3 /\ \A j \in 1 .. Len(Tag) : Tag[j] \notin {CR, LF}
      BY <1>1, <1>2, ModeFacts
    <3> QED
      BY <3>1
  <2> HIDE DEF f, g, m, n
  <2>5. ASSUME NEW k \in 1 .. m - 3 + 1
        PROVE  \E j \in 1 .. 3 : g[k + j - 1] # Tag[j]
    <3>0. /\ q \in Nat \ {0} /\ k \in Nat \ {0}
      BY <1>2, <2>1
    <3>1. CASE q \in k .. k + 2
      <4> DEFINE j == q - k + 1
      <4>1. j \in 1 .. 3 /\ k + j - 1 = q
        BY <3>0, <3>1
      <4>2. g[k + j - 1] # Tag[j]
        <5> HIDE DEF j
        <5> QED
          BY <2>2, <2>4, <4>1
      <4> QED
        BY <4>1, <4>2
    <3>2. CASE k + 2 < q
      <4>1. k \in 1 .. n - 3 + 1
        BY <2>1, <3>0
      <4>2. PICK j \in 1 .. 3 : f[k + j - 1] # Tag[j]
        BY <2>3, <2>4, <4>1 DEF NoTag
      <4>3. k + j - 1 \in 1 .. q - 1
        BY <3>0, <3>2
      <4> QED
        BY <2>2, <4>2, <4>3
    <3>3. CASE q < k
      <4> DEFINE l == k + (length - 1)
      <4>1. l \in 1 .. n - 3 + 1
        BY <2>1, <3>0
      <4> HIDE DEF l
      <4>2. PICK j \in 1 .. 3 : f[l + j - 1] # Tag[j]
        BY <2>3, <2>4, <4>1 DEF NoTag
      <4>3. k + j - 1 \in q + 1 .. m /\ (k + j - 1) + (length - 1) = l + j - 1
        BY <2>1, <3>0, <3>3 DEF l
      <4>4. g[k + j - 1] = f[(k + j - 1) + (length - 1)]
        BY <2>2, <4>3
      <4> QED
        BY <4>2, <4>3, <4>4
    <3> QED
      BY <3>0, <3>1, <3>2, <3>3
  <2>6. NoTag(g, m, Tag)
    BY <2>4, <2>5 DEF NoTag
  <2> QED
    BY <1>6, <2>6 DEF g, m
<1> QED
  BY <1>1, <1>6, <1>9 DEF TextInv, Converting

\* A reference or an entity is only resolved where entities are, and then
\* there is nothing to say of what is still to come.
LEMMA EntityStep ==
  ASSUME TextInv, Converting, "entities" \in pair.flags, NEW length \in 1 .. pair.end - p,
         NEW bytes \in Seq(Bytes), Len(bytes) <= length, Convert(length, bytes)
  PROVE  TextInv'
<1>1. mode \in DOMAIN Modes /\ "entities" \in Needs
  BY DEF TextInv, Converting
<1>2. /\ at' = "converting" /\ mode' = mode /\ Needs' = Needs
      /\ pair'.flags = Needs' /\ InBuffer' /\ Unread' /\ q' \in 1 .. p'
  BY <1>1, ConvertKeeps
<1>3. "entities" \in Needs'
  BY <1>1, <1>2
<1> QED
  BY <1>1, <1>2, <1>3 DEF TextInv, Converting

LEMMA ConvertEntityStep ==
  ASSUME TextInv, ConvertEntity
  PROVE  TextInv'
<1>1. Converting /\ p < pair.end /\ "entities" \in pair.flags
  BY DEF TextInv, Unparsed, Marked, Converting, Converted, ConvertEntity, Reading, AtAmpersand
<1>2. PICK e \in Named : Convert(Len(e.pattern) + 2, <<e.value>>)
  BY DEF ConvertEntity
<1> DEFINE rest == e.pattern \o <<Semicolon>>
           d == Len(e.pattern)
           length == d + 2
           end == pair.end
<1>3. e \in Entities /\ Follows(p + 1, rest)
  BY DEF Named
<1>4. /\ mem \in Seq(Bytes) /\ end \in 1 .. Len(mem) /\ mem[end] = 0 /\ p \in 1 .. end /\ p < end
  BY <1>1 DEF Converting, Unread
<1>5. d \in 2 .. 4 /\ rest \in Seq(Chars) /\ Len(rest) = d + 1 /\ e.value \in Bytes
  <2>1. /\ e.pattern \in Seq(97 .. 122) /\ Len(e.pattern) \in 2 .. 4
        /\ e.value \in {Quote, Ampersand, Apostrophe, Less, Greater}
    BY <1>3, EntityFacts
  <2>2. 97 .. 122 \subseteq Chars /\ Semicolon \in Chars
    BY DEF Chars, Semicolon
  <2>3. e.pattern \in Seq(Chars) /\ <<Semicolon>> \in Seq(Chars) /\ Len(<<Semicolon>>) = 1
    <3>1. e.pattern \in Seq(Chars)
      BY <2>1, <2>2, SeqMonotonic
    <3>2. <<Semicolon>> \in Seq(Chars) /\ Len(<<Semicolon>>) = 1
      BY <2>2
    <3> QED
      BY <3>1, <3>2
  <2>4. e.value \in Bytes
    BY <2>1 DEF Quote, Ampersand, Apostrophe, Less, Greater, Bytes
  <2> QED
    BY <2>1, <2>3, <2>4, ConcatProperties
<1> HIDE DEF rest, d
<1>6. \A j \in 1 .. d + 1 : mem[p + j] \in Chars
  <2>1. rest \in Seq(Bytes) /\ p + 1 \in Nat \ {0}
    <3>1. Chars \subseteq Bytes
      BY DEF Chars, Bytes
    <3> QED
      BY <1>4, <1>5, <3>1, SeqMonotonic
  <2>2. \A j \in 1 .. d + 1 : mem[p + 1 + j - 1] = rest[j]
    <3>1. \A j \in 1 .. Len(rest) : mem[p + 1 + j - 1] = rest[j]
      BY <1>3, <1>4, <2>1, FollowsAt
    <3> QED
      BY <1>5, <3>1
  <2>3. \A j \in 1 .. d + 1 : rest[j] \in Chars /\ p + 1 + j - 1 = p + j
    BY <1>4, <1>5
  <2> QED
    BY <2>2, <2>3
<1>7. length \in 1 .. end - p
  <2> SUFFICES ASSUME end < p + length
               PROVE  FALSE
    BY <1>4, <1>5
  <2> DEFINE j == end - p
  <2>1. j \in 1 .. d + 1 /\ p + j = end
    BY <1>4, <1>5
  <2> HIDE DEF j
  <2>2. mem[end] \in Chars
    BY <1>6, <2>1
  <2> QED
    BY <1>4, <2>2 DEF Chars
<1>8. <<e.value>> \in Seq(Bytes) /\ Len(<<e.value>>) = 1 /\ 1 <= length
  BY <1>5
<1>9. Convert(length, <<e.value>>)
  BY <1>2 DEF d
<1> HIDE DEF length
<1> QED
  BY <1>1, <1>7, <1>8, <1>9, EntityStep DEF end

LEMMA PassUnknownEntityStep ==
  ASSUME TextInv, PassUnknownEntity
  PROVE  TextInv'
<1>1. Converting /\ p < pair.end /\ "entities" \in pair.flags /\ Convert(1, <<mem[q]>>)
  BY DEF TextInv, Unparsed, Marked, Converting, Converted, PassUnknownEntity, Reading, AtAmpersand
<1>2. /\ mem \in Seq(Bytes) /\ pair.end \in 1 .. Len(mem) /\ p \in 1 .. pair.end /\ q \in 1 .. p
  BY <1>1 DEF Converting, Unread
<1>3. mem[q] \in Bytes /\ 1 \in 1 .. pair.end - p
  BY <1>1, <1>2
<1>4. <<mem[q]>> \in Seq(Bytes) /\ Len(<<mem[q]>>) <= 1
  BY <1>3
<1> QED
  BY <1>1, <1>3, <1>4, EntityStep

LEMMA ConvertCharacterRefStep ==
  ASSUME TextInv, ConvertCharacterRef
  PROVE  TextInv'
<1>1. /\ Converting /\ Unread /\ p < pair.end /\ "entities" \in pair.flags
      /\ mem[p + 1] = Hash
  BY DEF TextInv, Unparsed, Marked, Converting, Converted, ConvertCharacterRef, Reading, AtAmpersand
<1>2. CASE GetCharacterRef = NoRef
  <2>1. Convert(1, <<mem[p]>>)
    BY <1>2 DEF ConvertCharacterRef
  <2>2. mem \in Seq(Bytes) /\ pair.end \in 1 .. Len(mem) /\ p \in 1 .. pair.end
    BY <1>1 DEF Unread
  <2>3. mem[p] \in Bytes /\ 1 \in 1 .. pair.end - p
    BY <1>1, <2>2
  <2>4. <<mem[p]>> \in Seq(Bytes) /\ Len(<<mem[p]>>) <= 1
    BY <2>3
  <2> QED
    BY <1>1, <2>1, <2>3, <2>4, EntityStep
<1>3. CASE GetCharacterRef # NoRef
  <2> DEFINE ref == GetCharacterRef
  <2>1. Fits(ref)
    BY <1>1, <1>3, ReferenceFits
  <2>2. Convert(ref.length, ref.bytes)
    BY <1>3 DEF ConvertCharacterRef
  <2> HIDE DEF ref
  <2> QED
    BY <1>1, <2>1, <2>2, EntityStep DEF Fits
<1> QED
  BY <1>2, <1>3

LEMMA EndOfValueStep ==
  ASSUME TextInv, EndOfValue
  PROVE  TextInv'
<1>1. mode \in DOMAIN Modes /\ Converting /\ p >= pair.end
  BY DEF TextInv, Unparsed, Marked, Converting, Converted, EndOfValue
<1> DEFINE end == pair.end
<1>2. /\ mem \in Seq(Bytes) /\ end \in Nat \ {0} /\ Len(mem) = end + Len(Tag)
      /\ p \in 1 .. end /\ q \in 1 .. p /\ p = end /\ pair.start = 1
      /\ SubSeq(mem, end + 1, Len(mem)) = Tail(Tag) \o <<0>>
  <2>1. /\ mem \in Seq(Bytes) /\ end \in Nat \ {0} /\ Len(mem) = end + Len(Tag)
        /\ pair.start = 1 /\ SubSeq(mem, end + 1, Len(mem)) = Tail(Tag) \o <<0>>
    BY <1>1 DEF Converting, InBuffer
  <2>2. p \in 1 .. end /\ q \in 1 .. p
    BY <1>1 DEF Converting, Unread
  <2>3. p = end
    <3>1. end \in Int
      BY <2>1
    <3> QED
      BY <1>1, <2>2, <3>1
  <2> QED
    BY <2>1, <2>2, <2>3
<1>3. Tag \in Seq(Bytes) /\ Len(Tag) \in {1, 3}
  BY <1>1, ModeFacts
<1>4. /\ at' = "caller" /\ mode' = mode /\ Tag' = Tag /\ Needs' = Needs /\ p' = p /\ q' = q
      /\ pair' = [pair EXCEPT !.flags = {}] /\ mem' = [mem EXCEPT ![q] = 0]
  BY DEF EndOfValue, Tag, Needs
<1>5. pair'.start = 1 /\ pair'.end = end /\ pair'.flags = {}
  <2>1. pair.flags = Needs
    BY <1>1 DEF Converting
  <2> QED
    BY <1>2, <1>4, <2>1
<1> HIDE DEF end
<1>6. /\ mem' \in Seq(Bytes) /\ Len(mem') = Len(mem)
      /\ \A i \in 1 .. Len(mem) : mem'[i] = IF i = q THEN 0 ELSE mem[i]
  <2>1. q \in 1 .. Len(mem) /\ 0 \in Bytes
    BY <1>2, <1>3 DEF Bytes
  <2> QED
    BY <1>2, <1>4, <2>1, ExceptSeq
<1>7. InBuffer'
  <2>1. end \in Nat /\ end <= Len(mem) /\ Len(mem) = Len(mem')
        /\ \A i \in end + 1 .. Len(mem) : mem[i] = mem'[i]
    BY <1>2, <1>3, <1>6
  <2>2. SubSeq(mem, end + 1, Len(mem)) = SubSeq(mem', end + 1, Len(mem'))
    BY <1>2, <1>6, <2>1, SameFromThere
  <2> QED
    BY <1>2, <1>4, <1>5, <1>6, <2>2 DEF InBuffer
<1>8. q' \in 1 .. pair'.end /\ mem'[q'] = 0
  BY <1>2, <1>3, <1>4, <1>5, <1>6
<1>9. "entities" \notin Needs => NoTag(mem', q - 1, Tag)
  <2> SUFFICES ASSUME "entities" \notin Needs PROVE NoTag(mem', q - 1, Tag)
    OBVIOUS
  <2>1. NoTag(ToCome, HowMuch, Tag)
    BY <1>1 DEF Converting
  <2>2. HowMuch = q - 1 /\ q - 1 \in Int /\ Len(Tag) >= 1
    <3>1. Len(Tag) >= 1
      BY <1>1, ModeFacts
    <3>2. p \in Int /\ q \in Int /\ HowMuch = (q - 1) + (p - p)
      BY <1>2 DEF HowMuch, end
    <3> QED
      BY <3>1, <3>2
  <2>3. \A i \in 1 .. q - 1 : ToCome[i] = mem'[i]
    BY <1>2, <1>3, <1>6 DEF ToCome
  <2> QED
    BY <1>3, <2>1, <2>2, <2>3, NoTagAlike
<1> QED
  BY <1>1, <1>4, <1>5, <1>7, <1>8, <1>9 DEF TextInv, Converted

-----------------------------------------------------------------------------
(* Printing. *)

\* What is in the buffer up to the first 0.
LEMMA ValueKnown ==
  ASSUME TextInv, Converted
  PROVE  /\ Value \in Seq(Chars) /\ Len(Value) <= q - 1
         /\ \A i \in 1 .. Len(Value) : Value[i] = mem[i]
         /\ mem[Len(Value) + 1] = 0
<1>1. /\ mem \in Seq(Bytes) /\ q \in 1 .. Len(mem) /\ mem[q] = 0 /\ pair.start = 1
      /\ Len(mem) \in Nat
  <2>1. mem \in Seq(Bytes) /\ pair.end \in Nat /\ Len(mem) = pair.end + Len(Tag) /\ Len(Tag) >= 1
    BY ModeFacts DEF TextInv, Converted, InBuffer
  <2>2. Len(mem) \in Nat /\ Len(Tag) \in Nat
    BY <2>1, ModeFacts DEF TextInv
  <2>3. q \in 1 .. Len(mem)
    BY <2>1, <2>2 DEF Converted
  <2> QED
    BY <2>1, <2>2, <2>3 DEF Converted, InBuffer
<1> DEFINE zeros == {k \in 1 .. Len(mem) : mem[k] = 0}
<1>2. PICK z \in zeros : \A k \in zeros : z <= k
  <2>1. zeros \subseteq Nat /\ q \in zeros
    BY <1>1
  <2> HIDE DEF zeros
  <2>2. zeros # {}
    BY <2>1
  <2> QED
    BY <2>1, <2>2, LeastNatural
<1>3. z \in 1 .. q /\ \A j \in 1 .. z - 1 : mem[j] # 0
  <2>1. z <= q
    BY <1>1, <1>2
  <2>2. \A j \in 1 .. z - 1 : j \in 1 .. Len(mem) /\ ~ (z <= j)
    BY <1>1, <1>2
  <2> QED
    BY <1>1, <1>2, <2>1, <2>2
<1> DEFINE hits == {k \in 1 .. Len(mem) : mem[k] = 0 /\ \A j \in 1 .. k - 1 : mem[j] # 0}
<1>4. z \in hits
  BY <1>2, <1>3
<1>5. \A k \in hits : k = z
  <2> TAKE k \in hits
  <2>1. z <= k /\ k \in Nat /\ z \in Nat
    BY <1>1, <1>2
  <2>2. CASE z < k
    <3>1. z \in 1 .. k - 1 /\ mem[z] = 0
      BY <1>2, <1>3, <2>1, <2>2
    <3> QED
      BY <3>1
  <2> QED
    BY <2>1, <2>2
<1>6. Find(1, 0) = z
  <2> HIDE DEF hits
  <2>1. z \in Nat /\ z <= z
    BY <1>3
  <2>2. Min(hits) = z
    BY <1>4, <1>5, <2>1, Zenon DEF Min
  <2>3. Find(1, 0) = IF hits = {} THEN 0 ELSE Min(hits)
    BY DEF Find, hits
  <2> QED
    BY <1>4, <2>2, <2>3
<1>7. Value = SubSeq(mem, 1, z - 1)
  BY <1>1, <1>6 DEF Value
<1>8. \A i \in 1 .. z - 1 : mem[i] \in Chars
  <2>1. \A i \in 1 .. z - 1 : mem[i] \in Bytes /\ mem[i] # 0
    BY <1>1, <1>3
  <2> QED
    BY <2>1 DEF Bytes, Chars
<1>9. /\ SubSeq(mem, 1, z - 1) \in Seq(Chars) /\ Len(SubSeq(mem, 1, z - 1)) = z - 1
      /\ \A i \in 1 .. z - 1 : SubSeq(mem, 1, z - 1)[i] = mem[i]
  <2> DEFINE value == SubSeq(mem, 1, z - 1)
  <2>1. z - 1 \in Int /\ 1 \in Int /\ z >= 1
    BY <1>3
  <2>2. /\ value \in Seq(Chars) /\ Len(value) = (IF 1 <= z - 1 THEN z - 1 - 1 + 1 ELSE 0)
        /\ \A i \in 1 .. z - 1 - 1 + 1 : value[i] = mem[1 + i - 1]
    BY <1>8, <2>1, SubSeqProperties
  <2> HIDE DEF value
  <2>3. z - 1 - 1 + 1 = z - 1 /\ Len(value) = z - 1
    BY <2>1, <2>2
  <2>4. \A i \in 1 .. z - 1 : value[i] = mem[i]
    <3> TAKE i \in 1 .. z - 1
    <3>1. 1 + i - 1 = i
      BY <2>1
    <3> QED
      BY <2>2, <2>3, <3>1
  <2> QED
    BY <2>2, <2>3, <2>4 DEF value
<1>10. mem[z - 1 + 1] = 0 /\ z - 1 <= q - 1
  <2>1. z - 1 + 1 = z /\ z - 1 <= q - 1
    BY <1>1, <1>3
  <2> QED
    BY <1>2, <2>1
<1> QED
  BY <1>7, <1>9, <1>10

\* Every character that is escaped has an entity.
LEMMA EntityOf ==
  ASSUME NEW c \in {Ampersand, Less, Greater, Quote, Apostrophe}
  PROVE  LET e == CHOOSE e \in Entities : e.value = c IN e \in Entities /\ e.value = c
<1>1. \E e \in Entities : e.value = c
  BY DEF Entities
<1> QED
  BY <1>1

\* The end tag of a text or an attribute is one character, which is escaped.
LEMMA EscapedTag ==
  ASSUME NEW m \in {"text", "attribute"}
  PROVE  \E c \in {Less, Quote} : Modes[m].endTag = <<c>> /\ c \in Escaped(m = "text")
<1>1. Modes["text"].endTag = <<Less>> /\ Modes["attribute"].endTag = <<Quote>>
  BY DEF Modes
<1>2. Less \in Escaped("text" = "text") /\ Quote \in Escaped("attribute" = "text")
  BY DEF Escaped
<1> QED
  BY <1>1, <1>2

\* What is printed for a text or an attribute does not end it.
LEMMA PrintedKeepsInside ==
  ASSUME NEW m \in {"text", "attribute"}, NEW chars \in Seq(Chars)
  PROVE  /\ PrintString(chars, m = "text") \in Seq(Chars)
         /\ ~HasInside(PrintString(chars, m = "text"), Modes[m].endTag)
<1>1. PICK c \in {Less, Quote} : Modes[m].endTag = <<c>> /\ c \in Escaped(m = "text")
  BY EscapedTag
<1> DEFINE S == Chars \ {c}
           restricted == m = "text"
           piece(i) == IF chars[i] \in Escaped(restricted)
                       THEN LET e == CHOOSE e \in Entities : e.value = chars[i]
                            IN <<Ampersand>> \o e.pattern \o <<Semicolon>>
                       ELSE <<chars[i]>>
           pieces == [i \in DOMAIN chars |-> piece(i)]
           printing == PrintString(chars, m = "text")
<1> HIDE DEF restricted
<1>2. ASSUME NEW i \in DOMAIN chars
      PROVE  piece(i) \in Seq(S)
  <2>1. CASE chars[i] \in Escaped(restricted)
    <3> DEFINE e == CHOOSE e \in Entities : e.value = chars[i]
    <3>1. e \in Entities
      <4>1. chars[i] \in {Ampersand, Less, Greater, Quote, Apostrophe}
        BY <2>1 DEF Escaped
      <4> QED
        BY <4>1, EntityOf
    <3> HIDE DEF e
    <3>2. e.pattern \in Seq(S)
      <4>1. e.pattern \in Seq(97 .. 122)
        BY <3>1, EntityFacts
      <4>2. 97 .. 122 \subseteq S
        BY DEF Chars, Less, Quote
      <4> QED
        BY <4>1, <4>2, SeqMonotonic
    <3>3. Ampersand \in S /\ Semicolon \in S
      BY DEF Chars, Ampersand, Semicolon, Less, Quote
    <3> HIDE DEF S
    <3>4. <<Ampersand>> \o e.pattern \o <<Semicolon>> \in Seq(S)
      BY <3>2, <3>3
    <3> QED
      BY <2>1, <3>4 DEF e
  <2>2. CASE chars[i] \notin Escaped(restricted)
    <3>1. chars[i] \in S
      BY <1>1, <2>2 DEF restricted
    <3> HIDE DEF S
    <3> QED
      BY <2>2, <3>1
  <2> QED
    BY <2>1, <2>2
<1>3. pieces \in Seq(Seq(S))
  <2>1. DOMAIN chars = 1 .. Len(chars) /\ Len(chars) \in Nat
    OBVIOUS
  <2> HIDE DEF piece, S
  <2> QED
    BY <1>2, <2>1
<1>4. printing = FlattenSeq(pieces)
  BY DEF PrintString, restricted
<1> HIDE DEF pieces, printing
<1>5. printing \in Seq(S)
  BY <1>3, <1>4, FlattenKeeps
<1>6. printing \in Seq(Chars)
  <2>1. S \subseteq Chars
    OBVIOUS
  <2> QED
    BY <1>5, <2>1, SeqMonotonic
<1>7. ~HasInside(printing, <<c>>)
  <2>1. <<c>> \in Seq(Bytes) /\ Len(<<c>>) = 1 /\ <<c>>[1] = c
    BY DEF Less, Quote, Bytes
  <2>2. printing \in Seq(Bytes)
    <3>1. Chars \subseteq Bytes
      BY DEF Chars, Bytes
    <3> QED
      BY <1>6, <3>1, SeqMonotonic
  <2>3. NoTag(printing, Len(printing), <<c>>)
    <3> SUFFICES ASSUME NEW k \in 1 .. Len(printing) - Len(<<c>>) + 1
                 PROVE  printing[k + 1 - 1] # <<c>>[1]
      BY <2>1 DEF NoTag
    <3>1. k \in 1 .. Len(printing) /\ k + 1 - 1 = k
      BY <1>5, <2>1
    <3>2. printing[k] \in S
      BY <1>5, <3>1
    <3> QED
      BY <2>1, <3>1, <3>2
  <2> QED
    <3>1. Len(<<c>>) >= 1
      BY <2>1
    <3> QED
      BY <2>1, <2>2, <2>3, <3>1, NoTagInside
<1> QED
  BY <1>1, <1>6, <1>7 DEF printing

Printing(m, value) ==
  IF "entities" \in Modes[m].needs THEN PrintString(value, m = "text") ELSE value

\* Neither does what is printed for a comment or CDATA: it is as it was read.
LEMMA PrintingEndsThere ==
  ASSUME mode \in DOMAIN Modes, Value \in Seq(Chars), Converted, Len(Value) <= q - 1,
         \A i \in 1 .. Len(Value) : Value[i] = mem[i]
  PROVE  Printing(mode, Value) \in Seq(Chars) /\ ~HasInside(Printing(mode, Value), Tag)
<1> DEFINE value == Value
<1>1. CASE "entities" \in Needs
  <2>1. mode \in {"text", "attribute"}
    BY <1>1, TagFacts DEF Needs
  <2>2. /\ PrintString(Value, mode = "text") \in Seq(Chars)
        /\ ~HasInside(PrintString(Value, mode = "text"), Tag)
    BY <2>1, PrintedKeepsInside DEF Tag
  <2> QED
    BY <1>1, <2>2 DEF Printing, Needs
<1>2. CASE "entities" \notin Needs
  <2>1. NoTag(mem, q - 1, Tag)
    BY <1>2 DEF Converted
  <2>2. Tag \in Seq(Bytes) /\ Len(Tag) >= 1 /\ q - 1 \in Int
    BY ModeFacts DEF Converted
  <2>3. value \in Seq(Bytes) /\ Len(value) \in Int
    <3>1. Chars \subseteq Bytes
      BY DEF Chars, Bytes
    <3> QED
      BY <3>1, SeqMonotonic
  <2>4. Len(value) <= q - 1 /\ \A i \in 1 .. Len(value) : mem[i] = value[i]
    OBVIOUS
  <2> HIDE DEF value
  <2>5. NoTag(value, Len(value), Tag)
    BY <2>1, <2>2, <2>3, <2>4, NoTagAlike
  <2>6. ~HasInside(value, Tag)
    BY <2>2, <2>3, <2>5, NoTagInside
  <2> QED
    BY <1>2, <2>6 DEF Printing, Needs, value
<1> QED
  BY <1>1, <1>2

LEMMA PushTextStep ==
  ASSUME TextInv, PushText
  PROVE  TextInv'
<1>1. mode \in DOMAIN Modes /\ Converted
  <2>1. "flush" \in Needs \cup {"flush"}
    OBVIOUS
  <2> QED
    BY <2>1 DEF TextInv, Unparsed, Marked, Converting, Converted, PushText, Known
<1>2. Printing(mode, Value) \in Seq(Chars) /\ ~HasInside(Printing(mode, Value), Tag)
  BY <1>1, ValueKnown, PrintingEndsThere
<1>3. /\ mode' = mode /\ Tag' = Tag /\ at' = "unparsed" /\ pair' = NoPair
      /\ mem' = Buffer(Printing(mode, Value), mode)
  BY DEF PushText, Tag, Printing
<1>4. Unparsed'
  BY <1>2, <1>3 DEF Unparsed
<1> QED
  BY <1>1, <1>3, <1>4 DEF TextInv

-----------------------------------------------------------------------------
(***************************************************************************)
(* A printed value.  Every character of it is a piece of its own, and the  *)
(* reader is always between two of them: it reads one piece and writes the *)
(* one character it stands for.                                            *)
(***************************************************************************)
Piece(m, c) ==
  IF "entities" \in Modes[m].needs /\ c \in Escaped(m = "text")
  THEN LET e == CHOOSE e \in Entities : e.value = c
       IN <<Ampersand>> \o e.pattern \o <<Semicolon>>
  ELSE <<c>>

Pieces(m, value) == [i \in DOMAIN value |-> Piece(m, value[i])]

\* The five names differ in their first two letters.
LEMMA EntityAlone ==
  ASSUME NEW e \in Entities, NEW other \in Entities,
         e.pattern[1] = other.pattern[1], e.pattern[2] = other.pattern[2]
  PROVE  e = other
<1>1. \A en \in Entities :
        \/ en.pattern[1] = 113 /\ en = [pattern |-> <<113, 117, 111, 116>>, value |-> Quote]
        \/ /\ en.pattern[1] = 97 /\ en.pattern[2] = 109
           /\ en = [pattern |-> <<97, 109, 112>>, value |-> Ampersand]
        \/ /\ en.pattern[1] = 97 /\ en.pattern[2] = 112
           /\ en = [pattern |-> <<97, 112, 111, 115>>, value |-> Apostrophe]
        \/ en.pattern[1] = 108 /\ en = [pattern |-> <<108, 116>>, value |-> Less]
        \/ en.pattern[1] = 103 /\ en = [pattern |-> <<103, 116>>, value |-> Greater]
  <2>1. <<113, 117, 111, 116>>[1] = 113 /\ <<108, 116>>[1] = 108 /\ <<103, 116>>[1] = 103
    OBVIOUS
  <2>2. <<97, 109, 112>>[1] = 97 /\ <<97, 109, 112>>[2] = 109
    OBVIOUS
  <2>3. <<97, 112, 111, 115>>[1] = 97 /\ <<97, 112, 111, 115>>[2] = 112
    OBVIOUS
  <2> QED
    BY <2>1, <2>2, <2>3 DEF Entities
<1> QED
  BY <1>1

\* A piece is the character itself, or the entity that stands for it.
LEMMA PieceFacts ==
  ASSUME NEW m \in DOMAIN Modes, NEW c \in Chars
  PROVE  /\ Piece(m, c) \in Seq(Chars) /\ Len(Piece(m, c)) >= 1
         /\ c # CR => Piece(m, c)[1] # CR
         /\ \/ /\ Piece(m, c) = <<c>> /\ Len(Piece(m, c)) = 1 /\ Piece(m, c)[1] = c
               /\ "entities" \in Modes[m].needs => c # Ampersand
            \/ /\ "entities" \in Modes[m].needs /\ Piece(m, c)[1] = Ampersand
               /\ \E e \in Entities :
                    /\ e.value = c /\ Len(Piece(m, c)) = Len(e.pattern) + 2
                    /\ \A j \in 1 .. Len(e.pattern) : Piece(m, c)[j + 1] = e.pattern[j]
                    /\ Piece(m, c)[Len(e.pattern) + 2] = Semicolon
<1>1. CASE "entities" \in Modes[m].needs /\ c \in Escaped(m = "text")
  <2> DEFINE e == CHOOSE e \in Entities : e.value = c
             piece == <<Ampersand>> \o e.pattern \o <<Semicolon>>
             d == Len(e.pattern)
  <2>1. e \in Entities /\ e.value = c
    <3>1. c \in {Ampersand, Less, Greater, Quote, Apostrophe}
      BY <1>1 DEF Escaped
    <3> QED
      BY <3>1, EntityOf
  <2>2. Piece(m, c) = piece
    BY <1>1 DEF Piece
  <2> HIDE DEF e
  <2>3. e.pattern \in Seq(Chars) /\ d \in 2 .. 4
    <3>1. e.pattern \in Seq(97 .. 122) /\ d \in 2 .. 4
      BY <2>1, EntityFacts
    <3>2. 97 .. 122 \subseteq Chars
      BY DEF Chars
    <3> QED
      BY <3>1, <3>2, SeqMonotonic
  <2>4. /\ <<Ampersand>> \in Seq(Chars) /\ Len(<<Ampersand>>) = 1 /\ <<Ampersand>>[1] = Ampersand
        /\ <<Semicolon>> \in Seq(Chars) /\ Len(<<Semicolon>>) = 1 /\ <<Semicolon>>[1] = Semicolon
    BY DEF Chars, Ampersand, Semicolon
  <2> DEFINE front == <<Ampersand>> \o e.pattern
  <2>5. /\ front \in Seq(Chars) /\ Len(front) = 1 + d
        /\ \A j \in 1 .. 1 + d : front[j] = IF j <= 1 THEN <<Ampersand>>[j] ELSE e.pattern[j - 1]
    BY <2>3, <2>4, ConcatProperties
  <2> HIDE DEF front, d
  <2>6. /\ front \o <<Semicolon>> \in Seq(Chars) /\ Len(front \o <<Semicolon>>) = d + 2
        /\ \A j \in 1 .. d + 2 :
             (front \o <<Semicolon>>)[j]
               = IF j <= 1 + d THEN front[j] ELSE <<Semicolon>>[j - (1 + d)]
    <3>1. /\ front \o <<Semicolon>> \in Seq(Chars)
          /\ Len(front \o <<Semicolon>>) = Len(front) + Len(<<Semicolon>>)
          /\ \A j \in 1 .. Len(front) + Len(<<Semicolon>>) :
               (front \o <<Semicolon>>)[j]
                 = IF j <= Len(front) THEN front[j] ELSE <<Semicolon>>[j - Len(front)]
      BY <2>4, <2>5, ConcatProperties
    <3>2. Len(front) = 1 + d /\ Len(front) + Len(<<Semicolon>>) = d + 2
      BY <2>3, <2>4, <2>5
    <3> QED
      BY <3>1, <3>2
  <2>7. piece = front \o <<Semicolon>>
    BY DEF front
  <2> HIDE DEF piece
  <2>8. piece[1] = Ampersand
    <3>1. 1 \in 1 .. d + 2 /\ 1 \in 1 .. 1 + d /\ 1 <= 1 + d
      BY <2>3
    <3> QED
      BY <2>4, <2>5, <2>6, <2>7, <3>1
  <2>9. \A j \in 1 .. d : piece[j + 1] = e.pattern[j]
    <3> TAKE j \in 1 .. d
    <3>1. /\ j + 1 \in 1 .. d + 2 /\ j + 1 \in 1 .. 1 + d /\ j + 1 <= 1 + d
          /\ ~ (j + 1 <= 1) /\ j + 1 - 1 = j
      BY <2>3
    <3> QED
      BY <2>5, <2>6, <2>7, <3>1
  <2>10. piece[d + 2] = Semicolon
    <3>1. d + 2 \in 1 .. d + 2 /\ ~ (d + 2 <= 1 + d) /\ d + 2 - (1 + d) = 1
      BY <2>3
    <3> QED
      BY <2>4, <2>6, <2>7, <3>1
  <2>11. Len(piece) = d + 2 /\ Len(piece) >= 1 /\ piece \in Seq(Chars) /\ Ampersand # CR
    <3>1. d + 2 >= 1 /\ Ampersand # CR
      BY <2>3 DEF Ampersand, CR
    <3> QED
      BY <2>6, <2>7, <3>1
  <2> QED
    BY <1>1, <2>1, <2>2, <2>8, <2>9, <2>10, <2>11 DEF d
<1>2. CASE ~ ("entities" \in Modes[m].needs /\ c \in Escaped(m = "text"))
  <2>1. Piece(m, c) = <<c>>
    BY <1>2 DEF Piece
  <2>2. "entities" \in Modes[m].needs => c # Ampersand
    BY <1>2 DEF Escaped
  <2>3. <<c>> \in Seq(Chars) /\ Len(<<c>>) = 1 /\ <<c>>[1] = c
    OBVIOUS
  <2> QED
    BY <2>1, <2>2, <2>3
<1> QED
  BY <1>1, <1>2

LEMMA PrintingLaid ==
  ASSUME NEW m \in DOMAIN Modes, NEW value \in Seq(Chars)
  PROVE  \E offset : Laid(Printing(m, value), Pieces(m, value), offset)
<1> DEFINE n == Len(value)
           pieces == Pieces(m, value)
<1>1. /\ n \in Nat /\ DOMAIN value = 1 .. n
      /\ \A i \in 1 .. n : value[i] \in Chars /\ pieces[i] = Piece(m, value[i])
  BY DEF Pieces
<1>2. pieces \in Seq(Seq(Chars)) /\ Len(pieces) = n
  <2>1. \A i \in 1 .. n : Piece(m, value[i]) \in Seq(Chars)
    BY <1>1, PieceFacts
  <2>2. pieces = [i \in 1 .. n |-> Piece(m, value[i])]
    BY <1>1 DEF Pieces
  <2> HIDE DEF n, pieces
  <2> QED
    BY <1>1, <2>1, <2>2
<1>3. CASE "entities" \in Modes[m].needs
  <2>1. Printing(m, value) = FlattenSeq(pieces)
    BY <1>3 DEF Printing, PrintString, Pieces, Piece
  <2> HIDE DEF pieces
  <2> QED
    BY <1>2, <2>1, FlattenLaid DEF pieces
<1>4. CASE "entities" \notin Modes[m].needs
  <2> DEFINE offset == [k \in 0 .. n |-> k]
  <2>1. \A i \in 1 .. n : pieces[i] = <<value[i]>>
    BY <1>1, <1>4 DEF Piece
  <2>2. \A i \in 1 .. n : Len(pieces[i]) = 1 /\ pieces[i][1] = value[i]
    <3> TAKE i \in 1 .. n
    <3>1. pieces[i] = <<value[i]>>
      BY <2>1
    <3> HIDE DEF pieces
    <3> QED
      BY <3>1
  <2> HIDE DEF pieces, n
  <2>3. offset[0] = 0 /\ offset[n] = n /\ \A k \in 0 .. n : offset[k] \in Nat /\ offset[k] <= n
    BY <1>1
  <2>4. \A k \in 1 .. n : offset[k] = k /\ offset[k - 1] = k - 1 /\ (k - 1) + 1 = k
    BY <1>1
  <2> HIDE DEF offset
  <2>5. \A k \in 1 .. n : offset[k] = offset[k - 1] + Len(pieces[k])
    BY <2>2, <2>4
  <2>6. \A k \in 1 .. n : \A j \in 1 .. Len(pieces[k]) :
          value[offset[k - 1] + j] = pieces[k][j]
    <3> TAKE k \in 1 .. n
    <3> TAKE j \in 1 .. Len(pieces[k])
    <3>1. Len(pieces[k]) = 1
      BY <2>2
    <3>2. j = 1
      BY <3>1
    <3> QED
      BY <2>2, <2>4, <3>2
  <2>7. Printing(m, value) = value /\ Len(value) = n
    BY <1>4 DEF Printing, n
  <2>8. Laid(value, pieces, offset)
    BY <1>2, <2>3, <2>5, <2>6, <2>7 DEF Laid
  <2> QED
    BY <2>7, <2>8 DEF pieces
<1> QED
  BY <1>3, <1>4

(***************************************************************************)
(* Where a printed value is: chars was printed for meant, and offset says  *)
(* where each of its pieces ends.                                          *)
(***************************************************************************)
Prints(chars, offset) == chars \in Seq(Chars) /\ Laid(chars, Pieces(mode, meant), offset)

ToParse(chars) == at = "unparsed" /\ mem = Buffer(chars, mode) /\ ~HasInside(chars, Tag)

ToConvert(chars) ==
  /\ at = "caller" /\ "flush" \in pair.flags /\ pair.end = Len(chars) + 1
  /\ \A i \in 1 .. Len(chars) : mem[i] = chars[i]

ReadUpTo(k, chars, offset) ==
  /\ at = "converting" /\ pair.end = Len(chars) + 1
  /\ k \in 0 .. Len(meant) /\ q = k + 1 /\ p = offset[k] + 1
  /\ \A i \in 1 .. k : mem[i] = meant[i]
  /\ \A i \in p .. Len(chars) : mem[i] = chars[i]

ReadBack ==
  /\ at = "caller" /\ pair.flags = {} /\ q = Len(meant) + 1
  /\ \A i \in 1 .. Len(meant) : mem[i] = meant[i]

RoundTrip ==
  /\ meant \in Seq(Chars) /\ \A i \in 1 .. Len(meant) : meant[i] # CR
  /\ \/ \E chars, offset :
          /\ Prints(chars, offset)
          /\ ToParse(chars) \/ ToConvert(chars) \/ \E k : ReadUpTo(k, chars, offset)
     \/ ReadBack

RoundTripInv == printed /\ sound => RoundTrip

\* The pieces of a value are those of its characters.
LEMMA PiecesOf ==
  ASSUME mode \in DOMAIN Modes, meant \in Seq(Chars), NEW chars, NEW offset, Prints(chars, offset)
  PROVE  /\ Len(meant) \in Nat /\ Len(chars) \in Nat /\ chars \in Seq(Chars)
         /\ offset[0] = 0 /\ Len(chars) = offset[Len(meant)]
         /\ \A k \in 0 .. Len(meant) : offset[k] \in Nat /\ offset[k] <= Len(chars)
         /\ \A k \in 1 .. Len(meant) :
              /\ offset[k] = offset[k - 1] + Len(Piece(mode, meant[k]))
              /\ \A j \in 1 .. Len(Piece(mode, meant[k])) :
                   chars[offset[k - 1] + j] = Piece(mode, meant[k])[j]
<1> DEFINE n == Len(meant)
           pieces == Pieces(mode, meant)
<1>1. n \in Nat /\ DOMAIN meant = 1 .. n /\ chars \in Seq(Chars)
  BY DEF Prints
<1>2. pieces = [i \in 1 .. n |-> Piece(mode, meant[i])]
  BY <1>1 DEF Pieces
<1> HIDE DEF n
<1>3. Len(pieces) = n /\ \A k \in 1 .. n : pieces[k] = Piece(mode, meant[k])
  BY <1>1, <1>2
<1> HIDE DEF pieces
<1>4. Laid(chars, pieces, offset)
  BY DEF Prints, pieces
<1> QED
  BY <1>1, <1>3, <1>4 DEF Laid, n

\* The reader is where the piece of the next character begins.
LEMMA AtPiece ==
  ASSUME TextInv, Converting, meant \in Seq(Chars), \A i \in 1 .. Len(meant) : meant[i] # CR,
         NEW chars, NEW offset, Prints(chars, offset), NEW k, ReadUpTo(k, chars, offset),
         p < pair.end
  PROVE  /\ k + 1 \in 1 .. Len(meant) /\ meant[k + 1] \in Chars /\ meant[k + 1] # CR
         /\ Len(Piece(mode, meant[k + 1])) \in 1 .. pair.end - p
         /\ offset[k + 1] = offset[k] + Len(Piece(mode, meant[k + 1]))
         /\ \A j \in 1 .. Len(Piece(mode, meant[k + 1])) :
              mem[p + j - 1] = Piece(mode, meant[k + 1])[j]
         /\ mem[p + Len(Piece(mode, meant[k + 1]))] # CR
<1> DEFINE n == Len(meant)
           end == pair.end
           width(i) == Len(Piece(mode, meant[i]))
<1>1. /\ n \in Nat /\ Len(chars) \in Nat /\ offset[0] = 0 /\ Len(chars) = offset[n]
      /\ \A i \in 0 .. n : offset[i] \in Nat /\ offset[i] <= Len(chars)
      /\ \A i \in 1 .. n :
           /\ offset[i] = offset[i - 1] + width(i)
           /\ \A j \in 1 .. width(i) : chars[offset[i - 1] + j] = Piece(mode, meant[i])[j]
  <2>1. mode \in DOMAIN Modes
    BY DEF TextInv
  <2>2. /\ Len(meant) \in Nat /\ Len(chars) \in Nat /\ chars \in Seq(Chars)
        /\ offset[0] = 0 /\ Len(chars) = offset[Len(meant)]
        /\ \A i \in 0 .. Len(meant) : offset[i] \in Nat /\ offset[i] <= Len(chars)
        /\ \A i \in 1 .. Len(meant) :
             /\ offset[i] = offset[i - 1] + Len(Piece(mode, meant[i]))
             /\ \A j \in 1 .. Len(Piece(mode, meant[i])) :
                  chars[offset[i - 1] + j] = Piece(mode, meant[i])[j]
    BY <2>1, PiecesOf
  <2> QED
    BY <2>2
<1>2. \A i \in 1 .. n : /\ meant[i] \in Chars /\ meant[i] # CR
                        /\ width(i) \in Nat /\ width(i) >= 1 /\ Piece(mode, meant[i])[1] # CR
  <2> TAKE i \in 1 .. n
  <2>1. meant[i] \in Chars /\ meant[i] # CR /\ mode \in DOMAIN Modes
    BY DEF TextInv
  <2>2. Piece(mode, meant[i]) \in Seq(Chars) /\ width(i) >= 1 /\ Piece(mode, meant[i])[1] # CR
    BY <2>1, PieceFacts
  <2> QED
    BY <2>1, <2>2
<1>3. /\ k \in 0 .. n /\ end = Len(chars) + 1 /\ p = offset[k] + 1 /\ p < end
      /\ \A i \in p .. Len(chars) : mem[i] = chars[i]
      /\ mem[end] = 0
  BY DEF ReadUpTo, Converting, Unread
<1> HIDE DEF n, end
<1>4. k + 1 \in 1 .. n /\ k + 1 \in 0 .. n /\ k + 1 - 1 = k
  <2>1. offset[k] # offset[n]
    <3>1. offset[k] \in Nat
      BY <1>1, <1>3
    <3> QED
      BY <1>1, <1>3, <3>1
  <2>2. k # n
    BY <2>1
  <2> QED
    BY <1>1, <1>3, <2>2
<1> DEFINE w == width(k + 1)
           from == offset[k]
           to == offset[k + 1]
<1>5. /\ w \in Nat /\ w >= 1 /\ from \in Nat /\ to \in Nat /\ to <= Len(chars) /\ to = from + w
      /\ \A j \in 1 .. w : chars[from + j] = Piece(mode, meant[k + 1])[j]
  BY <1>1, <1>2, <1>3, <1>4
<1>6. meant[k + 1] \in Chars /\ meant[k + 1] # CR
  BY <1>2, <1>4
<1>7. p = from + 1
  BY <1>3
<1> HIDE DEF width, w, from, to
<1>8. w \in 1 .. end - p
  BY <1>1, <1>3, <1>5, <1>7
<1>9. \A j \in 1 .. w : mem[p + j - 1] = Piece(mode, meant[k + 1])[j]
  <2> TAKE j \in 1 .. w
  <2>0. j \in Nat /\ j >= 1 /\ j <= w
    BY <1>5
  <2>1. p + j - 1 = from + j /\ from + j \in p .. Len(chars)
    <3>1. /\ from \in Nat /\ to \in Nat /\ w \in Nat /\ Len(chars) \in Nat
          /\ to <= Len(chars) /\ to = from + w /\ p = from + 1
      BY <1>1, <1>5, <1>7
    <3> QED
      BY <2>0, <3>1
  <2>2. mem[from + j] = chars[from + j]
    BY <1>3, <2>1
  <2> QED
    BY <1>5, <2>1, <2>2
<1>10. mem[p + w] # CR
  <2>1. p + w = to + 1
    BY <1>5, <1>7
  <2>2. CASE k + 1 = n
    <3>1. to = Len(chars)
      BY <1>1, <2>2 DEF to
    <3>2. p + w = end
      BY <1>3, <2>1, <3>1
    <3> QED
      BY <1>3, <3>2 DEF CR
  <2>3. CASE k + 1 # n
    <3>1. k + 2 \in 1 .. n /\ k + 2 \in 0 .. n /\ k + 2 - 1 = k + 1 /\ k \in Nat
      BY <1>1, <1>3, <1>4, <2>3
    <3>2. /\ offset[k + 2] = to + width(k + 2) /\ offset[k + 2] <= Len(chars)
          /\ \A j \in 1 .. width(k + 2) : chars[to + j] = Piece(mode, meant[k + 2])[j]
      BY <1>1, <3>1 DEF to
    <3>3. /\ width(k + 2) \in Nat /\ width(k + 2) >= 1 /\ Piece(mode, meant[k + 2])[1] # CR
      BY <1>2, <3>1
    <3>4. 1 \in 1 .. width(k + 2) /\ to + 1 \in p .. Len(chars)
      BY <1>1, <1>5, <1>7, <3>2, <3>3
    <3>5. mem[to + 1] = chars[to + 1] /\ chars[to + 1] = Piece(mode, meant[k + 2])[1]
      BY <1>3, <3>2, <3>4
    <3> QED
      BY <2>1, <3>3, <3>5
  <2> QED
    BY <2>2, <2>3
<1> QED
  BY <1>4, <1>5, <1>6, <1>8, <1>9, <1>10 DEF w, width, from, to, n, end

\* A piece is read, and the character it stands for is written.
LEMMA ReadPiece ==
  ASSUME TextInv, Converting, meant \in Seq(Chars), \A i \in 1 .. Len(meant) : meant[i] # CR,
         NEW chars, NEW offset, Prints(chars, offset), NEW k, ReadUpTo(k, chars, offset),
         p < pair.end, Convert(Len(Piece(mode, meant[k + 1])), <<meant[k + 1]>>)
  PROVE  RoundTrip'
<1> DEFINE c == meant[k + 1]
           w == Len(Piece(mode, c))
           end == pair.end
           bytes == <<c>>
<1>1. /\ k + 1 \in 1 .. Len(meant) /\ c \in Chars /\ w \in 1 .. end - p
      /\ offset[k + 1] = offset[k] + w
  BY AtPiece
<1>2. mode \in DOMAIN Modes /\ bytes \in Seq(Bytes) /\ Len(bytes) = 1 /\ bytes[1] = c
  <2>1. c \in Bytes
    BY <1>1 DEF Chars, Bytes
  <2> QED
    BY <2>1 DEF TextInv
<1>3. Len(bytes) <= w
  BY <1>1, <1>2
<1>4. Convert(w, bytes)
  OBVIOUS
<1> HIDE DEF bytes, w
<1>5. /\ at' = "converting"
      /\ \A i \in 1 .. q - 1 : mem'[i] = mem[i]
      /\ \A i \in 1 .. Len(bytes) : mem'[q + i - 1] = bytes[i]
      /\ \A i \in p + w .. end - 1 : mem'[i] = mem[i]
  BY <1>1, <1>2, <1>3, <1>4, ConvertKeeps
<1>6. p' = p + w /\ q' = q + 1 /\ pair' = pair /\ meant' = meant /\ mode' = mode
  BY <1>2, <1>4 DEF Convert
<1>7. /\ end = Len(chars) + 1 /\ k \in 0 .. Len(meant) /\ q = k + 1 /\ p = offset[k] + 1
      /\ \A i \in 1 .. k : mem[i] = meant[i]
      /\ \A i \in p .. Len(chars) : mem[i] = chars[i]
  BY DEF ReadUpTo
<1>8. p \in Nat /\ q \in Nat /\ Len(chars) \in Nat /\ offset[k] \in Nat /\ w \in Nat
  <2>1. p \in Nat /\ q \in Nat
    BY DEF Converting, Unread
  <2>2. Len(chars) \in Nat
    BY DEF Prints
  <2>3. offset[k] \in Nat
    BY <1>7, PiecesOf DEF TextInv
  <2>4. w \in Nat
    BY <1>1
  <2> QED
    BY <2>1, <2>2, <2>3, <2>4
<1> HIDE DEF end
<1>9. \A i \in 1 .. k + 1 : mem'[i] = meant[i]
  <2> TAKE i \in 1 .. k + 1
  <2>1. CASE i = k + 1
    <3>1. 1 \in 1 .. Len(bytes) /\ q + 1 - 1 = i
      BY <1>2, <1>7, <1>8, <2>1
    <3>2. mem'[q + 1 - 1] = c
      BY <1>2, <1>5, <3>1
    <3> QED
      BY <2>1, <3>1, <3>2
  <2>2. CASE i # k + 1
    <3>1. i \in 1 .. k /\ i \in 1 .. q - 1
      BY <1>7, <2>2
    <3> QED
      BY <1>5, <1>7, <3>1
  <2> QED
    BY <2>1, <2>2
<1>10. \A i \in p' .. Len(chars) : mem'[i] = chars[i]
  <2> TAKE i \in p' .. Len(chars)
  <2>1. i \in p + w .. Len(chars)
    BY <1>6
  <2>2. end - 1 = Len(chars)
    BY <1>7, <1>8
  <2>3. i \in p + w .. end - 1 /\ i \in p .. Len(chars)
    BY <1>8, <2>1, <2>2
  <2> QED
    BY <1>5, <1>7, <2>3
<1>11. /\ pair'.end = Len(chars) + 1 /\ k + 1 \in 0 .. Len(meant)
       /\ q' = (k + 1) + 1 /\ p' = offset[k + 1] + 1
  <2>1. pair'.end = Len(chars) + 1
    BY <1>6, <1>7 DEF end
  <2>2. k + 1 \in 0 .. Len(meant) /\ q' = (k + 1) + 1
    BY <1>1, <1>6, <1>7
  <2>3. p' = offset[k + 1] + 1
    <3>1. p' = (offset[k] + 1) + w /\ offset[k + 1] = offset[k] + w
      BY <1>1, <1>6, <1>7
    <3> HIDE DEF c
    <3> QED
      BY <1>8, <3>1
  <2> QED
    BY <2>1, <2>2, <2>3
<1>12. ReadUpTo(k + 1, chars, offset)'
  BY <1>5, <1>6, <1>9, <1>10, <1>11 DEF ReadUpTo
<1>13. Prints(chars, offset)'
  BY <1>6 DEF Prints
<1>14. meant' \in Seq(Chars) /\ \A i \in 1 .. Len(meant') : meant'[i] # CR
  BY <1>6
<1> QED
  BY <1>12, <1>13, <1>14 DEF RoundTrip

\* Whatever the reader does with a printed value reads a piece of it.
LEMMA ReadingStep ==
  ASSUME TextInv, RoundTrip,
         \/ CopyCharacter \/ NormalizeNewLine
         \/ ConvertEntity \/ PassUnknownEntity \/ ConvertCharacterRef
  PROVE  RoundTrip'
<1>1. Reading
  BY DEF CopyCharacter, NormalizeNewLine, ConvertEntity, PassUnknownEntity, ConvertCharacterRef
<1>2. mode \in DOMAIN Modes /\ Converting /\ p < pair.end
  BY <1>1 DEF Reading, TextInv, Unparsed, Marked, Converted
<1>3. PICK chars, offset, k : Prints(chars, offset) /\ ReadUpTo(k, chars, offset)
  BY <1>1 DEF Reading, RoundTrip, ToParse, ToConvert, ReadBack
<1>4. meant \in Seq(Chars) /\ \A i \in 1 .. Len(meant) : meant[i] # CR
  BY DEF RoundTrip
<1> DEFINE c == meant[k + 1]
           piece == Piece(mode, c)
           end == pair.end
<1>5. /\ c \in Chars /\ c # CR /\ Len(piece) \in 1 .. end - p
      /\ \A j \in 1 .. Len(piece) : mem[p + j - 1] = piece[j]
      /\ mem[p + Len(piece)] # CR
  BY <1>2, <1>3, <1>4, AtPiece
<1>6. ASSUME Convert(Len(piece), <<c>>) PROVE RoundTrip'
  BY <1>2, <1>3, <1>4, <1>6, ReadPiece
<1>7. /\ p \in Nat \ {0} /\ mem \in Seq(Bytes) /\ end \in Nat /\ Len(mem) \in Nat /\ end <= Len(mem)
      /\ pair.flags = Needs
  <2>1. mem \in Seq(Bytes) /\ p \in 1 .. end /\ end \in 1 .. Len(mem) /\ pair.flags = Needs
    BY <1>2 DEF Converting, Unread
  <2>2. Len(mem) \in Nat
    BY <2>1
  <2> HIDE DEF end
  <2> QED
    BY <2>1, <2>2
<1>8. mem[p] = piece[1]
  <2>1. 1 \in 1 .. Len(piece) /\ p + 1 - 1 = p
    BY <1>5, <1>7
  <2> HIDE DEF piece
  <2> QED
    BY <1>5, <2>1
<1>9. CASE /\ piece = <<c>> /\ Len(piece) = 1 /\ piece[1] = c
           /\ "entities" \in Modes[mode].needs => c # Ampersand
  <2>1. mem[p] = c /\ ~AtAmpersand /\ mem[p + 1] # CR
    BY <1>5, <1>7, <1>8, <1>9 DEF AtAmpersand, Needs
  <2>2. CASE CopyCharacter
    BY <1>6, <1>9, <2>1, <2>2 DEF CopyCharacter
  <2>3. CASE NormalizeNewLine
    <3>1. c = LF
      BY <1>5, <2>1, <2>3 DEF NormalizeNewLine, AtNewLine
    <3>2. LineEnd(mem[p], mem[p + 1]) = 1
      <4>1. CR \notin {mem[p], mem[p + 1]}
        BY <1>5, <2>1
      <4> QED
        BY <4>1 DEF LineEnd
    <3> QED
      BY <1>6, <1>9, <2>3, <3>1, <3>2 DEF NormalizeNewLine
  <2> QED
    BY <2>1, <2>2, <2>3 DEF ConvertEntity, PassUnknownEntity, ConvertCharacterRef
<1>10. CASE /\ "entities" \in Modes[mode].needs /\ piece[1] = Ampersand
            /\ \E e \in Entities :
                 /\ e.value = c /\ Len(piece) = Len(e.pattern) + 2
                 /\ \A j \in 1 .. Len(e.pattern) : piece[j + 1] = e.pattern[j]
                 /\ piece[Len(e.pattern) + 2] = Semicolon
  <2>1. PICK e \in Entities :
          /\ e.value = c /\ Len(piece) = Len(e.pattern) + 2
          /\ \A j \in 1 .. Len(e.pattern) : piece[j + 1] = e.pattern[j]
          /\ piece[Len(e.pattern) + 2] = Semicolon
    BY <1>10
  <2> HIDE DEF piece, c
  <2>2. AtAmpersand /\ ~AtNewLine
    BY <1>7, <1>8, <1>10 DEF AtAmpersand, AtNewLine, Needs, Ampersand, CR, LF
  <2>3. \A en \in Entities : /\ en.pattern \in Seq(97 .. 122) /\ Len(en.pattern) \in 2 .. 4
                             /\ en.pattern[1] \in 97 .. 122
    <3> TAKE en \in Entities
    <3> DEFINE pattern == en.pattern
    <3>1. pattern \in Seq(97 .. 122) /\ Len(pattern) \in 2 .. 4
      BY EntityFacts
    <3> HIDE DEF pattern
    <3> DEFINE l == Len(pattern)
    <3>2. 1 \in 1 .. l
      <4>1. l \in 2 .. 4
        BY <3>1
      <4> HIDE DEF l
      <4> QED
        BY <4>1
    <3>3. pattern[1] \in 97 .. 122
      <4>1. ASSUME NEW S, NEW s \in Seq(S), NEW i \in 1 .. Len(s) PROVE s[i] \in S
        OBVIOUS
      <4> QED
        BY <3>1, <3>2, <4>1
    <3> QED
      BY <3>1, <3>3 DEF pattern
  <2>4. \A en \in Entities :
          LET rest == en.pattern \o <<Semicolon>>
          IN  /\ rest \in Seq(Bytes) /\ Len(rest) = Len(en.pattern) + 1
              /\ \A j \in 1 .. Len(en.pattern) : rest[j] = en.pattern[j]
              /\ rest[Len(en.pattern) + 1] = Semicolon
    <3> TAKE en \in Entities
    <3> DEFINE pattern == en.pattern
    <3>1. pattern \in Seq(Bytes) /\ Len(pattern) \in Nat
      <4>1. 97 .. 122 \subseteq Bytes
        BY DEF Bytes
      <4>2. pattern \in Seq(97 .. 122) /\ Len(pattern) \in Nat
        BY <2>3
      <4> HIDE DEF pattern
      <4> QED
        BY <4>1, <4>2, SeqMonotonic
    <3>2. <<Semicolon>> \in Seq(Bytes) /\ Len(<<Semicolon>>) = 1 /\ <<Semicolon>>[1] = Semicolon
      BY DEF Bytes, Semicolon
    <3> HIDE DEF pattern
    <3>3. /\ pattern \o <<Semicolon>> \in Seq(Bytes)
          /\ Len(pattern \o <<Semicolon>>) = Len(pattern) + 1
          /\ \A j \in 1 .. Len(pattern) + 1 :
               (pattern \o <<Semicolon>>)[j]
                 = IF j <= Len(pattern) THEN pattern[j] ELSE <<Semicolon>>[j - Len(pattern)]
      BY <3>1, <3>2, ConcatProperties
    <3>4. \A j \in 1 .. Len(pattern) : (pattern \o <<Semicolon>>)[j] = pattern[j]
      <4> TAKE j \in 1 .. Len(pattern)
      <4>1. j \in 1 .. Len(pattern) + 1 /\ j <= Len(pattern)
        BY <3>1
      <4> QED
        BY <3>3, <4>1
    <3>5. (pattern \o <<Semicolon>>)[Len(pattern) + 1] = Semicolon
      <4>1. /\ Len(pattern) + 1 \in 1 .. Len(pattern) + 1 /\ ~ (Len(pattern) + 1 <= Len(pattern))
            /\ Len(pattern) + 1 - Len(pattern) = 1
        BY <3>1
      <4> QED
        BY <3>2, <3>3, <4>1
    <3> QED
      BY <3>3, <3>4, <3>5 DEF pattern
  <2> DEFINE d == Len(e.pattern)
  <2>5. d \in 2 .. 4 /\ p + d + 1 < end
    BY <1>5, <1>7, <2>1, <2>3
  <2>6. /\ \A j \in 1 .. d : mem[p + j] = e.pattern[j]
        /\ mem[p + d + 1] = Semicolon
    <3>1. ASSUME NEW j \in 1 .. d + 1
          PROVE  mem[p + j] = piece[j + 1]
      <4>1. j + 1 \in 1 .. Len(piece) /\ p + (j + 1) - 1 = p + j
        BY <1>7, <2>1, <2>5
      <4> QED
        BY <1>5, <4>1
    <3>2. \A j \in 1 .. d : j \in 1 .. d + 1
      BY <2>5
    <3>3. d + 1 \in 1 .. d + 1 /\ d + 1 + 1 = d + 2 /\ p + (d + 1) = p + d + 1
      BY <1>7, <2>5
    <3> QED
      BY <2>1, <3>1, <3>2, <3>3
  <2>7. mem[p + 1] = e.pattern[1] /\ mem[p + 2] = e.pattern[2]
    BY <2>5, <2>6
  <2>8. mem[p + 1] # Hash
    <3>1. e.pattern[1] \in 97 .. 122 /\ Hash \notin 97 .. 122
      BY <2>3 DEF Hash
    <3> QED
      BY <2>7, <3>1
  <2>9. \A en \in Named : en = e
    <3> TAKE en \in Named
    <3> DEFINE rest == en.pattern \o <<Semicolon>>
    <3>1. en \in Entities /\ Follows(p + 1, rest)
      BY DEF Named
    <3>2. /\ rest \in Seq(Bytes) /\ Len(en.pattern) \in 2 .. 4 /\ Len(rest) = Len(en.pattern) + 1
          /\ \A j \in 1 .. Len(en.pattern) : rest[j] = en.pattern[j]
      BY <2>3, <2>4, <3>1
    <3> HIDE DEF rest
    <3>3. p + 1 \in Nat \ {0}
      BY <1>7
    <3>4. \A j \in 1 .. Len(rest) : mem[p + 1 + j - 1] = rest[j]
      BY <1>7, <3>1, <3>2, <3>3, FollowsAt
    <3>5. /\ 1 \in 1 .. Len(rest) /\ 2 \in 1 .. Len(rest) /\ p + 1 + 1 - 1 = p + 1
          /\ p + 1 + 2 - 1 = p + 2 /\ 1 \in 1 .. Len(en.pattern) /\ 2 \in 1 .. Len(en.pattern)
      <4> DEFINE l == Len(en.pattern)
      <4>1. l \in 2 .. 4 /\ Len(rest) = l + 1
        BY <3>2
      <4> HIDE DEF l
      <4>2. 1 \in 1 .. Len(rest) /\ 2 \in 1 .. Len(rest) /\ 1 \in 1 .. l /\ 2 \in 1 .. l
        BY <4>1
      <4>3. p + 1 + 1 - 1 = p + 1 /\ p + 1 + 2 - 1 = p + 2
        BY <1>7
      <4> QED
        BY <4>2, <4>3 DEF l
    <3>6. mem[p + 1] = en.pattern[1] /\ mem[p + 2] = en.pattern[2]
      BY <3>2, <3>4, <3>5
    <3> QED
      BY <2>7, <3>1, <3>6, EntityAlone
  <2>10. e \in Named
    <3> DEFINE rest == e.pattern \o <<Semicolon>>
    <3>1. /\ rest \in Seq(Bytes) /\ Len(rest) = d + 1
          /\ \A j \in 1 .. d : rest[j] = e.pattern[j]
          /\ rest[d + 1] = Semicolon
      BY <2>4
    <3> HIDE DEF rest, d
    <3>2. p + 1 \in Nat \ {0} /\ p + 1 + Len(rest) - 1 <= Len(mem)
      BY <1>7, <2>5, <3>1
    <3>3. \A j \in 1 .. Len(rest) : mem[p + 1 + j - 1] = rest[j]
      <4> TAKE j \in 1 .. Len(rest)
      <4>1. p + 1 + j - 1 = p + j /\ j \in 1 .. d + 1
        BY <1>7, <2>5, <3>1
      <4>2. CASE j = d + 1
        <5>1. p + j = p + d + 1
          BY <1>7, <2>5, <4>2
        <5> QED
          BY <2>6, <3>1, <4>1, <4>2, <5>1
      <4>3. CASE j # d + 1
        <5>1. j \in 1 .. d
          BY <2>5, <4>1, <4>3
        <5> QED
          BY <2>6, <3>1, <4>1, <5>1
      <4> QED
        BY <4>2, <4>3
    <3>4. Follows(p + 1, rest)
      BY <1>7, <3>1, <3>2, <3>3, FollowsAt
    <3> QED
      BY <3>4 DEF Named, rest
  <2>11. CASE ConvertEntity
    <3>1. Convert(d + 2, <<e.value>>)
      BY <2>9, <2>11 DEF ConvertEntity
    <3> QED
      BY <1>6, <2>1, <3>1
  <2> QED
    BY <2>2, <2>8, <2>10, <2>11 DEF CopyCharacter, NormalizeNewLine, PassUnknownEntity,
                                    ConvertCharacterRef
<1>11. mode \in DOMAIN Modes /\ c \in Chars
  BY <1>2, <1>5
<1>12. \/ /\ piece = <<c>> /\ Len(piece) = 1 /\ piece[1] = c
          /\ "entities" \in Modes[mode].needs => c # Ampersand
       \/ /\ "entities" \in Modes[mode].needs /\ piece[1] = Ampersand
          /\ \E e \in Entities :
               /\ e.value = c /\ Len(piece) = Len(e.pattern) + 2
               /\ \A j \in 1 .. Len(e.pattern) : piece[j + 1] = e.pattern[j]
               /\ piece[Len(e.pattern) + 2] = Semicolon
  BY <1>11, PieceFacts
<1> HIDE DEF piece, c
<1> QED
  BY <1>9, <1>10, <1>12

\* So does everything else that is done with one.
LEMMA RoundTripStep ==
  ASSUME TextInv, RoundTripInv, Next
  PROVE  RoundTripInv'
<1>1. mode \in DOMAIN Modes /\ mode' = mode /\ Tag' = Tag
  BY DEF TextInv, Tag, Next, ParseText, Flush, CopyCharacter, NormalizeNewLine, ConvertEntity,
         PassUnknownEntity, ConvertCharacterRef, EndOfValue, PushText, Convert
<1>2. CASE PushText
  <2>1. Converted
    <3>1. "flush" \in Needs \cup {"flush"}
      OBVIOUS
    <3> QED
      BY <1>2, <3>1 DEF TextInv, Unparsed, Marked, Converting, PushText, Known
  <2>2. Value \in Seq(Chars)
    BY <2>1, ValueKnown
  <2>3. /\ at' = "unparsed" /\ meant' = Value /\ sound' = (CR \notin ToSet(Value))
        /\ mem' = Buffer(Printing(mode, Value), mode)
    BY <1>2 DEF PushText, Printing
  <2>4. Printing(mode, Value) \in Seq(Chars) /\ ~HasInside(Printing(mode, Value), Tag)
    BY <1>1, <2>1, <2>2, ValueKnown, PrintingEndsThere
  <2>5. PICK chars, offset :
          chars = Printing(mode, Value) /\ Laid(chars, Pieces(mode, Value), offset)
    BY <1>1, <2>2, PrintingLaid
  <2>6. Prints(chars, offset)'
    BY <1>1, <2>3, <2>4, <2>5 DEF Prints
  <2>7. ToParse(chars)'
    BY <1>1, <2>3, <2>4, <2>5 DEF ToParse
  <2>8. ASSUME sound'
        PROVE  meant' \in Seq(Chars) /\ \A i \in 1 .. Len(meant') : meant'[i] # CR
    <3>1. CR \notin {Value[i] : i \in DOMAIN Value}
      BY <2>3, <2>8 DEF ToSet
    <3>2. \A i \in 1 .. Len(Value) : Value[i] # CR
      BY <2>2, <3>1
    <3> QED
      BY <2>2, <2>3, <3>2
  <2> QED
    BY <2>6, <2>7, <2>8 DEF RoundTripInv, RoundTrip
<1>3. CASE ~PushText
  <2>1. printed' = printed /\ sound' = sound /\ meant' = meant
    BY <1>3 DEF Next, ParseText, Flush, CopyCharacter, NormalizeNewLine, ConvertEntity,
                PassUnknownEntity, ConvertCharacterRef, EndOfValue, Convert
  <2> SUFFICES ASSUME RoundTrip PROVE RoundTrip'
    BY <2>1 DEF RoundTripInv
  <2>2. meant \in Seq(Chars) /\ \A i \in 1 .. Len(meant) : meant[i] # CR /\ Len(meant) \in Nat
    BY DEF RoundTrip
  <2>3. \A chars, offset : Prints(chars, offset) => Prints(chars, offset)'
    BY <1>1, <2>1 DEF Prints
  <2>4. CASE \/ CopyCharacter \/ NormalizeNewLine
             \/ ConvertEntity \/ PassUnknownEntity \/ ConvertCharacterRef
    BY <2>4, ReadingStep
  <2>5. CASE ParseText
    <3>1. PICK chars, offset : Prints(chars, offset) /\ ToParse(chars)
      BY <2>5 DEF ParseText, RoundTrip, ToConvert, ReadUpTo, ReadBack
    <3>2. /\ chars \in Seq(Chars) /\ mem = Buffer(chars, mode) /\ ~HasInside(chars, Tag)
      BY <3>1 DEF Prints, ToParse
    <3>3. Min({i \in DOMAIN mem : Follows(i, Tag)}) = Len(chars) + 1
      BY <1>1, <3>2, EndTagFound
    <3>4. /\ at' = "caller" /\ mem' = mem
          /\ pair'.end = Len(chars) + 1 /\ pair'.flags = Needs \cup {"flush"}
      BY <2>5, <3>3 DEF ParseText, Tag, Needs
    <3>5. \A i \in 1 .. Len(chars) : mem[i] = chars[i]
      BY <1>1, <3>2, BufferFacts
    <3>6. ToConvert(chars)'
      BY <3>4, <3>5 DEF ToConvert
    <3> QED
      BY <2>1, <2>2, <2>3, <3>1, <3>6 DEF RoundTrip
  <2>6. CASE Flush
    <3>1. PICK chars, offset : Prints(chars, offset) /\ ToConvert(chars)
      BY <2>6 DEF Flush, RoundTrip, ToParse, ReadUpTo, ReadBack
    <3>2. /\ pair.end = Len(chars) + 1 /\ Len(chars) \in Nat
          /\ \A i \in 1 .. Len(chars) : mem[i] = chars[i]
      BY <3>1 DEF Prints, ToConvert
    <3>3. Marked
      BY <2>6 DEF TextInv, Unparsed, Converting, Converted, Flush
    <3>4. mem \in Seq(Bytes) /\ pair.start = 1
      BY <3>3 DEF Marked, InBuffer
    <3>5. /\ at' = "converting" /\ p' = 1 /\ q' = 1 /\ pair'.end = pair.end
          /\ mem' = [mem EXCEPT ![pair.end] = 0]
      BY <2>6, <3>4 DEF Flush
    <3>6. \A i \in 1 .. Len(chars) : mem'[i] = mem[i]
      <4> TAKE i \in 1 .. Len(chars)
      <4>1. i # pair.end
        BY <3>2
      <4> QED
        BY <3>5, <4>1
    <3>7. offset[0] = 0 /\ 0 \in 0 .. Len(meant)
      BY <1>1, <2>2, <3>1, PiecesOf
    <3>8. ReadUpTo(0, chars, offset)'
      BY <2>1, <3>2, <3>5, <3>6, <3>7 DEF ReadUpTo
    <3> QED
      BY <2>1, <2>2, <2>3, <3>1, <3>8 DEF RoundTrip
  <2>7. CASE EndOfValue
    <3>1. Converting /\ p >= pair.end
      BY <2>7 DEF TextInv, Unparsed, Marked, Converted, EndOfValue
    <3>2. PICK chars, offset, k : Prints(chars, offset) /\ ReadUpTo(k, chars, offset)
      BY <2>7 DEF EndOfValue, RoundTrip, ToParse, ToConvert, ReadBack
    <3> DEFINE n == Len(meant)
    <3>3. /\ n \in Nat /\ Len(chars) \in Nat /\ Len(chars) = offset[n]
          /\ \A i \in 0 .. n : offset[i] \in Nat /\ offset[i] <= Len(chars)
          /\ \A i \in 1 .. n : offset[i] = offset[i - 1] + Len(Piece(mode, meant[i]))
      BY <1>1, <2>2, <3>2, PiecesOf
    <3>4. /\ pair.end = Len(chars) + 1 /\ k \in 0 .. n /\ q = k + 1 /\ p = offset[k] + 1
          /\ \A i \in 1 .. k : mem[i] = meant[i]
      BY <3>2 DEF ReadUpTo
    <3>5. k = n
      <4> SUFFICES ASSUME k # n PROVE FALSE
        OBVIOUS
      <4>1. k + 1 \in 1 .. n /\ k + 1 - 1 = k /\ k + 1 \in 0 .. n
        BY <3>3, <3>4
      <4> DEFINE w == Len(Piece(mode, meant[k + 1]))
      <4>2. w \in Nat /\ w >= 1
        <5>1. meant[k + 1] \in Chars
          BY <2>2, <4>1
        <5>2. Piece(mode, meant[k + 1]) \in Seq(Chars) /\ w >= 1
          BY <1>1, <5>1, PieceFacts
        <5> QED
          BY <5>2
      <4>3. /\ offset[k + 1] = offset[k] + w /\ offset[k] \in Nat
            /\ offset[k + 1] <= Len(chars)
        <5>1. offset[k + 1] = offset[k] + w
          <6>1. \A i \in 1 .. n : offset[i] = offset[i - 1] + Len(Piece(mode, meant[i]))
            BY <3>3
          <6> DEFINE j == k + 1
          <6>2. w = Len(Piece(mode, meant[j]))
            BY Zenon
          <6> HIDE DEF n, w
          <6>3. j \in 1 .. n /\ j - 1 = k
            <7>1. k \in Int
              BY <3>3, <3>4
            <7> QED
              BY <4>1, <7>1
          <6> HIDE DEF j
          <6>4. offset[j] = offset[k] + w
            BY <6>1, <6>2, <6>3
          <6> QED
            BY <6>4 DEF j
        <5>2. offset[k] \in Nat /\ offset[k + 1] <= Len(chars)
          BY <3>3, <3>4, <4>1
        <5> QED
          BY <5>1, <5>2
      <4> DEFINE from == offset[k]
                 to == offset[k + 1]
                 l == Len(chars)
      <4>4. /\ from \in Nat /\ w \in Nat /\ l \in Nat /\ w >= 1
            /\ to = from + w /\ to <= l /\ from + 1 >= l + 1
        BY <3>1, <3>3, <3>4, <4>2, <4>3
      <4> HIDE DEF w, from, to, l
      <4> QED
        BY <4>4
    <3>6. /\ at' = "caller" /\ pair'.flags = {} /\ q' = q /\ mem' = [mem EXCEPT ![q] = 0]
      <4>1. pair.flags = Needs
        BY <3>1 DEF Converting
      <4>2. pair' = [pair EXCEPT !.flags = {}]
        BY <2>7 DEF EndOfValue
      <4>3. pair'.flags = {}
        BY <4>1, <4>2
      <4> QED
        BY <2>7, <4>1, <4>2, <4>3 DEF EndOfValue
    <3>7. \A i \in 1 .. n : mem'[i] = meant[i]
      <4> TAKE i \in 1 .. n
      <4>1. i # q
        BY <3>3, <3>4, <3>5
      <4> QED
        BY <3>4, <3>5, <3>6, <4>1
    <3>8. ReadBack'
      BY <2>1, <3>4, <3>5, <3>6, <3>7 DEF ReadBack
    <3> QED
      BY <2>1, <2>2, <3>8 DEF RoundTrip
  <2> QED
    BY <1>3, <2>4, <2>5, <2>6, <2>7 DEF Next
<1> QED
  BY <1>2, <1>3

-----------------------------------------------------------------------------
LEMMA TextInvHolds == Spec => []TextInv
<1>1. TextInv /\ [Next]_vars => TextInv'
  <2> SUFFICES ASSUME TextInv, [Next]_vars PROVE TextInv'
    OBVIOUS
  <2>1. CASE ParseText
    BY <2>1, ParseTextStep
  <2>2. CASE Flush
    BY <2>2, FlushStep
  <2>3. CASE CopyCharacter
    BY <2>3, CopyStep
  <2>4. CASE NormalizeNewLine
    BY <2>4, NewLineStep
  <2>5. CASE ConvertEntity
    BY <2>5, ConvertEntityStep
  <2>6. CASE PassUnknownEntity
    BY <2>6, PassUnknownEntityStep
  <2>7. CASE ConvertCharacterRef
    BY <2>7, ConvertCharacterRefStep
  <2>8. CASE EndOfValue
    BY <2>8, EndOfValueStep
  <2>9. CASE PushText
    BY <2>9, PushTextStep
  <2>10. CASE UNCHANGED vars
    <3>1. /\ UNCHANGED <<mode, mem, pair, at, p, q>>
      BY <2>10 DEF vars
    <3>2. Tag' = Tag /\ Needs' = Needs
      BY <3>1 DEF Tag, Needs
    <3> QED
      BY <3>1, <3>2 DEF TextInv, Unparsed, Marked, Converting, Converted, InBuffer, Unread,
                        ToCome, HowMuch
  <2> QED
    BY <2>1, <2>2, <2>3, <2>4, <2>5, <2>6, <2>7, <2>8, <2>9, <2>10 DEF Next
<1> QED
  BY <1>1, InitIsUnparsed, PTL DEF Spec

(***************************************************************************)
(* Converting a value in place never writes over what was not read yet nor *)
(* past the end of the value, whatever the value and wherever it came      *)
(* from: every reference and entity is at least as long as what it means.  *)
(***************************************************************************)
THEOREM TypeCorrect == Spec => []TypeOK
<1>1. TextInv => TypeOK
  <2> SUFFICES ASSUME TextInv PROVE TypeOK
    OBVIOUS
  <2>1. /\ mode \in DOMAIN Modes /\ Tag \in Seq(Bytes) /\ Len(Tag) >= 1 /\ Len(Tag) \in Nat
        /\ Needs \subseteq {"entities", "newlines"}
    BY ModeFacts DEF TextInv
  <2>2. CASE Unparsed
    <3>1. PICK chars \in Seq(Chars) : mem = Buffer(chars, mode)
      BY <2>2 DEF Unparsed
    <3>2. mem \in Seq(Bytes)
      BY <2>1, <3>1, BufferFacts
    <3>3. pair.flags = {} /\ at = "unparsed"
      BY <2>2 DEF Unparsed, NoPair
    <3>4. \A i \in DOMAIN mem : mem[i] \in 0 .. 255
      <4>1. \A i \in DOMAIN mem : mem[i] \in Bytes
        BY <3>2
      <4> QED
        BY <4>1 DEF Bytes
    <3> QED
      BY <2>1, <3>3, <3>4 DEF TypeOK
  <2>3. CASE Marked \/ Converting \/ Converted
    <3>1. InBuffer /\ at \in {"caller", "converting"}
      BY <2>3 DEF Marked, Converting, Converted
    <3>2. pair.flags \subseteq {"flush", "entities", "newlines"}
      BY <2>1, <2>3 DEF Marked, Converting, Converted
    <3>3. \A i \in DOMAIN mem : mem[i] \in 0 .. 255
      <4>1. \A i \in DOMAIN mem : mem[i] \in Bytes
        BY <3>1 DEF InBuffer
      <4> QED
        BY <4>1 DEF Bytes
    <3>4. SubSeq(mem, pair.end + 1, Len(mem)) = Tail(Modes[mode].endTag) \o <<0>>
      BY <3>1 DEF InBuffer, Tag
    <3>5. at = "converting" => /\ pair.start <= q /\ q <= p /\ p <= pair.end
                               /\ pair.end < Len(mem)
      <4> SUFFICES ASSUME at = "converting"
                   PROVE  pair.start <= q /\ q <= p /\ p <= pair.end /\ pair.end < Len(mem)
        OBVIOUS
      <4>1. Converting
        BY <2>3 DEF Marked, Converted
      <4>2. q \in 1 .. p /\ p \in 1 .. pair.end /\ pair.start = 1
        BY <4>1 DEF Converting, InBuffer, Unread
      <4>3. pair.end \in Nat /\ Len(mem) = pair.end + Len(Tag)
        BY <3>1 DEF InBuffer
      <4>4. pair.end < Len(mem)
        BY <2>1, <4>3
      <4> QED
        BY <4>2, <4>3, <4>4
    <3> QED
      BY <2>1, <3>1, <3>2, <3>3, <3>4, <3>5 DEF TypeOK
  <2> QED
    BY <2>2, <2>3 DEF TextInv
<1> QED
  BY <1>1, TextInvHolds, PTL

(***************************************************************************)
(* Whatever XMLPrinter writes for a value is read as that value again: the *)
(* characters it escapes are the ones the parser would read as something   *)
(* else, the names it writes for them are told apart, and nothing else     *)
(* that it writes is converted.  A carriage return does not come back.     *)
(***************************************************************************)
THEOREM PrintedReadsBack == Spec => [](printed => ReadsAsMeant)
<1>1. Init => RoundTripInv
  BY DEF Init, RoundTripInv
<1>2. TextInv /\ RoundTripInv /\ [Next]_vars => RoundTripInv'
  <2>1. CASE Next
    BY <2>1, RoundTripStep
  <2>2. CASE UNCHANGED vars
    <3>1. UNCHANGED <<mode, mem, pair, at, p, q, meant, sound, printed>>
      BY <2>2 DEF vars
    <3>2. Tag' = Tag
      BY <3>1 DEF Tag
    <3> QED
      BY <3>1, <3>2 DEF RoundTripInv, RoundTrip, Prints, ToParse, ToConvert, ReadUpTo, ReadBack
  <2> QED
    BY <2>1, <2>2
<1>3. TextInv /\ RoundTripInv => (printed => ReadsAsMeant)
  <2> SUFFICES ASSUME TextInv, RoundTripInv, printed, Known, sound
               PROVE  Value = meant
    BY DEF ReadsAsMeant
  <2>1. Converted
    <3>1. "flush" \in Needs \cup {"flush"}
      OBVIOUS
    <3> QED
      BY <3>1 DEF TextInv, Unparsed, Marked, Converting, Known
  <2>2. ReadBack /\ meant \in Seq(Chars)
    BY DEF RoundTripInv, RoundTrip, ToParse, ToConvert, ReadUpTo, Known
  <2>3. /\ Value \in Seq(Chars) /\ Len(Value) <= q - 1 /\ mem[Len(Value) + 1] = 0
        /\ \A i \in 1 .. Len(Value) : Value[i] = mem[i]
    BY <2>1, ValueKnown
  <2> DEFINE n == Len(meant)
             l == Len(Value)
             value == Value
  <2>4. n \in Nat /\ l \in Nat /\ q = n + 1 /\ \A i \in 1 .. n : mem[i] = meant[i]
    BY <2>2, <2>3 DEF ReadBack
  <2>5. \A i \in 1 .. n : meant[i] \in Chars
    BY <2>2
  <2> HIDE DEF n, l
  <2>6. l = n
    <3> SUFFICES ASSUME l # n PROVE FALSE
      OBVIOUS
    <3>1. l + 1 \in 1 .. n
      BY <2>3, <2>4 DEF l
    <3>2. mem[l + 1] \in Chars /\ mem[l + 1] = 0
      BY <2>3, <2>4, <2>5, <3>1 DEF l
    <3> QED
      BY <3>2 DEF Chars
  <2>7. \A i \in 1 .. Len(Value) : Value[i] = meant[i]
    BY <2>3, <2>4, <2>6 DEF l
  <2>8. Len(Value) = Len(meant)
    BY <2>6 DEF n, l
  <2> QED
    BY <2>2, <2>3, <2>7, <2>8, SeqEqual
<1> QED
  BY <1>1, <1>2, <1>3, TextInvHolds, PTL DEF Spec
=============================================================================
