--------------------------------- MODULE Base64 ---------------------------------
(***************************************************************************)
(* base64.cpp.  A byte is 0 .. 255; a character is its place in the        *)
(* alphabet, 0 .. 63, or one of the others below.                          *)
(***************************************************************************)
EXTENDS Integers, Sequences, SequencesExt

Pad == 64        \* '='
NewLine == 65    \* '\n', '\r' or ' ', which the layer parser removes
Foreign == 66    \* anything else

\* Three bytes are four characters, the last group of one or two is padded.
Sextets(b) == <<b[1] \div 4, (b[1] % 4) * 16 + b[2] \div 16, (b[2] % 16) * 4 + b[3] \div 64, b[3] % 64>>

Group(seq, k, size) == SubSeq(seq, size * (k - 1) + 1, size * k)

Base64Encode(bytes) ==
  LET rest == Len(bytes) % 3
      padded == bytes \o [i \in 1 .. (3 - rest) % 3 |-> 0]
      all == FlattenSeq([k \in 1 .. Len(padded) \div 3 |-> Sextets(Group(padded, k, 3))])
      kept == Len(all) - ((3 - rest) % 3)
  IN  [i \in DOMAIN all |-> IF i <= kept THEN all[i] ELSE Pad]

Octets(c) == <<(c[1] * 4 + c[2] \div 16) % 256, ((c[2] % 16) * 16 + c[3] \div 4) % 256,
               ((c[3] % 4) * 64 + c[4]) % 256>>

\* Decoding ends at the first character that is not of the alphabet.
Base64Decode(chars) ==
  LET good == CHOOSE n \in 0 .. Len(chars) :
                /\ \A i \in 1 .. n : chars[i] < Pad
                /\ n = Len(chars) \/ chars[n + 1] >= Pad
      padded == SubSeq(chars, 1, good) \o [i \in 1 .. (4 - (good % 4)) % 4 |-> 0]
      all == FlattenSeq([k \in 1 .. Len(padded) \div 4 |-> Octets(Group(padded, k, 4))])
      \* a rest of n characters is n - 1 bytes
  IN  SubSeq(all, 1, 3 * (good \div 4) + (IF good % 4 = 0 THEN 0 ELSE (good % 4) - 1))
=============================================================================
