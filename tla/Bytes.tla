-------------------------------- MODULE Bytes --------------------------------
(***************************************************************************)
(* The fields a payload is made of: integers in bytes, least significant   *)
(* first unless said otherwise, and text behind a count of its characters  *)
(* (wire.rs:159-229).  A payload is a sequence of bytes, and a cursor over  *)
(* it the number of bytes already taken.  Text is a sequence of character  *)
(* codes that each take one UTF-16 unit.  The cursor, the writer and the   *)
(* encodings are the codec library's, modelled from their use.             *)
(***************************************************************************)
EXTENDS Integers, Sequences, SequencesExt

\* What a read returns: a value and where the cursor then is, or an error.
Got(v, at) == [ok |-> TRUE, got |-> v, at |-> at]
Refused == [ok |-> FALSE]

\* Next of what was read, where it was read: the question mark of the source.
Then(r, Next(_, _)) == IF r.ok THEN Next(r.got, r.at) ELSE Refused

Cut(seq, most) == SubSeq(seq, 1, IF Len(seq) > most THEN most ELSE Len(seq))

Zeros(n) == [i \in 1..n |-> 0]
Ones(n) == [i \in 1..n |-> 255]

\* The first `width` bytes of n, in two's complement where n is negative.
Le(n, width) ==
  LET rest[i \in 0..width] == IF i = 0 THEN n ELSE rest[i - 1] \div 256
  IN [i \in 1..width |-> rest[i - 1] % 256]
Be(n, width) == Reverse(Le(n, width))

\* Longer than any payload here: what a length says that needs a fourth byte.
Beyond == 16777216

Number(bytes) ==
  LET At(i) == IF i \in DOMAIN bytes THEN bytes[i] ELSE 0 IN
  IF \E i \in DOMAIN bytes : i > 3 /\ bytes[i] # 0 THEN Beyond
  ELSE At(1) + 256 * At(2) + 65536 * At(3)

\* Of four bytes.
SignedNumber(bytes) ==
  bytes[1] + 256 * bytes[2] + 65536 * bytes[3]
  + 16777216 * (IF bytes[4] < 128 THEN bytes[4] ELSE bytes[4] - 256)

-----------------------------------------------------------------------------
(* Text.                                                                   *)

IsSurrogate(unit) == unit \in 55296..57343

Utf16(text) ==
  [i \in 1..(2 * Len(text)) |->
     LET char == text[(i + 1) \div 2] IN IF i % 2 = 1 THEN char % 256 ELSE char \div 256]

UnitsOf(bytes) == [i \in 1..(Len(bytes) \div 2) |-> bytes[2 * i - 1] + 256 * bytes[2 * i]]

\* Characters beyond one unit are left out, so no surrogate has its pair.
Utf16Text(bytes) ==
  Len(bytes) % 2 = 0 /\ \A i \in DOMAIN UnitsOf(bytes) : ~IsSurrogate(UnitsOf(bytes)[i])

Utf16Lossy(bytes) ==
  [i \in DOMAIN UnitsOf(bytes) |->
     IF IsSurrogate(UnitsOf(bytes)[i]) THEN 65533 ELSE UnitsOf(bytes)[i]]

\* Characters of one byte and of two.
Utf8(text) ==
  IF \A i \in DOMAIN text : text[i] < 128 THEN text
  ELSE FlattenSeq([i \in DOMAIN text |->
    IF text[i] < 128 THEN <<text[i]>>
    ELSE <<192 + (text[i] \div 64), 128 + (text[i] % 64)>>])

Follows(byte) == byte \in 128..191
Leads(byte) == byte \in 194..223

Utf8Text(bytes) ==
  \A i \in DOMAIN bytes :
    /\ bytes[i] < 128 \/ Follows(bytes[i]) \/ Leads(bytes[i])
    /\ Follows(bytes[i]) => i > 1 /\ Leads(bytes[i - 1])
    /\ Leads(bytes[i]) => i < Len(bytes) /\ Follows(bytes[i + 1])

\* The characters of bytes that are such a text: one behind each that begins one.
Utf8Chars(bytes) ==
  IF \A i \in DOMAIN bytes : bytes[i] < 128 THEN bytes
  ELSE FlattenSeq([i \in DOMAIN bytes |->
    IF bytes[i] < 128 THEN <<bytes[i]>>
    ELSE IF Leads(bytes[i]) THEN <<64 * (bytes[i] - 192) + bytes[i + 1] - 128>>
    ELSE <<>>])

-----------------------------------------------------------------------------
(* What TDS writes: text cut at what its count can say.                    *)

Counted(text, most) == Cut(Utf16(text), 2 * most)

BVarchar(text) == LET units == Counted(text, 255) IN Le(Len(units) \div 2, 1) \o units
UsVarchar(text) == LET units == Counted(text, 65535) IN Le(Len(units) \div 2, 2) \o units

-----------------------------------------------------------------------------
(* What is read: a field is so many bytes, taken as what they are.         *)

Field(width, as) == [width |-> width, as |-> as]
Byte == Field(1, "number")
U16 == Field(2, "number")
U32 == Field(4, "number")
U64 == Field(8, "number")
I32 == Field(4, "signed")
U16Be == Field(2, "big")
Raw(n) == Field(n, "bytes")
BText == Field(1, "text")
UsText == Field(2, "text")

Take(body, at, n) ==
  IF at + n <= Len(body) THEN Got(SubSeq(body, at + 1, at + n), at + n) ELSE Refused

\* Tds::ucs2 of as many characters as the count before it says.
Ucs2(body, chars, at) ==
  Then(Take(body, at, 2 * chars), LAMBDA units, after : Got(Utf16Lossy(units), after))

ReadField(body, at, field) ==
  Then(Take(body, at, field.width), LAMBDA bytes, after :
    CASE field.as = "number" -> Got(Number(bytes), after)
      [] field.as = "big"    -> Got(Number(Reverse(bytes)), after)
      [] field.as = "signed" -> Got(SignedNumber(bytes), after)
      [] field.as = "bytes"  -> Got(bytes, after)
      [] field.as = "text"   -> Ucs2(body, Number(bytes), after))

\* The fields one after the other: what they held, or the first error.
ReadFields(body, at, fields) ==
  FoldLeft(LAMBDA sofar, field :
             Then(sofar, LAMBDA values, from :
               Then(ReadField(body, from, field), LAMBDA v, after :
                 Got(Append(values, v), after))),
           Got(<<>>, at), fields)
=============================================================================
