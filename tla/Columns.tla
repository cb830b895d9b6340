------------------------------- MODULE Columns -------------------------------
(***************************************************************************)
(* A column's type and one value of it on the wire (column.rs).  A value   *)
(* is an option, a sequence of none or one: null, or a text that is a      *)
(* decimal number, kept as the eight bytes of the i64 it is, a 0x literal, *)
(* kept as its bytes, or words.  A number or a literal is not put into a   *)
(* text column here, where it would be words.                              *)
(***************************************************************************)
EXTENDS Bytes, FiniteSetsExt

Kind(type, size) == [type |-> type, size |-> size]

\* The length a (MAX) column declares, and a null short value carries.
MAX == 65535

TypeByte == [IntN |-> 38, Int |-> 56, BigInt |-> 127, Bit |-> 50, BitN |-> 104,
             NVarChar |-> 231, VarChar |-> 167, VarBinary |-> 165]

PlpNull == Ones(8)
PlpUnknown == <<254>> \o Ones(7)

NULL == <<>>
Value(as, is) == <<[as |-> as, is |-> is]>>
Decimal(n) == Value("number", Le(n, 8))
True == Value("words", <<116, 114, 117, 101>>)

-----------------------------------------------------------------------------
(* TYPE_INFO                                                               *)

WriteTypeInfo(kind) ==
  <<TypeByte[kind.type]>> \o
  CASE kind.type = "IntN" -> <<kind.size>>
    [] kind.type = "BitN" -> <<1>>
    [] kind.type \in {"NVarChar", "VarChar"} -> Le(kind.size, 2) \o Zeros(5)
    [] kind.type = "VarBinary" -> Le(kind.size, 2)
    [] OTHER -> <<>>

\* What follows the type's byte; the size first where the type has one.
Declares ==
  [IntN |-> <<Byte>>, Int |-> <<>>, BigInt |-> <<>>, Bit |-> <<>>, BitN |-> <<Raw(1)>>,
   NVarChar |-> <<U16, Raw(5)>>, VarChar |-> <<U16, Raw(5)>>, VarBinary |-> <<U16>>]
Sized == {"IntN", "NVarChar", "VarChar", "VarBinary"}

ReadTypeInfo(body, at) ==
  Then(ReadField(body, at, Byte), LAMBDA byte, after :
    LET types == {t \in DOMAIN TypeByte : TypeByte[t] = byte} IN
    IF types = {} THEN Refused
    ELSE LET type == CHOOSE t \in types : TRUE IN
         Then(ReadFields(body, after, Declares[type]), LAMBDA declared, end :
           Got(Kind(type, IF type \in Sized THEN declared[1] ELSE 0), end)))

-----------------------------------------------------------------------------
(* Bytes of a length of their own.                                         *)

ChunksOf(bytes, most) ==
  [i \in 1..((Len(bytes) + most - 1) \div most) |->
     SubSeq(bytes, (i - 1) * most + 1, Min({i * most, Len(bytes)}))]

InChunks(chunks) ==
  FlattenSeq([i \in DOMAIN chunks |-> Le(Len(chunks[i]), 4) \o chunks[i]]) \o Zeros(4)

WritePlp(bytes) ==
  IF bytes = NULL THEN PlpNull
  ELSE Le(Len(bytes[1]), 8) \o InChunks(ChunksOf(bytes[1], MAX))

ReadPlp(body, at) ==
  Then(Take(body, at, 8), LAMBDA total, first :
    LET chunks[from \in Nat] ==
          Then(ReadField(body, from, U32), LAMBDA chunk, after :
            IF chunk = 0 THEN Got(<<>>, after)
            ELSE Then(Take(body, after, chunk), LAMBDA bytes, next :
                   Then(chunks[next], LAMBDA more, end : Got(bytes \o more, end))))
    IN IF total = PlpNull THEN Got(NULL, first)
       ELSE Then(chunks[first], LAMBDA bytes, end :
              IF total \in {PlpUnknown, Le(Len(bytes), 8)} THEN Got(<<bytes>>, end)
              ELSE Refused))

\* The length of a value that is not (MAX), cut where it does not fit a u16.
ShortLength(bytes) == IF Len(bytes) <= MAX THEN Len(bytes) ELSE MAX - 1

WriteBytes(max, bytes) ==
  IF max = MAX THEN WritePlp(bytes)
  ELSE IF bytes = NULL THEN Le(MAX, 2)
  ELSE LET length == ShortLength(bytes[1]) IN Le(length, 2) \o SubSeq(bytes[1], 1, length)

ReadBytes(body, at, max) ==
  IF max = MAX THEN ReadPlp(body, at)
  ELSE Then(ReadField(body, at, U16), LAMBDA length, after :
         IF length = MAX THEN Got(NULL, after)
         ELSE Then(Take(body, after, length), LAMBDA bytes, end : Got(<<bytes>>, end)))

-----------------------------------------------------------------------------
(* A value.                                                                *)

\* What `parse` makes of a text: its number, and zero of any other.
Integer(value) ==
  IF value # NULL /\ value[1].as = "number" THEN value[1].is ELSE Zeros(8)

Truthy(value) == value \in {Decimal(1), True}
OneOrZero(condition) == IF condition THEN 1 ELSE 0

\* Slip: a narrower integer is read as unsigned.
WidenedUnsigned(bytes) == bytes \o Zeros(8 - Len(bytes))

\* The i64 that a narrower integer of these bytes is.
Widened(bytes) ==
  bytes \o IF Last(bytes) < 128 THEN Zeros(8 - Len(bytes)) ELSE Ones(8 - Len(bytes))

InFour(number) ==
  IF Widened(SubSeq(number, 1, 4)) = number THEN SubSeq(number, 1, 4) ELSE Zeros(4)

\* A value of a type whose length varies; words are the bytes they convert to
\* in a binary column.
AsBytes(kind, value) ==
  [i \in DOMAIN value |->
     IF kind.type = "NVarChar" THEN Utf16(value[i].is)
     ELSE IF value[i].as = "hex" THEN value[i].is ELSE Utf8(value[i].is)]

WriteValue(kind, value) ==
  CASE kind.type = "IntN" ->
         IF value = NULL THEN <<0>>
         ELSE <<kind.size>> \o SubSeq(Integer(value), 1, Min({kind.size, 8}))
    [] kind.type = "Int" -> InFour(Integer(value))
    [] kind.type = "BigInt" -> Integer(value)
    [] kind.type = "Bit" -> <<OneOrZero(Truthy(value))>>
    [] kind.type = "BitN" -> IF value = NULL THEN <<0>> ELSE <<1, OneOrZero(Truthy(value))>>
    [] OTHER -> WriteBytes(kind.size, AsBytes(kind, value))

ReadNumber(body, at, width) ==
  Then(Take(body, at, width), LAMBDA bytes, after : Got(Value("number", Widened(bytes)), after))

ReadFlag(body, at) ==
  Then(ReadField(body, at, Byte), LAMBDA byte, after : Got(Decimal(OneOrZero(byte # 0)), after))

ReadValue(body, at, kind) ==
  CASE kind.type = "IntN" ->
         Then(ReadField(body, at, Byte), LAMBDA width, after :
           IF width = 0 THEN Got(NULL, after)
           ELSE IF width \in {1, 2, 4, 8} THEN ReadNumber(body, after, width) ELSE Refused)
    [] kind.type = "Int" -> ReadNumber(body, at, 4)
    [] kind.type = "BigInt" -> ReadNumber(body, at, 8)
    [] kind.type = "Bit" -> ReadFlag(body, at)
    [] kind.type = "BitN" ->
         Then(ReadField(body, at, Byte), LAMBDA length, after :
           IF length = 0 THEN Got(NULL, after) ELSE ReadFlag(body, after))
    [] kind.type = "NVarChar" ->
         Then(ReadBytes(body, at, kind.size), LAMBDA bytes, after :
           IF bytes = NULL THEN Got(NULL, after)
           ELSE IF Utf16Text(bytes[1]) THEN Got(Value("words", UnitsOf(bytes[1])), after)
           ELSE Refused)
    [] kind.type = "VarChar" ->
         Then(ReadBytes(body, at, kind.size), LAMBDA bytes, after :
           IF bytes = NULL THEN Got(NULL, after)
           ELSE IF Utf8Text(bytes[1]) THEN Got(Value("words", Utf8Chars(bytes[1])), after)
           ELSE Refused)
    [] kind.type = "VarBinary" ->
         Then(ReadBytes(body, at, kind.size), LAMBDA bytes, after :
           Got(IF bytes = NULL THEN NULL ELSE Value("hex", bytes[1]), after))

-----------------------------------------------------------------------------
(* What a column can hold of a value: the reference for what is read.      *)

\* A number too wide keeps its low bytes.
HeldNumber(value, width) ==
  LET low == SubSeq(value[1].is, 1, width) IN
  IF value[1].as # "number" THEN Decimal(0)
  ELSE IF \A i \in (width + 1)..8 : value[1].is[i] = OneOrZero(low[width] > 127) * 255
  THEN value
  ELSE Value("number", low \o [i \in 1..(8 - width) |-> OneOrZero(low[width] > 127) * 255])

\* A value too long for a column that is not (MAX) keeps its beginning.
HeldBytes(max, bytes) ==
  IF max = MAX \/ Len(bytes) <= MAX THEN bytes ELSE SubSeq(bytes, 1, MAX - 1)

Held(kind, value) ==
  IF value = NULL THEN IF kind.type \in {"Int", "BigInt", "Bit"} THEN Decimal(0) ELSE NULL
  ELSE
  CASE kind.type = "IntN" -> HeldNumber(value, kind.size)
    [] kind.type = "BigInt" -> HeldNumber(value, 8)
    [] kind.type = "Int" -> IF HeldNumber(value, 4) = value THEN value ELSE Decimal(0)
    [] kind.type \in {"Bit", "BitN"} -> IF Truthy(value) THEN Decimal(1) ELSE Decimal(0)
    [] kind.type = "NVarChar" ->
         IF HeldBytes(kind.size, Utf16(value[1].is)) = Utf16(value[1].is) THEN value
         ELSE Value("words", SubSeq(value[1].is, 1, MAX \div 2))
    [] kind.type = "VarChar" ->
         IF HeldBytes(kind.size, Utf8(value[1].is)) = Utf8(value[1].is) THEN value
         ELSE Value("words", Utf8Chars(HeldBytes(kind.size, Utf8(value[1].is))))
    [] kind.type = "VarBinary" ->
         Value("hex", HeldBytes(kind.size,
           IF value[1].as = "hex" THEN value[1].is ELSE Utf8(value[1].is)))
=============================================================================
