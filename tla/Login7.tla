------------------------------- MODULE Login7 -------------------------------
(***************************************************************************)
(* The login as bytes (login.rs): a fixed part, a table of the places and  *)
(* lengths of nine texts, and the texts, the password obscured.            *)
(***************************************************************************)
EXTENDS Bytes

TDS_7_4 == <<4, 0, 0, 116>>

\* The fixed part and the table, before the first field.
FixedLength == 94

Swapped(byte) == 16 * (byte % 16) + byte \div 16

\* Exclusive or with 0xA5, whose bits are these four.
Flipped(byte, bit) == IF (byte \div bit) % 2 = 1 THEN byte - bit ELSE byte + bit
Masked(byte) == Flipped(Flipped(Flipped(Flipped(byte, 128), 32), 4), 1)

Obscure(password) == [i \in DOMAIN password |-> Masked(Swapped(password[i]))]
Reveal(obscured) == [i \in DOMAIN obscured |-> Swapped(Masked(obscured[i]))]

\* The fields in the order the table names them, the extension empty.
FieldsOf(login) ==
  <<Utf16(login.hostname), Utf16(login.user), Obscure(Utf16(login.password)),
    Utf16(login.app_name), Utf16(login.server_name), <<>>, Utf16(login.library),
    Utf16(login.language), Utf16(login.database)>>

\* As much as a u16 can say.
U16Of(n) == IF n > 65535 THEN 65535 ELSE n

Places(fields) ==
  FlattenSeq([i \in DOMAIN fields |->
    Le(U16Of(FixedLength + Len(FlattenSeq(SubSeq(fields, 1, i - 1)))), 2)
    \o Le(U16Of(Len(fields[i]) \div 2), 2)])

\* No SSPI, no file to attach, no new password.
Nowhere(end) == LET place == Le(U16Of(end), 2) \o Zeros(2) IN place \o place \o place

\* The versions, ids, time zone and locale between are read past; the process
\* id is zero here.
EncodeLogin7(login) ==
  LET fields == FieldsOf(login)
      tail == FlattenSeq(fields)
      length == FixedLength + Len(tail)
  IN Le(length, 4) \o TDS_7_4 \o Le(login.packet_size, 4) \o Zeros(12)
     \o <<224, 2, 0, 0>> \o Zeros(8) \o Places(fields) \o Zeros(6) \o Nowhere(length)
     \o Zeros(4) \o tail

\* The texts at the places the table names, wherever these are.
ReadPlaces(body, places) ==
  FoldLeft(LAMBDA sofar, i :
             Then(sofar, LAMBDA fields, table :
               Then(Take(body, places[2 * i - 1], 2 * places[2 * i]), LAMBDA bytes, end :
                 Got(Append(fields, bytes), table))),
           Got(<<>>, 0), [i \in 1..9 |-> i])

ReadLogin7(body) ==
  Then(ReadFields(body, 0, <<U32, Raw(4), U32, Raw(12), Raw(4), Raw(8)>>), LAMBDA fixed, from :
    IF fixed[2][4] \notin 114..116 THEN Refused
    ELSE Then(ReadFields(body, from, [i \in 1..18 |-> U16]), LAMBDA places, table :
           Then(ReadPlaces(body, places), LAMBDA f, end :
             Got([user |-> Utf16Lossy(f[2]), password |-> Utf16Lossy(Reveal(f[3])),
                  database |-> Utf16Lossy(f[9]), hostname |-> Utf16Lossy(f[1]),
                  app_name |-> Utf16Lossy(f[4]), server_name |-> Utf16Lossy(f[5]),
                  library |-> Utf16Lossy(f[7]), language |-> Utf16Lossy(f[8]),
                  packet_size |-> fixed[3]], table))))
=============================================================================
