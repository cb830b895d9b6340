-------------------------------- MODULE Batch --------------------------------
(***************************************************************************)
(* A SQL batch as bytes (batch.rs): headers that say their length, then    *)
(* the SQL.                                                                *)
(***************************************************************************)
EXTENDS Bytes

HeadersLength == 22

EncodeBatch(sql) ==
  Le(HeadersLength, 4) \o Le(HeadersLength - 4, 4) \o Le(2, 2) \o Zeros(8) \o Le(1, 4)
  \o Utf16(sql)

\* Slip: the headers' length is taken not to count itself.
ReadBatchPast(body) ==
  Then(ReadField(body, 0, U32), LAMBDA total, first :
    Then(Take(body, first, total), LAMBDA headers, at :
      LET sql == SubSeq(body, at + 1, Len(body)) IN
      IF Utf16Text(sql) THEN Got(UnitsOf(sql), Len(body)) ELSE Refused))

\* The headers, however many, are read past.
ReadBatch(body) ==
  Then(ReadField(body, 0, U32), LAMBDA total, first :
    IF total < 4 THEN Refused
    ELSE Then(Take(body, first, total - 4), LAMBDA headers, at :
           LET sql == SubSeq(body, at + 1, Len(body)) IN
           IF Utf16Text(sql) THEN Got(UnitsOf(sql), Len(body)) ELSE Refused))
=============================================================================
