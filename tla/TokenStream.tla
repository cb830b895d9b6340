----------------------------- MODULE TokenStream -----------------------------
(***************************************************************************)
(* A server's answer as bytes: what encode_tokens writes and TokenStream   *)
(* reads (token.rs).  A token is a record that names the byte it begins    *)
(* with.  The rows that SQL Server itself writes otherwise, behind a null   *)
(* bitmap and in chunks of no total, are modelled from how they are read.  *)
(***************************************************************************)
EXTENDS Columns

ENVCHANGE == 227
ERROR == 170
INFO == 171
LOGINACK == 173
COLMETADATA == 129
ROW == 209
NBCROW == 210
DONE == 253
DONEPROC == 254
DONEINPROC == 255
RETURNSTATUS == 121
ORDER == 169
Dones == {DONE, DONEPROC, DONEINPROC}

\* The count COLMETADATA carries when there are no columns.
NO_COLUMNS == 65535

Column(name, kind) == [name |-> name, kind |-> kind]

-----------------------------------------------------------------------------
(* encode_tokens                                                           *)

\* The length is what a u16 can say of it; the body is written whole.
PushWithLength(token, body) == <<token>> \o Le(Min({Len(body), 65535}), 2) \o body

MessageBody(m) ==
  Le(m.number, 4) \o <<m.state, m.class>> \o UsVarchar(m.text) \o BVarchar(m.server)
  \o BVarchar(m.procedure) \o Le(m.line, 4)

\* User type, flags, type and name of each column.
Metadata(columns) ==
  FlattenSeq([i \in DOMAIN columns |->
    Zeros(4) \o <<1, 0>> \o WriteTypeInfo(columns[i].kind) \o BVarchar(columns[i].name)])

\* As many values as there are both columns and values.
RowOf(columns, values) ==
  FlattenSeq([i \in 1..Min({Len(columns), Len(values)}) |->
    WriteValue(columns[i].kind, values[i])])

\* What SQL Server makes of a value: a (MAX) one in chunks it gives no total of.
ServerValue(kind, value) ==
  IF kind.size = MAX /\ value # NULL
  THEN PlpUnknown \o InChunks(ChunksOf(AsBytes(kind, value)[1], 3))
  ELSE WriteValue(kind, value)

\* What SQL Server makes of a row with nulls: they are bits, and left out.
NullBitmap(values) ==
  LET IsOut(i) == IF i \in DOMAIN values /\ values[i] = NULL THEN 1 ELSE 0 IN
  [byte \in 1..((Len(values) + 7) \div 8) |->
     LET first == 8 * (byte - 1) IN
     IsOut(first + 1) + 2 * IsOut(first + 2) + 4 * IsOut(first + 3) + 8 * IsOut(first + 4)
     + 16 * IsOut(first + 5) + 32 * IsOut(first + 6) + 64 * IsOut(first + 7) + 128 * IsOut(first + 8)]
ServerRow(columns, values) ==
  NullBitmap(values) \o
  FlattenSeq([i \in DOMAIN columns |->
    IF values[i] = NULL THEN <<>> ELSE ServerValue(columns[i].kind, values[i])])

Encoded(t, columns) ==
  CASE t.token = ENVCHANGE ->
         PushWithLength(ENVCHANGE, <<t.kind>> \o BVarchar(t.new) \o BVarchar(t.old))
    [] t.token \in {INFO, ERROR} -> PushWithLength(t.token, MessageBody(t))
    [] t.token = LOGINACK ->
         PushWithLength(LOGINACK, <<1>> \o t.version \o BVarchar(t.program) \o <<16, 0, 0, 0>>)
    [] t.token = COLMETADATA ->
         <<COLMETADATA>> \o IF t.columns = <<>> THEN Le(NO_COLUMNS, 2)
                            ELSE Le(Len(t.columns), 2) \o Metadata(t.columns)
    [] t.token = ROW -> <<ROW>> \o RowOf(columns, t.values)
    [] t.token = NBCROW -> <<NBCROW>> \o ServerRow(columns, t.values)
    [] t.token \in Dones -> <<t.token>> \o Le(t.status, 2) \o Zeros(2) \o Le(t.rows, 8)
    [] t.token = RETURNSTATUS -> <<RETURNSTATUS>> \o Le(t.status, 4)
    [] t.token = ORDER ->
         PushWithLength(ORDER, FlattenSeq([i \in DOMAIN t.numbers |-> Le(t.numbers[i], 2)]))

\* The columns by which the k-th token, where it is a row, is written.
ColumnsBefore(tokens, k) ==
  LET declared == {j \in 1..(k - 1) : tokens[j].token = COLMETADATA} IN
  IF declared = {} THEN <<>> ELSE tokens[Max(declared)].columns

EncodeTokens(tokens) ==
  FlattenSeq([k \in DOMAIN tokens |-> Encoded(tokens[k], ColumnsBefore(tokens, k))])

-----------------------------------------------------------------------------
(* TokenStream::next_token                                                 *)

\* The body of a token that carries its length.
Body(body, at) ==
  Then(ReadField(body, at, U16), LAMBDA length, after : Take(body, after, length))

ReadMessage(token, inner) ==
  Then(ReadFields(inner, 0, <<I32, Byte, Byte, UsText, BText, BText, U32>>),
    LAMBDA v, end :
      Got([token |-> token, number |-> v[1], state |-> v[2], class |-> v[3], text |-> v[4],
           server |-> v[5], procedure |-> v[6], line |-> v[7]], end))

\* What changed is text in the six kinds that say so in text.
ReadEnvChange(inner) ==
  Then(ReadField(inner, 0, Byte), LAMBDA kind, after :
    Then(IF kind \in 1..6 THEN ReadFields(inner, after, <<BText, BText>>)
         ELSE Got(<< <<>>, <<>> >>, after),
      LAMBDA texts, end :
        Got([token |-> ENVCHANGE, kind |-> kind, new |-> texts[1], old |-> texts[2]], end)))

ReadLoginAck(inner) ==
  Then(ReadFields(inner, 0, <<Raw(1), Raw(4), BText>>), LAMBDA v, end :
    Got([token |-> LOGINACK, version |-> v[2], program |-> v[3]], end))

ReadOrder(inner) ==
  Then(ReadFields(inner, 0, [i \in 1..((Len(inner) + 1) \div 2) |-> U16]), LAMBDA v, end :
    Got([token |-> ORDER, numbers |-> v], end))

\* A token in a body of its own, which it need not fill.
ReadInner(token, inner) ==
  CASE token = ENVCHANGE -> ReadEnvChange(inner)
    [] token \in {INFO, ERROR} -> ReadMessage(token, inner)
    [] token = LOGINACK -> ReadLoginAck(inner)
    [] token = ORDER -> ReadOrder(inner)

ReadColumn(body, at) ==
  Then(Take(body, at, 6), LAMBDA skipped, from :
    Then(ReadTypeInfo(body, from), LAMBDA kind, after :
      Then(ReadField(body, after, BText), LAMBDA name, end : Got(Column(name, kind), end))))

ReadColMetadata(body, at) ==
  Then(ReadField(body, at, U16), LAMBDA count, first :
    Then(FoldLeft(LAMBDA sofar, i :
                    Then(sofar, LAMBDA columns, from :
                      Then(ReadColumn(body, from), LAMBDA column, after :
                        Got(Append(columns, column), after))),
                  Got(<<>>, first),
                  [i \in 1..(IF count = NO_COLUMNS THEN 0 ELSE count) |-> i]),
      LAMBDA columns, end : Got([token |-> COLMETADATA, columns |-> columns], end)))

Weight == <<1, 2, 4, 8, 16, 32, 64, 128>>
IsNull(bitmap, i) == (bitmap[(i - 1) \div 8 + 1] \div Weight[((i - 1) % 8) + 1]) % 2 = 1

\* The values of a row, those the bitmap calls null not there to be read.
ReadRow(body, at, columns, bitmap) ==
  Then(FoldLeft(LAMBDA sofar, i :
                  Then(sofar, LAMBDA values, from :
                    Then(IF IsNull(bitmap, i) THEN Got(NULL, from)
                         ELSE ReadValue(body, from, columns[i].kind),
                      LAMBDA value, after : Got(Append(values, value), after))),
                Got(<<>>, at), [i \in DOMAIN columns |-> i]),
    LAMBDA values, end : Got([token |-> ROW, values |-> values], end))

BitmapLength(columns) == (Len(columns) + 7) \div 8

ReadDone(token, body, at) ==
  Then(ReadFields(body, at, <<U16, Raw(2), U64>>), LAMBDA v, end :
    Got([token |-> token, status |-> v[1], rows |-> v[3]], end))

ReadReturnStatus(body, at) ==
  Then(ReadField(body, at, I32), LAMBDA status, end :
    Got([token |-> RETURNSTATUS, status |-> status], end))

\* The token at a cursor that is not at the end.
ReadToken(body, at, columns) ==
  Then(ReadField(body, at, Byte), LAMBDA token, after :
    CASE token \in {ENVCHANGE, INFO, ERROR, LOGINACK, ORDER} ->
           Then(Body(body, after), LAMBDA inner, end :
             Then(ReadInner(token, inner), LAMBDA t, within : Got(t, end)))
      [] token = COLMETADATA -> ReadColMetadata(body, after)
      [] token = ROW -> ReadRow(body, after, columns, Zeros(BitmapLength(columns)))
      [] token = NBCROW ->
           Then(Take(body, after, BitmapLength(columns)), LAMBDA bitmap, first :
             ReadRow(body, first, columns, bitmap))
      [] token \in Dones -> ReadDone(token, body, after)
      [] token = RETURNSTATUS -> ReadReturnStatus(body, after)
      [] OTHER -> Refused)
=============================================================================
