------------------------------ MODULE Payloads ------------------------------
(***************************************************************************)
(* A payload from the side that writes it to the side that reads it: a     *)
(* pre-login, a login or a batch, read in one go, or an answer, read token *)
(* by token as Client does.  The payload may be cut off at any byte:       *)
(* framing makes whole messages, and what is in them is the writer's word. *)
(***************************************************************************)
EXTENDS Answers, Prelogin, Login7, Batch

CONSTANTS Sayings,   \* what is said, each a record of a form and its content
          CutWithin  \* bound: the longest payload that is also tried cut

VARIABLES said,      \* what is said
          body,      \* the payload it became, or its beginning
          at,        \* the reader's cursor
          columns,   \* TokenStream's columns
          read,      \* what was read, in order
          state      \* "reading", "ended" or "refused"

vars == <<said, body, at, columns, read, state>>

\* Answers: any server's tokens, a Session's to a login and to a batch.
AnswerForms == {"tokens", "welcome", "answer"}
TokensOf(s) ==
  CASE s.form = "tokens"  -> s.content
    [] s.form = "welcome" -> LoggedIn(s.content)
    [] s.form = "answer"  -> AnswerTokens(s.content)

Payload(s) ==
  CASE s.form \in AnswerForms -> EncodeTokens(TokensOf(s))
    [] s.form = "prelogin" -> EncodePrelogin(s.content)
    [] s.form = "table"    -> Table(s.content)
    [] s.form = "login"    -> EncodeLogin7(s.content)
    [] s.form = "batch"    -> EncodeBatch(s.content)
    [] s.form = "headers"  -> s.headers \o Utf16(s.content)

ReadWhole ==
  CASE said.form \in {"prelogin", "table"} -> ReadPrelogin(body)
    [] said.form = "login" -> ReadLogin7(body)
    [] said.form \in {"batch", "headers"} -> ReadBatch(body)

-----------------------------------------------------------------------------
(* What can be said: what the types of the code hold, and no longer than   *)
(* what is written can say of it.                                          *)

Octet == 0..255
Character == {c \in 0..65535 : ~IsSurrogate(c)}
Text == Seq(Character)
Signed == {n \in Int : (-128) * Beyond <= n /\ n <= 2147483647}
Counting == 0..(Beyond - 1)

Kinds ==
  [type : {"IntN"}, size : {1, 2, 4, 8}] \cup [type : {"Int", "BigInt", "Bit", "BitN"}, size : {0}]
  \cup [type : {"NVarChar", "VarChar", "VarBinary"}, size : 0..65535]

NumberValue == [as : {"number"}, is : [1..8 -> Octet]]
WordsValue == [as : {"words"}, is : Text]
HexValue == [as : {"hex"}, is : Seq(Octet)]

\* Columns has no character of three bytes, and a text column no number.
ValueFits(kind, value) ==
  \/ value = NULL
  \/ /\ value \in Seq(NumberValue \cup WordsValue \cup HexValue) /\ Len(value) = 1
     /\ Len(value[1].is) < 64 * Beyond
     /\ kind.type \in {"NVarChar", "VarChar"} => value[1] \in WordsValue
     /\ kind.type = "VarBinary" => value[1] \in WordsValue \cup HexValue
     /\ kind.type \in {"VarChar", "VarBinary"} /\ value[1].as = "words" =>
          value[1].is \in Seq(0..2047)

\* No token's body is longer than its length can say (token.rs:176), no row
\* shorter than its columns.
TokenFits(t, declared) ==
  \/ t \in [token : {ENVCHANGE}, kind : Octet, new : Text, old : Text]
  \/ /\ t \in [token : {INFO, ERROR}, number : Signed, state : Octet, class : Octet, text : Text,
               server : Text, procedure : Text, line : Counting]
     /\ Len(MessageBody(t)) <= 65535
  \/ t \in [token : {LOGINACK}, version : Seq(Octet), program : Text] /\ Len(t.version) = 4
  \/ /\ t \in [token : {COLMETADATA}, columns : Seq([name : Text, kind : Kinds])]
     /\ Len(t.columns) < NO_COLUMNS
  \/ /\ t \in [token : {ROW, NBCROW}, values : Seq(Seq(NumberValue \cup WordsValue \cup HexValue))]
     /\ Len(t.values) = Len(declared)
     /\ \A i \in DOMAIN declared : ValueFits(declared[i].kind, t.values[i])
  \/ t \in [token : Dones, status : 0..65535, rows : Counting]
  \/ t \in [token : {RETURNSTATUS}, status : Signed]
  \/ t \in [token : {ORDER}, numbers : Seq(0..65535)] /\ 2 * Len(t.numbers) <= 65535

\* A name is cut at 255 characters, and what a client shows of it is that.
AnswerFits(answer) ==
  \/ /\ answer \in [is : {"rows"}, columns : Seq(Text), rows : Seq(Seq(Seq(WordsValue)))]
     /\ \A i \in DOMAIN answer.columns : Len(answer.columns[i]) <= 255
     /\ Len(answer.rows) < Beyond
  \/ answer \in [is : {"complete"}, rows : Counting]
  \/ answer \in [is : {"error"}, number : Signed, text : Text]

\* An option once, as long as it is, its place within a u16; an instance is
\* named up to a zero.
TableFits(options) ==
  /\ options \in Seq([token : 0..254, bytes : Seq(Octet)])
  /\ \A i, j \in DOMAIN options : options[i].token = options[j].token => i = j
  /\ 5 * Len(options) + 1 + Len(Data(options)) <= 65535
  /\ \A i \in DOMAIN options :
       LET bytes == options[i].bytes IN
       CASE options[i].token = VERSION -> Len(bytes) = 6
         [] options[i].token = ENCRYPTION -> Len(bytes) = 1
         [] options[i].token = INSTOPT ->
              Len(bytes) > 0 /\ \A k \in DOMAIN bytes : bytes[k] = 0 <=> k = Len(bytes)
         [] options[i].token = THREADID -> Len(bytes) \in {0, 4}
         [] options[i].token = MARS -> bytes \in {<<>>, <<0>>, <<1>>}
         [] OTHER -> TRUE

PreloginFits(p) ==
  /\ p \in [version : Seq(Octet), encryption : Octet, instance : Seq(Octet \ {0}),
            thread_id : Seq(Octet), mars : BOOLEAN]
  /\ TableFits(OptionsOf(p)) /\ Len(p.thread_id) = 4

LoginFits(login) ==
  /\ login \in [user : Text, password : Text, database : Text, hostname : Text, app_name : Text,
                server_name : Text, library : Text, language : Text, packet_size : Counting]
  /\ FixedLength + Len(FlattenSeq(FieldsOf(login))) <= 65535

\* Headers that say their own length.
HeadersFit(headers) ==
  /\ headers \in Seq(Octet) /\ Len(headers) \in 4..(Beyond - 1)
  /\ SubSeq(headers, 1, 4) = Le(Len(headers), 4)

Fits(s) ==
  \/ /\ s.form \in AnswerForms
     /\ \A tokens \in {TokensOf(s)} :
          /\ tokens \in Seq({tokens[k] : k \in DOMAIN tokens})
          /\ \A k \in DOMAIN tokens : TokenFits(tokens[k], ColumnsBefore(tokens, k))
     /\ s.form = "answer" => AnswerFits(s.content)
     /\ s.form = "welcome" => s.content \in Text
  \/ s.form = "prelogin" /\ PreloginFits(s.content)
  \/ s.form = "table" /\ TableFits(s.content)
  \/ s.form = "login" /\ LoginFits(s.content)
  \/ s.form \in {"batch", "headers"} /\ s.content \in Text
     /\ (s.form = "headers" => HeadersFit(s.headers))

ASSUME PayloadsAssumption ==
  /\ CutWithin \in Nat
  /\ \A s \in Sayings : Fits(s)

-----------------------------------------------------------------------------

Init ==
  /\ said \in Sayings
  /\ \E whole \in {Payload(said)} :
       \E n \in IF Len(whole) <= CutWithin THEN 0..Len(whole) ELSE {Len(whole)} :
         body = SubSeq(whole, 1, n)
  /\ at = 0 /\ columns = <<>> /\ read = <<>> /\ state = "reading"

Tokens == state = "reading" /\ said.form \in AnswerForms

\* A token is read; metadata is kept for the rows to come.
NextToken ==
  /\ Tokens /\ at < Len(body)
  /\ \E next \in {ReadToken(body, at, columns)} :
       /\ next.ok /\ read' = Append(read, next.got) /\ at' = next.at
       /\ columns' = IF next.got.token = COLMETADATA THEN next.got.columns ELSE columns
  /\ UNCHANGED <<said, body, state>>

\* Slip: a byte that is left is taken for none.
EndOfTokensAtTheLast ==
  /\ Tokens /\ at \in {Len(body) - 1, Len(body)}
  /\ state' = "ended"
  /\ UNCHANGED <<said, body, at, columns, read>>

\* No byte is left: None.
EndOfTokens ==
  /\ Tokens /\ at = Len(body)
  /\ state' = "ended"
  /\ UNCHANGED <<said, body, at, columns, read>>

\* A token that is not one, or breaks off.
RefuseToken ==
  /\ Tokens /\ at < Len(body)
  /\ ~ReadToken(body, at, columns).ok
  /\ state' = "refused"
  /\ UNCHANGED <<said, body, at, columns, read>>

\* read_prelogin, read_login7 or read_batch.
ReadOther ==
  /\ state = "reading" /\ said.form \notin AnswerForms
  /\ \E r \in {ReadWhole} :
       IF r.ok THEN /\ read' = <<r.got>> /\ at' = r.at /\ state' = "ended"
       ELSE state' = "refused" /\ UNCHANGED <<read, at>>
  /\ UNCHANGED <<said, body, columns>>

Finished == state # "reading" /\ UNCHANGED vars

Next == NextToken \/ EndOfTokens \/ RefuseToken \/ ReadOther \/ Finished

Spec == Init /\ [][Next]_vars

-----------------------------------------------------------------------------
(* What reading is to make of what was said.                               *)

IsWhole == body = Payload(said)

\* The token a token is read as: a text cut at what counts it, a value as its
\* column holds it.
Meant(t, declared) ==
  CASE t.token = ENVCHANGE ->
         IF t.kind \in 1..6 THEN [t EXCEPT !.new = Cut(@, 255), !.old = Cut(@, 255)]
         ELSE [t EXCEPT !.new = <<>>, !.old = <<>>]
    [] t.token \in {INFO, ERROR} -> [t EXCEPT !.server = Cut(@, 255), !.procedure = Cut(@, 255)]
    [] t.token = LOGINACK -> [t EXCEPT !.program = Cut(@, 255)]
    [] t.token = COLMETADATA ->
         [t EXCEPT !.columns = [i \in DOMAIN @ |-> [@[i] EXCEPT !.name = Cut(@, 255)]]]
    [] t.token = ROW ->
         [t EXCEPT !.values = [i \in DOMAIN @ |-> Held(declared[i].kind, @[i])]]
    [] t.token = NBCROW ->
         [token |-> ROW, values |-> [i \in DOMAIN t.values |->
            IF t.values[i] = NULL THEN NULL ELSE Held(declared[i].kind, t.values[i])]]
    [] OTHER -> t

MeantBy(tokens) == [k \in DOMAIN tokens |-> Meant(tokens[k], ColumnsBefore(tokens, k))]

\* What a pre-login's table says: each option it names, and the default of the
\* others; no thread where none is given.
MeantByTable(options) ==
  LET Says(token) == \E i \in DOMAIN options : options[i].token = token
      Of(token) == options[CHOOSE i \in DOMAIN options : options[i].token = token].bytes
  IN [version |-> IF Says(VERSION) THEN Of(VERSION) ELSE Default.version,
      encryption |-> IF Says(ENCRYPTION) THEN Of(ENCRYPTION)[1] ELSE Default.encryption,
      instance |-> IF Says(INSTOPT) THEN Front(Of(INSTOPT)) ELSE <<>>,
      thread_id |-> IF Says(THREADID) /\ Of(THREADID) # <<>> THEN Of(THREADID)
                    ELSE Default.thread_id,
      mars |-> Says(MARS) /\ Of(MARS) = <<1>>]

-----------------------------------------------------------------------------

\* Whatever columns the rows are written by, with nulls, numbers at the edge of
\* their width and values longer than a length can say, the tokens are read as
\* what was said, one for one and in order, however far reading comes
\* (token.rs:118-323, column.rs:137-281).
TokensAsSaid ==
  said.form \in AnswerForms => IsPrefix(read, MeantBy(TokensOf(said)))

\* An answer that breaks off within a token is an error and never a shorter
\* answer, and nothing else is one (token.rs:239-244).
CutIsTold ==
  said.form \in AnswerForms /\ state # "reading" =>
    (state = "ended" <=>
       \E k \in 0..Len(TokensOf(said)) : body = EncodeTokens(SubSeq(TokensOf(said), 1, k)))

\* A pre-login, in whatever order and with whatever options beside its own,
\* and a login are read as what was said, and one that is cut anywhere is
\* refused: a server's demand for encryption is not lost, nor half a password
\* taken for one (prelogin.rs:86-129, login.rs:116-156).
OpeningAsSaid ==
  said.form \in {"prelogin", "table", "login"} /\ state # "reading" =>
    /\ state = "ended" <=> IsWhole
    /\ IsWhole => read = <<IF said.form = "table" THEN MeantByTable(said.content)
                           ELSE said.content>>

\* A batch is read as the SQL that was written, whatever headers are before
\* it.  What is cut at a character's end is read as a shorter batch: that a
\* batch is whole is framing's to say, and no other SQL is ever read
\* (batch.rs:31-46).
BatchAsSaid ==
  said.form \in {"batch", "headers"} /\ state # "reading" =>
    /\ IsWhole => state = "ended" /\ read = <<said.content>>
    /\ state = "ended" => IsPrefix(read[1], said.content)

\* What a far end answers a batch is what Client::query returns of it: the
\* columns by name, every row with its nulls, the count, or the error with what
\* it says of a retry (session.rs:278-303, client.rs:117-137).
ResultArrives ==
  said.form = "answer" /\ state = "ended" /\ IsWhole =>
    LET answer == said.content
        result == QueryResult(read)
    IN CASE answer.is = "rows" ->
              result = [columns |-> answer.columns, rows |-> answer.rows,
                        rows_affected |-> Len(answer.rows), failed |-> <<>>]
         [] answer.is = "complete" ->
              result = [Nothing EXCEPT !.rows_affected = answer.rows]
         [] answer.is = "error" ->
              result = [Nothing EXCEPT !.failed =
                <<[as |-> IF answer.number \in Retryable THEN "retryable" ELSE "permanent",
                   number |-> answer.number, text |-> answer.text]>>]

\* Whatever packet size a server names, also one that is no number, the client
\* goes on with one the protocol allows; a Session's welcome is an acknowledged
\* login at the size it was (client.rs:71-95, session.rs:134-155).
LoginArrives ==
  said.form \in AnswerForms =>
    LET client == Connected(read) IN
    /\ client.packet_size \in MinPacketSize..MaxPacketSize
    /\ said.form = "welcome" /\ state = "ended" /\ IsWhole =>
         client = [Unknown EXCEPT !.program = <<Program>>]

\* column.rs:173: one cell of kind as text, or `None` where it is null.
OnlyNullsAreNull ==
  said.form = "tokens" =>
    \A k \in DOMAIN read : k <= Len(said.content) /\ said.content[k].token = ROW =>
      \A i \in DOMAIN read[k].values :
        read[k].values[i] = NULL => said.content[k].values[i] = NULL
=============================================================================
