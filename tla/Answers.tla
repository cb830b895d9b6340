------------------------------- MODULE Answers -------------------------------
(***************************************************************************)
(* What a Session's answers are as tokens (session.rs:122-155, 278-303),   *)
(* and what Client makes of the tokens it is answered (client.rs:71-138).  *)
(* The text of what a Session refuses or tells is the client's to show.    *)
(***************************************************************************)
EXTENDS TokenStream

DONE_ERROR == 2
DONE_COUNT == 16

\* Slip: the count is told by another bit.
CountsByAnother(status) == (status \div DONE_ERROR) % 2 = 1

\* Whether a DONE's count means anything.
Counts(status) == (status \div DONE_COUNT) % 2 = 1

ENV_DATABASE == 1
ENV_PACKET_SIZE == 4

DefaultPacketSize == 4096
MinPacketSize == 512
MaxPacketSize == 32767

Done(status, rows) == [token |-> DONE, status |-> status, rows |-> rows]
Message(token, number, class, text) ==
  [token |-> token, number |-> number, state |-> 1, class |-> class, text |-> text,
   server |-> <<>>, procedure |-> <<>>, line |-> 1]
EnvChange(kind, new, old) == [token |-> ENVCHANGE, kind |-> kind, new |-> new, old |-> old]

-----------------------------------------------------------------------------
(* Session.                                                                *)

Master == <<109, 97, 115, 116, 101, 114>>
Context == <<67, 104>>            \* "Changed database context ..."
Program == <<120, 109, 105, 112>> \* "Microsoft SQL Server (xmip)"
SizeText == <<52, 48, 57, 54>>    \* "4096"

\* Session::accept, a login taken.
LoggedIn(database) ==
  <<EnvChange(ENV_DATABASE, database, Master), Message(INFO, 5701, 0, Context \o database),
    EnvChange(ENV_PACKET_SIZE, SizeText, SizeText),
    [token |-> LOGINACK, version |-> <<116, 0, 0, 4>>, program |-> Program], Done(0, 0)>>

\* Session::write_answer: rows, every column text; a count; an error.
Rows(columns, rows) == [is |-> "rows", columns |-> columns, rows |-> rows]
Complete(rows) == [is |-> "complete", rows |-> rows]
Error(number, text) == [is |-> "error", number |-> number, text |-> text]

AnswerTokens(answer) ==
  CASE answer.is = "rows" ->
         <<[token |-> COLMETADATA,
            columns |-> [i \in DOMAIN answer.columns |->
                           Column(answer.columns[i], Kind("NVarChar", MAX))]]>>
         \o [i \in DOMAIN answer.rows |-> [token |-> ROW, values |-> answer.rows[i]]]
         \o <<Done(DONE_COUNT, Len(answer.rows))>>
    [] answer.is = "complete" -> <<Done(DONE_COUNT, answer.rows)>>
    [] answer.is = "error" ->
         <<Message(ERROR, answer.number, 16, answer.text), Done(DONE_ERROR, 0)>>

-----------------------------------------------------------------------------
(* Client.                                                                 *)

Retryable ==
  {-2, 233, 1204, 1205, 1222, 8645, 8651, 10053, 10054, 10060, 40197, 40501, 40613,
   49918, 49919, 49920}
SqlError(message) ==
  [as |-> IF message.number \in Retryable THEN "retryable" ELSE "permanent",
   number |-> message.number, text |-> message.text]

\* A text of up to nine digits as the u16 it is written for; none otherwise.
ParseU16(text) ==
  LET digits == IF text # <<>> /\ text[1] = 43 THEN Tail(text) ELSE text
      number == FoldLeft(LAMBDA high, digit : 10 * high + digit - 48, 0, Cut(digits, 9))
  IN IF digits = <<>> \/ Len(digits) > 9 \/ (\E i \in DOMAIN digits : digits[i] \notin 48..57)
        \/ number > 65535
     THEN NULL ELSE <<number>>

\* Slip: any size a server names is settled on.
SettleOnAny(size) == size

Settle(size) ==
  IF size < MinPacketSize THEN MinPacketSize
  ELSE IF size > MaxPacketSize THEN MaxPacketSize ELSE size

\* The loop of Client::connect: what it knows after one more token.
Learn(client, t) ==
  IF client.failed # <<>> THEN client
  ELSE CASE t.token = LOGINACK -> [client EXCEPT !.program = <<t.program>>]
         [] t.token = ENVCHANGE /\ t.kind = ENV_PACKET_SIZE /\ ParseU16(t.new) # NULL ->
              [client EXCEPT !.packet_size = Settle(ParseU16(t.new)[1])]
         [] t.token = ERROR -> [client EXCEPT !.failed = <<SqlError(t)>>]
         [] OTHER -> client

Unknown == [program |-> <<>>, packet_size |-> DefaultPacketSize, failed |-> <<>>]
\* What the loop of connect has made of them; that there was an acknowledgement
\* is asked after it (Tokens!LoginOutcome).
Connected(tokens) == FoldLeft(Learn, Unknown, tokens)

\* The loop of Client::query: the columns are the last, the rows all there are.
Gather(result, t) ==
  CASE t.token = COLMETADATA ->
         [result EXCEPT !.columns = [i \in DOMAIN t.columns |-> t.columns[i].name]]
    [] t.token = ROW -> [result EXCEPT !.rows = Append(@, t.values)]
    [] t.token = ERROR -> [result EXCEPT !.failed = <<SqlError(t)>>]
    [] t.token \in Dones /\ Counts(t.status) -> [result EXCEPT !.rows_affected = t.rows]
    [] OTHER -> result

Nothing == [columns |-> <<>>, rows |-> <<>>, rows_affected |-> 0, failed |-> <<>>]
QueryResult(tokens) == FoldLeft(Gather, Nothing, tokens)
=============================================================================
