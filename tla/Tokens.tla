------------------------------- MODULE Tokens -------------------------------
(***************************************************************************)
(* What the client makes of an answer.  An answer is a token stream, here  *)
(* a sequence of what the two loops of client.rs tell apart:               *)
(*    "ack"        LOGINACK                                                *)
(*    "columns"    COLMETADATA                                             *)
(*    "row"        ROW or NBCROW, read by the columns before it            *)
(*    "count"      DONE, DONEPROC or DONEINPROC with DONE_COUNT set        *)
(*    "done"       the same without it                                     *)
(*    "permanent"  ERROR with a number no retry helps                      *)
(*    "retryable"  ERROR with a number of client.rs:191                    *)
(*    "other"      INFO, ENVCHANGE, RETURNSTATUS, ORDER                    *)
(*    "torn"       a token next_token (token.rs:241) does not read         *)
(***************************************************************************)
EXTENDS Naturals, Sequences, SequencesExt

Errors == {"permanent", "retryable"}
TokenKinds == {"ack", "columns", "row", "count", "done", "other", "torn"} \cup Errors

\* The loop of Client::connect: the first error or unreadable token ends it.
Stops == Errors \cup {"torn"}

\* Slip: a login is taken for granted unless a token cannot be read.
LoginUnlessTorn(tokens) == IF Contains(tokens, "torn") THEN "protocol" ELSE "in"

LoginOutcome(tokens) ==
  LET at == SelectInSeq(tokens, LAMBDA t : t \in Stops) IN
  IF at # 0
  THEN IF tokens[at] = "torn" THEN "protocol" ELSE tokens[at]
  ELSE IF Contains(tokens, "ack") THEN "in" ELSE "protocol"

\* Slip: the first error of an answer is kept instead of the last.
GatherFirst(result, t) ==
  IF result.torn THEN result
  ELSE CASE t \in Errors /\ result.failed = "none" -> [result EXCEPT !.failed = t]
         [] t = "torn" -> [result EXCEPT !.torn = TRUE]
         [] OTHER -> result

\* The loop of Client::query: an unreadable token ends it, an error is kept
\* and replaced by the next.  What is gathered of the others is in Answers.
Gather(result, t) ==
  IF result.torn THEN result
  ELSE CASE t \in Errors -> [result EXCEPT !.failed = t]
         [] t = "torn"   -> [result EXCEPT !.torn = TRUE]
         [] OTHER        -> result

Nothing == [failed |-> "none", torn |-> FALSE]

Gathered(tokens) == FoldLeft(Gather, Nothing, tokens)

QueryOutcome(tokens) ==
  LET result == Gathered(tokens) IN
  IF result.torn THEN "protocol"
  ELSE IF result.failed # "none" THEN result.failed ELSE "ok"

\* What the server's side sends.  Session::accept: the login taken, refused.
LoggedIn == <<"other", "other", "other", "ack", "done">>
LoginRefused == <<"permanent", "done">>

\* Session::write_answer: a table, a count, an error.
TableOf(rows) == <<"columns">> \o [i \in 1..rows |-> "row"] \o <<"count">>
Complete == <<"count">>
Refusal(error) == <<error, "done">>
=============================================================================
