------------------------------- MODULE Client -------------------------------
(***************************************************************************)
(* The client's side of one connection (client.rs): Client::connect, then  *)
(* any number of Client::query, one at a time, then Client::close.         *)
(*                                                                         *)
(* Each read may fail: the server has closed, or the transport was given a *)
(* timeout and it has passed.  A failed connect leaves no client, its      *)
(* socket closed.  What becomes of a client whose query failed is up to    *)
(* who holds it: DropsAfterError is one that closes it, as a pool must     *)
(* that hands its connections on; FALSE is a holder of the public type     *)
(* that asks again.                                                        *)
(***************************************************************************)
EXTENDS Connection, Tokens

CONSTANTS Logins,           \* the logins a client may present
          MaxBatches,       \* bound: how many batches it runs
          Verbs,            \* what a batch may say
          ClientTimeouts,   \* whether it may be given a timeout, or may not
          DropsAfterError   \* whether its holder drops it after a failed query

ASSUME ClientAssumption ==
  /\ MaxBatches \in Nat
  /\ ClientTimeouts \subseteq BOOLEAN /\ DropsAfterError \in BOOLEAN

VARIABLES given,     \* what it was given: its login, and whether a timeout
          client,    \* "connected", one of ClientWaits, "ready" or "gone"
          why,       \* why there is no connection: for its holder
          asked,     \* how many batches it has written
          results    \* results[i]: what its i-th query returned

clientVars == <<given, client, why, asked, results>>

\* Waiting for the answer to the pre-login, to LOGIN7, to a batch.
ClientWaits == {"prelogin", "login", "query"}

ClientInit ==
  /\ given \in [login : Logins, timed : ClientTimeouts]
  /\ client = "connected"
  /\ why = "none"
  /\ asked = 0
  /\ results = <<>>

\* The pre-login says encryption is not available on this side.
PreloginMessage == Message("prelogin", <<"not_sup">>, 0)
LoginMessage == Message("login7", <<given.login>>, 0)
BatchMessage(verb) == Message("batch", <<verb>>, asked + 1)

\* What both sides answer and what Client::read accepts: a tabular result.
Tabular(says, no) == Message("tabular", says, no)

-----------------------------------------------------------------------------
(* Client::connect                                                         *)

SendPrelogin ==
  /\ client = "connected"
  /\ client' = "prelogin"
  /\ Post("client", PreloginMessage)
  /\ UNCHANGED <<up, given, why, asked, results>>

\* Connect returns an error and its socket is closed.
GivesUp(reason) ==
  /\ client' = "gone"
  /\ why' = reason
  /\ UNCHANGED <<given, asked, results>>

\* Slip: only a server that requires encryption is turned away, not one that
\* has it on.
UnencryptedOrOn == {"not_sup", "off", "on"}

\* The answers that let the login go out in the clear.
Unencrypted == {"not_sup", "off"}

\* The server's answer to the pre-login, which is one byte as far as the
\* client looks, or cannot be read.
ReadPrelogin ==
  LET m == First("client") IN
  /\ client = "prelogin" /\ Waiting("client")
  /\ \/ /\ m.kind = "tabular" /\ m.says[1] \in Unencrypted
        /\ client' = "login"
        /\ TakeAndPost("client", LoginMessage)
        /\ UNCHANGED <<up, given, why, asked, results>>
     \/ /\ m.kind = "tabular" /\ m.says[1] \in {"on", "required"}
        /\ TakeAndShut("client")
        /\ GivesUp("encryption")
     \/ /\ m.kind # "tabular" \/ m.says[1] = "torn"
        /\ TakeAndShut("client")
        /\ GivesUp("protocol")

AnswerOutcome(m, read) == IF m.kind = "tabular" THEN read ELSE "protocol"

ReadLoginAnswer ==
  LET outcome == AnswerOutcome(First("client"), LoginOutcome(First("client").says)) IN
  /\ client = "login" /\ Waiting("client")
  /\ \/ /\ outcome = "in"
        /\ client' = "ready"
        /\ Take("client")
        /\ UNCHANGED <<up, given, why, asked, results>>
     \/ /\ outcome # "in"
        /\ TakeAndShut("client")
        /\ GivesUp(outcome)

-----------------------------------------------------------------------------
(* Client::query                                                           *)

\* Slip: a batch is written while the answer to the last is still due.
AskAhead ==
  /\ client \in {"ready", "query"} /\ asked < MaxBatches
  /\ client' = "query"
  /\ \E verb \in Verbs : Post("client", BatchMessage(verb))
  /\ asked' = asked + 1
  /\ UNCHANGED <<up, given, why, results>>

Ask ==
  /\ client = "ready" /\ asked < MaxBatches
  /\ client' = "query"
  /\ \E verb \in Verbs : Post("client", BatchMessage(verb))
  /\ asked' = asked + 1
  /\ UNCHANGED <<up, given, why, results>>

\* The query returns `outcome`, taken from an answer to the batch `to`.
Answered(outcome, to) == results' = Append(results, [as |-> outcome, to |-> to])

\* The holder keeps the client, or drops it with the error it got.
Keeps == client' = "ready" /\ UNCHANGED <<up, given, why, asked>>
Drops(reason) == client' = "gone" /\ why' = reason /\ UNCHANGED <<given, asked>>

ReadAnswer ==
  LET m == First("client")
      outcome == AnswerOutcome(m, QueryOutcome(m.says))
  IN
  /\ client = "query" /\ Waiting("client")
  /\ Answered(outcome, m.no)
  /\ \/ /\ outcome \in {"ok"} \cup Errors \/ ~DropsAfterError
        /\ Keeps /\ Take("client")
     \/ /\ outcome # "ok" /\ DropsAfterError
        /\ Drops(outcome) /\ TakeAndShut("client")

-----------------------------------------------------------------------------

\* Slip: the timeout is not set on the socket's reads.
ReadEndsByClose(reason) == reason = "closed" /\ AtEnd("client")

\* A read that ends without a message, and what it is called.
ReadEnds(reason) ==
  \/ reason = "closed" /\ AtEnd("client")
  \/ reason = "timeout" /\ given.timed /\ ~Waiting("client")

ConnectFails ==
  /\ client \in {"prelogin", "login"}
  /\ \E reason \in {"closed", "timeout"} : ReadEnds(reason) /\ GivesUp(reason)
  /\ Shut("client")

\* Slip: a client that timed out is used again.
QueryFailsAndGoesOn ==
  /\ client = "query"
  /\ \E reason \in {"closed", "timeout"} : ReadEnds(reason) /\ Answered(reason, asked)
  /\ Keeps /\ UNCHANGED inbox

QueryFails ==
  /\ client = "query"
  /\ \E reason \in {"closed", "timeout"} :
       /\ ReadEnds(reason)
       /\ Answered(reason, asked)
       /\ IF DropsAfterError
          THEN Drops(reason) /\ Shut("client")
          ELSE Keeps /\ UNCHANGED inbox

\* Client::close, or the holder lets go of it.
HangUp ==
  /\ client = "ready"
  /\ client' = "gone" /\ why' = "hung up"
  /\ Shut("client")
  /\ UNCHANGED <<given, asked, results>>

ClientReads == ReadPrelogin \/ ReadLoginAnswer \/ ReadAnswer
ClientFails == ConnectFails \/ QueryFails
ClientSteps == SendPrelogin \/ ClientReads \/ ClientFails \/ Ask \/ HangUp
=============================================================================
