---------------------------- MODULE ClientMeets ----------------------------
(***************************************************************************)
(* A Client and any server: one that answers each message once with        *)
(* whatever it likes, in whatever packet type, or not at all, and closes   *)
(* when it likes.  The server is not this repository's; what it may do is  *)
(* what Client::connect and Client::query are written to meet.             *)
(***************************************************************************)
EXTENDS Client

CONSTANTS PreloginAnswers,  \* what the encryption byte may say, or "torn"
          TokenStreams      \* what an answer's tokens may be

\* What Message::parse and next_token make of an answer (client.rs:59, 74, 118).
ASSUME ClientMeetsAssumption == TokenStreams \subseteq Seq(TokenKinds)

VARIABLES heard,   \* the packet types the server has read, in order
          said     \* the answers it has written, in order

serverVars == <<heard, said>>
vars == <<inbox, up, clientVars, serverVars>>

Init == ConnectionInit /\ ClientInit /\ heard = <<>> /\ said = <<>>

ClientMoves == ClientSteps /\ UNCHANGED serverVars

\* The answers to a message of this kind.
AnswersTo(kind) ==
  IF kind = "prelogin" THEN {<<e>> : e \in PreloginAnswers} ELSE TokenStreams

ServerAnswers ==
  LET m == First("server") IN
  /\ up["server"] /\ Waiting("server")
  /\ heard' = Append(heard, m.kind)
  /\ \E kind \in {"tabular", "batch"}, says \in AnswersTo(m.kind) :
       /\ TakeAndPost("server", Message(kind, says, m.no))
       /\ said' = Append(said, Message(kind, says, m.no))
  /\ UNCHANGED <<up, clientVars>>

ServerShuts ==
  /\ up["server"]
  /\ Shut("server")
  /\ UNCHANGED <<clientVars, serverVars>>

Finished == client = "gone" /\ ~up["server"] /\ UNCHANGED vars

Next == ClientMoves \/ ServerAnswers \/ ServerShuts \/ Finished

Spec == Init /\ [][Next]_vars

\* Nothing is asked of the server, not even that it answers.
FairSpec ==
  Spec /\ WF_vars((SendPrelogin \/ ClientReads \/ ClientFails) /\ UNCHANGED serverVars)

-----------------------------------------------------------------------------

\* The login, and with it the password, is written only to a server whose
\* pre-login did not ask for encryption, and a batch only to one that
\* acknowledged the login and refused nothing (client.rs:63-94).
TrustedStepByStep ==
  /\ Contains(heard, "login7") =>
       said[1].kind = "tabular" /\ said[1].says[1] \notin {"on", "required", "torn"}
  /\ Contains(heard, "batch") =>
       /\ said[2].kind = "tabular" /\ Contains(said[2].says, "ack")
       /\ ToSet(said[2].says) \cap Stops = {}

\* A query returns Ok only on an answer read whole in which nothing failed,
\* and a server's error only on one read whole whose last error it is.
OutcomeIsWhatWasSaid ==
  \A i \in DOMAIN results :
    LET says == said[i + 2].says IN
    results[i].as \in {"ok", "permanent", "retryable"} =>
      /\ said[i + 2].kind = "tabular" /\ ~Contains(says, "torn")
      /\ results[i].as = "ok" <=> ToSet(says) \cap Errors = {}
      /\ results[i].as # "ok" =>
           \E j \in DOMAIN says :
             /\ says[j] = results[i].as
             /\ \A l \in DOMAIN says : l > j => says[l] \notin Errors

\* A client with a timeout returns from connect and from every query, even
\* to a server that goes silent with the connection open.
SilenceEnds ==
  given.timed /\ client \in {"connected"} \cup ClientWaits ~> client \in {"ready", "gone"}

-----------------------------------------------------------------------------
(* The inductive invariant.                                                *)

Answers == [kind : {"tabular", "batch"}, says : Seq(PreloginAnswers \cup TokenKinds), no : Nat]
Asks == [kind : {"prelogin", "login7", "batch"},
         says : Seq({"not_sup"} \cup Logins \cup Verbs), no : Nat]
Outcomes == {"ok", "protocol", "closed", "timeout"} \cup Errors

TypeOK ==
  /\ DOMAIN inbox = Sides /\ up \in [Sides -> BOOLEAN]
  /\ inbox["client"] \in Seq(Answers) /\ inbox["server"] \in Seq(Asks)
  /\ given \in [login : Logins, timed : ClientTimeouts]
  /\ client \in {"connected", "ready", "gone"} \cup ClientWaits
  /\ up["client"] <=> client # "gone"
  /\ asked \in Nat /\ results \in Seq([as : Outcomes, to : Nat])
  /\ said \in Seq(Answers) /\ Len(heard) = Len(said)
  /\ heard \in Seq({"prelogin", "login7", "batch"})

\* The packet type of the client's n-th message.
Due(n) == IF n = 1 THEN "prelogin" ELSE IF n = 2 THEN "login7" ELSE "batch"

\* How many messages a client that goes on has written, and how many answers it
\* has read, if it drops with a query that failed.
HasSent == CASE client = "connected" -> 0
             [] client = "prelogin"  -> 1
             [] client = "login"     -> 2
             [] OTHER                -> 2 + asked
HasRead == CASE client \in {"connected", "prelogin"} -> 0
             [] client = "login"                     -> 1
             [] OTHER                                -> 2 + Len(results)

\* How many messages the server has read or may yet read.
Arrived == Len(heard) + Len(inbox["server"])

\* What the server has read and what lies there is what the client wrote, in
\* order, all of it as long as both go on.
InTurn ==
  /\ \A n \in DOMAIN heard : heard[n] = Due(n)
  /\ \A j \in DOMAIN inbox["server"] : inbox["server"][j].kind = Due(Len(heard) + j)
  /\ ~up["server"] => inbox["server"] = <<>>
  /\ client # "gone" =>
       /\ Len(results) = IF client = "query" THEN asked - 1 ELSE asked
       /\ client \notin {"ready", "query"} => asked = 0
       /\ IF up["server"] THEN Arrived = HasSent ELSE Arrived <= HasSent

\* What lies at the client is what the server said after what was read.
InAnswer ==
  client # "gone" /\ (DropsAfterError \/ client \notin {"ready", "query"}) =>
    /\ \A j \in DOMAIN inbox["client"] : inbox["client"][j] = said[HasRead + j]
    /\ IF up["server"] THEN Len(said) = HasRead + Len(inbox["client"])
       ELSE Len(said) >= HasRead + Len(inbox["client"])

\* The answers that let the login go out, and the first batch.
SaidUnencrypted ==
  /\ Len(said) >= 1 /\ said[1].kind = "tabular" /\ said[1].says[1] \in Unencrypted
SaidIn ==
  /\ Len(said) >= 2 /\ said[2].kind = "tabular" /\ Contains(said[2].says, "ack")
  /\ ToSet(said[2].says) \cap Stops = {}

\* They were said before the login, or a batch, is on its way.
Trusted ==
  /\ Arrived >= 2 \/ client \in {"login", "ready", "query"} => SaidUnencrypted
  /\ Arrived >= 3 \/ client \in {"ready", "query"} => SaidIn

\* What the i-th query returned is of what was said to it, which stays.
OfWhatWasSaid ==
  DropsAfterError =>
    /\ \A i \in DOMAIN results : results[i].as \in {"ok"} \cup Errors => i + 2 <= Len(said)
    /\ OutcomeIsWhatWasSaid

\* All of it: what Client::connect and Client::query rest on, whatever the
\* server does (client.rs:47-138).
Inv == TypeOK /\ InTurn /\ InAnswer /\ Trusted /\ OfWhatWasSaid
=============================================================================
