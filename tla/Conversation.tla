---------------------------- MODULE Conversation ----------------------------
(***************************************************************************)
(* A Client and a Session on one connection: what the transport's two ends *)
(* make of each other, from the pre-login to the close.                    *)
(***************************************************************************)
EXTENDS Client, Session

vars == <<inbox, up, clientVars, sessionVars>>

Init == ConnectionInit /\ ClientInit /\ SessionInit

ClientMoves == ClientSteps /\ UNCHANGED sessionVars
SessionMoves == SessionSteps /\ UNCHANGED clientVars

Finished == client = "gone" /\ session = "gone" /\ UNCHANGED vars

Next == ClientMoves \/ SessionMoves \/ Finished

Spec == Init /\ [][Next]_vars

\* What runs by itself: a side that has something to read, or to fail at,
\* does so; connect writes its pre-login; a session that refused
\* a login or was given up for its insert closes.
\* Whether a batch is ever asked, and when either holder lets go, is not up
\* to this code.
Fairness ==
  /\ WF_vars((SendPrelogin \/ ClientReads \/ ClientFails) /\ UNCHANGED sessionVars)
  /\ WF_vars((SessionReads \/ SessionCloses) /\ UNCHANGED clientVars)

FairSpec == Spec /\ Fairness

-----------------------------------------------------------------------------

\* Every query returns what the server answered that very batch, and an Ok
\* or a server's error only of a batch the server did answer: no answer is
\* ever one batch late.
EveryAnswerIsOwn ==
  \A i \in DOMAIN results :
    results[i].as \notin {"closed", "timeout"} =>
      /\ results[i].to = i
      /\ \E j \in DOMAIN answered : answered[j].no = i

\* The protocol alternates: never is a message of one side under way while
\* the other's is, nor two of one side - so nothing is left unread for the
\* next batch (client.rs:177-178), and a close resets nothing but an answer
\* nobody waits for.
OneMessageUnderWay ==
  /\ Len(inbox["client"]) + Len(inbox["server"]) <= 1
  /\ client = "ready" => inbox["client"] = <<>> /\ inbox["server"] = <<>>

\* A client that thinks itself logged in is: its session took its login, and
\* where the far end demands a login it was that one.
LoggedInTogether ==
  /\ client \in {"ready", "query"} \/ asked > 0 =>
       /\ session \in {"serving", "taken", "gone"} /\ presented = given.login
       /\ ~Refuses(given.login)

\* A client that presented a login the far end does not take is told so with
\* the server's error, unless it stopped waiting: the refusal is not lost
\* to the close that follows it (session.rs:88-89).
RefusalIsTold ==
  client = "gone" /\ presented # "nobody" /\ Refuses(presented) =>
    why \in {"permanent", "timeout"}

\* What take_one returns as a Stream its sender is told was inserted, unless it
\* stopped waiting: the close that comes right after the answer, with no more
\* to read, does not overtake it (lib.rs:348-353, 369-376).
TakenIsTold ==
  farEnd.holder = "take one" =>
    \A i \in DOMAIN events :
      events[i].did = "inserted" /\ events[i].no <= Len(results) =>
        results[events[i].no].as \in {"ok", "timeout"}

\* Neither connect nor a query waits for ever on a session that is there or
\* has gone, with no timeout to help: the two sides never wait on each other.
ClientIsServed == client \in {"connected"} \cup ClientWaits ~> client \in {"ready", "gone"}

\* What client.rs:177-178 says of a client: "Each batch is read to its last
\* token, so nothing of one is left for the next."
NothingLeftForTheNext ==
  client = "ready" => inbox["client"] = <<>> /\ inbox["server"] = <<>>

-----------------------------------------------------------------------------
(* The inductive invariant, of a client whose holder drops it with the     *)
(* first query that failed.                                                *)

Outcomes == {"ok", "protocol", "closed", "timeout"} \cup Errors

\* A socket is open as long as its side goes on; a query in progress is the
\* one without a result.
Kept ==
  /\ DOMAIN inbox = Sides /\ up \in [Sides -> BOOLEAN]
  /\ up["client"] <=> client # "gone"
  /\ up["server"] <=> session # "gone"
  /\ client \in {"connected", "ready", "gone"} \cup ClientWaits
  /\ session \in SessionStates
  /\ client = "connected" => session \in {"accepting", "gone"}
  /\ asked \in Nat /\ results \in Seq([as : Outcomes, to : Nat])
  /\ Len(results) = IF client = "query" THEN asked - 1 ELSE asked
  /\ answered \in Seq([no : Nat, did : EventKinds])
  /\ events \in Seq([no : Nat, did : EventKinds])

\* What lies at a client is what it waits for, and then nothing lies at its
\* session.
AtClient ==
  \/ inbox["client"] = <<>>
  \/ /\ inbox["server"] = <<>>
     /\ \/ /\ client = "prelogin" /\ session \in {"login", "gone"}
           /\ inbox["client"] = <<Tabular(<<"not_sup">>, 0)>>
        \/ /\ client = "login" /\ session \in {"serving", "gone"}
           /\ inbox["client"] = <<Tabular(LoggedIn, 0)>>
           /\ presented = given.login /\ ~Refuses(presented)
        \/ /\ client = "login" /\ session \in {"refused", "gone"}
           /\ inbox["client"] = <<Tabular(LoginRefused, 0)>>
        \/ /\ client = "query"
           /\ inbox["client"] = <<Tabular(First("client").says, asked)>>
           /\ First("client").says \in Seq(TokenKinds)
           /\ \E j \in DOMAIN answered : answered[j].no = asked

\* What lies at a session is what it waits for, of a client that waits for its
\* answer or gave that up.
AtSession ==
  \/ inbox["server"] = <<>>
  \/ /\ inbox["client"] = <<>>
     /\ client = "gone" => why = "timeout"
     /\ \/ /\ session = "accepting" /\ client \in {"prelogin", "gone"}
           /\ inbox["server"] = <<PreloginMessage>>
        \/ /\ session = "login" /\ client \in {"login", "gone"}
           /\ inbox["server"] = <<LoginMessage>>
        \/ /\ session \in {"serving", "taken"} /\ client \in {"query", "gone"}
           /\ inbox["server"] = <<Message("batch", First("server").says, asked)>>
           /\ client = "gone" => asked > 0 /\ results[asked].as = "timeout"

\* A refusal waits at its client until it is read.
RefusalWaits ==
  presented # "nobody" /\ Refuses(presented) =>
    \/ client = "gone"
    \/ client = "login" /\ inbox["client"] = <<Tabular(LoginRefused, 0)>>

\* That an insert was taken waits at its sender until it is read.
TakenWaits ==
  farEnd.holder = "take one" =>
    \A i \in DOMAIN events : events[i].did = "inserted" =>
      \/ events[i].no \in DOMAIN results /\ results[events[i].no].as \in {"ok", "timeout"}
      \/ /\ client = "query" /\ events[i].no = asked
         /\ inbox["client"] = <<Tabular(Complete, asked)>>

\* All of it: what the turns of both sides rest on (client.rs:47-138,
\* session.rs:90-243).
Inv ==
  /\ Kept /\ AtClient /\ AtSession /\ RefusalWaits /\ TakenWaits
  /\ EveryAnswerIsOwn /\ LoggedInTogether /\ RefusalIsTold
=============================================================================
