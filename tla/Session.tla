------------------------------- MODULE Session -------------------------------
(***************************************************************************)
(* The server's side of one connection (session.rs): Session::accept       *)
(* answers a pre-login and checks a login, then Session::next_event        *)
(* answers one batch at a time and reports what the client did.            *)
(*                                                                         *)
(* Whoever holds the session drops it after an error and may drop it       *)
(* between two batches.  take_one (lib.rs:348-353) is a holder that reads  *)
(* up to the first INSERT, drops the session with it and returns it.       *)
(***************************************************************************)
EXTENDS Connection, Tokens

CONSTANTS Demands,         \* the logins a far end may demand, or Anyone
          Anyone,          \* no login is demanded
          Holders,         \* who may hold a session: "any", "take one"
          SessionTimeouts  \* whether a session may be given a timeout, or not

ASSUME SessionAssumption ==
  SessionTimeouts \subseteq BOOLEAN /\ Holders \subseteq {"any", "take one"}

VARIABLES farEnd,     \* the login demanded of the client, whether a timeout
                      \* was given, and who holds the session
          session,    \* where the session is
          presented,  \* the login it was given
          answered,   \* the batches answered, in order: number and verb
          events      \* the events reported, in order: number and event

sessionVars == <<farEnd, session, presented, answered, events>>

SessionWaits == {"accepting", "login", "serving"}
SessionStates == SessionWaits \cup {"refused", "taken", "gone"}
EventKinds == {"selected", "inserted", "executed"}

SessionInit ==
  /\ farEnd \in [expected : Demands, timed : SessionTimeouts, holder : Holders]
  /\ session = "accepting"
  /\ presented = "nobody"
  /\ answered = <<>>
  /\ events = <<>>

-----------------------------------------------------------------------------
(* Session::accept                                                         *)

\* The session is done with the connection.
Ends ==
  /\ session' = "gone"
  /\ UNCHANGED <<farEnd, presented, answered, events>>

\* Slip: a message is told by its packet type alone.
WelcomeByType(kind) == First("server").kind = kind

\* Session::read of `kind`: another kind, or one that cannot be read, ends it.
Welcome(kind) == First("server").kind = kind /\ First("server").says # <<"torn">>

AnswerPrelogin ==
  /\ session = "accepting" /\ Waiting("server") /\ Welcome("prelogin")
  /\ session' = "login"
  /\ TakeAndPost("server", Message("tabular", <<"not_sup">>, 0))
  /\ UNCHANGED <<up, farEnd, presented, answered, events>>

Refuses(presents) == farEnd.expected # Anyone /\ presents # farEnd.expected

\* Slip: a login refused is answered by nothing but the close.
CheckLoginSilently ==
  LET presents == First("server").says[1] IN
  /\ session = "login" /\ Waiting("server") /\ Welcome("login7")
  /\ presented' = presents
  /\ \/ /\ Refuses(presents)
        /\ session' = "gone" /\ TakeAndShut("server")
     \/ /\ ~Refuses(presents)
        /\ session' = "serving" /\ UNCHANGED up
        /\ TakeAndPost("server", Message("tabular", LoggedIn, 0))
  /\ UNCHANGED <<farEnd, answered, events>>

\* Slip: a login refused is told so and served all the same.
CheckLoginAndServe ==
  LET presents == First("server").says[1] IN
  /\ session = "login" /\ Waiting("server") /\ Welcome("login7")
  /\ presented' = presents
  /\ session' = "serving"
  /\ TakeAndPost("server",
       Message("tabular", IF Refuses(presents) THEN LoginRefused ELSE LoggedIn, 0))
  /\ UNCHANGED <<up, farEnd, answered, events>>

CheckLogin ==
  LET presents == First("server").says[1] IN
  /\ session = "login" /\ Waiting("server") /\ Welcome("login7")
  /\ presented' = presents
  /\ \/ /\ Refuses(presents)
        /\ session' = "refused"
        /\ TakeAndPost("server", Message("tabular", LoginRefused, 0))
     \/ /\ ~Refuses(presents)
        /\ session' = "serving"
        /\ TakeAndPost("server", Message("tabular", LoggedIn, 0))
  /\ UNCHANGED <<up, farEnd, answered, events>>

\* The refusal is written before accept returns, and the socket then closed.
CloseRefused ==
  /\ session = "refused"
  /\ Ends /\ Shut("server")

-----------------------------------------------------------------------------
(* Session::next_event                                                     *)

\* What a closure says, which may be anything and makes every batch an
\* Executed.  take_one gives its session none.
ClosureAnswers ==
  [tokens : {TableOf(0), TableOf(1), Complete, Refusal("permanent"), Refusal("retryable")},
   event : {"executed"}]

\* Session::answer: the closure first; then the table, the INSERT, and the rest.
AnswersTo(verb) ==
  (IF farEnd.holder = "take one" THEN {} ELSE ClosureAnswers)
  \cup
  CASE verb = "select" -> [tokens : {TableOf(0), TableOf(1)}, event : {"selected"}]
    [] verb = "insert" -> [tokens : {Complete}, event : {"inserted"}]
    [] verb = "insert two" -> [tokens : {Refusal("permanent")}, event : {"executed"}]
    [] OTHER -> [tokens : {Complete}, event : {"executed"}]

\* Slip: a batch that is neither a SELECT nor an INSERT it can read is taken
\* and not answered.
ServeBatchSilently ==
  LET m == First("server") IN
  /\ session = "serving" /\ Take("server") /\ Welcome("batch")
  /\ answered' = Append(answered, [no |-> m.no, did |-> "executed"])
  /\ events' = Append(events, [no |-> m.no, did |-> "executed"])
  /\ UNCHANGED <<session, up, farEnd, presented>>

\* Slip: an answer that could not be written does not end the session.
ServeBatchRegardless ==
  LET m == First("server") IN
  /\ session = "serving" /\ Waiting("server") /\ Welcome("batch")
  /\ \E a \in AnswersTo(m.says[1]) :
       /\ answered' = Append(answered, [no |-> m.no, did |-> a.event])
       /\ TakeAndPost("server", Message("tabular", a.tokens, m.no))
       /\ events' = IF up["client"]
                    THEN Append(events, [no |-> m.no, did |-> a.event]) ELSE events
  /\ UNCHANGED <<session, up, farEnd, presented>>

\* Slip: take_one waits for the next insert as well.
TakenLater(event) == FALSE

\* next_insert has what it waited for.
TakenBy(event) == farEnd.holder = "take one" /\ event = "inserted"

\* Slip: an insert that is taken is not answered first.
ServeBatchTakingIt ==
  LET m == First("server") IN
  /\ session = "serving" /\ Waiting("server") /\ Welcome("batch")
  /\ \E a \in AnswersTo(m.says[1]) :
       /\ answered' = Append(answered, [no |-> m.no, did |-> a.event])
       /\ events' = Append(events, [no |-> m.no, did |-> a.event])
       /\ IF TakenBy(a.event)
          THEN session' = "taken" /\ Take("server")
          ELSE UNCHANGED session /\ TakeAndPost("server", Message("tabular", a.tokens, m.no))
  /\ UNCHANGED <<up, farEnd, presented>>

\* A batch is answered, and only then reported: a write that fails loses
\* the event of a batch that was answered all the same.
ServeBatch ==
  LET m == First("server") IN
  /\ session = "serving" /\ Waiting("server") /\ Welcome("batch")
  /\ \E a \in AnswersTo(m.says[1]) :
       /\ answered' = Append(answered, [no |-> m.no, did |-> a.event])
       /\ \/ /\ TakeAndPost("server", Message("tabular", a.tokens, m.no))
             /\ events' = Append(events, [no |-> m.no, did |-> a.event])
             /\ session' = IF TakenBy(a.event) THEN "taken" ELSE session
             /\ UNCHANGED up
          \/ /\ ~up["client"]
             /\ session' = "gone" /\ TakeAndShut("server")
             /\ UNCHANGED events
  /\ UNCHANGED <<farEnd, presented>>

-----------------------------------------------------------------------------

\* A message that is not what was due ends the session with an error.
RejectMessage ==
  /\ session \in SessionWaits /\ Waiting("server")
  /\ ~Welcome(CASE session = "accepting" -> "prelogin"
                [] session = "login" -> "login7"
                [] session = "serving" -> "batch")
  /\ Ends /\ TakeAndShut("server")

\* Slip: once logged in, the end of the connection is not looked for.
SeesEndBeforeLogin ==
  /\ session \in {"accepting", "login"} /\ AtEnd("server")
  /\ Ends /\ Shut("server")

\* The client has closed: an error before the login, None after it.
SeesEnd ==
  /\ session \in SessionWaits /\ AtEnd("server")
  /\ Ends /\ Shut("server")

SessionTimesOut ==
  /\ farEnd.timed
  /\ session \in SessionWaits /\ ~Waiting("server")
  /\ Ends /\ Shut("server")

\* take_one returns, and with it the session it accepted is dropped.
CloseTaken ==
  /\ session = "taken"
  /\ Ends /\ Shut("server")

\* A holder of its own mind lets go of a session that is logged in.
DropSession ==
  /\ session = "serving" /\ farEnd.holder = "any"
  /\ Ends /\ Shut("server")

SessionReads == AnswerPrelogin \/ CheckLogin \/ ServeBatch \/ RejectMessage \/ SeesEnd
SessionCloses == CloseRefused \/ CloseTaken
SessionSteps == SessionReads \/ SessionCloses \/ SessionTimesOut \/ DropSession

-----------------------------------------------------------------------------
(* What a session is relied on for, whatever client it meets.              *)

\* What is reported is what was answered, in order and without a gap; only
\* the last answer may be missing, and only when the session ended on it
\* (session.rs:233-243: "what it did, in order").
ReportedIsAnswered ==
  /\ Len(answered) - Len(events) \in {0, 1}
  /\ events = SubSeq(answered, 1, Len(events))
  /\ events # answered => session = "gone"

\* No batch is answered before a login was taken, nor after one was refused,
\* whatever was sent ahead of its turn (session.rs:109-132).
AnswersOnlyTheLoggedIn ==
  answered # <<>> \/ session = "serving" =>
    presented # "nobody" /\ ~Refuses(presented)

\* take_one ends with the first INSERT and takes no second, and what it returns
\* was answered (lib.rs:348-353, session.rs:204-211).
TakesTheFirst ==
  farEnd.holder = "take one" =>
    \A i \in DOMAIN events : events[i].did = "inserted" =>
      /\ i = Len(answered) /\ answered[i] = events[i]
      /\ session \in {"taken", "gone"}
=============================================================================
