---------------------------- MODULE SessionMeets ----------------------------
(***************************************************************************)
(* A Session and any client: one that writes what it likes when it likes,  *)
(* ahead of its turn and out of order, reads what it is sent or does not,  *)
(* and closes when it likes.                                               *)
(***************************************************************************)
EXTENDS Session

CONSTANTS Logins,      \* the logins a client may present
          Verbs,       \* what a batch may say
          MaxSent      \* bound: how many messages the client writes

\* "nobody" is who a session has been given no login by.
ASSUME SessionMeetsAssumption == MaxSent \in Nat /\ "nobody" \notin Logins

VARIABLE sent   \* sent: the messages the client has written, in order

vars == <<inbox, up, sessionVars, sent>>

Init == ConnectionInit /\ SessionInit /\ sent = <<>>

SessionMoves == SessionSteps /\ UNCHANGED sent

\* The n-th message of a client: any of its kinds, or one nobody reads.
Sendable(n) ==
  {Message("prelogin", <<says>>, n) : says \in {"not_sup", "torn"}}
  \cup {Message("login7", <<login>>, n) : login \in Logins \cup {"torn"}}
  \cup {Message("batch", <<verb>>, n) : verb \in Verbs \cup {"torn"}}
  \cup {Message("attention", <<>>, n)}

ClientSends ==
  /\ up["client"] /\ Len(sent) < MaxSent
  /\ \E m \in Sendable(Len(sent) + 1) : Post("client", m) /\ sent' = Append(sent, m)
  /\ UNCHANGED <<up, sessionVars>>

ClientReadsOne ==
  /\ up["client"] /\ Take("client")
  /\ UNCHANGED <<up, sessionVars, sent>>

ClientShuts ==
  /\ up["client"] /\ Shut("client")
  /\ UNCHANGED <<sessionVars, sent>>

Finished == session = "gone" /\ ~up["client"] /\ UNCHANGED vars

Next == SessionMoves \/ ClientSends \/ ClientReadsOne \/ ClientShuts \/ Finished

Spec == Init /\ [][Next]_vars

FairSpec ==
  Spec /\ WF_vars((SessionReads \/ SessionCloses) /\ UNCHANGED sent)

-----------------------------------------------------------------------------

\* The kind of message a session takes as its n-th.
Due(n) == IF n = 1 THEN "prelogin" ELSE IF n = 2 THEN "login7" ELSE "batch"

\* The session answers the batches the client wrote after its pre-login and
\* its login, each once and in the order they were written, and stops for
\* good at the first message that is not a batch it can read.
AnswersWhatWasSent ==
  \A i \in DOMAIN answered :
    /\ i + 2 \in DOMAIN sent /\ answered[i].no = i + 2
    /\ \A n \in 1..(i + 2) : sent[n].kind = Due(n)
    /\ sent[i + 2].says # <<"torn">>

\* A client that closes ends the session, whatever it wrote before.
GoneWithTheClient == ~up["client"] ~> session = "gone"

-----------------------------------------------------------------------------
(* The inductive invariant.                                                *)

Written == UNION {Sendable(n) : n \in 1..MaxSent}
Reports == [no : Nat, did : EventKinds]

TypeOK ==
  /\ DOMAIN inbox = Sides /\ up \in [Sides -> BOOLEAN]
  /\ farEnd \in [expected : Demands, timed : SessionTimeouts, holder : Holders]
  /\ session \in SessionStates /\ (session \in SessionWaits => up["server"])
  /\ answered \in Seq(Reports) /\ events \in Seq(Reports)
  /\ sent \in Seq(Written) /\ Len(sent) <= MaxSent
  /\ \A n \in DOMAIN sent : sent[n] \in Sendable(n)

\* How many messages a session that still reads has read.
HasRead ==
  IF session = "accepting" THEN 0 ELSE IF session = "login" THEN 1 ELSE 2 + Len(answered)

\* What is on its way to a session is what was written after what it has read,
\* or nothing once the client has closed; and what it has read was due.
InOrder ==
  session \in SessionWaits =>
    LET box == inbox["server"] IN
    /\ box \in Seq(Written) /\ HasRead <= Len(sent)
    /\ box # <<>> \/ up["client"] => Len(sent) = HasRead + Len(box)
    /\ \A j \in DOMAIN box : box[j] = sent[HasRead + j]
    /\ \A n \in 1..HasRead : sent[n].kind = Due(n)
    /\ session # "serving" => answered = <<>>

\* All of it: what each promise of a session rests on (session.rs:90-243).
Inv ==
  /\ TypeOK /\ InOrder
  /\ AnswersOnlyTheLoggedIn /\ ReportedIsAnswered /\ TakesTheFirst /\ AnswersWhatWasSent
=============================================================================
