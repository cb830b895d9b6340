------------------------- MODULE ConversationProofs -------------------------
(***************************************************************************)
(* Proofs about Conversation, for every value of its constants: any logins *)
(* and verbs, any number of batches, any demand of the far end, each end   *)
(* with or without a timeout, either holder of the session.  They are of   *)
(* a client whose holder drops it with a query that failed                 *)
(* (DropsAfterError), as the pool does; of another the properties are      *)
(* false, which is what MCConversationKept shows.                          *)
(*                                                                         *)
(* That answers are never one batch late is not inductive: it rests on the *)
(* turns of the two sides, which Inv says as what may lie on the           *)
(* connection in each pair of their states (AtClient, AtSession).          *)
(***************************************************************************)
EXTENDS Conversation, SequenceTheorems, TLAPS

-----------------------------------------------------------------------------
(* What the client makes of the answers there are.                         *)

\* The loop over an answer, for the lemmas about loops (client.rs:117).
GatherStep(unused, result, t) == Gather(result, t)
Loop == INSTANCE SequenceLemmas WITH Op <- GatherStep

\* Gathered is that loop.
LEMMA GatheredIsLoop ==
  ASSUME NEW tokens
  PROVE  Gathered(tokens) = Loop!Folded(0, Nothing, tokens)
  BY DEF Gathered, FoldLeft, MapThenFoldSet, Max, Loop!Folded, GatherStep

\* What a query returns is one of these, whatever the tokens (client.rs:117).
LEMMA QueryReturns ==
  ASSUME NEW T, NEW tokens \in Seq(T)
  PROVE  QueryOutcome(tokens) \in {"ok", "protocol"} \cup Errors
<1> DEFINE Results == [failed : Errors \cup {"none"}, torn : BOOLEAN]
           upTo(i) == Loop!Made(0, Nothing, tokens, i)
           n == Len(tokens)
           S == {i \in 0..n : upTo(i) \in Results}
<1>1. n \in Nat
  OBVIOUS
<1>2. Loop!Folded(0, Nothing, tokens) = upTo(n) /\ upTo(0) = Nothing
  BY Loop!FoldEnds, Loop!FoldStarts
<1>3. ASSUME NEW i \in 1..n PROVE upTo(i) = Gather(upTo(i - 1), tokens[i])
  BY Loop!FoldSteps DEF GatherStep
<1> HIDE DEF upTo
<1>4. 0 \in S
  <2>1. Nothing \in Results
    BY DEF Nothing
  <2> HIDE DEF n, Results
  <2> QED BY <1>1, <1>2, <2>1
<1>5. ASSUME NEW i \in 0..(n - 1), i \in S PROVE i + 1 \in S
  <2> HIDE DEF n
  <2>1. i + 1 \in 1..n /\ (i + 1) - 1 = i /\ i + 1 \in 0..n
    BY <1>1
  <2>2. upTo(i + 1) = Gather(upTo(i), tokens[i + 1])
    BY <1>3, <2>1
  <2>3. \A r \in Results : \A t : Gather(r, t) \in Results
    BY DEF Gather
  <2> QED BY <1>5, <2>1, <2>2, <2>3
<1>6. \A i \in 0..n : i \in S
  <2> HIDE DEF S, n
  <2> QED BY <1>1, <1>4, <1>5, Loop!EveryStep
<1>7. Gathered(tokens) \in Results
  BY <1>1, <1>2, <1>6, GatheredIsLoop
<1> QED BY <1>7 DEF QueryOutcome

\* What a Session answers, as its client reads it (session.rs:82-89,
\* session.rs:245-276).
LEMMA AnswersAsRead ==
  /\ LoginOutcome(LoggedIn) = "in"
  /\ LoginOutcome(LoginRefused) = "permanent"
  /\ QueryOutcome(Complete) = "ok"
<1>1. LoginOutcome(LoggedIn) = "in"
  BY DEF LoginOutcome, LoggedIn, SelectInSeq, Contains, Stops, Errors
<1>2. LoginOutcome(LoginRefused) = "permanent"
  <2>1. {i \in 1..Len(LoginRefused) : LoginRefused[i] \in Stops} = {1}
    BY DEF LoginRefused, Stops, Errors
  <2>2. Min({1}) = 1
    BY DEF Min
  <2> QED BY <2>1, <2>2 DEF LoginOutcome, SelectInSeq, LoginRefused
<1>3. QueryOutcome(Complete) = "ok"
  <2>1. Complete \in Seq({"count"}) /\ Len(Complete) = 1 /\ Complete[1] = "count"
    BY DEF Complete
  <2>2. Gathered(Complete) = GatherStep(0, Nothing, "count")
    <3> DEFINE upTo(i) == Loop!Made(0, Nothing, Complete, i)
    <3>1. Gathered(Complete) = upTo(1) /\ upTo(0) = Nothing
      <4>1. Loop!Folded(0, Nothing, Complete) = upTo(Len(Complete)) /\ upTo(0) = Nothing
        BY <2>1, Loop!FoldEnds, Loop!FoldStarts
      <4>2. Gathered(Complete) = Loop!Folded(0, Nothing, Complete)
        BY GatheredIsLoop
      <4> QED BY <2>1, <4>1, <4>2
    <3>2. 1 \in 1..Len(Complete) /\ 1 - 1 = 0
      BY <2>1
    <3>3. upTo(1) = GatherStep(0, upTo(1 - 1), Complete[1])
      BY <2>1, <3>2, Loop!FoldSteps
    <3> QED BY <2>1, <3>1, <3>2, <3>3
  <2>3. GatherStep(0, Nothing, "count") = Nothing
    BY DEF GatherStep, Gather, Nothing, Errors
  <2> QED BY <2>2, <2>3 DEF QueryOutcome, Nothing
<1> QED BY <1>1, <1>2, <1>3

-----------------------------------------------------------------------------
(* At first.                                                               *)

\* Nothing lies anywhere at first (client.rs:47, session.rs:90).
LEMMA InitInv == Init => Inv
<1> SUFFICES ASSUME Init PROVE Inv
  OBVIOUS
<1> USE DEF Init, ConnectionInit, ClientInit, SessionInit
<1>1. Kept
  BY DEF Kept, Sides, SessionStates, SessionWaits
<1>2. AtClient /\ AtSession
  BY DEF AtClient, AtSession, Sides
<1>3. RefusalWaits /\ TakenWaits
  BY DEF RefusalWaits, TakenWaits
<1>4. EveryAnswerIsOwn /\ LoggedInTogether /\ RefusalIsTold
  BY DEF EveryAnswerIsOwn, LoggedInTogether, RefusalIsTold
<1> QED BY <1>1, <1>2, <1>3, <1>4 DEF Inv

-----------------------------------------------------------------------------
(* What each way to use the socket leaves on it.                           *)

\* A client that had nothing to read writes.
LEMMA ClientPosts ==
  ASSUME DOMAIN inbox = Sides, inbox["client"] = <<>>, inbox["server"] = <<>>,
         NEW m, Post("client", m)
  PROVE  /\ DOMAIN inbox' = Sides /\ inbox'["client"] = <<>>
         /\ inbox'["server"] = IF up["server"] THEN <<m>> ELSE <<>>
  BY DEF Post, Sends, Peer, Sides

\* A side reads the one message that lies there, and writes.
LEMMA TakesAndPosts ==
  ASSUME DOMAIN inbox = Sides, NEW s \in Sides, NEW m, NEW read,
         inbox[s] = <<read>>, inbox[Peer(s)] = <<>>, TakeAndPost(s, m)
  PROVE  /\ DOMAIN inbox' = Sides /\ inbox'[s] = <<>>
         /\ inbox'[Peer(s)] = IF up[Peer(s)] THEN <<m>> ELSE <<>>
<1>1. Tail(inbox[s]) = <<>>
  OBVIOUS
<1>2. s # Peer(s) /\ Peer(s) \in Sides
  BY DEF Peer, Sides
<1> QED BY <1>1, <1>2 DEF TakeAndPost, Sends

\* A side closes, over the one message that lies there or not.
LEMMA Leaves ==
  ASSUME DOMAIN inbox = Sides, up \in [Sides -> BOOLEAN], NEW s \in Sides,
         inbox[s] = <<>> \/ inbox[Peer(s)] = <<>>,
         Shut(s) \/ TakeAndShut(s)
  PROVE  /\ DOMAIN inbox' = Sides /\ up' \in [Sides -> BOOLEAN]
         /\ ~up'[s] /\ up'[Peer(s)] = up[Peer(s)]
         /\ inbox'[s] = <<>> /\ inbox'[Peer(s)] = inbox[Peer(s)]
<1>1. s # Peer(s) /\ Peer(s) \in Sides
  BY DEF Peer, Sides
<1>2. CASE Shut(s)
  BY <1>1, <1>2 DEF Shut, Shuts
<1>3. CASE TakeAndShut(s)
  <2>1. inbox[Peer(s)] = <<>>
    BY <1>3 DEF TakeAndShut, Waiting
  <2> QED BY <1>1, <1>3, <2>1 DEF TakeAndShut, Shuts
<1> QED BY <1>2, <1>3

\* Messages of the kinds the two sides write.
LEMMA MessageParts ==
  ASSUME NEW k, NEW says, NEW no
  PROVE  /\ Message(k, says, no).kind = k /\ Message(k, says, no).says = says
         /\ Message(k, says, no).no = no
  BY DEF Message

-----------------------------------------------------------------------------
(* The client's actions.                                                   *)

\* connect writes its pre-login, to a session that waits for it or has gone.
LEMMA StepSendPrelogin ==
  ASSUME Inv, SendPrelogin, UNCHANGED sessionVars PROVE Inv'
<1> USE DEF SendPrelogin, sessionVars
<1>1. inbox["client"] = <<>> /\ inbox["server"] = <<>>
  BY DEF Inv, AtClient, AtSession
<1>2. /\ DOMAIN inbox' = Sides /\ inbox'["client"] = <<>>
      /\ inbox'["server"] = IF up["server"] THEN <<PreloginMessage>> ELSE <<>>
  BY <1>1, ClientPosts DEF Inv, Kept
<1>3. Kept'
  BY <1>2 DEF Inv, Kept, ClientWaits
<1>4. AtClient'
  BY <1>2 DEF AtClient
<1>5. AtSession'
  BY <1>2 DEF AtSession, Inv, Kept, PreloginMessage
<1>6. presented # "nobody" => ~Refuses(presented)
  BY DEF Inv, RefusalWaits
<1>7. (RefusalWaits /\ RefusalIsTold)'
  BY <1>6 DEF RefusalWaits, RefusalIsTold, Refuses
<1>8. TakenWaits'
  BY DEF Inv, TakenWaits
<1>9. (EveryAnswerIsOwn /\ LoggedInTogether)'
  BY DEF Inv, EveryAnswerIsOwn, LoggedInTogether, Refuses
<1> QED BY <1>3, <1>4, <1>5, <1>7, <1>8, <1>9 DEF Inv

\* The answer to the pre-login lets the login go out: the session never asks
\* for encryption.
LEMMA StepReadPrelogin ==
  ASSUME Inv, ReadPrelogin, UNCHANGED sessionVars PROVE Inv'
<1> USE DEF ReadPrelogin, sessionVars
<1>1. /\ inbox["server"] = <<>> /\ session \in {"login", "gone"}
      /\ inbox["client"] = <<Tabular(<<"not_sup">>, 0)>>
      /\ DOMAIN inbox = Sides
  BY DEF Inv, Kept, AtClient, Waiting
<1>2. First("client").kind = "tabular" /\ First("client").says[1] = "not_sup"
  BY <1>1 DEF First, Tabular, Message
<1>3. /\ client' = "login" /\ TakeAndPost("client", LoginMessage)
      /\ UNCHANGED <<up, given, why, asked, results>>
  BY <1>2
<1>4. /\ DOMAIN inbox' = Sides /\ inbox'["client"] = <<>>
      /\ inbox'["server"] = IF up["server"] THEN <<LoginMessage>> ELSE <<>>
  BY <1>1, <1>3, TakesAndPosts DEF Peer, Sides
<1>5. Kept'
  BY <1>3, <1>4 DEF Inv, Kept, ClientWaits
<1>6. AtClient'
  BY <1>4 DEF AtClient
<1>7. AtSession'
  BY <1>1, <1>3, <1>4 DEF AtSession, Inv, Kept, LoginMessage
<1>8. presented # "nobody" => ~Refuses(presented)
  BY DEF Inv, RefusalWaits
<1>9. (RefusalWaits /\ RefusalIsTold)'
  BY <1>3, <1>8 DEF RefusalWaits, RefusalIsTold, Refuses
<1>10. TakenWaits'
  BY <1>3 DEF Inv, TakenWaits
<1>11. (EveryAnswerIsOwn /\ LoggedInTogether)'
  BY <1>3 DEF Inv, EveryAnswerIsOwn, LoggedInTogether, Refuses
<1> QED BY <1>5, <1>6, <1>7, <1>9, <1>10, <1>11 DEF Inv

\* The answer to the login: taken by both, or the client is told the error.
LEMMA StepReadLoginAnswer ==
  ASSUME Inv, ReadLoginAnswer, UNCHANGED sessionVars PROVE Inv'
<1> USE DEF ReadLoginAnswer, sessionVars
<1> DEFINE m == First("client")
           outcome == AnswerOutcome(m, LoginOutcome(m.says))
<1>1. inbox["server"] = <<>> /\ DOMAIN inbox = Sides /\ up \in [Sides -> BOOLEAN]
  BY DEF Inv, Kept, AtClient, Waiting
<1>2. CASE /\ session \in {"serving", "gone"} /\ inbox["client"] = <<Tabular(LoggedIn, 0)>>
           /\ presented = given.login /\ ~Refuses(presented)
  <2>1. outcome = "in"
    BY <1>2, AnswersAsRead DEF AnswerOutcome, First, Tabular, Message
  <2>2. client' = "ready" /\ Take("client") /\ UNCHANGED <<up, given, why, asked, results>>
    BY <2>1
  <2>3. /\ DOMAIN inbox' = Sides /\ inbox'["client"] = <<>> /\ inbox'["server"] = <<>>
    BY <1>1, <1>2, <2>2 DEF Take, Sides
  <2>4. Kept'
    BY <2>2, <2>3 DEF Inv, Kept
  <2>5. (AtClient /\ AtSession)'
    BY <2>3 DEF AtClient, AtSession
  <2>6. (RefusalWaits /\ RefusalIsTold /\ LoggedInTogether)'
    BY <1>2, <2>2 DEF RefusalWaits, RefusalIsTold, LoggedInTogether, Refuses
  <2>7. (TakenWaits /\ EveryAnswerIsOwn)'
    BY <2>2 DEF Inv, TakenWaits, EveryAnswerIsOwn
  <2> QED BY <2>4, <2>5, <2>6, <2>7 DEF Inv
<1>3. CASE /\ session \in {"refused", "gone"} /\ inbox["client"] = <<Tabular(LoginRefused, 0)>>
  <2>1. outcome = "permanent"
    BY <1>3, AnswersAsRead DEF AnswerOutcome, First, Tabular, Message
  <2>2. TakeAndShut("client") /\ GivesUp("permanent")
    BY <2>1
  <2>3. /\ client' = "gone" /\ why' = "permanent" /\ UNCHANGED <<given, asked, results>>
    BY <2>2 DEF GivesUp
  <2>4. /\ DOMAIN inbox' = Sides /\ inbox'["client"] = <<>> /\ inbox'["server"] = <<>>
        /\ up' \in [Sides -> BOOLEAN] /\ ~up'["client"] /\ up'["server"] = up["server"]
    BY <1>1, <2>2, Leaves DEF Peer, Sides
  <2>5. Kept'
    BY <2>3, <2>4 DEF Inv, Kept
  <2>6. (AtClient /\ AtSession)'
    BY <2>4 DEF AtClient, AtSession
  <2>7. (RefusalWaits /\ RefusalIsTold)'
    BY <2>3 DEF RefusalWaits, RefusalIsTold
  <2>8. (TakenWaits /\ EveryAnswerIsOwn /\ LoggedInTogether)'
    BY <2>3 DEF Inv, TakenWaits, EveryAnswerIsOwn, LoggedInTogether, Refuses
  <2> QED BY <2>5, <2>6, <2>7, <2>8 DEF Inv
<1> QED BY <1>2, <1>3 DEF Inv, AtClient, Waiting

\* A query writes its batch to a session that took the login, or has gone.
LEMMA StepAsk ==
  ASSUME Inv, Ask, UNCHANGED sessionVars PROVE Inv'
<1> USE DEF Ask, sessionVars
<1>1. inbox["client"] = <<>> /\ inbox["server"] = <<>>
  BY DEF Inv, AtClient, AtSession
<1>2. PICK verb \in Verbs : Post("client", BatchMessage(verb))
  OBVIOUS
<1>3. /\ DOMAIN inbox' = Sides /\ inbox'["client"] = <<>>
      /\ inbox'["server"] = IF up["server"] THEN <<BatchMessage(verb)>> ELSE <<>>
  BY <1>1, <1>2, ClientPosts DEF Inv, Kept
<1>4. asked \in Nat /\ asked' = asked + 1 /\ Len(results) = asked
  BY DEF Inv, Kept
<1>5. Kept'
  <2>1. asked' \in Nat /\ Len(results') = asked' - 1
    BY <1>4
  <2> QED BY <1>3, <2>1 DEF Inv, Kept, ClientWaits
<1>6. AtClient'
  BY <1>3 DEF AtClient
<1>7. AtSession'
  <2>1. CASE up["server"]
    <3>1. session \in {"serving", "taken"}
      BY <2>1 DEF Inv, Kept, LoggedInTogether
    <3>2. inbox'["server"] = <<Message("batch", <<verb>>, asked')>>
      BY <1>3, <1>4, <2>1 DEF BatchMessage
    <3>3. First("server")'.says = <<verb>>
      BY <3>2 DEF First, Message
    <3> QED BY <1>3, <3>1, <3>2, <3>3 DEF AtSession
  <2>2. CASE ~up["server"]
    BY <1>3, <2>2 DEF AtSession
  <2> QED BY <2>1, <2>2
<1>8. presented # "nobody" => ~Refuses(presented)
  BY DEF Inv, RefusalWaits
<1>9. (RefusalWaits /\ RefusalIsTold)'
  BY <1>8 DEF RefusalWaits, RefusalIsTold, Refuses
<1>10. TakenWaits'
  BY DEF Inv, TakenWaits
<1>11. (EveryAnswerIsOwn /\ LoggedInTogether)'
  BY DEF Inv, EveryAnswerIsOwn, LoggedInTogether, Refuses
<1> QED BY <1>5, <1>6, <1>7, <1>9, <1>10, <1>11 DEF Inv

\* The result of the query in progress is the result of the last batch.
LEMMA Returned ==
  ASSUME Kept, client = "query", NEW outcome \in Outcomes, Answered(outcome, asked)
  PROVE  /\ results' \in Seq([as : Outcomes, to : Nat])
         /\ asked > 0 /\ Len(results') = asked
         /\ DOMAIN results' = DOMAIN results \cup {asked}
         /\ \A i \in DOMAIN results : i # asked /\ results'[i] = results[i]
         /\ results'[asked].as = outcome /\ results'[asked].to = asked
<1> DEFINE r == [as |-> outcome, to |-> asked]
<1>1. asked \in Nat /\ Len(results) = asked - 1 /\ results \in Seq([as : Outcomes, to : Nat])
  BY DEF Kept
<1>2. r \in [as : Outcomes, to : Nat]
  BY <1>1
<1>3. results' = Append(results, r)
  BY DEF Answered
<1>4. Len(results) \in Nat /\ DOMAIN results = 1..Len(results) /\ asked = Len(results) + 1
  BY <1>1
<1>5. /\ results' \in Seq([as : Outcomes, to : Nat])
      /\ Len(results') = Len(results) + 1
      /\ \A i \in 1..Len(results) : results'[i] = results[i]
      /\ results'[Len(results) + 1] = r
      /\ DOMAIN results' = 1..(Len(results) + 1)
  <2> HIDE DEF r
  <2> QED BY <1>1, <1>2, <1>3, <1>4, AppendProperties
<1> QED BY <1>4, <1>5

\* A query that returned keeps what was promised of those before it.
LEMMA ReturnedKeeps ==
  ASSUME Inv, client = "query", NEW outcome \in Outcomes, Answered(outcome, asked),
         UNCHANGED sessionVars, asked' = asked, given' = given,
         /\ \/ outcome \in {"closed", "timeout"}
            \/ \E j \in DOMAIN answered : answered[j].no = asked,
         \/ outcome \in {"ok", "timeout"}
         \/ inbox["client"] # <<Tabular(Complete, asked)>>
  PROVE  (EveryAnswerIsOwn /\ TakenWaits /\ LoggedInTogether)'
<1> USE DEF sessionVars
<1>1. /\ DOMAIN results' = DOMAIN results \cup {asked}
      /\ \A i \in DOMAIN results : i # asked /\ results'[i] = results[i]
      /\ results'[asked].as = outcome /\ results'[asked].to = asked
  BY Returned DEF Inv
<1>2. EveryAnswerIsOwn'
  <2> SUFFICES ASSUME NEW i \in DOMAIN results', results'[i].as \notin {"closed", "timeout"}
               PROVE  results'[i].to = i /\ \E j \in DOMAIN answered : answered[j].no = i
    BY DEF EveryAnswerIsOwn
  <2>1. CASE i \in DOMAIN results
    BY <1>1, <2>1 DEF Inv, EveryAnswerIsOwn
  <2>2. CASE i = asked
    BY <1>1, <2>2
  <2> QED BY <1>1, <2>1, <2>2
<1>3. TakenWaits'
  BY <1>1 DEF Inv, TakenWaits
<1>4. LoggedInTogether'
  BY DEF Inv, LoggedInTogether, Refuses
<1> QED BY <1>2, <1>3, <1>4

\* An answer is of the batch last written, and a server that refused no login
\* keeps its refusal for none.
LEMMA StepReadAnswer ==
  ASSUME Inv, ReadAnswer, UNCHANGED sessionVars, DropsAfterError PROVE Inv'
<1> USE DEF sessionVars
<1> DEFINE m == First("client")
           outcome == AnswerOutcome(m, QueryOutcome(m.says))
<1>1. /\ client = "query" /\ Waiting("client") /\ Answered(outcome, m.no)
      /\ \/ Keeps /\ Take("client")
         \/ outcome # "ok" /\ Drops(outcome) /\ TakeAndShut("client")
  BY DEF ReadAnswer
<1>2. /\ inbox["server"] = <<>> /\ DOMAIN inbox = Sides /\ up \in [Sides -> BOOLEAN]
      /\ inbox["client"] = <<Tabular(m.says, asked)>> /\ m.says \in Seq(TokenKinds)
      /\ \E j \in DOMAIN answered : answered[j].no = asked
  BY <1>1 DEF Inv, Kept, AtClient, Waiting
<1>3. m = Tabular(m.says, asked) /\ m.kind = "tabular" /\ m.no = asked
  <2>1. m = Tabular(m.says, asked)
    BY <1>2 DEF First
  <2> QED BY <2>1 DEF Tabular, Message
<1>4. outcome \in {"ok", "protocol"} \cup Errors
  BY <1>2, <1>3, QueryReturns DEF AnswerOutcome
<1>5. inbox["client"] = <<Tabular(Complete, asked)>> => outcome = "ok"
  <2> SUFFICES ASSUME inbox["client"] = <<Tabular(Complete, asked)>> PROVE outcome = "ok"
    OBVIOUS
  <2>1. m.says = Complete
    BY DEF First, Tabular, Message
  <2> QED BY <1>3, <2>1, AnswersAsRead DEF AnswerOutcome
<1> HIDE DEF m, outcome
<1>6. outcome \in Outcomes
  BY <1>4 DEF Outcomes
<1>7. Answered(outcome, asked)
  BY <1>1, <1>3
<1>8. asked' = asked /\ given' = given
  BY <1>1 DEF Keeps, Drops
<1>9. (EveryAnswerIsOwn /\ TakenWaits /\ LoggedInTogether)'
  BY <1>1, <1>2, <1>5, <1>6, <1>7, <1>8, ReturnedKeeps
<1>10. results' \in Seq([as : Outcomes, to : Nat]) /\ Len(results') = asked
  BY <1>1, <1>6, <1>7, Returned DEF Inv
<1>11. /\ DOMAIN inbox' = Sides /\ inbox'["client"] = <<>> /\ inbox'["server"] = <<>>
       /\ up' \in [Sides -> BOOLEAN] /\ up'["server"] = up["server"]
       /\ \/ client' = "ready" /\ up' = up
          \/ client' = "gone" /\ ~up'["client"]
  <2>1. CASE Keeps /\ Take("client")
    <3>1. Tail(inbox["client"]) = <<>>
      BY <1>2
    <3> QED BY <1>2, <2>1, <3>1 DEF Keeps, Take, Sides
  <2>2. CASE Drops(outcome) /\ TakeAndShut("client")
    BY <1>2, <2>2, Leaves DEF Drops, Peer, Sides
  <2> QED BY <1>1, <2>1, <2>2
<1>12. Kept'
  BY <1>1, <1>8, <1>10, <1>11 DEF Inv, Kept
<1>13. (AtClient /\ AtSession)'
  BY <1>11 DEF AtClient, AtSession
<1>14. ~Refuses(presented)
  BY <1>1 DEF Inv, LoggedInTogether
<1>15. (RefusalWaits /\ RefusalIsTold)'
  BY <1>14 DEF RefusalWaits, RefusalIsTold, Refuses
<1> QED BY <1>9, <1>12, <1>13, <1>15 DEF Inv

\* A read that ends without a message: by the close only if nothing was left
\* at the session either.
LEMMA EndOfRead ==
  ASSUME Inv, NEW reason, ReadEnds(reason), client \in ClientWaits
  PROVE  /\ reason \in {"closed", "timeout"} /\ inbox["client"] = <<>>
         /\ inbox["server"] # <<>> => reason = "timeout"
<1>1. reason \in {"closed", "timeout"} /\ inbox["client"] = <<>>
  BY DEF ReadEnds, AtEnd, Waiting
<1>2. reason = "closed" => session = "gone"
  BY DEF ReadEnds, AtEnd, Peer, Inv, Kept
<1>3. session = "gone" => inbox["server"] = <<>>
  BY DEF Inv, AtSession
<1> QED BY <1>1, <1>2, <1>3

\* A connect that fails leaves what it wrote to a session that may still read it.
LEMMA StepConnectFails ==
  ASSUME Inv, ConnectFails, UNCHANGED sessionVars PROVE Inv'
<1> USE DEF sessionVars
<1>1. PICK reason \in {"closed", "timeout"} : ReadEnds(reason) /\ GivesUp(reason)
  BY DEF ConnectFails
<1>2. /\ client \in {"prelogin", "login"} /\ Shut("client") /\ client' = "gone"
      /\ why' = reason /\ UNCHANGED <<given, asked, results>>
  BY <1>1 DEF ConnectFails, GivesUp
<1>3. inbox["client"] = <<>> /\ (inbox["server"] # <<>> => reason = "timeout")
  BY <1>1, <1>2, EndOfRead DEF ClientWaits
<1>4. /\ DOMAIN inbox' = Sides /\ inbox'["client"] = <<>> /\ inbox'["server"] = inbox["server"]
      /\ up' \in [Sides -> BOOLEAN] /\ ~up'["client"] /\ up'["server"] = up["server"]
  BY <1>2, <1>3, Leaves DEF Inv, Kept, Peer, Sides
<1>5. Kept'
  BY <1>2, <1>4 DEF Inv, Kept
<1>6. AtClient'
  BY <1>4 DEF AtClient
<1>7. AtSession'
  <2>1. CASE inbox["server"] = <<>>
    BY <1>4, <2>1 DEF AtSession
  <2>2. CASE inbox["server"] # <<>>
    BY <1>2, <1>3, <1>4, <2>2 DEF Inv, AtSession, LoginMessage
  <2> QED BY <2>1, <2>2
<1>8. presented # "nobody" => ~Refuses(presented)
  BY <1>2, <1>3 DEF Inv, RefusalWaits
<1>9. (RefusalWaits /\ RefusalIsTold)'
  BY <1>8 DEF RefusalWaits, RefusalIsTold, Refuses
<1>10. TakenWaits'
  BY <1>2 DEF Inv, TakenWaits
<1>11. (EveryAnswerIsOwn /\ LoggedInTogether)'
  BY <1>2 DEF Inv, EveryAnswerIsOwn, LoggedInTogether, Refuses
<1> QED BY <1>5, <1>6, <1>7, <1>9, <1>10, <1>11 DEF Inv

\* So does a query that fails, whose client is dropped.
LEMMA StepQueryFails ==
  ASSUME Inv, QueryFails, UNCHANGED sessionVars, DropsAfterError PROVE Inv'
<1> USE DEF sessionVars
<1>1. PICK reason \in {"closed", "timeout"} :
        ReadEnds(reason) /\ Answered(reason, asked) /\ Drops(reason) /\ Shut("client")
  BY DEF QueryFails
<1>2. client = "query" /\ client' = "gone" /\ why' = reason /\ UNCHANGED <<given, asked>>
  BY <1>1 DEF QueryFails, Drops
<1>3. inbox["client"] = <<>> /\ (inbox["server"] # <<>> => reason = "timeout")
  BY <1>1, <1>2, EndOfRead DEF ClientWaits
<1>4. /\ DOMAIN inbox' = Sides /\ inbox'["client"] = <<>> /\ inbox'["server"] = inbox["server"]
      /\ up' \in [Sides -> BOOLEAN] /\ ~up'["client"] /\ up'["server"] = up["server"]
  BY <1>1, <1>3, Leaves DEF Inv, Kept, Peer, Sides
<1>5. /\ results' \in Seq([as : Outcomes, to : Nat]) /\ Len(results') = asked
      /\ asked > 0 /\ results'[asked].as = reason
  BY <1>1, <1>2, Returned DEF Inv, Outcomes
<1>6. (EveryAnswerIsOwn /\ TakenWaits /\ LoggedInTogether)'
  <2>1. <<>> # <<Tabular(Complete, asked)>>
    OBVIOUS
  <2> QED BY <1>1, <1>2, <1>3, <2>1, ReturnedKeeps DEF Outcomes
<1>7. Kept'
  BY <1>2, <1>4, <1>5 DEF Inv, Kept
<1>8. AtClient'
  BY <1>4 DEF AtClient
<1>9. AtSession'
  <2>1. CASE inbox["server"] = <<>>
    BY <1>4, <2>1 DEF AtSession
  <2>2. CASE inbox["server"] # <<>>
    <3>1. /\ session \in {"serving", "taken"}
          /\ inbox["server"] = <<Message("batch", First("server").says, asked)>>
      BY <1>2, <2>2 DEF Inv, AtSession
    <3>2. First("server")' = First("server")
      BY <1>4 DEF First
    <3> QED BY <1>2, <1>3, <1>4, <1>5, <2>2, <3>1, <3>2 DEF AtSession
  <2> QED BY <2>1, <2>2
<1>10. ~Refuses(presented)
  BY <1>2 DEF Inv, LoggedInTogether
<1>11. (RefusalWaits /\ RefusalIsTold)'
  BY <1>10 DEF RefusalWaits, RefusalIsTold, Refuses
<1> QED BY <1>6, <1>7, <1>8, <1>9, <1>11 DEF Inv

\* A client that closes between two batches leaves nothing behind.
LEMMA StepHangUp ==
  ASSUME Inv, HangUp, UNCHANGED sessionVars PROVE Inv'
<1> USE DEF HangUp, sessionVars
<1>1. inbox["client"] = <<>> /\ inbox["server"] = <<>>
  BY DEF Inv, AtClient, AtSession
<1>2. /\ DOMAIN inbox' = Sides /\ inbox'["client"] = <<>> /\ inbox'["server"] = <<>>
      /\ up' \in [Sides -> BOOLEAN] /\ ~up'["client"] /\ up'["server"] = up["server"]
  BY <1>1, Leaves DEF Inv, Kept, Peer, Sides
<1>3. Kept'
  BY <1>2 DEF Inv, Kept
<1>4. (AtClient /\ AtSession)'
  BY <1>2 DEF AtClient, AtSession
<1>5. ~Refuses(presented)
  BY DEF Inv, LoggedInTogether
<1>6. (RefusalWaits /\ RefusalIsTold)'
  BY <1>5 DEF RefusalWaits, RefusalIsTold, Refuses
<1>7. TakenWaits'
  BY DEF Inv, TakenWaits
<1>8. (EveryAnswerIsOwn /\ LoggedInTogether)'
  BY DEF Inv, EveryAnswerIsOwn, LoggedInTogether, Refuses
<1> QED BY <1>3, <1>4, <1>6, <1>7, <1>8 DEF Inv

-----------------------------------------------------------------------------
(* The session's actions.                                                  *)

\* A session that closes takes nothing from its client: RejectMessage, SeesEnd,
\* SessionTimesOut, DropSession, CloseRefused and CloseTaken.
LEMMA StepEnds ==
  ASSUME Inv, Ends, Shut("server") \/ TakeAndShut("server"), UNCHANGED clientVars
  PROVE  Inv'
<1> USE DEF Ends, clientVars
<1>1. /\ DOMAIN inbox' = Sides /\ inbox'["server"] = <<>> /\ inbox'["client"] = inbox["client"]
      /\ up' \in [Sides -> BOOLEAN] /\ ~up'["server"] /\ up'["client"] = up["client"]
  <2>1. inbox["server"] = <<>> \/ inbox["client"] = <<>>
    BY DEF Inv, AtClient
  <2> QED BY <2>1, Leaves DEF Inv, Kept, Peer, Sides
<1>2. Kept'
  BY <1>1 DEF Inv, Kept, SessionStates
<1>3. AtClient'
  <2>1. First("client")' = First("client")
    BY <1>1 DEF First
  <2> QED BY <1>1, <2>1 DEF Inv, AtClient, Refuses
<1>4. AtSession'
  BY <1>1 DEF AtSession
<1>5. (RefusalWaits /\ RefusalIsTold /\ LoggedInTogether)'
  BY <1>1 DEF Inv, RefusalWaits, RefusalIsTold, LoggedInTogether, Refuses
<1>6. (TakenWaits /\ EveryAnswerIsOwn)'
  BY <1>1 DEF Inv, TakenWaits, EveryAnswerIsOwn
<1> QED BY <1>2, <1>3, <1>4, <1>5, <1>6 DEF Inv

\* The pre-login is answered, where there is still a client.
LEMMA StepAnswerPrelogin ==
  ASSUME Inv, AnswerPrelogin, UNCHANGED clientVars PROVE Inv'
<1> USE DEF AnswerPrelogin, clientVars
<1>1. /\ inbox["client"] = <<>> /\ inbox["server"] = <<PreloginMessage>>
      /\ client \in {"prelogin", "gone"} /\ (client = "gone" => why = "timeout")
  BY DEF Inv, AtSession, Waiting
<1>2. /\ DOMAIN inbox' = Sides /\ inbox'["server"] = <<>>
      /\ inbox'["client"] = IF up["client"] THEN <<Tabular(<<"not_sup">>, 0)>> ELSE <<>>
  BY <1>1, TakesAndPosts DEF Inv, Kept, Peer, Sides, Tabular
<1>3. Kept'
  BY <1>1, <1>2 DEF Inv, Kept, SessionStates, SessionWaits
<1>4. AtClient'
  BY <1>1, <1>2 DEF AtClient, Inv, Kept
<1>5. AtSession'
  BY <1>2 DEF AtSession
<1>6. (RefusalWaits /\ RefusalIsTold)'
  BY <1>1 DEF Inv, RefusalWaits, RefusalIsTold, Refuses
<1>7. LoggedInTogether'
  BY <1>1 DEF Inv, LoggedInTogether
<1>8. (TakenWaits /\ EveryAnswerIsOwn)'
  BY <1>1 DEF Inv, TakenWaits, EveryAnswerIsOwn
<1> QED BY <1>3, <1>4, <1>5, <1>6, <1>7, <1>8 DEF Inv

\* The login checked is the client's own, and a refusal of it reaches a client
\* that still waits.
LEMMA StepCheckLogin ==
  ASSUME Inv, CheckLogin, UNCHANGED clientVars PROVE Inv'
<1> USE DEF clientVars
<1> DEFINE presents == First("server").says[1]
           answer == IF Refuses(presents) THEN LoginRefused ELSE LoggedIn
<1>1. /\ session = "login" /\ Waiting("server") /\ presented' = presents
      /\ session' = IF Refuses(presents) THEN "refused" ELSE "serving"
      /\ TakeAndPost("server", Tabular(answer, 0))
      /\ UNCHANGED <<up, farEnd, answered, events>>
  BY DEF CheckLogin, Tabular
<1>2. /\ inbox["client"] = <<>> /\ inbox["server"] = <<LoginMessage>>
      /\ client \in {"login", "gone"} /\ (client = "gone" => why = "timeout")
  BY <1>1 DEF Inv, AtSession, Waiting
<1>3. presents = given.login
  BY <1>2 DEF First, LoginMessage, Message
<1> HIDE DEF presents
<1>4. /\ DOMAIN inbox' = Sides /\ inbox'["server"] = <<>>
      /\ inbox'["client"] = IF up["client"] THEN <<Tabular(answer, 0)>> ELSE <<>>
  BY <1>1, <1>2, TakesAndPosts DEF Inv, Kept, Peer, Sides
<1>5. Refuses(presented)' <=> Refuses(presents)
  BY <1>1 DEF Refuses
<1>6. up["client"] <=> client = "login"
  BY <1>2 DEF Inv, Kept
<1>7. Kept'
  BY <1>1, <1>2, <1>4 DEF Inv, Kept, SessionStates, SessionWaits
<1>8. AtClient'
  <2>1. CASE ~up["client"]
    BY <1>4, <2>1 DEF AtClient
  <2>2. CASE up["client"] /\ Refuses(presents)
    BY <1>1, <1>4, <1>6, <2>2 DEF AtClient
  <2>3. CASE up["client"] /\ ~Refuses(presents)
    BY <1>1, <1>3, <1>4, <1>5, <1>6, <2>3 DEF AtClient
  <2> QED BY <2>1, <2>2, <2>3
<1>9. AtSession'
  BY <1>4 DEF AtSession
<1>10. (RefusalWaits /\ RefusalIsTold)'
  BY <1>1, <1>2, <1>4, <1>5, <1>6 DEF RefusalWaits, RefusalIsTold
<1>11. LoggedInTogether'
  BY <1>1, <1>2 DEF Inv, LoggedInTogether
<1>12. (TakenWaits /\ EveryAnswerIsOwn)'
  BY <1>1, <1>2 DEF Inv, TakenWaits, EveryAnswerIsOwn
<1> QED BY <1>7, <1>8, <1>9, <1>10, <1>11, <1>12 DEF Inv

\* An answer is a token stream; what take_one takes it answers with a count.
LEMMA AnswersToSay ==
  ASSUME NEW verb, NEW a \in AnswersTo(verb)
  PROVE  /\ a.tokens \in Seq(TokenKinds) /\ a.event \in EventKinds
         /\ farEnd.holder = "take one" /\ a.event = "inserted" => a.tokens = Complete
<1>1. /\ TableOf(0) \in Seq(TokenKinds) /\ TableOf(1) \in Seq(TokenKinds)
      /\ Complete \in Seq(TokenKinds)
      /\ Refusal("permanent") \in Seq(TokenKinds) /\ Refusal("retryable") \in Seq(TokenKinds)
  BY DEF TableOf, Complete, Refusal, TokenKinds, Errors
<1>2. a \in ClosureAnswers => a.tokens \in Seq(TokenKinds) /\ a.event \in EventKinds
  BY <1>1 DEF ClosureAnswers, EventKinds
<1>3. a \notin ClosureAnswers \/ farEnd.holder = "take one" =>
        /\ a.tokens \in {TableOf(0), TableOf(1), Complete, Refusal("permanent")}
        /\ a.event \in EventKinds
        /\ a.event = "inserted" => a.tokens = Complete
  BY DEF AnswersTo, EventKinds
<1> QED BY <1>1, <1>2, <1>3

\* The batch answered is the one the client waits for, or gave up waiting for.
LEMMA StepServeBatch ==
  ASSUME Inv, ServeBatch, UNCHANGED clientVars PROVE Inv'
<1> USE DEF clientVars
<1> DEFINE m == First("server")
<1>1. /\ session = "serving" /\ Waiting("server") /\ UNCHANGED <<farEnd, presented>>
      /\ \E a \in AnswersTo(m.says[1]) :
           /\ answered' = Append(answered, [no |-> m.no, did |-> a.event])
           /\ \/ /\ TakeAndPost("server", Message("tabular", a.tokens, m.no))
                 /\ events' = Append(events, [no |-> m.no, did |-> a.event])
                 /\ session' = IF TakenBy(a.event) THEN "taken" ELSE session
                 /\ UNCHANGED up
              \/ /\ ~up["client"]
                 /\ session' = "gone" /\ TakeAndShut("server")
                 /\ UNCHANGED events
  BY DEF ServeBatch
<1>2. PICK a \in AnswersTo(m.says[1]) :
           /\ answered' = Append(answered, [no |-> m.no, did |-> a.event])
           /\ \/ /\ TakeAndPost("server", Message("tabular", a.tokens, m.no))
                 /\ events' = Append(events, [no |-> m.no, did |-> a.event])
                 /\ session' = IF TakenBy(a.event) THEN "taken" ELSE session
                 /\ UNCHANGED up
              \/ /\ ~up["client"]
                 /\ session' = "gone" /\ TakeAndShut("server")
                 /\ UNCHANGED events
  BY <1>1
<1>3. /\ inbox["client"] = <<>> /\ inbox["server"] = <<Message("batch", m.says, asked)>>
      /\ client \in {"query", "gone"}
      /\ client = "gone" => why = "timeout" /\ asked > 0 /\ results[asked].as = "timeout"
  BY <1>1 DEF Inv, AtSession, Waiting
<1>4. m.no = asked
  <2>1. m = Message("batch", m.says, asked)
    BY <1>3 DEF First
  <2> HIDE DEF m
  <2> QED BY <2>1, MessageParts
<1> HIDE DEF m
<1>5. /\ a.tokens \in Seq(TokenKinds) /\ a.event \in EventKinds
      /\ farEnd.holder = "take one" /\ a.event = "inserted" => a.tokens = Complete
  BY AnswersToSay
<1> DEFINE report == [no |-> asked, did |-> a.event]
           Reports == [no : Nat, did : EventKinds]
<1>6. report \in Reports /\ report.no = asked /\ report.did = a.event
  BY <1>5 DEF Inv, Kept
<1>7. answered' = Append(answered, report) /\ events' \in {events, Append(events, report)}
  BY <1>2, <1>4
<1>8. answered \in Seq(Reports) /\ events \in Seq(Reports)
  BY DEF Inv, Kept
<1> HIDE DEF report
<1>9. \A log \in Seq(Reports) :
        /\ Append(log, report) \in Seq(Reports)
        /\ \A i \in DOMAIN Append(log, report) :
             (i \in DOMAIN log /\ Append(log, report)[i] = log[i])
             \/ Append(log, report)[i] = report
        /\ \A i \in DOMAIN log : i \in DOMAIN Append(log, report) /\ Append(log, report)[i] = log[i]
        /\ \E i \in DOMAIN Append(log, report) : Append(log, report)[i] = report
  <2> TAKE log \in Seq(Reports)
  <2>1. /\ Append(log, report) \in Seq(Reports) /\ Len(log) \in Nat
        /\ Len(Append(log, report)) = Len(log) + 1 /\ DOMAIN log = 1..Len(log)
        /\ DOMAIN Append(log, report) = 1..(Len(log) + 1)
        /\ \A i \in 1..Len(log) : Append(log, report)[i] = log[i]
        /\ Append(log, report)[Len(log) + 1] = report
    BY <1>6, AppendProperties
  <2>2. \A i \in 1..(Len(log) + 1) : i \in 1..Len(log) \/ i = Len(log) + 1
    BY <2>1
  <2>3. Len(log) + 1 \in 1..(Len(log) + 1) /\ \A i \in 1..Len(log) : i \in 1..(Len(log) + 1)
    BY <2>1
  <2> QED BY <2>1, <2>2, <2>3
<1>10. /\ DOMAIN inbox' = Sides /\ inbox'["server"] = <<>> /\ up' \in [Sides -> BOOLEAN]
       /\ up'["client"] = up["client"] /\ (up'["server"] <=> session' # "gone")
       /\ session' \in {"serving", "taken", "gone"}
       /\ inbox'["client"] = IF up["client"] THEN <<Tabular(a.tokens, asked)>> ELSE <<>>
       /\ up["client"] => session' # "gone" /\ events' = Append(events, report)
  <2>1. CASE /\ TakeAndPost("server", Message("tabular", a.tokens, m.no))
             /\ events' = Append(events, [no |-> m.no, did |-> a.event])
             /\ session' = IF TakenBy(a.event) THEN "taken" ELSE session
             /\ UNCHANGED up
    <3>1. TakeAndPost("server", Tabular(a.tokens, asked))
      BY <1>4, <2>1 DEF Tabular
    <3>2. /\ DOMAIN inbox' = Sides /\ inbox'["server"] = <<>>
          /\ inbox'["client"] = IF up["client"] THEN <<Tabular(a.tokens, asked)>> ELSE <<>>
      BY <1>3, <3>1, TakesAndPosts DEF Inv, Kept, Peer, Sides
    <3>3. events' = Append(events, report)
      BY <1>4, <2>1 DEF report
    <3> QED BY <1>1, <2>1, <3>2, <3>3 DEF Inv, Kept
  <2>2. CASE ~up["client"] /\ session' = "gone" /\ TakeAndShut("server") /\ UNCHANGED events
    BY <1>3, <2>2, Leaves DEF Inv, Kept, Peer, Sides
  <2> QED BY <1>2, <2>1, <2>2
<1>11. Kept'
  <2>1. answered' \in Seq(Reports) /\ events' \in Seq(Reports)
    BY <1>7, <1>8, <1>9
  <2>2. session' \in SessionStates /\ client # "connected"
    BY <1>3, <1>10 DEF SessionStates, SessionWaits
  <2> QED BY <1>10, <2>1, <2>2 DEF Inv, Kept
<1>12. \E j \in DOMAIN answered' : answered'[j].no = asked
  BY <1>6, <1>7, <1>8, <1>9
<1>13. AtClient'
  <2>1. CASE ~up["client"]
    BY <1>10, <2>1 DEF AtClient
  <2>2. CASE up["client"]
    <3>1. client = "query"
      BY <1>3, <2>2 DEF Inv, Kept
    <3>2. First("client")'.says = a.tokens
      BY <1>10, <2>2 DEF First, Tabular, Message
    <3> QED BY <1>5, <1>10, <1>12, <2>2, <3>1, <3>2 DEF AtClient
  <2> QED BY <2>1, <2>2
<1>14. AtSession'
  BY <1>10 DEF AtSession
<1>15. ~Refuses(presented)
  BY <1>1, <1>3 DEF Inv, RefusalWaits, RefusalIsTold, LoggedInTogether, Kept
<1>16. (RefusalWaits /\ RefusalIsTold)'
  BY <1>1, <1>15 DEF RefusalWaits, RefusalIsTold, Refuses
<1>17. LoggedInTogether'
  BY <1>1, <1>10 DEF Inv, LoggedInTogether, Refuses
<1>18. EveryAnswerIsOwn'
  <2>1. \A j \in DOMAIN answered : j \in DOMAIN answered' /\ answered'[j] = answered[j]
    BY <1>7, <1>8, <1>9
  <2> QED BY <2>1 DEF Inv, EveryAnswerIsOwn
<1>19. client = "gone" => asked \in DOMAIN results
  <2>1. /\ results \in Seq([as : Outcomes, to : Nat]) /\ asked \in Nat
        /\ client = "gone" => Len(results) = asked /\ asked > 0
    BY <1>3 DEF Inv, Kept
  <2>2. DOMAIN results = 1..Len(results)
    BY <2>1
  <2> QED BY <2>1, <2>2
<1>20. TakenWaits'
  <2> SUFFICES ASSUME farEnd.holder = "take one",
                      NEW i \in DOMAIN events', events'[i].did = "inserted"
               PROVE  \/ /\ events'[i].no \in DOMAIN results
                         /\ results[events'[i].no].as \in {"ok", "timeout"}
                      \/ /\ client = "query" /\ events'[i].no = asked
                         /\ inbox'["client"] = <<Tabular(Complete, asked)>>
    BY <1>1 DEF TakenWaits
  <2>1. CASE i \in DOMAIN events /\ events'[i] = events[i]
    <3>1. inbox["client"] # <<Tabular(Complete, asked)>>
      <4>1. <<>> # <<Tabular(Complete, asked)>>
        OBVIOUS
      <4> QED BY <1>3, <4>1
    <3> QED BY <2>1, <3>1 DEF Inv, TakenWaits
  <2>2. CASE events'[i] = report
    <3>1. events'[i].no = asked /\ a.tokens = Complete
      BY <1>5, <1>6, <2>2
    <3>2. CASE up["client"]
      BY <1>3, <1>10, <3>1, <3>2 DEF Inv, Kept
    <3>3. CASE ~up["client"]
      <4>1. client = "gone"
        BY <1>3, <3>3 DEF Inv, Kept
      <4> QED BY <1>3, <1>19, <3>1, <4>1
    <3> QED BY <3>2, <3>3
  <2> QED BY <1>7, <1>8, <1>9, <2>1, <2>2
<1> QED BY <1>11, <1>13, <1>14, <1>16, <1>17, <1>18, <1>20 DEF Inv

-----------------------------------------------------------------------------

\* Every step of either side keeps the invariant.
LEMMA NextInv == ASSUME Inv, [Next]_vars, DropsAfterError PROVE Inv'
<1>1. CASE ClientMoves
  <2> USE <1>1 DEF ClientMoves, ClientSteps, ClientReads, ClientFails
  <2>1. CASE SendPrelogin
    BY <2>1, StepSendPrelogin
  <2>2. CASE ReadPrelogin
    BY <2>2, StepReadPrelogin
  <2>3. CASE ReadLoginAnswer
    BY <2>3, StepReadLoginAnswer
  <2>4. CASE ReadAnswer
    BY <2>4, StepReadAnswer
  <2>5. CASE ConnectFails
    BY <2>5, StepConnectFails
  <2>6. CASE QueryFails
    BY <2>6, StepQueryFails
  <2>7. CASE Ask
    BY <2>7, StepAsk
  <2>8. CASE HangUp
    BY <2>8, StepHangUp
  <2> QED BY <2>1, <2>2, <2>3, <2>4, <2>5, <2>6, <2>7, <2>8
<1>2. CASE SessionMoves
  <2> USE <1>2 DEF SessionMoves, SessionSteps, SessionReads, SessionCloses
  <2>1. CASE AnswerPrelogin
    BY <2>1, StepAnswerPrelogin
  <2>2. CASE CheckLogin
    BY <2>2, StepCheckLogin
  <2>3. CASE ServeBatch
    BY <2>3, StepServeBatch
  <2>4. CASE RejectMessage \/ SeesEnd \/ CloseRefused \/ CloseTaken \/ SessionTimesOut \/ DropSession
    BY <2>4, StepEnds
    DEF RejectMessage, SeesEnd, CloseRefused, CloseTaken, SessionTimesOut, DropSession
  <2> QED BY <2>1, <2>2, <2>3, <2>4
<1>3. CASE UNCHANGED vars
  <2> USE <1>3 DEF vars, clientVars, sessionVars
  <2>1. (Kept /\ AtClient /\ AtSession)'
    BY DEF Inv, Kept, AtClient, AtSession, First, Refuses, LoginMessage
  <2>2. (RefusalWaits /\ TakenWaits)'
    BY DEF Inv, RefusalWaits, TakenWaits, Refuses
  <2>3. (EveryAnswerIsOwn /\ LoggedInTogether /\ RefusalIsTold)'
    BY DEF Inv, EveryAnswerIsOwn, LoggedInTogether, RefusalIsTold, Refuses
  <2> QED BY <2>1, <2>2, <2>3 DEF Inv
<1> QED BY <1>1, <1>2, <1>3 DEF Next, Finished

\* Client and session take turns, from the pre-login to the close, as long as
\* a client whose query failed is dropped (client.rs:47-138, session.rs:90-243).
THEOREM ConversationInvariance == ASSUME DropsAfterError PROVE Spec => []Inv
<1>1. Init => Inv
  BY InitInv
<1>2. Inv /\ [Next]_vars => Inv'
  BY NextInv
<1> QED BY <1>1, <1>2, PTL DEF Spec

\* No answer is ever one batch late: what a query returns of an answer is what
\* the session answered that very batch (client.rs:114-138).
THEOREM NoAnswerIsLate == ASSUME DropsAfterError PROVE Spec => []EveryAnswerIsOwn
<1>1. Inv => EveryAnswerIsOwn
  BY DEF Inv
<1> QED BY <1>1, ConversationInvariance, PTL

\* Whenever one side's message is under way the other's is not, and a client
\* between two batches has nothing left to read (client.rs:177-178).
THEOREM OneAtATime == ASSUME DropsAfterError PROVE Spec => []OneMessageUnderWay
<1>1. Inv => OneMessageUnderWay
  <2> SUFFICES ASSUME Inv PROVE OneMessageUnderWay
    OBVIOUS
  <2>1. /\ inbox["client"] = <<>> \/ \E m : inbox["client"] = <<m>>
        /\ inbox["server"] = <<>> \/ \E m : inbox["server"] = <<m>>
        /\ inbox["client"] = <<>> \/ inbox["server"] = <<>>
    BY DEF Inv, AtClient, AtSession
  <2>2. client = "ready" => inbox["client"] = <<>> /\ inbox["server"] = <<>>
    BY DEF Inv, AtClient, AtSession
  <2>3. Len(inbox["client"]) + Len(inbox["server"]) <= 1
    <3>1. \A m : Len(<<m>>) = 1 /\ Len(<<>>) = 0
      OBVIOUS
    <3>2. \/ Len(inbox["client"]) = 0 /\ Len(inbox["server"]) = 0
          \/ Len(inbox["client"]) = 0 /\ Len(inbox["server"]) = 1
          \/ Len(inbox["client"]) = 1 /\ Len(inbox["server"]) = 0
      BY <2>1, <3>1, Zenon
    <3>3. 0 + 0 <= 1 /\ 0 + 1 <= 1 /\ 1 + 0 <= 1
      OBVIOUS
    <3> QED BY <3>2, <3>3, Zenon
  <2> QED BY <2>2, <2>3 DEF OneMessageUnderWay
<1> QED BY <1>1, ConversationInvariance, PTL

\* A client that runs a batch was let in by its session, with its own login
\* (client.rs:73-95, session.rs:109-132).
THEOREM BothLoggedIn == ASSUME DropsAfterError PROVE Spec => []LoggedInTogether
<1>1. Inv => LoggedInTogether
  BY DEF Inv
<1> QED BY <1>1, ConversationInvariance, PTL

\* A client that was refused and goes is told so, or stopped waiting: the close
\* that follows a refusal never takes it (session.rs:88-89).
THEOREM RefusedIsTold == ASSUME DropsAfterError PROVE Spec => []RefusalIsTold
<1>1. Inv => RefusalIsTold
  BY DEF Inv
<1> QED BY <1>1, ConversationInvariance, PTL

\* The sender of what take_one returned is told it was inserted, or stopped
\* waiting (lib.rs:348-353, lib.rs:369-376).
THEOREM SentIsTold == ASSUME DropsAfterError PROVE Spec => []TakenIsTold
<1>1. Inv /\ client = "query" => ~(asked <= Len(results))
  <2>1. Inv /\ client = "query" => Len(results) = asked - 1 /\ asked \in Nat
    BY DEF Inv, Kept
  <2> QED BY <2>1
<1>2. Inv => TakenIsTold
  BY <1>1 DEF Inv, TakenWaits, TakenIsTold
<1> QED BY <1>2, ConversationInvariance, PTL
=============================================================================
