---------------------------- MODULE SessionProofs ----------------------------
(***************************************************************************)
(* Proofs about SessionMeets, for every value of its constants: any logins *)
(* and verbs, any number of messages, any demand of the far end.           *)
(*                                                                         *)
(* None of the four promises is inductive.  That a batch is answered under *)
(* its own number, and only behind a pre-login and a login, needs that     *)
(* what waits at a session is what was written next after what it has read *)
(* (InOrder), which a client that closes or resets may cut off and never   *)
(* reorder.  Inv is their conjunction; one lemma for each group of actions *)
(* shows that it is kept.                                                  *)
(***************************************************************************)
EXTENDS SessionMeets, SequenceTheorems, TLAPS

\* Nothing is written, read or answered at first (session.rs:90-106).
LEMMA InitInv == Init => Inv
<1> SUFFICES ASSUME Init PROVE Inv
  OBVIOUS
<1> USE SessionMeetsAssumption DEF Init, ConnectionInit, SessionInit
<1>1. TypeOK
  BY DEF TypeOK, SessionStates, SessionWaits, Sides
<1>2. InOrder
  BY DEF InOrder, HasRead, Sides, SessionWaits
<1>3. AnswersOnlyTheLoggedIn /\ TakesTheFirst /\ AnswersWhatWasSent
  BY DEF AnswersOnlyTheLoggedIn, TakesTheFirst, AnswersWhatWasSent
<1>4. ReportedIsAnswered
  BY DEF ReportedIsAnswered
<1> QED BY <1>1, <1>2, <1>3, <1>4 DEF Inv

\* Every answer is reported as one of the three events (session.rs:245-276).
LEMMA AnswersToKinds ==
  ASSUME NEW verb, NEW a \in AnswersTo(verb) PROVE a.event \in EventKinds
  BY DEF AnswersTo, ClosureAnswers, EventKinds

\* What is on its way to a session, once it has read one and written m.
LEMMA TakesAndPosts ==
  ASSUME DOMAIN inbox = Sides, NEW m, TakeAndPost("server", m)
  PROVE  /\ DOMAIN inbox' = Sides
         /\ \/ inbox'["server"] = Tail(inbox["server"])
            \/ ~up["client"] /\ inbox'["server"] = <<>>
  BY DEF TakeAndPost, Sends, Peer, Sides

\* What a client writes is behind all that waits, where there is a session
\* to read it.
LEMMA ClientPosts ==
  ASSUME DOMAIN inbox = Sides, NEW m, Post("client", m)
  PROVE  /\ DOMAIN inbox' = Sides
         /\ up["server"] => inbox'["server"] = Append(inbox["server"], m)
         /\ ~up["server"] => inbox'["server"] = inbox["server"]
  BY DEF Post, Sends, Peer, Sides

\* A client that closes leaves what waits at the session, or a reset takes it.
LEMMA ClientCloses ==
  ASSUME DOMAIN inbox = Sides, up \in [Sides -> BOOLEAN], Shut("client")
  PROVE  /\ DOMAIN inbox' = Sides /\ up' \in [Sides -> BOOLEAN]
         /\ ~up'["client"] /\ up'["server"] = up["server"]
         /\ inbox'["server"] \in {inbox["server"], <<>>}
  BY DEF Shut, Shuts, Peer, Sides

\* However a session closes.
LEMMA SocketsKeptTyped ==
  ASSUME DOMAIN inbox = Sides, up \in [Sides -> BOOLEAN],
         Shut("server") \/ TakeAndShut("server")
  PROVE  DOMAIN inbox' = Sides /\ up' \in [Sides -> BOOLEAN]
  BY DEF Shut, TakeAndShut, Shuts, Peer, Sides

\* A session that ends promises nothing more: RejectMessage, SeesEnd,
\* SessionTimesOut, DropSession, CloseRefused and CloseTaken.
LEMMA StepEnds ==
  ASSUME Inv, Ends, Shut("server") \/ TakeAndShut("server"), UNCHANGED sent
  PROVE  Inv'
<1>1. TypeOK'
  BY SocketsKeptTyped DEF Inv, TypeOK, Ends, SessionStates, SessionWaits
<1>2. InOrder'
  BY DEF InOrder, Ends, SessionWaits
<1>3. (AnswersOnlyTheLoggedIn /\ TakesTheFirst /\ AnswersWhatWasSent)'
  BY DEF AnswersOnlyTheLoggedIn, TakesTheFirst, AnswersWhatWasSent, Inv, Ends, Refuses
<1>4. ReportedIsAnswered'
  BY DEF ReportedIsAnswered, Inv, Ends
<1> QED BY <1>1, <1>2, <1>3, <1>4 DEF Inv

\* The first message that waits is the one written next after those read.
LEMMA FirstIsNext ==
  ASSUME TypeOK, InOrder, session \in SessionWaits, Waiting("server")
  PROVE  /\ HasRead \in Nat /\ HasRead + 1 \in DOMAIN sent
         /\ First("server") = sent[HasRead + 1]
         /\ First("server") \in Sendable(HasRead + 1)
         /\ Tail(inbox["server"]) \in Seq(Written)
         /\ Len(sent) = HasRead + 1 + Len(Tail(inbox["server"]))
         /\ \A j \in DOMAIN Tail(inbox["server"]) :
              Tail(inbox["server"])[j] = sent[HasRead + 1 + j]
<1> DEFINE box == inbox["server"]
<1>1. HasRead \in Nat
  BY DEF TypeOK, HasRead
<1>2. /\ box \in Seq(Written) /\ box # <<>> /\ Len(sent) = HasRead + Len(box)
      /\ \A j \in DOMAIN box : box[j] = sent[HasRead + j]
  BY DEF InOrder, Waiting
<1>3. Len(box) \in Nat /\ Len(box) > 0 /\ 1 \in DOMAIN box /\ DOMAIN box = 1..Len(box)
  BY <1>2
<1>4. First("server") = sent[HasRead + 1]
  BY <1>2, <1>3 DEF First
<1>5. Len(sent) \in Nat /\ DOMAIN sent = 1..Len(sent)
  BY DEF TypeOK
<1>6. HasRead + 1 \in DOMAIN sent
  BY <1>1, <1>2, <1>3, <1>5
<1>7. /\ Tail(box) \in Seq(Written) /\ Len(Tail(box)) = Len(box) - 1
      /\ \A j \in 1..Len(Tail(box)) : Tail(box)[j] = box[j + 1]
  BY <1>2, HeadTailProperties
<1>8. ASSUME NEW j \in DOMAIN Tail(box) PROVE Tail(box)[j] = sent[HasRead + 1 + j]
  <2>1. j \in 1..Len(Tail(box)) /\ j + 1 \in DOMAIN box
    BY <1>3, <1>7
  <2>2. Tail(box)[j] = sent[HasRead + (j + 1)]
    BY <1>2, <1>7, <2>1
  <2>3. HasRead + (j + 1) = HasRead + 1 + j
    BY <1>1, <2>1, <1>7
  <2> QED BY <2>2, <2>3
<1>9. Len(sent) = HasRead + 1 + Len(Tail(box))
  <2>1. Len(sent) = HasRead + Len(box) /\ Len(Tail(box)) = Len(box) - 1
    BY <1>2, <1>7
  <2>2. Len(box) \in Nat /\ Len(box) > 0
    BY <1>3
  <2>3. \A h, l \in Nat : l > 0 => h + l = h + 1 + (l - 1)
    OBVIOUS
  <2> HIDE DEF box
  <2> QED BY <1>1, <2>1, <2>2, <2>3
<1>10. First("server") \in Sendable(HasRead + 1)
  BY <1>4, <1>6 DEF TypeOK
<1> QED BY <1>1, <1>4, <1>6, <1>7, <1>8, <1>9, <1>10

\* What InOrder says of the messages, when a session that reads has read so many.
BoxInOrder(read) ==
  LET box == inbox["server"] IN
  /\ box \in Seq(Written) /\ read <= Len(sent)
  /\ box # <<>> \/ up["client"] => Len(sent) = read + Len(box)
  /\ \A j \in DOMAIN box : box[j] = sent[read + j]
  /\ \A n \in 1..read : sent[n].kind = Due(n)

\* A message that was due is read and answered.
LEMMA ReadsOne ==
  ASSUME TypeOK, InOrder, session \in SessionWaits, Waiting("server"),
         NEW m, TakeAndPost("server", m), UNCHANGED <<up, sent>>,
         First("server").kind = Due(HasRead + 1), HasRead' = HasRead + 1
  PROVE  BoxInOrder(HasRead)'
<1> DEFINE tail == Tail(inbox["server"])
<1>1. /\ HasRead \in Nat /\ HasRead + 1 \in DOMAIN sent
      /\ First("server") = sent[HasRead + 1]
      /\ tail \in Seq(Written) /\ Len(sent) = HasRead + 1 + Len(tail)
      /\ \A j \in DOMAIN tail : tail[j] = sent[HasRead + 1 + j]
  BY FirstIsNext
<1>2. \A n \in 1..(HasRead + 1) : sent[n].kind = Due(n)
  <2>1. \A n \in 1..HasRead : sent[n].kind = Due(n)
    BY DEF InOrder
  <2>2. \A n \in 1..(HasRead + 1) : n \in 1..HasRead \/ n = HasRead + 1
    BY <1>1
  <2> QED BY <1>1, <2>1, <2>2
<1>3. HasRead + 1 <= Len(sent)
  <2>1. DOMAIN sent = 1..Len(sent) /\ Len(sent) \in Nat
    BY DEF TypeOK
  <2>2. \A n \in 1..Len(sent) : n <= Len(sent)
    BY <2>1
  <2> QED BY <1>1, <2>1, <2>2
<1>4. CASE inbox'["server"] = tail
  BY <1>1, <1>2, <1>3, <1>4 DEF BoxInOrder
<1>5. CASE ~up["client"] /\ inbox'["server"] = <<>>
  BY <1>2, <1>3, <1>5 DEF BoxInOrder
<1> QED BY <1>4, <1>5, TakesAndPosts DEF TypeOK

\* A pre-login is answered: the session has read one message.
LEMMA StepAnswerPrelogin ==
  ASSUME Inv, AnswerPrelogin, UNCHANGED sent PROVE Inv'
<1> USE DEF AnswerPrelogin, Welcome
<1>1. TypeOK'
  BY TakesAndPosts DEF Inv, TypeOK, SessionStates, SessionWaits
<1>2. HasRead = 0 /\ HasRead' = 1
  BY DEF HasRead
<1>3. BoxInOrder(HasRead)'
  BY <1>2, ReadsOne DEF Inv, SessionWaits, Due
<1>4. InOrder'
  BY <1>3 DEF Inv, InOrder, BoxInOrder, SessionWaits
<1>5. answered = <<>> /\ events = <<>>
  BY DEF Inv, InOrder, SessionWaits, ReportedIsAnswered
<1>6. (AnswersOnlyTheLoggedIn /\ TakesTheFirst /\ AnswersWhatWasSent /\ ReportedIsAnswered)'
  BY <1>5 DEF AnswersOnlyTheLoggedIn, TakesTheFirst, AnswersWhatWasSent, ReportedIsAnswered
<1> QED BY <1>1, <1>4, <1>6 DEF Inv

\* A login is checked: it is refused, or the session has read two messages.
LEMMA StepCheckLogin ==
  ASSUME Inv, CheckLogin, UNCHANGED sent PROVE Inv'
<1> USE DEF CheckLogin, Welcome
<1> DEFINE presents == First("server").says[1]
<1>1. TypeOK'
  BY TakesAndPosts DEF Inv, TypeOK, SessionStates, SessionWaits
<1>2. answered = <<>> /\ events = <<>>
  BY DEF Inv, InOrder, SessionWaits, ReportedIsAnswered
<1>3. presents # "nobody"
  BY FirstIsNext, SessionMeetsAssumption DEF Inv, SessionWaits, Sendable, Message
<1>4. CASE session' = "refused"
  <2>1. InOrder'
    BY <1>4 DEF InOrder, SessionWaits
  <2>2. (AnswersOnlyTheLoggedIn /\ TakesTheFirst /\ AnswersWhatWasSent /\ ReportedIsAnswered)'
    BY <1>2, <1>4
    DEF AnswersOnlyTheLoggedIn, TakesTheFirst, AnswersWhatWasSent, ReportedIsAnswered
  <2> QED BY <1>1, <2>1, <2>2 DEF Inv
<1>5. CASE session' = "serving" /\ ~Refuses(presents)
  <2>1. HasRead = 1 /\ HasRead' = 2
    BY <1>2, <1>5 DEF HasRead
  <2>2. BoxInOrder(HasRead)'
    BY <1>5, <2>1, ReadsOne DEF Inv, SessionWaits, Due
  <2>3. InOrder'
    BY <1>2, <1>5, <2>2 DEF InOrder, BoxInOrder, SessionWaits
  <2>4. AnswersOnlyTheLoggedIn'
    BY <1>3, <1>5 DEF AnswersOnlyTheLoggedIn, Refuses
  <2>5. (TakesTheFirst /\ AnswersWhatWasSent /\ ReportedIsAnswered)'
    BY <1>2 DEF TakesTheFirst, AnswersWhatWasSent, ReportedIsAnswered
  <2> QED BY <1>1, <2>3, <2>4, <2>5 DEF Inv
<1> QED BY <1>4, <1>5

\* Of a report, whatever the batch and the answer.
LEMMA Reported ==
  ASSUME NEW no \in Nat, NEW did \in EventKinds PROVE [no |-> no, did |-> did] \in Reports
  BY DEF Reports

\* A batch is answered: reported, or the session is gone with its event.
LEMMA StepServeBatch ==
  ASSUME Inv, ServeBatch, UNCHANGED sent PROVE Inv'
<1> USE DEF ServeBatch, Welcome
<1> DEFINE m == First("server")
<1>1. PICK a \in AnswersTo(m.says[1]) :
        /\ answered' = Append(answered, [no |-> m.no, did |-> a.event])
        /\ \/ /\ TakeAndPost("server", Message("tabular", a.tokens, m.no))
              /\ events' = Append(events, [no |-> m.no, did |-> a.event])
              /\ session' = IF TakenBy(a.event) THEN "taken" ELSE session
              /\ UNCHANGED up
           \/ /\ ~up["client"]
              /\ session' = "gone" /\ TakeAndShut("server")
              /\ UNCHANGED events
  OBVIOUS
<1> DEFINE report == [no |-> m.no, did |-> a.event]
<1>2. /\ answered \in Seq(Reports) /\ events = answered
      /\ session = "serving" /\ session \in SessionWaits
  BY DEF Inv, TypeOK, ReportedIsAnswered, SessionWaits
<1>3. HasRead = 2 + Len(answered) /\ Len(answered) \in Nat
  BY <1>2 DEF HasRead
<1>4. /\ m = sent[Len(answered) + 3] /\ m.no = Len(answered) + 3
      /\ Len(answered) + 3 \in DOMAIN sent
  <2>1. /\ HasRead + 1 \in DOMAIN sent /\ m = sent[HasRead + 1]
        /\ m \in Sendable(HasRead + 1)
    BY <1>2, FirstIsNext DEF Inv
  <2>2. HasRead + 1 = Len(answered) + 3
    BY <1>3
  <2>3. m.no = HasRead + 1
    BY <2>1 DEF Sendable, Message
  <2> QED BY <2>1, <2>2, <2>3
<1>5. report \in Reports
  <2>1. m.no \in Nat
    BY <1>3, <1>4
  <2>2. a.event \in EventKinds
    BY AnswersToKinds
  <2> QED BY <2>1, <2>2, Reported
<1>6. /\ answered' \in Seq(Reports) /\ Len(answered') = Len(answered) + 1
      /\ DOMAIN answered' = 1..(Len(answered) + 1)
      /\ \A i \in DOMAIN answered : answered'[i] = answered[i]
      /\ answered'[Len(answered) + 1] = report
  BY <1>1, <1>2, <1>5
<1>7. TypeOK'
  <2>1. events' \in Seq(Reports)
    BY <1>1, <1>2, <1>6
  <2>2. DOMAIN inbox' = Sides /\ up' \in [Sides -> BOOLEAN]
    BY <1>1, TakesAndPosts, SocketsKeptTyped DEF Inv, TypeOK
  <2>3. session' \in SessionStates /\ (session' \in SessionWaits => up'["server"])
    BY <1>1, <1>2 DEF Inv, TypeOK, SessionStates, SessionWaits
  <2> QED BY <1>6, <2>1, <2>2, <2>3 DEF Inv, TypeOK
<1>8. \A n \in 1..(Len(answered) + 3) : sent[n].kind = Due(n)
  <2>1. \A n \in 1..(2 + Len(answered)) : sent[n].kind = Due(n)
    BY <1>2, <1>3 DEF Inv, InOrder
  <2>2. sent[Len(answered) + 3].kind = Due(Len(answered) + 3)
    BY <1>3, <1>4 DEF Due
  <2>3. \A n \in 1..(Len(answered) + 3) : n \in 1..(2 + Len(answered)) \/ n = Len(answered) + 3
    BY <1>3
  <2> QED BY <2>1, <2>2, <2>3
<1>9. InOrder'
  <2>1. CASE session' \in {"gone", "taken"}
    BY <2>1 DEF InOrder, SessionWaits
  <2>2. CASE session' = "serving"
    <3>1. TakeAndPost("server", Message("tabular", a.tokens, m.no)) /\ UNCHANGED up
      BY <1>1, <2>2
    <3>2. HasRead' = HasRead + 1
      BY <1>3, <1>6, <2>2 DEF HasRead
    <3>3. m.kind = Due(HasRead + 1)
      BY <1>3 DEF Due
    <3>4. BoxInOrder(HasRead)'
      BY <1>2, <3>1, <3>2, <3>3, ReadsOne DEF Inv
    <3> QED BY <2>2, <3>4 DEF InOrder, BoxInOrder
  <2> QED BY <1>1, <1>2, <2>1, <2>2
<1>10. AnswersOnlyTheLoggedIn'
  BY <1>2 DEF Inv, AnswersOnlyTheLoggedIn, Refuses
<1>11. ReportedIsAnswered'
  <2>1. CASE events' = answered'
    BY <1>6, <2>1, SubSeqFull DEF ReportedIsAnswered
  <2>2. CASE events' = answered /\ session' = "gone"
    <3>1. SubSeq(answered', 1, Len(answered)) = answered
      BY <1>1, <1>2, <1>3, <1>5, <1>6
    <3> QED BY <1>3, <1>6, <2>2, <3>1 DEF ReportedIsAnswered
  <2> QED BY <1>1, <1>2, <2>1, <2>2
<1>12. TakesTheFirst'
  <2>1. farEnd.holder = "take one" => \A i \in DOMAIN answered : answered[i].did # "inserted"
    BY <1>2 DEF Inv, TakesTheFirst
  <2>2. CASE events' = answered
    BY <1>2, <2>1, <2>2 DEF TakesTheFirst
  <2>3. CASE events' = answered' /\ session' = IF TakenBy(a.event) THEN "taken" ELSE session
    <3>1. \A i \in DOMAIN answered' : i \in DOMAIN answered \/ i = Len(answered) + 1
      BY <1>2, <1>3, <1>6
    <3>2. SUFFICES ASSUME farEnd.holder = "take one",
                          NEW i \in DOMAIN answered', answered'[i].did = "inserted"
                   PROVE  i = Len(answered') /\ session' \in {"taken", "gone"}
      BY <2>3 DEF TakesTheFirst
    <3>3. i = Len(answered) + 1 /\ answered'[i] = report
      BY <1>6, <2>1, <3>1, <3>2
    <3>4. report.did = a.event
      OBVIOUS
    <3>5. TakenBy(a.event)
      <4> HIDE DEF report
      <4> QED BY <1>1, <3>2, <3>3, <3>4 DEF TakenBy
    <3> QED BY <1>6, <2>3, <3>3, <3>5
  <2> QED BY <1>1, <1>2, <2>2, <2>3
<1>13. AnswersWhatWasSent'
  <2>1. \A i \in DOMAIN answered' : i \in DOMAIN answered \/ i = Len(answered) + 1
    BY <1>2, <1>3, <1>6
  <2>2. /\ Len(answered) + 1 + 2 = Len(answered) + 3
        /\ sent[Len(answered) + 3].says # <<"torn">>
    BY <1>3, <1>4
  <2> QED BY <1>4, <1>6, <1>8, <2>1, <2>2 DEF Inv, AnswersWhatWasSent
<1> QED BY <1>7, <1>9, <1>10, <1>11, <1>12, <1>13 DEF Inv

\* The client writes: what it wrote before stays as it was, and the message is
\* behind all that waits.
LEMMA StepClientSends ==
  ASSUME Inv, ClientSends PROVE Inv'
<1> USE DEF ClientSends
<1>1. PICK msg \in Sendable(Len(sent) + 1) : Post("client", msg) /\ sent' = Append(sent, msg)
  OBVIOUS
<1>2. /\ up["client"] /\ Len(sent) < MaxSent /\ sent \in Seq(Written)
      /\ Len(sent) \in Nat /\ DOMAIN sent = 1..Len(sent)
  BY DEF Inv, TypeOK
<1>3. msg \in Written
  BY <1>2, SessionMeetsAssumption DEF Written
<1>4. /\ sent' \in Seq(Written) /\ Len(sent') = Len(sent) + 1
      /\ DOMAIN sent' = 1..(Len(sent) + 1)
      /\ \A n \in DOMAIN sent : sent'[n] = sent[n]
      /\ sent'[Len(sent) + 1] = msg
  BY <1>1, <1>2, <1>3
<1>5. TypeOK'
  <2>1. DOMAIN inbox' = Sides
    BY <1>1, ClientPosts DEF Inv, TypeOK
  <2>2. \A n \in DOMAIN sent' : sent'[n] \in Sendable(n)
    <3>1. \A n \in DOMAIN sent' : n \in DOMAIN sent \/ n = Len(sent) + 1
      BY <1>2, <1>4
    <3> QED BY <1>1, <1>4, <3>1 DEF Inv, TypeOK
  <2>3. Len(sent') <= MaxSent
    BY <1>2, <1>4, SessionMeetsAssumption
  <2> QED BY <1>4, <2>1, <2>2, <2>3 DEF Inv, TypeOK, sessionVars
<1>6. InOrder'
  <2> SUFFICES ASSUME session \in SessionWaits PROVE InOrder'
    BY DEF InOrder, sessionVars
  <2> DEFINE box == inbox["server"]
  <2>1. /\ box \in Seq(Written) /\ Len(box) \in Nat /\ HasRead \in Nat
        /\ Len(sent) = HasRead + Len(box)
        /\ \A j \in DOMAIN box : box[j] = sent[HasRead + j]
    <3>1. HasRead \in Nat
      BY DEF Inv, TypeOK, HasRead
    <3>2. /\ box \in Seq(Written) /\ Len(sent) = HasRead + Len(box)
          /\ \A j \in DOMAIN box : box[j] = sent[HasRead + j]
      BY <1>2 DEF Inv, InOrder
    <3> QED BY <3>1, <3>2
  <2>2. inbox'["server"] = Append(box, msg)
    BY <1>1, ClientPosts DEF Inv, TypeOK
  <2>3. /\ inbox'["server"] \in Seq(Written) /\ Len(inbox'["server"]) = Len(box) + 1
        /\ DOMAIN inbox'["server"] = 1..(Len(box) + 1)
        /\ \A j \in 1..Len(box) : inbox'["server"][j] = box[j]
        /\ inbox'["server"][Len(box) + 1] = msg
    BY <1>3, <2>1, <2>2
  <2>4. HasRead' = HasRead
    BY DEF HasRead, sessionVars
  <2>5. Len(sent') = HasRead + Len(inbox'["server"]) /\ HasRead <= Len(sent')
    BY <1>4, <2>1, <2>3
  <2>6. ASSUME NEW j \in DOMAIN inbox'["server"]
        PROVE  inbox'["server"][j] = sent'[HasRead + j]
    <3>1. CASE j \in 1..Len(box)
      <4>1. HasRead + j \in DOMAIN sent
        BY <1>2, <2>1, <3>1
      <4>2. j \in DOMAIN box
        BY <2>1, <3>1
      <4>3. inbox'["server"][j] = box[j] /\ box[j] = sent[HasRead + j]
        BY <2>1, <2>3, <3>1, <4>2
      <4>4. sent'[HasRead + j] = sent[HasRead + j]
        BY <1>4, <4>1
      <4> QED BY <4>3, <4>4
    <3>2. CASE j = Len(box) + 1
      <4>1. HasRead + j = Len(sent) + 1
        BY <2>1, <3>2
      <4> QED BY <1>4, <2>3, <3>2, <4>1
    <3>3. j \in 1..(Len(box) + 1) /\ Len(box) \in Nat
      BY <2>1, <2>3
    <3>4. j \in 1..Len(box) \/ j = Len(box) + 1
      BY <3>3
    <3> QED BY <3>1, <3>2, <3>4
  <2>7. \A n \in 1..HasRead : sent'[n].kind = Due(n)
    <3>1. \A n \in 1..HasRead : n \in DOMAIN sent
      BY <1>2, <2>1
    <3> QED BY <1>4, <3>1 DEF Inv, InOrder
  <2>8. session' # "serving" => answered' = <<>>
    BY DEF Inv, InOrder, sessionVars
  <2> QED BY <2>3, <2>4, <2>5, <2>6, <2>7, <2>8 DEF InOrder
<1>7. AnswersWhatWasSent'
  <2> SUFFICES ASSUME NEW i \in DOMAIN answered
               PROVE  /\ i + 2 \in DOMAIN sent' /\ answered[i].no = i + 2
                      /\ \A n \in 1..(i + 2) : sent'[n].kind = Due(n)
                      /\ sent'[i + 2].says # <<"torn">>
    BY DEF AnswersWhatWasSent, sessionVars
  <2>1. /\ i + 2 \in DOMAIN sent /\ answered[i].no = i + 2
        /\ \A n \in 1..(i + 2) : sent[n].kind = Due(n)
        /\ sent[i + 2].says # <<"torn">>
    BY DEF Inv, AnswersWhatWasSent
  <2>2. \A n \in 1..(i + 2) : n \in DOMAIN sent
    BY <1>2, <2>1
  <2>3. i + 2 \in DOMAIN sent'
    BY <1>2, <1>4, <2>1
  <2> QED BY <1>4, <2>1, <2>2, <2>3
<1>8. (AnswersOnlyTheLoggedIn /\ ReportedIsAnswered /\ TakesTheFirst)'
  BY DEF Inv, AnswersOnlyTheLoggedIn, ReportedIsAnswered, TakesTheFirst, Refuses, sessionVars
<1> QED BY <1>5, <1>6, <1>7, <1>8 DEF Inv

\* The client reads, or closes, or nothing happens: a session may lose what
\* was on its way to it, and only when the client has closed.
LEMMA StepClientAside ==
  ASSUME Inv, UNCHANGED <<sessionVars, sent>>,
         DOMAIN inbox' = Sides, up' \in [Sides -> BOOLEAN], up'["server"] = up["server"],
         \/ inbox'["server"] = inbox["server"] /\ (up'["client"] => up["client"])
         \/ inbox'["server"] = <<>> /\ ~up'["client"]
  PROVE  Inv'
<1> USE DEF sessionVars
<1>1. TypeOK'
  BY DEF Inv, TypeOK
<1>2. HasRead' = HasRead
  BY DEF HasRead
<1>3. InOrder'
  <2> SUFFICES ASSUME session \in SessionWaits PROVE InOrder'
    BY DEF InOrder
  <2> DEFINE box == inbox["server"]
  <2>1. /\ box \in Seq(Written) /\ HasRead <= Len(sent)
        /\ box # <<>> \/ up["client"] => Len(sent) = HasRead + Len(box)
        /\ \A j \in DOMAIN box : box[j] = sent[HasRead + j]
        /\ \A n \in 1..HasRead : sent[n].kind = Due(n)
        /\ session # "serving" => answered = <<>>
    BY DEF Inv, InOrder
  <2>2. CASE box' = box /\ (up'["client"] => up["client"])
    BY <1>2, <2>1, <2>2 DEF InOrder
  <2>3. CASE box' = <<>> /\ ~up'["client"]
    BY <1>2, <2>1, <2>3 DEF InOrder
  <2> QED BY <2>2, <2>3
<1>4. (AnswersOnlyTheLoggedIn /\ ReportedIsAnswered /\ TakesTheFirst /\ AnswersWhatWasSent)'
  BY DEF Inv, AnswersOnlyTheLoggedIn, ReportedIsAnswered, TakesTheFirst, AnswersWhatWasSent,
         Refuses
<1> QED BY <1>1, <1>3, <1>4 DEF Inv

\* Whatever the client or the session does (session.rs:90-243).
LEMMA StepInv == Inv /\ [Next]_vars => Inv'
<1> SUFFICES ASSUME Inv, [Next]_vars PROVE Inv'
  OBVIOUS
<1>1. CASE SessionMoves
  <2>1. CASE AnswerPrelogin /\ UNCHANGED sent
    BY <2>1, StepAnswerPrelogin
  <2>2. CASE CheckLogin /\ UNCHANGED sent
    BY <2>2, StepCheckLogin
  <2>3. CASE ServeBatch /\ UNCHANGED sent
    BY <2>3, StepServeBatch
  <2>4. CASE /\ RejectMessage \/ SeesEnd \/ SessionTimesOut \/ DropSession
             /\ UNCHANGED sent
    BY <2>4, StepEnds DEF RejectMessage, SeesEnd, SessionTimesOut, DropSession
  <2>5. CASE SessionCloses /\ UNCHANGED sent
    BY <2>5, StepEnds DEF SessionCloses, CloseRefused, CloseTaken
  <2> QED BY <1>1, <2>1, <2>2, <2>3, <2>4, <2>5 DEF SessionMoves, SessionSteps, SessionReads
<1>2. CASE ClientSends
  BY <1>2, StepClientSends
<1>3. CASE ClientReadsOne
  <2>1. DOMAIN inbox' = Sides /\ inbox'["server"] = inbox["server"]
    BY <1>3 DEF ClientReadsOne, Take, Inv, TypeOK, Sides
  <2> QED BY <1>3, <2>1, StepClientAside DEF ClientReadsOne, Inv, TypeOK
<1>4. CASE ClientShuts
  BY <1>4, ClientCloses, StepClientAside DEF ClientShuts, Inv, TypeOK
<1>5. CASE Finished \/ UNCHANGED vars
  BY <1>5, StepClientAside DEF Finished, vars, Inv, TypeOK
<1> QED BY <1>1, <1>2, <1>3, <1>4, <1>5 DEF Next

\* What a session's promises rest on holds whatever client it meets
\* (session.rs:90-243).
THEOREM SessionInvariance == Spec => []Inv
<1> QED BY InitInv, StepInv, PTL DEF Spec

\* No batch is answered to a client that did not log in, or was refused, and
\* none before its login whatever is sent ahead of its turn (session.rs:107-157).
THEOREM OnlyTheLoggedIn == Spec => []AnswersOnlyTheLoggedIn
<1>1. Inv => AnswersOnlyTheLoggedIn
  BY DEF Inv
<1> QED BY <1>1, SessionInvariance, PTL

\* The events are what was answered, in order and without a gap, save the last
\* where its answer could not be written (session.rs:218-243).
THEOREM EventsAreAnswers == Spec => []ReportedIsAnswered
<1>1. Inv => ReportedIsAnswered
  BY DEF Inv
<1> QED BY <1>1, SessionInvariance, PTL

\* take_one takes the first INSERT, answered, and no other (lib.rs:348-353).
THEOREM TakesOne == Spec => []TakesTheFirst
<1>1. Inv => TakesTheFirst
  BY DEF Inv
<1> QED BY <1>1, SessionInvariance, PTL

\* Every batch written behind a pre-login and a login is answered once and in
\* order, up to the first message that is not one (session.rs:218-231).
THEOREM AnswersInOrder == Spec => []AnswersWhatWasSent
<1>1. Inv => AnswersWhatWasSent
  BY DEF Inv
<1> QED BY <1>1, SessionInvariance, PTL
=============================================================================
