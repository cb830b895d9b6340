--------------------------- MODULE ExchangeProofs ---------------------------
(***************************************************************************)
(* Proofs about Exchange, for every value of its constants.                *)
(*                                                                         *)
(* OutcomeIsOwn is what matters and is not inductive: that an answer read  *)
(* is the caller's own needs that nothing else can lie on its connection   *)
(* (InConversation), which needs that a connection taken is empty (Clean)  *)
(* and has no other holder (HeldByOne); that an attempt told of as refused *)
(* did not also run needs that a batch is under way only while it is not   *)
(* settled (InFlight, Settled).  Progress ties a call's place to whether   *)
(* it has a connection and how many attempts it has begun.  Inv is their   *)
(* conjunction; one lemma for each group of actions shows that it is kept. *)
(*                                                                         *)
(* NoMoreThanAtOnce is a count: a connection is opened anew only where     *)
(* none is kept, so those that live are held, each by a call of its own.   *)
(***************************************************************************)
EXTENDS ExchangePeak, FiniteSetTheorems, TLAPS

USE ConnAssumption, KeyAssumption, AttemptsAssumption, TimeoutAssumption

\* Every variable has its type before the first call (lib.rs:106-108).
LEMMA InitTypeOK == Init => TypeOK
  BY SMTT(30) DEF Init, TypeOK, PCs, States, Using, Returned

\* Every step keeps the types.  That an attempt more is still within
\* Attempts is where Progress is needed.
LEMMA StepTypeOK == TypeOK /\ Progress /\ [Next]_vars => TypeOK'
<1> SUFFICES ASSUME TypeOK, Progress, [Next]_vars PROVE TypeOK'
  OBVIOUS
<1> USE DEF TypeOK, PCs, States, Using, Returned, callState, poolState, wire, database
<1>1. ASSUME NEW c \in Calls, Begin(c) PROVE TypeOK'
  BY <1>1 DEF Begin
<1>2. ASSUME NEW c \in Calls, FindNone(c) PROVE TypeOK'
  BY <1>2 DEF FindNone
<1>3. ASSUME NEW c \in Calls, ConnectFails(c) PROVE TypeOK'
  BY <1>3 DEF ConnectFails
<1>4. ASSUME NEW c \in Calls, NEW k \in Conns, Take(c, k) PROVE TypeOK'
  BY <1>4 DEF Take, Hold, KeptFor, Progress
<1>5. ASSUME NEW c \in Calls, NEW k \in Conns, Discard(c, k) PROVE TypeOK'
  BY <1>5 DEF Discard, KeptFor
<1>6. ASSUME NEW c \in Calls, NEW k \in Conns, Open(c, k) PROVE TypeOK'
  BY <1>6 DEF Open, Hold, Progress
<1>7. ASSUME NEW c \in Calls, Write(c) PROVE TypeOK'
  <2>1. conn[c] \in Conns /\ Batch(c) \in Batches
    BY <1>7 DEF Write, Progress, Batch, Batches
  <2>2. toServer' \in [Conns -> Seq(Batches)]
    BY <1>7, <2>1 DEF Write
  <2> QED BY <1>7, <2>2 DEF Write
<1>8. ASSUME NEW c \in Calls, WriteFails(c) PROVE TypeOK'
  BY <1>8 DEF WriteFails, FailAttempt, Drop, MayTryAgain, Progress
<1>9. ASSUME NEW c \in Calls, ReadDone(c) \/ ReadError(c) PROVE TypeOK'
  <2>1. PICK result \in Returned, next \in {"kept", "dropped"} :
           /\ pc[c] = "reading" /\ toClient[conn[c]] # <<>>
           /\ Return(c, result, next)
    BY <1>9 DEF ReadDone, ReadError
  <2>2. conn[c] \in Conns
    BY <2>1 DEF Progress
  <2>3. Tail(toClient[conn[c]]) \in Seq(Answers)
    BY <2>1, <2>2
  <2> QED BY <2>1, <2>2, <2>3 DEF Return
<1>10. ASSUME NEW c \in Calls, ReadFails(c) PROVE TypeOK'
  BY <1>10 DEF ReadFails, FailAttempt, Drop, MayTryAgain, Progress
<1>11. ASSUME NEW k \in Conns, Serve(k) PROVE TypeOK'
  <2>1. PICK b \in Batches, v \in Verdicts :
           /\ b = Head(toServer[k]) /\ toServer[k] # <<>>
           /\ Runs(b) \/ Faults(b)
           /\ Reply(k, AnswerTo(b, v))
    BY <1>11 DEF Serve
  <2>2. b.of \in Calls /\ b.try \in 1..Attempts /\ AnswerTo(b, v) \in Answers
    BY DEF AnswerTo, Answers, Batches
  <2>3. toClient' \in [Conns -> Seq(Answers)]
    BY <2>1, <2>2 DEF Reply
  <2>4. Tail(toServer[k]) \in Seq(Batches)
    BY <2>1
  <2>5. toServer' \in [Conns -> Seq(Batches)]
    BY <1>11, <2>4 DEF Serve, TakeBatch
  <2>6. ran' \in [Calls -> SUBSET (1..Attempts)] /\ erred' \in [Calls -> SUBSET (1..Attempts)]
    <3>1. /\ ran[b.of] \cup {b.try} \in SUBSET (1..Attempts)
          /\ erred[b.of] \cup {b.try} \in SUBSET (1..Attempts)
      BY <2>2
    <3>2. CASE Runs(b)
      BY <3>1, <3>2 DEF Runs
    <3>3. CASE Faults(b)
      BY <3>1, <3>3 DEF Faults
    <3> QED BY <2>1, <3>2, <3>3
  <2>7. UNCHANGED <<callState, poolState, serverUp>>
    BY <1>11 DEF Serve
  <2> QED BY <2>3, <2>5, <2>6, <2>7
<1>12. ASSUME NEW k \in Conns, ServerCloses(k) PROVE TypeOK'
  <2>1. PICK left \in Seq(Answers) : toClient' = [toClient EXCEPT ![k] = left]
    <3>1. toClient[k] \in Seq(Answers) /\ <<>> \in Seq(Answers)
      OBVIOUS
    <3> QED BY <1>12, <3>1 DEF ServerCloses
  <2> QED BY <1>12, <2>1 DEF ServerCloses
<1>13. CASE UNCHANGED vars
  BY <1>13 DEF vars
<1> QED
  BY <1>1, <1>2, <1>3, <1>4, <1>5, <1>6, <1>7, <1>8, <1>9, <1>10, <1>11, <1>12, <1>13
  DEF Next, Call, Server, Finished

\* What a call reads is still its own where its connection and its attempt
\* are the same and the database has only done more.
LEMMA SameConversation ==
  ASSUME NEW d \in Calls, Conversation(d),
         conn'[d] = conn[d], tries'[d] = tries[d],
         toServer'[conn[d]] = toServer[conn[d]], toClient'[conn[d]] = toClient[conn[d]],
         ran[d] \subseteq ran'[d], erred[d] \subseteq erred'[d]
  PROVE  Conversation(d)'
  BY DEF Conversation, Idle, Batch, AnswerTo

\* Batches on their way stay unsettled where none is written or served and
\* no call goes back to an earlier attempt.
LEMMA SameFlight ==
  ASSUME TypeOK, InFlight, UNCHANGED <<toServer, ran, erred>>,
         \A d \in Calls : tries'[d] \in Nat /\ tries[d] <= tries'[d],
         \A d \in Calls : pc'[d] = "writing" =>
            (pc[d] = "writing" /\ tries'[d] = tries[d]) \/ tries[d] < tries'[d]
  PROVE  InFlight'
<1>1. ASSUME NEW b \in Batches, Pending(b) PROVE Pending(b)'
  <2>1. b.of \in Calls /\ b.try \in Nat /\ tries[b.of] \in Nat
    BY DEF Batches, TypeOK
  <2> QED BY <1>1, <2>1 DEF Pending
<1>2. \A k \in Conns : toServer[k] # <<>> => Head(toServer[k]) \in Batches
  BY DEF TypeOK
<1> QED BY <1>1, <1>2 DEF InFlight

\* A step that only moves a call on - it begins, finds no kept connection, or
\* cannot connect - disturbs nothing (lib.rs:290-294, client.rs:47-55).
LEMMA QuietInv ==
  ASSUME Inv, TypeOK', NEW c \in Calls, Begin(c) \/ FindNone(c) \/ ConnectFails(c)
  PROVE  Inv'
<1> USE DEF Inv, TypeOK, Begin, FindNone, ConnectFails, callState, poolState, wire,
            database, PCs, Using, Returned
<1>1. Progress'
  BY DEF Progress
<1>2. HeldByOne'
  BY DEF HeldByOne
<1>3. Clean'
  BY DEF Clean, Idle
<1>4. InConversation'
  <2> SUFFICES ASSUME NEW d \in Calls, pc'[d] = "reading" PROVE Conversation(d)'
    BY DEF InConversation
  <2>1. pc[d] = "reading" /\ Conversation(d)
    BY DEF InConversation
  <2>2. UNCHANGED <<conn, tries, toServer, toClient, ran, erred>>
    OBVIOUS
  <2> QED BY <2>1, <2>2, SameConversation
<1>5. InFlight'
  <2>1. /\ UNCHANGED <<toServer, ran, erred, tries>>
        /\ \A d \in Calls : tries[d] \in Nat /\ (pc'[d] = "writing" => pc[d] = "writing")
    OBVIOUS
  <2> QED BY <2>1, SameFlight
<1>6. Settled'
  BY DEF Settled
<1>7. OutcomeIsOwn'
  BY DEF OutcomeIsOwn
<1> QED BY <1>1, <1>2, <1>3, <1>4, <1>5, <1>6, <1>7

\* A connection taken from the pool or just opened has nothing on it and no
\* other holder (client.rs:176-182, client.rs:47-96).
LEMMA HoldInv ==
  ASSUME Inv, TypeOK', NEW c \in Calls, NEW k \in Conns,
         Take(c, k) \/ Open(c, k)
  PROVE  Inv'
<1> USE DEF Inv, TypeOK, PCs, Using, Returned
<1>0. /\ pc[c] \in {"taking", "opening"} /\ conn[c] = NoConn /\ tries[c] < Attempts
      /\ state[k] \in {"kept", "unborn"} /\ Idle(k)
      /\ \A d \in Calls : conn[d] # k
      /\ pc' = [pc EXCEPT ![c] = "writing"]
      /\ conn' = [conn EXCEPT ![c] = k]
      /\ tries' = [tries EXCEPT ![c] = @ + 1]
      /\ state' = [state EXCEPT ![k] = "held"]
      /\ key'[k] = KeyOf[c] /\ \A l \in Conns : l # k => key'[l] = key[l]
      /\ UNCHANGED <<toServer, toClient, ran, erred>>
  <2>1. /\ pc[c] \in {"taking", "opening"} /\ state[k] \in {"kept", "unborn"}
        /\ Take(c, k) => key[k] = KeyOf[c] /\ key' = key
        /\ Open(c, k) => key' = [key EXCEPT ![k] = KeyOf[c]]
        /\ \E b \in BOOLEAN : Hold(c, k, b)
        /\ UNCHANGED <<toServer, toClient, ran, erred>>
    BY DEF Take, Open, KeptFor, wire, database
  <2>2. conn[c] = NoConn /\ tries[c] < Attempts
    BY <2>1 DEF Progress
  <2>3. Idle(k) /\ \A d \in Calls : conn[d] # k
    BY <2>1 DEF Clean, HeldByOne
  <2> QED BY <2>1, <2>2, <2>3 DEF Hold
<1>1. Progress'
  BY <1>0 DEF Progress
<1>2. HeldByOne'
  BY <1>0 DEF HeldByOne
<1>3. Clean'
  BY <1>0 DEF Clean, Idle
<1>4. InConversation'
  <2> SUFFICES ASSUME NEW d \in Calls, pc'[d] = "reading" PROVE Conversation(d)'
    BY DEF InConversation
  <2>1. d # c /\ pc[d] = "reading" /\ Conversation(d)
    BY <1>0 DEF InConversation
  <2>2. conn'[d] = conn[d] /\ tries'[d] = tries[d]
    BY <1>0, <2>1
  <2> QED BY <1>0, <2>1, <2>2, SameConversation
<1>5. InFlight'
  <2>1. \A d \in Calls : tries'[d] = IF d = c THEN tries[d] + 1 ELSE tries[d]
    BY <1>0
  <2>2. \A d \in Calls : d # c => pc'[d] = pc[d]
    BY <1>0
  <2>3. \A d \in Calls : tries[d] \in Nat
    OBVIOUS
  <2> QED BY <1>0, <2>1, <2>2, <2>3, SameFlight
<1>6. Settled'
  BY <1>0 DEF Settled
<1>7. OutcomeIsOwn'
  BY <1>0 DEF OutcomeIsOwn
<1> QED BY <1>1, <1>2, <1>3, <1>4, <1>5, <1>6, <1>7

\* A kept connection that is not usable is let go (README.md:40: replaced
\* where the server closed it).
LEMMA DiscardInv ==
  ASSUME Inv, TypeOK', NEW c \in Calls, NEW k \in Conns, Discard(c, k)
  PROVE  Inv'
<1> USE DEF Inv, TypeOK, Discard, KeptFor, callState, wire, database
<1>1. Progress'
  BY DEF Progress
<1>2. HeldByOne'
  BY DEF HeldByOne
<1>3. Clean'
  BY DEF Clean, Idle
<1>4. InConversation'
  <2> SUFFICES ASSUME NEW d \in Calls, pc'[d] = "reading" PROVE Conversation(d)'
    BY DEF InConversation
  <2>1. pc[d] = "reading" /\ Conversation(d)
    BY DEF InConversation
  <2>2. UNCHANGED <<conn, tries, toServer, toClient, ran, erred>>
    OBVIOUS
  <2> QED BY <2>1, <2>2, SameConversation
<1>5. InFlight'
  <2>1. /\ UNCHANGED <<toServer, ran, erred, tries>>
        /\ \A d \in Calls : tries[d] \in Nat /\ (pc'[d] = "writing" => pc[d] = "writing")
    OBVIOUS
  <2> QED BY <2>1, SameFlight
<1>6. Settled'
  BY DEF Settled
<1>7. OutcomeIsOwn'
  BY DEF OutcomeIsOwn
<1> QED BY <1>1, <1>2, <1>3, <1>4, <1>5, <1>6, <1>7

\* Client::query writes to a connection that is its own and empty, a batch no
\* other connection carries (client.rs:115).
LEMMA WriteInv ==
  ASSUME Inv, TypeOK', NEW c \in Calls, Write(c)
  PROVE  Inv'
<1> DEFINE k == conn[c]
<1> USE DEF Inv, TypeOK, PCs, Using, Returned
<1>0. /\ pc[c] = "writing" /\ k \in Conns /\ Idle(k) /\ state[k] = "held"
      /\ tries[c] \in 1..Attempts /\ Batch(c) \in Batches
      /\ Batch(c).of = c /\ Batch(c).try = tries[c]
      /\ \A d \in Calls : conn[d] = k => d = c
      /\ pc' = [pc EXCEPT ![c] = "reading"]
      /\ toServer' = [toServer EXCEPT ![k] = IF serverUp[k] THEN <<Batch(c)>> ELSE <<>>]
      /\ UNCHANGED <<conn, tries, state, key, toClient, ran, erred>>
  <2>1. pc[c] = "writing" /\ k \in Conns /\ Idle(k) /\ tries[c] \in 1..Attempts
    BY DEF Write, Progress, Clean
  <2>2. state[k] = "held" /\ \A d \in Calls : conn[d] = k => d = c
    BY <2>1 DEF HeldByOne
  <2>3. Batch(c) \in Batches /\ Batch(c).of = c /\ Batch(c).try = tries[c]
    BY <2>1 DEF Batch, Batches
  <2>4. Append(toServer[k], Batch(c)) = <<Batch(c)>>
    BY <2>1, <2>3 DEF Idle
  <2> QED BY <2>1, <2>2, <2>3, <2>4 DEF Write, poolState, database, Idle
<1>1. Progress'
  BY <1>0 DEF Progress
<1>2. HeldByOne'
  BY <1>0 DEF HeldByOne
<1>3. Clean'
  BY <1>0 DEF Clean, Idle
<1>4. InConversation'
  <2> SUFFICES ASSUME NEW d \in Calls, pc'[d] = "reading" PROVE Conversation(d)'
    BY DEF InConversation
  <2>1. CASE d = c
    BY <1>0, <2>1 DEF Conversation, Idle, Batch
  <2>2. CASE d # c
    <3>1. pc[d] = "reading" /\ Conversation(d) /\ conn[d] # k
      BY <1>0, <2>2 DEF InConversation
    <3> QED BY <1>0, <3>1, SameConversation
  <2> QED BY <2>1, <2>2
<1>5. InFlight'
  <2>0. PICK b \in Batches : b = Batch(c)
    BY <1>0
  <2>1. ASSUME NEW e \in Batches, Pending(e) PROVE Pending(e)'
    BY <1>0, <2>1 DEF Pending, Batches
  <2>2. Pending(b)' /\ ~Pending(b)
    BY <1>0, <2>0 DEF Pending, Settled
  <2>3. /\ \A l \in Conns : l # k => toServer'[l] = toServer[l]
        /\ toServer'[k] \in {<<b>>, <<>>}
    BY <1>0, <2>0
  <2>4. \A l \in Conns : toServer[l] # <<>> =>
           /\ Head(toServer[l]) \in Batches /\ Pending(Head(toServer[l]))
           /\ toServer[l] = <<Head(toServer[l])>> /\ toServer[l] # <<b>>
    BY <2>2 DEF InFlight
  <2>5. ASSUME NEW l \in Conns, toServer'[l] # <<>>
        PROVE  \E e \in Batches : toServer'[l] = <<e>> /\ Pending(e)'
    <3>1. CASE l = k
      BY <2>2, <2>3, <2>5, <3>1
    <3>2. CASE l # k
      BY <2>1, <2>3, <2>4, <2>5, <3>2
    <3> QED BY <3>1, <3>2
  <2>6. ASSUME NEW l \in Conns, toServer'[l] # <<>>
        PROVE  toServer'[l] = <<Head(toServer[l])'>> /\ Pending(Head(toServer[l]))'
    <3>1. PICK e \in Batches : toServer'[l] = <<e>> /\ Pending(e)'
      BY <2>5, <2>6
    <3>2. Head(toServer[l])' = e
      BY <3>1
    <3> QED BY <3>1, <3>2 DEF Pending
  <2>7. ASSUME NEW l \in Conns, NEW m \in Conns, toServer'[l] # <<>>,
               toServer'[m] = toServer'[l]
        PROVE  m = l
    BY <2>3, <2>4, <2>7 DEF InFlight
  <2> QED BY <2>6, <2>7 DEF InFlight
<1>6. Settled'
  BY <1>0 DEF Settled
<1>7. OutcomeIsOwn'
  BY <1>0 DEF OutcomeIsOwn
<1> QED BY <1>1, <1>2, <1>3, <1>4, <1>5, <1>6, <1>7

\* An attempt that failed leaves with its connection what may still be on it
\* (client.rs:115-120).
LEMMA FailInv ==
  ASSUME Inv, TypeOK', NEW c \in Calls, WriteFails(c) \/ ReadFails(c)
  PROVE  Inv'
<1> DEFINE k == conn[c]
<1> USE DEF Inv, TypeOK, PCs, Using, Returned
<1>0. /\ pc[c] \in Using /\ k \in Conns /\ state[k] = "held"
      /\ \A d \in Calls : conn[d] = k => d = c
      /\ pc' = [pc EXCEPT ![c] = IF MayTryAgain(c) THEN "opening" ELSE "failed"]
      /\ conn' = [conn EXCEPT ![c] = NoConn]
      /\ state' = [state EXCEPT ![k] = "dropped"]
      /\ toClient' = [toClient EXCEPT ![k] = <<>>]
      /\ UNCHANGED <<tries, key, toServer, ran, erred>>
  <2>1. pc[c] \in Using /\ FailAttempt(c)
    BY DEF WriteFails, ReadFails
  <2>2. k \in Conns
    BY <2>1 DEF Progress
  <2> QED BY <2>1, <2>2 DEF FailAttempt, Drop, HeldByOne, database
<1>1. Progress'
  BY <1>0 DEF Progress, MayTryAgain
<1>2. HeldByOne'
  BY <1>0 DEF HeldByOne
<1>3. Clean'
  BY <1>0 DEF Clean, Idle
<1>4. InConversation'
  <2> SUFFICES ASSUME NEW d \in Calls, pc'[d] = "reading" PROVE Conversation(d)'
    BY DEF InConversation
  <2>1. d # c /\ pc[d] = "reading" /\ Conversation(d)
    BY <1>0 DEF InConversation
  <2>2. conn'[d] = conn[d] /\ conn[d] # k
    BY <1>0, <2>1
  <2> QED BY <1>0, <2>1, <2>2, SameConversation
<1>5. InFlight'
  <2>1. /\ UNCHANGED <<toServer, ran, erred, tries>>
        /\ \A d \in Calls : tries[d] \in Nat /\ (pc'[d] = "writing" => pc[d] = "writing")
    BY <1>0
  <2> QED BY <2>1, SameFlight
<1>6. Settled'
  BY <1>0 DEF Settled
<1>7. OutcomeIsOwn'
  BY <1>0 DEF OutcomeIsOwn
<1> QED BY <1>1, <1>2, <1>3, <1>4, <1>5, <1>6, <1>7

\* A call that returns with an answer returns with its own, and what it gives
\* back to the pool is empty (client.rs:117-138, client.rs:177-178).
LEMMA ReturnInv ==
  ASSUME Inv, TypeOK', NEW c \in Calls, ReadDone(c) \/ ReadError(c)
  PROVE  Inv'
<1> DEFINE k == conn[c]
<1> USE DEF Inv, TypeOK, PCs, Using, Returned
<1>0. PICK result \in {"ok", "refused"}, next \in {"kept", "dropped"} :
        /\ pc[c] = "reading" /\ k \in Conns /\ state[k] = "held"
        /\ \A d \in Calls : conn[d] = k => d = c
        /\ toServer[k] = <<>>
        /\ result = "ok" => tries[c] \in ran[c]
        /\ result = "refused" => tries[c] \in erred[c]
        /\ pc' = [pc EXCEPT ![c] = result]
        /\ conn' = [conn EXCEPT ![c] = NoConn]
        /\ state' = [state EXCEPT ![k] = next]
        /\ toClient' = [toClient EXCEPT ![k] = <<>>]
        /\ UNCHANGED <<tries, key, toServer, ran, erred>>
  <2>1. PICK result \in {"ok", "refused"}, next \in {"kept", "dropped"} :
           /\ pc[c] = "reading" /\ toClient[k] # <<>>
           /\ result = "ok" => Head(toClient[k]).says = "done"
           /\ result = "refused" => Head(toClient[k]).says = "error"
           /\ Return(c, result, next)
    BY DEF ReadDone, ReadError
  <2>2. k \in Conns
    BY <2>1 DEF Progress
  <2>3. state[k] = "held" /\ \A d \in Calls : conn[d] = k => d = c
    BY <2>2 DEF HeldByOne
  <2>4. PICK v \in Verdicts :
           /\ toServer[k] = <<>> /\ toClient[k] = <<AnswerTo(Batch(c), v)>>
           /\ v = "done" => tries[c] \in ran[c]
           /\ v = "error" => tries[c] \in erred[c]
    BY <2>1 DEF InConversation, Conversation, Idle
  <2>5. Head(toClient[k]).says = v /\ Tail(toClient[k]) = <<>>
    BY <2>4 DEF AnswerTo
  <2>6. toClient' = [toClient EXCEPT ![k] = <<>>]
    BY <2>1, <2>5 DEF Return
  <2> QED BY <2>1, <2>2, <2>3, <2>4, <2>5, <2>6 DEF Return, database
<1>1. Progress'
  BY <1>0 DEF Progress
<1>2. HeldByOne'
  BY <1>0 DEF HeldByOne
<1>3. Clean'
  BY <1>0 DEF Clean, Idle
<1>4. InConversation'
  <2> SUFFICES ASSUME NEW d \in Calls, pc'[d] = "reading" PROVE Conversation(d)'
    BY DEF InConversation
  <2>1. d # c /\ pc[d] = "reading" /\ Conversation(d)
    BY <1>0 DEF InConversation
  <2>2. conn'[d] = conn[d] /\ conn[d] # k
    BY <1>0, <2>1
  <2> QED BY <1>0, <2>1, <2>2, SameConversation
<1>5. InFlight'
  <2>1. /\ UNCHANGED <<toServer, ran, erred, tries>>
        /\ \A d \in Calls : tries[d] \in Nat /\ (pc'[d] = "writing" => pc[d] = "writing")
    BY <1>0
  <2> QED BY <2>1, SameFlight
<1>6. Settled'
  BY <1>0 DEF Settled
<1>7. OutcomeIsOwn'
  BY <1>0 DEF OutcomeIsOwn, Settled
<1> QED BY <1>1, <1>2, <1>3, <1>4, <1>5, <1>6, <1>7

\* A server that answers a batch answers the call that wrote it, if that call
\* is still there, and settles an attempt that was not settled
\* (client.rs:115-116).
LEMMA ServeInv ==
  ASSUME Inv, TypeOK', NEW k \in Conns, Serve(k)
  PROVE  Inv'
<1> USE DEF Inv, TypeOK, PCs, Using, Returned
<1>0. PICK b \in Batches, v \in Verdicts :
        /\ toServer[k] = <<b>> /\ Pending(b)
        /\ \A l \in Conns : toServer[l] = <<b>> => l = k
        /\ \/ Runs(b) /\ v # "error"
           \/ Faults(b) /\ v # "done"
        /\ Reply(k, AnswerTo(b, v))
        /\ toServer' = [toServer EXCEPT ![k] = <<>>]
        /\ UNCHANGED <<pc, conn, tries, state, key>>
  <2>1. PICK b \in Batches, v \in Verdicts :
           /\ toServer[k] # <<>> /\ b = Head(toServer[k])
           /\ (Runs(b) /\ v # "error") \/ (Faults(b) /\ v # "done")
           /\ Reply(k, AnswerTo(b, v))
    BY DEF Serve
  <2>2. toServer[k] = <<b>> /\ Pending(b) /\ \A l \in Conns : toServer[l] = <<b>> => l = k
    BY <2>1 DEF InFlight
  <2>3. Tail(toServer[k]) = <<>>
    BY <2>2
  <2>4. toServer' = [toServer EXCEPT ![k] = <<>>]
    BY <2>3 DEF Serve, TakeBatch
  <2> QED BY <2>1, <2>2, <2>4 DEF Serve, callState, poolState
<1>a. b.of \in Calls /\ b.try \in 1..Attempts /\ b.try \in 1..tries[b.of]
  BY <1>0 DEF Batches, Pending
<1>b. \A d \in Calls : d # b.of => ran'[d] = ran[d] /\ erred'[d] = erred[d]
  BY <1>0, <1>a DEF Runs, Faults
<1>c. \/ /\ ran'[b.of] = ran[b.of] \cup {b.try} /\ erred'[b.of] = erred[b.of] /\ v # "error"
      \/ /\ erred'[b.of] = erred[b.of] \cup {b.try} /\ ran'[b.of] = ran[b.of] /\ v # "done"
  BY <1>0, <1>a DEF Runs, Faults
<1>d. /\ \A l \in Conns : l # k => toServer'[l] = toServer[l] /\ toClient'[l] = toClient[l]
      /\ toServer'[k] = <<>>
      /\ state[k] = "dropped" => toClient'[k] = toClient[k]
      /\ state[k] # "dropped" => toClient'[k] = Append(toClient[k], AnswerTo(b, v))
  BY <1>0 DEF Reply
<1>1. Progress'
  BY <1>0 DEF Progress
<1>2. HeldByOne'
  BY <1>0 DEF HeldByOne
<1>3. Clean'
  BY <1>0, <1>d DEF Clean, Idle, HeldByOne, Progress
<1>4. InConversation'
  <2> SUFFICES ASSUME NEW d \in Calls, pc'[d] = "reading" PROVE Conversation(d)'
    BY DEF InConversation
  <2>0. pc[d] = "reading" /\ Conversation(d) /\ conn[d] \in Conns
    BY <1>0 DEF InConversation, Progress
  <2>1. CASE conn[d] # k
    <3>1. ran[d] \subseteq ran'[d] /\ erred[d] \subseteq erred'[d]
      BY <1>b, <1>c
    <3> QED BY <1>0, <1>d, <2>0, <2>1, <3>1, SameConversation
  <2>2. CASE conn[d] = k
    <3>1. b = Batch(d) /\ toClient[k] = <<>> /\ state[k] = "held"
      <4>0. toServer[k] # <<>>
        BY <1>0
      <4>1. toServer[k] = <<Batch(d)>> /\ toClient[k] = <<>>
        BY <2>0, <2>2, <4>0 DEF Conversation, Idle
      <4>2. b = Batch(d)
        BY <1>0, <4>1
      <4> QED BY <2>0, <2>2, <4>1, <4>2 DEF HeldByOne
    <3>2. b.of = d /\ b.try = tries[d]
      BY <3>1 DEF Batch
    <3>3. toClient'[k] = <<AnswerTo(b, v)>>
      BY <1>d, <3>1
    <3>4. Batch(d)' = b
      BY <1>0, <3>1 DEF Batch
    <3>5. conn'[d] = k /\ tries'[d] = tries[d]
      BY <1>0, <2>2
    <3>6. /\ v = "done" => tries[d] \in ran'[d]
          /\ v = "error" => tries[d] \in erred'[d]
      BY <1>c, <3>2
    <3>7. AnswerTo(Batch(d), v)' = AnswerTo(b, v)
      BY <3>4 DEF AnswerTo
    <3> QED BY <1>d, <3>3, <3>5, <3>6, <3>7 DEF Conversation
  <2> QED BY <2>1, <2>2
<1>5. InFlight'
  <2>1. ASSUME NEW e \in Batches, Pending(e), e # b PROVE Pending(e)'
    <3>1. e.of # b.of \/ e.try # b.try
      <4>1. /\ e = [of |-> e.of, try |-> e.try]
            /\ b = [of |-> b.of, try |-> b.try]
        BY DEF Batches
      <4> QED BY <2>1, <4>1
    <3>2. e.of \in Calls
      BY DEF Batches
    <3>3. e.try \notin ran'[e.of] \cup erred'[e.of]
      <4>1. CASE e.of = b.of
        BY <1>c, <2>1, <3>1, <4>1 DEF Pending
      <4>2. CASE e.of # b.of
        BY <1>b, <2>1, <3>2, <4>2 DEF Pending
      <4> QED BY <4>1, <4>2
    <3> QED BY <1>0, <2>1, <3>3 DEF Pending
  <2>2. \A l \in Conns : toServer[l] # <<>> => Head(toServer[l]) \in Batches
    OBVIOUS
  <2>3. \A l \in Conns : l # k /\ toServer[l] # <<>> => Head(toServer[l]) # b
    BY <1>0 DEF InFlight
  <2> QED BY <1>d, <2>1, <2>2, <2>3 DEF InFlight
<1>6. Settled'
  <2> SUFFICES ASSUME NEW d \in Calls
               PROVE  /\ ran'[d] \cap erred'[d] = {}
                      /\ ran'[d] \cup erred'[d] \subseteq 1..tries[d]
                      /\ pc[d] = "writing" => tries[d] \notin ran'[d] \cup erred'[d]
    BY <1>0 DEF Settled
  <2>1. CASE d # b.of
    BY <1>b, <2>1 DEF Settled
  <2>2. CASE d = b.of
    BY <1>0, <1>a, <1>c, <2>2 DEF Settled, Pending
  <2> QED BY <2>1, <2>2
<1>7. OutcomeIsOwn'
  <2>1. \A d \in Calls : ran[d] \subseteq ran'[d] /\ erred[d] \subseteq erred'[d]
    BY <1>b, <1>c
  <2> QED BY <1>0, <1>6, <2>1 DEF OutcomeIsOwn, Settled
<1> QED BY <1>1, <1>2, <1>3, <1>4, <1>5, <1>6, <1>7

\* A server that closes loses batches and answers and forges none
\* (client.rs:171).
LEMMA ClosesInv ==
  ASSUME Inv, TypeOK', NEW k \in Conns, ServerCloses(k)
  PROVE  Inv'
<1> USE DEF Inv, TypeOK, PCs, Using, Returned
<1>0. PICK left \in {toClient[k], <<>>} :
        /\ toServer' = [toServer EXCEPT ![k] = <<>>]
        /\ toClient' = [toClient EXCEPT ![k] = left]
        /\ UNCHANGED <<pc, conn, tries, state, key, ran, erred>>
  BY DEF ServerCloses, callState, poolState, database
<1>1. Progress'
  BY <1>0 DEF Progress
<1>2. HeldByOne'
  BY <1>0 DEF HeldByOne
<1>3. Clean'
  BY <1>0 DEF Clean, Idle
<1>4. InConversation'
  <2> SUFFICES ASSUME NEW d \in Calls, pc'[d] = "reading" PROVE Conversation(d)'
    BY DEF InConversation
  <2>1. pc[d] = "reading" /\ Conversation(d) /\ conn[d] \in Conns
    BY <1>0 DEF InConversation, Progress
  <2>2. CASE conn[d] # k
    BY <1>0, <2>1, <2>2, SameConversation
  <2>3. CASE conn[d] = k
    <3>1. CASE toClient[k] = <<>> \/ left = <<>>
      BY <1>0, <2>1, <2>3, <3>1 DEF Conversation, Idle
    <3>2. CASE toClient[k] # <<>> /\ left = toClient[k]
      <4>1. toServer[k] = <<>>
        BY <2>1, <2>3, <3>2 DEF Conversation, Idle
      <4> QED BY <1>0, <2>1, <2>3, <3>2, <4>1, SameConversation
    <3> QED BY <3>1, <3>2
  <2> QED BY <2>2, <2>3
<1>5. InFlight'
  <2>1. \A e \in Batches : Pending(e) => Pending(e)'
    BY <1>0 DEF Pending
  <2>2. \A l \in Conns : toServer'[l] # <<>> => toServer'[l] = toServer[l]
    BY <1>0
  <2>3. \A l \in Conns : toServer[l] # <<>> => Head(toServer[l]) \in Batches
    OBVIOUS
  <2> QED BY <2>1, <2>2, <2>3 DEF InFlight
<1>6. Settled'
  BY <1>0 DEF Settled
<1>7. OutcomeIsOwn'
  BY <1>0 DEF OutcomeIsOwn
<1> QED BY <1>1, <1>2, <1>3, <1>4, <1>5, <1>6, <1>7

\* Steps of others leave the invariant alone.
LEMMA StutterInv ==
  ASSUME Inv, UNCHANGED vars
  PROVE  Inv'
  BY DEF vars, Inv, TypeOK, Progress, HeldByOne, Clean, Idle, InConversation,
     Conversation, Batch, InFlight, Pending, Settled, OutcomeIsOwn

\* The invariant holds before the first call.
LEMMA InitInv == Init => Inv
<1> SUFFICES ASSUME Init PROVE Inv
  OBVIOUS
<1>1. TypeOK
  BY InitTypeOK
<1>2. Progress /\ Clean /\ Settled /\ OutcomeIsOwn
  BY DEF Init, Progress, Clean, Idle, Settled, OutcomeIsOwn, Using
<1>3. HeldByOne
  BY DEF Init, HeldByOne
<1>4. InConversation /\ InFlight
  BY DEF Init, InConversation, InFlight
<1> QED BY <1>1, <1>2, <1>3, <1>4 DEF Inv

\* The invariant is inductive: one lemma for each group of actions.
LEMMA StepInv == Inv /\ [Next]_vars => Inv'
<1> SUFFICES ASSUME Inv, [Next]_vars PROVE Inv'
  OBVIOUS
<1>0. TypeOK'
  BY StepTypeOK DEF Inv
<1>1. CASE UNCHANGED vars
  BY <1>1, StutterInv
<1>2. ASSUME NEW c \in Calls, Call(c) PROVE Inv'
  BY <1>0, <1>2, QuietInv, HoldInv, DiscardInv, WriteInv, FailInv, ReturnInv DEF Call
<1>3. ASSUME NEW k \in Conns, Server(k) PROVE Inv'
  BY <1>0, <1>3, ServeInv, ClosesInv DEF Server
<1> QED BY <1>1, <1>2, <1>3 DEF Next, Finished

\* The inductive invariant holds of every pool: any calls, connections, keys
\* and attempts, with a timeout or without (lib.rs:289-328).
THEOREM Invariance == Spec => []Inv
  BY InitInv, StepInv, PTL DEF Spec

\* Every variable keeps its type; a call never makes more attempts than it
\* may.
THEOREM TypeCorrect == Spec => []TypeOK
<1>1. Inv => TypeOK
  BY DEF Inv
<1> QED BY <1>1, Invariance, PTL

\* A receive, an accept or a send that returned Ok ran, in the very attempt it
\* returned from, and one that returned a server's error had no effect in it:
\* no caller ever acts on the answer to another's statement, however calls
\* share the pool, time out and are tried again (lib.rs:290-294, 304-308,
\* 323-327).
THEOREM ToldTheTruth == Spec => []OutcomeIsOwn
<1>1. Inv => OutcomeIsOwn
  BY DEF Inv
<1> QED BY <1>1, Invariance, PTL

\* No two calls in progress share a connection, none is lent out and
\* forgotten, and a call has one to the server and database it names
\* (lib.rs:106-108).
THEOREM OneHolder == Spec => []HeldByOne
<1>1. Inv => HeldByOne
  BY DEF Inv
<1> QED BY <1>1, Invariance, PTL

\* What waits at a connection answers the attempt that reads it, and a kept
\* connection carries nothing: "each batch is read to its last token, so
\* nothing of one is left for the next" (client.rs:177-178).
THEOREM OwnAnswers == Spec => []AnswerIsOwn
<1>1. Inv => AnswerIsOwn
  <2> SUFFICES ASSUME Inv PROVE AnswerIsOwn
    OBVIOUS
  <2>1. ASSUME NEW c \in Calls, pc[c] = "reading",
               NEW i \in DOMAIN toClient[conn[c]]
        PROVE  /\ i = 1
               /\ toClient[conn[c]][i].of = c
               /\ toClient[conn[c]][i].try = tries[c]
    <3>1. toClient[conn[c]] # <<>>
      BY <2>1
    <3>2. PICK v \in Verdicts : toClient[conn[c]] = <<AnswerTo(Batch(c), v)>>
      BY <2>1, <3>1 DEF Inv, InConversation, Conversation, Idle
    <3> QED BY <2>1, <3>2 DEF AnswerTo, Batch
  <2> QED BY <2>1 DEF AnswerIsOwn, Inv, Clean, Idle
<1> QED BY <1>1, Invariance, PTL

\* No attempt is run twice or both run and refused, though its batch may be
\* served long after its caller gave up (client.rs:115).
THEOREM SettledOnce == Spec => []AttemptSettledOnce
<1>1. Inv => AttemptSettledOnce
  <2> SUFFICES ASSUME Inv PROVE AttemptSettledOnce
    OBVIOUS
  <2>1. ASSUME NEW k \in Conns, NEW i \in DOMAIN toServer[k]
        PROVE  Pending(toServer[k][i])
    <3>1. toServer[k] # <<>>
      BY <2>1
    <3>2. toServer[k] = <<Head(toServer[k])>> /\ Pending(Head(toServer[k]))
      BY <3>1 DEF Inv, InFlight
    <3>3. i = 1 /\ toServer[k][i] = Head(toServer[k])
      BY <2>1, <3>2
    <3> QED BY <3>2, <3>3
  <2> QED BY <2>1 DEF AttemptSettledOnce, Inv, Settled, Pending
<1> QED BY <1>1, Invariance, PTL

-----------------------------------------------------------------------------

\* Before the first call nothing is promised.
LEMMA InitPromise == Init => Promise!CallInit
  BY DEF Init, Promise!CallInit, Status

\* Every step of the pool, a connection or a server is a step of the promise or
\* none.
LEMMA StepPromise ==
  Inv /\ Inv' /\ [Next]_vars => [Promise!CallNext]_(Promise!callVars)
<1> DEFINE status == [c \in Calls |-> Status(c)]
<1> SUFFICES ASSUME Inv, Inv', [Next]_vars
             PROVE  Promise!CallNext \/ UNCHANGED <<status, ran, erred>>
  BY DEF Promise!callVars
<1> USE DEF Returned
<1>1. CASE UNCHANGED vars
  BY <1>1 DEF vars, Status
<1>2. ASSUME NEW c \in Calls, Begin(c) PROVE Promise!CallBegin(c)
  BY <1>2 DEF Begin, Promise!CallBegin, Status, database, Inv, TypeOK
<1>3. ASSUME NEW c \in Calls,
             \/ FindNone(c) \/ Write(c)
             \/ \E k \in Conns : Take(c, k) \/ Discard(c, k) \/ Open(c, k)
      PROVE  UNCHANGED <<status, ran, erred>>
  BY <1>3 DEF FindNone, Take, Discard, Open, Hold, Write, Status, database, callState,
              Inv, TypeOK
<1>4. ASSUME NEW c \in Calls, ConnectFails(c) PROVE Promise!CallFail(c)
  BY <1>4 DEF ConnectFails, Promise!CallFail, Status, database, Inv, TypeOK
<1>5. ASSUME NEW c \in Calls, WriteFails(c) \/ ReadFails(c)
      PROVE  Promise!CallFail(c) \/ UNCHANGED <<status, ran, erred>>
  BY <1>5 DEF WriteFails, ReadFails, FailAttempt, Promise!CallFail, Status, database,
              Inv, TypeOK
<1>6. ASSUME NEW c \in Calls, ReadDone(c) PROVE Promise!CallDone(c)
  BY <1>6 DEF ReadDone, Return, Promise!CallDone, Status, database, Inv, TypeOK,
              OutcomeIsOwn
<1>7. ASSUME NEW c \in Calls, ReadError(c) PROVE Promise!CallRefused(c)
  BY <1>7 DEF ReadError, Return, Promise!CallRefused, Status, database, Inv, TypeOK,
              OutcomeIsOwn
<1>8. ASSUME NEW k \in Conns, Serve(k)
      PROVE  \E c \in Calls : Promise!CallRun(c) \/ Promise!CallFault(c)
  <2>1. PICK b \in Batches : /\ toServer[k] # <<>> /\ b = Head(toServer[k])
                             /\ Runs(b) \/ Faults(b)
    BY <1>8 DEF Serve, Inv, TypeOK
  <2>2. Pending(b) /\ b.of \in Calls /\ b.try \in 1..Attempts
    BY <2>1 DEF Inv, InFlight, Batches
  <2>3. status[b.of] # "idle" /\ UNCHANGED status
    BY <1>8, <2>2 DEF Serve, callState, Status, Inv, Progress, Pending, TypeOK
  <2>4. b.try \notin ran[b.of] \cup erred[b.of]
    BY <2>2 DEF Pending
  <2>5. CASE Runs(b)
    BY <2>2, <2>3, <2>4, <2>5 DEF Runs, Promise!CallRun, Promise!Fresh
  <2>6. CASE Faults(b)
    BY <2>2, <2>3, <2>4, <2>6 DEF Faults, Promise!CallFault, Promise!Fresh
  <2> QED BY <2>1, <2>2, <2>5, <2>6
<1>9. ASSUME NEW k \in Conns, ServerCloses(k) PROVE UNCHANGED <<status, ran, erred>>
  BY <1>9 DEF ServerCloses, callState, database, Status
<1>10. ASSUME NEW c \in Calls, Call(c)
       PROVE  Promise!CallStep(c) \/ UNCHANGED <<status, ran, erred>>
  <2> HIDE DEF status
  <2> QED BY <1>2, <1>3, <1>4, <1>5, <1>6, <1>7, <1>10 DEF Call, Promise!CallStep
<1>11. ASSUME NEW k \in Conns, Server(k)
       PROVE  (\E c \in Calls : Promise!CallStep(c)) \/ UNCHANGED <<status, ran, erred>>
  <2> HIDE DEF status
  <2> QED BY <1>8, <1>9, <1>11 DEF Server, Promise!CallStep
<1> HIDE DEF status
<1> QED BY <1>1, <1>10, <1>11 DEF Next, Finished, Promise!CallNext

\* The pool over its connections implements the promise a caller has of each
\* statement (lib.rs:290, lib.rs:304, lib.rs:323), for every value of the
\* constants.
THEOREM KeepsThePromise == Spec => PromiseSpec
  BY InitPromise, StepPromise, Invariance, PTL DEF Spec, PromiseSpec, Promise!CallSpec

-----------------------------------------------------------------------------
(* How many connections there are.                                         *)

\* The most calls at once are no fewer than before and than now.
LEMMA PeakGrows ==
  ASSUME NEW m \in Nat, NEW n \in Nat
  PROVE  Max({m, n}) \in Nat /\ m <= Max({m, n}) /\ n <= Max({m, n})
<1>1. \E x \in {m, n} : \A y \in {m, n} : x >= y
  <2>1. m >= n \/ n >= m
    OBVIOUS
  <2> QED BY <2>1
<1>2. Max({m, n}) \in {m, n} /\ \A y \in {m, n} : Max({m, n}) >= y
  <2> DEFINE P(x) == x \in {m, n} /\ \A y \in {m, n} : x >= y
  <2>1. Max({m, n}) = CHOOSE x : P(x)
    BY DEF Max
  <2>2. \E x : P(x)
    BY <1>1
  <2>3. P(Max({m, n}))
    <3> HIDE DEF P
    <3> QED BY <2>1, <2>2
  <2> QED BY <2>3
<1> QED BY <1>2

\* No pool has more of a key's connections lent out than calls that use one.
LEMMA HeldAreInUse ==
  ASSUME Inv, NEW y \in Keys, IsFiniteSet(InProgress(y))
  PROVE  LET held  == {k \in Conns : key[k] = y /\ state[k] = "held"}
             users == {c \in InProgress(y) : pc[c] \in Using}
         IN  IsFiniteSet(held) /\ IsFiniteSet(users) /\ Cardinality(held) <= Cardinality(users)
<1> DEFINE held  == {k \in Conns : key[k] = y /\ state[k] = "held"}
           users == {c \in InProgress(y) : pc[c] \in Using}
           holder == [k \in held |-> CHOOSE c \in users : conn[c] = k]
<1>1. IsFiniteSet(users)
  <2> users \in SUBSET InProgress(y)
    OBVIOUS
  <2> HIDE DEF users
  <2> QED BY FS_Subset
<1>2. ASSUME NEW k \in held PROVE \E c \in users : conn[c] = k
  <2>1. PICK c \in Calls : conn[c] = k
    BY DEF Inv, HeldByOne
  <2>2. c \in users
    BY <2>1 DEF Inv, HeldByOne, Progress, InProgress, Using, Returned
  <2> QED BY <2>1, <2>2
<1>3. \A k \in held : holder[k] \in users /\ conn[holder[k]] = k
  BY <1>2
<1>4. holder \in Injection(held, users)
  <2>1. holder \in [held -> users]
    BY <1>3
  <2>2. IsInjective(holder)
    BY <1>3 DEF IsInjective
  <2> QED BY <2>1, <2>2 DEF Injection
<1> HIDE DEF held, users, holder
<1>5. IsFiniteSet(held) /\ Cardinality(held) <= Cardinality(users)
  BY <1>1, <1>4, FS_Injection
<1> QED BY <1>1, <1>5 DEF held, users

\* What the counts of a key come to in a step where no call opens anew and no
\* connection comes to life but that of a call that was opening it.
LEMMA SumKept ==
  ASSUME NEW L, NEW L1, NEW O, NEW O1, IsFiniteSet(L), IsFiniteSet(O),
         \/ L1 \in SUBSET L /\ O1 \in SUBSET O
         \/ \E k, c : L1 = L \cup {k} /\ c \in O /\ O1 = O \ {c}
         \/ \E k, c : k \in L /\ L1 = L \ {k} /\ O1 \in SUBSET (O \cup {c})
  PROVE  /\ IsFiniteSet(L1)
         /\ Cardinality(L1) + Cardinality(O1) <= Cardinality(L) + Cardinality(O)
<1>1. Cardinality(L) \in Nat /\ Cardinality(O) \in Nat
  BY FS_CardinalityType
<1>2. CASE L1 \in SUBSET L /\ O1 \in SUBSET O
  <2>1. IsFiniteSet(L1) /\ Cardinality(L1) <= Cardinality(L)
    BY <1>2, FS_Subset
  <2>2. IsFiniteSet(O1) /\ Cardinality(O1) <= Cardinality(O)
    BY <1>2, FS_Subset
  <2>3. Cardinality(L1) \in Nat /\ Cardinality(O1) \in Nat
    BY <2>1, <2>2, FS_CardinalityType
  <2> QED BY <1>1, <2>1, <2>2, <2>3
<1>3. ASSUME NEW k, NEW c, L1 = L \cup {k}, c \in O, O1 = O \ {c}
      PROVE  /\ IsFiniteSet(L1)
             /\ Cardinality(L1) + Cardinality(O1) <= Cardinality(L) + Cardinality(O)
  <2>1. IsFiniteSet(L1) /\ Cardinality(L1) \in {Cardinality(L), Cardinality(L) + 1}
    BY <1>3, FS_AddElement
  <2>2. Cardinality(O1) = Cardinality(O) - 1
    BY <1>3, FS_RemoveElement
  <2> QED BY <1>1, <2>1, <2>2
<1>4. ASSUME NEW k, NEW c, k \in L, L1 = L \ {k}, O1 \in SUBSET (O \cup {c})
      PROVE  /\ IsFiniteSet(L1)
             /\ Cardinality(L1) + Cardinality(O1) <= Cardinality(L) + Cardinality(O)
  <2>1. IsFiniteSet(L1) /\ Cardinality(L1) = Cardinality(L) - 1
    BY <1>4, FS_RemoveElement
  <2>2. /\ IsFiniteSet(O \cup {c})
        /\ Cardinality(O \cup {c}) \in {Cardinality(O), Cardinality(O) + 1}
    BY FS_AddElement
  <2>3. IsFiniteSet(O1) /\ Cardinality(O1) <= Cardinality(O \cup {c})
    BY <1>4, <2>2, FS_Subset
  <2>4. Cardinality(O1) \in Nat
    BY <2>3, FS_CardinalityType
  <2> QED BY <1>1, <2>1, <2>2, <2>3, <2>4
<1> QED BY <1>2, <1>3, <1>4

\* A call goes on to open one only where none is kept: all that live are in
\* the hands of other calls, of which it is one more.
LEMMA OpensWhereNoneIsKept ==
  ASSUME Inv, NEW c \in Calls, FindNone(c), NEW y \in Keys,
         IsFiniteSet(InProgress(y)), KeyOf[c] = y
  PROVE  /\ IsFiniteSet(InProgress(y)') /\ IsFiniteSet(Live(y)')
         /\ Cardinality(Live(y)') + Cardinality(OpeningFor(y)') <= Cardinality(InProgress(y)')
<1> DEFINE held  == {k \in Conns : key[k] = y /\ state[k] = "held"}
           users == {d \in InProgress(y) : pc[d] \in Using}
           opening == OpeningFor(y) \cup {c}
<1>1. IsFiniteSet(held) /\ IsFiniteSet(users) /\ Cardinality(held) <= Cardinality(users)
  BY HeldAreInUse
<1>2. Live(y)' = held
  BY DEF FindNone, KeptFor, Live, poolState
<1>3. InProgress(y)' = InProgress(y)
  BY DEF FindNone, InProgress, Returned, Inv, TypeOK
<1>4. OpeningFor(y)' = opening
  BY DEF FindNone, OpeningFor, Inv, TypeOK
<1>5. users \cup opening \in SUBSET InProgress(y) /\ users \cap opening = {}
  BY DEF FindNone, InProgress, OpeningFor, Using, Returned
<1> HIDE DEF held, users, opening
<1>6. opening \in SUBSET InProgress(y)
  BY <1>5
<1>7. IsFiniteSet(opening)
  BY <1>6, FS_Subset
<1>8. /\ Cardinality(users \cup opening) = Cardinality(users) + Cardinality(opening)
      /\ Cardinality(users \cup opening) <= Cardinality(InProgress(y))
  <2>1. Cardinality(users \cup opening)
          = Cardinality(users) + Cardinality(opening) - Cardinality(users \cap opening)
    BY <1>1, <1>7, FS_Union
  <2>2. Cardinality(users) \in Nat /\ Cardinality(opening) \in Nat /\ Cardinality({}) = 0
    BY <1>1, <1>7, FS_CardinalityType, FS_EmptySet
  <2>3. Cardinality(users \cup opening) <= Cardinality(InProgress(y))
    BY <1>5, FS_Subset
  <2>4. Cardinality(users \cap opening) = 0
    BY <1>5, <2>2
  <2> QED BY <2>1, <2>2, <2>3, <2>4
<1>9. /\ Cardinality(held) \in Nat /\ Cardinality(users) \in Nat
      /\ Cardinality(opening) \in Nat /\ Cardinality(InProgress(y)) \in Nat
  BY <1>1, <1>7, FS_CardinalityType
<1> QED BY <1>1, <1>2, <1>3, <1>4, <1>8, <1>9

\* Every step keeps the counts of a key finite, and adds to its connections
\* only as far as calls are in progress.
LEMMA StepCounts ==
  ASSUME Inv, Next, NEW y \in Keys, IsFiniteSet(InProgress(y)), IsFiniteSet(Live(y))
  PROVE  /\ IsFiniteSet(InProgress(y)') /\ IsFiniteSet(Live(y)')
         /\ \/ Cardinality(Live(y)') + Cardinality(OpeningFor(y)')
                 <= Cardinality(Live(y)) + Cardinality(OpeningFor(y))
            \/ Cardinality(Live(y)') + Cardinality(OpeningFor(y)')
                 <= Cardinality(InProgress(y)')
<1> DEFINE P == InProgress(y)  L == Live(y)  O == OpeningFor(y)
           More == \E c : InProgress(y)' \in SUBSET (P \cup {c})
           Fewer == Live(y)' \in SUBSET L /\ OpeningFor(y)' \in SUBSET O
           Opened == \E k, c : Live(y)' = L \cup {k} /\ c \in O /\ OpeningFor(y)' = O \ {c}
           Lost == \E k, c : k \in L /\ Live(y)' = L \ {k} /\ OpeningFor(y)' \in SUBSET (O \cup {c})
<1>0. O \in SUBSET P
  BY DEF OpeningFor, InProgress, Returned
<1>1. SUFFICES ASSUME ~ \E c \in Calls : FindNone(c) /\ KeyOf[c] = y
               PROVE  More /\ (Fewer \/ Opened \/ Lost)
  <2>1. CASE \E c \in Calls : FindNone(c) /\ KeyOf[c] = y
    BY <2>1, OpensWhereNoneIsKept
  <2>2. CASE More /\ (Fewer \/ Opened \/ Lost)
    <3>1. IsFiniteSet(O)
      BY <1>0, FS_Subset
    <3>2. IsFiniteSet(InProgress(y)')
      <4>1. PICK c : InProgress(y)' \in SUBSET (P \cup {c})
        BY <2>2
      <4>2. IsFiniteSet(P \cup {c})
        BY FS_AddElement
      <4> QED BY <4>1, <4>2, FS_Subset
    <3>3. /\ IsFiniteSet(Live(y)')
          /\ Cardinality(Live(y)') + Cardinality(OpeningFor(y)') <= Cardinality(L) + Cardinality(O)
      <4> DEFINE L1 == Live(y)'  O1 == OpeningFor(y)'
      <4>1. \/ L1 \in SUBSET L /\ O1 \in SUBSET O
            \/ \E k, c : L1 = L \cup {k} /\ c \in O /\ O1 = O \ {c}
            \/ \E k, c : k \in L /\ L1 = L \ {k} /\ O1 \in SUBSET (O \cup {c})
        BY <2>2
      <4>0. IsFiniteSet(L)
        OBVIOUS
      <4> HIDE DEF P, L, O, L1, O1, More, Fewer, Opened, Lost
      <4>2. IsFiniteSet(L1) /\ Cardinality(L1) + Cardinality(O1) <= Cardinality(L) + Cardinality(O)
        BY <3>1, <4>0, <4>1, SumKept
      <4> QED BY <4>2 DEF L1, O1
    <3> QED BY <3>2, <3>3
  <2> QED BY <2>1, <2>2
<1> USE DEF InProgress, Live, OpeningFor, Inv, TypeOK, PCs, Using, Returned
<1>2. ASSUME NEW c \in Calls, Begin(c) PROVE More /\ Fewer
  BY <1>2 DEF Begin, poolState
<1>3. ASSUME NEW c \in Calls, FindNone(c) PROVE More /\ Fewer
  BY <1>1, <1>3 DEF FindNone, poolState
<1>4. ASSUME NEW c \in Calls, ConnectFails(c) PROVE More /\ Fewer
  BY <1>4 DEF ConnectFails, poolState
<1>5. ASSUME NEW c \in Calls, NEW k \in Conns, Take(c, k) \/ Discard(c, k) PROVE More /\ Fewer
  BY <1>5 DEF Take, Discard, KeptFor, Hold, callState
<1>6. ASSUME NEW c \in Calls, NEW k \in Conns, Open(c, k) PROVE More /\ (Fewer \/ Opened)
  <2>1. More
    BY <1>6 DEF Open, Hold
  <2>2. CASE KeyOf[c] = y
    <3>1. Live(y)' = L \cup {k}
      BY <1>6, <2>2 DEF Open, Hold
    <3>2. c \in O /\ OpeningFor(y)' = O \ {c}
      BY <1>6, <2>2 DEF Open, Hold
    <3> HIDE DEF L, O, More, InProgress, Live, OpeningFor
    <3>3. Opened
      BY <3>1, <3>2
    <3> QED BY <2>1, <3>3
  <2>3. CASE KeyOf[c] # y
    BY <1>6, <2>1, <2>3 DEF Open, Hold
  <2> QED BY <2>2, <2>3
<1>7. ASSUME NEW c \in Calls, Write(c) PROVE More /\ Fewer
  BY <1>7 DEF Write, poolState
<1>8. ASSUME NEW c \in Calls, WriteFails(c) \/ ReadFails(c) PROVE More /\ (Fewer \/ Lost)
  <2>1. /\ pc[c] \in Using /\ FailAttempt(c) /\ conn[c] \in Conns
        /\ state[conn[c]] = "held" /\ key[conn[c]] = KeyOf[c]
    BY <1>8 DEF WriteFails, ReadFails, Progress, HeldByOne
  <2>2. More
    BY <2>1 DEF FailAttempt
  <2>3. CASE KeyOf[c] = y
    <3>1. conn[c] \in L /\ Live(y)' = L \ {conn[c]}
      BY <2>1, <2>3 DEF FailAttempt, Drop
    <3>2. OpeningFor(y)' \in SUBSET (O \cup {c})
      BY <2>1, <2>3 DEF FailAttempt
    <3> QED BY <2>2, <3>1, <3>2
  <2>4. CASE KeyOf[c] # y
    BY <2>1, <2>2, <2>4 DEF FailAttempt, Drop
  <2> QED BY <2>3, <2>4
<1>9. ASSUME NEW c \in Calls, ReadDone(c) \/ ReadError(c) PROVE More /\ Fewer
  <2>1. PICK result \in Returned, next \in {"kept", "dropped"} :
           pc[c] = "reading" /\ Return(c, result, next)
    BY <1>9 DEF ReadDone, ReadError
  <2>2. conn[c] \in Conns /\ state[conn[c]] = "held"
    BY <2>1 DEF Progress, HeldByOne
  <2> QED BY <2>1, <2>2 DEF Return
<1>10. ASSUME UNCHANGED <<pc, state, key>> PROVE More /\ Fewer
  BY <1>10
<1>11. ASSUME NEW c \in Calls, Call(c) PROVE More /\ (Fewer \/ Opened \/ Lost)
  <2> HIDE DEF More, Fewer, Opened, Lost
  <2> QED BY <1>2, <1>3, <1>4, <1>5, <1>6, <1>7, <1>8, <1>9, <1>11 DEF Call
<1>12. ASSUME NEW k \in Conns, Server(k) PROVE UNCHANGED <<pc, state, key>>
  BY <1>12 DEF Server, Serve, ServerCloses, callState, poolState
<1>13. ASSUME Finished PROVE UNCHANGED <<pc, state, key>>
  BY <1>13 DEF Finished, vars
<1> HIDE DEF More, Fewer, Opened, Lost
<1> QED BY <1>10, <1>11, <1>12, <1>13 DEF Next

\* At first nothing is in progress, open or being opened.
LEMMA InitPeakInv == PeakInit => PeakInv
<1> SUFFICES ASSUME PeakInit PROVE PeakInv
  OBVIOUS
<1>1. Inv
  BY InitInv DEF PeakInit
<1>2. ASSUME NEW y \in Keys
      PROVE  InProgress(y) = {} /\ Live(y) = {} /\ OpeningFor(y) = {} /\ peak[y] = 0
  BY <1>2 DEF PeakInit, Init, InProgress, Live, OpeningFor
<1>3. peak \in [Keys -> Nat]
  BY DEF PeakInit
<1>4. Cardinality({}) = 0 /\ IsFiniteSet({})
  BY FS_EmptySet
<1>5. ASSUME NEW y \in Keys
      PROVE  /\ IsFiniteSet(InProgress(y)) /\ IsFiniteSet(Live(y))
             /\ Cardinality(InProgress(y)) = 0
             /\ Cardinality(Live(y)) = 0 /\ Cardinality(OpeningFor(y)) = 0
  BY <1>2, <1>4
<1>6. Counted /\ NoMoreThanAtOnce
  BY <1>2, <1>5 DEF Counted, NoMoreThanAtOnce
<1> QED BY <1>1, <1>3, <1>6 DEF PeakInv

\* Each step keeps it, key by key.
LEMMA StepPeakInv == PeakInv /\ [PeakNext]_<<vars, peak>> => PeakInv'
<1> SUFFICES ASSUME PeakInv, [PeakNext]_<<vars, peak>> PROVE PeakInv'
  OBVIOUS
<1>1. CASE UNCHANGED <<vars, peak>>
  <2>1. Inv'
    BY <1>1, StepInv DEF PeakInv
  <2>2. ASSUME NEW y \in Keys
        PROVE  /\ InProgress(y)' = InProgress(y) /\ Live(y)' = Live(y)
               /\ OpeningFor(y)' = OpeningFor(y)
    BY <1>1 DEF vars, InProgress, Live, OpeningFor
  <2>3. peak' = peak
    BY <1>1
  <2> QED BY <2>1, <2>2, <2>3 DEF PeakInv, Counted, NoMoreThanAtOnce
<1>2. CASE PeakNext
  <2>1. Inv'
    BY <1>2, StepInv DEF PeakInv, PeakNext
  <2>2. ASSUME NEW y \in Keys
        PROVE  /\ IsFiniteSet(InProgress(y)') /\ IsFiniteSet(Live(y)')
               /\ peak'[y] \in Nat
               /\ Cardinality(InProgress(y)') <= peak'[y]
               /\ Cardinality(Live(y)') + Cardinality(OpeningFor(y)') <= peak'[y]
    <3>1. IsFiniteSet(InProgress(y)) /\ IsFiniteSet(Live(y))
      BY DEF PeakInv, Counted
    <3>2. IsFiniteSet(InProgress(y)') /\ IsFiniteSet(Live(y)')
      BY <1>2, <3>1, StepCounts DEF PeakInv, PeakNext
    <3>3. \/ Cardinality(Live(y)') + Cardinality(OpeningFor(y)')
               <= Cardinality(Live(y)) + Cardinality(OpeningFor(y))
          \/ Cardinality(Live(y)') + Cardinality(OpeningFor(y)')
               <= Cardinality(InProgress(y)')
      BY <1>2, <3>1, StepCounts DEF PeakInv, PeakNext
    <3>4. peak[y] \in Nat /\ Cardinality(InProgress(y)') \in Nat
      BY <3>2, FS_CardinalityType DEF PeakInv
    <3>5. peak'[y] = Max({peak[y], Cardinality(InProgress(y)')})
      BY <1>2 DEF PeakNext
    <3>6. peak'[y] \in Nat /\ peak[y] <= peak'[y] /\ Cardinality(InProgress(y)') <= peak'[y]
      BY <3>4, <3>5, PeakGrows
    <3>7. Cardinality(Live(y)) + Cardinality(OpeningFor(y)) <= peak[y]
      BY DEF PeakInv, NoMoreThanAtOnce
    <3>8. /\ Cardinality(Live(y)) \in Nat /\ Cardinality(Live(y)') \in Nat
          /\ Cardinality(OpeningFor(y)) \in Nat /\ Cardinality(OpeningFor(y)') \in Nat
      <4>1. /\ OpeningFor(y) \in SUBSET InProgress(y)
            /\ OpeningFor(y)' \in SUBSET InProgress(y)'
        BY DEF OpeningFor, InProgress, Returned
      <4>2. IsFiniteSet(OpeningFor(y)) /\ IsFiniteSet(OpeningFor(y)')
        BY <3>1, <3>2, <4>1, FS_Subset
      <4> QED BY <3>1, <3>2, <4>2, FS_CardinalityType
    <3> QED BY <3>2, <3>3, <3>4, <3>6, <3>7, <3>8
  <2>3. peak' \in [Keys -> Nat]
    <3>1. peak' = [y \in Keys |-> peak'[y]]
      BY <1>2 DEF PeakNext
    <3> QED BY <2>2, <3>1
  <2> QED BY <2>1, <2>2, <2>3 DEF PeakInv, Counted, NoMoreThanAtOnce
<1> QED BY <1>1, <1>2

\* However many calls there are and however they interleave, fail and are tried
\* again, the pool never has more connections open to a database, those being
\* opened included, than calls to it were ever in progress at the same time
\* (lib.rs:106-107).
THEOREM NeverMoreThanAtOnce == PeakSpec => []NoMoreThanAtOnce
<1>1. PeakInv => NoMoreThanAtOnce
  BY DEF PeakInv
<1> QED BY <1>1, InitPeakInv, StepPeakInv, PTL DEF PeakSpec
=============================================================================
