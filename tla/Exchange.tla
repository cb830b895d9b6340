------------------------------ MODULE Exchange ------------------------------
(***************************************************************************)
(* The pool of logged-in connections and the statements run on them.       *)
(*                                                                         *)
(* MssqlTransport keeps one Pool<Client> (lib.rs:106-108), shared by every *)
(* clone, and runs each statement through                                  *)
(*    connections.exchange(key, connect, |client| client.query(sql))       *)
(* from receive (lib.rs:289-313), from the closure that runs a row's       *)
(* accept statement (lib.rs:304-308) and from send (lib.rs:319-328): calls *)
(* of any thread, at any time, on one key per server and database.         *)
(*                                                                         *)
(* The pool is not in this repository.  What is modelled of it is what     *)
(* this code and its tests rely on: a kept connection of the key is taken  *)
(* before one is opened, if it is `usable` (client.rs:176-182); one that   *)
(* is not is replaced; a call has the connection to itself; it is kept     *)
(* after an answer and dropped after a failure.  Whether a failure on a    *)
(* kept connection is tried again on a new one is left open: Attempts = 1  *)
(* is a pool that never does, 2 one that does so once.                     *)
(*                                                                         *)
(* A message - a whole batch, a whole answer - is one element of a         *)
(* sequence; how it travels in packets is not this module's subject.  A    *)
(* server may close any connection at any time, answer late, or answer     *)
(* with what cannot be read.                                               *)
(***************************************************************************)
EXTENDS Naturals, Sequences

CONSTANTS Calls,      \* the statements run, each handed to the pool once
          Conns,      \* connections: as many as may ever be opened
          Keys,       \* "server/database"
          KeyOf,      \* KeyOf[c]: the key the call c exchanges under
          NoConn,     \* not a connection
          NoKey,      \* not a key
          Attempts,   \* how often one call may write its statement
          Timed       \* the connections opened with a timeout: clones share the
                      \* pool, and each opens with its own (lib.rs:92, 166, 185)

ASSUME ConnAssumption == NoConn \notin Conns
ASSUME KeyAssumption == NoKey \notin Keys /\ KeyOf \in [Calls -> Keys]
ASSUME AttemptsAssumption == Attempts \in Nat \ {0}
ASSUME TimeoutAssumption == Timed \subseteq Conns

VARIABLES
  pc,        \* pc[c]: where the call c is
  conn,      \* conn[c]: the connection c has to itself
  tries,     \* tries[c]: how many attempts c has begun
  reused,    \* reused[c]: whether c's connection came from the pool
  state,     \* state[k]: unborn, held by a call, kept by the pool, dropped
  key,       \* key[k]: what the connection was opened for
  toServer,  \* toServer[k]: batches written and not yet served
  toClient,  \* toClient[k]: answers sent and not yet read
  serverUp,  \* serverUp[k]: whether the server has k open
  ran,       \* ran[c]: the attempts of c that the database ran
  erred      \* erred[c]: the attempts it answered with an error

callState == <<pc, conn, tries, reused>>
poolState == <<state, key>>
wire == <<toServer, toClient, serverUp>>
database == <<ran, erred>>
vars == <<pc, conn, tries, reused, state, key, toServer, toClient, serverUp,
          ran, erred>>

Using == {"writing", "reading"}
Returned == {"ok", "refused", "failed"}
PCs == {"idle", "taking", "opening"} \cup Using \cup Returned
States == {"unborn", "held", "kept", "dropped"}
Verdicts == {"done", "error", "garbled"}

Batches == [of : Calls, try : 1..Attempts]
Answers == [of : Calls, try : 1..Attempts, says : Verdicts]

\* What c writes in its present attempt.
Batch(c) == [of |-> c, try |-> tries[c]]
AnswerTo(b, v) == [of |-> b.of, try |-> b.try, says |-> v]

TypeOK ==
  /\ pc \in [Calls -> PCs]
  /\ conn \in [Calls -> Conns \cup {NoConn}]
  /\ tries \in [Calls -> 0..Attempts]
  /\ reused \in [Calls -> BOOLEAN]
  /\ state \in [Conns -> States]
  /\ key \in [Conns -> Keys \cup {NoKey}]
  /\ toServer \in [Conns -> Seq(Batches)]
  /\ toClient \in [Conns -> Seq(Answers)]
  /\ serverUp \in [Conns -> BOOLEAN]
  /\ ran \in [Calls -> SUBSET (1..Attempts)]
  /\ erred \in [Calls -> SUBSET (1..Attempts)]

Init ==
  /\ pc = [c \in Calls |-> "idle"]
  /\ conn = [c \in Calls |-> NoConn]
  /\ tries = [c \in Calls |-> 0]
  /\ reused = [c \in Calls |-> FALSE]
  /\ state = [k \in Conns |-> "unborn"]
  /\ key = [k \in Conns |-> NoKey]
  /\ toServer = [k \in Conns |-> <<>>]
  /\ toClient = [k \in Conns |-> <<>>]
  /\ serverUp = [k \in Conns |-> FALSE]
  /\ ran = [c \in Calls |-> {}]
  /\ erred = [c \in Calls |-> {}]

-----------------------------------------------------------------------------
(* A call takes a connection.                                              *)

\* Slip: the pool looks at whether a connection is free, not at its key.
KeptForAnyone(c) == {k \in Conns : state[k] = "kept"}

\* The pool's connections for the key of c.
KeptFor(c) == {k \in Conns : state[k] = "kept" /\ key[k] = KeyOf[c]}

\* Client::usable: the server's close has not been seen.  A close on its
\* way is a server that is still up, and may close after the check.
Usable(k) == serverUp[k]

Begin(c) ==
  /\ pc[c] = "idle"
  /\ pc' = [pc EXCEPT ![c] = "taking"]
  /\ UNCHANGED <<conn, tries, reused, poolState, wire, database>>

\* From here on k is c's alone, for one attempt.
Hold(c, k, fromPool) ==
  /\ pc' = [pc EXCEPT ![c] = "writing"]
  /\ conn' = [conn EXCEPT ![c] = k]
  /\ tries' = [tries EXCEPT ![c] = @ + 1]
  /\ reused' = [reused EXCEPT ![c] = fromPool]
  /\ state' = [state EXCEPT ![k] = "held"]

Take(c, k) ==
  /\ pc[c] = "taking"
  /\ k \in KeptFor(c) /\ Usable(k)
  /\ Hold(c, k, TRUE)
  /\ UNCHANGED <<key, wire, database>>

\* Slip: a connection that is not usable is left in the pool.
DiscardLater(c, k) ==
  /\ pc[c] = "taking"
  /\ k \in KeptFor(c) /\ ~Usable(k)
  /\ UNCHANGED vars

Discard(c, k) ==
  /\ pc[c] = "taking"
  /\ k \in KeptFor(c) /\ ~Usable(k)
  /\ state' = [state EXCEPT ![k] = "dropped"]
  /\ UNCHANGED <<callState, key, wire, database>>

\* Slip: a connection is opened without a look at those kept.
FindNoneAtAll(c) ==
  /\ pc[c] = "taking"
  /\ pc' = [pc EXCEPT ![c] = "opening"]
  /\ UNCHANGED <<conn, tries, reused, poolState, wire, database>>

FindNone(c) ==
  /\ pc[c] = "taking"
  /\ KeptFor(c) = {}
  /\ pc' = [pc EXCEPT ![c] = "opening"]
  /\ UNCHANGED <<conn, tries, reused, poolState, wire, database>>

\* Client::connect succeeded: logged in, and nothing in flight.
Open(c, k) ==
  /\ pc[c] = "opening"
  /\ state[k] = "unborn"
  /\ Hold(c, k, FALSE)
  /\ key' = [key EXCEPT ![k] = KeyOf[c]]
  /\ serverUp' = [serverUp EXCEPT ![k] = TRUE]
  /\ UNCHANGED <<toServer, toClient, database>>

\* Client::connect failed: unreachable, encryption demanded, login refused.
ConnectFails(c) ==
  /\ pc[c] = "opening"
  /\ pc' = [pc EXCEPT ![c] = "failed"]
  /\ UNCHANGED <<conn, tries, reused, poolState, wire, database>>

-----------------------------------------------------------------------------
(* Client::query: one batch written, one answer read.                      *)

\* A batch written to a server that has closed is lost without an error:
\* the failure shows at the read.
Write(c) ==
  LET k == conn[c] IN
  /\ pc[c] = "writing"
  /\ pc' = [pc EXCEPT ![c] = "reading"]
  /\ toServer' = [toServer EXCEPT
                    ![k] = IF serverUp[k] THEN Append(@, Batch(c)) ELSE @]
  /\ UNCHANGED <<conn, tries, reused, poolState, toClient, serverUp, database>>

\* Slip: a connection whose exchange failed goes back to the pool.
DropToThePool(k) ==
  /\ state' = [state EXCEPT ![k] = "kept"]
  /\ UNCHANGED toClient

\* What becomes of the connection and of the call when an attempt fails.
Drop(k) ==
  /\ state' = [state EXCEPT ![k] = "dropped"]
  /\ toClient' = [toClient EXCEPT ![k] = <<>>]

MayTryAgain(c) == reused[c] /\ tries[c] < Attempts

FailAttempt(c) ==
  /\ pc' = [pc EXCEPT ![c] = IF MayTryAgain(c) THEN "opening" ELSE "failed"]
  /\ conn' = [conn EXCEPT ![c] = NoConn]
  /\ Drop(conn[c])
  /\ UNCHANGED <<tries, reused, key, toServer, serverUp, database>>

\* The server has closed, or does not take the batch within the connection's
\* timeout: it has a part of it at most, and runs nothing.
WriteFails(c) ==
  /\ pc[c] = "writing"
  /\ conn[c] \in Timed \/ ~serverUp[conn[c]]
  /\ FailAttempt(c)

\* Slip: the answer is not read to its last token.
ReturnTooSoon(c, result, next) ==
  /\ pc' = [pc EXCEPT ![c] = result]
  /\ conn' = [conn EXCEPT ![c] = NoConn]
  /\ state' = [state EXCEPT ![conn[c]] = next]
  /\ UNCHANGED <<tries, reused, key, toServer, toClient, serverUp, database>>

\* The call returns, and the connection goes to the pool or away.
Return(c, result, next) ==
  /\ pc' = [pc EXCEPT ![c] = result]
  /\ conn' = [conn EXCEPT ![c] = NoConn]
  /\ state' = [state EXCEPT ![conn[c]] = next]
  /\ toClient' = [toClient EXCEPT
                    ![conn[c]] = IF next = "dropped" THEN <<>> ELSE Tail(@)]
  /\ UNCHANGED <<tries, reused, key, toServer, serverUp, database>>

\* Slip: an answer without an error token is taken for a success, read or not.
ReadUnlessError(c) ==
  /\ pc[c] = "reading"
  /\ toClient[conn[c]] # <<>>
  /\ Head(toClient[conn[c]]).says # "error"
  /\ Return(c, "ok", "kept")

\* An Ok keeps the connection.
ReadDone(c) ==
  /\ pc[c] = "reading"
  /\ toClient[conn[c]] # <<>>
  /\ Head(toClient[conn[c]]).says = "done"
  /\ Return(c, "ok", "kept")

\* A server's error is read to its last token too: the connection may be
\* kept, and a pool that drops it on any Err is allowed as well.
ReadError(c) ==
  /\ pc[c] = "reading"
  /\ toClient[conn[c]] # <<>>
  /\ Head(toClient[conn[c]]).says = "error"
  /\ \E next \in {"kept", "dropped"} : Return(c, "refused", next)

\* The server closed, the connection's timeout passed, or the answer is not
\* one.
Unreadable(k) ==
  \/ k \in Timed
  \/ toClient[k] = <<>> /\ ~serverUp[k]
  \/ toClient[k] # <<>> /\ Head(toClient[k]).says = "garbled"

ReadFails(c) ==
  /\ pc[c] = "reading"
  /\ Unreadable(conn[c])
  /\ FailAttempt(c)

-----------------------------------------------------------------------------
(* The server's end.                                                       *)

\* The answer reaches a client that still has the connection.
Reply(k, a) ==
  toClient' = [toClient EXCEPT
                 ![k] = IF state[k] = "dropped" THEN @ ELSE Append(@, a)]

\* Slip: a batch is looked at and left where it is.
PeekBatch(k) == UNCHANGED toServer

\* A batch is read off the connection once.
TakeBatch(k) == toServer' = [toServer EXCEPT ![k] = Tail(@)]

Runs(b) ==
  /\ ran' = [ran EXCEPT ![b.of] = @ \cup {b.try}]
  /\ UNCHANGED erred

Faults(b) ==
  /\ erred' = [erred EXCEPT ![b.of] = @ \cup {b.try}]
  /\ UNCHANGED ran

\* The next batch runs, or is answered with an error; either answer may be
\* one the client cannot read.  A dropped connection's batch may run too.
Serve(k) ==
  LET b == Head(toServer[k]) IN
  /\ serverUp[k] /\ toServer[k] # <<>>
  /\ \E v \in Verdicts :
       /\ (Runs(b) /\ v # "error") \/ (Faults(b) /\ v # "done")
       /\ Reply(k, AnswerTo(b, v))
  /\ TakeBatch(k)
  /\ UNCHANGED <<callState, poolState, serverUp>>

\* Batches not yet read are lost, and with them, where the close is a
\* reset, the answers on their way.
ServerCloses(k) ==
  /\ serverUp[k]
  /\ serverUp' = [serverUp EXCEPT ![k] = FALSE]
  /\ toServer' = [toServer EXCEPT ![k] = <<>>]
  /\ \E left \in {toClient[k], <<>>} : toClient' = [toClient EXCEPT ![k] = left]
  /\ UNCHANGED <<callState, poolState, database>>

-----------------------------------------------------------------------------
\* Every call has returned and every server has closed: nothing is left.
Finished ==
  /\ \A c \in Calls : pc[c] \in Returned
  /\ \A k \in Conns : ~serverUp[k]
  /\ UNCHANGED vars

Call(c) ==
  \/ Begin(c) \/ FindNone(c) \/ ConnectFails(c)
  \/ \E k \in Conns : Take(c, k) \/ Discard(c, k) \/ Open(c, k)
  \/ Write(c) \/ WriteFails(c) \/ ReadDone(c) \/ ReadError(c) \/ ReadFails(c)

Server(k) == Serve(k) \/ ServerCloses(k)

Next == (\E c \in Calls : Call(c)) \/ (\E k \in Conns : Server(k)) \/ Finished

Spec == Init /\ [][Next]_vars

\* A thread runs on; a read with a timeout ends; a server that has a batch
\* and the connection open answers it in the end or closes.
Fairness ==
  /\ \A c \in Calls : WF_vars(Call(c))
  /\ \A k \in Conns : WF_vars(Serve(k))

FairSpec == Spec /\ Fairness

-----------------------------------------------------------------------------
(* What the pool and the client are relied on for.                         *)

\* What a caller is told is what became of the very attempt it is told of:
\* Ok of one that ran, a server's error of one that had no effect.  No call
\* ever returns on another's answer, or on an earlier attempt's.
OutcomeIsOwn ==
  \A c \in Calls :
    /\ pc[c] = "ok" => tries[c] \in ran[c]
    /\ pc[c] = "refused" => tries[c] \in erred[c] \ ran[c]

\* What waits at a connection a call is reading answers that call's present
\* attempt, and what waits at any other connection answers nobody: each
\* batch is read to its last token (client.rs:177-178).
AnswerIsOwn ==
  /\ \A c \in Calls : pc[c] = "reading" =>
       \A i \in DOMAIN toClient[conn[c]] :
         /\ i = 1
         /\ toClient[conn[c]][i].of = c
         /\ toClient[conn[c]][i].try = tries[c]
  /\ \A k \in Conns : state[k] = "kept" => toServer[k] = <<>> /\ toClient[k] = <<>>

\* Two calls in progress never share a connection; a connection the pool
\* counts as lent out has a call that will give it back; and the one a call
\* has was opened for the server and database it names.
HeldByOne ==
  /\ \A c, d \in Calls : conn[c] = conn[d] /\ conn[c] # NoConn => c = d
  /\ \A k \in Conns : state[k] = "held" => \E c \in Calls : conn[c] = k
  /\ \A c \in Calls : conn[c] # NoConn =>
       state[conn[c]] = "held" /\ key[conn[c]] = KeyOf[c]

\* No attempt is run twice, refused and run, or still on its way to a
\* server once it is settled, however late an abandoned batch is served.
AttemptSettledOnce ==
  /\ \A c \in Calls : ran[c] \cap erred[c] = {} /\ ran[c] \cup erred[c] \subseteq 1..tries[c]
  /\ \A k \in Conns : \A i \in DOMAIN toServer[k] :
       LET b == toServer[k][i] IN b.try \notin ran[b.of] \cup erred[b.of]

\* The inductive invariant behind the three, part by part.

\* Where a call is says how many attempts it has begun and whether it has a
\* connection.
Progress ==
  \A c \in Calls :
    /\ pc[c] \in Using <=> conn[c] # NoConn
    /\ pc[c] = "idle" => tries[c] = 0
    /\ pc[c] \in {"taking", "opening"} => tries[c] < Attempts
    /\ pc[c] \in Using => tries[c] > 0

\* Nothing lies on a connection that was never opened, is kept, or has just
\* been lent out; nothing waits for a client that has dropped it.
Idle(k) == toServer[k] = <<>> /\ toClient[k] = <<>>

Clean ==
  /\ \A k \in Conns : state[k] \in {"unborn", "kept"} => Idle(k)
  /\ \A k \in Conns : state[k] = "dropped" => toClient[k] = <<>>
  /\ \A c \in Calls : pc[c] = "writing" => Idle(conn[c])

\* What may lie on the connection of a call that is reading: nothing, what
\* was there being lost or not sent; its own batch; or the answer to it.
Conversation(c) ==
  LET k == conn[c] IN
  \/ Idle(k)
  \/ toServer[k] = <<Batch(c)>> /\ toClient[k] = <<>>
  \/ /\ toServer[k] = <<>>
     /\ \E v \in Verdicts :
          /\ toClient[k] = <<AnswerTo(Batch(c), v)>>
          /\ v = "done" => tries[c] \in ran[c]
          /\ v = "error" => tries[c] \in erred[c]

InConversation == \A c \in Calls : pc[c] = "reading" => Conversation(c)

\* A batch on its way is of an attempt already begun and not settled.
Pending(b) ==
  /\ b.try <= tries[b.of]
  /\ pc[b.of] = "writing" => b.try < tries[b.of]
  /\ b.try \notin ran[b.of] \cup erred[b.of]

\* A connection carries at most one, and no two connections the same.
InFlight ==
  /\ \A k \in Conns : toServer[k] # <<>> =>
       toServer[k] = <<Head(toServer[k])>> /\ Pending(Head(toServer[k]))
  /\ \A k, l \in Conns :
       toServer[k] # <<>> /\ toServer[l] = toServer[k] => l = k

Settled ==
  \A c \in Calls :
    /\ ran[c] \cap erred[c] = {}
    /\ ran[c] \cup erred[c] \subseteq 1..tries[c]
    /\ pc[c] = "writing" => tries[c] \notin ran[c] \cup erred[c]

Inv ==
  /\ TypeOK /\ Progress /\ HeldByOne /\ Clean /\ InConversation
  /\ InFlight /\ Settled /\ OutcomeIsOwn

\* Every call returns.
CallsReturn == \A c \in Calls : pc[c] # "idle" ~> pc[c] \in Returned

\* The promise the transport builds on.
Status(c) == IF pc[c] \in {"idle"} \cup Returned THEN pc[c] ELSE "running"

Promise == INSTANCE StatementCall WITH status <- [c \in Calls |-> Status(c)]

PromiseSpec == Promise!CallSpec
=============================================================================
