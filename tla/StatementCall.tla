--------------------------- MODULE StatementCall ---------------------------
(***************************************************************************)
(* What a caller of the connection pool is promised about one statement.   *)
(* MssqlTransport hands every statement it runs - a receive's query, a     *)
(* row's accept statement, a send's INSERT - to Pool::exchange and gets    *)
(* back an Ok, the server's error, or another failure (lib.rs:290,         *)
(* lib.rs:304, lib.rs:323).  This module says what each of the three is    *)
(* worth; Exchange says how the pool and the connections bring it about.   *)
(*                                                                         *)
(* A call makes at most Attempts attempts.  A call that failed says        *)
(* nothing of the database: the statement may have run, and may still run  *)
(* after the caller was told of the failure.                               *)
(***************************************************************************)
EXTENDS Naturals

CONSTANTS Calls,     \* the statements handed to the pool, each once
          Attempts   \* how often the pool may hand one to a server

VARIABLES status,    \* status[c]: what the caller of c has been told
          ran,       \* ran[c]: the attempts of c that the database ran
          erred      \* erred[c]: the attempts it answered with an error

callVars == <<status, ran, erred>>

Statuses == {"idle", "running", "ok", "refused", "failed"}

CallInit ==
  /\ status = [c \in Calls |-> "idle"]
  /\ ran = [c \in Calls |-> {}]
  /\ erred = [c \in Calls |-> {}]

\* An attempt the database has not dealt with yet.
Fresh(c, n) == n \in 1..Attempts /\ n \notin ran[c] \cup erred[c]

CallBegin(c) ==
  /\ status[c] = "idle"
  /\ status' = [status EXCEPT ![c] = "running"]
  /\ UNCHANGED <<ran, erred>>

\* The database runs the statement - also after the caller has given up.
CallRun(c) ==
  /\ status[c] # "idle"
  /\ \E n \in 1..Attempts :
       /\ Fresh(c, n)
       /\ ran' = [ran EXCEPT ![c] = @ \cup {n}]
  /\ UNCHANGED <<status, erred>>

\* The database answers the statement with an error, its effect undone.
CallFault(c) ==
  /\ status[c] # "idle"
  /\ \E n \in 1..Attempts :
       /\ Fresh(c, n)
       /\ erred' = [erred EXCEPT ![c] = @ \cup {n}]
  /\ UNCHANGED <<status, ran>>

\* Ok is told only of a statement that ran.
CallDone(c) ==
  /\ status[c] = "running" /\ ran[c] # {}
  /\ status' = [status EXCEPT ![c] = "ok"]
  /\ UNCHANGED <<ran, erred>>

\* A server's error is told only of a statement the server refused.
CallRefused(c) ==
  /\ status[c] = "running" /\ erred[c] # {}
  /\ status' = [status EXCEPT ![c] = "refused"]
  /\ UNCHANGED <<ran, erred>>

\* No connection, a closed one, a timeout, an answer that cannot be read.
CallFail(c) ==
  /\ status[c] = "running"
  /\ status' = [status EXCEPT ![c] = "failed"]
  /\ UNCHANGED <<ran, erred>>

CallStep(c) ==
  \/ CallBegin(c) \/ CallRun(c) \/ CallFault(c)
  \/ CallDone(c) \/ CallRefused(c) \/ CallFail(c)

CallNext == \E c \in Calls : CallStep(c)

CallSpec == CallInit /\ [][CallNext]_callVars
=============================================================================
