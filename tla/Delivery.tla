------------------------------ MODULE Delivery ------------------------------
(***************************************************************************)
(* Rows that arrive as Streams, and what consumes them (lib.rs:26-45,      *)
(* lib.rs:289-313).  A receive runs the Location's query and hands up one  *)
(* Stream per row, leaving out rows refused before and unchanged since.    *)
(* Each Stream gets one verdict.  Accepted runs the accept statement, if   *)
(* one is declared and the row has a name; Refused is remembered; Failed   *)
(* tells nobody.                                                           *)
(*                                                                         *)
(* The query and the accept statements go through the pool, each promising *)
(* no more than StatementCall: a call that fails may have run, may still   *)
(* run, or may never run.  The query is known by two things it may do:     *)
(* read the rows, or consume them as it reads.  Producers change rows      *)
(* meanwhile, receives overlap on clones of the transport, and the node    *)
(* may die between any two steps and lose what it only had in memory.      *)
(*                                                                         *)
(* `arrivals`, `accepting` and RefusedRows are transport::sql::accept's,   *)
(* which is not in this repository; they are modelled from how receive     *)
(* uses them and from the tests of lib.rs.                                 *)
(***************************************************************************)
EXTENDS Naturals, FiniteSets

CONSTANTS Rows,           \* rows of the polled table
          Named,          \* those whose first column is not NULL
          Bodies,         \* what the last column may hold
          Absent,         \* no row, no body
          Receives,       \* receives that may be under way at once
          Query,          \* the statement that is not a row's accept
          Locations,      \* what a Location may declare: an `accept`, and a
                          \* query that consumes as it reads
          MaxEdits,       \* bound: changes of a row by its producer
          MaxCrashes      \* bound: deaths of the node process

ASSUME DeliveryAssumption ==
  /\ Named \subseteq Rows
  /\ Absent \notin Bodies /\ Query \notin Rows
  /\ Locations \subseteq [accept : BOOLEAN, consumes : BOOLEAN]
  /\ MaxEdits \in Nat /\ MaxCrashes \in Nat

VARIABLES
  location,  \* what the Location declares
  table,     \* table[r]: the body of the row in the database
  doomed,    \* doomed[r]: the body it had when it was deleted
  receive,   \* receive[p]: where a receive is
  result,    \* result[p][r]: the body its query returned for r
  arrival,   \* arrival[p][r]: where the Stream of r is
  refused,   \* refused[r]: the body of r that was refused last (RefusedRows)
  streams,   \* the Streams that are Xmip's: <<row, body>>
  twice,     \* those it accepted more than once
  edits, crashes,
  status, ran, erred   \* the statements' calls

rowVars == <<table, doomed>>
nodeVars == <<receive, result, arrival, refused>>
xmipVars == <<streams, twice>>
setting == <<location, edits, crashes>>
callVars == <<status, ran, erred>>
vars == <<location, table, doomed, receive, result, arrival, refused, streams, twice,
          edits, crashes, status, ran, erred>>

Statements == Receives \X (Rows \cup {Query})

Call == INSTANCE StatementCall WITH Calls <- Statements, Attempts <- 1

MaybeBodies == Bodies \cup {Absent}
ReceiveStates == {"idle", "asking", "handing", "over"}
ArrivalStates == {"none", "held", "telling", "done"}

TypeOK ==
  /\ location \in Locations
  /\ table \in [Rows -> MaybeBodies] /\ doomed \in [Rows -> MaybeBodies]
  /\ receive \in [Receives -> ReceiveStates]
  /\ result \in [Receives -> [Rows -> MaybeBodies]]
  /\ arrival \in [Receives -> [Rows -> ArrivalStates]]
  /\ refused \in [Rows -> MaybeBodies]
  /\ streams \subseteq Rows \X Bodies /\ twice \subseteq streams
  /\ edits \in 0..MaxEdits /\ crashes \in 0..MaxCrashes
  /\ status \in [Statements -> Call!Statuses]
  /\ ran \in [Statements -> SUBSET {1}] /\ erred \in [Statements -> SUBSET {1}]

NoRows == [r \in Rows |-> Absent]
NoArrivals == [r \in Rows |-> "none"]

Init ==
  /\ location \in Locations
  /\ table \in [Rows -> Bodies] /\ doomed = NoRows
  /\ receive = [p \in Receives |-> "idle"]
  /\ result = [p \in Receives |-> NoRows]
  /\ arrival = [p \in Receives |-> NoArrivals]
  /\ refused = NoRows
  /\ streams = {} /\ twice = {}
  /\ edits = 0 /\ crashes = 0
  /\ Call!CallInit

-----------------------------------------------------------------------------
(* The producer.                                                           *)

Edit(r, b) ==
  /\ edits < MaxEdits
  /\ table[r] \in Bodies \ {b}
  /\ table' = [table EXCEPT ![r] = b]
  /\ edits' = edits + 1
  /\ UNCHANGED <<doomed, nodeVars, xmipVars, location, crashes, callVars>>

-----------------------------------------------------------------------------
(* MssqlTransport::receive                                                 *)

BeginReceive(p) ==
  /\ receive[p] = "idle"
  /\ receive' = [receive EXCEPT ![p] = "asking"]
  /\ Call!CallBegin(<<p, Query>>)
  /\ UNCHANGED <<rowVars, result, arrival, refused, xmipVars, setting>>

\* Rows the database no longer has, with what was in them.
Delete(gone) ==
  /\ table' = [r \in Rows |-> IF r \in gone THEN Absent ELSE table[r]]
  /\ doomed' = [r \in Rows |->
                  IF r \in gone /\ table[r] # Absent THEN table[r] ELSE doomed[r]]

\* The query runs - perhaps after the receive has given up on it.
RunQuery(p) ==
  /\ Call!CallRun(<<p, Query>>)
  /\ result' = [result EXCEPT ![p] = table]
  /\ Delete(IF location.consumes THEN Rows ELSE {})
  /\ UNCHANGED <<receive, arrival, refused, xmipVars, setting>>

\* Slip: a row the query did not return is told from one refused, no more.
HandsUpUnlessRefused(r, body) == refused[r] # body

\* Slip: what was refused is not looked at.
HandsUpEveryRow(r, body) == body # Absent

\* Slip: a row accepted before is left out as one refused is.
HandsUpOnce(r, body) ==
  body # Absent /\ refused[r] # body /\ <<r, body>> \notin streams

\* A row is handed up unless it was refused with this very body.
HandsUp(r, body) == body # Absent /\ refused[r] # body

Receive(p) ==
  /\ receive[p] = "asking"
  /\ Call!CallDone(<<p, Query>>)
  /\ receive' = [receive EXCEPT ![p] = "handing"]
  /\ arrival' = [arrival EXCEPT ![p] =
       [r \in Rows |-> IF HandsUp(r, result[p][r]) THEN "held" ELSE "none"]]
  /\ UNCHANGED <<rowVars, result, refused, xmipVars, setting>>

ReceiveFails(p) ==
  /\ receive[p] = "asking"
  /\ Call!CallRefused(<<p, Query>>) \/ Call!CallFail(<<p, Query>>)
  /\ receive' = [receive EXCEPT ![p] = "over"]
  /\ UNCHANGED <<rowVars, result, arrival, refused, xmipVars, setting>>

-----------------------------------------------------------------------------
(* The verdict on one Stream.                                              *)

Moves(p, r, from, to) ==
  /\ arrival[p][r] = from
  /\ arrival' = [arrival EXCEPT ![p][r] = to]

\* Slip: the rows without a name get the statement, the others none.
HasStatementUnnamed(r) == location.accept /\ r \notin Named

\* Whether there is a statement to run for the row, and a name to bind.
HasStatement(r) == location.accept /\ r \in Named

\* The Stream is Xmip's from here on.
Takes(stream) ==
  /\ streams' = streams \cup {stream}
  /\ twice' = IF stream \in streams THEN twice \cup {stream} ELSE twice

\* Slip: a Stream keeps its verdict open after it was accepted.
AcceptAndHold(p, r) ==
  /\ arrival[p][r] = "held"
  /\ Takes(<<r, result[p][r]>>)
  /\ UNCHANGED <<rowVars, receive, result, arrival, refused, setting, callVars>>

Accept(p, r) ==
  /\ Takes(<<r, result[p][r]>>)
  /\ IF HasStatement(r)
     THEN Moves(p, r, "held", "telling") /\ Call!CallBegin(<<p, r>>)
     ELSE Moves(p, r, "held", "done") /\ UNCHANGED callVars
  /\ UNCHANGED <<rowVars, receive, result, refused, setting>>

\* The accept statement runs.  It is the Location's SQL: it may take the row
\* of that name, whatever the row holds, and it may touch none; what it touched
\* is not asked (lib.rs:308).
RunAccept(p, r) ==
  /\ Call!CallRun(<<p, r>>)
  /\ \E gone \in SUBSET {r} : Delete(gone)
  /\ UNCHANGED <<nodeVars, xmipVars, setting>>

Told(p, r) ==
  /\ Moves(p, r, "telling", "done")
  /\ Call!CallDone(<<p, r>>)
  /\ UNCHANGED <<rowVars, receive, result, refused, xmipVars, setting>>

TellFails(p, r) ==
  /\ Moves(p, r, "telling", "done")
  /\ Call!CallRefused(<<p, r>>) \/ Call!CallFail(<<p, r>>)
  /\ UNCHANGED <<rowVars, receive, result, refused, xmipVars, setting>>

\* A row without a name cannot be remembered either.
Remember(r, body) ==
  refused' = IF r \in Named THEN [refused EXCEPT ![r] = body] ELSE refused

\* Slip: a refusal runs the statement as an acceptance does.
RefuseAndConsume(p, r) ==
  /\ Remember(r, result[p][r])
  /\ IF HasStatement(r)
     THEN Moves(p, r, "held", "telling") /\ Call!CallBegin(<<p, r>>)
     ELSE Moves(p, r, "held", "done") /\ UNCHANGED callVars
  /\ UNCHANGED <<rowVars, receive, result, xmipVars, setting>>

Refuse(p, r) ==
  /\ Moves(p, r, "held", "done")
  /\ Remember(r, result[p][r])
  /\ UNCHANGED <<rowVars, receive, result, xmipVars, setting, callVars>>

Fail(p, r) ==
  /\ Moves(p, r, "held", "done")
  /\ UNCHANGED <<rowVars, receive, result, refused, xmipVars, setting, callVars>>

-----------------------------------------------------------------------------

\* The database answers a statement with an error.
Errs(p) ==
  /\ \E x \in Rows \cup {Query} : Call!CallFault(<<p, x>>)
  /\ UNCHANGED <<rowVars, nodeVars, xmipVars, setting>>

\* The calls of p are over: a statement not run by now never will be.
Forget(p) ==
  /\ status' = [c \in Statements |-> IF c[1] = p THEN "idle" ELSE status[c]]
  /\ ran' = [c \in Statements |-> IF c[1] = p THEN {} ELSE ran[c]]
  /\ erred' = [c \in Statements |-> IF c[1] = p THEN {} ELSE erred[c]]

Retire(p) ==
  /\ \/ receive[p] = "over"
     \/ receive[p] = "handing" /\ \A r \in Rows : arrival[p][r] \in {"none", "done"}
  /\ receive' = [receive EXCEPT ![p] = "idle"]
  /\ result' = [result EXCEPT ![p] = NoRows]
  /\ arrival' = [arrival EXCEPT ![p] = NoArrivals]
  /\ Forget(p)
  /\ UNCHANGED <<rowVars, refused, xmipVars, setting>>

\* The node process dies and starts again: receives, Streams without a
\* verdict and the memory of refusals are gone; statements on their way are
\* not called back.
Crash ==
  /\ crashes < MaxCrashes
  /\ crashes' = crashes + 1
  /\ receive' = [p \in Receives |-> IF receive[p] = "idle" THEN "idle" ELSE "over"]
  /\ arrival' = [p \in Receives |-> NoArrivals]
  /\ refused' = NoRows
  /\ status' = [c \in Statements |-> IF status[c] = "running" THEN "failed" ELSE status[c]]
  /\ UNCHANGED <<rowVars, result, xmipVars, location, edits, ran, erred>>

Serving(p) ==
  \/ BeginReceive(p) \/ Receive(p) \/ ReceiveFails(p) \/ Retire(p)
  \/ \E r \in Rows : \/ Accept(p, r) \/ Told(p, r) \/ TellFails(p, r)
                     \/ Refuse(p, r) \/ Fail(p, r)

DatabaseRuns(p) == RunQuery(p) \/ Errs(p) \/ \E r \in Rows : RunAccept(p, r)

Next ==
  \/ \E p \in Receives : Serving(p) \/ DatabaseRuns(p)
  \/ \E r \in Rows, b \in Bodies : Edit(r, b)
  \/ Crash

Spec == Init /\ [][Next]_vars

\* The Location goes on polling; what is tried again and again works in the
\* end, an accept statement by taking its row; a Stream that is handed up again
\* and again gets a verdict that is not Failed.
Fairness ==
  \A p \in Receives :
    /\ WF_vars(BeginReceive(p)) /\ WF_vars(Retire(p))
    /\ WF_vars(Receive(p) \/ ReceiveFails(p))
    /\ SF_vars(receive[p] = "asking" /\ RunQuery(p)) /\ SF_vars(Receive(p))
    /\ \A r \in Rows :
         /\ SF_vars(Accept(p, r) \/ Refuse(p, r))
         /\ WF_vars(Accept(p, r) \/ Refuse(p, r) \/ Fail(p, r))
         /\ WF_vars(Told(p, r) \/ TellFails(p, r))
         /\ SF_vars(RunAccept(p, r) /\ table'[r] = Absent)

FairSpec == Spec /\ Fairness

-----------------------------------------------------------------------------

\* README.md:11 and lib.rs:34-37: where the query only reads, a row leaves
\* the table only once a Stream of it is Xmip's, through lost answers, late
\* statements, overlapping receives and crashes - so one that was only ever
\* refused or failed still lies where it lay.
ConsumedIsXmips ==
  ~location.consumes =>
    \A r \in Rows : table[r] = Absent => \E b \in Bodies : <<r, b>> \in streams

\* README.md:15: under a query that consumes as it reads, acceptance is at
\* most once, for all that overlaps, fails or dies.
AtMostOnce == location.consumes => twice = {}

\* README.md:11: "the row is consumed once its Stream is Xmip's" - the row
\* that goes is the Stream that came.
StreamIsTheRow ==
  ~location.consumes =>
    \A r \in Rows : doomed[r] # Absent => <<r, doomed[r]>> \in streams

\* lib.rs:39-43: what lies in the table, and is not refused as it is, is handed
\* up again and again, also after it was accepted: its statement failed or
\* touched no row, it has no name to bind, or there is no statement.
ReadAgain ==
  \A r \in Rows :
    []<>(\/ table[r] = Absent \/ refused[r] = table[r]
         \/ \E p \in Receives : arrival[p][r] = "held")

\* Where `accept` is declared, every named row is settled in the end: gone,
\* or refused with the body it has.
Settles ==
  location.accept =>
    \A r \in Named : table[r] # Absent ~> table[r] = Absent \/ refused[r] = table[r]

-----------------------------------------------------------------------------
(* What the promises above rest on.                                        *)

\* A receive begins with nothing of the one before, holds Streams only while
\* it hands them up, of rows its query returned, and hands up only once its
\* query ran, which it then cannot do again.
InTurn ==
  \A p \in Receives :
    /\ receive[p] = "idle" =>
         result[p] = NoRows /\ \A x \in Rows \cup {Query} : status[<<p, x>>] = "idle"
    /\ receive[p] # "handing" => arrival[p] = NoArrivals
    /\ receive[p] = "handing" => ran[<<p, Query>>] # {}
    /\ \A r \in Rows : arrival[p][r] = "held" => result[p][r] # Absent

IsXmips(r) == \E b \in Bodies : <<r, b>> \in streams

\* Only an accepted row has a statement; a row that is gone was something.
InItsTime ==
  \A r \in Rows :
    /\ table[r] = Absent => doomed[r] # Absent
    /\ \A p \in Receives : status[<<p, r>>] # "idle" => IsXmips(r)

\* What a query that consumes returned is gone, is with no other receive, and
\* is nobody's while it may still be accepted.
InOneHand ==
  location.consumes =>
    \A r \in Rows :
      /\ IsXmips(r) => table[r] = Absent
      /\ \A p \in Receives : result[p][r] # Absent =>
           /\ table[r] = Absent
           /\ \A q \in Receives \ {p} : result[q][r] = Absent
           /\ receive[p] = "asking" \/ arrival[p][r] = "held" => ~IsXmips(r)

\* All of it (lib.rs:289-313).
Inv ==
  /\ TypeOK /\ InTurn /\ InItsTime /\ InOneHand
  /\ ConsumedIsXmips /\ AtMostOnce
=============================================================================
