--------------------------- MODULE DeliveryProofs ---------------------------
(***************************************************************************)
(* Proofs about Delivery, for every Location, any rows, any number of      *)
(* overlapping receives, changes and deaths of the node.                   *)
(*                                                                         *)
(* That a row which is gone is Xmip's rests on the statements: one begins  *)
(* only when its row was accepted (InItsTime), and a Stream that can be    *)
(* accepted is of a row the query returned (InTurn).  That a query which   *)
(* consumes delivers at most once rests on a row being returned to one     *)
(* receive alone, whose Stream nobody had before (InOneHand).  That what   *)
(* was refused is not received again rests on no other receive having the  *)
(* row in hand (RefusalIsKept), which is why it is proved of receives that *)
(* do not overlap.                                                         *)
(***************************************************************************)
EXTENDS DeliveryRefusals, TLAPS

USE DeliveryAssumption

\* Every table is full and nothing was received at first (lib.rs:93-132).
LEMMA InitInv == Init => Inv
<1> SUFFICES ASSUME Init PROVE Inv
  OBVIOUS
<1> USE DEF Init, NoRows, NoArrivals, Call!CallInit, Statements, MaybeBodies
<1>1. TypeOK
  BY DEF TypeOK, ReceiveStates, ArrivalStates, Call!Statuses
<1>2. InTurn /\ InItsTime
  BY DEF InTurn, InItsTime
<1>3. InOneHand
  BY DEF InOneHand, IsXmips
<1>4. ConsumedIsXmips /\ AtMostOnce
  BY DEF ConsumedIsXmips, AtMostOnce
<1> QED BY <1>1, <1>2, <1>3, <1>4 DEF Inv

\* A change by the producer puts no row back (README.md:12).
LEMMA StepEdit ==
  ASSUME Inv, NEW r \in Rows, NEW b \in Bodies, Edit(r, b)
  PROVE  Inv'
<1> USE DEF Inv, Edit, nodeVars, xmipVars, callVars
<1>1. TypeOK'
  BY DEF TypeOK, MaybeBodies
<1>2. \A s \in Rows : table'[s] = Absent <=> table[s] = Absent
  BY DEF TypeOK
<1>3. InTurn'
  BY DEF InTurn, NoRows, NoArrivals
<1>4. InItsTime'
  BY <1>2 DEF InItsTime, IsXmips
<1>5. InOneHand'
  BY <1>2 DEF InOneHand, IsXmips
<1>6. ConsumedIsXmips' /\ AtMostOnce'
  BY <1>2 DEF ConsumedIsXmips, AtMostOnce
<1> QED BY <1>1, <1>3, <1>4, <1>5, <1>6

\* A statement is begun, and another's is not (client.rs:114-115).
LEMMA Begun ==
  ASSUME TypeOK, NEW s \in Statements, Call!CallBegin(s)
  PROVE  /\ status[s] = "idle" /\ status' = [status EXCEPT ![s] = "running"]
         /\ ran' = ran /\ erred' = erred
         /\ status' \in [Statements -> Call!Statuses]
         /\ status'[s] = "running"
         /\ \A o \in Statements \ {s} : status'[o] = status[o]
  BY DEF TypeOK, Call!CallBegin, Call!Statuses

\* The one attempt of a statement runs, and another's does not.
LEMMA Ran ==
  ASSUME TypeOK, NEW s \in Statements, Call!CallRun(s)
  PROVE  /\ status[s] # "idle" /\ ran[s] = {}
         /\ ran' \in [Statements -> SUBSET {1}]
         /\ ran'[s] # {}
         /\ \A o \in Statements \ {s} : ran'[o] = ran[o]
         /\ status' = status /\ erred' = erred
<1>1. PICK n \in 1..1 : /\ n \notin ran[s] \cup erred[s]
                        /\ ran' = [ran EXCEPT ![s] = @ \cup {n}]
  BY DEF Call!CallRun, Call!Fresh
<1>2. n = 1
  OBVIOUS
<1>3. ran[s] = {}
  BY <1>1, <1>2 DEF TypeOK
<1> QED BY <1>1, <1>2, <1>3 DEF TypeOK, Call!CallRun

\* A statement is told of, and another's is not (client.rs:116-138).
LEMMA Ended ==
  ASSUME TypeOK, NEW s \in Statements,
         Call!CallDone(s) \/ Call!CallRefused(s) \/ Call!CallFail(s)
  PROVE  /\ status[s] = "running"
         /\ status' \in [Statements -> Call!Statuses]
         /\ status'[s] # "idle"
         /\ \A o \in Statements \ {s} : status'[o] = status[o]
         /\ ran' = ran /\ erred' = erred
  BY DEF TypeOK, Call!CallDone, Call!CallRefused, Call!CallFail, Call!Statuses

\* The receives' own statement is none of a row.
LEMMA Apart ==
  ASSUME NEW p \in Receives, NEW q \in Receives, NEW r \in Rows, NEW s \in Rows
  PROVE  /\ <<p, Query>> \in Statements /\ <<p, r>> \in Statements
         /\ <<p, Query>> # <<q, r>>
         /\ <<p, r>> = <<q, s>> <=> p = q /\ r = s
         /\ <<p, Query>> = <<q, Query>> <=> p = q
  BY DEF Statements

\* A receive begins with nothing of the one before (lib.rs:289-294).
LEMMA StepBeginReceive ==
  ASSUME Inv, NEW p \in Receives, BeginReceive(p)
  PROVE  Inv'
<1> USE DEF Inv
<1> DEFINE s == <<p, Query>>
<1>1. s \in Statements /\ Call!CallBegin(s) /\ TypeOK
  BY DEF BeginReceive, Statements
<1>2. /\ ran' = ran /\ status' \in [Statements -> Call!Statuses] /\ erred' = erred
      /\ \A o \in Statements \ {s} : status'[o] = status[o]
  BY <1>1, Begun
<1>3. \A q \in Receives, r \in Rows :
        <<q, r>> \in Statements \ {s} /\ status'[<<q, r>>] = status[<<q, r>>]
  BY <1>2, Apart
<1>4. \A q \in Receives \ {p}, x \in Rows \cup {Query} : status'[<<q, x>>] = status[<<q, x>>]
  BY <1>2 DEF Statements
<1> HIDE DEF s
<1>5. TypeOK'
  BY <1>2 DEF TypeOK, BeginReceive, rowVars, xmipVars, setting, ReceiveStates
<1>6. InTurn'
  BY <1>2, <1>4 DEF InTurn, BeginReceive, TypeOK, NoRows, NoArrivals
<1>7. InItsTime'
  BY <1>2, <1>3 DEF InItsTime, IsXmips, BeginReceive, rowVars, xmipVars
<1>8. /\ UNCHANGED <<table, result, arrival, streams, location>>
      /\ \A q \in Receives \ {p} : receive'[q] = receive[q]
  BY DEF BeginReceive, rowVars, xmipVars, setting, TypeOK
<1>9. InOneHand'
  <2>1. \A r \in Rows : result[p][r] = Absent
    BY DEF InTurn, BeginReceive, NoRows
  <2> QED BY <1>8, <2>1 DEF InOneHand, IsXmips
<1>10. ConsumedIsXmips' /\ AtMostOnce'
  BY DEF ConsumedIsXmips, AtMostOnce, BeginReceive, rowVars, xmipVars, setting
<1> QED BY <1>5, <1>6, <1>7, <1>9, <1>10

\* The query runs and, where it consumes, takes every row (lib.rs:292).
LEMMA StepRunQuery ==
  ASSUME Inv, NEW p \in Receives, RunQuery(p)
  PROVE  Inv'
<1> USE DEF Inv
<1> DEFINE s == <<p, Query>>
<1>1. s \in Statements /\ Call!CallRun(s) /\ TypeOK
  BY DEF RunQuery, Statements
<1>2. /\ status[s] # "idle" /\ ran[s] = {}
      /\ ran' \in [Statements -> SUBSET {1}] /\ ran'[s] # {}
      /\ \A o \in Statements \ {s} : ran'[o] = ran[o]
      /\ status' = status /\ erred' = erred
  BY <1>1, Ran
<1>3. \A q \in Receives, r \in Rows : ran'[<<q, r>>] = ran[<<q, r>>]
  BY <1>2, Apart
<1>4. \A q \in Receives \ {p} : ran'[<<q, Query>>] = ran[<<q, Query>>]
  BY <1>2 DEF Statements
<1>5. receive[p] # "idle" /\ receive[p] # "handing" /\ arrival[p] = NoArrivals
  BY <1>2 DEF InTurn
<1> HIDE DEF s
<1>6. /\ table' = IF location.consumes THEN NoRows ELSE table
      /\ doomed' = IF location.consumes
                   THEN [r \in Rows |-> IF table[r] # Absent THEN table[r] ELSE doomed[r]]
                   ELSE doomed
      /\ result' = [result EXCEPT ![p] = table]
      /\ UNCHANGED <<receive, arrival, refused, streams, twice, location, edits, crashes>>
  BY DEF RunQuery, Delete, NoRows, TypeOK, xmipVars, setting
<1>7. TypeOK'
  BY <1>2, <1>6 DEF TypeOK, MaybeBodies, NoRows
<1>8. InTurn'
  <2>1. \A q \in Receives \ {p} : result'[q] = result[q]
    BY <1>6 DEF TypeOK
  <2>2. \A q \in Receives : arrival[q] = NoArrivals =>
                                 \A r \in Rows : arrival[q][r] # "held"
    BY DEF NoArrivals
  <2>3. ran'[<<p, Query>>] # {}
    BY <1>2 DEF s
  <2> QED BY <1>2, <1>4, <1>5, <1>6, <2>1, <2>2, <2>3 DEF InTurn
<1>9. InItsTime'
  <2>1. \A r \in Rows : /\ table[r] = Absent => table'[r] = Absent
                        /\ table'[r] = Absent => doomed'[r] # Absent
    BY <1>6 DEF InItsTime, NoRows, TypeOK
  <2>2. streams' = streams
    BY <1>6
  <2> QED BY <1>2, <2>1, <2>2 DEF InItsTime, IsXmips
<1>10. InOneHand'
  BY <1>5, <1>6 DEF InOneHand, IsXmips, NoRows, NoArrivals, TypeOK
<1>11. ConsumedIsXmips' /\ AtMostOnce'
  BY <1>6 DEF ConsumedIsXmips, AtMostOnce
<1> QED BY <1>7, <1>8, <1>9, <1>10, <1>11

\* What the receive's own statement ends with disturbs no row's.
LEMMA QueryEnded ==
  ASSUME Inv, NEW p \in Receives,
         \/ Call!CallDone(<<p, Query>>)
         \/ Call!CallRefused(<<p, Query>>) \/ Call!CallFail(<<p, Query>>)
  PROVE  /\ status' \in [Statements -> Call!Statuses] /\ ran' = ran /\ erred' = erred
         /\ \A q \in Receives, r \in Rows : status'[<<q, r>>] = status[<<q, r>>]
         /\ \A q \in Receives \ {p}, x \in Rows \cup {Query} :
              status'[<<q, x>>] = status[<<q, x>>]
<1>1. <<p, Query>> \in Statements /\ TypeOK
  BY DEF Inv, Statements
<1>2. /\ status' \in [Statements -> Call!Statuses] /\ ran' = ran /\ erred' = erred
      /\ \A o \in Statements \ {<<p, Query>>} : status'[o] = status[o]
  BY <1>1, Ended
<1> QED BY <1>2, Apart DEF Statements

\* Streams are handed up of rows the query returned (lib.rs:296-302).
LEMMA StepReceive ==
  ASSUME Inv, NEW p \in Receives, Receive(p)
  PROVE  Inv'
<1> USE DEF Inv
<1>1. /\ status' \in [Statements -> Call!Statuses] /\ ran' = ran /\ erred' = erred
      /\ \A q \in Receives, r \in Rows : status'[<<q, r>>] = status[<<q, r>>]
      /\ \A q \in Receives \ {p}, x \in Rows \cup {Query} :
           status'[<<q, x>>] = status[<<q, x>>]
  BY QueryEnded DEF Receive
<1>2. ran[<<p, Query>>] # {}
  BY DEF Receive, Call!CallDone
<1>3. /\ receive[p] = "asking" /\ receive' = [receive EXCEPT ![p] = "handing"]
      /\ UNCHANGED <<table, doomed, result, refused, streams, twice, location, edits, crashes>>
  BY DEF Receive, rowVars, xmipVars, setting
<1>4. /\ arrival' \in [Receives -> [Rows -> {"none", "held", "telling", "done"}]]
      /\ \A r \in Rows : arrival'[p][r] = "held" => result[p][r] # Absent
      /\ \A q \in Receives \ {p} : arrival'[q] = arrival[q]
  BY DEF Receive, TypeOK, ArrivalStates, HandsUp
<1>5. TypeOK'
  BY <1>1, <1>3, <1>4 DEF TypeOK, ReceiveStates, ArrivalStates
<1>6. InTurn'
  <2> SUFFICES ASSUME NEW q \in Receives
               PROVE  /\ receive'[q] = "idle" =>
                           /\ result'[q] = NoRows
                           /\ \A x \in Rows \cup {Query} : status'[<<q, x>>] = "idle"
                      /\ receive'[q] # "handing" => arrival'[q] = NoArrivals
                      /\ receive'[q] = "handing" => ran'[<<q, Query>>] # {}
                      /\ \A r \in Rows : arrival'[q][r] = "held" => result'[q][r] # Absent
    BY DEF InTurn, NoRows, NoArrivals
  <2>1. CASE q = p
    BY <1>1, <1>2, <1>3, <1>4, <2>1 DEF TypeOK
  <2>2. CASE q # p
    <3>1. /\ receive'[q] = receive[q] /\ arrival'[q] = arrival[q] /\ result' = result
          /\ ran' = ran /\ \A x \in Rows \cup {Query} : status'[<<q, x>>] = status[<<q, x>>]
      BY <1>1, <1>3, <1>4, <2>2 DEF TypeOK
    <3> QED BY <3>1 DEF InTurn
  <2> QED BY <2>1, <2>2
<1>7. InItsTime'
  BY <1>1, <1>3 DEF InItsTime, IsXmips
<1>8. InOneHand'
  BY <1>3, <1>4 DEF InOneHand, IsXmips, TypeOK
<1>9. ConsumedIsXmips' /\ AtMostOnce'
  BY <1>3 DEF ConsumedIsXmips, AtMostOnce
<1> QED BY <1>5, <1>6, <1>7, <1>8, <1>9

\* A receive whose query failed hands nothing up (lib.rs:294).
LEMMA StepReceiveFails ==
  ASSUME Inv, NEW p \in Receives, ReceiveFails(p)
  PROVE  Inv'
<1> USE DEF Inv
<1>1. /\ status' \in [Statements -> Call!Statuses] /\ ran' = ran /\ erred' = erred
      /\ \A q \in Receives, r \in Rows : status'[<<q, r>>] = status[<<q, r>>]
      /\ \A q \in Receives \ {p}, x \in Rows \cup {Query} :
           status'[<<q, x>>] = status[<<q, x>>]
  BY QueryEnded DEF ReceiveFails
<1>2. /\ receive[p] = "asking" /\ receive' = [receive EXCEPT ![p] = "over"]
      /\ UNCHANGED <<table, doomed, result, arrival, refused, streams, twice,
                     location, edits, crashes>>
  BY DEF ReceiveFails, rowVars, xmipVars, setting
<1>3. TypeOK'
  BY <1>1, <1>2 DEF TypeOK, ReceiveStates
<1>4. InTurn'
  BY <1>1, <1>2 DEF InTurn, TypeOK
<1>5. InItsTime'
  BY <1>1, <1>2 DEF InItsTime, IsXmips
<1>6. InOneHand'
  BY <1>2 DEF InOneHand, IsXmips, TypeOK
<1>7. ConsumedIsXmips' /\ AtMostOnce'
  BY <1>2 DEF ConsumedIsXmips, AtMostOnce
<1> QED BY <1>3, <1>4, <1>5, <1>6, <1>7

\* An accepted Stream was nobody's before where the query consumes, and begins
\* its row's statement, if any (lib.rs:302-309).
LEMMA StepAccept ==
  ASSUME Inv, NEW p \in Receives, NEW r \in Rows, Accept(p, r)
  PROVE  Inv'
<1> USE DEF Inv
<1>1. /\ arrival[p][r] = "held" /\ result[p][r] \in Bodies /\ receive[p] = "handing"
      /\ result[p][r] # Absent
  <2>1. arrival[p][r] = "held"
    BY DEF Accept, Moves
  <2>2. result[p][r] # Absent /\ receive[p] = "handing"
    BY <2>1 DEF InTurn, NoArrivals
  <2> QED BY <2>1, <2>2 DEF TypeOK, MaybeBodies
<1>2. /\ streams' = streams \cup {<<r, result[p][r]>>}
      /\ twice' = IF <<r, result[p][r]>> \in streams THEN twice \cup {<<r, result[p][r]>>}
                  ELSE twice
      /\ UNCHANGED <<table, doomed, receive, result, refused, location, edits, crashes>>
  BY DEF Accept, Takes, rowVars, setting
<1>3. /\ arrival' \in [Receives -> [Rows -> ArrivalStates]]
      /\ \A q \in Receives, o \in Rows :
           arrival'[q][o] = "held" => arrival[q][o] = "held" /\ <<q, o>> # <<p, r>>
      /\ \A q \in Receives \ {p} : arrival'[q] = arrival[q]
  <2>1. PICK to \in {"telling", "done"} : arrival' = [arrival EXCEPT ![p][r] = to]
    BY DEF Accept, Moves
  <2> QED BY <2>1 DEF TypeOK, ArrivalStates
<1>4. /\ ran' = ran /\ erred' = erred /\ status' \in [Statements -> Call!Statuses]
      /\ \A o \in Statements \ {<<p, r>>} : status'[o] = status[o]
  <2>1. <<p, r>> \in Statements /\ TypeOK
    BY Apart
  <2>2. CASE HasStatement(r)
    BY <2>1, <2>2, Begun DEF Accept
  <2>3. CASE ~HasStatement(r)
    BY <2>1, <2>3 DEF Accept, callVars, TypeOK
  <2> QED BY <2>2, <2>3
<1>5. IsXmips(r)' /\ \A o \in Rows \ {r} : IsXmips(o)' <=> IsXmips(o)
  BY <1>1, <1>2 DEF IsXmips
<1>6. TypeOK'
  BY <1>1, <1>2, <1>3, <1>4 DEF TypeOK
<1>7. InTurn'
  <2>1. \A q \in Receives \ {p}, x \in Rows \cup {Query} : status'[<<q, x>>] = status[<<q, x>>]
    BY <1>4 DEF Statements
  <2>2. receive[p] = "handing"
    BY <1>1
  <2>3. /\ receive' = receive /\ result' = result /\ ran' = ran
        /\ \A q \in Receives \ {p} : arrival'[q] = arrival[q]
        /\ \A q \in Receives, o \in Rows : arrival'[q][o] = "held" => arrival[q][o] = "held"
    BY <1>2, <1>3, <1>4
  <2> QED BY <2>1, <2>2, <2>3 DEF InTurn
<1>8. InItsTime'
  <2>1. \A q \in Receives, o \in Rows :
          <<q, o>> # <<p, r>> => status'[<<q, o>>] = status[<<q, o>>]
    BY <1>4 DEF Statements
  <2> QED BY <1>2, <1>4, <1>5, <2>1 DEF InItsTime
<1>9. InOneHand'
  BY <1>1, <1>2, <1>3, <1>5 DEF InOneHand
<1>10. AtMostOnce'
  BY <1>1, <1>2 DEF AtMostOnce, InOneHand, IsXmips
<1>11. ConsumedIsXmips'
  BY <1>2 DEF ConsumedIsXmips
<1> QED BY <1>6, <1>7, <1>8, <1>9, <1>10, <1>11

\* A row's statement runs: of one accepted, whether the row goes or none does
\* (lib.rs:304-308).
LEMMA StepRunAccept ==
  ASSUME Inv, NEW p \in Receives, NEW r \in Rows, RunAccept(p, r)
  PROVE  Inv'
<1> USE DEF Inv
<1>1. <<p, r>> \in Statements /\ Call!CallRun(<<p, r>>) /\ TypeOK
  BY Apart DEF RunAccept
<1>2. /\ status[<<p, r>>] # "idle"
      /\ ran' \in [Statements -> SUBSET {1}]
      /\ \A o \in Statements \ {<<p, r>>} : ran'[o] = ran[o]
      /\ status' = status /\ erred' = erred
  BY <1>1, Ran
<1>3. IsXmips(r)
  BY <1>2 DEF InItsTime
<1>4. PICK gone \in SUBSET {r} : Delete(gone)
  BY DEF RunAccept
<1>5. /\ table' \in [Rows -> MaybeBodies] /\ doomed' \in [Rows -> MaybeBodies]
      /\ \A o \in Rows : table[o] = Absent => table'[o] = Absent
      /\ \A o \in Rows : table'[o] = Absent => o = r \/ table[o] = Absent
      /\ \A o \in Rows : table'[o] = Absent => doomed'[o] # Absent
  BY <1>4 DEF Delete, InItsTime, TypeOK, MaybeBodies
<1>6. UNCHANGED <<receive, result, arrival, refused, streams, twice, location, edits, crashes>>
  BY DEF RunAccept, nodeVars, xmipVars, setting
<1>7. TypeOK'
  BY <1>2, <1>5, <1>6 DEF TypeOK
<1>8. InTurn'
  <2>1. \A q \in Receives : ran'[<<q, Query>>] = ran[<<q, Query>>]
    BY <1>2 DEF Statements
  <2> QED BY <1>2, <1>6, <2>1 DEF InTurn
<1>9. InItsTime'
  BY <1>2, <1>5, <1>6 DEF InItsTime, IsXmips
<1>10. InOneHand'
  BY <1>5, <1>6 DEF InOneHand, IsXmips
<1>11. ConsumedIsXmips' /\ AtMostOnce'
  BY <1>3, <1>5, <1>6 DEF ConsumedIsXmips, AtMostOnce, IsXmips
<1> QED BY <1>7, <1>8, <1>9, <1>10, <1>11

\* A Stream that is refused or fails tells the database nothing (lib.rs:285-286).
LEMMA StepRefuse ==
  ASSUME Inv, NEW p \in Receives, NEW r \in Rows, Refuse(p, r) \/ Fail(p, r)
  PROVE  Inv'
<1> USE DEF Inv
<1>1. /\ arrival[p][r] = "held" /\ arrival' = [arrival EXCEPT ![p][r] = "done"]
      /\ UNCHANGED <<table, doomed, receive, result, streams, twice, location, edits,
                     crashes, status, ran, erred>>
  BY DEF Refuse, Fail, Moves, rowVars, xmipVars, setting, callVars
<1>2. refused' \in [Rows -> MaybeBodies]
  BY DEF Refuse, Fail, Remember, TypeOK
<1>3. TypeOK'
  BY <1>1, <1>2 DEF TypeOK, ArrivalStates
<1>4. InTurn'
  BY <1>1 DEF InTurn, TypeOK, NoArrivals
<1>5. InItsTime' /\ ConsumedIsXmips' /\ AtMostOnce'
  BY <1>1 DEF InItsTime, IsXmips, ConsumedIsXmips, AtMostOnce
<1>6. InOneHand'
  BY <1>1 DEF InOneHand, IsXmips, TypeOK
<1> QED BY <1>3, <1>4, <1>5, <1>6

\* A row's statement ends, well or not, and moves no row (lib.rs:304-308).
LEMMA StepTold ==
  ASSUME Inv, NEW p \in Receives, NEW r \in Rows, Told(p, r) \/ TellFails(p, r)
  PROVE  Inv'
<1> USE DEF Inv
<1>1. <<p, r>> \in Statements /\ TypeOK
  BY Apart
<1>2. /\ status[<<p, r>>] = "running"
      /\ status' \in [Statements -> Call!Statuses]
      /\ \A o \in Statements \ {<<p, r>>} : status'[o] = status[o]
      /\ ran' = ran /\ erred' = erred
  BY <1>1, Ended DEF Told, TellFails
<1>3. /\ arrival[p][r] = "telling" /\ arrival' = [arrival EXCEPT ![p][r] = "done"]
      /\ UNCHANGED <<table, doomed, receive, result, refused, streams, twice, location,
                     edits, crashes>>
  BY DEF Told, TellFails, Moves, rowVars, xmipVars, setting
<1>4. \A q \in Receives, x \in Rows \cup {Query} :
        <<q, x>> # <<p, r>> => status'[<<q, x>>] = status[<<q, x>>]
  BY <1>2 DEF Statements
<1>5. TypeOK'
  BY <1>2, <1>3 DEF TypeOK, ArrivalStates
<1>6. InTurn'
  <2>1. receive[p] = "handing"
    BY <1>3 DEF InTurn, NoArrivals
  <2>2. \A q \in Receives \ {p}, x \in Rows \cup {Query} : status'[<<q, x>>] = status[<<q, x>>]
    BY <1>4
  <2>3. \A q \in Receives, o \in Rows : arrival'[q][o] = "held" => arrival[q][o] = "held"
    BY <1>3 DEF TypeOK
  <2>4. \A q \in Receives \ {p} : arrival'[q] = arrival[q]
    BY <1>3 DEF TypeOK
  <2> QED BY <1>2, <1>3, <2>1, <2>2, <2>3, <2>4 DEF InTurn
<1>7. InItsTime'
  BY <1>2, <1>3, <1>4 DEF InItsTime, IsXmips
<1>8. InOneHand'
  BY <1>3 DEF InOneHand, IsXmips, TypeOK
<1>9. ConsumedIsXmips' /\ AtMostOnce'
  BY <1>3 DEF ConsumedIsXmips, AtMostOnce
<1> QED BY <1>5, <1>6, <1>7, <1>8, <1>9

\* The database refuses a statement, whose row is untouched (client.rs:126).
LEMMA StepErrs ==
  ASSUME Inv, NEW p \in Receives, Errs(p)
  PROVE  Inv'
<1> USE DEF Inv
<1>1. /\ status' = status /\ ran' = ran
      /\ UNCHANGED <<table, doomed, receive, result, arrival, refused, streams, twice,
                     location, edits, crashes>>
  BY DEF Errs, Call!CallFault, rowVars, nodeVars, xmipVars, setting
<1>2. erred' \in [Statements -> SUBSET {1}]
  <2>1. PICK x \in Rows \cup {Query} : Call!CallFault(<<p, x>>)
    BY DEF Errs
  <2>2. PICK n \in 1..1 : erred' = [erred EXCEPT ![<<p, x>>] = @ \cup {n}]
    BY <2>1 DEF Call!CallFault
  <2>3. n = 1
    OBVIOUS
  <2> QED BY <2>2, <2>3 DEF TypeOK
<1>3. TypeOK'
  BY <1>1, <1>2 DEF TypeOK
<1>4. InTurn' /\ InItsTime' /\ InOneHand'
  BY <1>1 DEF InTurn, InItsTime, InOneHand, IsXmips, NoRows, NoArrivals
<1>5. ConsumedIsXmips' /\ AtMostOnce'
  BY <1>1 DEF ConsumedIsXmips, AtMostOnce
<1> QED BY <1>3, <1>4, <1>5

\* A receive ends, and nothing of it is left for the next (lib.rs:279-281).
LEMMA StepRetire ==
  ASSUME Inv, NEW p \in Receives, Retire(p)
  PROVE  Inv'
<1> USE DEF Inv
<1>1. /\ receive' = [receive EXCEPT ![p] = "idle"]
      /\ result' = [result EXCEPT ![p] = NoRows]
      /\ arrival' = [arrival EXCEPT ![p] = NoArrivals]
      /\ UNCHANGED <<table, doomed, refused, streams, twice, location, edits, crashes>>
  BY DEF Retire, rowVars, xmipVars, setting
<1>2. /\ status' \in [Statements -> Call!Statuses]
      /\ ran' \in [Statements -> SUBSET {1}] /\ erred' \in [Statements -> SUBSET {1}]
  BY DEF Retire, Forget, TypeOK, Call!Statuses
<1>3. \A x \in Rows \cup {Query} : status'[<<p, x>>] = "idle" /\ ran'[<<p, x>>] = {}
  BY DEF Retire, Forget, Statements
<1>4. \A q \in Receives \ {p}, x \in Rows \cup {Query} :
        status'[<<q, x>>] = status[<<q, x>>] /\ ran'[<<q, x>>] = ran[<<q, x>>]
  BY DEF Retire, Forget, Statements
<1>5. /\ receive'[p] = "idle" /\ result'[p] = NoRows /\ arrival'[p] = NoArrivals
      /\ \A q \in Receives \ {p} : /\ receive'[q] = receive[q] /\ result'[q] = result[q]
                                   /\ arrival'[q] = arrival[q]
  BY <1>1 DEF TypeOK
<1>6. TypeOK'
  BY <1>1, <1>2 DEF TypeOK, MaybeBodies, NoRows, NoArrivals, ReceiveStates, ArrivalStates
<1>7. InTurn'
  <2> SUFFICES ASSUME NEW q \in Receives
               PROVE  /\ receive'[q] = "idle" =>
                           /\ result'[q] = NoRows
                           /\ \A x \in Rows \cup {Query} : status'[<<q, x>>] = "idle"
                      /\ receive'[q] # "handing" => arrival'[q] = NoArrivals
                      /\ receive'[q] = "handing" => ran'[<<q, Query>>] # {}
                      /\ \A r \in Rows : arrival'[q][r] = "held" => result'[q][r] # Absent
    BY DEF InTurn, NoRows, NoArrivals
  <2>1. CASE q = p
    BY <1>3, <1>5, <2>1 DEF NoArrivals
  <2>2. CASE q # p
    BY <1>4, <1>5, <2>2 DEF InTurn
  <2> QED BY <2>1, <2>2
<1>8. InItsTime'
  BY <1>1, <1>3, <1>4 DEF InItsTime, IsXmips
<1>9. InOneHand'
  <2>1. \A q \in Receives, r \in Rows : result'[q][r] # Absent =>
          /\ q # p /\ result[q][r] # Absent
          /\ receive'[q] = receive[q] /\ arrival'[q] = arrival[q]
    BY <1>5 DEF NoRows
  <2>2. \A r \in Rows : IsXmips(r)' <=> IsXmips(r)
    BY <1>1 DEF IsXmips
  <2> QED BY <1>1, <2>1, <2>2 DEF InOneHand
<1>10. ConsumedIsXmips' /\ AtMostOnce'
  BY <1>1 DEF ConsumedIsXmips, AtMostOnce
<1> QED BY <1>6, <1>7, <1>8, <1>9, <1>10

\* The node dies: what it held is gone and what it had begun may still run
\* (lib.rs:101-103).
LEMMA StepCrash ==
  ASSUME Inv, Crash
  PROVE  Inv'
<1> USE DEF Inv
<1>1. /\ receive' = [p \in Receives |-> IF receive[p] = "idle" THEN "idle" ELSE "over"]
      /\ arrival' = [p \in Receives |-> NoArrivals] /\ refused' = NoRows
      /\ crashes' = crashes + 1 /\ crashes < MaxCrashes
      /\ status' = [c \in Statements |-> IF status[c] = "running" THEN "failed" ELSE status[c]]
      /\ UNCHANGED <<table, doomed, result, streams, twice, location, edits, ran, erred>>
  BY DEF Crash, rowVars, xmipVars
<1>2. \A q \in Receives, x \in Rows \cup {Query} :
        /\ status'[<<q, x>>] = "idle" <=> status[<<q, x>>] = "idle"
        /\ status'[<<q, x>>] = "ok" <=> status[<<q, x>>] = "ok"
  BY <1>1 DEF Statements
<1>3. TypeOK'
  <2>1. status' \in [Statements -> Call!Statuses]
    BY <1>1 DEF TypeOK, Call!Statuses
  <2>2. crashes' \in 0..MaxCrashes
    BY <1>1 DEF TypeOK
  <2> QED BY <1>1, <2>1, <2>2 DEF TypeOK, MaybeBodies, NoRows, NoArrivals, ReceiveStates,
                                  ArrivalStates
<1>4. \A q \in Receives : /\ receive'[q] = "idle" <=> receive[q] = "idle"
                          /\ receive'[q] \in {"idle", "over"} /\ arrival'[q] = NoArrivals
  BY <1>1
<1>5. InTurn'
  BY <1>1, <1>2, <1>4 DEF InTurn, NoArrivals, NoRows
<1>6. InItsTime'
  BY <1>1, <1>2 DEF InItsTime, IsXmips
<1>7. InOneHand'
  BY <1>1, <1>4 DEF InOneHand, IsXmips, NoArrivals
<1>8. ConsumedIsXmips' /\ AtMostOnce'
  BY <1>1 DEF ConsumedIsXmips, AtMostOnce
<1> QED BY <1>3, <1>5, <1>6, <1>7, <1>8

\* Whatever the node, the database or a producer does.
LEMMA StepInv == Inv /\ [Next]_vars => Inv'
<1> SUFFICES ASSUME Inv, [Next]_vars PROVE Inv'
  OBVIOUS
<1>1. ASSUME NEW r \in Rows, NEW b \in Bodies, Edit(r, b) PROVE Inv'
  BY <1>1, StepEdit
<1>2. ASSUME NEW p \in Receives, Serving(p) PROVE Inv'
  BY <1>2, StepBeginReceive, StepReceive, StepReceiveFails, StepRetire, StepAccept,
     StepTold, StepRefuse DEF Serving
<1>3. ASSUME NEW p \in Receives, DatabaseRuns(p) PROVE Inv'
  BY <1>3, StepRunQuery, StepErrs, StepRunAccept DEF DatabaseRuns
<1>4. CASE UNCHANGED vars
  <2> USE <1>4 DEF vars, Inv
  <2>1. TypeOK'
    BY DEF TypeOK
  <2>2. InTurn'
    BY DEF InTurn, NoRows, NoArrivals
  <2>3. InItsTime'
    BY DEF InItsTime, IsXmips
  <2>4. InOneHand'
    BY DEF InOneHand, IsXmips
  <2>5. ConsumedIsXmips' /\ AtMostOnce'
    BY DEF ConsumedIsXmips, AtMostOnce
  <2> QED BY <2>1, <2>2, <2>3, <2>4, <2>5
<1> QED BY <1>1, <1>2, <1>3, <1>4, StepCrash DEF Next

\* What a row's life rests on holds through overlapping receives, late
\* statements and crashes (lib.rs:289-313).
THEOREM DeliveryInvariance == Spec => []Inv
  BY InitInv, StepInv, PTL DEF Spec

\* Where the query only reads, a row that is gone was accepted: no refusal, no
\* failure and no death of the node loses one (README.md:11, lib.rs:34-37).
THEOREM NoRowIsLost == Spec => []ConsumedIsXmips
<1>1. Inv => ConsumedIsXmips
  BY DEF Inv
<1> QED BY <1>1, DeliveryInvariance, PTL

\* A query that consumes as it reads delivers each row at most once
\* (README.md:15, lib.rs:287-288).
THEOREM DeliveredAtMostOnce == Spec => []AtMostOnce
<1>1. Inv => AtMostOnce
  BY DEF Inv
<1> QED BY <1>1, DeliveryInvariance, PTL

-----------------------------------------------------------------------------
(* What was refused is not received again.                                 *)

\* What was turned down stays so in a step that refuses nothing, begins no
\* query and hands nothing up.
LEMMA StillKept ==
  ASSUME RefusalIsKept,
         \A s \in turnedDown' : s \in turnedDown /\ table'[s[1]] = table[s[1]],
         refused' = refused,
         \A p \in Receives, r \in Rows : arrival'[p][r] = "held" => arrival[p][r] = "held",
         \A p \in Receives : receive'[p] = "asking" =>
           receive[p] = "asking" /\ result'[p] = result[p]
  PROVE  RefusalIsKept'
  BY DEF RefusalIsKept

\* Nothing more is turned down where the memory of refusals stays as it is.
LEMMA NothingNew ==
  ASSUME RefusalNext, UNCHANGED <<refused, crashes>>
  PROVE  \A s \in turnedDown' : s \in turnedDown /\ table'[s[1]] = table[s[1]]
  BY DEF RefusalNext

\* A receive that begins has read nothing yet (lib.rs:289-294).
LEMMA BeginKeeps ==
  ASSUME Inv, RefusalIsKept, RefusalNext, NEW p \in Receives, BeginReceive(p)
  PROVE  RefusalIsKept'
<1> USE DEF BeginReceive, rowVars, xmipVars, setting
<1>1. \A s \in turnedDown' : s \in turnedDown /\ table'[s[1]] = table[s[1]]
  BY NothingNew
<1>2. result[p] = NoRows
  BY DEF Inv, InTurn
<1>3. /\ UNCHANGED <<refused, arrival, result>>
      /\ \A q \in Receives : receive'[q] = "asking" => q = p \/ receive[q] = "asking"
  BY DEF Inv, TypeOK
<1> QED BY <1>1, <1>2, <1>3 DEF RefusalIsKept, NoRows

\* A query reads what was turned down as it is, or takes it (lib.rs:292).
LEMMA QueryKeeps ==
  ASSUME Inv, RefusalIsKept, RefusalNext, NEW p \in Receives, RunQuery(p)
  PROVE  RefusalIsKept'
<1> USE DEF RunQuery, xmipVars, setting
<1>1. \A s \in turnedDown' : s \in turnedDown /\ table'[s[1]] = table[s[1]]
  BY NothingNew
<1>2. /\ UNCHANGED <<refused, arrival, receive>>
      /\ \A q \in Receives, r \in Rows : result'[q][r] = IF q = p THEN table[r] ELSE result[q][r]
  BY DEF Inv, TypeOK
<1> QED BY <1>1, <1>2 DEF RefusalIsKept

\* A row turned down is not handed up: it was read as it is, which is what
\* is remembered of it (lib.rs:296-302).
LEMMA HandingKeeps ==
  ASSUME Inv, RefusalIsKept, RefusalNext, NEW p \in Receives, Receive(p)
  PROVE  RefusalIsKept'
<1> USE DEF Receive, rowVars, xmipVars, setting
<1>1. \A s \in turnedDown' : s \in turnedDown /\ table'[s[1]] = table[s[1]]
  BY NothingNew
<1>2. /\ UNCHANGED <<refused, result>>
      /\ \A q \in Receives : receive'[q] = "asking" => receive[q] = "asking"
  BY DEF Inv, TypeOK
<1>3. receive[p] = "asking"
  OBVIOUS
<1>4. /\ \A r \in Rows : arrival'[p][r] = "held" => HandsUp(r, result[p][r])
      /\ \A q \in Receives \ {p} : arrival'[q] = arrival[q]
  BY DEF Inv, TypeOK
<1> QED BY <1>1, <1>2, <1>3, <1>4 DEF RefusalIsKept, HandsUp

\* A refusal takes the place of an earlier one only where the row changed:
\* no other receive has it in hand (lib.rs:38-39).
LEMMA RefuseKeeps ==
  ASSUME Inv, NoOverlap, RefusalIsKept, RefusalNext,
         NEW p \in Receives, NEW r \in Rows, Refuse(p, r)
  PROVE  RefusalIsKept'
<1>1. /\ arrival[p][r] = "held" /\ receive[p] = "handing" /\ result[p][r] \in Bodies
      /\ arrival' = [arrival EXCEPT ![p][r] = "done"]
      /\ refused' = IF r \in Named THEN [refused EXCEPT ![r] = result[p][r]] ELSE refused
      /\ UNCHANGED <<table, receive, result, crashes>>
  <2>1. arrival[p][r] = "held" /\ result[p][r] # Absent /\ receive[p] = "handing"
    BY DEF Refuse, Moves, Inv, InTurn, NoArrivals
  <2> QED BY <2>1 DEF Refuse, Moves, Remember, rowVars, setting, Inv, TypeOK, MaybeBodies
<1>2. \A q \in Receives : receive[q] # "asking" /\ (q # p => arrival[q] = NoArrivals)
  BY <1>1 DEF NoOverlap, Inv, InTurn
<1>3. \A q \in Receives, o \in Rows : arrival'[q][o] = "held" => q = p /\ o # r /\ arrival[p][o] = "held"
  BY <1>1, <1>2 DEF Inv, TypeOK, NoArrivals
<1>4. ASSUME NEW s \in turnedDown'
      PROVE  \/ s \in turnedDown /\ s[1] # r
             \/ s = <<r, result[p][r]>> /\ table[r] = result[p][r] /\ r \in Named
  <2>1. CASE s \in turnedDown
    BY <1>1, <2>1 DEF RefusalIsKept
  <2>2. CASE s \notin turnedDown
    <3>1. PICK o \in Named : s = <<o, table[o]>> /\ refused'[o] # refused[o] /\ refused'[o] = table[o]
      BY <1>1, <2>2 DEF RefusalNext
    <3>2. o = r
      BY <1>1, <3>1 DEF Inv, TypeOK
    <3> QED BY <1>1, <3>1, <3>2 DEF Inv, TypeOK
  <2> QED BY <2>1, <2>2
<1>5. ASSUME NEW s \in turnedDown'
      PROVE  /\ s[1] \in Rows /\ s[2] \in Bodies
             /\ table'[s[1]] = s[2] /\ refused'[s[1]] = s[2]
             /\ \A q \in Receives : arrival'[q][s[1]] # "held" /\ receive'[q] # "asking"
  <2>1. CASE s \in turnedDown /\ s[1] # r
    BY <1>1, <1>2, <1>3, <2>1 DEF RefusalIsKept, Inv, TypeOK
  <2>2. CASE s = <<r, result[p][r]>> /\ table[r] = result[p][r] /\ r \in Named
    BY <1>1, <1>2, <1>3, <2>2 DEF Inv, TypeOK
  <2> QED BY <1>4, <2>1, <2>2
<1> QED BY <1>5 DEF RefusalIsKept

\* Whatever else happens lets what was turned down be, or changes the row.
LEMMA OthersKeep ==
  ASSUME Inv, RefusalIsKept, RefusalNext,
         \/ \E r \in Rows, b \in Bodies : Edit(r, b)
         \/ \E p \in Receives :
              \/ ReceiveFails(p) \/ Retire(p) \/ Errs(p)
              \/ \E r \in Rows : \/ Accept(p, r) \/ Told(p, r) \/ TellFails(p, r)
                                 \/ Fail(p, r) \/ RunAccept(p, r)
  PROVE  RefusalIsKept'
<1> DEFINE Quiet ==
      /\ UNCHANGED <<refused, crashes>>
      /\ \A q \in Receives, o \in Rows : arrival'[q][o] = "held" => arrival[q][o] = "held"
      /\ \A q \in Receives : receive'[q] = "asking" =>
           receive[q] = "asking" /\ result'[q] = result[q]
<1>1. Quiet
  <2> USE DEF Inv, TypeOK, rowVars, nodeVars, xmipVars, setting
  <2>1. ASSUME NEW r \in Rows, NEW b \in Bodies, Edit(r, b) PROVE Quiet
    BY <2>1 DEF Edit
  <2>2. ASSUME NEW p \in Receives, ReceiveFails(p) PROVE Quiet
    BY <2>2 DEF ReceiveFails
  <2>3. ASSUME NEW p \in Receives, Retire(p) PROVE Quiet
    BY <2>3 DEF Retire, NoArrivals
  <2>4. ASSUME NEW p \in Receives, Errs(p) PROVE Quiet
    BY <2>4 DEF Errs
  <2>5. ASSUME NEW p \in Receives, NEW r \in Rows,
               Accept(p, r) \/ Told(p, r) \/ TellFails(p, r) \/ Fail(p, r)
        PROVE  Quiet
    <3>1. \E to \in {"telling", "done"} : arrival' = [arrival EXCEPT ![p][r] = to]
      BY <2>5 DEF Accept, Told, TellFails, Fail, Moves
    <3>2. UNCHANGED <<refused, crashes, receive, result>>
      BY <2>5 DEF Accept, Told, TellFails, Fail
    <3> QED BY <3>1, <3>2
  <2>6. ASSUME NEW p \in Receives, NEW r \in Rows, RunAccept(p, r) PROVE Quiet
    BY <2>6 DEF RunAccept
  <2> HIDE DEF Quiet
  <2> QED BY <2>1, <2>2, <2>3, <2>4, <2>5, <2>6
<1>2. \A s \in turnedDown' : s \in turnedDown /\ table'[s[1]] = table[s[1]]
  BY <1>1, NothingNew
<1> QED BY <1>1, <1>2, StillKept

\* Every step keeps it while no two receives are under way (lib.rs:289-313).
LEMMA StepRefusalIsKept ==
  ASSUME Inv, NoOverlap, RefusalIsKept, [RefusalNext]_<<vars, turnedDown>>
  PROVE  RefusalIsKept'
<1>1. CASE UNCHANGED <<vars, turnedDown>>
  BY <1>1 DEF vars, RefusalIsKept
<1>2. ASSUME RefusalNext, Crash PROVE RefusalIsKept'
  <2>1. turnedDown' = {}
    BY <1>2 DEF RefusalNext, Crash, Inv, TypeOK
  <2> QED BY <2>1 DEF RefusalIsKept
<1>3. ASSUME RefusalNext, NEW p \in Receives, Serving(p) PROVE RefusalIsKept'
  BY <1>3, BeginKeeps, HandingKeeps, RefuseKeeps, OthersKeep DEF Serving
<1>4. ASSUME RefusalNext, NEW p \in Receives, DatabaseRuns(p) PROVE RefusalIsKept'
  BY <1>4, QueryKeeps, OthersKeep DEF DatabaseRuns
<1>5. ASSUME RefusalNext, NEW r \in Rows, NEW b \in Bodies, Edit(r, b) PROVE RefusalIsKept'
  BY <1>5, OthersKeep
<1> QED BY <1>1, <1>2, <1>3, <1>4, <1>5 DEF RefusalNext, Next

\* A Stream is handed up by a receive that had none of its row, and only of a
\* body that is not remembered as refused (lib.rs:296-302).
LEMMA HandedUpIsNew ==
  ASSUME Inv, RefusalIsKept, [RefusalNext]_Refusals, NEW p \in Receives, NEW r \in Rows,
         arrival[p][r] = "none", arrival'[p][r] = "held"
  PROVE  <<r, result[p][r]>> \notin turnedDown
<1> USE DEF Inv, TypeOK, rowVars, nodeVars, xmipVars, setting
<1>1. SUFFICES refused[r] # result[p][r]
  BY DEF RefusalIsKept
<1>2. Next
  BY DEF RefusalNext, Refusals, vars
<1>3. ASSUME NEW q \in Receives, Receive(q) PROVE refused[r] # result[p][r]
  BY <1>3 DEF Receive, HandsUp
<1>4. ASSUME NEW q \in Receives, NEW o \in Rows,
             Accept(q, o) \/ Told(q, o) \/ TellFails(q, o) \/ Refuse(q, o) \/ Fail(q, o)
      PROVE  FALSE
  <2>1. \E to \in {"telling", "done"} : arrival' = [arrival EXCEPT ![q][o] = to]
    BY <1>4 DEF Accept, Told, TellFails, Refuse, Fail, Moves
  <2> QED BY <2>1
<1>5. ASSUME NEW q \in Receives, Retire(q) \/ Crash PROVE FALSE
  BY <1>5 DEF Retire, Crash, NoArrivals
<1>6. ASSUME UNCHANGED arrival PROVE FALSE
  BY <1>6
<1>7. ASSUME NEW q \in Receives, DatabaseRuns(q) \/ BeginReceive(q) \/ ReceiveFails(q)
      PROVE  UNCHANGED arrival
  BY <1>7 DEF DatabaseRuns, RunQuery, Errs, RunAccept, BeginReceive, ReceiveFails
<1>8. ASSUME NEW o \in Rows, NEW b \in Bodies, Edit(o, b) PROVE UNCHANGED arrival
  BY <1>8 DEF Edit
<1> QED BY <1>2, <1>3, <1>4, <1>5, <1>6, <1>7, <1>8 DEF Next, Serving

\* While one receive is over before another begins, a row that was refused is
\* not handed up again, whoever changes rows and however often statements fail
\* and run late, unless its body changes or the node dies (README.md:12,
\* lib.rs:38-39).
THEOREM NeverReceivedAgain == RefusalSpec /\ []NoOverlap => NotReceivedAgain
<1>1. RefusalInit => RefusalInv
  BY InitInv DEF RefusalInit, RefusalInv, RefusalIsKept
<1>2. RefusalInv /\ NoOverlap /\ [RefusalNext]_<<vars, turnedDown>> => RefusalInv'
  <2> SUFFICES ASSUME RefusalInv, NoOverlap, [RefusalNext]_<<vars, turnedDown>>
               PROVE  RefusalInv'
    OBVIOUS
  <2>1. [Next]_vars
    BY DEF RefusalNext
  <2>2. Inv'
    BY <2>1, StepInv DEF RefusalInv
  <2> QED BY <2>2, StepRefusalIsKept DEF RefusalInv
<1>3. RefusalInv /\ [RefusalNext]_Refusals =>
        [\A p \in Receives, r \in Rows :
           arrival[p][r] = "none" /\ arrival'[p][r] = "held" =>
             <<r, result[p][r]>> \notin turnedDown]_Refusals
  BY HandedUpIsNew DEF RefusalInv
<1>4. [RefusalNext]_<<vars, turnedDown>> => [RefusalNext]_Refusals
  BY DEF Refusals
<1> QED BY <1>1, <1>2, <1>3, <1>4, PTL DEF RefusalSpec, NotReceivedAgain
=============================================================================
