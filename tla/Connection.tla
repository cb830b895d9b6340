----------------------------- MODULE Connection -----------------------------
(***************************************************************************)
(* One TCP connection between a client and a server, seen as what          *)
(* read_message and write_message (wire.rs:77-157) make of it: whole       *)
(* messages, in order, or the end.  The socket is the operating system's;  *)
(* it is modelled from how those two functions and Client::close use it.   *)
(*                                                                         *)
(* A message is its packet type, what it says - a sequence, as far as its  *)
(* reader tells one saying from another - and, for the properties only,    *)
(* the number of the batch it is or answers.                               *)
(***************************************************************************)
EXTENDS Naturals, Sequences

VARIABLES inbox,   \* inbox[s]: the messages on their way to the side s
          up       \* up[s]: whether s has its socket open

Sides == {"client", "server"}
Peer(s) == IF s = "client" THEN "server" ELSE "client"

Message(kind, says, no) == [kind |-> kind, says |-> says, no |-> no]

ConnectionInit ==
  /\ inbox = [s \in Sides |-> <<>>]
  /\ up = [s \in Sides |-> TRUE]

Waiting(s) == inbox[s] # <<>>
First(s) == Head(inbox[s])

\* read_message returns None: everything was read and the peer has closed.
AtEnd(s) == ~Waiting(s) /\ ~up[Peer(s)]

\* read_message takes the next message off.
Take(s) ==
  /\ Waiting(s)
  /\ inbox' = [inbox EXCEPT ![s] = Tail(@)]

\* A write to a peer that has closed goes nowhere, and the reset that comes
\* back may take what was not yet read with it.
Sends(s, box, m) ==
  IF up[Peer(s)]
  THEN inbox' = [box EXCEPT ![Peer(s)] = Append(@, m)]
  ELSE \E left \in {box[s], <<>>} : inbox' = [box EXCEPT ![s] = left]

Post(s, m) == Sends(s, inbox, m)

\* One message read and its answer written.
TakeAndPost(s, m) == Sends(s, [inbox EXCEPT ![s] = Tail(@)], m)

\* A close.  What s had not read turns it into a reset, which may overtake
\* what the peer has not read.
Shuts(s, box) ==
  /\ up' = [up EXCEPT ![s] = FALSE]
  /\ \E left \in IF box[s] = <<>> THEN {box[Peer(s)]} ELSE {box[Peer(s)], <<>>} :
       inbox' = [box EXCEPT ![s] = <<>>, ![Peer(s)] = left]

Shut(s) == Shuts(s, inbox)

\* One message read, and the socket closed over it.
TakeAndShut(s) == Waiting(s) /\ Shuts(s, [inbox EXCEPT ![s] = Tail(@)])
=============================================================================
