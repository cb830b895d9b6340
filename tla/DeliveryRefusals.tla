-------------------------- MODULE DeliveryRefusals --------------------------
(***************************************************************************)
(* Delivery with a memory of its own of what was refused, kept by what the *)
(* documents promise and not by how the transport remembers it.            *)
(***************************************************************************)
EXTENDS Delivery

\* Refusals since the row last changed or the node last died: what must not
\* be handed up again.
VARIABLE turnedDown

RefusalInit == Init /\ turnedDown = {}
RefusalNext ==
  /\ Next
  /\ turnedDown' =
       IF crashes' # crashes THEN {}
       ELSE {s \in turnedDown : table'[s[1]] = table[s[1]]}
            \cup {<<r, table[r]>> : r \in {q \in Named : refused'[q] # refused[q]
                                                         /\ refused'[q] = table[q]}}
RefusalSpec == RefusalInit /\ [][RefusalNext]_<<vars, turnedDown>>

FairRefusalSpec == RefusalSpec /\ Fairness

Refusals == <<vars, turnedDown>>

\* README.md:12, lib.rs:38-39: a row that was refused is not handed up again
\* while its body is unchanged and the node lives.
NotReceivedAgain ==
  [][\A p \in Receives, r \in Rows :
       arrival[p][r] = "none" /\ arrival'[p][r] = "held" =>
         <<r, result[p][r]>> \notin turnedDown]_Refusals

\* One receive is over before another begins.  The promise needs it: with two
\* under way the refusal of a body read earlier can take the place of the
\* refusal of the body the row holds now.
NoOverlap ==
  \A p, q \in Receives : p # q => "idle" \in {receive[p], receive[q]}

\* What it rests on: what was turned down is in the table still, is what
\* RefusedRows remembers of its row, and is not in a receive's hands; a
\* receive that is yet to hand up read it as it is.
RefusalIsKept ==
  \A s \in turnedDown :
    /\ s[1] \in Rows /\ s[2] \in Bodies
    /\ table[s[1]] = s[2] /\ refused[s[1]] = s[2]
    /\ \A p \in Receives :
         /\ arrival[p][s[1]] # "held"
         /\ receive[p] = "asking" => result[p][s[1]] \in {s[2], Absent}

RefusalInv == Inv /\ RefusalIsKept
=============================================================================
