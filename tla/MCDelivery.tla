----------------------------- MODULE MCDelivery -----------------------------
(***************************************************************************)
(* Delivery of one or two rows to one or two receives at a time, for a     *)
(* Location whose query reads and one whose query consumes.                *)
(***************************************************************************)
EXTENDS Delivery, TLC

CONSTANTS r1, r2, p1, p2, b1, b2

ReadsThenTells == [accept |-> TRUE, consumes |-> FALSE]
ReadsOnly == [accept |-> FALSE, consumes |-> FALSE]
ConsumesAsItReads == [accept |-> FALSE, consumes |-> TRUE]

EveryLocation == [accept : BOOLEAN, consumes : BOOLEAN]
Telling == {ReadsThenTells}
Reading == {ReadsThenTells, ReadsOnly}

Symmetry == Permutations({p1, p2}) \cup Permutations({b1, b2})
=============================================================================
