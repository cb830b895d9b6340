------------------------------ MODULE MCFraming ------------------------------
(***************************************************************************)
(* Framing with packets of two bytes of body until a server offers a size  *)
(* that is too small or too large, and is held to one byte or to three;    *)
(* messages of none, less than a packet, exactly one, exactly two, the     *)
(* ceiling and one over it.                                                *)
(***************************************************************************)
EXTENDS Framing

TwoKinds == {"batch", "tabular"}
AroundThePackets == {0, 1, 2, 3, 4, 5}
=============================================================================
