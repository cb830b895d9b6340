----------------------------- MODULE MCRefusals -----------------------------
(***************************************************************************)
(* DeliveryRefusals on the instances of MCDelivery.                        *)
(***************************************************************************)
EXTENDS MCDelivery, DeliveryRefusals
=============================================================================
