----------------------------- MODULE MCExchange -----------------------------
(***************************************************************************)
(* Exchange on small instances: two or three calls, the first two on one   *)
(* server and database, the third on another where the instance says so.   *)
(***************************************************************************)
EXTENDS Exchange, TLC

CONSTANTS c1, c2, c3, k1, k2, k3, orders, billing

OneKey == (c1 :> orders) @@ (c2 :> orders)
TwoKeys == OneKey @@ (c3 :> billing)

\* lib.rs:26-29 says of the transport that it "opens and closes its
\* connection inside one receive": no connection is left open by the call
\* that used it.
ClosedWithinTheCall == \A k \in Conns : state[k] # "kept"
=============================================================================
