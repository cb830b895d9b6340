--------------------------- MODULE MCSessionMeets ---------------------------
(***************************************************************************)
(* SessionMeets with two logins, of which the session demands one or none, *)
(* and batches of two verbs.                                               *)
(***************************************************************************)
EXTENDS SessionMeets

TwoLogins == {"right", "wrong"}
RightOrAnyone == {"right", Anyone}
TwoVerbs == {"select", "insert"}
=============================================================================
