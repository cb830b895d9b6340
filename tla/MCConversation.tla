--------------------------- MODULE MCConversation ---------------------------
(***************************************************************************)
(* Conversation with two logins, of which a far end demands one or none,   *)
(* and a few batches of the kinds a session tells apart.                   *)
(***************************************************************************)
EXTENDS Conversation

TwoLogins == {"right", "wrong"}
RightOrAnyone == {"right", Anyone}
SomeVerbs == {"select", "insert", "insert two"}
=============================================================================
