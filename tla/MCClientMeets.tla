---------------------------- MODULE MCClientMeets ----------------------------
(***************************************************************************)
(* ClientMeets with every answer to the pre-login, and token streams of up *)
(* to two tokens of the kinds the client's loops tell apart.               *)
(***************************************************************************)
EXTENDS ClientMeets

OneLogin == {"right"}
OneVerb == {"select"}
EveryPrelogin == Unencrypted \cup {"on", "required", "torn"}
Drawn == {"ack", "row", "torn"} \cup Errors
UpToTwoTokens == {<<>>} \cup {<<a>> : a \in Drawn} \cup {<<a, b>> : a, b \in Drawn}
=============================================================================
