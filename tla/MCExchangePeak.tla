--------------------------- MODULE MCExchangePeak ---------------------------
(***************************************************************************)
(* ExchangePeak on the instances of MCExchange.                            *)
(***************************************************************************)
EXTENDS MCExchange, ExchangePeak
=============================================================================
