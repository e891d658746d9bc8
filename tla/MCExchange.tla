----------------------------- MODULE MCExchange -----------------------------
(***************************************************************************)
(* One request for TLC.                                                     *)
(***************************************************************************)
EXTENDS ExchangeProps
=============================================================================
