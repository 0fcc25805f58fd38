----------------------------- MODULE MCEthReset ------------------------------
(***************************************************************************)
(* The reset recovery with two wifi chips.                                 *)
(***************************************************************************)
EXTENDS EthReset

CONSTANTS c1, c2
=============================================================================
