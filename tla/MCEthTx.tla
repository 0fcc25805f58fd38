------------------------------- MODULE MCEthTx -------------------------------
(***************************************************************************)
(* The transmit ring with two network devices, which nothing tells apart.  *)
(***************************************************************************)
EXTENDS EthTx, TLC

CONSTANTS d1, d2

DevSymmetry == Permutations({d1, d2})
=============================================================================
