----------------------------- MODULE MCNmbmMtd ------------------------------
(* A few threads for TLC.  They are alike, but liveness is checked too, for  *)
(* which symmetry is unsound.                                                *)
EXTENDS NmbmMtd

CONSTANTS t1, t2, t3

ThreeThreads == {t1, t2, t3}
=============================================================================
