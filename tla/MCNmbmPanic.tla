----------------------------- MODULE MCNmbmPanic -----------------------------
(* A small chip for TLC.                                                    *)
EXTENDS NmbmPanic

CONSTANT v     \* the one content users write

NoneBad == {{}}
\* one of the two data blocks, and the spare block it is mapped to first
DataWear == {1, 8}
=============================================================================
