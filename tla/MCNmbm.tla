------------------------------- MODULE MCNmbm -------------------------------
(* Small chips for TLC.  The wear sets name the blocks that may fail.       *)
EXTENDS NmbmData

CONSTANT v     \* the one content users write

NoneBad == {{}}
\* nothing, the last data block, the spare block below the signature, both
SomeBad == {{}, {1}, {NB - 2}, {1, NB - 2}}
\* nothing, or every management block but the signature's
MaybeWorn == {{}, MgmtStart .. NB - 2}
\* the two data blocks and the spare block they are mapped to first
DataWear == {0, 1, 8}
\* everything between the data area and the signature
TableWear == MgmtStart .. NB - 2
AnyWear == Blocks
=============================================================================
