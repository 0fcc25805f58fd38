------------------------------ MODULE NmbmData ------------------------------
(***************************************************************************)
(* Why NMBM loses nothing that it acknowledged: the inductive invariants   *)
(* behind AckedReadable, TablesAvoidData, DurableWithTable and             *)
(* LostOnlyWithLastTable (proved in NmbmDataProofs).  DataInv relates what *)
(* the user knows to the mappings of the tables on the chip and to the     *)
(* mapping in memory; TableInv says which table a loop leaves alone.       *)
(***************************************************************************)
EXTENDS NmbmLayout

\* NMBM is being set up: nothing was written to the chip yet
Creating == pc \in {"sig", "sig_prog", "create", "c_map", "c_close", "c_end"}
            \/ uret \in {"creating", "c_close", "c_end"}
NewChip ==
  SigBlocks = {} \/ Creating =>
    /\ \A l \in LBs : ~Settled(l)
    /\ \A b \in Blocks : cells[b].kind # "data"

\* mapping m leads to what the user knows of l, in a block that s calls good
AtHome(l, m, s) == /\ m[l] \in Blocks \ badmark /\ s[m[l]] = "good"
                   /\ Holds(l, cells[m[l]])

(* What was acknowledged is found in memory and by every table, whichever a
   power cut leaves.                                                         *)
Kept ==
  \A l \in LBs : Settled(l) =>
    /\ \A b \in Tables : AtHome(l, cells[b].mp, cells[b].st)
    /\ Laid => l < dataCount /\ AtHome(l, mp, st)

\* The tables and the memory have the same home for it.
Agreed(l) == /\ \A a, b \in Tables : cells[a].mp[l] = cells[b].mp[l]
             /\ Laid => \A b \in Tables : cells[b].mp[l] = mp[l]
SameHome == \A l \in LBs : Settled(l) => Agreed(l)

\* Only a block that failed, or carries a bad mark, is not good.
NoData(s) == \A b \in Blocks \ badmark : s[b] # "good" => cells[b].kind # "data"
NotGood == (Laid => NoData(st)) /\ \A b \in Tables : NoData(cells[b].st)

\* No block holds data that no mapping leads to.
Homes(m) == \A b \in Blocks \ badmark : cells[b].kind = "data" => m[cells[b].lb] = b
DataMapped == (Laid => Homes(mp)) /\ \A b \in Tables : Homes(cells[b].mp)

-----------------------------------------------------------------------------
(* Tables and memory. *)

\* a protected device touches nothing
Resting == protected => pc \in UpdateReturns \cup {"update", "e_map"}

\* the tables hold the mapping of the cache, but for those about to be written
TablesSaved ==
  Laid => \A b \in Tables : \/ cells[b].mp = cache.mp
                            \/ Going("up_backup") \/ b \in Stale
                            \/ Going("up_main") /\ b = mainBa

\* and the cache that of the memory, but for a change about to be saved, or never
\* to be: after a panic
CacheSaved ==
  Laid => \A l \in LBs : \/ mp[l] = Unmapped \/ mp[l] = cache.mp[l]
                         \/ protected
                         \/ changed /\ pc \in {"update", "c_map", "detached"}

-----------------------------------------------------------------------------
(* The requests. *)

\* of an erase until it is answered, over all updates of the tables
Erase == pc \in {"e_try", "e_map", "e_close"} \/ uret \in {"e_try", "e_close"}
Requested ==
  /\ pc \in {"idle", "off"} => uret = "idle"
  /\ Erase \/ pc = "p_try" => op.lb < dataCount /\ ~Settled(op.lb)
  /\ Erase /\ protected => Tables = {}
  /\ pc = "p_try" => mp[op.lb] \in Blocks \ badmark /\ st[mp[op.lb]] = "good"
  /\ pc \in {"e_map", "e_close"} \/ uret = "e_close" =>
       mp[op.lb] \in Blocks /\ st[mp[op.lb]] # "good"

-----------------------------------------------------------------------------
(* While one table is rewritten another one stays. *)

\* the table that the loop going on, or just over, leaves alone; none while the
\* only table is written, or both are from scratch
Standing ==
  IF \E p \in {"up_main", "us_main", "rm_tmp"} : Going(p) THEN backupBa
  ELSE IF Going("rm_main") THEN rg.lim
  ELSE mainBa
TableThere ==
  Laid /\ ~protected => /\ Standing # None => Standing \in Tables
                        /\ pc = "erase" => mainBa < rg.ba
TableInv == Resting /\ (~stepped => TableThere)

DataInv ==
  ~stepped /\ ~renewed => /\ NewChip /\ Kept /\ SameHome /\ NotGood /\ DataMapped
                          /\ Resting /\ TablesSaved /\ CacheSaved /\ Requested

(* What holds over every step of every procedure, and why the tables, the
   mapping and the spare blocks stay apart and what was acknowledged stays
   found: the invariants proved in NmbmLayoutProofs and NmbmDataProofs.     *)
KeepsInv == LayoutInv /\ DataInv /\ TableInv
=============================================================================
