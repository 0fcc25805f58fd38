----------------------------- MODULE NmbmSafety -----------------------------
(***************************************************************************)
(* What NMBM owes to the layers above it: the properties of Nmbm.          *)
(***************************************************************************)
EXTENDS Nmbm

RangeReturns ==
  {"idle", "rb_main", "rb_backup", "rb_erased", "up_main", "up_backup",
   "rm_tmp", "rm_main", "rs_front", "rs_next", "rs_erased", "us_main",
   "us_backup", "ld_ok"}
UpdateReturns ==
  {"idle", "e_try", "e_close", "bad", "c_close", "c_end", "creating",
   "detached"}
Places ==
  RangeReturns \cup UpdateReturns \cup
  {"off", "write", "erase", "prog", "update", "c_map", "e_map", "sig",
   "sig_prog", "create", "p_try", "ld_fail"}

(* The type invariant of every variable of struct nmbm_instance, of the chip
   and of the locals of the procedures.                                     *)
TypeOK ==
  /\ cells \in [Blocks -> Cell] /\ badmark \subseteq Blocks
  /\ st \in [Blocks -> States] /\ mp \in [LBs -> Blocks \cup {Unmapped}]
  /\ changed \in BOOLEAN /\ cache \in InfoTable
  /\ mainBa \in Blocks /\ backupBa \in Blocks
  /\ mapBa \in Blocks /\ topBa \in Blocks
  /\ dataCount \in 0 .. MgmtStart /\ sigBa \in Blocks /\ protected \in BOOLEAN
  /\ pc \in Places
  /\ rg \in [ba : 0 .. NB, lim : Blocks, ret : RangeReturns]
  /\ got \in 0 .. NB - 2 /\ wba \in Blocks /\ uret \in UpdateReturns
  /\ op \in [lb : LBs \cup {Unmapped}, val : Values \cup {"none"}]
  /\ acked \in [LBs -> Values \cup {"empty", "unknown", "bad"}]
  /\ stepped \in BOOLEAN /\ renewed \in BOOLEAN
  /\ faults \in 0 .. MaxFaults /\ crashes \in 0 .. MaxCrashes

-----------------------------------------------------------------------------
(* Where things are on the chip.                                            *)
(*                                                                           *)
(* What concerns the layout holds only as long as nmbm_map_block passed over *)
(* no bad spare block (~stepped).  Passing over one, it lowers               *)
(* mapping_blocks_top_ba by one, not to the block it found: that block is    *)
(* then mapped and in the unmapped area at once, where a table may be        *)
(* written to it.                                                            *)

\* a request is being served, or none is: attach and detach are over
Up == pc \in {"idle", "e_try", "e_map", "e_close", "p_try", "bad", "update",
              "up_backup", "up_main", "rm_tmp", "rm_main"}
InUse == {mp[l] : l \in LBs} \ {Unmapped}

(* While NMBM serves requests (and is not read-only) the management area is
   laid out as the comment of nmbm-private.h draws it: the main table, the
   backup table behind it, the unmapped spare blocks, the mapped ones, the
   signature.  Every update moves the tables upwards and every remapping
   moves topBa downwards, so the two could meet.                            *)
LayoutOk ==
  Up /\ ~protected /\ ~stepped =>
    /\ MgmtStart <= mainBa /\ mainBa < mapBa /\ mapBa <= topBa /\ topBa < sigBa
    /\ backupBa # None => mainBa < backupBa /\ backupBa < mapBa

(* The block that is about to be erased or programmed by nmbm_write_mgmt_range
   and nmbm_erase_range; a block with a bad mark is skipped.                *)
Touched == IF pc = "prog" THEN {rg.ba}
           ELSE IF RangeLoop THEN {Here} \ ({None} \cup badmark) ELSE {}

(* Whatever failed before, and from whichever procedure they are called, the
   loops that write and erase tables stay inside the management area: behind
   the last data block and below the signature (nmbm_write_mgmt_range,
   nmbm_erase_range).                                                       *)
TablesInArea == \A b \in Touched : MgmtStart <= b /\ b < sigBa

(* Inside that area they never touch the home of a logical block, nor any block
   with user data that no mapping in memory mentions, unless an attach that
   found no table has given the chip a new mapping (nmbm_write_mgmt_range,
   nmbm_erase_range).                                                       *)
TablesAvoidData ==
  ~stepped => \A b \in Touched :
                b \notin InUse /\ (~renewed => cells[b].kind # "data")

-----------------------------------------------------------------------------
(* What a user can rely on. *)

\* the user knows what the logical block holds
Settled(l) == acked[l] \in Values \cup {"empty"}
Holds(l, c) == c = IF acked[l] = "empty" THEN Empty
                   ELSE [kind |-> "data", lb |-> l, val |-> acked[l]]

(* Whenever a request can be made, reading a logical block returns what was
   last written to it or, after an erase, nothing: across remapping, table
   updates, rescues, power cuts and attaches (nmbm_read_logic_page).  A chip
   that lost its last table holds nothing any more: without NMBM_F_CREATE it
   is never attached again, with it an attach gives it a new mapping.       *)
AckedReadable ==
  pc = "idle" /\ ~protected /\ ~stepped /\ ~renewed =>
    \A l \in LBs : Settled(l) => Holds(l, ReadResult(l))

(* What a read of logical block l returns after a power cut now and an attach,
   before any rescue: its content, or "lost".                                *)
RecoversTo(l, c) ==
  \E sig \in {Highest(SigBlocks)} :
  \E first \in {IF sig = None THEN None ELSE FirstTable(sig)} :
    IF first = None THEN c = "lost"
    ELSE \E second \in {SecondTable(first, sig)} :
         \E d \in {Load(first, second, sig)} :
           c = IF l >= d.count \/ d.mp[l] = Unmapped THEN "lost"
               ELSE IF d.st[d.mp[l]] = "bad" THEN "lost"
               ELSE CASE cells[d.mp[l]].kind = "empty" -> "empty"
                      [] cells[d.mp[l]].kind = "data"
                         /\ cells[d.mp[l]].lb = l -> cells[d.mp[l]].val
                      [] OTHER -> "lost"
Outcomes == Values \cup {"empty", "lost"}

(* At every point of every procedure, what was acknowledged is already on the
   chip: a power cut now loses nothing, because one of the two tables is
   always complete and at least as new as the last acknowledged request
   (nmbm_update_info_table_once writes one table at a time,
   nmbm_erase_logic_block updates the tables before it erases the new block).*)
Durable == \A l \in LBs : Settled(l) => RecoversTo(l, acked[l])

Tables == {b \in Blocks \ badmark : cells[b].kind = "table"}

(* As long as one table is left on the chip nothing is lost, however worn the
   chip is and whichever procedure is under way, unless the mapping itself went
   wrong: two logical blocks mapped to one block (see MapsUnused), or a mapping
   made anew by NMBM_F_CREATE over data whose tables were gone.              *)
DurableWithTable == ~stepped /\ ~renewed /\ Tables # {} => Durable

(* On a chip so worn that Durable cannot hold, what was acknowledged is lost in
   one way only: the last table on the chip is erased to be written again in
   place (nmbm_update_info_table_once without a backup table), or the device
   has announced that it could not save its tables (nmbm_rebuild_info_table), or
   two logical blocks were mapped to one block (see MapsUnused).              *)
LostOnlyWithLastTable ==
  [][Durable /\ ~Durable' => protected \/ stepped \/ Cardinality(Tables) = 1]_vars

(* After an attach no table of the management area is newer than the state in
   memory: the rescues leave no stale table that a later attach would prefer,
   and an attach prefers the newer of two (nmbm_load_info_table).           *)
NewestLoaded ==
  pc = "idle" /\ ~stepped => \A b \in Tables : cells[b].wc <= cache.wc

(* Two logical blocks never share a physical block, as long as nmbm_map_block
   found the block at mapping_blocks_top_ba good.                           *)
MappedOnce ==
  ~stepped => \A k, l \in LBs : mp[k] = mp[l] /\ mp[k] # Unmapped => k = l

-----------------------------------------------------------------------------
(* Why TablesInArea holds: an inductive invariant (see NmbmProofs).         *)

\* attach has found or chosen the places of the tables
Laid == pc \notin {"off", "sig", "sig_prog", "create"}
InArea(b) == MgmtStart <= b /\ b < sigBa
\* a write or erase in progress, or just over, on behalf of place p
Going(p) == pc = p \/ (pc \in {"write", "erase", "prog"} /\ rg.ret = p)

LocalsOk ==
  /\ pc = "prog" => rg.ba < rg.lim
  /\ pc = "sig_prog" => rg.ba \in Blocks \ {None}
  /\ pc = "p_try" => op.lb \in LBs /\ op.val \in Values

\* every place remembered in struct nmbm_instance is in the area
PlacesInArea ==
  /\ Laid => /\ InArea(topBa) /\ InArea(mapBa)
             /\ mainBa # None => InArea(mainBa)
             /\ backupBa # None => InArea(backupBa)
  /\ got # None => Laid /\ MgmtStart <= got /\ got + 1 < sigBa

\* and so is every range written or erased
RangeInArea ==
  /\ pc \in {"write", "erase", "prog"} => MgmtStart <= rg.ba
  /\ pc \in {"write", "erase", "prog", "rm_main"} => rg.lim < sigBa
  /\ Going("rm_main") => MgmtStart <= rg.lim

(* The main table is forgotten only while it is being rebuilt and after a
   failed rebuild, which leaves the device protected and its tables alone.  *)
TablesKnown ==
  /\ Laid /\ mainBa = None =>
       \/ Going("rb_main")
       \/ protected /\ pc \in UpdateReturns \cup {"update", "e_map", "p_try"}
  /\ \A p \in {"up_backup", "rm_tmp", "us_main", "us_backup"} :
       Going(p) => backupBa # None
  /\ Going("rs_erased") => got # None /\ pc \notin {"write", "prog"}

IInv == TypeOK /\ LocalsOk /\ PlacesInArea /\ RangeInArea /\ TablesKnown

-----------------------------------------------------------------------------
(* What the comments of the source say and the code does not do. *)

(* "Map a bad block to a unused spare block" (nmbm_map_block): the spare block
   is one no logical block is mapped to.                                    *)
MapsUnused == \A k, l \in LBs : mp[k] = mp[l] /\ mp[k] # Unmapped => k = l

(* "try to update info table repeatedly until no new bad block found during
   updating" (nmbm_update_info_table): when it returns with nothing left to
   save, some table on the chip holds the block states of the memory.       *)
UpdateSavesAll ==
  pc = "update" /\ ~changed /\ ~protected => \E b \in Tables : cells[b].st = st

(* "Mark logic block unusable, and update info table" (nmbm_erase_logic_block):
   a logical block reported bad stays bad over a restart.                   *)
BadStaysBad ==
  pc = "idle" => \A l \in LBs :
    acked[l] = "bad" => l >= dataCount \/ mp[l] = Unmapped \/ st[mp[l]] = "bad"

(* "Device is now read-only" (nmbm_load_info_table): it can still be read.  *)
ReadOnlyIsReadable ==
  pc = "idle" /\ protected => \A l \in LBs : Settled(l) => ReadResult(l) # Refused("rofs")

-----------------------------------------------------------------------------
(* Progress.  The kernel runs the code of a request to its end unless the
   power is cut: weak fairness of the code's own steps.                     *)
FairSpec == Spec /\ WF_vars(Run)

(* Every attach, detach and request ends: the loops that retry with the next
   lower block or the next spare block terminate (the goto retry of
   nmbm_erase_logic_block, the write_ba loops of the rescues, the loop of
   nmbm_update_info_table).                                                 *)
Answered == pc \notin {"idle", "off"} ~> pc \in {"idle", "off"}

=============================================================================
