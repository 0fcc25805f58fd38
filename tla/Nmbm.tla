-------------------------------- MODULE Nmbm --------------------------------
(***************************************************************************)
(* NMBM, the NAND-flash mapped-block management layer of the MediaTek      *)
(* kernel (drivers/mtd/nmbm/nmbm-core.c).  NMBM hides bad blocks: logical  *)
(* blocks are mapped to good physical blocks, and the mapping is kept in   *)
(* two copies of an "info table" written to a management area at the end   *)
(* of the chip:                                                            *)
(*                                                                         *)
(*   0 .. MgmtStart-1   data area                                          *)
(*   MgmtStart ..       main table, spare blocks, backup table             *)
(*   .. topBa           unmapped spare blocks (above mapBa)                *)
(*   topBa+1 ..         spare blocks that replace bad data blocks          *)
(*   sigBa              signature block                                    *)
(*                                                                         *)
(* One action is the code from one flash operation (erase or program of a  *)
(* block) up to the next: between two flash operations only memory         *)
(* changes, which a power cut loses anyway.  pc names the place in the     *)
(* code; nmbm_write_mgmt_range and nmbm_erase_range are one loop shared by *)
(* all their callers, which say in rg.ret where to go on.                  *)
(*                                                                         *)
(* Simplifications: an info table fills one block (size2blk = 1, true for  *)
(* every chip of less than 32768 blocks of 128 KiB); the pages of a data   *)
(* block are one cell; marking a block bad in its spare area succeeds.     *)
(***************************************************************************)
EXTENDS Integers, FiniteSets

CONSTANTS
  NB,          \* block_count
  MgmtStart,   \* mgmt_start_ba: the first management block
  Spare,       \* info_table_spare_blocks: gap kept behind the main table
  Values,      \* contents a user may write to a logical block
  FactoryBad,  \* the sets of blocks that may be marked bad at the factory
  WearBlocks,  \* the blocks whose erase or program may fail
  MaxFaults,   \* bound on failing erases and programs
  MaxCrashes,  \* bound on power cuts
  MaxWc,       \* bound on the write count of a table at a detach
  Create       \* NMBM_F_CREATE: build the tables when none is found

Blocks == 0 .. NB - 1
LBs    == 0 .. MgmtStart - 1

ASSUME ChipAssumption ==
  /\ NB \in Nat /\ MgmtStart \in Nat /\ Spare \in Nat
  /\ 0 < MgmtStart /\ MgmtStart < NB
  /\ FactoryBad \subseteq SUBSET Blocks
  /\ WearBlocks \subseteq Blocks
  /\ MaxFaults \in Nat /\ MaxCrashes \in Nat /\ MaxWc \in Nat
  /\ Create \in BOOLEAN
  /\ Values \cap {"empty", "unknown", "bad", "lost"} = {}  \* see acked

None == 0            \* no block: block 0 is never a management block
Unmapped == -1       \* block_mapping of an unusable logical block
States == {"good", "bad", "remap"}  \* BLOCK_ST_GOOD, _BAD, _NEED_REMAP

(* The content of a physical block.  A torn block has an uncorrectable ECC
   error; a block cut short in any other way reads as no table, like an
   empty one.                                                              *)
Empty == [kind |-> "empty"]
Torn  == [kind |-> "torn"]
Sig   == [kind |-> "sig"]
DataCell == [kind : {"data"}, lb : LBs, val : Values]
InfoTable == [kind : {"table"}, wc : Nat, st : [Blocks -> States],
              mp : [LBs -> Blocks \cup {Unmapped}]]
Cell == {Empty, Torn, Sig} \cup DataCell \cup InfoTable

VARIABLES
  \* the chip
  cells,      \* content of each physical block
  badmark,    \* physical blocks carrying a bad block mark
  \* struct nmbm_instance
  st,         \* block_state
  mp,         \* block_mapping
  changed,    \* block_state_changed or block_mapping_changed is not 0
  cache,      \* info_table_cache; cache.wc is also info_table.write_count
  mainBa,     \* main_table_ba
  backupBa,   \* backup_table_ba
  mapBa,      \* mapping_blocks_ba
  topBa,      \* mapping_blocks_top_ba
  dataCount,  \* data_block_count
  sigBa,      \* signature_ba
  protected,  \* protected
  \* where the code is
  pc,         \* place of the next flash operation
  rg,         \* the range loop: next block, limit, where to return to
  got,        \* block the last table was written to, None if it failed
  wba,        \* write_ba of the rescue procedures
  uret,       \* where nmbm_update_info_table returns to
  op,         \* the logical block and value of the user's request
  \* history and bounds
  acked,      \* what the user was last told about each logical block
  stepped,    \* nmbm_map_block passed over a bad spare block
  renewed,    \* an attach found no table and mapped the chip anew
  faults,     \* erases and programs that failed
  crashes     \* power cuts

chip    == <<cells, badmark>>
layout  == <<mainBa, backupBa, mapBa, topBa>>
table   == <<st, mp, changed>>
attachV == <<dataCount, sigBa, protected>>
ctl     == <<rg, got, wba, uret, op>>
ghost   == <<acked, stepped, renewed>>
bounds  == <<faults, crashes>>
vars == <<chip, layout, table, cache, attachV, pc, ctl, ghost, bounds>>

-----------------------------------------------------------------------------
(* The block walks: nmbm_block_walk_asc, _desc and nmbm_try_reserve_blocks. *)

GoodIn(s, lo, hi) == {b \in lo .. hi : b \in Blocks /\ s[b] = "good"}

\* the lowest, the highest block of S and the one above n others, None when
\* S has no such block
Pick(S, P(_)) == IF \E b \in S : P(b) THEN CHOOSE b \in S : P(b) ELSE None
Lowest(S)  == Pick(S, LAMBDA b : \A c \in S : b <= c)
Highest(S) == Pick(S, LAMBDA b : \A c \in S : c <= b)
Nth(S, n)  == Pick(S, LAMBDA b : Cardinality({c \in S : c < b}) = n)

\* nmbm_block_walk_desc with count 0 and 1: limit itself is not walked
WalkDesc(s, ba, limit) == Highest(GoodIn(s, limit + 1, ba))
WalkDescOne(s, ba, limit) ==
  LET b == WalkDesc(s, ba, limit) IN
  IF b = None THEN None ELSE WalkDesc(s, b - 1, limit)

\* nmbm_try_reserve_blocks(ba, Spare, min 0, limit): leave as many good
\* blocks free from ba on as there are, up to Spare
TryReserve(s, ba, limit) ==
  LET G == GoodIn(s, ba, limit - 1)
      n == Cardinality(G)
  IN  Nth(G, IF Spare < n THEN Spare ELSE n - 1)

\* the block the loops over [ba, limit) come to next, None when it ends
NextGood(s, ba, limit) == Lowest(GoodIn(s, ba, limit - 1))

AllGood == [b \in Blocks |-> "good"]
Scan(s) == [b \in Blocks |-> IF b \in badmark THEN "bad" ELSE s[b]]

\* nmbm_build_mapping_table: the n-th logical block is the n-th good block
GoodData(s) == {b \in LBs : s[b] # "bad"}
BuildMapping(s) ==
  [l \in LBs |-> IF l < Cardinality(GoodData(s)) THEN Nth(GoodData(s), l)
                                                 ELSE Unmapped]

Table(wc, s, m) == [kind |-> "table", wc |-> wc, st |-> s, mp |-> m]
\* MISTAKE: the write count is not raised
GenerateUncounted(wc, s, m, ch) == Table(wc, s, m)
\* nmbm_generate_info_table_cache
Generate(wc, s, m, ch) == Table(IF ch THEN wc + 1 ELSE wc, s, m)

-----------------------------------------------------------------------------
(* Control. *)

NoRange == [ba |-> None, lim |-> None, ret |-> "idle"]
NoOp    == [lb |-> Unmapped, val |-> "none"]
NoTable == Table(0, AllGood, [l \in LBs |-> Unmapped])

\* the locals of the calls are gone
ResetCtl == /\ rg' = NoRange /\ got' = None /\ wba' = None
            /\ uret' = "idle" /\ op' = NoOp
\* the request is answered
Return == pc' = "idle" /\ ResetCtl

\* the instance is freed: power cut, detach, or an attach that failed
Forget ==
  /\ pc' = "off" /\ ResetCtl
  /\ st' = AllGood /\ mp' = NoTable.mp /\ changed' = FALSE /\ cache' = NoTable
  /\ mainBa' = None /\ backupBa' = None /\ mapBa' = None /\ topBa' = None
  /\ dataCount' = 0 /\ sigBa' = None /\ protected' = FALSE

\* MISTAKE: not limited by mapping_blocks_top_ba
WriteRangeToSig(ba, lim, ret) ==
  pc' = "write" /\ rg' = [ba |-> ba, lim |-> sigBa, ret |-> ret]
\* MISTAKE: the limit is taken for the last block
WriteRangeUpTo(ba, lim, ret) ==
  pc' = "write" /\ rg' = [ba |-> ba, lim |-> sigBa + 1, ret |-> ret]
\* nmbm_write_info_table / nmbm_write_mgmt_range over [ba, lim)
WriteRange(ba, lim, ret) ==
  pc' = "write" /\ rg' = [ba |-> ba, lim |-> lim, ret |-> ret]
\* nmbm_erase_range over [ba, lim)
EraseRange(ba, lim, ret) ==
  pc' = "erase" /\ rg' = [ba |-> ba, lim |-> lim, ret |-> ret]
\* MISTAKE: write_ba is not decremented
RetrySame(ret) == wba' = wba /\ WriteRange(wba, topBa, ret)
\* a rescue that failed at write_ba tries again one block lower
RetryBelow(ret) == wba' = wba - 1 /\ WriteRange(wba - 1, topBa, ret)
\* nmbm_update_info_table
Update(ret) == pc' = "update" /\ uret' = ret
UpdateReturn == IF uret = "idle" THEN Return ELSE pc' = uret /\ UNCHANGED ctl

\* MISTAKE: block_mapping is not copied
RegenerateStates == cache' = Generate(cache.wc, st, cache.mp, changed)
Regenerate == cache' = Generate(cache.wc, st, mp, changed)

MayFail(b) == b \in WearBlocks /\ faults < MaxFaults

\* nmbm_mark_phys_bad_block and nmbm_set_block_state(BLOCK_ST_BAD) on a block
\* that failed
Fails(b) ==
  /\ MayFail(b) /\ faults' = faults + 1
  /\ cells' = [cells EXCEPT ![b] = Torn]
  /\ badmark' = badmark \cup {b}
  /\ st' = [st EXCEPT ![b] = "bad"] /\ changed' = TRUE

-----------------------------------------------------------------------------
(* nmbm_write_mgmt_range and nmbm_erase_range. *)

RangeLoop == pc \in {"write", "erase"}
Here == NextGood(st, rg.ba, rg.lim)

\* a good block that turns out to carry a bad mark: skip it
RangeSkip ==
  /\ RangeLoop /\ Here # None /\ Here \in badmark
  /\ st' = [st EXCEPT ![Here] = "bad"] /\ changed' = TRUE
  /\ rg' = [rg EXCEPT !.ba = Here + 1]
  /\ UNCHANGED <<chip, layout, mp, cache, attachV, pc, got, wba, uret, op,
                 ghost, bounds>>

\* nmbm_erase_block_and_check succeeds
RangeErase ==
  /\ RangeLoop /\ Here # None /\ Here \notin badmark
  /\ cells' = [cells EXCEPT ![Here] = Empty]
  /\ rg' = [rg EXCEPT !.ba = IF pc = "write" THEN Here ELSE Here + 1]
  /\ pc' = IF pc = "write" THEN "prog" ELSE "erase"
  /\ UNCHANGED <<badmark, layout, table, cache, attachV, got, wba, uret, op,
                 ghost, bounds>>

RangeEraseFails ==
  /\ RangeLoop /\ Here # None /\ Here \notin badmark
  /\ Fails(Here)
  /\ rg' = [rg EXCEPT !.ba = Here + 1]
  /\ UNCHANGED <<layout, mp, cache, attachV, pc, got, wba, uret, op, ghost,
                 crashes>>

\* the limit is reached: a write has failed, an erase is done
RangeEnd ==
  /\ RangeLoop /\ Here = None
  /\ pc' = rg.ret
  /\ got' = IF pc = "write" THEN None ELSE got
  /\ UNCHANGED <<chip, layout, table, cache, attachV, rg, wba, uret, op, ghost,
                 bounds>>

\* nmbn_write_verify_data: the table is on the chip
Program ==
  /\ pc = "prog"
  /\ cells' = [cells EXCEPT ![rg.ba] = cache]
  /\ got' = rg.ba /\ pc' = rg.ret
  /\ UNCHANGED <<badmark, layout, table, cache, attachV, rg, wba, uret, op,
                 ghost, bounds>>

ProgramFails ==
  /\ pc = "prog"
  /\ Fails(rg.ba)
  /\ rg' = [rg EXCEPT !.ba = rg.ba + 1]
  /\ pc' = "write"
  /\ UNCHANGED <<layout, mp, cache, attachV, got, wba, uret, op, ghost, crashes>>

-----------------------------------------------------------------------------
(* nmbm_rebuild_info_table: both tables from scratch. *)

StartRebuild ==
  /\ mainBa' = None /\ backupBa' = None /\ mapBa' = topBa'
  /\ WriteRange(MgmtStart, topBa', "rb_main")

\* who called: nmbm_create_info_table, or nmbm_update_info_table_once
RebuildReturn == pc' = IF uret = "creating" THEN "c_map" ELSE "update"

GiveUp == protected' = TRUE /\ UpdateReturn

\* "Unable to write at least one info table": protected for good.  A failure
\* seen by nmbm_create_info_table fails the attach; other callers ignore it.
RebuildMainFails ==
  /\ pc = "rb_main" /\ got = None
  /\ IF uret \in {"creating", "c_end"}
     THEN Forget
     ELSE /\ GiveUp
          /\ UNCHANGED <<layout, table, cache, dataCount, sigBa>>
  /\ UNCHANGED <<chip, ghost, bounds>>

RebuildMain ==
  /\ pc = "rb_main" /\ got # None
  /\ mainBa' = got /\ mapBa' = got + 1 /\ changed' = FALSE
  /\ LET w == TryReserve(st, got + 1, topBa - 1) IN
     IF w = None THEN RebuildReturn /\ UNCHANGED rg
                 ELSE WriteRange(w, topBa, "rb_backup")
  /\ UNCHANGED <<chip, backupBa, topBa, st, mp, cache, attachV, got, wba, uret,
                 op, ghost, bounds>>

RebuildBackup ==
  /\ pc = "rb_backup"
  /\ IF got = None
     THEN RebuildReturn /\ UNCHANGED <<backupBa, mapBa, rg>>
     ELSE /\ backupBa' = got /\ mapBa' = got + 1
          /\ EraseRange(mainBa + 1, got, "rb_erased")
  /\ UNCHANGED <<chip, mainBa, topBa, table, cache, attachV, got, wba, uret, op,
                 ghost, bounds>>

RebuildErased ==
  /\ pc = "rb_erased" /\ RebuildReturn
  /\ UNCHANGED <<chip, layout, table, cache, attachV, ctl, ghost, bounds>>

-----------------------------------------------------------------------------
(* nmbm_update_info_table and nmbm_update_info_table_once: as long as        *)
(* something is unsaved, write the backup table, then the main table.  The    *)
(* test for a main table (write_main_table) never fails: see TablesKnown.    *)

UpdateDone ==
  /\ pc = "update" /\ (protected \/ ~changed)
  /\ UpdateReturn
  /\ UNCHANGED <<chip, layout, table, cache, attachV, ghost, bounds>>

UpdateOnce ==
  /\ pc = "update" /\ ~protected /\ changed
  /\ Regenerate
  /\ CASE backupBa # None -> WriteRange(backupBa, topBa, "up_backup")
                             /\ UNCHANGED layout
       [] backupBa = None /\ mainBa # None ->
            WriteRange(mainBa, topBa, "up_main") /\ UNCHANGED layout
       [] OTHER -> topBa' = topBa /\ StartRebuild
  /\ UNCHANGED <<chip, table, attachV, got, wba, uret, op, ghost, bounds>>

UpdateBackup ==
  /\ pc = "up_backup"
  /\ changed' = (got = None /\ changed)
  /\ CASE mainBa = None -> StartRebuild
       [] mainBa # None /\ got = None ->
            /\ backupBa' = None /\ mapBa' = backupBa /\ mainBa' = mainBa
            /\ WriteRange(mainBa, topBa, "up_main")
       [] OTHER -> /\ backupBa' = got /\ mapBa' = got + 1 /\ mainBa' = mainBa
                   /\ WriteRange(mainBa, got, "up_main")
  /\ topBa' = topBa
  /\ UNCHANGED <<chip, st, mp, cache, attachV, got, wba, uret, op, ghost, bounds>>

UpdateMain ==
  /\ pc = "up_main" /\ got # None
  /\ mainBa' = got /\ changed' = FALSE /\ pc' = "update"
  /\ mapBa' = IF backupBa = None THEN got + 1 ELSE mapBa
  /\ UNCHANGED <<chip, backupBa, topBa, st, mp, cache, attachV, ctl, ghost,
                 bounds>>

UpdateMainRebuilds ==
  /\ pc = "up_main" /\ got = None /\ backupBa = None
  /\ topBa' = topBa /\ StartRebuild
  /\ UNCHANGED <<chip, table, cache, attachV, got, wba, uret, op, ghost, bounds>>

-----------------------------------------------------------------------------
(* nmbm_rescue_main_info_table: the backup is written, the main table        *)
(* cannot be.  Put a temporary table behind the backup, then look for a      *)
(* place for the main table anywhere in front of it, the backup included.    *)

BackupBecomesMain ==
  /\ mainBa' = backupBa /\ backupBa' = None /\ pc' = "update"
  /\ UNCHANGED rg

RescueMain ==
  /\ pc = "up_main" /\ got = None /\ backupBa # None
  /\ LET w == TryReserve(st, mapBa, topBa - 1) IN
     IF w = None
     THEN BackupBecomesMain /\ UNCHANGED wba
     ELSE /\ wba' = w /\ WriteRange(w, topBa, "rm_tmp")
          /\ UNCHANGED <<mainBa, backupBa>>
  /\ UNCHANGED <<chip, mapBa, topBa, table, cache, attachV, got, uret, op, ghost,
                 bounds>>

\* the temporary table's loop: one block lower after each failure
RescueMainTmp ==
  /\ pc = "rm_tmp"
  /\ IF got # None
     THEN /\ mapBa' = got + 1
          /\ WriteRange(MgmtStart, got, "rm_main")
          /\ UNCHANGED <<mainBa, backupBa, wba>>
     ELSE /\ UNCHANGED mapBa
          /\ IF wba > mapBa
             THEN RetryBelow("rm_tmp") /\ UNCHANGED <<mainBa, backupBa>>
             ELSE BackupBecomesMain /\ UNCHANGED wba
  /\ UNCHANGED <<chip, topBa, table, cache, attachV, got, uret, op, ghost,
                 bounds>>

\* rg.lim is tmp_table_start_ba.  The table written below it always ends at or
\* before it, so the code that follows that test in the source never runs.
RescueMainDone ==
  /\ pc = "rm_main"
  /\ IF got = None THEN mainBa' = rg.lim /\ backupBa' = None
                   ELSE mainBa' = got /\ backupBa' = rg.lim
  /\ changed' = FALSE /\ pc' = "update"
  /\ UNCHANGED <<chip, mapBa, topBa, st, mp, cache, attachV, ctl, ghost, bounds>>

-----------------------------------------------------------------------------
(* Attach: nmbm_rescue_single_info_table and nmbm_update_single_info_table.  *)

RescueFront ==
  /\ pc = "rs_front" /\ got # None
  /\ backupBa' = mainBa /\ mainBa' = got /\ changed' = FALSE
  /\ EraseRange(got + 1, mainBa, "ld_ok")
  /\ UNCHANGED <<chip, mapBa, topBa, st, mp, cache, attachV, got, wba, uret, op,
                 ghost, bounds>>

RescueNext ==
  /\ pc = "rs_front" /\ got = None
  /\ LET w == TryReserve(st, mapBa, topBa - 1) IN
     IF w = None THEN pc' = "ld_fail" /\ UNCHANGED <<wba, rg>>
                 ELSE wba' = w /\ WriteRange(w, topBa, "rs_next")
  /\ UNCHANGED <<chip, layout, table, cache, attachV, got, uret, op, ghost,
                 bounds>>

RescueNextLoop ==
  /\ pc = "rs_next"
  /\ IF got # None
     THEN EraseRange(mapBa, got, "rs_erased") /\ UNCHANGED wba
     ELSE IF wba > mapBa
          THEN RetryBelow("rs_next")
          ELSE pc' = "ld_fail" /\ UNCHANGED <<wba, rg>>
  /\ UNCHANGED <<chip, layout, table, cache, attachV, got, uret, op, ghost,
                 bounds>>

RescueNextDone ==
  /\ pc = "rs_erased"
  /\ backupBa' = got /\ mapBa' = got + 1 /\ changed' = FALSE /\ pc' = "ld_ok"
  /\ UNCHANGED <<chip, mainBa, topBa, st, mp, cache, attachV, ctl, ghost, bounds>>

UpdateSingle ==
  /\ pc \in {"us_main", "us_backup"} /\ got # None
  /\ IF pc = "us_main" THEN mainBa' = got /\ UNCHANGED <<backupBa, mapBa>>
     ELSE backupBa' = got /\ mapBa' = got + 1 /\ UNCHANGED mainBa
  /\ changed' = FALSE /\ pc' = "ld_ok"
  /\ UNCHANGED <<chip, topBa, st, mp, cache, attachV, ctl, ghost, bounds>>

UpdateSingleFails ==
  /\ pc \in {"us_main", "us_backup"} /\ got = None
  /\ IF pc = "us_main"
     THEN /\ mainBa' = backupBa /\ UNCHANGED mapBa
          /\ WriteRange(MgmtStart, backupBa, "rs_front")
     ELSE /\ mapBa' = backupBa /\ UNCHANGED <<mainBa, rg>>
          /\ pc' = "ld_fail"
  /\ backupBa' = None
  /\ UNCHANGED <<chip, topBa, table, cache, attachV, got, wba, uret, op, ghost,
                 bounds>>

\* the end of nmbm_load_info_table
LoadDone ==
  /\ pc \in {"ld_ok", "ld_fail"}
  /\ protected' = (mapBa = topBa \/ pc = "ld_fail")
  /\ Return
  /\ UNCHANGED <<chip, layout, table, cache, dataCount, sigBa, ghost, bounds>>

-----------------------------------------------------------------------------
(* nmbm_map_block, called by nmbm_erase_logic_block ("e_map") for the block  *)
(* being erased and by nmbm_create_info_table ("c_map") for each logical     *)
(* block that the data area had no good block for.                           *)

SpareBlock == WalkDesc(st, topBa, mapBa)
CanMap == mapBa # topBa /\ SpareBlock # None
Lb == IF pc = "c_map" THEN dataCount ELSE op.lb
\* MISTAKE: one block too far
BlocksLeftOrOne == dataCount <= MgmtStart
\* nmbm_create_info_table still has logical blocks to map
BlocksLeft == dataCount < MgmtStart

\* MISTAKE: erased before the mapping is saved
MapReturnUnsaved ==
  IF pc = "c_map" THEN dataCount' = dataCount + 1 /\ UNCHANGED <<pc, uret>>
                  ELSE pc' = "e_try" /\ UNCHANGED <<uret, dataCount>>
\* back in the caller: the next logical block, or the tables are saved before
\* the new physical block is erased
MapReturn ==
  IF pc = "c_map" THEN dataCount' = dataCount + 1 /\ UNCHANGED <<pc, uret>>
                  ELSE Update("e_try") /\ UNCHANGED dataCount

MapBlock ==
  /\ pc = "e_map" \/ (pc = "c_map" /\ BlocksLeft)
  /\ CanMap
  /\ mp' = [mp EXCEPT ![Lb] = SpareBlock]
  /\ topBa' = topBa - 1
  /\ changed' = TRUE
  /\ stepped' = (stepped \/ SpareBlock # topBa)
  /\ MapReturn
  /\ UNCHANGED <<chip, mainBa, backupBa, mapBa, st, cache, sigBa, protected, rg,
                 got, wba, op, acked, renewed, bounds>>

\* no good block between mapBa and topBa: the tables are updated, then the
\* spare area is closed
MapBlockNone ==
  /\ pc = "e_map" \/ (pc = "c_map" /\ BlocksLeft)
  /\ mapBa # topBa /\ SpareBlock = None
  /\ Update(IF pc = "c_map" THEN "c_close" ELSE "e_close")
  /\ UNCHANGED <<chip, layout, table, cache, attachV, rg, got, wba, op, ghost,
                 bounds>>

\* mapping failed: the logical block becomes unusable, its old physical block
\* is bad or NEED_REMAP already
EraseUnmaps ==
  /\ pc = "e_close" \/ (pc = "e_map" /\ mapBa = topBa)
  /\ topBa' = mapBa
  /\ mp' = [mp EXCEPT ![op.lb] = Unmapped]
  /\ Update("bad")
  /\ UNCHANGED <<chip, mainBa, backupBa, mapBa, st, changed, cache, attachV, rg,
                 got, wba, op, ghost, bounds>>

\* the loop of nmbm_create_info_table ends: last update of the tables
CreateEnd ==
  /\ \/ pc = "c_close"
     \/ pc = "c_map" /\ (~BlocksLeft \/ mapBa = topBa)
  /\ topBa' = IF pc = "c_close" THEN mapBa ELSE topBa
  /\ Update("c_end")
  /\ UNCHANGED <<chip, mainBa, backupBa, mapBa, table, cache, attachV, rg, got,
                 wba, op, ghost, bounds>>

CreateDone ==
  /\ pc = "c_end" /\ Return
  /\ UNCHANGED <<chip, layout, table, cache, attachV, ghost, bounds>>

-----------------------------------------------------------------------------
(* nmbm_attach. *)

SigBlocks == {b \in Blocks \ badmark : cells[b].kind = "sig"}

\* nmbm_create_new, up to the search of a place for the signature
AttachNew ==
  /\ pc = "off" /\ SigBlocks = {}
  /\ st' = Scan(AllGood) /\ mp' = BuildMapping(st')
  /\ changed' = (badmark # {})
  /\ dataCount' = Cardinality(GoodData(st'))
  /\ cache' = NoTable
  /\ pc' = "sig" /\ rg' = [NoRange EXCEPT !.ba = NB - 1]
  /\ UNCHANGED <<chip, layout, sigBa, protected, got, wba, uret, op, ghost,
                 bounds>>

\* nmbm_write_signature: from the last block down
SigHere == WalkDesc(st, rg.ba, MgmtStart)

SigErase ==
  /\ pc = "sig" /\ SigHere # None
  /\ cells' = [cells EXCEPT ![SigHere] = Empty]
  /\ rg' = [rg EXCEPT !.ba = SigHere] /\ pc' = "sig_prog"
  /\ UNCHANGED <<badmark, layout, table, cache, attachV, got, wba, uret, op,
                 ghost, bounds>>

SigProgram ==
  /\ pc = "sig_prog"
  /\ cells' = [cells EXCEPT ![rg.ba] = Sig]
  /\ sigBa' = rg.ba /\ pc' = "create"
  /\ UNCHANGED <<badmark, layout, table, cache, dataCount, protected, ctl, ghost,
                 bounds>>

SigFails ==
  /\ \/ pc = "sig" /\ SigHere # None /\ Fails(SigHere)
        /\ rg' = [rg EXCEPT !.ba = SigHere - 1]
     \/ pc = "sig_prog" /\ Fails(rg.ba) /\ rg' = [rg EXCEPT !.ba = rg.ba - 1]
  /\ pc' = "sig"
  /\ UNCHANGED <<layout, mp, cache, attachV, got, wba, uret, op, ghost, crashes>>

\* nmbm_create_info_table, up to the rebuild of both tables
CreateTables ==
  /\ pc = "create" /\ WalkDescOne(st, sigBa, MgmtStart) # None
  /\ topBa' = WalkDescOne(st, sigBa, MgmtStart)
  /\ Regenerate
  /\ uret' = "creating" /\ StartRebuild
  /\ UNCHANGED <<chip, table, attachV, got, wba, op, ghost, bounds>>

\* no room for a signature or for tables: -ENODEV
CreateFails ==
  /\ \/ pc = "sig" /\ SigHere = None
     \/ pc = "create" /\ WalkDescOne(st, sigBa, MgmtStart) = None
  /\ Forget
  /\ UNCHANGED <<chip, ghost, bounds>>

\* nmbm_check_info_table on a table found in block c
CheckTable(t, c, s, sig) ==
  /\ \A l \in LBs : t.mp[l] # sig /\ t.mp[l] \notin MgmtStart .. c
  /\ s[c] = "good" => t.st[c] = "good"

\* nmbm_search_info_table over [start, sig - 1): the first block from which
\* nmbm_try_load_info_table loads a table, with block states s
Loads(c, s, sig) ==
  /\ s[c] = "good" /\ c \notin badmark /\ cells[c].kind = "table"
  /\ CheckTable(cells[c], c, s, sig)
SearchTable(start, s, sig) ==
  Lowest({c \in start .. sig - 2 : Loads(c, s, sig)})

\* what the search marks bad in memory on the way: ECC errors and bad marks
Passed(start, found, s, sig) ==
  {b \in start .. (IF found = None THEN sig - 2 ELSE found - 1) :
     s[b] = "good" /\ (b \in badmark \/ cells[b].kind = "torn")}
MarkBad(s, B) == [b \in Blocks |-> IF b \in B THEN "bad" ELSE s[b]]

\* MISTAKE: the lowest spare block in use is counted in
TopOfInUse(t, c, sig) ==
  Lowest({sig} \cup {t.mp[l] : l \in {k \in LBs : t.mp[k] > c}})
\* MISTAKE: the spare blocks in use are forgotten
TopOfSig(t, c, sig) == sig - 1
\* the unmapped area of a table ends below the lowest spare block in use
TopOf(t, c, sig) ==
  Lowest({sig} \cup {t.mp[l] : l \in {k \in LBs : t.mp[k] > c}}) - 1

FirstTable(sig) == SearchTable(MgmtStart, AllGood, sig)
\* MISTAKE: the search finds the first table again
SecondTableSame(first, sig) ==
  IF first = None THEN None ELSE SearchTable(first, cells[first].st, sig)
SecondTable(first, sig) ==
  IF first = None THEN None ELSE SearchTable(first + 1, cells[first].st, sig)
PassedFirst(first, sig) == Passed(MgmtStart, first, AllGood, sig)

(* What nmbm_load_info_table makes of the tables found in blocks first and
   second: states and mapping come from the newer one, the first on a tie.   *)
Load(first, second, sig) ==
  LET one     == cells[first]
      newer   == second # None /\ cells[second].wc > one.wc
      between == Passed(first + 1, second, one.st, sig)
      best    == IF newer THEN cells[second] ELSE one
      mapped  == {l \in LBs : best.mp[l] # Unmapped}
  IN  [st    |-> IF newer THEN best.st ELSE MarkBad(one.st, between),
       mp    |-> best.mp,
       wc    |-> best.wc,
       newer |-> newer,
       uneven |-> second # None /\ cells[second].wc # one.wc,
       dirty |-> PassedFirst(first, sig) # {} \/ between # {},
       end   |-> (IF second = None THEN first ELSE second) + 1,
       top   |-> TopOf(best, IF newer THEN second ELSE first, sig),
       count |-> IF mapped = {} THEN MgmtStart ELSE Highest(mapped) + 1]

\* nmbm_load_existing when a table is found
AttachLoad ==
  /\ pc = "off" /\ SigBlocks # {}
  /\ LET sig    == Highest(SigBlocks)
         first  == FirstTable(sig)
         second == SecondTable(first, sig)
         d      == Load(first, second, sig)
     IN  /\ first # None
         /\ sigBa' = sig /\ dataCount' = d.count
         /\ st' = d.st /\ mp' = d.mp
         /\ changed' = (d.dirty \/ d.uneven)
         /\ cache' = Generate(d.wc, d.st, d.mp, d.dirty)
         /\ mainBa' = first /\ backupBa' = second
         /\ mapBa' = d.end /\ topBa' = d.top
         /\ CASE second = None -> WriteRange(MgmtStart, first, "rs_front")
              [] d.uneven /\ d.newer -> WriteRange(first, second, "us_main")
              [] d.uneven /\ ~d.newer -> WriteRange(second, d.top, "us_backup")
              [] OTHER -> pc' = "ld_ok" /\ UNCHANGED rg
  /\ UNCHANGED <<chip, protected, got, wba, uret, op, ghost, bounds>>

\* nmbm_load_existing when none is found: with NMBM_F_CREATE, a fresh mapping
AttachRecreate ==
  /\ pc = "off" /\ SigBlocks # {} /\ Create
  /\ LET sig    == Highest(SigBlocks)
         passed == PassedFirst(None, sig)
     IN  /\ FirstTable(sig) = None
         /\ st' = Scan(MarkBad(AllGood, passed)) /\ mp' = BuildMapping(st')
         /\ changed' = (passed # {} \/ badmark # {})
         /\ sigBa' = sig
  /\ dataCount' = Cardinality(GoodData(st'))
  /\ cache' = NoTable /\ pc' = "create" /\ renewed' = TRUE
  /\ UNCHANGED <<chip, layout, protected, ctl, acked, stepped, bounds>>

\* nmbm_load_existing without NMBM_F_CREATE: the attach fails, each time
AttachFails ==
  /\ pc = "off" /\ SigBlocks # {} /\ ~Create
  /\ FirstTable(Highest(SigBlocks)) = None
  /\ UNCHANGED vars

-----------------------------------------------------------------------------
(* The requests of the layer above (nmbm-mtd.c), one at a time under its     *)
(* device lock.  NAND is programmed only where it was erased before.         *)

Served(lb) == pc = "idle" /\ ~protected /\ lb < dataCount
Begin(lb, v) ==
  /\ op' = [lb |-> lb, val |-> v]
  /\ acked' = [acked EXCEPT ![lb] = "unknown"]
Answer(a) == acked' = [acked EXCEPT ![op.lb] = a]

BeginErase(lb) ==
  /\ Served(lb) /\ Begin(lb, "none") /\ pc' = "e_try"
  /\ UNCHANGED <<chip, layout, table, cache, attachV, rg, got, wba, uret, stepped,
                 renewed, bounds>>

BeginWrite(lb, v) ==
  /\ Served(lb) /\ acked[lb] = "empty" /\ Begin(lb, v) /\ pc' = "p_try"
  /\ UNCHANGED <<chip, layout, table, cache, attachV, rg, got, wba, uret, stepped,
                 renewed, bounds>>

\* nmbm_read_single_page: what a read of a logical block returns; it leaves
\* everything as it is
Refused(error) == [kind |-> error]
ReadResult(lb) ==
  CASE protected -> Refused("rofs")
    [] ~protected /\ lb >= dataCount -> Refused("inval")
    [] OTHER -> IF mp[lb] = Unmapped \/ st[mp[lb]] = "bad" THEN Refused("eio")
                ELSE cells[mp[lb]]
Read == pc = "idle" /\ UNCHANGED vars

Pb == mp[op.lb]
Usable == Pb # Unmapped /\ st[Pb] = "good"

\* nmbm_erase_logic_block and nmbm_write_logic_page on an unusable block: -EIO
OpRefused ==
  /\ \/ pc = "e_try" /\ Pb = Unmapped
     \/ pc = "p_try" /\ ~(Pb # Unmapped /\ st[Pb] # "bad")
  /\ Answer(IF Pb = Unmapped THEN "bad" ELSE "unknown") /\ Return
  /\ UNCHANGED <<chip, layout, table, cache, attachV, stepped, renewed,
                 bounds>>

\* the block is known or found to be bad: remap the logical block first
EraseRemaps ==
  /\ pc = "e_try" /\ Pb # Unmapped /\ (~Usable \/ Pb \in badmark)
  /\ pc' = "e_map"
  /\ IF Usable THEN st' = [st EXCEPT ![Pb] = "bad"] /\ changed' = TRUE
               ELSE UNCHANGED <<st, changed>>
  /\ UNCHANGED <<chip, layout, mp, cache, attachV, ctl, ghost, bounds>>

EraseOk ==
  /\ pc = "e_try" /\ Usable /\ Pb \notin badmark
  /\ cells' = [cells EXCEPT ![Pb] = Empty]
  /\ Answer("empty") /\ Return
  /\ UNCHANGED <<badmark, layout, table, cache, attachV, stepped, renewed,
                 bounds>>

EraseFails ==
  /\ pc = "e_try" /\ Usable /\ Pb \notin badmark
  /\ Fails(Pb) /\ pc' = "e_map"
  /\ UNCHANGED <<layout, mp, cache, attachV, ctl, ghost, crashes>>

WriteOk ==
  /\ pc = "p_try" /\ Pb # Unmapped /\ st[Pb] # "bad"
  /\ cells' = [cells EXCEPT ![Pb] = [kind |-> "data", lb |-> op.lb, val |-> op.val]]
  /\ Answer(op.val) /\ Return
  /\ UNCHANGED <<badmark, layout, table, cache, attachV, stepped, renewed,
                 bounds>>

\* a failed write is remapped by the next erase
WriteFails ==
  /\ pc = "p_try" /\ Pb # Unmapped /\ st[Pb] # "bad"
  /\ MayFail(Pb) /\ faults' = faults + 1
  /\ cells' = [cells EXCEPT ![Pb] = Torn]
  /\ changed' = (changed \/ st[Pb] # "remap")
  /\ st' = [st EXCEPT ![Pb] = "remap"]
  /\ Update("idle")
  /\ UNCHANGED <<badmark, layout, mp, cache, attachV, rg, got, wba, op, ghost,
                 crashes>>

\* nmbm_mark_bad_block
MarkBlockBad(lb) ==
  /\ Served(lb)
  /\ Begin(lb, "none")
  /\ IF mp[lb] = Unmapped
     THEN pc' = "bad" /\ UNCHANGED <<badmark, table, uret>>
     ELSE /\ mp' = [mp EXCEPT ![lb] = Unmapped]
          /\ badmark' = badmark \cup {mp[lb]}
          /\ st' = [st EXCEPT ![mp[lb]] = "bad"]
          /\ changed' = (changed \/ st[mp[lb]] # "bad")
          /\ Update("bad")
  /\ UNCHANGED <<cells, layout, cache, attachV, rg, got, wba, stepped, renewed,
                 bounds>>

\* an erase that found no spare block, or a block marked bad, is answered
ReportBad ==
  /\ pc = "bad" /\ Answer("bad") /\ Return
  /\ UNCHANGED <<chip, layout, table, cache, attachV, stepped, renewed,
                 bounds>>

\* nmbm_detach: save the tables, then free the instance
BeginDetach ==
  /\ pc = "idle" /\ cache.wc < MaxWc /\ Update("detached")
  /\ UNCHANGED <<chip, layout, table, cache, attachV, rg, got, wba, op, ghost,
                 bounds>>

EndDetach ==
  /\ pc = "detached" /\ Forget
  /\ UNCHANGED <<chip, ghost, bounds>>

(* A power cut loses the memory; a block being erased or programmed may be
   left with an uncorrectable content.                                      *)
InFlight ==
  CASE RangeLoop -> {Here} \ ({None} \cup badmark)
    [] pc = "sig" -> {SigHere} \ {None}
    [] pc \in {"prog", "sig_prog"} -> {rg.ba}
    [] pc \in {"e_try", "p_try"} -> IF Usable THEN {Pb} \ badmark ELSE {}
    [] OTHER -> {}

PowerCut ==
  /\ pc # "off" /\ crashes < MaxCrashes /\ crashes' = crashes + 1
  /\ cells' \in {cells} \cup {[cells EXCEPT ![b] = Torn] : b \in InFlight}
  /\ Forget
  /\ UNCHANGED <<badmark, ghost, faults>>

-----------------------------------------------------------------------------

Init ==
  /\ cells = [b \in Blocks |-> Empty] /\ badmark \in FactoryBad
  /\ st = AllGood /\ mp = NoTable.mp /\ changed = FALSE /\ cache = NoTable
  /\ mainBa = None /\ backupBa = None /\ mapBa = None /\ topBa = None
  /\ dataCount = 0 /\ sigBa = None /\ protected = FALSE
  /\ pc = "off" /\ rg = NoRange /\ got = None /\ wba = None
  /\ uret = "idle" /\ op = NoOp
  /\ acked = [l \in LBs |-> "unknown"] /\ stepped = FALSE
  /\ renewed = FALSE
  /\ faults = 0 /\ crashes = 0

RangeStep == RangeSkip \/ RangeErase \/ RangeEraseFails \/ RangeEnd
             \/ Program \/ ProgramFails
UpdateStep == UpdateDone \/ UpdateOnce \/ UpdateBackup \/ UpdateMain
              \/ UpdateMainRebuilds \/ RescueMain \/ RescueMainTmp
              \/ RescueMainDone \/ RebuildMain \/ RebuildMainFails
              \/ RebuildBackup \/ RebuildErased
LoadStep == RescueFront \/ RescueNext \/ RescueNextLoop \/ RescueNextDone
            \/ UpdateSingle \/ UpdateSingleFails \/ LoadDone
CreateStep == SigErase \/ SigProgram \/ SigFails \/ CreateTables \/ CreateFails
              \/ CreateEnd \/ CreateDone
EraseStep == EraseRemaps \/ EraseOk \/ EraseFails \/ MapBlock \/ MapBlockNone
             \/ EraseUnmaps
WriteStep == WriteOk \/ WriteFails
\* the code runs on by itself
Run == RangeStep \/ UpdateStep \/ LoadStep \/ CreateStep \/ EraseStep
       \/ WriteStep \/ OpRefused \/ ReportBad \/ EndDetach

Attach == AttachNew \/ AttachLoad \/ AttachRecreate \/ AttachFails
Request == \/ \E lb \in LBs : BeginErase(lb) \/ MarkBlockBad(lb)
           \/ \E lb \in LBs, v \in Values : BeginWrite(lb, v)
           \/ BeginDetach \/ Read

Next == Run \/ Attach \/ Request \/ PowerCut

Spec == Init /\ [][Next]_vars
=============================================================================
