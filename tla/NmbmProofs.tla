----------------------------- MODULE NmbmProofs -----------------------------
(***************************************************************************)
(* Proofs about Nmbm for every chip: any number of blocks, any management  *)
(* area, any wear, any number of faults and power cuts.                    *)
(***************************************************************************)
EXTENDS NmbmSafety, FiniteSetTheorems, WellFoundedInduction, TLAPS

-----------------------------------------------------------------------------
(* The walks over the blocks. *)

LEMMA ChipFacts ==
  /\ NB \in Nat /\ MgmtStart \in Nat /\ 0 < MgmtStart /\ MgmtStart < NB
  /\ None \in Blocks /\ LBs \subseteq Blocks /\ Unmapped \notin Blocks
  /\ \A b \in Blocks : b \in Nat /\ b < NB
BY ChipAssumption DEF Blocks, LBs, None, Unmapped

\* Lowest, Highest and Nth return a member of their set or None
LEMMA LowestIn ==
  ASSUME NEW S PROVE Lowest(S) \in S \cup {None}
BY DEF Lowest, Pick

LEMMA HighestIn ==
  ASSUME NEW S PROVE Highest(S) \in S \cup {None}
BY DEF Highest, Pick

LEMMA NthIn ==
  ASSUME NEW S, NEW n PROVE Nth(S, n) \in S \cup {None}
BY DEF Nth, Pick

\* a non-empty set of naturals has a lowest member
LEMMA LowestExists ==
  ASSUME NEW S, S \subseteq Nat, S # {}
  PROVE  Lowest(S) \in S /\ \A c \in S : Lowest(S) <= c
<1>1. PICK x \in S : \A y \in S : ~(<<y, x>> \in OpToRel(<, Nat))
  BY NatLessThanWellFounded, WFMin
<1>2. \A y \in Nat : y < x => <<y, x>> \in OpToRel(<, Nat)
  BY Zenon DEF OpToRel
<1>3. \A y \in S : ~(y < x)
  BY <1>1, <1>2, Zenon
<1>4. \A y \in S : x <= y
  BY <1>3, SMT
<1> QED
  BY <1>4 DEF Lowest, Pick

\* what the loops of nmbm_write_mgmt_range and nmbm_erase_range come to
LEMMA NextGoodIn ==
  ASSUME NEW s, NEW lo, NEW lim
  PROVE  /\ NextGood(s, lo, lim) \in Blocks
         /\ NextGood(s, lo, lim) # None =>
              NextGood(s, lo, lim) \in GoodIn(s, lo, lim - 1)
BY LowestIn, ChipFacts DEF NextGood, GoodIn

LEMMA WalkDescIn ==
  ASSUME NEW s, NEW ba, NEW lim
  PROVE  /\ WalkDesc(s, ba, lim) \in Blocks
         /\ WalkDesc(s, ba, lim) # None =>
              WalkDesc(s, ba, lim) \in GoodIn(s, lim + 1, ba)
BY HighestIn, ChipFacts DEF WalkDesc, GoodIn

LEMMA TryReserveIn ==
  ASSUME NEW s, NEW ba, NEW lim
  PROVE  /\ TryReserve(s, ba, lim) \in Blocks
         /\ TryReserve(s, ba, lim) # None =>
              TryReserve(s, ba, lim) \in GoodIn(s, ba, lim - 1)
BY NthIn, ChipFacts DEF TryReserve, GoodIn

LEMMA GoodInRange ==
  ASSUME NEW s, NEW lo \in Int, NEW hi \in Int, NEW b \in GoodIn(s, lo, hi)
  PROVE  b \in Blocks /\ lo <= b /\ b <= hi
BY DEF GoodIn

-----------------------------------------------------------------------------
(* The values stored on the chip. *)

LEMMA CellFacts ==
  /\ Empty \in Cell /\ Torn \in Cell /\ Sig \in Cell /\ InfoTable \subseteq Cell
  /\ \A l \in LBs, x \in Values : [kind |-> "data", lb |-> l, val |-> x] \in Cell
  /\ \A c \in Cell : c.kind = "table" => c \in InfoTable
BY DEF Cell, Empty, Torn, Sig, DataCell, InfoTable

LEMMA TableType ==
  ASSUME NEW w \in Nat, NEW s \in [Blocks -> States],
         NEW m \in [LBs -> Blocks \cup {Unmapped}], NEW ch
  PROVE  Table(w, s, m) \in InfoTable /\ Generate(w, s, m, ch) \in InfoTable
BY DEF Generate, Table, InfoTable

LEMMA NoTableType ==
  /\ NoTable \in InfoTable /\ AllGood \in [Blocks -> States]
  /\ NoTable.mp \in [LBs -> Blocks \cup {Unmapped}]
BY DEF NoTable, AllGood, Table, InfoTable, States

LEMMA BuildMappingType ==
  ASSUME NEW s
  PROVE  /\ BuildMapping(s) \in [LBs -> Blocks \cup {Unmapped}]
         /\ Cardinality(GoodData(s)) \in 0 .. MgmtStart
<1>1. GoodData(s) \subseteq LBs
  BY DEF GoodData
<1>2. \A n : Nth(GoodData(s), n) \in Blocks
  BY <1>1, NthIn, ChipFacts
<1>3. IsFiniteSet(LBs) /\ Cardinality(LBs) = MgmtStart
  <2>1. 0 \in Int /\ MgmtStart - 1 \in Int /\ ~(0 > MgmtStart - 1)
    BY ChipFacts
  <2>2. /\ IsFiniteSet(0 .. MgmtStart - 1)
        /\ Cardinality(0 .. MgmtStart - 1)
             = IF 0 > MgmtStart - 1 THEN 0 ELSE MgmtStart - 1 - 0 + 1
    BY <2>1, FS_Interval, Zenon
  <2>3. MgmtStart - 1 - 0 + 1 = MgmtStart
    BY ChipFacts
  <2> QED
    BY <2>1, <2>2, <2>3, Zenon DEF LBs
<1>4. Cardinality(GoodData(s)) \in Nat /\ Cardinality(GoodData(s)) <= MgmtStart
  BY <1>1, <1>3, FS_Subset, FS_CardinalityType
<1> QED
  BY <1>2, <1>4 DEF BuildMapping
-----------------------------------------------------------------------------
(* IInv is kept by every action. *)

\* the numbers among the variables
LEMMA Numbers ==
  ASSUME TypeOK
  PROVE  /\ {mainBa, backupBa, mapBa, topBa, sigBa, wba, rg.lim} \subseteq Blocks
         /\ \A b \in Blocks : b \in Int /\ 0 <= b /\ b <= NB - 1
         /\ rg.ba \in Int /\ 0 <= rg.ba /\ rg.ba <= NB
         /\ got \in Int /\ 0 <= got /\ got <= NB - 2
         /\ rg \in [ba : 0 .. NB, lim : Blocks, ret : RangeReturns]
         /\ MgmtStart \in Int /\ NB \in Int /\ 0 < MgmtStart
         /\ rg.ret \in RangeReturns /\ uret \in UpdateReturns
BY ChipFacts DEF TypeOK, Blocks

LEMMA FailsType ==
  ASSUME TypeOK, NEW b, Fails(b)
  PROVE  /\ cells' \in [Blocks -> Cell] /\ st' \in [Blocks -> States]
         /\ badmark' \subseteq Blocks /\ faults' \in 0 .. MaxFaults
         /\ changed' = TRUE /\ b \in Blocks
<1>1. b \in Blocks /\ faults < MaxFaults /\ MaxFaults \in Nat
  BY ChipAssumption DEF Fails, MayFail
<1> QED
  BY <1>1, CellFacts DEF Fails, TypeOK, States

LEMMA NextBlockType ==
  ASSUME NEW r \in [ba : 0 .. NB, lim : Blocks, ret : RangeReturns],
         NEW b \in 0 .. NB
  PROVE  [r EXCEPT !.ba = b] \in [ba : 0 .. NB, lim : Blocks, ret : RangeReturns]
OBVIOUS

LEMMA RangeStepKeeps == IInv /\ RangeStep => IInv'
<1> SUFFICES ASSUME IInv, RangeStep PROVE IInv'
  OBVIOUS
<1> USE DEF chip, layout, table, attachV, ctl, ghost, bounds, IInv
<1>h. /\ Here \in Blocks
      /\ Here # None => rg.ba <= Here /\ Here < rg.lim /\ Here + 1 \in 0 .. NB
      /\ Here \in 0 .. NB
  BY NextGoodIn, ChipFacts DEF Here, GoodIn, TypeOK, Blocks
<1>r. /\ rg \in [ba : 0 .. NB, lim : Blocks, ret : RangeReturns]
      /\ rg.ba \in Int /\ rg.lim \in Int /\ sigBa \in Int /\ got \in Int
      /\ Here \in Int /\ MgmtStart \in Int /\ 0 < MgmtStart /\ None = 0
  BY <1>h, Numbers DEF None
<1>1. CASE RangeSkip
  <2>1. TypeOK'
    BY <1>1, <1>h DEF RangeSkip, TypeOK, States
  <2>2. LocalsOk'
    BY <1>1 DEF RangeSkip, RangeLoop, LocalsOk
  <2>3. PlacesInArea'
    BY <1>1 DEF RangeSkip, RangeLoop, PlacesInArea, Laid, InArea
  <2>4. RangeInArea'
    BY <1>1, <1>h, <1>r DEF RangeSkip, RangeLoop, RangeInArea, Going
  <2>5. TablesKnown'
    BY <1>1, <1>h DEF RangeSkip, RangeLoop, TablesKnown, Laid, Going
  <2> QED
    BY <2>1, <2>2, <2>3, <2>4, <2>5
<1>2. CASE RangeErase
  <2>1. TypeOK'
    <3>1. cells' \in [Blocks -> Cell]
      BY <1>2, CellFacts DEF RangeErase, TypeOK
    <3>2. pc' \in Places
      BY <1>2 DEF RangeErase, Places
    <3>3. rg' \in [ba : 0 .. NB, lim : Blocks, ret : RangeReturns]
      BY <1>2, <1>h, <1>r, NextBlockType DEF RangeErase
    <3> QED
      BY <1>2, <3>1, <3>2, <3>3 DEF RangeErase, TypeOK
  <2>2. LocalsOk'
    BY <1>2, <1>h DEF RangeErase, RangeLoop, LocalsOk
  <2>3. PlacesInArea'
    BY <1>2 DEF RangeErase, RangeLoop, PlacesInArea, Laid, InArea
  <2>4. RangeInArea'
    BY <1>2, <1>h, <1>r DEF RangeErase, RangeLoop, RangeInArea, Going
  <2>5. TablesKnown'
    BY <1>2, <1>h
    DEF RangeErase, RangeLoop, TablesKnown, Laid, Going, UpdateReturns
  <2> QED
    BY <2>1, <2>2, <2>3, <2>4, <2>5
<1>3. CASE RangeEraseFails
  <2>1. TypeOK'
    BY <1>3, <1>h, FailsType DEF RangeEraseFails, TypeOK, Fails
  <2>2. LocalsOk'
    BY <1>3 DEF RangeEraseFails, RangeLoop, LocalsOk
  <2>3. PlacesInArea'
    BY <1>3 DEF RangeEraseFails, RangeLoop, PlacesInArea, Laid, InArea, Fails
  <2>4. RangeInArea'
    BY <1>3, <1>h, <1>r
    DEF RangeEraseFails, RangeLoop, RangeInArea, Going, Fails
  <2>5. TablesKnown'
    BY <1>3, <1>h
    DEF RangeEraseFails, RangeLoop, TablesKnown, Laid, Going, Fails
  <2> QED
    BY <2>1, <2>2, <2>3, <2>4, <2>5
<1>4. CASE RangeEnd
  <2>1. TypeOK'
    <3>1. pc' \in Places
      BY <1>4, <1>r DEF RangeEnd, Places
    <3>2. got' \in 0 .. NB - 2
      BY <1>4, <1>r, ChipFacts DEF RangeEnd, TypeOK
    <3> QED
      BY <1>4, <3>1, <3>2 DEF RangeEnd, TypeOK
  <2>2. LocalsOk'
    BY <1>4, <1>h, <1>r DEF RangeEnd, RangeLoop, LocalsOk, RangeReturns
  <2>3. PlacesInArea'
    BY <1>4, <1>h, <1>r
    DEF RangeEnd, RangeLoop, PlacesInArea, Laid, InArea, RangeReturns
  <2>4. RangeInArea'
    BY <1>4, <1>h DEF RangeEnd, RangeLoop, RangeInArea, Going
  <2>5. TablesKnown'
    BY <1>4, <1>h, <1>r
    DEF RangeEnd, RangeLoop, TablesKnown, Laid, Going, UpdateReturns
  <2> QED
    BY <2>1, <2>2, <2>3, <2>4, <2>5
<1>5. CASE Program
  <2>1. TypeOK'
    <3>1. cells' \in [Blocks -> Cell]
      BY <1>5, CellFacts DEF Program, TypeOK
    <3>2. pc' \in Places
      BY <1>5, <1>r DEF Program, Places
    <3>3. got' \in 0 .. NB - 2
      BY <1>5, Numbers DEF Program, RangeInArea, LocalsOk
    <3> QED
      BY <1>5, <3>1, <3>2, <3>3 DEF Program, TypeOK
  <2>2. LocalsOk'
    BY <1>5, <1>h, <1>r DEF Program, RangeLoop, LocalsOk, RangeReturns
  <2>3. PlacesInArea'
    BY <1>5, <1>h, <1>r
    DEF Program, RangeLoop, PlacesInArea, Laid, InArea, RangeReturns, LocalsOk,
        RangeInArea
  <2>4. RangeInArea'
    BY <1>5, <1>h DEF Program, RangeLoop, RangeInArea, Going
  <2>5. TablesKnown'
    BY <1>5, <1>h, <1>r
    DEF Program, RangeLoop, TablesKnown, Laid, Going, UpdateReturns
  <2> QED
    BY <2>1, <2>2, <2>3, <2>4, <2>5
<1>6. CASE ProgramFails
  <2>1. TypeOK'
    <3>1. cells' \in [Blocks -> Cell] /\ st' \in [Blocks -> States]
          /\ badmark' \subseteq Blocks /\ faults' \in 0 .. MaxFaults
      BY <1>6, FailsType DEF ProgramFails
    <3>2. rg' \in [ba : 0 .. NB, lim : Blocks, ret : RangeReturns]
      BY <1>6, Numbers, NextBlockType DEF ProgramFails, LocalsOk
    <3>3. pc' \in Places
      BY <1>6 DEF ProgramFails, Places
    <3> QED
      BY <1>6, <3>1, <3>2, <3>3 DEF ProgramFails, Fails, TypeOK
  <2>2. LocalsOk'
    BY <1>6 DEF ProgramFails, RangeLoop, LocalsOk
  <2>3. PlacesInArea'
    BY <1>6 DEF ProgramFails, RangeLoop, PlacesInArea, Laid, InArea, Fails
  <2>4. RangeInArea'
    BY <1>6, <1>r DEF ProgramFails, RangeLoop, RangeInArea, Going, Fails
  <2>5. TablesKnown'
    BY <1>6, <1>h
    DEF ProgramFails, RangeLoop, TablesKnown, Laid, Going, UpdateReturns, Fails
  <2> QED
    BY <2>1, <2>2, <2>3, <2>4, <2>5
<1> QED
  BY <1>1, <1>2, <1>3, <1>4, <1>5, <1>6 DEF RangeStep
\* a power cut, a detach or a failed attach forgets everything but the chip
LEMMA ForgetKeeps ==
  ASSUME Forget, cells' \in [Blocks -> Cell], badmark' \subseteq Blocks,
         acked' \in [LBs -> Values \cup {"empty", "unknown", "bad"}],
         stepped' \in BOOLEAN, renewed' \in BOOLEAN,
         faults' \in 0 .. MaxFaults, crashes' \in 0 .. MaxCrashes
  PROVE  IInv'
<1>1. /\ None \in Blocks /\ None \in 0 .. NB /\ None \in 0 .. NB - 2 /\ 0 \in 0 .. MgmtStart
  BY ChipFacts DEF None, Blocks
<1>2. TypeOK'
  BY <1>1, NoTableType
  DEF Forget, ResetCtl, NoRange, NoOp, TypeOK, Places, RangeReturns,
      UpdateReturns
<1>3. LocalsOk' /\ PlacesInArea' /\ RangeInArea' /\ TablesKnown'
  BY DEF Forget, ResetCtl, NoRange, NoOp, LocalsOk, PlacesInArea, RangeInArea,
         TablesKnown, Laid, Going
<1> QED
  BY <1>2, <1>3 DEF IInv

\* where the end of nmbm_update_info_table leaves the locals
LEMMA UpdateReturnType ==
  ASSUME TypeOK, UpdateReturn
  PROVE  /\ pc' = uret /\ pc' \in Places
         /\ rg' \in [ba : 0 .. NB, lim : Blocks, ret : RangeReturns]
         /\ got' \in 0 .. NB - 2 /\ wba' \in Blocks /\ uret' \in UpdateReturns
         /\ op' \in [lb : LBs \cup {Unmapped}, val : Values \cup {"none"}]
<1>1. CASE uret = "idle"
  BY <1>1, ChipFacts
  DEF UpdateReturn, Return, ResetCtl, NoRange, NoOp, Places, RangeReturns,
      UpdateReturns, None, Blocks
<1>2. CASE uret # "idle"
  BY <1>2 DEF UpdateReturn, ctl, TypeOK, Places
<1> QED
  BY <1>1, <1>2

\* the start of a loop over a range of blocks
LEMMA RangeStarts ==
  ASSUME NEW ba, NEW lim, NEW ret, WriteRange(ba, lim, ret) \/ EraseRange(ba, lim, ret)
  PROVE  /\ rg'.ba = ba /\ rg'.lim = lim /\ rg'.ret = ret /\ pc' \in {"write", "erase"}
         /\ ba \in 0 .. NB /\ lim \in Blocks /\ ret \in RangeReturns =>
              rg' \in [ba : 0 .. NB, lim : Blocks, ret : RangeReturns]
BY DEF WriteRange, EraseRange

LEMMA UpdateStepKeeps == IInv /\ UpdateStep => IInv'
<1> SUFFICES ASSUME IInv, UpdateStep PROVE IInv'
  OBVIOUS
<1> USE DEF chip, layout, table, attachV, ctl, ghost, bounds, IInv, None
<1>r. /\ mainBa \in Blocks /\ backupBa \in Blocks /\ mapBa \in Blocks
      /\ topBa \in Blocks /\ sigBa \in Blocks /\ wba \in Blocks /\ rg.lim \in Blocks
      /\ mainBa \in Int /\ backupBa \in Int /\ mapBa \in Int
      /\ topBa \in Int /\ sigBa \in Int /\ wba \in Int /\ rg.lim \in Int
      /\ \A b \in Blocks : b \in 0 .. NB /\ b + 1 \in 0 .. NB
      /\ got \in Int /\ got \in Blocks /\ got + 1 \in Blocks
      /\ MgmtStart \in Int /\ 0 < MgmtStart /\ MgmtStart \in Blocks
      /\ rg.ret \in RangeReturns /\ uret \in UpdateReturns
  BY ChipFacts DEF TypeOK, Blocks
<1>a. /\ MgmtStart <= topBa /\ topBa < sigBa /\ MgmtStart <= mapBa /\ mapBa < sigBa
      /\ mainBa # None => MgmtStart <= mainBa /\ mainBa < sigBa
      /\ backupBa # None => MgmtStart <= backupBa /\ backupBa < sigBa
      /\ got # None => MgmtStart <= got /\ got + 1 < sigBa
  BY DEF UpdateStep, UpdateDone, UpdateOnce, UpdateBackup, UpdateMain,
         UpdateMainRebuilds, RescueMain, RescueMainTmp, RescueMainDone,
         RebuildMain, RebuildMainFails, RebuildBackup, RebuildErased,
         PlacesInArea, Laid, InArea
<1>m. /\ pc \in {"up_backup", "up_main", "rm_tmp", "rm_main", "rb_backup", "rb_erased"}
           => mainBa # None
      /\ pc = "update" /\ ~protected => mainBa # None
      /\ pc \in {"up_backup", "rm_tmp"} => backupBa # None
      /\ pc = "rm_main" => MgmtStart <= rg.lim /\ rg.lim < sigBa
  BY DEF TablesKnown, RangeInArea, Laid, Going, UpdateReturns
<1>w. /\ TryReserve(st, mapBa, topBa - 1) \in Blocks
      /\ TryReserve(st, mapBa, topBa - 1) # None =>
           mapBa <= TryReserve(st, mapBa, topBa - 1)
      /\ TryReserve(st, got + 1, topBa - 1) \in Blocks
      /\ TryReserve(st, got + 1, topBa - 1) # None =>
           got + 1 <= TryReserve(st, got + 1, topBa - 1)
      /\ TryReserve(st, mapBa, topBa - 1) \in Int
      /\ TryReserve(st, got + 1, topBa - 1) \in Int
      /\ wba > mapBa => wba - 1 \in Blocks
  BY <1>r, TryReserveIn, ChipFacts DEF GoodIn, Blocks
<1>c. Generate(cache.wc, st, mp, changed) \in InfoTable
  BY TableType DEF TypeOK, InfoTable
<1>1. CASE UpdateDone
  <2>1. TypeOK'
    BY <1>1, <1>r, <1>a, <1>m, UpdateReturnType
    DEF UpdateDone, UpdateReturn, Return, ResetCtl, NoRange, NoOp, TypeOK,
        Places
  <2>2. LocalsOk'
    BY <1>1, <1>r, <1>a, <1>m
    DEF UpdateDone, UpdateReturn, Return, ResetCtl, NoRange, NoOp, LocalsOk,
        UpdateReturns
  <2>3. PlacesInArea'
    BY <1>1, <1>r, <1>a, <1>m
    DEF UpdateDone, UpdateReturn, Return, ResetCtl, NoRange, NoOp, PlacesInArea,
        Laid, InArea, UpdateReturns
  <2>4. RangeInArea'
    BY <1>1, <1>r, <1>a, <1>m
    DEF UpdateDone, UpdateReturn, Return, ResetCtl, NoRange, NoOp, RangeInArea,
        Going, UpdateReturns
  <2>5. TablesKnown'
    BY <1>1, <1>r, <1>a, <1>m
    DEF UpdateDone, UpdateReturn, Return, ResetCtl, NoRange, NoOp, TablesKnown,
        Laid, Going, UpdateReturns
  <2> QED
    BY <2>1, <2>2, <2>3, <2>4, <2>5
<1>2. CASE UpdateOnce
  <2>1. TypeOK'
    <3>1. rg' \in [ba : 0 .. NB, lim : Blocks, ret : RangeReturns]
      BY <1>2, <1>r, <1>a, <1>m, RangeStarts
      DEF UpdateOnce, Regenerate, TypeOK, Places, RangeReturns
    <3>2. pc' \in Places
      BY <1>2, <1>r, <1>m, RangeStarts
      DEF UpdateOnce, Regenerate, WriteRange, EraseRange, Places
    <3>3. mainBa' \in Blocks /\ backupBa' \in Blocks /\ mapBa' \in Blocks /\ topBa' \in Blocks /\ wba' \in Blocks
      BY <1>2, <1>r, <1>m, <1>c DEF UpdateOnce, Regenerate
    <3> QED
      BY <1>2, <3>1, <3>2, <3>3, <1>c DEF UpdateOnce, Regenerate, TypeOK
  <2>2. LocalsOk'
    BY <1>2, <1>r, <1>a, <1>m, RangeStarts DEF UpdateOnce, Regenerate, LocalsOk
  <2>3. PlacesInArea'
    BY <1>2, <1>r, <1>a, <1>m, RangeStarts
    DEF UpdateOnce, Regenerate, PlacesInArea, Laid, InArea
  <2>4. RangeInArea'
    BY <1>2, <1>r, <1>a, <1>m, RangeStarts
    DEF UpdateOnce, Regenerate, RangeInArea, Going
  <2>5. TablesKnown'
    BY <1>2, <1>r, <1>a, <1>m, RangeStarts
    DEF UpdateOnce, Regenerate, TablesKnown, Laid, Going
  <2> QED
    BY <2>1, <2>2, <2>3, <2>4, <2>5
<1>3. CASE UpdateBackup
  <2>1. TypeOK'
    <3>1. rg' \in [ba : 0 .. NB, lim : Blocks, ret : RangeReturns]
      BY <1>3, <1>r, <1>a, <1>m, RangeStarts
      DEF UpdateBackup, TypeOK, Places, RangeReturns
    <3>2. pc' \in Places
      BY <1>3, <1>r, <1>m, RangeStarts
      DEF UpdateBackup, WriteRange, EraseRange, Places
    <3>3. mainBa' \in Blocks /\ backupBa' \in Blocks /\ mapBa' \in Blocks /\ topBa' \in Blocks /\ wba' \in Blocks
      BY <1>3, <1>r, <1>m DEF UpdateBackup
    <3> QED
      BY <1>3, <3>1, <3>2, <3>3 DEF UpdateBackup, TypeOK
  <2>2. LocalsOk'
    BY <1>3, <1>r, <1>a, <1>m, RangeStarts DEF UpdateBackup, LocalsOk
  <2>3. PlacesInArea'
    BY <1>3, <1>r, <1>a, <1>m, RangeStarts
    DEF UpdateBackup, PlacesInArea, Laid, InArea
  <2>4. RangeInArea'
    BY <1>3, <1>r, <1>a, <1>m, RangeStarts DEF UpdateBackup, RangeInArea, Going
  <2>5. TablesKnown'
    BY <1>3, <1>r, <1>a, <1>m, RangeStarts
    DEF UpdateBackup, TablesKnown, Laid, Going
  <2> QED
    BY <2>1, <2>2, <2>3, <2>4, <2>5
<1>4. CASE UpdateMain
  <2>1. TypeOK'
    BY <1>4, <1>r, <1>a, <1>m DEF UpdateMain, TypeOK, Places
  <2>2. LocalsOk'
    BY <1>4, <1>r, <1>a, <1>m DEF UpdateMain, LocalsOk
  <2>3. PlacesInArea'
    BY <1>4, <1>r, <1>a, <1>m DEF UpdateMain, PlacesInArea, Laid, InArea
  <2>4. RangeInArea'
    BY <1>4, <1>r, <1>a, <1>m DEF UpdateMain, RangeInArea, Going
  <2>5. TablesKnown'
    BY <1>4, <1>r, <1>a, <1>m DEF UpdateMain, TablesKnown, Laid, Going
  <2> QED
    BY <2>1, <2>2, <2>3, <2>4, <2>5
<1>5. CASE UpdateMainRebuilds
  <2>1. TypeOK'
    <3>1. rg' \in [ba : 0 .. NB, lim : Blocks, ret : RangeReturns]
      BY <1>5, <1>r, <1>a, <1>m, RangeStarts
      DEF UpdateMainRebuilds, StartRebuild, TypeOK, Places, RangeReturns
    <3>2. pc' \in Places
      BY <1>5, <1>r, RangeStarts
      DEF UpdateMainRebuilds, StartRebuild, WriteRange, EraseRange, Places
    <3>3. mainBa' \in Blocks /\ backupBa' \in Blocks /\ mapBa' \in Blocks /\ topBa' \in Blocks /\ wba' \in Blocks
      BY <1>5, <1>r DEF UpdateMainRebuilds, StartRebuild
    <3> QED
      BY <1>5, <3>1, <3>2, <3>3 DEF UpdateMainRebuilds, StartRebuild, TypeOK
  <2>2. LocalsOk'
    BY <1>5, <1>r, <1>a, <1>m, RangeStarts
    DEF UpdateMainRebuilds, StartRebuild, LocalsOk
  <2>3. PlacesInArea'
    BY <1>5, <1>r, <1>a, <1>m, RangeStarts
    DEF UpdateMainRebuilds, StartRebuild, PlacesInArea, Laid, InArea
  <2>4. RangeInArea'
    BY <1>5, <1>r, <1>a, <1>m, RangeStarts
    DEF UpdateMainRebuilds, StartRebuild, RangeInArea, Going
  <2>5. TablesKnown'
    BY <1>5, <1>r, <1>a, <1>m, RangeStarts
    DEF UpdateMainRebuilds, StartRebuild, TablesKnown, Laid, Going
  <2> QED
    BY <2>1, <2>2, <2>3, <2>4, <2>5
<1>6. CASE RescueMain
  <2>1. TypeOK'
    <3>1. rg' \in [ba : 0 .. NB, lim : Blocks, ret : RangeReturns]
      BY <1>6, <1>r, <1>a, <1>m, <1>w, RangeStarts
      DEF RescueMain, BackupBecomesMain, TypeOK, Places, RangeReturns
    <3>2. pc' \in Places
      BY <1>6, <1>r, <1>w, RangeStarts
      DEF RescueMain, BackupBecomesMain, WriteRange, EraseRange, Places
    <3>3. mainBa' \in Blocks /\ backupBa' \in Blocks /\ mapBa' \in Blocks /\ topBa' \in Blocks /\ wba' \in Blocks
      BY <1>6, <1>r, <1>w DEF RescueMain, BackupBecomesMain
    <3> QED
      BY <1>6, <3>1, <3>2, <3>3, <1>w DEF RescueMain, BackupBecomesMain, TypeOK
  <2>2. LocalsOk'
    BY <1>6, <1>r, <1>a, <1>m, <1>w, RangeStarts
    DEF RescueMain, BackupBecomesMain, LocalsOk
  <2>3. PlacesInArea'
    BY <1>6, <1>r, <1>a, <1>m, <1>w, RangeStarts
    DEF RescueMain, BackupBecomesMain, PlacesInArea, Laid, InArea
  <2>4. RangeInArea'
    BY <1>6, <1>r, <1>a, <1>m, <1>w, RangeStarts
    DEF RescueMain, BackupBecomesMain, RangeInArea, Going
  <2>5. TablesKnown'
    BY <1>6, <1>r, <1>a, <1>m, <1>w, RangeStarts
    DEF RescueMain, BackupBecomesMain, TablesKnown, Laid, Going
  <2> QED
    BY <2>1, <2>2, <2>3, <2>4, <2>5
<1>7. CASE RescueMainTmp
  <2>1. TypeOK'
    <3>1. rg' \in [ba : 0 .. NB, lim : Blocks, ret : RangeReturns]
      BY <1>7, <1>r, <1>a, <1>m, RangeStarts, <1>w
      DEF RescueMainTmp, RetryBelow, BackupBecomesMain, TypeOK, Places,
          RangeReturns
    <3>2. pc' \in Places
      BY <1>7, <1>r, RangeStarts, <1>w
      DEF RescueMainTmp, RetryBelow, BackupBecomesMain, WriteRange, EraseRange,
          Places
    <3>3. mainBa' \in Blocks /\ backupBa' \in Blocks /\ mapBa' \in Blocks /\ topBa' \in Blocks /\ wba' \in Blocks
      BY <1>7, <1>r, <1>w DEF RescueMainTmp, RetryBelow, BackupBecomesMain
    <3> QED
      BY <1>7, <3>1, <3>2, <3>3
      DEF RescueMainTmp, RetryBelow, BackupBecomesMain, TypeOK
  <2>2. LocalsOk'
    BY <1>7, <1>r, <1>a, <1>m, RangeStarts, <1>w
    DEF RescueMainTmp, RetryBelow, BackupBecomesMain, LocalsOk
  <2>3. PlacesInArea'
    BY <1>7, <1>r, <1>a, <1>m, RangeStarts, <1>w
    DEF RescueMainTmp, RetryBelow, BackupBecomesMain, PlacesInArea, Laid, InArea
  <2>4. RangeInArea'
    BY <1>7, <1>r, <1>a, <1>m, RangeStarts, <1>w
    DEF RescueMainTmp, RetryBelow, BackupBecomesMain, RangeInArea, Going
  <2>5. TablesKnown'
    BY <1>7, <1>r, <1>a, <1>m, RangeStarts, <1>w
    DEF RescueMainTmp, RetryBelow, BackupBecomesMain, TablesKnown, Laid, Going
  <2> QED
    BY <2>1, <2>2, <2>3, <2>4, <2>5
<1>8. CASE RescueMainDone
  <2>1. TypeOK'
    BY <1>8, <1>r, <1>a, <1>m DEF RescueMainDone, TypeOK, Places, RangeReturns
  <2>2. LocalsOk'
    BY <1>8, <1>r, <1>a, <1>m DEF RescueMainDone, LocalsOk
  <2>3. PlacesInArea'
    BY <1>8, <1>r, <1>a, <1>m DEF RescueMainDone, PlacesInArea, Laid, InArea
  <2>4. RangeInArea'
    BY <1>8, <1>r, <1>a, <1>m DEF RescueMainDone, RangeInArea, Going
  <2>5. TablesKnown'
    BY <1>8, <1>r, <1>a, <1>m DEF RescueMainDone, TablesKnown, Laid, Going
  <2> QED
    BY <2>1, <2>2, <2>3, <2>4, <2>5
<1>9. CASE RebuildMain
  <2>1. TypeOK'
    <3>1. rg' \in [ba : 0 .. NB, lim : Blocks, ret : RangeReturns]
      BY <1>9, <1>r, <1>a, <1>m, <1>w, RangeStarts
      DEF RebuildMain, RebuildReturn, TypeOK, Places, RangeReturns
    <3>2. pc' \in Places
      BY <1>9, <1>r, <1>w, RangeStarts
      DEF RebuildMain, RebuildReturn, WriteRange, EraseRange, Places
    <3>3. mainBa' \in Blocks /\ backupBa' \in Blocks /\ mapBa' \in Blocks /\ topBa' \in Blocks /\ wba' \in Blocks
      BY <1>9, <1>r DEF RebuildMain, RebuildReturn
    <3> QED
      BY <1>9, <3>1, <3>2, <3>3 DEF RebuildMain, RebuildReturn, TypeOK
  <2>2. LocalsOk'
    BY <1>9, <1>r, <1>a, <1>m, <1>w, RangeStarts
    DEF RebuildMain, RebuildReturn, LocalsOk
  <2>3. PlacesInArea'
    BY <1>9, <1>r, <1>a, <1>m, <1>w, RangeStarts
    DEF RebuildMain, RebuildReturn, PlacesInArea, Laid, InArea
  <2>4. RangeInArea'
    BY <1>9, <1>r, <1>a, <1>m, <1>w, RangeStarts
    DEF RebuildMain, RebuildReturn, RangeInArea, Going
  <2>5. TablesKnown'
    BY <1>9, <1>r, <1>a, <1>m, <1>w, RangeStarts
    DEF RebuildMain, RebuildReturn, TablesKnown, Laid, Going
  <2> QED
    BY <2>1, <2>2, <2>3, <2>4, <2>5
<1>10. CASE RebuildMainFails
  <2>1. CASE uret \in {"creating", "c_end"}
    BY <1>10, <2>1, ForgetKeeps DEF RebuildMainFails, TypeOK
  <2>2. CASE uret \notin {"creating", "c_end"}
    <3>1. UpdateReturn /\ protected' = TRUE /\ UNCHANGED <<layout, table, cache, dataCount, sigBa>>
          /\ UNCHANGED <<chip, ghost, bounds>>
      BY <1>10, <2>2 DEF RebuildMainFails, GiveUp
    <3>2. TypeOK'
      BY <3>1, UpdateReturnType DEF TypeOK
    <3>3. pc' = uret /\ (got' = got \/ got' = None)
      BY <3>1 DEF UpdateReturn, Return, ResetCtl
    <3>4. LocalsOk' /\ RangeInArea'
      BY <3>3, <1>r DEF LocalsOk, RangeInArea, Going, UpdateReturns
    <3>5. PlacesInArea'
      BY <3>1, <3>3, <1>r, <1>a DEF PlacesInArea, Laid, InArea, UpdateReturns
    <3>6. TablesKnown'
      BY <3>1, <3>3, <1>r DEF TablesKnown, Laid, Going, UpdateReturns
    <3> QED
      BY <3>2, <3>4, <3>5, <3>6
  <2> QED
    BY <2>1, <2>2
<1>11. CASE RebuildBackup
  <2>1. TypeOK'
    <3>1. rg' \in [ba : 0 .. NB, lim : Blocks, ret : RangeReturns]
      BY <1>11, <1>r, <1>a, <1>m, RangeStarts
      DEF RebuildBackup, RebuildReturn, TypeOK, Places, RangeReturns
    <3>2. pc' \in Places
      BY <1>11, <1>r, RangeStarts
      DEF RebuildBackup, RebuildReturn, WriteRange, EraseRange, Places
    <3>3. mainBa' \in Blocks /\ backupBa' \in Blocks /\ mapBa' \in Blocks /\ topBa' \in Blocks /\ wba' \in Blocks
      BY <1>11, <1>r DEF RebuildBackup, RebuildReturn
    <3> QED
      BY <1>11, <3>1, <3>2, <3>3 DEF RebuildBackup, RebuildReturn, TypeOK
  <2>2. LocalsOk'
    BY <1>11, <1>r, <1>a, <1>m, RangeStarts
    DEF RebuildBackup, RebuildReturn, LocalsOk
  <2>3. PlacesInArea'
    BY <1>11, <1>r, <1>a, <1>m, RangeStarts
    DEF RebuildBackup, RebuildReturn, PlacesInArea, Laid, InArea
  <2>4. RangeInArea'
    BY <1>11, <1>r, <1>a, <1>m, RangeStarts
    DEF RebuildBackup, RebuildReturn, RangeInArea, Going
  <2>5. TablesKnown'
    BY <1>11, <1>r, <1>a, <1>m, RangeStarts
    DEF RebuildBackup, RebuildReturn, TablesKnown, Laid, Going
  <2> QED
    BY <2>1, <2>2, <2>3, <2>4, <2>5
<1>12. CASE RebuildErased
  <2>1. TypeOK'
    BY <1>12, <1>r, <1>a, <1>m DEF RebuildErased, RebuildReturn, TypeOK, Places
  <2>2. LocalsOk'
    BY <1>12, <1>r, <1>a, <1>m DEF RebuildErased, RebuildReturn, LocalsOk
  <2>3. PlacesInArea'
    BY <1>12, <1>r, <1>a, <1>m
    DEF RebuildErased, RebuildReturn, PlacesInArea, Laid, InArea
  <2>4. RangeInArea'
    BY <1>12, <1>r, <1>a, <1>m
    DEF RebuildErased, RebuildReturn, RangeInArea, Going
  <2>5. TablesKnown'
    BY <1>12, <1>r, <1>a, <1>m
    DEF RebuildErased, RebuildReturn, TablesKnown, Laid, Going
  <2> QED
    BY <2>1, <2>2, <2>3, <2>4, <2>5
<1> QED
  BY <1>1, <1>2, <1>3, <1>4, <1>5, <1>6, <1>7, <1>8, <1>9, <1>10, <1>11, <1>12
  DEF UpdateStep

\* the answer of a request leaves the locals unset
LEMMA ReturnType ==
  ASSUME Return
  PROVE  /\ pc' = "idle" /\ got' = None
         /\ rg' \in [ba : 0 .. NB, lim : Blocks, ret : RangeReturns]
         /\ got' \in 0 .. NB - 2 /\ wba' \in Blocks /\ uret' \in UpdateReturns
         /\ op' \in [lb : LBs \cup {Unmapped}, val : Values \cup {"none"}]
BY ChipFacts
DEF Return, ResetCtl, NoRange, NoOp, RangeReturns, UpdateReturns, None, Blocks

LEMMA LoadStepKeeps == IInv /\ LoadStep => IInv'
<1> SUFFICES ASSUME IInv, LoadStep PROVE IInv'
  OBVIOUS
<1> USE DEF chip, layout, table, attachV, ctl, ghost, bounds, IInv, None
<1>r. /\ mainBa \in Blocks /\ backupBa \in Blocks /\ mapBa \in Blocks
      /\ topBa \in Blocks /\ sigBa \in Blocks /\ wba \in Blocks /\ rg.lim \in Blocks
      /\ mainBa \in Int /\ backupBa \in Int /\ mapBa \in Int
      /\ topBa \in Int /\ sigBa \in Int /\ wba \in Int /\ rg.lim \in Int
      /\ \A b \in Blocks : b \in 0 .. NB /\ b + 1 \in 0 .. NB
      /\ got \in Int /\ got \in Blocks /\ got + 1 \in Blocks
      /\ MgmtStart \in Int /\ 0 < MgmtStart /\ MgmtStart \in Blocks
      /\ rg.ret \in RangeReturns /\ uret \in UpdateReturns
  BY ChipFacts DEF TypeOK, Blocks
<1>a. /\ MgmtStart <= topBa /\ topBa < sigBa /\ MgmtStart <= mapBa /\ mapBa < sigBa
      /\ mainBa # None => MgmtStart <= mainBa /\ mainBa < sigBa
      /\ backupBa # None => MgmtStart <= backupBa /\ backupBa < sigBa
      /\ got # None => MgmtStart <= got /\ got + 1 < sigBa
  BY DEF LoadStep, RescueFront, RescueNext, RescueNextLoop, RescueNextDone,
         UpdateSingle, UpdateSingleFails, LoadDone, PlacesInArea, Laid, InArea
<1>m. /\ pc \in {"rs_front", "rs_next", "rs_erased", "us_main", "us_backup", "ld_ok",
                 "ld_fail"} => mainBa # None
      /\ pc \in {"us_main", "us_backup"} => backupBa # None
      /\ pc = "rs_erased" => got # None
  BY DEF TablesKnown, RangeInArea, Laid, Going, UpdateReturns
<1>w. /\ TryReserve(st, mapBa, topBa - 1) \in Blocks
      /\ TryReserve(st, mapBa, topBa - 1) # None =>
           mapBa <= TryReserve(st, mapBa, topBa - 1)
      /\ TryReserve(st, mapBa, topBa - 1) \in Int
      /\ wba > mapBa => wba - 1 \in Blocks
  BY <1>r, TryReserveIn, ChipFacts DEF GoodIn, Blocks
<1>1. CASE RescueFront
  <2>1. TypeOK'
    <3>1. rg' \in [ba : 0 .. NB, lim : Blocks, ret : RangeReturns]
      BY <1>1, <1>r, <1>a, <1>m, RangeStarts
      DEF RescueFront, TypeOK, Places, RangeReturns
    <3>2. pc' \in Places
      BY <1>1, <1>r, RangeStarts DEF RescueFront, WriteRange, EraseRange, Places
    <3>3. mainBa' \in Blocks /\ backupBa' \in Blocks /\ mapBa' \in Blocks /\ topBa' \in Blocks /\ wba' \in Blocks
      BY <1>1, <1>r DEF RescueFront
    <3> QED
      BY <1>1, <3>1, <3>2, <3>3 DEF RescueFront, TypeOK
  <2>2. LocalsOk'
    BY <1>1, <1>r, <1>a, <1>m, RangeStarts DEF RescueFront, LocalsOk
  <2>3. PlacesInArea'
    BY <1>1, <1>r, <1>a, <1>m, RangeStarts
    DEF RescueFront, PlacesInArea, Laid, InArea
  <2>4. RangeInArea'
    BY <1>1, <1>r, <1>a, <1>m, RangeStarts DEF RescueFront, RangeInArea, Going
  <2>5. TablesKnown'
    BY <1>1, <1>r, <1>a, <1>m, RangeStarts
    DEF RescueFront, TablesKnown, Laid, Going
  <2> QED
    BY <2>1, <2>2, <2>3, <2>4, <2>5
<1>2. CASE RescueNext
  <2>1. TypeOK'
    <3>1. rg' \in [ba : 0 .. NB, lim : Blocks, ret : RangeReturns]
      BY <1>2, <1>r, <1>a, <1>m, <1>w, RangeStarts
      DEF RescueNext, TypeOK, Places, RangeReturns
    <3>2. pc' \in Places
      BY <1>2, <1>r, <1>w, RangeStarts
      DEF RescueNext, WriteRange, EraseRange, Places
    <3>3. mainBa' \in Blocks /\ backupBa' \in Blocks /\ mapBa' \in Blocks /\ topBa' \in Blocks /\ wba' \in Blocks
      BY <1>2, <1>r, <1>w DEF RescueNext
    <3> QED
      BY <1>2, <3>1, <3>2, <3>3 DEF RescueNext, TypeOK
  <2>2. LocalsOk'
    BY <1>2, <1>r, <1>a, <1>m, <1>w, RangeStarts DEF RescueNext, LocalsOk
  <2>3. PlacesInArea'
    BY <1>2, <1>r, <1>a, <1>m, <1>w, RangeStarts
    DEF RescueNext, PlacesInArea, Laid, InArea
  <2>4. RangeInArea'
    BY <1>2, <1>r, <1>a, <1>m, <1>w, RangeStarts
    DEF RescueNext, RangeInArea, Going
  <2>5. TablesKnown'
    BY <1>2, <1>r, <1>a, <1>m, <1>w, RangeStarts
    DEF RescueNext, TablesKnown, Laid, Going
  <2> QED
    BY <2>1, <2>2, <2>3, <2>4, <2>5
<1>3. CASE RescueNextLoop
  <2>1. TypeOK'
    <3>1. rg' \in [ba : 0 .. NB, lim : Blocks, ret : RangeReturns]
      BY <1>3, <1>r, <1>a, <1>m, <1>w, RangeStarts
      DEF RescueNextLoop, RetryBelow, TypeOK, Places, RangeReturns
    <3>2. pc' \in Places
      BY <1>3, <1>r, <1>w, RangeStarts
      DEF RescueNextLoop, RetryBelow, WriteRange, EraseRange, Places
    <3>3. mainBa' \in Blocks /\ backupBa' \in Blocks /\ mapBa' \in Blocks /\ topBa' \in Blocks /\ wba' \in Blocks
      BY <1>3, <1>r, <1>w DEF RescueNextLoop, RetryBelow
    <3> QED
      BY <1>3, <3>1, <3>2, <3>3 DEF RescueNextLoop, RetryBelow, TypeOK
  <2>2. LocalsOk'
    BY <1>3, <1>r, <1>a, <1>m, <1>w, RangeStarts
    DEF RescueNextLoop, RetryBelow, LocalsOk
  <2>3. PlacesInArea'
    BY <1>3, <1>r, <1>a, <1>m, <1>w, RangeStarts
    DEF RescueNextLoop, RetryBelow, PlacesInArea, Laid, InArea
  <2>4. RangeInArea'
    BY <1>3, <1>r, <1>a, <1>m, <1>w, RangeStarts
    DEF RescueNextLoop, RetryBelow, RangeInArea, Going
  <2>5. TablesKnown'
    BY <1>3, <1>r, <1>a, <1>m, <1>w, RangeStarts
    DEF RescueNextLoop, RetryBelow, WriteRange, EraseRange, TablesKnown, Laid,
        Going
  <2> QED
    BY <2>1, <2>2, <2>3, <2>4, <2>5
<1>4. CASE RescueNextDone
  <2>1. TypeOK'
    BY <1>4, <1>r, <1>a, <1>m DEF RescueNextDone, TypeOK, Places, RangeReturns
  <2>2. LocalsOk'
    BY <1>4, <1>r, <1>a, <1>m DEF RescueNextDone, LocalsOk
  <2>3. PlacesInArea'
    BY <1>4, <1>r, <1>a, <1>m DEF RescueNextDone, PlacesInArea, Laid, InArea
  <2>4. RangeInArea'
    BY <1>4, <1>r, <1>a, <1>m DEF RescueNextDone, RangeInArea, Going
  <2>5. TablesKnown'
    BY <1>4, <1>r, <1>a, <1>m DEF RescueNextDone, TablesKnown, Laid, Going
  <2> QED
    BY <2>1, <2>2, <2>3, <2>4, <2>5
<1>5. CASE UpdateSingle
  <2>1. TypeOK'
    <3>1. rg' \in [ba : 0 .. NB, lim : Blocks, ret : RangeReturns]
      BY <1>5, <1>r, <1>a, <1>m DEF UpdateSingle, TypeOK, Places
    <3>2. pc' \in Places
      BY <1>5, <1>r
      DEF UpdateSingle, WriteRange, EraseRange, Places, RangeReturns
    <3>3. mainBa' \in Blocks /\ backupBa' \in Blocks /\ mapBa' \in Blocks /\ topBa' \in Blocks /\ wba' \in Blocks
      BY <1>5, <1>r DEF UpdateSingle
    <3> QED
      BY <1>5, <3>2, <3>3 DEF UpdateSingle, TypeOK
  <2>2. LocalsOk'
    BY <1>5, <1>r, <1>a, <1>m DEF UpdateSingle, LocalsOk
  <2>3. PlacesInArea'
    BY <1>5, <1>r, <1>a, <1>m DEF UpdateSingle, PlacesInArea, Laid, InArea
  <2>4. RangeInArea'
    BY <1>5, <1>r, <1>a, <1>m DEF UpdateSingle, RangeInArea, Going
  <2>5. TablesKnown'
    BY <1>5, <1>r, <1>a, <1>m DEF UpdateSingle, TablesKnown, Laid, Going
  <2> QED
    BY <2>1, <2>2, <2>3, <2>4, <2>5
<1>6. CASE UpdateSingleFails
  <2>1. TypeOK'
    <3>1. rg' \in [ba : 0 .. NB, lim : Blocks, ret : RangeReturns]
      BY <1>6, <1>r, <1>a, <1>m, RangeStarts
      DEF UpdateSingleFails, TypeOK, Places, RangeReturns
    <3>2. pc' \in Places
      BY <1>6, <1>r, RangeStarts
      DEF UpdateSingleFails, WriteRange, EraseRange, Places
    <3>3. mainBa' \in Blocks /\ backupBa' \in Blocks /\ mapBa' \in Blocks /\ topBa' \in Blocks /\ wba' \in Blocks
      BY <1>6, <1>r DEF UpdateSingleFails
    <3> QED
      BY <1>6, <3>1, <3>2, <3>3 DEF UpdateSingleFails, TypeOK
  <2>2. LocalsOk'
    BY <1>6, <1>r, <1>a, <1>m, RangeStarts DEF UpdateSingleFails, LocalsOk
  <2>3. PlacesInArea'
    BY <1>6, <1>r, <1>a, <1>m, RangeStarts
    DEF UpdateSingleFails, PlacesInArea, Laid, InArea
  <2>4. RangeInArea'
    BY <1>6, <1>r, <1>a, <1>m, RangeStarts
    DEF UpdateSingleFails, RangeInArea, Going
  <2>5. TablesKnown'
    BY <1>6, <1>r, <1>a, <1>m, RangeStarts
    DEF UpdateSingleFails, TablesKnown, Laid, Going
  <2> QED
    BY <2>1, <2>2, <2>3, <2>4, <2>5
<1>7. CASE LoadDone
  <2>1. /\ Return
        /\ UNCHANGED <<chip, layout, table, cache, dataCount, sigBa, ghost, bounds>>
    BY <1>7 DEF LoadDone
  <2>2. protected' \in BOOLEAN
    BY <1>7, Zenon DEF LoadDone
  <2>3. pc' \in Places
    BY <2>1, ReturnType DEF Places, RangeReturns
  <2>4. TypeOK'
    BY <2>1, <2>2, <2>3, ReturnType DEF TypeOK
  <2>5. LocalsOk' /\ RangeInArea'
    BY <2>1, ReturnType DEF LocalsOk, RangeInArea, Going
  <2>6. PlacesInArea'
    BY <2>1, <1>a, ReturnType DEF PlacesInArea, Laid, InArea
  <2>7. TablesKnown'
    BY <1>7, <2>1, <1>m, ReturnType DEF LoadDone, TablesKnown, Laid, Going
  <2> QED
    BY <2>4, <2>5, <2>6, <2>7
<1> QED
  BY <1>1, <1>2, <1>3, <1>4, <1>5, <1>6, <1>7 DEF LoadStep

LEMMA WalkDescOneIn ==
  ASSUME NEW s, NEW ba \in Int, NEW lim \in Int
  PROVE  /\ WalkDescOne(s, ba, lim) \in Blocks
         /\ WalkDescOne(s, ba, lim) # None =>
              lim < WalkDescOne(s, ba, lim) /\ WalkDescOne(s, ba, lim) < ba
<1> DEFINE b == WalkDesc(s, ba, lim)
<1>1. b \in Blocks /\ (b # None => b <= ba) /\ b \in Int
  BY WalkDescIn, ChipFacts DEF GoodIn
<1>2. /\ WalkDesc(s, b - 1, lim) \in Blocks
      /\ (WalkDesc(s, b - 1, lim) # None =>
            lim < WalkDesc(s, b - 1, lim) /\ WalkDesc(s, b - 1, lim) < b)
      /\ WalkDesc(s, b - 1, lim) \in Int
  BY WalkDescIn, ChipFacts DEF GoodIn
<1>3. WalkDescOne(s, ba, lim) = IF b = None THEN None ELSE WalkDesc(s, b - 1, lim)
  BY DEF WalkDescOne
<1> HIDE DEF b
<1> QED
  BY <1>1, <1>2, <1>3

LEMMA CreateStepKeeps == IInv /\ CreateStep => IInv'
<1> SUFFICES ASSUME IInv, CreateStep PROVE IInv'
  OBVIOUS
<1> USE DEF chip, layout, table, attachV, ctl, ghost, bounds, IInv, None
<1>r. /\ mainBa \in Blocks /\ backupBa \in Blocks /\ mapBa \in Blocks
      /\ topBa \in Blocks /\ sigBa \in Blocks /\ wba \in Blocks /\ rg.lim \in Blocks
      /\ mainBa \in Int /\ backupBa \in Int /\ mapBa \in Int
      /\ topBa \in Int /\ sigBa \in Int /\ wba \in Int /\ rg.lim \in Int
      /\ \A b \in Blocks : b \in 0 .. NB /\ b + 1 \in 0 .. NB
      /\ got \in Int /\ got \in Blocks /\ got + 1 \in Blocks
      /\ MgmtStart \in Int /\ 0 < MgmtStart /\ MgmtStart \in Blocks
      /\ rg.ret \in RangeReturns /\ uret \in UpdateReturns
  BY ChipFacts DEF TypeOK, Blocks
<1>a. pc \in {"c_map", "c_close", "c_end"} =>
      /\ MgmtStart <= topBa /\ topBa < sigBa /\ MgmtStart <= mapBa /\ mapBa < sigBa
      /\ mainBa # None => MgmtStart <= mainBa /\ mainBa < sigBa
      /\ backupBa # None => MgmtStart <= backupBa /\ backupBa < sigBa
      /\ got # None => MgmtStart <= got /\ got + 1 < sigBa
  BY DEF PlacesInArea, Laid, InArea
<1>m. /\ pc \in {"sig", "sig_prog", "create"} => got = None
      /\ pc = "c_map" => mainBa # None
  BY DEF PlacesInArea, TablesKnown, Laid, Going, UpdateReturns
<1>l. pc = "sig_prog" => rg.ba \in Blocks /\ rg.ba # None /\ rg.ba - 1 \in 0 .. NB
  BY ChipFacts DEF LocalsOk, Blocks
<1>s. /\ SigHere \in Blocks /\ SigHere \in 0 .. NB
      /\ SigHere # None => SigHere - 1 \in 0 .. NB
  BY WalkDescIn, ChipFacts DEF SigHere, Blocks
<1>t. /\ WalkDescOne(st, sigBa, MgmtStart) \in Blocks
      /\ WalkDescOne(st, sigBa, MgmtStart) \in Int
      /\ WalkDescOne(st, sigBa, MgmtStart) # None =>
           /\ MgmtStart <= WalkDescOne(st, sigBa, MgmtStart)
           /\ WalkDescOne(st, sigBa, MgmtStart) < sigBa
  <2>1. /\ sigBa \in Int /\ MgmtStart \in Int
        /\ \A b \in Blocks : b \in Int
    BY <1>r
  <2>2. /\ WalkDescOne(st, sigBa, MgmtStart) \in Blocks
        /\ WalkDescOne(st, sigBa, MgmtStart) # None =>
             /\ MgmtStart < WalkDescOne(st, sigBa, MgmtStart)
             /\ WalkDescOne(st, sigBa, MgmtStart) < sigBa
    BY <2>1, WalkDescOneIn
  <2> QED
    BY <2>1, <2>2
<1>c. Generate(cache.wc, st, mp, changed) \in InfoTable
  BY TableType DEF TypeOK, InfoTable
<1>1. CASE SigErase
  <2>1. TypeOK'
    <3>1. rg' \in [ba : 0 .. NB, lim : Blocks, ret : RangeReturns]
      BY <1>1, <1>r, <1>a, <1>m, <1>s DEF SigErase, TypeOK, Places
    <3>2. pc' \in Places
      BY <1>1, <1>r, <1>s DEF SigErase, WriteRange, EraseRange, Places
    <3>3. mainBa' \in Blocks /\ backupBa' \in Blocks /\ mapBa' \in Blocks /\ topBa' \in Blocks /\ wba' \in Blocks
      BY <1>1, <1>r, CellFacts DEF SigErase
    <3> QED
      BY <1>1, <3>1, <3>2, <3>3, CellFacts DEF SigErase, TypeOK, UpdateReturns
  <2>2. LocalsOk'
    BY <1>1, <1>r, <1>a, <1>m, <1>s DEF SigErase, LocalsOk
  <2>3. PlacesInArea'
    BY <1>1, <1>r, <1>a, <1>m, <1>s DEF SigErase, PlacesInArea, Laid, InArea
  <2>4. RangeInArea'
    BY <1>1, <1>r, <1>a, <1>m, <1>s DEF SigErase, RangeInArea, Going
  <2>5. TablesKnown'
    BY <1>1, <1>r, <1>a, <1>m, <1>s DEF SigErase, TablesKnown, Laid, Going
  <2> QED
    BY <2>1, <2>2, <2>3, <2>4, <2>5
<1>2. CASE SigProgram
  <2>1. TypeOK'
    <3>1. rg' \in [ba : 0 .. NB, lim : Blocks, ret : RangeReturns]
      BY <1>2, <1>r, <1>a, <1>m, CellFacts, <1>l DEF SigProgram, TypeOK, Places
    <3>2. pc' \in Places
      BY <1>2, <1>r, CellFacts, <1>l
      DEF SigProgram, WriteRange, EraseRange, Places
    <3>3. mainBa' \in Blocks /\ backupBa' \in Blocks /\ mapBa' \in Blocks /\ topBa' \in Blocks /\ wba' \in Blocks
      BY <1>2, <1>r, <1>l, CellFacts DEF SigProgram
    <3> QED
      BY <1>2, <3>1, <3>2, <3>3, <1>l, CellFacts DEF SigProgram, TypeOK
  <2>2. LocalsOk'
    BY <1>2, <1>r, <1>a, <1>m, CellFacts DEF SigProgram, LocalsOk
  <2>3. PlacesInArea'
    BY <1>2, <1>r, <1>a, <1>m, CellFacts
    DEF SigProgram, PlacesInArea, Laid, InArea
  <2>4. RangeInArea'
    BY <1>2, <1>r, <1>a, <1>m, CellFacts DEF SigProgram, RangeInArea, Going
  <2>5. TablesKnown'
    BY <1>2, <1>r, <1>a, <1>m, CellFacts
    DEF SigProgram, TablesKnown, Laid, Going
  <2> QED
    BY <2>1, <2>2, <2>3, <2>4, <2>5
<1>3. CASE SigFails
  <2>1. TypeOK'
    <3>1. rg' \in [ba : 0 .. NB, lim : Blocks, ret : RangeReturns]
      BY <1>3, <1>r, <1>a, <1>m, <1>s, <1>l, NextBlockType
      DEF SigFails, Fails, TypeOK, Places
    <3>2. pc' \in Places
      BY <1>3, <1>r, <1>s, <1>l, NextBlockType
      DEF SigFails, Fails, WriteRange, EraseRange, Places
    <3>3. mainBa' \in Blocks /\ backupBa' \in Blocks /\ mapBa' \in Blocks /\ topBa' \in Blocks /\ wba' \in Blocks
      BY <1>3, <1>r, <1>l, FailsType DEF SigFails, Fails
    <3> QED
      BY <1>3, <3>1, <3>2, <3>3, <1>l, FailsType
      DEF SigFails, Fails, TypeOK, UpdateReturns
  <2>2. LocalsOk'
    BY <1>3, <1>r, <1>a, <1>m, <1>s, <1>l, NextBlockType
    DEF SigFails, Fails, LocalsOk
  <2>3. PlacesInArea'
    BY <1>3, <1>r, <1>a, <1>m, <1>s, <1>l, NextBlockType
    DEF SigFails, Fails, PlacesInArea, Laid, InArea
  <2>4. RangeInArea'
    BY <1>3, <1>r, <1>a, <1>m, <1>s, <1>l, NextBlockType
    DEF SigFails, Fails, RangeInArea, Going
  <2>5. TablesKnown'
    BY <1>3, <1>r, <1>a, <1>m, <1>s, <1>l, NextBlockType
    DEF SigFails, Fails, TablesKnown, Laid, Going
  <2> QED
    BY <2>1, <2>2, <2>3, <2>4, <2>5
<1>4. CASE CreateTables
  <2>1. TypeOK'
    <3>1. rg' \in [ba : 0 .. NB, lim : Blocks, ret : RangeReturns]
      BY <1>4, <1>r, <1>a, <1>m, <1>t, RangeStarts, ChipFacts
      DEF CreateTables, Regenerate, StartRebuild, TypeOK, Places, RangeReturns
    <3>2. pc' \in Places
      BY <1>4, <1>r, <1>t, RangeStarts, ChipFacts
      DEF CreateTables, Regenerate, StartRebuild, WriteRange, EraseRange, Places
    <3>3. mainBa' \in Blocks /\ backupBa' \in Blocks /\ mapBa' \in Blocks /\ topBa' \in Blocks /\ wba' \in Blocks
      BY <1>4, <1>r, <1>t, <1>c, ChipFacts
      DEF CreateTables, Regenerate, StartRebuild
    <3> QED
      BY <1>4, <3>1, <3>2, <3>3, <1>t, <1>c
      DEF CreateTables, Regenerate, StartRebuild, TypeOK, UpdateReturns
  <2>2. LocalsOk'
    BY <1>4, <1>r, <1>a, <1>m, <1>t, RangeStarts, ChipFacts
    DEF CreateTables, Regenerate, StartRebuild, LocalsOk
  <2>3. PlacesInArea'
    BY <1>4, <1>r, <1>a, <1>m, <1>t, RangeStarts, ChipFacts
    DEF CreateTables, Regenerate, StartRebuild, PlacesInArea, Laid, InArea
  <2>4. RangeInArea'
    BY <1>4, <1>r, <1>a, <1>m, <1>t, RangeStarts, ChipFacts
    DEF CreateTables, Regenerate, StartRebuild, RangeInArea, Going
  <2>5. TablesKnown'
    BY <1>4, <1>r, <1>a, <1>m, <1>t, RangeStarts, ChipFacts
    DEF CreateTables, Regenerate, StartRebuild, TablesKnown, Laid, Going
  <2> QED
    BY <2>1, <2>2, <2>3, <2>4, <2>5
<1>5. CASE CreateFails
  <2> QED
    BY <1>5, ForgetKeeps DEF CreateFails, TypeOK
<1>6. CASE CreateEnd
  <2>1. TypeOK'
    <3>1. rg' \in [ba : 0 .. NB, lim : Blocks, ret : RangeReturns]
      BY <1>6, <1>r, <1>a, <1>m DEF CreateEnd, Update, TypeOK, Places
    <3>2. pc' \in Places
      BY <1>6, <1>r DEF CreateEnd, Update, WriteRange, EraseRange, Places
    <3>3. mainBa' \in Blocks /\ backupBa' \in Blocks /\ mapBa' \in Blocks /\ topBa' \in Blocks /\ wba' \in Blocks
      BY <1>6, <1>r DEF CreateEnd, Update
    <3> QED
      BY <1>6, <3>1, <3>2, <3>3 DEF CreateEnd, Update, TypeOK, UpdateReturns
  <2>2. LocalsOk'
    BY <1>6, <1>r, <1>a, <1>m DEF CreateEnd, Update, LocalsOk
  <2>3. PlacesInArea'
    BY <1>6, <1>r, <1>a, <1>m DEF CreateEnd, Update, PlacesInArea, Laid, InArea
  <2>4. RangeInArea'
    BY <1>6, <1>r, <1>a, <1>m DEF CreateEnd, Update, RangeInArea, Going
  <2>5. TablesKnown'
    BY <1>6, <1>r, <1>a, <1>m DEF CreateEnd, Update, TablesKnown, Laid, Going
  <2> QED
    BY <2>1, <2>2, <2>3, <2>4, <2>5
<1>7. CASE CreateDone
  <2>1. Return
    BY <1>7 DEF CreateDone
  <2>2. TypeOK'
    BY <1>7, <2>1, ReturnType DEF CreateDone, TypeOK, Places, RangeReturns
  <2>3. LocalsOk' /\ RangeInArea'
    BY <2>1, ReturnType DEF LocalsOk, RangeInArea, Going
  <2>4. PlacesInArea'
    BY <1>7, <2>1, ReturnType DEF CreateDone, PlacesInArea, Laid, InArea
  <2>5. TablesKnown'
    BY <1>7, <2>1, ReturnType
    DEF CreateDone, TablesKnown, Laid, Going, UpdateReturns
  <2> QED
    BY <2>2, <2>3, <2>4, <2>5
<1> QED
  BY <1>1, <1>2, <1>3, <1>4, <1>5, <1>6, <1>7 DEF CreateStep

\* a step of a request that leaves the tables where they are
LEMMA RequestKeeps ==
  ASSUME IInv, TypeOK',
         UNCHANGED <<mainBa, backupBa, mapBa, sigBa, protected>>,
         topBa' = topBa \/ topBa' = mapBa \/ (topBa' = topBa - 1 /\ mapBa < topBa),
         got' = got \/ got' = None,
         pc \in {"idle", "e_try", "e_map", "e_close", "p_try", "bad", "c_map"},
         pc' \in {"idle", "e_try", "e_map", "p_try", "bad", "update"}
           \/ pc' = pc,
         pc' = "p_try" => op'.lb \in LBs /\ op'.val \in Values
  PROVE  IInv'
<1> USE DEF IInv
<1>r. mapBa \in Int /\ topBa \in Int /\ sigBa \in Int /\ MgmtStart \in Int
  BY Numbers
<1>1. LocalsOk' /\ RangeInArea'
  BY DEF LocalsOk, RangeInArea, Going
<1>2. PlacesInArea'
  BY <1>r DEF PlacesInArea, Laid, InArea
<1>3. TablesKnown'
  BY DEF TablesKnown, Laid, Going, UpdateReturns
<1> QED
  BY <1>1, <1>2, <1>3

LEMMA EraseStepKeeps == IInv /\ (EraseStep) => IInv'
<1> SUFFICES ASSUME IInv, EraseStep PROVE IInv'
  OBVIOUS
<1> USE DEF chip, layout, table, attachV, ctl, ghost, bounds, IInv
<1>t. TypeOK
  OBVIOUS
<1>s. SpareBlock \in Blocks /\ (SpareBlock # None => mapBa < topBa)
  BY WalkDescIn, ChipFacts DEF SpareBlock, TypeOK, GoodIn
<1>1. CASE EraseRemaps
  <2>1. TypeOK'
    <3>1. st' \in [Blocks -> States] /\ changed' \in BOOLEAN
      <4>1. CASE Usable
        BY <1>1, <4>1 DEF EraseRemaps, TypeOK, States
      <4>2. CASE ~Usable
        BY <1>1, <4>2 DEF EraseRemaps, TypeOK
      <4> QED
        BY <4>1, <4>2
    <3>2. pc' \in Places
      BY <1>1 DEF EraseRemaps, Places
    <3> QED
      BY <1>1, <3>1, <3>2 DEF EraseRemaps, TypeOK
  <2> QED
    BY <1>1, <2>1, RequestKeeps, <1>t DEF EraseRemaps
<1>2. CASE EraseOk
  <2>1. TypeOK'
    <3>1. cells' \in [Blocks -> Cell] /\ acked' \in [LBs -> Values \cup {"empty", "unknown", "bad"}]
      BY <1>2, CellFacts DEF EraseOk, Answer, TypeOK
    <3> QED
      BY <1>2, <3>1, ReturnType DEF EraseOk, TypeOK, Places, RangeReturns
  <2> QED
    BY <1>2, <2>1, RequestKeeps, <1>t, ReturnType DEF EraseOk, Answer
<1>3. CASE EraseFails
  <2>1. TypeOK'
    BY <1>3, FailsType DEF EraseFails, Fails, TypeOK, Places
  <2> QED
    BY <1>3, <2>1, RequestKeeps, <1>t DEF EraseFails, Fails
<1>4. CASE MapBlock
  <2>1. TypeOK'
    <3>1. mp' \in [LBs -> Blocks \cup {Unmapped}] /\ changed' \in BOOLEAN
      BY <1>4, <1>s DEF MapBlock, MapReturn, BlocksLeft, TypeOK
    <3>4. topBa' \in Blocks
      BY <1>4, <1>s, Numbers DEF MapBlock, MapReturn, BlocksLeft, CanMap, Blocks
    <3>2. stepped' \in BOOLEAN
      BY <1>4, Zenon DEF MapBlock, MapReturn, BlocksLeft, TypeOK
    <3>3. dataCount' \in 0 .. MgmtStart /\ pc' \in Places /\ uret' \in UpdateReturns
      BY <1>4, ChipFacts
      DEF MapBlock, MapReturn, BlocksLeft, Update, TypeOK, Places, UpdateReturns
    <3> QED
      BY <1>4, <3>1, <3>2, <3>3, <3>4
      DEF MapBlock, MapReturn, BlocksLeft, TypeOK
  <2> QED
    BY <1>4, <2>1, RequestKeeps, <1>t, <1>s
    DEF MapBlock, MapReturn, BlocksLeft, Update, CanMap
<1>5. CASE MapBlockNone
  <2>1. TypeOK'
    BY <1>5, <1>t DEF MapBlockNone, Update, TypeOK, Places, UpdateReturns
  <2> QED
    BY <1>5, <2>1, RequestKeeps, <1>t DEF MapBlockNone, Update
<1>6. CASE EraseUnmaps
  <2>1. TypeOK'
    BY <1>6, <1>t, ChipFacts
    DEF EraseUnmaps, Update, TypeOK, Places, UpdateReturns
  <2> QED
    BY <1>6, <2>1, RequestKeeps, <1>t DEF EraseUnmaps, Update
<1> QED
  BY <1>1, <1>2, <1>3, <1>4, <1>5, <1>6 DEF EraseStep

LEMMA OtherStepKeeps == IInv /\ (WriteStep \/ OpRefused \/ ReportBad \/ EndDetach) => IInv'
<1> SUFFICES ASSUME IInv, WriteStep \/ OpRefused \/ ReportBad \/ EndDetach PROVE IInv'
  OBVIOUS
<1> USE DEF chip, layout, table, attachV, ctl, ghost, bounds, IInv
<1>t. TypeOK
  OBVIOUS
<1>1. CASE WriteOk
  <2>1. TypeOK'
    <3>1. op.lb \in LBs /\ op.val \in Values
      BY <1>1 DEF WriteOk, LocalsOk
    <3>2. cells' \in [Blocks -> Cell]
      <4>1. [kind |-> "data", lb |-> op.lb, val |-> op.val] \in Cell
        BY <3>1, CellFacts
      <4> QED
        BY <1>1, <4>1 DEF WriteOk, TypeOK
    <3>3. acked' \in [LBs -> Values \cup {"empty", "unknown", "bad"}]
      BY <1>1, <3>1 DEF WriteOk, Answer, TypeOK
    <3> QED
      BY <1>1, <3>2, <3>3, ReturnType DEF WriteOk, TypeOK, Places, RangeReturns
  <2> QED
    BY <1>1, <2>1, RequestKeeps, <1>t, ReturnType DEF WriteOk, Answer
<1>2. CASE WriteFails
  <2>1. TypeOK'
    <3>1. /\ cells' \in [Blocks -> Cell] /\ st' \in [Blocks -> States]
          /\ faults' \in 0 .. MaxFaults
      BY <1>2, CellFacts, ChipAssumption DEF WriteFails, MayFail, TypeOK, States
    <3>2. changed' \in BOOLEAN
      BY <1>2, Zenon DEF WriteFails
    <3>3. pc' \in Places /\ uret' \in UpdateReturns
      BY <1>2 DEF WriteFails, Update, Places, UpdateReturns
    <3> QED
      BY <1>2, <3>1, <3>2, <3>3 DEF WriteFails, TypeOK
  <2> QED
    BY <1>2, <2>1, RequestKeeps, <1>t DEF WriteFails, Update, MayFail
<1>3. CASE OpRefused
  <2>1. TypeOK'
    <3>1. acked' \in [LBs -> Values \cup {"empty", "unknown", "bad"}]
      BY <1>3 DEF OpRefused, Answer, TypeOK
    <3> QED
      BY <1>3, <3>1, ReturnType DEF OpRefused, TypeOK, Places, RangeReturns
  <2> QED
    BY <1>3, <2>1, RequestKeeps, <1>t, ReturnType DEF OpRefused, Answer
<1>4. CASE ReportBad
  <2>1. TypeOK'
    <3>1. acked' \in [LBs -> Values \cup {"empty", "unknown", "bad"}]
      BY <1>4 DEF ReportBad, Answer, TypeOK
    <3> QED
      BY <1>4, <3>1, ReturnType DEF ReportBad, TypeOK, Places, RangeReturns
  <2> QED
    BY <1>4, <2>1, RequestKeeps, <1>t, ReturnType DEF ReportBad, Answer
<1>5. CASE EndDetach
  <2> QED
    BY <1>5, ForgetKeeps DEF EndDetach, TypeOK
<1> QED
  BY <1>1, <1>2, <1>3, <1>4, <1>5 DEF WriteStep

LEMMA Stutter == IInv /\ UNCHANGED vars => IInv'
BY DEF vars, chip, layout, table, attachV, ctl, ghost, bounds, IInv, TypeOK,
       LocalsOk, PlacesInArea, RangeInArea, TablesKnown, Laid, InArea, Going

LEMMA PowerCutKeeps == IInv /\ PowerCut => IInv'
<1> SUFFICES ASSUME IInv, PowerCut PROVE IInv'
  OBVIOUS
<1>1. cells' \in [Blocks -> Cell]
  BY CellFacts DEF PowerCut, IInv, TypeOK
<1>2. crashes' \in 0 .. MaxCrashes
  BY ChipAssumption DEF PowerCut, IInv, TypeOK
<1> QED
  BY <1>1, <1>2, ForgetKeeps DEF PowerCut, IInv, TypeOK, ghost

LEMMA RequestStepKeeps == IInv /\ Request => IInv'
<1> SUFFICES ASSUME IInv, Request PROVE IInv'
  OBVIOUS
<1> USE DEF chip, layout, table, attachV, ctl, ghost, bounds, IInv
<1>t. TypeOK
  OBVIOUS
<1>1. ASSUME NEW lb \in LBs, BeginErase(lb) PROVE IInv'
  <2>0. BeginErase(lb)
    BY <1>1
  <2>1. TypeOK'
    <3>1. /\ op' \in [lb : LBs \cup {Unmapped}, val : Values \cup {"none"}]
          /\ acked' \in [LBs -> Values \cup {"empty", "unknown", "bad"}]
      BY <2>0 DEF BeginErase, Begin, TypeOK
    <3> QED
      BY <2>0, <3>1 DEF BeginErase, TypeOK, Places, UpdateReturns
  <2> QED
    BY <2>0, <2>1, <1>t, RequestKeeps DEF BeginErase, Begin, Served
<1>2. ASSUME NEW lb \in LBs, NEW v \in Values, BeginWrite(lb, v) PROVE IInv'
  <2>0. BeginWrite(lb, v)
    BY <1>2
  <2>1. TypeOK'
    <3>1. /\ op' \in [lb : LBs \cup {Unmapped}, val : Values \cup {"none"}]
          /\ acked' \in [LBs -> Values \cup {"empty", "unknown", "bad"}]
      BY <2>0 DEF BeginWrite, Begin, TypeOK
    <3> QED
      BY <2>0, <3>1 DEF BeginWrite, TypeOK, Places
  <2> QED
    BY <2>0, <2>1, <1>t, RequestKeeps DEF BeginWrite, Begin, Served
<1>3. ASSUME NEW lb \in LBs, MarkBlockBad(lb) PROVE IInv'
  <2>0. MarkBlockBad(lb)
    BY <1>3
  <2>1. /\ op' \in [lb : LBs \cup {Unmapped}, val : Values \cup {"none"}]
        /\ acked' \in [LBs -> Values \cup {"empty", "unknown", "bad"}]
    BY <2>0 DEF MarkBlockBad, Begin, TypeOK
  <2>2. CASE mp[lb] = Unmapped
    <3>1. TypeOK'
      BY <2>0, <2>1, <2>2 DEF MarkBlockBad, TypeOK, Places, UpdateReturns
    <3> QED
      BY <2>0, <2>2, <3>1, <1>t, RequestKeeps DEF MarkBlockBad, Served
  <2>3. CASE mp[lb] # Unmapped
    <3>1. /\ badmark' \subseteq Blocks /\ st' \in [Blocks -> States]
          /\ mp' \in [LBs -> Blocks \cup {Unmapped}]
      BY <2>0, <2>3 DEF MarkBlockBad, TypeOK, States
    <3>2. changed' \in BOOLEAN
      BY <2>0, <2>3, Zenon DEF MarkBlockBad
    <3>3. pc' = "update" /\ uret' = "bad"
      BY <2>0, <2>3 DEF MarkBlockBad, Update
    <3>4. TypeOK'
      BY <2>0, <2>1, <3>1, <3>2, <3>3
      DEF MarkBlockBad, TypeOK, Places, UpdateReturns
    <3> QED
      BY <2>0, <3>3, <3>4, <1>t, RequestKeeps DEF MarkBlockBad, Served
  <2> QED
    BY <2>2, <2>3
<1>4. CASE BeginDetach
  <2>1. TypeOK'
    BY <1>4 DEF BeginDetach, Update, TypeOK, Places, UpdateReturns
  <2> QED
    BY <1>4, <2>1, <1>t, RequestKeeps DEF BeginDetach, Update
<1>5. CASE Read
  BY <1>5, Stutter DEF Read
<1> QED
  BY <1>1, <1>2, <1>3, <1>4, <1>5 DEF Request


-----------------------------------------------------------------------------
(* What an attach finds. *)

\* the unmapped area of a loaded table lies between its block and the signature
LEMMA TopOfIn ==
  ASSUME NEW t \in InfoTable, NEW sig \in Blocks, NEW c \in Nat, c < sig
  PROVE  TopOf(t, c, sig) \in Blocks /\ c <= TopOf(t, c, sig) /\ TopOf(t, c, sig) < sig
<1> DEFINE S == {sig} \cup {t.mp[l] : l \in {k \in LBs : t.mp[k] > c}}
<1>1. \A k \in LBs : t.mp[k] \in Blocks \cup {Unmapped}
  BY DEF InfoTable
<1>2. \A b \in S : b \in Int /\ c < b
  BY <1>1, ChipFacts DEF Unmapped
<1>3. S \subseteq Nat /\ sig \in S
  BY <1>2
<1>4. Lowest(S) \in S /\ Lowest(S) <= sig
  BY <1>3, LowestExists
<1>5. TopOf(t, c, sig) = Lowest(S) - 1
  BY DEF TopOf
<1> HIDE DEF S
<1>6. Lowest(S) \in Int /\ c < Lowest(S)
  BY <1>2, <1>4
<1> QED
  BY <1>4, <1>5, <1>6, ChipFacts DEF Blocks

LEMMA SearchTableIn ==
  ASSUME NEW start \in Int, NEW s, NEW sig \in Int, SearchTable(start, s, sig) # None
  PROVE  /\ SearchTable(start, s, sig) \in start .. sig - 2
         /\ Loads(SearchTable(start, s, sig), s, sig)
BY LowestIn DEF SearchTable

LEMMA LoadType ==
  ASSUME cells \in [Blocks -> Cell], NEW sig \in Blocks,
         NEW first \in MgmtStart .. sig - 2, cells[first].kind = "table",
         NEW second \in {None} \cup first + 1 .. sig - 2,
         second # None => cells[second].kind = "table"
  PROVE  LET d == Load(first, second, sig) IN
         /\ d.st \in [Blocks -> States] /\ d.mp \in [LBs -> Blocks \cup {Unmapped}]
         /\ d.wc \in Nat /\ d.count \in 0 .. MgmtStart /\ d.end \in Blocks
         /\ MgmtStart <= d.end /\ d.end < sig
         /\ d.top \in Blocks /\ MgmtStart <= d.top /\ d.top < sig
         /\ d.uneven => second # None
<1> DEFINE newer == second # None /\ cells[second].wc > cells[first].wc
           best == IF newer THEN cells[second] ELSE cells[first]
           home == IF newer THEN second ELSE first
           mapped == {l \in LBs : best.mp[l] # Unmapped}
           d == Load(first, second, sig)
<1>1. /\ first \in Blocks /\ (second # None => second \in Blocks) /\ first \in Nat
      /\ sig \in Nat /\ MgmtStart \in Nat /\ None = 0
  BY ChipFacts DEF Blocks, None
<1>2. cells[first] \in InfoTable /\ (second # None => cells[second] \in InfoTable)
  BY <1>1, CellFacts
<1>3. best \in InfoTable
  BY <1>2
<1>4. home \in Nat /\ MgmtStart <= home /\ home < sig
  BY <1>1
<1>5. TopOf(best, home, sig) \in Blocks /\ MgmtStart <= TopOf(best, home, sig)
      /\ TopOf(best, home, sig) < sig
  <2> HIDE DEF best, home
  <2>1. /\ TopOf(best, home, sig) \in Blocks /\ home <= TopOf(best, home, sig)
        /\ TopOf(best, home, sig) < sig
    BY <1>3, <1>4, TopOfIn
  <2>2. TopOf(best, home, sig) \in Int
    BY <2>1, ChipFacts
  <2> QED
    BY <2>1, <2>2, <1>1, <1>4
<1>6. (IF mapped = {} THEN MgmtStart ELSE Highest(mapped) + 1) \in 0 .. MgmtStart
  <2>1. Highest(mapped) \in mapped \cup {None}
    BY HighestIn
  <2>2. mapped \subseteq LBs
    OBVIOUS
  <2> HIDE DEF mapped
  <2>3. Highest(mapped) \in LBs \cup {None}
    BY <2>1, <2>2
  <2>4. \A x \in LBs \cup {None} : x + 1 \in 0 .. MgmtStart
    BY <1>1, ChipFacts DEF LBs
  <2>5. Highest(mapped) + 1 \in 0 .. MgmtStart
    BY <2>3, <2>4
  <2> QED
    BY <2>5, <1>1
<1>7. \A s \in [Blocks -> States] : \A B : MarkBad(s, B) \in [Blocks -> States]
  BY DEF MarkBad, States
<1>8. /\ d.mp = best.mp /\ d.wc = best.wc /\ d.top = TopOf(best, home, sig)
      /\ d.count = IF mapped = {} THEN MgmtStart ELSE Highest(mapped) + 1
      /\ d.end = (IF second = None THEN first ELSE second) + 1
  BY DEF Load
<1>9. d.st \in [Blocks -> States]
  <2>1. /\ cells[first].st \in [Blocks -> States]
        /\ newer => best.st \in [Blocks -> States]
    BY <1>2 DEF InfoTable
  <2>2. d.st = IF newer THEN best.st
               ELSE MarkBad(cells[first].st,
                            Passed(first + 1, second, cells[first].st, sig))
    BY DEF Load
  <2> HIDE DEF d, newer, best
  <2> QED
    BY <2>1, <2>2, <1>7
<1>10. best.mp \in [LBs -> Blocks \cup {Unmapped}] /\ best.wc \in Nat
  <2> HIDE DEF best
  <2> QED
    BY <1>3 DEF InfoTable
<1>11. d.uneven => second # None
  BY DEF Load
<1>12. d.end \in Blocks /\ MgmtStart <= d.end /\ d.end < sig
  <2> HIDE DEF d
  <2> QED
    BY <1>8, ChipFacts DEF Blocks
<1> HIDE DEF d, best, home, mapped
<1>13. /\ d.st \in [Blocks -> States] /\ d.mp \in [LBs -> Blocks \cup {Unmapped}]
       /\ d.wc \in Nat /\ d.count \in 0 .. MgmtStart /\ d.end \in Blocks
       /\ MgmtStart <= d.end /\ d.end < sig
       /\ d.top \in Blocks /\ MgmtStart <= d.top /\ d.top < sig
       /\ d.uneven => second # None
  BY <1>5, <1>6, <1>8, <1>9, <1>10, <1>11, <1>12
<1> QED
  BY <1>13 DEF d

LEMMA ScanType ==
  ASSUME NEW s \in [Blocks -> States]
  PROVE  Scan(s) \in [Blocks -> States]
BY DEF Scan, States

LEMMA AttachKeeps == IInv /\ Attach => IInv'
<1> SUFFICES ASSUME IInv, Attach PROVE IInv'
  OBVIOUS
<1> USE DEF chip, layout, table, attachV, ctl, ghost, bounds, IInv
<1>o. pc = "off" /\ got = None
  BY DEF Attach, AttachNew, AttachLoad, AttachRecreate, AttachFails,
         PlacesInArea, Laid
<1>m. \A B : MarkBad(AllGood, B) \in [Blocks -> States]
  BY DEF MarkBad, AllGood, States
<1>1. CASE AttachNew
  <2>1. /\ st' \in [Blocks -> States] /\ mp' \in [LBs -> Blocks \cup {Unmapped}]
        /\ dataCount' \in 0 .. MgmtStart
    BY <1>1, ScanType, NoTableType, BuildMappingType DEF AttachNew
  <2>2. rg' \in [ba : 0 .. NB, lim : Blocks, ret : RangeReturns]
    BY <1>1, ChipFacts DEF AttachNew, NoRange, RangeReturns, None
  <2>3. changed' \in BOOLEAN
    BY <1>1, Zenon DEF AttachNew
  <2>4. TypeOK'
    BY <1>1, <2>1, <2>2, <2>3, NoTableType DEF AttachNew, TypeOK, Places
  <2>5. LocalsOk' /\ PlacesInArea' /\ RangeInArea' /\ TablesKnown'
    BY <1>1
    DEF AttachNew, LocalsOk, PlacesInArea, RangeInArea, TablesKnown, Laid, Going
  <2> QED
    BY <2>4, <2>5
<1>2. CASE AttachLoad
  <2> DEFINE sig == Highest(SigBlocks)
             first == FirstTable(sig)
             second == SecondTable(first, sig)
             d == Load(first, second, sig)
  <2>1. sig \in Blocks /\ sig \in Int /\ MgmtStart \in Int /\ 0 < MgmtStart /\ None \in Blocks
    BY HighestIn, ChipFacts DEF SigBlocks
  <2>2. first # None
    BY <1>2 DEF AttachLoad
  <2>3. first \in MgmtStart .. sig - 2 /\ cells[first].kind = "table"
    <3> HIDE DEF sig
    <3> QED
      BY <2>1, <2>2, SearchTableIn DEF FirstTable, Loads
  <2>4. /\ second \in {None} \cup first + 1 .. sig - 2
        /\ second # None => cells[second].kind = "table"
    <3> HIDE DEF sig, first
    <3>1. CASE second = None
      BY <3>1
    <3>2. CASE second # None
      <4>1. second = SearchTable(first + 1, cells[first].st, sig)
        BY <2>2 DEF SecondTable
      <4> HIDE DEF second
      <4> QED
        BY <2>1, <2>3, <3>2, <4>1, SearchTableIn DEF Loads
    <3> QED
      BY <3>2
  <2>5. /\ d.st \in [Blocks -> States] /\ d.mp \in [LBs -> Blocks \cup {Unmapped}]
        /\ d.wc \in Nat /\ d.count \in 0 .. MgmtStart /\ d.end \in Blocks
        /\ MgmtStart <= d.end /\ d.end < sig
        /\ d.top \in Blocks /\ MgmtStart <= d.top /\ d.top < sig
        /\ d.uneven => second # None
    <3> HIDE DEF sig, first, second
    <3> QED
      BY <2>1, <2>3, <2>4, LoadType DEF TypeOK
  <2>6. /\ sigBa' = sig /\ dataCount' = d.count /\ st' = d.st /\ mp' = d.mp
        /\ cache' = Generate(d.wc, d.st, d.mp, d.dirty)
        /\ mainBa' = first /\ backupBa' = second /\ mapBa' = d.end /\ topBa' = d.top
        /\ UNCHANGED <<chip, protected, got, wba, uret, op, ghost, bounds>>
    BY <1>2 DEF AttachLoad
  <2>7. changed' = (d.dirty \/ d.uneven)
    BY <1>2 DEF AttachLoad
  <2>8. \/ second = None /\ WriteRange(MgmtStart, first, "rs_front")
        \/ d.uneven /\ WriteRange(first, second, "us_main")
        \/ d.uneven /\ WriteRange(second, d.top, "us_backup")
        \/ pc' = "ld_ok" /\ UNCHANGED rg
    BY <1>2 DEF AttachLoad
  <2> HIDE DEF sig, first, second, d
  <2>9. changed' \in BOOLEAN
    BY <2>7, Zenon
  <2>10. cache' \in InfoTable
    BY <2>5, <2>6, TableType
  <2>11. /\ first \in Blocks /\ second \in Blocks /\ MgmtStart \in Blocks
         /\ first \in 0 .. NB /\ second \in 0 .. NB /\ MgmtStart \in 0 .. NB
         /\ first < sig /\ second < sig /\ MgmtStart <= first
         /\ second # None => MgmtStart <= second
    BY <2>1, <2>3, <2>4, ChipFacts DEF Blocks, None
  <2>12. /\ rg' \in [ba : 0 .. NB, lim : Blocks, ret : RangeReturns]
         /\ pc' \in Places
    BY <2>5, <2>8, <2>11 DEF WriteRange, RangeReturns, Places, TypeOK
  <2>13. TypeOK'
    BY <2>1, <2>5, <2>6, <2>9, <2>10, <2>11, <2>12 DEF TypeOK
  <2>14. LocalsOk'
    BY <2>8 DEF WriteRange, LocalsOk
  <2>15. PlacesInArea'
    BY <1>o, <2>5, <2>6, <2>11 DEF PlacesInArea, InArea
  <2>16. RangeInArea'
    BY <2>5, <2>6, <2>8, <2>11 DEF WriteRange, RangeInArea, Going
  <2>17. TablesKnown'
    BY <2>2, <2>5, <2>6, <2>8 DEF WriteRange, TablesKnown, Going
  <2> QED
    BY <2>13, <2>14, <2>15, <2>16, <2>17
<1>3. CASE AttachRecreate
  <2>1. /\ st' \in [Blocks -> States] /\ mp' \in [LBs -> Blocks \cup {Unmapped}]
        /\ dataCount' \in 0 .. MgmtStart
    BY <1>3, <1>m, ScanType, BuildMappingType DEF AttachRecreate
  <2>2. sigBa' \in Blocks
    BY <1>3, HighestIn, ChipFacts DEF AttachRecreate, SigBlocks
  <2>3. changed' \in BOOLEAN
    BY <1>3, Zenon DEF AttachRecreate
  <2>4. TypeOK'
    BY <1>3, <2>1, <2>2, <2>3, NoTableType DEF AttachRecreate, TypeOK, Places
  <2>5. LocalsOk' /\ PlacesInArea' /\ RangeInArea' /\ TablesKnown'
    BY <1>3
    DEF AttachRecreate, LocalsOk, PlacesInArea, RangeInArea, TablesKnown, Laid,
        Going
  <2> QED
    BY <2>4, <2>5
<1>4. CASE AttachFails
  BY <1>4, Stutter DEF AttachFails
<1> QED
  BY <1>1, <1>2, <1>3, <1>4 DEF Attach

-----------------------------------------------------------------------------
(* The theorems. *)

LEMMA InitKeeps == Init => IInv
<1> SUFFICES ASSUME Init PROVE IInv
  OBVIOUS
<1>1. badmark \in SUBSET Blocks /\ MaxFaults \in Nat /\ MaxCrashes \in Nat
  BY ChipAssumption DEF Init
<1>2. /\ None \in Blocks /\ None \in 0 .. NB /\ None \in 0 .. NB - 2 /\ 0 \in 0 .. MgmtStart
  BY ChipFacts DEF None, Blocks
<1>3. cells \in [Blocks -> Cell] /\ badmark \subseteq Blocks
  BY <1>1, CellFacts DEF Init
<1>4. /\ rg \in [ba : 0 .. NB, lim : Blocks, ret : RangeReturns]
      /\ op \in [lb : LBs \cup {Unmapped}, val : Values \cup {"none"}]
      /\ acked \in [LBs -> Values \cup {"empty", "unknown", "bad"}]
  BY <1>2 DEF Init, NoRange, NoOp, RangeReturns
<1>5. pc \in Places /\ uret \in UpdateReturns
  BY DEF Init, Places, UpdateReturns
<1>6. faults \in 0 .. MaxFaults /\ crashes \in 0 .. MaxCrashes
  BY <1>1 DEF Init
<1>7. TypeOK
  BY <1>2, <1>3, <1>4, <1>5, <1>6, NoTableType DEF Init, TypeOK
<1> QED
  BY <1>7
  DEF Init, IInv, LocalsOk, PlacesInArea, RangeInArea, TablesKnown, Laid, Going

LEMMA NextKeeps == IInv /\ [Next]_vars => IInv'
BY RangeStepKeeps, UpdateStepKeeps, LoadStepKeeps, CreateStepKeeps,
   EraseStepKeeps, OtherStepKeeps, RequestStepKeeps, AttachKeeps, PowerCutKeeps,
   Stutter
DEF Next, Run

(* IInv is an inductive invariant of the specification. *)
THEOREM Inductive == Spec => []IInv
BY InitKeeps, NextKeeps, PTL DEF Spec

(* Every variable keeps its type: no procedure leaves the arrays of the chip,
   returns to a place that does not exist or counts past a block (struct
   nmbm_instance and all of nmbm-core.c).                                   *)
THEOREM TypeCorrect == Spec => []TypeOK
<1>1. IInv => TypeOK
  BY DEF IInv
<1> QED
  BY <1>1, Inductive, PTL

(* Whatever fails and whenever the power is cut, nmbm_write_mgmt_range and
   nmbm_erase_range erase and program nothing but blocks between the data
   area and the signature, whoever calls them.                              *)
THEOREM TablesStayInArea == Spec => []TablesInArea
<1>1. ASSUME IInv PROVE TablesInArea
  <2>1. /\ rg.ba \in Int /\ rg.lim \in Int /\ sigBa \in Int /\ MgmtStart \in Int
    BY <1>1, Numbers DEF IInv
  <2>2. CASE pc = "prog"
    BY <1>1, <2>1, <2>2 DEF IInv, LocalsOk, RangeInArea, TablesInArea, Touched
  <2>3. CASE RangeLoop
    <3>1. Here # None => Here \in Int /\ rg.ba <= Here /\ Here < rg.lim
      BY <2>1, NextGoodIn DEF Here, GoodIn
    <3>2. MgmtStart <= rg.ba /\ rg.lim < sigBa
      BY <1>1, <2>3 DEF IInv, RangeInArea, RangeLoop
    <3> QED
      BY <2>1, <2>3, <3>1, <3>2 DEF TablesInArea, Touched, RangeLoop
  <2>4. CASE pc # "prog" /\ ~RangeLoop
    BY <2>4 DEF TablesInArea, Touched
  <2> QED
    BY <2>2, <2>3, <2>4
<1> QED
  BY <1>1, Inductive, PTL

=============================================================================
