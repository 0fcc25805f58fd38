--------------------------- MODULE NmbmDataProofs ---------------------------
(***************************************************************************)
(* DataInv and TableInv are inductive invariants of Nmbm, for every chip:  *)
(* what was acknowledged is read back, the tables are never written over   *)
(* it, and a power cut loses nothing as long as a table is left.  Nor does *)
(* a panic that writes its last words, and as long as nothing is lost NMBM *)
(* implements the disk of LogicalDisk.                                     *)
(***************************************************************************)
EXTENDS NmbmLayoutProofs, NmbmData, NmbmPanic

\* the parts of DataInv: what keeps the user's data, and where no data lies; a
\* panic respects the first alone (see NmbmPanic)
Data == NewChip /\ Kept /\ Resting /\ TablesSaved /\ CacheSaved /\ Requested
Tidy == NotGood /\ DataMapped
KeepsData == Data' /\ (Tidy => Tidy')

\* a stale table is what the loop comes to next
LEMMA StaleIsNext ==
  ASSUME IInv, Layout, RangeLoop, NEW t \in Tables, t \in Stale
  PROVE  t = Here
<1>1. /\ pc = "write" /\ t = rg.ba /\ Laid
      /\ \/ rg.ret = "us_main" /\ t = mainBa
         \/ rg.ret = "us_backup" /\ t = backupBa
  BY DEF Stale, Laid
<1>2. Going("us_main") \/ Going("us_backup")
  BY <1>1 DEF Going
<1>3. backupBa # None /\ Ordered /\ Ranges
  BY <1>1, <1>2 DEF IInv, TablesKnown, Layout
<1>4. t < rg.lim
  <2>1. CASE rg.ret = "us_main" /\ t = mainBa
    BY <2>1, <1>1, <1>3 DEF Ordered, Ranges, Going
  <2>2. CASE rg.ret = "us_backup" /\ t = backupBa
    BY <2>2, <1>1, <1>3, Bounds DEF Ordered, Ranges, Going
  <2> QED
    BY <1>1, <2>1, <2>2
<1>5. t \in Blocks /\ st[t] = "good" /\ t \in Int
  BY <1>1, TablesSound, Bounds DEF Sound
<1> QED
  BY <1>1, <1>4, <1>5, HereIs

\* the block a loop writes or erases is in no mapping
LEMMA TouchedApart ==
  ASSUME IInv, Layout, RangeLoop \/ pc = "prog",
         NEW b, b = (IF pc = "prog" THEN rg.ba ELSE Here), b # None
  PROVE  /\ b \in Blocks /\ b \notin SigBlocks /\ Laid /\ MgmtStart <= b /\ b < topBa
         /\ \A l \in LBs : mp[l] # b /\ cache.mp[l] # b
         /\ \A t \in Tables : t # b => /\ t \notin Stale
                                       /\ \A l \in LBs : cells[t].mp[l] # b
<1>1. /\ Laid /\ b \in Blocks /\ b \notin SigBlocks /\ MgmtStart <= b /\ b < topBa
  <2>1. CASE pc = "prog"
    BY <2>1, LoopFacts, ProgramAlone
  <2>2. CASE RangeLoop /\ pc # "prog"
    BY <2>2, LoopFacts, HereIs, Bounds DEF RangeLoop
  <2> QED
    BY <2>1, <2>2
<1>2. \A t \in Tables : t # b => t \notin Stale
  BY StaleIsNext DEF Stale, RangeLoop
<1>3. ASSUME NEW m \in [LBs -> Blocks \cup {Unmapped}], Clear(m, topBa, sigBa),
             NEW l \in LBs
      PROVE  m[l] # b
  BY <1>1, <1>3, Bounds DEF Clear
<1>4. /\ Clear(mp, topBa, sigBa) /\ Clear(cache.mp, topBa, sigBa)
      /\ \A t \in Tables : t \notin Stale => Clear(cells[t].mp, topBa, sigBa)
  BY <1>1 DEF Layout, Remembered, Follows
<1>5. /\ mp \in [LBs -> Blocks \cup {Unmapped}] /\ cache.mp \in [LBs -> Blocks \cup {Unmapped}]
      /\ \A t \in Tables : cells[t].mp \in [LBs -> Blocks \cup {Unmapped}]
  BY TableFacts DEF IInv, TypeOK
<1> QED
  BY <1>1, <1>2, <1>3, <1>4, <1>5

-----------------------------------------------------------------------------
(* The blocks of the chip that a step may change. *)

\* a step changes block b to c at most, and marks it bad at most
Touch(b, c) ==
  /\ b \in Blocks /\ c.kind \notin {"data", "sig"}
  /\ \/ cells' = cells /\ badmark' = badmark
     \/ cells' = [cells EXCEPT ![b] = c] /\ badmark' \in {badmark, badmark \cup {b}}

LEMMA TouchFacts ==
  ASSUME IInv, NEW b, NEW c, Touch(b, c)
  PROVE  /\ \A x \in Blocks : x # b => cells'[x] = cells[x]
                                       /\ (x \in badmark' <=> x \in badmark)
         /\ cells'[b] = cells[b] \/ cells'[b] = c
         /\ badmark \subseteq badmark'
         /\ \A t \in Tables' : \/ /\ t \in Tables /\ cells'[t] = cells[t]
                                  /\ t # b \/ (cells' = cells /\ badmark' = badmark)
                               \/ t = b /\ c.kind = "table" /\ cells'[t] = c
         /\ b \notin SigBlocks => SigBlocks' = SigBlocks
         /\ cells' = cells \/ cells'[b] = c
<1>1. cells \in [Blocks -> Cell] /\ b \in Blocks
  BY DEF IInv, TypeOK, Touch
<1>2. /\ \A x \in Blocks : x # b => cells'[x] = cells[x]
                                    /\ (x \in badmark' <=> x \in badmark)
      /\ (cells' = cells /\ badmark' = badmark) \/ cells'[b] = c
      /\ badmark \subseteq badmark'
  BY <1>1 DEF Touch
<1>3. b \notin SigBlocks => SigBlocks' = SigBlocks
  BY <1>1, <1>2 DEF SigBlocks, Touch
<1> QED
  BY <1>1, <1>2, <1>3 DEF Tables

\* what was acknowledged of block l stays where it is
LEMMA HomeStays ==
  ASSUME IInv, Kept, NEW b, NEW c, Touch(b, c),
         NEW l \in LBs, Settled(l), acked'[l] = acked[l],
         \A t \in Tables : t # b => cells[t].mp[l] # b,
         c.kind = "table" => c = cache /\ AtHome(l, cache.mp, cache.st)
                             /\ cache.mp[l] # b,
         Laid' => /\ Laid /\ mp[l] # b /\ mp'[l] = mp[l] /\ dataCount' = dataCount
                  /\ st'[mp[l]] = st[mp[l]]
  PROVE  /\ \A t \in Tables' : AtHome(l, cells[t].mp, cells[t].st)'
         /\ Laid' => l < dataCount' /\ AtHome(l, mp, st)'
<1>1. ASSUME NEW m, NEW s, AtHome(l, m, s), m[l] # b \/ (cells' = cells /\ badmark' = badmark)
      PROVE  m[l] \in Blocks \ badmark' /\ s[m[l]] = "good" /\ Holds(l, cells[m[l]])'
  BY <1>1, TouchFacts DEF AtHome, Holds
<1>2. ASSUME NEW t \in Tables' PROVE AtHome(l, cells[t].mp, cells[t].st)'
  <2>1. CASE t \in Tables /\ cells'[t] = cells[t]
             /\ (t # b \/ (cells' = cells /\ badmark' = badmark))
    <3>1. AtHome(l, cells[t].mp, cells[t].st)
      BY <2>1 DEF Kept
    <3>2. cells[t].mp[l] # b \/ (cells' = cells /\ badmark' = badmark)
      BY <2>1
    <3> QED
      BY <2>1, <3>1, <3>2, <1>1 DEF AtHome
  <2>2. CASE c.kind = "table" /\ cells'[t] = c
    <3>1. AtHome(l, cache.mp, cache.st) /\ cache.mp[l] # b /\ cells'[t] = cache
      BY <2>2
    <3> QED
      BY <3>1, <1>1 DEF AtHome
  <2> QED
    BY <2>1, <2>2, TouchFacts
<1>3. Laid' => l < dataCount' /\ AtHome(l, mp, st)'
  BY <1>1 DEF Kept, AtHome
<1> QED
  BY <1>2, <1>3


\* no step but a write of the user's puts data on the chip
LEMMA NoNewData ==
  ASSUME IInv, NEW b, NEW c, Touch(b, c)
  PROVE  /\ \A x \in Blocks \ badmark' : cells'[x].kind = "data" =>
              x \in Blocks \ badmark /\ cells'[x] = cells[x]
         /\ \A x \in Blocks : cells'[x].kind = "data" => cells[x].kind = "data"
BY TouchFacts DEF Touch

LEMMA ChipStays ==
  ASSUME IInv, Tidy, NEW b, NEW c, Touch(b, c),
         c.kind = "table" => c = cache /\ NoData(cache.st) /\ Homes(cache.mp),
         Laid' => /\ Laid /\ mp' = mp
                  /\ \A x \in Blocks : \/ st'[x] = st[x]
                                       \/ x \in badmark' \/ cells'[x].kind # "data"
  PROVE  Tidy'
<1>1. ASSUME NEW s, NoData(s)
      PROVE  \A x \in Blocks \ badmark' : s[x] # "good" => cells'[x].kind # "data"
  BY <1>1, NoNewData DEF NoData
<1>2. ASSUME NEW m, Homes(m)
      PROVE  \A x \in Blocks \ badmark' : cells'[x].kind = "data" => m[cells'[x].lb] = x
  BY <1>2, NoNewData DEF Homes
<1>3. Laid' => NoData(st)' /\ Homes(mp)'
  <2> SUFFICES ASSUME Laid' PROVE NoData(st)' /\ Homes(mp)'
    OBVIOUS
  <2>1. NoData(st) /\ Homes(mp)
    BY DEF Tidy, NotGood, DataMapped
  <2> QED
    BY <2>1, <1>1, <1>2 DEF NoData, Homes
<1>4. ASSUME NEW t \in Tables' PROVE NoData(cells[t].st)' /\ Homes(cells[t].mp)'
  <2>1. CASE t \in Tables /\ cells'[t] = cells[t]
    <3>1. NoData(cells[t].st) /\ Homes(cells[t].mp)
      BY <2>1 DEF Tidy, NotGood, DataMapped
    <3> QED
      BY <2>1, <3>1, <1>1, <1>2 DEF NoData, Homes
  <2>2. CASE c.kind = "table" /\ cells'[t] = c
    <3>1. NoData(cache.st) /\ Homes(cache.mp) /\ cells'[t] = cache
      BY <2>2
    <3> QED
      BY <3>1, <1>1, <1>2 DEF NoData, Homes
  <2> QED
    BY <2>1, <2>2, TouchFacts
<1> QED
  BY <1>3, <1>4 DEF Tidy, NotGood, DataMapped

\* before anything was written there is nothing to keep
LEMMA NothingYet ==
  ASSUME \A l \in LBs : ~Settled(l), \A b \in Blocks : cells[b].kind # "data"
  PROVE  NewChip /\ Kept /\ Tidy
BY DEF NewChip, Tidy, Kept, NotGood, DataMapped, NoData, Homes

\* the steps that change neither the chip nor what the user knows
LEMMA NoTouch ==
  ASSUME Data, UNCHANGED <<cells, badmark, acked>>, Creating' => Creating,
         Laid' => Laid /\ UNCHANGED <<st, mp, dataCount>>
  PROVE  NewChip' /\ Kept' /\ (Tidy => Tidy')
<1>1. SigBlocks' = SigBlocks /\ Tables' = Tables
  BY DEF SigBlocks, Tables
<1>2. \A l \in LBs : Settled(l)' <=> Settled(l)
  BY DEF Settled
<1>3. NewChip'
  BY <1>1, <1>2 DEF Data, NewChip
<1>4. Kept'
  BY <1>1, <1>2 DEF Data, Kept, AtHome, Holds
<1>5. Tidy => Tidy'
  BY <1>1 DEF Tidy, NotGood, DataMapped, NoData, Homes
<1> QED
  BY <1>3, <1>4, <1>5

-----------------------------------------------------------------------------
(* The steps of a loop over a range. *)

\* the cache may be written as a table at any place of a loop
LEMMA CacheIsSaved ==
  ASSUME IInv, Layout, Data, RangeLoop \/ pc \in {"prog"} \cup WriteReturns
  PROVE  /\ \A l \in LBs : mp[l] = Unmapped \/ mp[l] = cache.mp[l]
         /\ Tidy => NoData(cache.st) /\ Homes(cache.mp)
         /\ \A l \in LBs : Settled(l) => AtHome(l, cache.mp, cache.st)
<1>1. Laid /\ Ages(cache.st, st)
  BY DEF RangeLoop, Laid, WriteReturns, Layout, Remembered
<1>2. \A l \in LBs : mp[l] = Unmapped \/ mp[l] = cache.mp[l]
  BY <1>1 DEF Data, CacheSaved, Resting, RangeLoop, UpdateReturns, WriteReturns
<1>3. Tidy => NoData(cache.st)
  BY <1>1 DEF Tidy, NotGood, NoData, Ages
<1>4. \A b \in Blocks : b # Unmapped
  BY ChipFacts
<1>5. \A b \in Blocks : cells[b].kind = "data" => cells[b].lb \in LBs
  <2>1. cells \in [Blocks -> Cell]
    BY DEF IInv, TypeOK
  <2> QED
    BY <2>1 DEF Cell, Empty, Torn, Sig, DataCell, InfoTable
<1>6. Tidy => Homes(cache.mp)
  BY <1>1, <1>2, <1>4, <1>5 DEF Tidy, DataMapped, Homes
<1>7. \A l \in LBs : Settled(l) => AtHome(l, cache.mp, cache.st)
  BY <1>1, <1>2, <1>4 DEF Data, Kept, AtHome, Ages
<1> QED
  BY <1>2, <1>3, <1>6, <1>7


\* what a request relies on, while the tables are updated for it
LEMMA RequestGoesOn ==
  ASSUME IInv, Serving, Requested, UNCHANGED <<op, uret, acked, dataCount, mp>>,
         protected' => protected /\ Tables' \subseteq Tables,
         pc' \notin {"e_try", "e_map", "e_close", "p_try", "idle", "off"},
         \A x \in Blocks : st'[x] = "good" => st[x] = "good"
  PROVE  Requested'
BY DEF Requested, Serving, Erase, Settled

LEMMA LoopTouch ==
  ASSUME IInv, Serving, Layout, Data, RangeLoop \/ pc = "prog",
         NEW b, b = (IF pc = "prog" THEN rg.ba ELSE Here), b # None,
         NEW c, c \in {Empty, Torn, cache}, Touch(b, c), acked' = acked,
         Laid' => /\ mp' = mp /\ dataCount' = dataCount
                  /\ \/ st' = st
                     \/ st' = [st EXCEPT ![b] = "bad"] /\ b \in badmark',
         Creating' => Creating
  PROVE  NewChip' /\ Kept' /\ (Tidy => Tidy')
<1>1. /\ b \in Blocks /\ b \notin SigBlocks /\ Laid
      /\ \A l \in LBs : mp[l] # b /\ cache.mp[l] # b
      /\ \A t \in Tables : t # b => \A l \in LBs : cells[t].mp[l] # b
  BY TouchedApart
<1>2. c.kind = "table" => c = cache
  BY DEF Empty, Torn
<1>3. st \in [Blocks -> States]
  BY DEF IInv, TypeOK
<1>4. ASSUME Laid', NEW x \in Blocks
      PROVE  st'[x] = st[x] \/ (x = b /\ x \in badmark')
  BY <1>3, <1>4
<1>5. Tidy => Tidy'
  BY <1>1, <1>2, <1>4, CacheIsSaved, ChipStays
<1>6. Kept'
  <2> SUFFICES ASSUME NEW l \in LBs, Settled(l)'
               PROVE  /\ \A t \in Tables' : AtHome(l, cells[t].mp, cells[t].st)'
                      /\ Laid' => l < dataCount' /\ AtHome(l, mp, st)'
    BY DEF Kept
  <2>1. Settled(l) /\ acked'[l] = acked[l]
    BY DEF Settled
  <2>2. AtHome(l, cache.mp, cache.st) /\ mp[l] \in Blocks
    BY <2>1, <1>1, CacheIsSaved DEF Data, Kept, AtHome
  <2>3. Laid' => st'[mp[l]] = st[mp[l]] /\ mp'[l] = mp[l] /\ dataCount' = dataCount
    BY <2>2, <1>1, <1>4
  <2> QED
    BY <2>1, <2>2, <2>3, <1>1, <1>2, HomeStays DEF KeepsData, Data
<1>7. NewChip'
  <2>1. SigBlocks' = SigBlocks
    BY <1>1, TouchFacts
  <2> QED
    BY <2>1, NoNewData DEF KeepsData, Data, NewChip, Settled
<1> QED
  BY <1>5, <1>6, <1>7

LEMMA LoopSaved ==
  ASSUME IInv, Layout, Data, RangeLoop \/ pc = "prog",
         NEW b, b = (IF pc = "prog" THEN rg.ba ELSE Here), b # None,
         NEW c, Touch(b, c), b \in Tables' => cells'[b] = cache,
         UNCHANGED <<cache, mainBa, mp, protected>>,
         Going("up_backup") => Going("up_backup")', Going("up_main") => Going("up_main")'
  PROVE  Resting' /\ TablesSaved' /\ CacheSaved'
<1>1. ~protected /\ Laid
  BY DEF Data, Resting, RangeLoop, UpdateReturns, Laid
<1>2. CacheSaved'
  BY <1>1, CacheIsSaved DEF CacheSaved
<1>3. TablesSaved'
  <2> SUFFICES ASSUME NEW t \in Tables', t # b
               PROVE  \/ cells'[t].mp = cache.mp \/ Going("up_backup")
                      \/ Going("up_main") /\ t = mainBa
    BY DEF TablesSaved
  <2>1. t \in Tables /\ cells'[t] = cells[t]
    BY TouchFacts
  <2>2. t \notin Stale
    BY <2>1, TouchedApart
  <2> QED
    BY <2>1, <2>2, <1>1 DEF KeepsData, Data, TablesSaved
<1> QED
  BY <1>1, <1>2, <1>3 DEF Resting


LEMMA RangeStepData ==
  IInv /\ Serving /\ Layout /\ Data /\ RangeStep => KeepsData
<1> SUFFICES ASSUME IInv, Serving, Layout, Data, RangeStep PROVE KeepsData
  OBVIOUS
<1> USE DEF layout, table, attachV, ctl, ghost, bounds
<1>1. /\ RangeLoop \/ pc = "prog"
      /\ rg.ret \in WriteReturns \cup EraseReturns
      /\ UNCHANGED <<acked, mp, dataCount, protected, cache, mainBa, op, uret>>
  BY DEF RangeStep, RangeSkip, RangeErase, RangeEraseFails, RangeEnd, Program,
    ProgramFails, Fails, Layout, Looping, RangeLoop
<1>2. /\ pc' \in {"write", "prog", "erase", rg.ret} /\ rg'.ret = rg.ret
      /\ pc' \notin {"e_try", "e_map", "e_close", "p_try", "idle", "off"} /\ Laid'
      /\ Creating' => Creating
      /\ \A p \in {"up_backup", "up_main"} : Going(p) => Going(p)'
  <2>1. rg \in [ba : 0 .. NB, lim : Blocks, ret : RangeReturns]
    BY DEF IInv, TypeOK
  <2>2. pc' \in {"write", "prog", "erase", rg.ret} /\ rg'.ret = rg.ret
    BY <1>1, <2>1 DEF RangeStep, RangeSkip, RangeErase, RangeEraseFails, RangeEnd,
      Program, ProgramFails, RangeLoop
  <2> QED
    BY <1>1, <2>2 DEF Creating, Laid, Going, WriteReturns, EraseReturns, RangeLoop
<1>3. ~protected
  BY <1>1 DEF Data, Resting, RangeLoop, UpdateReturns
<1>4. CASE RangeEnd
  <2>1. UNCHANGED <<cells, badmark, st, changed>>
    BY <1>4 DEF RangeEnd, chip
  <2>2. NewChip' /\ Kept' /\ (Tidy => Tidy')
    BY <1>1, <1>2, <2>1, NoTouch DEF RangeLoop, Laid
  <2>3. Tables' = Tables
    BY <2>1 DEF Tables
  <2>4. Requested'
    BY <1>1, <1>2, <2>1, <2>3, RequestGoesOn DEF Data
  <2>5. \A t \in Tables : t \notin Stale
    <3> SUFFICES ASSUME NEW t \in Tables, t \in Stale PROVE FALSE
      OBVIOUS
    <3>1. t = Here /\ Here = None
      BY <1>4, StaleIsNext DEF RangeEnd
    <3> QED
      BY <3>1, <1>1, TablesSound DEF RangeLoop, Laid
  <2>6. TablesSaved'
    BY <1>1, <1>2, <2>1, <2>3, <2>5 DEF Data, TablesSaved, RangeLoop, Laid
  <2>7. CacheSaved' /\ Resting'
    BY <1>1, <1>3, CacheIsSaved DEF CacheSaved, Resting
  <2> QED
    BY <2>2, <2>4, <2>6, <2>7 DEF KeepsData, Data
<1>5. ASSUME NEW b, b = (IF pc = "prog" THEN rg.ba ELSE Here), b # None,
             NEW c, c \in {Empty, Torn, cache}, Touch(b, c), b \in Tables' => cells'[b] = cache,
             \/ st' = st
             \/ st' = [st EXCEPT ![b] = "bad"] /\ b \in badmark'
      PROVE  KeepsData
  <2>1. NewChip' /\ Kept' /\ (Tidy => Tidy')
    BY <1>1, <1>2, <1>5, LoopTouch
  <2>2. Resting' /\ TablesSaved' /\ CacheSaved'
    BY <1>1, <1>2, <1>5, LoopSaved
  <2>3. \A x \in Blocks : st'[x] = "good" => st[x] = "good"
    BY <1>5 DEF IInv, TypeOK
  <2>4. Requested'
    BY <1>1, <1>2, <1>3, <2>3, RequestGoesOn DEF Data
  <2> QED
    BY <2>1, <2>2, <2>4 DEF KeepsData, Data
<1>6. Here \in Blocks /\ (pc = "prog" => rg.ba \in Blocks /\ rg.ba # None)
  BY HereIs, ProgramAlone, Bounds
<1>7. CASE RangeSkip
  <2>1. /\ Here # None /\ Here \in badmark /\ st' = [st EXCEPT ![Here] = "bad"]
        /\ cells' = cells /\ badmark' = badmark /\ pc # "prog"
    BY <1>7 DEF RangeSkip, chip, RangeLoop
  <2> QED
    BY <1>5, <1>6, <2>1 DEF Touch, Tables, Torn
<1>8. CASE RangeErase
  <2>1. /\ Here # None /\ st' = st /\ pc # "prog"
        /\ cells' = [cells EXCEPT ![Here] = Empty] /\ badmark' = badmark
    BY <1>8 DEF RangeErase, RangeLoop
  <2>2. Here \notin Tables'
    BY <1>6, <2>1 DEF Tables, Empty, IInv, TypeOK
  <2> QED
    BY <1>5, <1>6, <2>1, <2>2 DEF Touch, Empty
<1>9. CASE RangeEraseFails
  <2>1. /\ Here # None /\ st' = [st EXCEPT ![Here] = "bad"] /\ pc # "prog"
        /\ cells' = [cells EXCEPT ![Here] = Torn] /\ badmark' = badmark \cup {Here}
    BY <1>9 DEF RangeEraseFails, Fails, RangeLoop
  <2> QED
    BY <1>5, <1>6, <2>1 DEF Touch, Torn, Tables
<1>10. CASE Program
  <2>1. /\ pc = "prog" /\ st' = st
        /\ cells' = [cells EXCEPT ![rg.ba] = cache] /\ badmark' = badmark
    BY <1>10 DEF Program
  <2>2. cache.kind = "table" /\ cells'[rg.ba] = cache
    BY <1>6, <2>1, TableFacts DEF IInv, TypeOK
  <2> QED
    BY <1>5, <1>6, <2>1, <2>2 DEF Touch
<1>11. CASE ProgramFails
  <2>1. /\ pc = "prog" /\ st' = [st EXCEPT ![rg.ba] = "bad"]
        /\ cells' = [cells EXCEPT ![rg.ba] = Torn] /\ badmark' = badmark \cup {rg.ba}
    BY <1>11 DEF ProgramFails, Fails
  <2> QED
    BY <1>5, <1>6, <2>1 DEF Touch, Torn, Tables
<1> QED
  BY <1>4, <1>7, <1>8, <1>9, <1>10, <1>11 DEF RangeStep

-----------------------------------------------------------------------------
(* nmbm_update_info_table. *)

\* the steps between two loops
LEMMA BetweenLoops ==
  ASSUME IInv, Serving, Layout, Data, pc \in WriteReturns \cup EraseReturns, Laid',
         UNCHANGED <<cells, badmark, acked, st, mp, dataCount, protected, cache>>,
         UNCHANGED <<op, uret>>,
         Creating' => Creating, pc' \notin {"e_try", "e_map", "e_close", "p_try", "idle", "off"},
         \A b \in Tables : \/ cells[b].mp = cache.mp \/ Going("up_backup")'
                           \/ Going("up_main")' /\ b = mainBa'
  PROVE  KeepsData
<1>1. ~protected /\ Laid /\ Tables' = Tables
  BY DEF Data, Resting, WriteReturns, EraseReturns, UpdateReturns, Laid, Tables
<1>2. NewChip' /\ Kept' /\ (Tidy => Tidy')
  BY <1>1, NoTouch
<1>3. Requested'
  BY <1>1, RequestGoesOn DEF Data
<1>4. Resting' /\ TablesSaved'
  BY <1>1 DEF Resting, TablesSaved
<1>5. CacheSaved'
  BY <1>1 DEF Data, CacheSaved, WriteReturns, EraseReturns
<1> QED
  BY <1>2, <1>3, <1>4, <1>5 DEF KeepsData, Data

\* the tables where no update of them is under way
LEMMA Saved ==
  ASSUME IInv, Layout, Data, Laid, pc \notin {"write", "erase", "prog", "up_backup", "up_main"}
  PROVE  \A b \in Tables : cells[b].mp = cache.mp
BY DEF Data, TablesSaved, Going, Stale

LEMMA BackAfterUpdate ==
  ASSUME IInv, Serving, Requested, UpdateReturn, UNCHANGED <<acked, dataCount, mp, st>>,
         protected' => protected \/ Tables' = {}, Tables' \subseteq Tables
  PROVE  Requested' /\ (Creating' => Creating) /\ Laid' /\ pc' \in UpdateReturns
<1>1. CASE uret = "idle"
  BY <1>1 DEF UpdateReturn, Return, ResetCtl, Requested, Erase, Creating, Laid, UpdateReturns
<1>2. CASE uret # "idle"
  <2>1. /\ pc' = uret /\ UNCHANGED <<op, uret>> /\ uret \in UpdateReturns
    BY <1>2 DEF UpdateReturn, ctl, IInv, TypeOK
  <2> QED
    BY <2>1 DEF Requested, Serving, Erase, Creating, Laid, UpdateReturns, Settled
<1> QED
  BY <1>1, <1>2

LEMMA UpdateDoneData == IInv /\ Serving /\ Layout /\ Data /\ UpdateDone => KeepsData
<1> SUFFICES ASSUME IInv, Serving, Layout, Data, UpdateDone PROVE KeepsData
  OBVIOUS
<1>1. /\ pc = "update" /\ UpdateReturn /\ (protected \/ ~changed) /\ Laid
      /\ UNCHANGED <<cells, badmark, st, mp, changed, cache, dataCount, protected, acked>>
  BY DEF UpdateDone, chip, table, attachV, ghost, Laid
<1>2. Tables' = Tables
  BY <1>1 DEF Tables
<1>3. Requested' /\ (Creating' => Creating) /\ Laid' /\ pc' \in UpdateReturns
  BY <1>1, <1>2, BackAfterUpdate DEF Data
<1>4. NewChip' /\ Kept' /\ (Tidy => Tidy')
  BY <1>1, <1>3, NoTouch
<1>5. TablesSaved'
  BY <1>1, <1>2, Saved DEF TablesSaved
<1>6. CacheSaved' /\ Resting'
  BY <1>1, <1>3 DEF Data, CacheSaved, Resting
<1> QED
  BY <1>3, <1>4, <1>5, <1>6 DEF KeepsData, Data

LEMMA UpdateOnceData == IInv /\ Serving /\ Layout /\ Data /\ UpdateOnce => KeepsData
<1> SUFFICES ASSUME IInv, Serving, Layout, Data, UpdateOnce PROVE KeepsData
  OBVIOUS
<1>1. /\ pc = "update" /\ ~protected /\ cache'.mp = mp /\ Laid
      /\ UNCHANGED <<cells, badmark, st, mp, dataCount, protected, acked, mainBa, op, uret>>
      /\ IF backupBa # None THEN WriteRange(backupBa, topBa, "up_backup")
                            ELSE WriteRange(mainBa, topBa, "up_main")
  <2>1. mainBa # None
    BY DEF UpdateOnce, IInv, TablesKnown, Laid, Going, UpdateReturns
  <2> QED
    BY <2>1 DEF UpdateOnce, chip, layout, table, attachV, Regenerate, Generate, Table,
      ghost, Laid
<1>2. Tables' = Tables
  BY <1>1 DEF Tables
<1>3. pc' = "write" /\ rg'.ret = IF backupBa # None THEN "up_backup" ELSE "up_main"
  BY <1>1 DEF WriteRange
<1>4. Laid' /\ (Creating' => Creating)
  BY <1>1, <1>3 DEF Laid, Creating
<1>5. NewChip' /\ Kept' /\ (Tidy => Tidy')
  BY <1>1, <1>4, NoTouch
<1>6. Requested'
  BY <1>1, <1>2, <1>3, RequestGoesOn DEF Data
<1>7. TablesSaved'
  <2>1. CASE backupBa # None
    BY <2>1, <1>3 DEF TablesSaved, Going
  <2>2. CASE backupBa = None
    <3>1. \A b \in Tables : b = mainBa
      BY <2>2, <1>1, TablesSound DEF Layout, Placed, WriteReturns, Going
    <3> QED
      BY <3>1, <2>2, <1>1, <1>2, <1>3 DEF TablesSaved, Going
  <2> QED
    BY <2>1, <2>2
<1>8. CacheSaved' /\ Resting'
  BY <1>1 DEF CacheSaved, Resting
<1> QED
  BY <1>5, <1>6, <1>7, <1>8 DEF KeepsData, Data

LEMMA UpdateBackupData == IInv /\ Serving /\ Layout /\ Data /\ UpdateBackup => KeepsData
<1> SUFFICES ASSUME IInv, Serving, Layout, Data, UpdateBackup PROVE KeepsData
  OBVIOUS
<1>1. /\ pc = "up_backup" /\ mainBa # None /\ backupBa # None /\ pc \in WriteReturns
      /\ Laid /\ ~Going("rm_main") /\ ~Going("rs_erased")
      /\ NoneSound(st, backupBa, IF got = None THEN topBa ELSE got)
      /\ backupBa <= rg.ba
      /\ got # None => got = rg.ba /\ cells[got] = cache
  <2>1. pc = "up_backup" /\ pc \in WriteReturns
    BY DEF UpdateBackup, WriteReturns
  <2>2. Going("up_backup")
    BY <2>1 DEF Going
  <2>3. mainBa # None /\ backupBa # None
    BY <2>1, <2>2 DEF IInv, TablesKnown, Laid, Going, UpdateReturns
  <2> QED
    BY <2>1, <2>2, <2>3, Returned, Bounds DEF Layout, Ranges, WriteReturns
<1>2. /\ UNCHANGED <<cells, badmark, acked, st, mp, dataCount, protected, cache>>
      /\ UNCHANGED <<op, uret, mainBa>>
      /\ pc' = "write" /\ rg'.ret = "up_main"
  BY <1>1 DEF UpdateBackup, WriteRange, chip, attachV, ghost
<1>3. \A b \in Tables : b = mainBa \/ (b = got /\ got # None)
  <2> SUFFICES ASSUME NEW b \in Tables, b # mainBa PROVE b = got /\ got # None
    OBVIOUS
  <2>1. b \in Blocks /\ b # None /\ (b = backupBa \/ b = got)
    BY <1>1, TablesSound DEF Layout, Placed
  <2>2. ~(backupBa <= b /\ b < IF got = None THEN topBa ELSE got)
    BY <1>1, PassedTable
  <2>3. backupBa < topBa
    BY <1>1, Bounds DEF Layout, Ordered
  <2> QED
    BY <2>1, <2>2, <2>3, <1>1, Bounds
<1>4. Laid' /\ (Creating' => Creating) /\ Going("up_main")'
  BY <1>2 DEF Laid, Creating, Going
<1> QED
  BY <1>1, <1>2, <1>3, <1>4, BetweenLoops

LEMMA ForgetData ==
  ASSUME Data, Forget, UNCHANGED <<cells, badmark, acked>>
  PROVE  KeepsData
<1>1. pc' = "off" /\ uret' = "idle" /\ ~protected'
  BY DEF Forget, ResetCtl
<1>2. NewChip' /\ Kept' /\ (Tidy => Tidy')
  BY <1>1, NoTouch DEF Creating, Laid
<1> QED
  BY <1>1, <1>2
  DEF KeepsData, Data, Resting, TablesSaved, CacheSaved, Requested, Erase, Laid

LEMMA RebuildMainFailsData ==
  IInv /\ Serving /\ Layout /\ Data /\ RebuildMainFails => KeepsData
<1> SUFFICES ASSUME IInv, Serving, Layout, Data, RebuildMainFails PROVE KeepsData
  OBVIOUS
<1>1. /\ pc = "rb_main" /\ got = None /\ pc \in WriteReturns /\ Laid
      /\ UNCHANGED <<cells, badmark, acked>>
  BY DEF RebuildMainFails, chip, ghost, WriteReturns, Laid
<1>2. CASE uret \in {"creating", "c_end"}
  BY <1>1, <1>2, ForgetData DEF RebuildMainFails
<1>3. CASE uret \notin {"creating", "c_end"}
  <2>1. /\ UpdateReturn /\ protected' /\ UNCHANGED <<st, mp, dataCount, cache>>
    BY <1>3 DEF RebuildMainFails, GiveUp, table
  <2>2. Going("rb_main") /\ ~Going("rm_main") /\ ~Going("rs_erased")
    BY <1>1 DEF Going
  <2>3. Tables = {} /\ Tables' = {}
    BY <1>1, <2>2, TablesSound DEF Layout, Placed, Ranges, Tables
  <2>4. Requested' /\ (Creating' => Creating) /\ Laid' /\ pc' \in UpdateReturns
    BY <1>1, <2>1, <2>3, BackAfterUpdate DEF Data
  <2>5. NewChip' /\ Kept' /\ (Tidy => Tidy')
    BY <1>1, <2>1, <2>4, NoTouch
  <2> QED
    BY <2>1, <2>3, <2>4, <2>5 DEF KeepsData, Data, TablesSaved, CacheSaved, Resting
<1> QED
  BY <1>2, <1>3

LEMMA OtherUpdateData ==
  ASSUME IInv, Serving, Layout, Data,
         \/ UpdateMain \/ UpdateMainRebuilds \/ RescueMain \/ RescueMainTmp
         \/ RescueMainDone \/ RebuildMain \/ RebuildBackup \/ RebuildErased
  PROVE  KeepsData
<1>1. /\ pc \in {"up_main", "rm_tmp", "rm_main", "rb_main", "rb_backup", "rb_erased"}
      /\ UNCHANGED <<cells, badmark, acked, st, mp, dataCount, protected, cache>>
      /\ UNCHANGED <<op, uret>>
  BY DEF UpdateMain, UpdateMainRebuilds, RescueMain, RescueMainTmp, RescueMainDone,
    RebuildMain, RebuildBackup, RebuildErased, chip, attachV, table, ghost, ctl
<1>2. /\ pc' \in {"write", "erase", "update", "c_map"}
      /\ pc' = "c_map" => uret = "creating"
  BY DEF UpdateMain, UpdateMainRebuilds, RescueMain, RescueMainTmp, RescueMainDone,
    RebuildMain, RebuildBackup, RebuildErased, StartRebuild, BackupBecomesMain,
    RebuildReturn, RetryBelow, WriteRange, EraseRange
<1>3. Laid' /\ (Creating' => Creating) /\ pc \in WriteReturns \cup EraseReturns
  BY <1>1, <1>2 DEF Laid, Creating, WriteReturns, EraseReturns
<1>4. ASSUME NEW b \in Tables PROVE cells[b].mp = cache.mp
  <2>1. CASE pc # "up_main"
    BY <2>1, <1>1, Saved DEF Laid
  <2>2. CASE pc = "up_main"
    <3>1. \/ b = backupBa /\ backupBa # mainBa
          \/ cells[b] = cache
      BY <2>2, UpMainFacts, TablesSound, Bounds
    <3> QED
      BY <3>1, <2>2, UpMainFacts DEF KeepsData, Data, TablesSaved, Going
  <2> QED
    BY <2>1, <2>2
<1> QED
  BY <1>1, <1>2, <1>3, <1>4, BetweenLoops

LEMMA UpdateStepData == IInv /\ Serving /\ Layout /\ Data /\ UpdateStep => KeepsData
BY UpdateDoneData, UpdateOnceData, UpdateBackupData, RebuildMainFailsData,
   OtherUpdateData DEF UpdateStep

-----------------------------------------------------------------------------
(* The end of an attach. *)

LEMMA LoadDoneData == IInv /\ Serving /\ Layout /\ Data /\ LoadDone => KeepsData
<1> SUFFICES ASSUME IInv, Serving, Layout, Data, LoadDone PROVE KeepsData
  OBVIOUS
<1>1. /\ pc \in {"ld_ok", "ld_fail"} /\ pc' = "idle" /\ uret' = "idle" /\ Laid
      /\ UNCHANGED <<cells, badmark, acked, st, mp, dataCount, cache>>
  BY DEF LoadDone, chip, table, ghost, Return, ResetCtl, Laid
<1>2. Tables' = Tables
  BY <1>1 DEF Tables
<1>3. NewChip' /\ Kept' /\ (Tidy => Tidy')
  BY <1>1, NoTouch DEF Creating, Laid
<1>4. TablesSaved'
  BY <1>1, <1>2, Saved DEF TablesSaved
<1>5. CacheSaved' /\ Resting' /\ Requested'
  BY <1>1 DEF Data, CacheSaved, Resting, Requested, Erase, UpdateReturns
<1> QED
  BY <1>3, <1>4, <1>5 DEF KeepsData, Data

LEMMA LoadStepData == IInv /\ Serving /\ Layout /\ Data /\ LoadStep => KeepsData
<1> SUFFICES ASSUME IInv, Serving, Layout, Data, LoadStep PROVE KeepsData
  OBVIOUS
<1>1. CASE LoadDone
  BY <1>1, LoadDoneData
<1>2. CASE \/ RescueFront \/ RescueNext \/ RescueNextLoop \/ RescueNextDone
           \/ UpdateSingle \/ UpdateSingleFails
  <2>1. /\ pc \in {"rs_front", "rs_next", "rs_erased", "us_main", "us_backup"}
        /\ UNCHANGED <<cells, badmark, acked, st, mp, dataCount, protected, cache>>
        /\ UNCHANGED <<op, uret>>
    BY <1>2 DEF RescueFront, RescueNext, RescueNextLoop, RescueNextDone, UpdateSingle,
      UpdateSingleFails, chip, attachV, table, ghost, ctl
  <2>2. pc' \in {"write", "erase", "ld_ok", "ld_fail"}
    BY <1>2 DEF RescueFront, RescueNext, RescueNextLoop, RescueNextDone, UpdateSingle,
      UpdateSingleFails, RetryBelow, WriteRange, EraseRange
  <2>3. /\ Laid' /\ (Creating' => Creating) /\ pc \in WriteReturns \cup EraseReturns
        /\ Laid
    BY <2>1, <2>2 DEF Laid, Creating, WriteReturns, EraseReturns
  <2>4. \A b \in Tables : cells[b].mp = cache.mp
    BY <2>1, <2>3, Saved
  <2> QED
    BY <2>1, <2>2, <2>3, <2>4, BetweenLoops
<1> QED
  BY <1>1, <1>2 DEF LoadStep

-----------------------------------------------------------------------------
(* A new chip. *)

LEMMA CreateStepData == IInv /\ Serving /\ Layout /\ Data /\ CreateStep => KeepsData
<1> SUFFICES ASSUME IInv, Serving, Layout, Data, CreateStep PROVE KeepsData
  OBVIOUS
<1>1. CASE CreateFails
  BY <1>1, ForgetData DEF CreateFails, chip, ghost
<1>2. CASE SigErase \/ SigProgram \/ SigFails
  <2>1. /\ pc \in {"sig", "sig_prog"} /\ pc' \in {"sig", "sig_prog", "create"}
        /\ acked' = acked /\ UNCHANGED <<op, uret, protected>> /\ Creating
        /\ \E b \in Blocks, c \in {Empty, Sig, Torn} : cells' = [cells EXCEPT ![b] = c]
    <3>1. SigHere \in Blocks /\ (pc = "sig_prog" => rg.ba \in Blocks)
      BY WalkDescIn DEF SigHere, IInv, LocalsOk
    <3> QED
      BY <1>2, <3>1 DEF SigErase, SigProgram, SigFails, ghost, ctl, attachV, Fails, Creating
  <2>2. \A l \in LBs : ~Settled(l)'
    BY <2>1 DEF Data, NewChip, Settled
  <2>3. \A b \in Blocks : cells'[b].kind # "data"
    <3>1. cells \in [Blocks -> Cell]
      BY DEF IInv, TypeOK
    <3>2. PICK b \in Blocks, c \in {Empty, Sig, Torn} : cells' = [cells EXCEPT ![b] = c]
      BY <2>1
    <3> QED
      BY <2>1, <3>1, <3>2 DEF KeepsData, Data, NewChip, Empty, Sig, Torn
  <2>4. NewChip' /\ Kept' /\ (Tidy => Tidy')
    BY <2>2, <2>3 DEF NewChip, Kept, Tidy, NotGood, DataMapped, NoData, Homes
  <2>5. ~Laid' /\ ~protected
    BY <2>1 DEF Data, Resting, Laid, UpdateReturns
  <2>6. Requested'
    <3>1. UNCHANGED <<mp, dataCount>> /\ Tables' \subseteq Blocks
      BY <1>2 DEF SigErase, SigProgram, SigFails, table, attachV, Tables
    <3>2. \A x \in Blocks : st'[x] = "good" => st[x] = "good"
      BY <1>2 DEF SigErase, SigProgram, SigFails, table, Fails, IInv, TypeOK
    <3> QED
      BY <2>1, <2>5, <3>1, <3>2, RequestGoesOn DEF KeepsData, Data
  <2> QED
    BY <2>1, <2>4, <2>5, <2>6 DEF KeepsData, Data, Resting, TablesSaved, CacheSaved
<1>3. CASE CreateTables
  <2>1. /\ pc = "create" /\ pc' = "write" /\ uret' = "creating" /\ cache'.mp = mp
        /\ UNCHANGED <<cells, badmark, acked, mp, protected>>
    BY <1>3 DEF CreateTables, StartRebuild, WriteRange, Regenerate, Generate, Table,
      chip, table, attachV, ghost
  <2>2. NewChip' /\ Kept' /\ (Tidy => Tidy')
    BY <2>1 DEF Data, NewChip, Creating, Kept, Tidy, NotGood, DataMapped, NoData, Homes,
      Settled
  <2>3. Tables' = {}
    BY <2>1 DEF Layout, Fresh, Tables
  <2> QED
    BY <2>1, <2>2, <2>3
    DEF KeepsData, Data, Resting, TablesSaved, CacheSaved, Requested, Erase, UpdateReturns
<1>4. CASE CreateEnd
  <2>1. /\ pc \in {"c_close", "c_map"} /\ pc' = "update" /\ uret' = "c_end" /\ Laid
        /\ UNCHANGED <<cells, badmark, acked, st, mp, changed, cache, dataCount, protected>>
    BY <1>4 DEF CreateEnd, Update, chip, table, attachV, ghost, Laid
  <2>2. NewChip' /\ Kept' /\ (Tidy => Tidy')
    BY <2>1, NoTouch DEF Creating, Laid
  <2>3. TablesSaved'
    BY <2>1, Saved DEF TablesSaved, Tables
  <2> QED
    BY <2>1, <2>2, <2>3 DEF KeepsData, Data, Resting, CacheSaved, Requested, Erase
<1>5. CASE CreateDone
  <2>1. /\ pc = "c_end" /\ pc' = "idle" /\ uret' = "idle" /\ Laid
        /\ UNCHANGED <<cells, badmark, acked, st, mp, cache, dataCount, protected>>
    BY <1>5 DEF CreateDone, Return, ResetCtl, chip, table, attachV, ghost, Laid
  <2>2. NewChip' /\ Kept' /\ (Tidy => Tidy')
    BY <2>1, NoTouch DEF Creating, Laid
  <2>3. TablesSaved'
    BY <2>1, Saved DEF TablesSaved, Tables
  <2> QED
    BY <2>1, <2>2, <2>3 DEF KeepsData, Data, Resting, CacheSaved, Requested, Erase, UpdateReturns
<1> QED
  BY <1>1, <1>2, <1>3, <1>4, <1>5 DEF CreateStep

-----------------------------------------------------------------------------
(* The steps that serve a request. *)

\* the chip stays as it is
LEMMA ChipSame ==
  ASSUME Data, UNCHANGED <<cells, badmark>>, Creating' => Creating,
         \A l \in LBs : Settled(l)' => Settled(l) /\ acked'[l] = acked[l],
         Laid' => /\ Laid /\ (Tidy => NoData(st)' /\ Homes(mp)')
                  /\ \A l \in LBs : Settled(l)' =>
                       l < dataCount' /\ mp'[l] = mp[l] /\ st'[mp[l]] = st[mp[l]]
  PROVE  NewChip' /\ Kept' /\ (Tidy => Tidy')
<1>1. SigBlocks' = SigBlocks /\ Tables' = Tables
  BY DEF SigBlocks, Tables
<1>2. NewChip'
  BY <1>1 DEF Data, NewChip
<1>3. Kept'
  BY <1>1 DEF Data, Kept, AtHome, Holds
<1>4. Tidy => Tidy'
  BY <1>1 DEF Tidy, NotGood, DataMapped, NoData, Homes
<1> QED
  BY <1>2, <1>3, <1>4

\* one block that is the home of nothing that was acknowledged changes
LEMMA OneTouched ==
  ASSUME IInv, Data, NEW b, NEW c, Touch(b, c), c.kind # "table", b \notin SigBlocks,
         Creating' => Creating,
         \A l \in LBs : Settled(l)' =>
           /\ Settled(l) /\ acked'[l] = acked[l]
           /\ \A t \in Tables : t # b => cells[t].mp[l] # b
           /\ Laid' => mp[l] # b,
         Laid' => /\ Laid /\ mp' = mp /\ dataCount' = dataCount
                  /\ \A x \in Blocks : \/ st'[x] = st[x]
                                       \/ x = b /\ (x \in badmark' \/ cells'[x].kind # "data")
  PROVE  NewChip' /\ Kept' /\ (Tidy => Tidy')
<1>1. Tidy => Tidy'
  BY ChipStays
<1>2. NewChip'
  <2>1. SigBlocks' = SigBlocks
    BY TouchFacts
  <2> QED
    BY <2>1, NoNewData DEF KeepsData, Data, NewChip
<1>3. Kept'
  <2> SUFFICES ASSUME NEW l \in LBs, Settled(l)'
               PROVE  /\ \A t \in Tables' : AtHome(l, cells[t].mp, cells[t].st)'
                      /\ Laid' => l < dataCount' /\ AtHome(l, mp, st)'
    BY DEF Kept
  <2>1. Laid' => st'[mp[l]] = st[mp[l]]
    BY DEF Data, Kept, AtHome
  <2> QED
    BY <2>1, HomeStays DEF KeepsData, Data
<1> QED
  BY <1>1, <1>2, <1>3

\* the block that a request works on
LEMMA WorkedOn ==
  ASSUME IInv, Layout, Data, Laid, NoLoop, NEW k \in LBs, mp[k] # Unmapped,
         pc \notin {"update", "c_map", "detached"}
  PROVE  /\ mp[k] \in Blocks /\ mp[k] \notin SigBlocks /\ mp[k] \notin Tables
         /\ \A l \in LBs : l # k => mp[l] # mp[k]
         /\ \A l \in LBs : l # k /\ Settled(l) /\ ~protected =>
              \A t \in Tables : cells[t].mp[l] # mp[k]
         /\ ~protected => \A t \in Tables : cells[t].mp[k] = mp[k]
         /\ st[mp[k]] = "good" => \A t \in Tables : cells[t].st[mp[k]] = "good"
<1>1. mp[k] \in Blocks /\ mp[k] \notin SigBlocks /\ mp[k] \notin Tables
  BY HomeFacts
<1>2. \A l \in LBs : l # k => mp[l] # mp[k]
  BY DEF Layout, Remembered, OneToOne
<1>3. \A t \in Tables : cells[t].mp = cache.mp
  BY Saved DEF NoLoop, WriteReturns
<1>4. ~protected => \A l \in LBs : mp[l] = Unmapped \/ mp[l] = cache.mp[l]
  BY DEF Data, CacheSaved
<1>5. \A l \in LBs : Settled(l) => mp[l] # Unmapped
  BY ChipFacts DEF Data, Kept, AtHome
<1>6. \A t \in Tables : Ages(cells[t].st, cache.st) /\ Ages(cache.st, st)
  BY DEF Layout, Remembered, Follows
<1> QED
  BY <1>1, <1>2, <1>3, <1>4, <1>5, <1>6 DEF Ages

\* the tables and the request, where the tables are not written
LEMMA RestSaved ==
  ASSUME IInv, Layout, Data, Laid, NoLoop, Tables' \subseteq Tables,
         \A t \in Tables' : cells'[t] = cells[t], cache' = cache
  PROVE  TablesSaved'
<1>1. \A t \in Tables : cells[t].mp = cache.mp
  BY Saved DEF NoLoop, WriteReturns
<1> QED
  BY <1>1 DEF TablesSaved

LEMMA EraseRemapsData == IInv /\ Serving /\ Layout /\ Data /\ EraseRemaps => KeepsData
<1> SUFFICES ASSUME IInv, Serving, Layout, Data, EraseRemaps PROVE KeepsData
  OBVIOUS
<1>1. /\ pc = "e_try" /\ pc' = "e_map" /\ Pb # Unmapped /\ op.lb \in LBs
      /\ UNCHANGED <<cells, badmark, acked, mp, cache, dataCount, protected, op, uret>>
      /\ Laid /\ NoLoop
      /\ \/ ~Usable /\ st' = st
         \/ Pb \in badmark /\ st' = [st EXCEPT ![Pb] = "bad"]
  BY DEF EraseRemaps, Serving, chip, attachV, ghost, ctl, Laid, NoLoop, WriteReturns
<1>2. /\ op.lb < dataCount /\ ~Settled(op.lb) /\ Tables' = Tables
      /\ protected => Tables = {}
  BY <1>1 DEF Data, Requested, Erase, Tables
<1>3. /\ Pb \in Blocks /\ \A l \in LBs : l # op.lb => mp[l] # Pb
  BY <1>1, WorkedOn DEF Pb
<1>4. st \in [Blocks -> States]
  BY DEF IInv, TypeOK
<1>5. NewChip' /\ Kept' /\ (Tidy => Tidy')
  <2>1. \A l \in LBs : Settled(l)' => /\ Settled(l) /\ l # op.lb /\ mp[l] \in Blocks
                                      /\ l < dataCount
    BY <1>1, <1>2 DEF Settled, Data, Kept, AtHome
  <2>2. Tidy => NoData(st)' /\ Homes(mp)'
    BY <1>1, <1>4 DEF Tidy, NotGood, DataMapped, NoData, Homes
  <2>3. Creating' => Creating
    BY <1>1 DEF Creating
  <2> QED
    BY <1>1, <1>3, <1>4, <2>1, <2>2, <2>3, ChipSame
<1>6. TablesSaved'
  BY <1>1, <1>2, RestSaved
<1>7. st'[mp'[op.lb]] # "good"
  BY <1>1, <1>3, <1>4 DEF Usable, Pb
<1>8. Requested'
  BY <1>1, <1>2, <1>3, <1>7 DEF Requested, Erase, Settled, Pb
<1>9. CacheSaved' /\ Resting'
  BY <1>1 DEF Data, CacheSaved, Resting
<1> QED
  BY <1>5, <1>6, <1>8, <1>9 DEF KeepsData, Data

LEMMA EraseFailsData == IInv /\ Serving /\ Layout /\ Data /\ EraseFails => KeepsData
<1> SUFFICES ASSUME IInv, Serving, Layout, Data, EraseFails PROVE KeepsData
  OBVIOUS
<1>1. /\ pc = "e_try" /\ pc' = "e_map" /\ Pb # Unmapped /\ op.lb \in LBs
      /\ UNCHANGED <<acked, mp, cache, dataCount, protected, op, uret>>
      /\ cells' = [cells EXCEPT ![Pb] = Torn] /\ badmark' = badmark \cup {Pb}
      /\ st' = [st EXCEPT ![Pb] = "bad"] /\ Laid /\ NoLoop
  BY DEF EraseFails, Usable, Fails, Serving, attachV, ghost, ctl, Laid, NoLoop, WriteReturns
<1>2. /\ op.lb < dataCount /\ ~Settled(op.lb)
      /\ protected => Tables = {}
  BY <1>1 DEF Data, Requested, Erase
<1>3. /\ Pb \in Blocks /\ Pb \notin SigBlocks /\ Pb \notin Tables
      /\ \A l \in LBs : l # op.lb => mp[l] # Pb
      /\ \A l \in LBs : l # op.lb /\ Settled(l) =>
              \A t \in Tables : cells[t].mp[l] # Pb
  BY <1>1, <1>2, WorkedOn DEF Pb
<1>4. st \in [Blocks -> States] /\ Touch(Pb, Torn) /\ Torn.kind # "table"
  BY <1>1, <1>3 DEF IInv, TypeOK, Touch, Torn
<1>5. Tables' \subseteq Tables /\ \A t \in Tables' : cells'[t] = cells[t]
  BY <1>3, <1>4, TouchFacts
<1>6. NewChip' /\ Kept' /\ (Tidy => Tidy')
  <2>1. Creating' => Creating
    BY <1>1 DEF Creating
  <2>2. \A l \in LBs : Settled(l)' => Settled(l) /\ l # op.lb
    BY <1>1, <1>2 DEF Settled
  <2>3. \A x \in Blocks : st'[x] = st[x] \/ (x = Pb /\ x \in badmark')
    BY <1>1, <1>4
  <2> HIDE DEF Pb
  <2> QED
    BY <1>1, <1>3, <1>4, <2>1, <2>2, <2>3, OneTouched
<1>7. Requested'
  BY <1>1, <1>2, <1>3, <1>4, <1>5 DEF Requested, Erase, Settled, Pb
<1>8. TablesSaved'
  BY <1>1, <1>5, RestSaved
<1>9. CacheSaved' /\ Resting'
  BY <1>1 DEF Data, CacheSaved, Resting
<1> QED
  BY <1>6, <1>7, <1>8, <1>9 DEF KeepsData, Data

\* a block that was erased or written is the home of what is acknowledged now
LEMMA NewHome ==
  ASSUME IInv, Serving, Layout, Data, pc \in {"e_try", "p_try"},
         Usable, Pb \notin badmark, NEW c, c.kind \notin {"sig", "table"},
         cells' = [cells EXCEPT ![Pb] = c],
         UNCHANGED <<badmark, st, mp, cache, dataCount, protected>>,
         NEW a, acked' = [acked EXCEPT ![op.lb] = a],
         c = IF a = "empty" THEN Empty ELSE [kind |-> "data", lb |-> op.lb, val |-> a],
         a # "empty" => ~protected,
         pc' = "idle", uret' = "idle"
  PROVE  KeepsData
<1>1. /\ Laid /\ Laid' /\ NoLoop /\ op.lb \in LBs /\ ~Creating' /\ Pb # Unmapped
      /\ st[Pb] = "good"
  BY DEF Laid, NoLoop, WriteReturns, Serving, Creating, Usable
<1>2. /\ op.lb < dataCount
      /\ protected => Tables = {}
  BY DEF Data, Requested, Erase, Resting, UpdateReturns
<1>3. /\ Pb \in Blocks /\ Pb \notin SigBlocks /\ Pb \notin Tables
      /\ \A l \in LBs : l # op.lb => mp[l] # Pb
      /\ \A l \in LBs : l # op.lb /\ Settled(l) =>
              \A t \in Tables : cells[t].mp[l] # Pb
      /\ \A t \in Tables : cells[t].mp[op.lb] = Pb /\ cells[t].st[Pb] = "good"
  BY <1>1, <1>2, WorkedOn DEF Pb
<1>4. /\ \A x \in Blocks : x # Pb => cells'[x] = cells[x]
      /\ cells'[Pb] = c /\ SigBlocks' = SigBlocks /\ Tables' = Tables
      /\ \A t \in Tables : cells'[t] = cells[t]
  <2>1. cells \in [Blocks -> Cell]
    BY DEF IInv, TypeOK
  <2>2. /\ \A x \in Blocks : x # Pb => cells'[x] = cells[x]
        /\ cells'[Pb] = c
    BY <2>1, <1>3
  <2> HIDE DEF Pb
  <2> QED
    BY <2>2, <1>3 DEF SigBlocks, Tables
<1>5. NewChip'
  BY <1>1, <1>4 DEF NewChip, Layout, Remembered
<1>6. Kept'
  <2> SUFFICES ASSUME NEW l \in LBs, Settled(l)'
               PROVE  /\ \A t \in Tables : AtHome(l, cells[t].mp, cells[t].st)'
                      /\ l < dataCount' /\ AtHome(l, mp, st)'
    BY <1>4 DEF Kept
  <2>1. CASE l = op.lb
    <3>1. acked'[l] = a
      BY <2>1 DEF IInv, TypeOK
    <3>2. Holds(l, c)'
      BY <2>1, <3>1 DEF Holds
    <3>3. /\ Pb \in Blocks \ badmark' /\ st'[Pb] = "good" /\ cells'[Pb] = c
          /\ l < dataCount' /\ mp'[l] = Pb
          /\ \A t \in Tables : cells'[t].mp[l] = Pb /\ cells'[t].st[Pb] = "good"
      BY <2>1, <1>1, <1>2, <1>3, <1>4 DEF Pb
    <3> HIDE DEF Pb
    <3> QED
      BY <3>2, <3>3 DEF AtHome, Holds
  <2>2. CASE l # op.lb
    <3>1. Settled(l) /\ acked'[l] = acked[l]
      BY <2>2, <1>1 DEF Settled, IInv, TypeOK
    <3>2. /\ l < dataCount /\ AtHome(l, mp, st)
          /\ \A t \in Tables : AtHome(l, cells[t].mp, cells[t].st)
      BY <3>1, <1>1 DEF Data, Kept
    <3> HIDE DEF Pb
    <3> QED
      BY <2>2, <3>1, <3>2, <1>3, <1>4 DEF AtHome, Holds
  <2> QED
    BY <2>1, <2>2
<1>7. Tidy => Tidy'
  <2> SUFFICES ASSUME Tidy PROVE Tidy'
    OBVIOUS
  <2>1. NoData(st)' /\ \A t \in Tables' : NoData(cells[t].st)'
    <3> HIDE DEF Pb
    <3> QED
      BY <1>1, <1>3, <1>4 DEF Tidy, NotGood, NoData
  <2>2. Homes(mp)'
    BY <1>1, <1>3, <1>4 DEF Tidy, DataMapped, Homes, Pb, Empty
  <2>3. \A t \in Tables' : Homes(cells[t].mp)'
    <3> HIDE DEF Pb
    <3> QED
      BY <1>1, <1>3, <1>4 DEF Tidy, DataMapped, Homes, Empty
  <2> QED
    BY <2>1, <2>2, <2>3 DEF Tidy, NotGood, DataMapped
<1>8. TablesSaved'
  BY <1>1, <1>4, RestSaved
<1>9. CacheSaved' /\ Resting' /\ Requested'
  BY <1>1 DEF Data, CacheSaved, Resting, UpdateReturns, Requested, Erase
<1> QED
  BY <1>5, <1>6, <1>7, <1>8, <1>9 DEF KeepsData, Data

LEMMA EraseOkData == IInv /\ Serving /\ Layout /\ Data /\ EraseOk => KeepsData
<1> SUFFICES ASSUME IInv, Serving, Layout, Data, EraseOk PROVE KeepsData
  OBVIOUS
<1>1. /\ pc = "e_try" /\ Usable /\ Pb \notin badmark /\ op.lb \in LBs
      /\ cells' = [cells EXCEPT ![Pb] = Empty] /\ acked' = [acked EXCEPT ![op.lb] = "empty"]
      /\ UNCHANGED <<badmark, st, mp, cache, dataCount, protected>>
      /\ pc' = "idle" /\ uret' = "idle"
  BY DEF EraseOk, Answer, Return, ResetCtl, table, attachV, Serving
<1>2. Empty.kind \notin {"sig", "table", "data"}
  BY DEF Empty
<1> QED
  BY <1>1, <1>2, NewHome

LEMMA WriteOkData == IInv /\ Serving /\ Layout /\ Data /\ WriteOk => KeepsData
<1> SUFFICES ASSUME IInv, Serving, Layout, Data, WriteOk PROVE KeepsData
  OBVIOUS
<1> DEFINE c == [kind |-> "data", lb |-> op.lb, val |-> op.val]
<1>1. /\ pc = "p_try" /\ op.lb \in LBs /\ op.val \in Values
      /\ cells' = [cells EXCEPT ![Pb] = c] /\ acked' = [acked EXCEPT ![op.lb] = op.val]
      /\ UNCHANGED <<badmark, st, mp, cache, dataCount, protected>>
      /\ pc' = "idle" /\ uret' = "idle"
  BY DEF WriteOk, Answer, Return, ResetCtl, table, attachV, Serving, IInv, LocalsOk
<1>2. Usable /\ Pb \notin badmark /\ ~protected
  BY <1>1, ChipFacts DEF Data, Requested, Resting, Usable, Pb, UpdateReturns
<1>3. op.val # "empty" /\ c.kind \notin {"sig", "table"}
  BY <1>1, ChipAssumption
<1> HIDE DEF c
<1>4. c = IF op.val = "empty" THEN Empty ELSE [kind |-> "data", lb |-> op.lb, val |-> op.val]
  BY <1>3 DEF c
<1> QED
  BY <1>1, <1>2, <1>3, <1>4, NewHome

LEMMA WriteFailsData == IInv /\ Serving /\ Layout /\ Data /\ WriteFails => KeepsData
<1> SUFFICES ASSUME IInv, Serving, Layout, Data, WriteFails PROVE KeepsData
  OBVIOUS
<1>1. /\ pc = "p_try" /\ pc' = "update" /\ uret' = "idle" /\ Pb # Unmapped /\ op.lb \in LBs
      /\ UNCHANGED <<badmark, acked, mp, cache, dataCount, protected>>
      /\ cells' = [cells EXCEPT ![Pb] = Torn]
      /\ st' = [st EXCEPT ![Pb] = "remap"] /\ Laid /\ NoLoop
  BY DEF WriteFails, Update, Serving, attachV, ghost, Laid, NoLoop, WriteReturns
<1>2. ~Settled(op.lb) /\ ~protected
  BY <1>1 DEF Data, Requested, Resting, UpdateReturns
<1>3. /\ Pb \in Blocks /\ Pb \notin SigBlocks /\ Pb \notin Tables
      /\ \A l \in LBs : l # op.lb => mp[l] # Pb
      /\ \A l \in LBs : l # op.lb /\ Settled(l) =>
              \A t \in Tables : cells[t].mp[l] # Pb
  BY <1>1, <1>2, WorkedOn DEF Pb
<1>4. st \in [Blocks -> States] /\ Touch(Pb, Torn) /\ Torn.kind # "table"
  BY <1>1, <1>3 DEF IInv, TypeOK, Touch, Torn
<1>5. Tables' \subseteq Tables /\ \A t \in Tables' : cells'[t] = cells[t]
  BY <1>3, <1>4, TouchFacts
<1>6. NewChip' /\ Kept' /\ (Tidy => Tidy')
  <2>1. Creating' => Creating
    BY <1>1 DEF Creating
  <2>2. \A l \in LBs : Settled(l)' => Settled(l) /\ l # op.lb
    BY <1>1, <1>2 DEF Settled
  <2>3. \A x \in Blocks : st'[x] = st[x] \/ (x = Pb /\ cells'[x].kind # "data")
    BY <1>1, <1>3, <1>4 DEF IInv, TypeOK, Torn
  <2> HIDE DEF Pb
  <2> QED
    BY <1>1, <1>3, <1>4, <2>1, <2>2, <2>3, OneTouched
<1>7. TablesSaved'
  BY <1>1, <1>5, RestSaved
<1>8. CacheSaved' /\ Resting' /\ Requested'
  BY <1>1, <1>2 DEF Data, CacheSaved, Resting, Requested, Erase
<1> QED
  BY <1>6, <1>7, <1>8 DEF KeepsData, Data

\* a logical block loses its home, or gets another
LEMMA Remaps ==
  ASSUME IInv, Serving, Layout, Data, pc \in {"e_map", "e_close", "c_map"},
         NEW k \in LBs, k = IF pc = "c_map" THEN dataCount ELSE op.lb,
         NEW b, mp' = [mp EXCEPT ![k] = b],
         UNCHANGED <<cells, badmark, st, acked, cache, protected>>,
         \/ dataCount' = dataCount
         \/ pc = "c_map" /\ dataCount' = dataCount + 1,
         Creating' => Creating, pc' \in {"update", "c_map"}
  PROVE  NewChip' /\ Kept' /\ (Tidy => Tidy') /\ TablesSaved' /\ Laid' /\ Laid
<1>1. Laid /\ Laid' /\ NoLoop /\ dataCount \in Int
  BY DEF Laid, NoLoop, WriteReturns, IInv, TypeOK
<1>2. pc = "c_map" => Creating
  BY DEF Creating
<1>3. ~Settled(k) /\ (pc # "c_map" => mp[k] \in Blocks /\ st[mp[k]] # "good")
  BY <1>2 DEF Data, NewChip, Requested, Erase
<1>4. Tidy => NoData(st)' /\ NoData(st)
  BY <1>1 DEF Tidy, NotGood, NoData
<1>5. Tidy => \A x \in Blocks \ badmark :
                cells[x].kind = "data" => cells[x].lb \in LBs \ {k}
  <2> SUFFICES ASSUME Tidy, NEW x \in Blocks \ badmark, cells[x].kind = "data"
               PROVE  cells[x].lb \in LBs \ {k}
    OBVIOUS
  <2>1. cells[x].lb \in LBs
    <3>1. cells \in [Blocks -> Cell]
      BY DEF IInv, TypeOK
    <3> QED
      BY <3>1 DEF Cell, Empty, Torn, Sig, DataCell, InfoTable
  <2>2. pc # "c_map"
    BY <1>2 DEF Data, NewChip
  <2>3. mp[cells[x].lb] = x /\ st[x] = "good"
    BY <1>1, <1>4 DEF Tidy, DataMapped, Homes, NoData
  <2> QED
    BY <2>1, <2>2, <2>3, <1>3
<1>6. mp \in [LBs -> Blocks \cup {Unmapped}]
  BY DEF IInv, TypeOK
<1>7. Tidy => Homes(mp)'
  BY <1>1, <1>5, <1>6 DEF Tidy, DataMapped, Homes
<1>8. \A l \in LBs : Settled(l)' => Settled(l) /\ l # k /\ l < dataCount'
  <2> SUFFICES ASSUME NEW l \in LBs, Settled(l)' PROVE Settled(l) /\ l # k /\ l < dataCount'
    OBVIOUS
  <2>1. Settled(l) /\ l # k
    BY <1>3 DEF Settled
  <2>2. l < dataCount /\ l \in Int
    BY <2>1, <1>1, ChipFacts DEF Data, Kept, LBs
  <2> QED
    BY <1>1, <2>1, <2>2
<1>9. TablesSaved'
  <2>1. Tables' = Tables
    BY DEF Tables
  <2> QED
    BY <1>1, <2>1, RestSaved
<1>10. \A l \in LBs : Settled(l)' => mp'[l] = mp[l]
  BY <1>6, <1>8
<1> QED
  BY <1>1, <1>4, <1>7, <1>8, <1>9, <1>10, ChipSame

LEMMA MapBlockData ==
  IInv /\ Serving /\ Layout /\ Data /\ MapBlock => KeepsData
<1> SUFFICES ASSUME IInv, Serving, Layout, Data, MapBlock PROVE KeepsData
  OBVIOUS
<1> DEFINE k == IF pc = "c_map" THEN dataCount ELSE op.lb
<1>1. /\ pc \in {"e_map", "c_map"} /\ k \in LBs /\ mp' = [mp EXCEPT ![k] = SpareBlock]
      /\ UNCHANGED <<cells, badmark, st, acked, cache, protected, op>> /\ changed'
      /\ IF pc = "c_map" THEN dataCount' = dataCount + 1 /\ UNCHANGED <<pc, uret>>
                         ELSE pc' = "update" /\ uret' = "e_try" /\ UNCHANGED dataCount
  <2>1. k = Lb
    BY DEF Lb
  <2>2. k \in LBs
    <3>1. dataCount < MgmtStart => dataCount \in LBs
      BY ChipFacts DEF IInv, TypeOK, LBs
    <3> QED
      BY <3>1 DEF MapBlock, BlocksLeft, Serving
  <2> QED
    BY <2>1, <2>2 DEF MapBlock, MapReturn, Update, chip
<1>2. Creating' => Creating
  BY <1>1 DEF Creating
<1>3. /\ NewChip' /\ Kept' /\ (Tidy => Tidy') /\ TablesSaved' /\ Laid' /\ Laid
  BY <1>1, <1>2, Remaps
<1>4. CacheSaved' /\ Resting'
  BY <1>1, <1>3 DEF Data, CacheSaved, Resting, UpdateReturns, IInv, TypeOK
<1>5. Requested'
  <2>1. Tables' = Tables
    BY <1>1 DEF Tables
  <2>2. CASE pc = "e_map"
    BY <1>1, <2>1, <2>2 DEF Data, Requested, Erase, Settled
  <2>3. CASE pc = "c_map"
    <3>1. Erase \/ pc = "p_try" => mp'[op.lb] = mp[op.lb]
      BY <1>1, <2>3 DEF Data, Requested, Erase, IInv, TypeOK
    <3>2. Erase \/ pc = "p_try" => op.lb < dataCount'
      <4>1. op.lb \in LBs => op.lb \in Int
        BY ChipFacts DEF LBs
      <4>2. dataCount \in Int
        BY DEF IInv, TypeOK
      <4> QED
        BY <4>1, <4>2, <1>1, <2>3 DEF KeepsData, Data, Requested, Erase, Serving
    <3>3. ~protected
      BY <2>3 DEF Data, Resting, UpdateReturns
    <3> QED
      BY <1>1, <2>1, <2>3, <3>1, <3>2, <3>3 DEF KeepsData, Data, Requested, Erase, Settled
  <2> QED
    BY <1>1, <2>2, <2>3
<1> QED
  BY <1>3, <1>4, <1>5 DEF KeepsData, Data

LEMMA EraseUnmapsData ==
  IInv /\ Serving /\ Layout /\ Data /\ EraseUnmaps => KeepsData
<1> SUFFICES ASSUME IInv, Serving, Layout, Data, EraseUnmaps PROVE KeepsData
  OBVIOUS
<1>1. /\ pc \in {"e_map", "e_close"} /\ op.lb \in LBs /\ mp' = [mp EXCEPT ![op.lb] = Unmapped]
      /\ UNCHANGED <<cells, badmark, st, acked, cache, protected, dataCount>>
      /\ pc' = "update" /\ uret' = "bad"
  BY DEF EraseUnmaps, Update, Serving, chip, attachV, ghost
<1>2. Creating' => Creating
  BY <1>1 DEF Creating
<1>3. /\ NewChip' /\ Kept' /\ (Tidy => Tidy') /\ TablesSaved' /\ Laid' /\ Laid
  BY <1>1, <1>2, Remaps
<1>4. CacheSaved' /\ Resting' /\ Requested'
  BY <1>1, <1>3 DEF Data, CacheSaved, Resting, Requested, Erase, IInv, TypeOK
<1> QED
  BY <1>3, <1>4 DEF KeepsData, Data

LEMMA MapBlockNoneData ==
  IInv /\ Serving /\ Layout /\ Data /\ MapBlockNone => KeepsData
<1> SUFFICES ASSUME IInv, Serving, Layout, Data, MapBlockNone PROVE KeepsData
  OBVIOUS
<1>1. /\ pc \in {"e_map", "c_map"} /\ pc' = "update" /\ Laid /\ Laid' /\ NoLoop
      /\ uret' = (IF pc = "c_map" THEN "c_close" ELSE "e_close")
      /\ UNCHANGED <<cells, badmark, st, mp, changed, acked, cache, protected, dataCount, op>>
  BY DEF MapBlockNone, Update, chip, table, attachV, ghost, Laid, NoLoop, WriteReturns
<1>2. Tables' = Tables
  BY <1>1 DEF Tables
<1>3. NewChip' /\ Kept' /\ (Tidy => Tidy')
  BY <1>1, NoTouch DEF Creating
<1>4. TablesSaved'
  BY <1>1, <1>2, RestSaved
<1>5. CacheSaved' /\ Resting' /\ Requested'
  BY <1>1, <1>2 DEF Data, CacheSaved, Resting, Requested, Erase, Settled, UpdateReturns
<1> QED
  BY <1>3, <1>4, <1>5 DEF KeepsData, Data

LEMMA AnswersData ==
  IInv /\ Serving /\ Layout /\ Data /\ (OpRefused \/ ReportBad \/ EndDetach) => KeepsData
<1> SUFFICES ASSUME IInv, Serving, Layout, Data, OpRefused \/ ReportBad \/ EndDetach
             PROVE  KeepsData
  OBVIOUS
<1>1. CASE EndDetach
  BY <1>1, ForgetData DEF EndDetach, chip, ghost
<1>2. CASE OpRefused \/ ReportBad
  <2>1. /\ pc \in {"e_try", "p_try", "bad"} /\ pc' = "idle" /\ uret' = "idle"
        /\ Laid /\ Laid' /\ NoLoop
        /\ UNCHANGED <<cells, badmark, st, mp, changed, cache, protected, dataCount>>
        /\ \E a \in {"bad", "unknown"} : acked' = [acked EXCEPT ![op.lb] = a]
    BY <1>2 DEF OpRefused, ReportBad, Return, ResetCtl, Answer, chip, table, attachV,
      Laid, NoLoop, WriteReturns
  <2>2. \A l \in LBs : Settled(l)' => Settled(l) /\ acked'[l] = acked[l]
    <3>1. PICK a \in {"bad", "unknown"} : acked' = [acked EXCEPT ![op.lb] = a]
      BY <2>1
    <3> QED
      BY <3>1, ChipAssumption DEF Settled, IInv, TypeOK
  <2>3. Tables' = Tables
    BY <2>1 DEF Tables
  <2>4. NewChip' /\ Kept' /\ (Tidy => Tidy')
    <3>1. ~Creating'
      BY <2>1 DEF Creating
    <3>2. /\ Tidy => NoData(st)' /\ Homes(mp)'
          /\ \A l \in LBs : Settled(l) => l < dataCount
      BY <2>1 DEF Data, Tidy, NotGood, NoData, DataMapped, Homes, Kept
    <3> QED
      BY <2>1, <2>2, <3>1, <3>2, ChipSame
  <2>5. TablesSaved'
    BY <2>1, <2>3, RestSaved
  <2>6. CacheSaved' /\ Resting' /\ Requested'
    BY <2>1 DEF Data, CacheSaved, Resting, Requested, Erase, UpdateReturns
  <2> QED
    BY <2>4, <2>5, <2>6 DEF KeepsData, Data
<1> QED
  BY <1>1, <1>2

LEMMA ServeStepData ==
  IInv /\ Serving /\ Layout /\ Data
    /\ (EraseStep \/ WriteStep \/ OpRefused \/ ReportBad \/ EndDetach) => KeepsData
BY EraseRemapsData, EraseOkData, EraseFailsData, MapBlockData, MapBlockNoneData,
   EraseUnmapsData, WriteOkData, WriteFailsData, AnswersData DEF EraseStep, WriteStep

-----------------------------------------------------------------------------
(* The requests. *)

LEMMA BeginData ==
  ASSUME IInv, Layout, Data, Laid, NoLoop, pc = "idle",
         \A l \in LBs : Settled(l)' => Settled(l) /\ acked'[l] = acked[l],
         UNCHANGED <<cells, badmark, st, mp, changed, cache, dataCount, protected>>,
         Laid', ~Creating'
  PROVE  /\ NewChip' /\ Kept' /\ (Tidy => Tidy') /\ TablesSaved' /\ CacheSaved'
         /\ Tables' = Tables
<1>1. Tables' = Tables
  BY DEF Tables
<1>2. /\ Tidy => NoData(st)' /\ Homes(mp)'
      /\ \A l \in LBs : Settled(l) => l < dataCount
  BY DEF Data, Tidy, NotGood, NoData, DataMapped, Homes, Kept
<1>3. NewChip' /\ Kept' /\ (Tidy => Tidy')
  BY <1>2, ChipSame
<1>4. TablesSaved'
  BY <1>1, RestSaved
<1>5. CacheSaved'
  BY DEF Data, CacheSaved
<1> QED
  BY <1>1, <1>3, <1>4, <1>5

LEMMA MarkData ==
  ASSUME IInv, Layout, Data, Laid, NoLoop, pc = "idle", ~protected, NEW lb \in LBs,
         mp[lb] # Unmapped, MarkBlockBad(lb)
  PROVE  KeepsData
<1>1. /\ cells' = cells /\ badmark' = badmark \cup {mp[lb]}
      /\ mp' = [mp EXCEPT ![lb] = Unmapped] /\ st' = [st EXCEPT ![mp[lb]] = "bad"]
      /\ acked' = [acked EXCEPT ![lb] = "unknown"]
      /\ UNCHANGED <<cache, dataCount, protected>>
      /\ pc' = "update" /\ uret' = "bad"
  BY DEF MarkBlockBad, Begin, Update, attachV
<1>2. PICK b \in Blocks : b = mp[lb]
  BY WorkedOn
<1>3. /\ b \notin SigBlocks /\ b \notin Tables
      /\ \A l \in LBs : l # lb => mp[l] # b
      /\ \A l \in LBs : l # lb /\ Settled(l) =>
              \A t \in Tables : cells[t].mp[l] # b
  BY <1>2, WorkedOn
<1>4. SigBlocks' = SigBlocks /\ Tables' = Tables
  BY <1>1, <1>2, <1>3 DEF SigBlocks, Tables
<1>5. \A l \in LBs : Settled(l)' => Settled(l) /\ acked'[l] = acked[l] /\ l # lb
  BY <1>1, ChipAssumption DEF Settled, IInv, TypeOK
<1>6. /\ \A x \in Blocks : x # b => st'[x] = st[x]
      /\ \A l \in LBs : l # lb => mp'[l] = mp[l]
      /\ mp'[lb] = Unmapped /\ badmark' = badmark \cup {b}
  BY <1>1, <1>2 DEF IInv, TypeOK
<1>7. NewChip'
  BY <1>1, <1>4 DEF NewChip, Layout, Remembered, Creating
<1>8. Kept'
  <2> SUFFICES ASSUME NEW l \in LBs, Settled(l)'
               PROVE  /\ \A t \in Tables : AtHome(l, cells[t].mp, cells[t].st)'
                      /\ l < dataCount' /\ AtHome(l, mp, st)'
    BY <1>4 DEF Kept
  <2>1. /\ Settled(l) /\ acked'[l] = acked[l] /\ l # lb
        /\ l < dataCount /\ AtHome(l, mp, st)
        /\ \A t \in Tables : AtHome(l, cells[t].mp, cells[t].st)
    BY <1>5 DEF Data, Kept
  <2> QED
    BY <2>1, <1>1, <1>3, <1>6 DEF AtHome, Holds
<1>9. Tidy => Tidy'
  <2> SUFFICES ASSUME Tidy PROVE Tidy'
    OBVIOUS
  <2>1. NoData(st)' /\ \A t \in Tables : NoData(cells[t].st)'
    BY <1>1, <1>6 DEF Tidy, NotGood, NoData
  <2>2. ASSUME NEW x \in Blocks, x \notin badmark', cells[x].kind = "data"
        PROVE  cells[x].lb # lb /\ cells[x].lb \in LBs /\ mp[cells[x].lb] = x
    <3>1. cells \in [Blocks -> Cell]
      BY DEF IInv, TypeOK
    <3>2. cells[x].lb \in LBs
      BY <2>2, <3>1 DEF Cell, Empty, Torn, Sig, DataCell, InfoTable
    <3>3. mp[cells[x].lb] = x /\ x # b
      BY <2>2, <1>6 DEF Tidy, DataMapped, Homes
    <3> QED
      BY <3>2, <3>3, <1>2
  <2>3. Homes(mp)'
    BY <2>2, <1>1, <1>6 DEF Homes
  <2>4. \A t \in Tables : Homes(cells[t].mp)'
    BY <1>1 DEF Tidy, DataMapped, Homes
  <2> QED
    BY <2>1, <2>3, <2>4, <1>4 DEF Tidy, NotGood, DataMapped
<1>10. TablesSaved'
  BY <1>1, <1>4, RestSaved
<1>11. CacheSaved'
  BY <1>1, <1>6 DEF Data, CacheSaved
<1>12. Resting' /\ Requested'
  BY <1>1 DEF Resting, Requested, Erase
<1> QED
  BY <1>7, <1>8, <1>9, <1>10, <1>11, <1>12 DEF KeepsData, Data

LEMMA RequestData == IInv /\ Serving /\ Layout /\ Data /\ Request => KeepsData
<1> SUFFICES ASSUME IInv, Serving, Layout, Data, Request PROVE KeepsData
  OBVIOUS
<1>a. pc = "idle" /\ uret = "idle" /\ Laid /\ NoLoop
  BY DEF Request, BeginErase, BeginWrite, MarkBlockBad, BeginDetach, Read,
         Served, Laid, NoLoop, WriteReturns, Data, Requested
<1>b. ASSUME NEW lb \in LBs, acked' = [acked EXCEPT ![lb] = "unknown"]
      PROVE  /\ \A l \in LBs : Settled(l)' => Settled(l) /\ acked'[l] = acked[l]
             /\ ~Settled(lb)'
  BY <1>b, ChipAssumption DEF Settled, IInv, TypeOK
<1>1. ASSUME NEW lb \in LBs, BeginErase(lb) PROVE KeepsData
  <2>1. /\ ~protected /\ lb < dataCount /\ pc' = "e_try" /\ uret' = "idle" /\ op'.lb = lb
        /\ acked' = [acked EXCEPT ![lb] = "unknown"]
        /\ UNCHANGED <<cells, badmark, st, mp, changed, cache, dataCount, protected>>
    BY <1>1, <1>a DEF BeginErase, Begin, Served, chip, table, attachV
  <2>2. Laid' /\ ~Creating'
    BY <2>1 DEF Laid, Creating
  <2>3. /\ NewChip' /\ Kept' /\ (Tidy => Tidy') /\ TablesSaved' /\ CacheSaved'
        /\ Tables' = Tables
    BY <1>a, <1>b, <2>1, <2>2, BeginData
  <2>4. Resting' /\ Requested'
    BY <1>b, <2>1 DEF Resting, Requested, Erase, Settled
  <2> QED
    BY <2>3, <2>4 DEF KeepsData, Data
<1>2. ASSUME NEW lb \in LBs, NEW v \in Values, BeginWrite(lb, v) PROVE KeepsData
  <2>1. /\ ~protected /\ lb < dataCount /\ pc' = "p_try" /\ uret' = "idle" /\ op'.lb = lb
        /\ acked' = [acked EXCEPT ![lb] = "unknown"] /\ acked[lb] = "empty"
        /\ UNCHANGED <<cells, badmark, st, mp, changed, cache, dataCount, protected>>
    BY <1>2, <1>a DEF BeginWrite, Begin, Served, chip, table, attachV
  <2>2. Laid' /\ ~Creating'
    BY <2>1 DEF Laid, Creating
  <2>3. /\ NewChip' /\ Kept' /\ (Tidy => Tidy') /\ TablesSaved' /\ CacheSaved'
        /\ Tables' = Tables
    BY <1>a, <1>b, <2>1, <2>2, BeginData
  <2>4. mp[lb] \in Blocks \ badmark /\ st[mp[lb]] = "good"
    BY <1>a, <2>1 DEF Data, Kept, Settled, AtHome
  <2>5. Resting' /\ Requested'
    BY <1>b, <2>1, <2>4 DEF Resting, Requested, Erase, Settled
  <2> QED
    BY <2>3, <2>5 DEF KeepsData, Data
<1>3. ASSUME NEW lb \in LBs, MarkBlockBad(lb) PROVE KeepsData
  <2>1. CASE mp[lb] = Unmapped
    <3>1. /\ pc' = "bad" /\ uret' = "idle" /\ acked' = [acked EXCEPT ![lb] = "unknown"]
          /\ UNCHANGED <<cells, badmark, st, mp, changed, cache, dataCount, protected>>
      BY <1>3, <1>a, <2>1 DEF MarkBlockBad, Begin, table, attachV
    <3>2. Laid' /\ ~Creating'
      BY <3>1 DEF Laid, Creating
    <3>3. /\ NewChip' /\ Kept' /\ (Tidy => Tidy') /\ TablesSaved' /\ CacheSaved'
      BY <1>a, <1>b, <3>1, <3>2, BeginData
    <3>4. Resting' /\ Requested'
      BY <3>1 DEF Resting, Requested, Erase, UpdateReturns
    <3> QED
      BY <3>3, <3>4 DEF KeepsData, Data
  <2>2. CASE mp[lb] # Unmapped
    BY <1>3, <1>a, <2>2, MarkData DEF MarkBlockBad, Served
  <2> QED
    BY <2>1, <2>2
<1>4. CASE BeginDetach
  <2>1. /\ pc' = "update" /\ uret' = "detached"
        /\ UNCHANGED <<acked, cells, badmark, st, mp, changed, cache, dataCount, protected>>
    BY <1>4 DEF BeginDetach, Update, chip, table, attachV, ghost
  <2>2. Laid' /\ ~Creating' /\ \A l \in LBs : Settled(l)' => Settled(l)
    BY <2>1 DEF Laid, Creating, Settled
  <2>3. NewChip' /\ Kept' /\ (Tidy => Tidy') /\ TablesSaved' /\ CacheSaved'
    BY <1>a, <2>1, <2>2, BeginData
  <2>4. Resting' /\ Requested'
    BY <2>1 DEF Resting, Requested, Erase
  <2> QED
    BY <2>3, <2>4 DEF KeepsData, Data
<1>5. CASE Read
  <2>1. /\ UNCHANGED <<acked, cells, badmark, st, mp, changed, cache, dataCount, protected>>
        /\ pc' = pc /\ uret' = uret
    BY <1>5 DEF Read, vars, chip, table, attachV, ctl, ghost
  <2>2. Laid' /\ ~Creating' /\ \A l \in LBs : Settled(l)' => Settled(l)
    BY <1>a, <2>1 DEF Laid, Creating, Settled
  <2>3. NewChip' /\ Kept' /\ (Tidy => Tidy') /\ TablesSaved' /\ CacheSaved'
    BY <1>a, <2>1, <2>2, BeginData
  <2>4. Resting' /\ Requested'
    BY <1>a, <2>1 DEF Resting, Requested, Erase, UpdateReturns
  <2> QED
    BY <2>3, <2>4 DEF KeepsData, Data
<1> QED
  BY <1>1, <1>2, <1>3, <1>4, <1>5 DEF Request

LEMMA PowerCutData == IInv /\ Serving /\ Layout /\ Data /\ PowerCut => KeepsData
<1> SUFFICES ASSUME IInv, Serving, Layout, Data, PowerCut PROVE KeepsData
  OBVIOUS
<1>1. /\ Forget /\ badmark' = badmark /\ acked' = acked
      /\ pc' = "off" /\ uret' = "idle" /\ ~protected'
  BY DEF PowerCut, ghost, Forget, ResetCtl
<1>2. ~Laid' /\ ~Creating' /\ \A l \in LBs : Settled(l)' => Settled(l)
  BY <1>1 DEF Laid, Creating, Settled
<1>3. CASE cells' = cells
  BY <1>1, <1>3, ForgetData
<1>4. ASSUME NEW b \in InFlight, cells' = [cells EXCEPT ![b] = Torn]
      PROVE  KeepsData
  <2>1. Torn.kind \notin {"table", "sig", "data"}
    BY DEF Torn
  <2>2. NewChip' /\ Kept' /\ (Tidy => Tidy')
    <3>1. CASE RangeLoop \/ pc = "prog"
      <4>1. b = (IF pc = "prog" THEN rg.ba ELSE Here) /\ b # None
        BY <3>1, <1>4, ProgramAlone, Bounds DEF InFlight, RangeLoop
      <4>2. /\ b \in Blocks /\ b \notin SigBlocks
            /\ \A t \in Tables : t # b => \A l \in LBs : cells[t].mp[l] # b
        BY <3>1, <4>1, TouchedApart
      <4>3. Touch(b, Torn)
        BY <4>2, <2>1, <1>1, <1>4 DEF Touch
      <4> QED
        BY <4>2, <4>3, <2>1, <1>1, <1>2, OneTouched
    <3>2. CASE pc \in {"sig", "sig_prog"}
      <4>1. Creating
        BY <3>2 DEF Creating
      <4>2. \A l \in LBs : ~Settled(l)'
        BY <4>1, <1>2 DEF Data, NewChip
      <4>3. \A x \in Blocks : cells'[x].kind # "data"
        BY <4>1, <2>1, <1>4 DEF Data, NewChip, IInv, TypeOK
      <4> QED
        BY <4>2, <4>3 DEF NewChip, Kept, Tidy, NotGood, DataMapped, NoData, Homes
    <3>3. CASE pc \in {"e_try", "p_try"}
      <4>1. b = Pb /\ Pb # Unmapped /\ op.lb \in LBs
        BY <3>3, <1>4 DEF InFlight, RangeLoop, Usable, Serving
      <4>2. Laid /\ NoLoop /\ ~Settled(op.lb) /\ (protected => Tables = {})
        BY <3>3 DEF Laid, NoLoop, WriteReturns, Data, Requested, Erase, Resting, UpdateReturns
      <4>3. /\ b \in Blocks /\ b \notin SigBlocks
            /\ \A l \in LBs : Settled(l) => \A t \in Tables : cells[t].mp[l] # b
        BY <3>3, <4>1, <4>2, WorkedOn DEF Pb
      <4>4. Touch(b, Torn)
        BY <4>3, <2>1, <1>1, <1>4 DEF Touch
      <4> QED
        BY <4>3, <4>4, <2>1, <1>1, <1>2, OneTouched
    <3> QED
      BY <3>1, <3>2, <3>3, <1>4 DEF InFlight
  <2>3. Resting' /\ TablesSaved' /\ CacheSaved' /\ Requested'
    BY <1>1, <1>2 DEF Resting, TablesSaved, CacheSaved, Requested, Erase
  <2> QED
    BY <2>2, <2>3 DEF KeepsData, Data
<1> QED
  BY <1>3, <1>4 DEF PowerCut

-----------------------------------------------------------------------------
(* Attach. *)

LEMMA HighestExists ==
  ASSUME NEW S, S \subseteq LBs, NEW l \in S
  PROVE  Highest(S) \in S /\ l <= Highest(S)
<1> DEFINE T == {MgmtStart - x : x \in S}
<1>1. \A x \in S : x \in Nat /\ x < MgmtStart
  BY ChipFacts DEF LBs
<1>2. T \subseteq Nat /\ T # {} /\ MgmtStart \in Int
  BY <1>1, ChipFacts
<1>3. PICK low \in T : \A y \in T : low <= y
  BY <1>2, LowestExists
<1>4. PICK m \in S : low = MgmtStart - m
  BY <1>3
<1>5. \A c \in S : c <= m
  <2> SUFFICES ASSUME NEW c \in S PROVE c <= m
    OBVIOUS
  <2>1. low <= MgmtStart - c
    BY <1>3
  <2> QED
    BY <2>1, <1>1, <1>2, <1>4
<1>6. Highest(S) \in S /\ \A c \in S : c <= Highest(S)
  BY <1>5 DEF Highest, Pick
<1> QED
  BY <1>6

\* what an attach loads of the table home
LEMMA Loaded ==
  ASSUME NEW sig, NEW first, NEW second,
         NEW newer, newer <=> second # None /\ cells[second].wc > cells[first].wc,
         NEW home, home = IF newer THEN second ELSE first,
         NEW d, d = Load(first, second, sig)
  PROVE  /\ \A l \in LBs : cells[home].mp[l] # Unmapped => l < d.count
         /\ \A x \in Blocks : \/ d.st[x] = cells[home].st[x]
                              \/ x \in badmark \/ cells[x].kind = "torn"
<1> DEFINE between == Passed(first + 1, second, cells[first].st, sig)
           mapped == {l \in LBs : cells[home].mp[l] # Unmapped}
<1>1. /\ d.st = IF newer THEN cells[home].st ELSE MarkBad(cells[home].st, between)
      /\ d.count = IF mapped = {} THEN MgmtStart ELSE Highest(mapped) + 1
  BY DEF Load
<1>2. ASSUME NEW l \in LBs, cells[home].mp[l] # Unmapped PROVE l < d.count
  <2>1. l \in mapped /\ mapped \subseteq LBs /\ d.count = Highest(mapped) + 1
    BY <1>1, <1>2
  <2>2. Highest(mapped) \in LBs /\ l <= Highest(mapped)
    BY <2>1, HighestExists
  <2>3. \A m \in LBs : m \in Int
    BY ChipFacts DEF LBs
  <2> HIDE DEF mapped
  <2> QED
    BY <2>1, <2>2, <2>3
<1>3. ASSUME NEW x \in Blocks
      PROVE  d.st[x] = cells[home].st[x] \/ x \in badmark \/ cells[x].kind = "torn"
  <2>1. x \in between => x \in badmark \/ cells[x].kind = "torn"
    BY DEF Passed
  <2> HIDE DEF between
  <2> QED
    BY <1>1, <2>1 DEF MarkBad
<1> QED
  BY <1>2, <1>3

LEMMA AttachLoadData == IInv /\ Serving /\ Layout /\ Data /\ AttachLoad => KeepsData
<1> SUFFICES ASSUME IInv, Serving, Layout, Data, AttachLoad PROVE KeepsData
  OBVIOUS
<1>1. PICK sig, first, second, d :
        /\ sig = Highest(SigBlocks) /\ SigBlocks # {}
        /\ first = FirstTable(sig) /\ second = SecondTable(first, sig)
        /\ d = Load(first, second, sig)
        /\ first # None /\ st' = d.st /\ mp' = d.mp /\ dataCount' = d.count
        /\ cache' = Generate(d.wc, d.st, d.mp, d.dirty)
        /\ mainBa' = first /\ backupBa' = second
        /\ CASE second = None -> WriteRange(MgmtStart, first, "rs_front")
             [] d.uneven /\ d.newer -> WriteRange(first, second, "us_main")
             [] d.uneven /\ ~d.newer -> WriteRange(second, d.top, "us_backup")
             [] OTHER -> pc' = "ld_ok" /\ UNCHANGED rg
        /\ UNCHANGED <<chip, protected, uret, op, ghost>>
  BY DEF AttachLoad
<1>c. /\ cells' = cells /\ badmark' = badmark /\ acked' = acked
      /\ SigBlocks' = SigBlocks /\ Tables' = Tables /\ OnChip
      /\ cells \in [Blocks -> Cell]
  BY <1>1, SameChip DEF Layout, chip, ghost, IInv, TypeOK
<1>s. sig \in SigBlocks
  BY <1>1, <1>c, TheSignature
<1>t. /\ first \in Tables
      /\ second = None => Tables = {first}
      /\ second # None => second \in Tables /\ first < second
                          /\ Tables = {first, second}
  <2>1. Tables # {} /\ first \in Tables /\ \A b \in Tables : first <= b
    BY <1>1, <1>c, <1>s, FirstFound
  <2> QED
    BY <1>1, <1>c, <1>s, <2>1, SecondFound
<1>2. PICK newer, home :
        /\ newer <=> second # None /\ cells[second].wc > cells[first].wc
        /\ home = IF newer THEN second ELSE first
  OBVIOUS
<1>d. /\ home \in Tables /\ d.mp = cells[home].mp
      /\ d.newer <=> newer
      /\ d.uneven <=> second # None /\ cells[second].wc # cells[first].wc
      /\ \A l \in LBs : cells[home].mp[l] # Unmapped => l < d.count
      /\ \A x \in Blocks : \/ d.st[x] = cells[home].st[x]
                           \/ x \in badmark \/ cells[x].kind = "torn"
  BY <1>1, <1>2, <1>c, <1>s, <1>t, LoadFacts, Loaded
<1>3. /\ pc = "off" /\ uret' = "idle" /\ ~protected' /\ pc' \in {"write", "ld_ok"}
  BY <1>1 DEF AttachLoad, WriteRange, Data, Requested, Resting, UpdateReturns
<1>4. ~Creating' /\ \A l \in LBs : Settled(l)' <=> Settled(l)
  BY <1>3, <1>c DEF Creating, Settled
<1>5. NewChip'
  BY <1>1, <1>c, <1>4 DEF NewChip
<1>6. Kept'
  <2> SUFFICES ASSUME NEW l \in LBs, Settled(l)
               PROVE  /\ \A t \in Tables : AtHome(l, cells[t].mp, cells[t].st)'
                      /\ l < d.count /\ AtHome(l, mp, st)'
    BY <1>1, <1>c, <1>4 DEF Kept
  <2>1. \A t \in Tables : AtHome(l, cells[t].mp, cells[t].st)
    BY DEF Data, Kept
  <2>2. \A t \in Tables : AtHome(l, cells[t].mp, cells[t].st)'
    BY <2>1, <1>c DEF AtHome, Holds
  <2>3. PICK b \in Blocks \ badmark :
          b = cells[home].mp[l] /\ cells[home].st[b] = "good" /\ Holds(l, cells[b])
    BY <2>1, <1>d DEF AtHome
  <2>4. cells[b].kind # "torn"
    BY <2>3 DEF Holds, Empty
  <2>5. l < d.count
    BY <2>3, <1>d, ChipFacts
  <2> QED
    BY <2>2, <2>3, <2>4, <2>5, <1>1, <1>c, <1>d DEF AtHome, Holds
<1>7. Tidy => Tidy'
  <2> SUFFICES ASSUME Tidy PROVE Tidy'
    OBVIOUS
  <2>1. NoData(cells[home].st) /\ Homes(cells[home].mp)
    BY <1>d DEF Tidy, NotGood, DataMapped
  <2>2. NoData(st)' /\ Homes(mp)'
    BY <2>1, <1>1, <1>c, <1>d DEF NoData, Homes
  <2>3. \A t \in Tables : NoData(cells[t].st)' /\ Homes(cells[t].mp)'
    BY <1>c DEF Tidy, NotGood, DataMapped, NoData, Homes
  <2> QED
    BY <2>2, <2>3, <1>c DEF Tidy, NotGood, DataMapped
<1>8. cache'.mp = cells[home].mp
  BY <1>1, <1>d DEF Generate, Table
<1>9. TablesSaved'
  <2> SUFFICES ASSUME NEW t \in Tables PROVE cells[t].mp = cells[home].mp \/ t \in Stale'
    BY <1>c, <1>8 DEF TablesSaved
  <2>1. CASE t = home
    BY <2>1
  <2>2. CASE t # home /\ cells[second].wc = cells[first].wc
    <3>1. cells[t].wc = cells[home].wc
      BY <2>2, <1>2, <1>t
    <3> QED
      BY <3>1, <1>c, <1>d DEF OnChip, Compatible
  <2>3. CASE t # home /\ cells[second].wc # cells[first].wc
    <3>1. second # None /\ t = IF newer THEN first ELSE second
      BY <2>3, <1>2, <1>t
    <3>2. /\ pc' = "write" /\ rg'.ba = t
          /\ rg'.ret = IF newer THEN "us_main" ELSE "us_backup"
      BY <3>1, <2>3, <1>1, <1>d DEF WriteRange
    <3> QED
      BY <3>1, <3>2, <1>1 DEF Stale
  <2> QED
    BY <2>1, <2>2, <2>3
<1>10. CacheSaved' /\ Resting' /\ Requested'
  BY <1>1, <1>3, <1>8, <1>d DEF CacheSaved, Resting, Requested, Erase
<1> QED
  BY <1>5, <1>6, <1>7, <1>9, <1>10 DEF KeepsData, Data

LEMMA AttachNewData == IInv /\ Serving /\ Layout /\ Data /\ AttachNew => KeepsData
<1> SUFFICES ASSUME IInv, Serving, Layout, Data, AttachNew PROVE KeepsData
  OBVIOUS
<1>1. /\ pc = "off" /\ pc' = "sig" /\ uret' = uret /\ SigBlocks = {}
      /\ UNCHANGED <<cells, badmark, acked, protected>>
  BY DEF AttachNew, chip, ghost
<1>2. uret' = "idle" /\ ~protected' /\ ~Laid'
  BY <1>1 DEF Data, Requested, Resting, UpdateReturns, Laid
<1>3. (\A l \in LBs : ~Settled(l)') /\ \A b \in Blocks : cells'[b].kind # "data"
  BY <1>1 DEF Data, NewChip, Settled
<1>4. NewChip' /\ Kept' /\ (Tidy => Tidy')
  BY <1>3 DEF NewChip, Kept, Tidy, NotGood, DataMapped, NoData, Homes
<1> QED
  BY <1>1, <1>2, <1>4 DEF KeepsData, Data, Resting, TablesSaved, CacheSaved, Requested, Erase

LEMMA SameData == Data /\ UNCHANGED vars => KeepsData
BY DEF KeepsData, Data, Tidy, vars, chip, layout, table, attachV, ctl, ghost, bounds, NewChip, Creating,
  Kept, NotGood, DataMapped, Resting, TablesSaved, CacheSaved, Requested, Erase, Settled,
  Holds, AtHome, NoData, Homes, SigBlocks, Tables, Going, Stale, Laid

-----------------------------------------------------------------------------
(* What a logical block keeps its home with: no step moves it while its      *)
(* content is known.                                                         *)

\* each step changes one block at most
LEMMA OneBlockChanges ==
  [Next]_vars => \E b, c : /\ cells' = cells \/ cells' = [cells EXCEPT ![b] = c]
                           /\ badmark' = badmark \/ badmark' = badmark \cup {b}
<1> SUFFICES ASSUME [Next]_vars
             PROVE  \E b, c : /\ cells' = cells \/ cells' = [cells EXCEPT ![b] = c]
                              /\ badmark' = badmark \/ badmark' = badmark \cup {b}
  OBVIOUS
<1> USE DEF chip
<1>1. CASE RangeStep
  BY <1>1 DEF RangeStep, RangeSkip, RangeErase, RangeEraseFails, RangeEnd, Program,
    ProgramFails, Fails
<1>2. CASE UpdateStep \/ LoadStep
  BY <1>2 DEF UpdateStep, UpdateDone, UpdateOnce, UpdateBackup, UpdateMain,
    UpdateMainRebuilds, RescueMain, RescueMainTmp, RescueMainDone, RebuildMain,
    RebuildMainFails, RebuildBackup, RebuildErased, LoadStep, RescueFront,
    RescueNext, RescueNextLoop, RescueNextDone, UpdateSingle, UpdateSingleFails,
    LoadDone
<1>3. CASE CreateStep
  BY <1>3 DEF CreateStep, SigErase, SigProgram, SigFails, CreateTables, CreateFails,
    CreateEnd, CreateDone, Fails
<1>4. CASE EraseStep \/ WriteStep \/ OpRefused \/ ReportBad \/ EndDetach
  BY <1>4 DEF EraseStep, EraseRemaps, EraseOk, EraseFails, MapBlock, MapBlockNone,
    EraseUnmaps, WriteStep, WriteOk, WriteFails, Fails, OpRefused, ReportBad, EndDetach
<1>5. CASE Attach \/ UNCHANGED vars
  BY <1>5 DEF Attach, AttachNew, AttachLoad, AttachRecreate, AttachFails, vars
<1>6. CASE Request
  BY <1>6 DEF Request, BeginErase, MarkBlockBad, BeginWrite, BeginDetach, Read, vars
<1>7. CASE PowerCut
  BY <1>7 DEF PowerCut
<1> QED
  BY <1>1, <1>2, <1>3, <1>4, <1>5, <1>6, <1>7 DEF Next, Run

\* only an erase or a write of the user's leaves a block with a known content
LEMMA NewlySettled ==
  ASSUME IInv, Serving, [Next]_vars, NEW l \in LBs, Settled(l)'
  PROVE  (Settled(l) /\ acked'[l] = acked[l]) \/ pc \in {"e_try", "p_try"}
<1> USE DEF ghost
<1>0. acked \in [LBs -> Values \cup {"empty", "unknown", "bad"}]
  BY DEF IInv, TypeOK
<1>1. CASE RangeStep \/ UpdateStep \/ LoadStep \/ CreateStep
  <2>1. acked' = acked
    BY <1>1 DEF RangeStep, RangeSkip, RangeErase, RangeEraseFails, RangeEnd, Program,
      ProgramFails, UpdateStep, UpdateDone, UpdateOnce, UpdateBackup, UpdateMain,
      UpdateMainRebuilds, RescueMain, RescueMainTmp, RescueMainDone, RebuildMain,
      RebuildMainFails, RebuildBackup, RebuildErased, LoadStep, RescueFront,
      RescueNext, RescueNextLoop, RescueNextDone, UpdateSingle, UpdateSingleFails,
      LoadDone, CreateStep, SigErase, SigProgram, SigFails, CreateTables, CreateFails,
      CreateEnd, CreateDone
  <2> QED
    BY <2>1 DEF Settled
<1>2. CASE Attach \/ EndDetach \/ PowerCut \/ UNCHANGED vars
  <2>1. acked' = acked
    BY <1>2 DEF Attach, AttachNew, AttachLoad, AttachRecreate, AttachFails, EndDetach,
      PowerCut, vars
  <2> QED
    BY <2>1 DEF Settled
<1>3. CASE EraseStep \/ WriteStep \/ OpRefused
  <2>1. acked' = acked \/ pc \in {"e_try", "p_try"}
    BY <1>3 DEF EraseStep, EraseRemaps, EraseOk, EraseFails, MapBlock, MapBlockNone,
      EraseUnmaps, WriteStep, WriteOk, WriteFails, OpRefused
  <2> QED
    BY <2>1 DEF Settled
<1>4. CASE ReportBad
  <2>1. acked' = [acked EXCEPT ![op.lb] = "bad"]
    BY <1>4 DEF ReportBad, Answer
  <2> QED
    BY <2>1, <1>0, ChipAssumption DEF Settled
<1>5. CASE Request
  <2>1. acked' = acked \/ \E lb \in LBs : acked' = [acked EXCEPT ![lb] = "unknown"]
    BY <1>5 DEF Request, BeginErase, MarkBlockBad, BeginWrite, BeginDetach, Read, vars,
      Begin
  <2> QED
    BY <2>1, <1>0, ChipAssumption DEF Settled
<1> QED
  BY <1>1, <1>2, <1>3, <1>4, <1>5 DEF Next, Run

\* a table that is new on the chip is the cache
LEMMA TablesWritten ==
  ASSUME IInv, [Next]_vars, NEW t \in Tables'
  PROVE  (t \in Tables /\ cells'[t] = cells[t]) \/ (pc = "prog" /\ cells'[t] = cache)
<1> DEFINE Put(c) == \E b : cells' = [cells EXCEPT ![b] = c]
           Few == cells' = cells \/ Put(Empty) \/ Put(Torn) \/ Put(Sig)
                  \/ (\E d : Put([kind |-> "data", lb |-> op.lb, val |-> d]))
                  \/ (pc = "prog" /\ Put(cache))
<1> USE DEF chip
<1>1. Few
  <2>1. CASE RangeStep
    BY <2>1 DEF RangeStep, RangeSkip, RangeErase, RangeEraseFails, RangeEnd, Program,
      ProgramFails, Fails
  <2>2. CASE UpdateStep \/ LoadStep
    BY <2>2 DEF UpdateStep, UpdateDone, UpdateOnce, UpdateBackup, UpdateMain,
      UpdateMainRebuilds, RescueMain, RescueMainTmp, RescueMainDone, RebuildMain,
      RebuildMainFails, RebuildBackup, RebuildErased, LoadStep, RescueFront,
      RescueNext, RescueNextLoop, RescueNextDone, UpdateSingle, UpdateSingleFails,
      LoadDone
  <2>3. CASE CreateStep
    BY <2>3 DEF CreateStep, SigErase, SigProgram, SigFails, CreateTables, CreateFails,
      CreateEnd, CreateDone, Fails
  <2>4. CASE EraseStep \/ WriteStep \/ OpRefused \/ ReportBad \/ EndDetach
    BY <2>4 DEF EraseStep, EraseRemaps, EraseOk, EraseFails, MapBlock, MapBlockNone,
      EraseUnmaps, WriteStep, WriteOk, WriteFails, Fails, OpRefused, ReportBad, EndDetach
  <2>5. CASE Attach \/ UNCHANGED vars
    BY <2>5 DEF Attach, AttachNew, AttachLoad, AttachRecreate, AttachFails, vars
  <2>6. CASE Request
    BY <2>6 DEF Request, BeginErase, MarkBlockBad, BeginWrite, BeginDetach, Read, vars
  <2>7. CASE PowerCut
    BY <2>7 DEF PowerCut
  <2> QED
    BY <2>1, <2>2, <2>3, <2>4, <2>5, <2>6, <2>7 DEF Next, Run
<1>2. badmark \subseteq badmark'
  <2>1. \E b : badmark' = badmark \/ badmark' = badmark \cup {b}
    BY OneBlockChanges
  <2> QED
    BY <2>1
<1>3. cells \in [Blocks -> Cell]
  BY DEF IInv, TypeOK
<1>4. CASE cells' = cells \/ Put(Empty) \/ Put(Torn) \/ Put(Sig)
  BY <1>2, <1>3, <1>4 DEF Tables, Empty, Torn, Sig
<1>5. CASE \E d : Put([kind |-> "data", lb |-> op.lb, val |-> d])
  BY <1>2, <1>3, <1>5 DEF Tables
<1>6. CASE pc = "prog" /\ Put(cache)
  BY <1>2, <1>3, <1>6 DEF Tables
<1> QED
  BY <1>1, <1>4, <1>5, <1>6

\* a step that is not an attach takes the home of a logical block away only when
\* it is erased or reported bad
LEMMA HomeKept ==
  ASSUME IInv, Serving, Data, [Next]_vars, ~Attach, NEW l \in LBs, Settled(l), Settled(l)'
  PROVE  Laid' => Laid /\ mp'[l] = mp[l]
<1> USE DEF table
<1>0. ~Creating /\ mp \in [LBs -> Blocks \cup {Unmapped}]
      /\ acked \in [LBs -> Values \cup {"empty", "unknown", "bad"}]
  BY DEF Data, NewChip, IInv, TypeOK
<1>1. CASE RangeStep
  BY <1>1 DEF RangeStep, RangeSkip, RangeErase, RangeEraseFails, RangeEnd, Program,
    ProgramFails, RangeLoop, Laid
<1>2. CASE UpdateStep \/ LoadStep
  <2>1. Laid /\ (mp' = mp \/ Forget)
    BY <1>2 DEF UpdateStep, UpdateDone, UpdateOnce, UpdateBackup, UpdateMain,
      UpdateMainRebuilds, RescueMain, RescueMainTmp, RescueMainDone, RebuildMain,
      RebuildMainFails, RebuildBackup, RebuildErased, LoadStep, RescueFront,
      RescueNext, RescueNextLoop, RescueNextDone, UpdateSingle, UpdateSingleFails,
      LoadDone, Laid
  <2> QED
    BY <2>1 DEF Forget, Laid
<1>3. ~CreateStep
  BY <1>0 DEF CreateStep, SigErase, SigProgram, SigFails, CreateTables, CreateFails,
    CreateEnd, CreateDone, Creating
<1>4. CASE MapBlock \/ EraseUnmaps
  <2>1. Laid /\ op.lb \in LBs /\ ~Settled(op.lb) /\ \E b : mp' = [mp EXCEPT ![op.lb] = b]
    BY <1>0, <1>4 DEF MapBlock, EraseUnmaps, Lb, Creating, Laid, Data, Requested, Erase, Serving
  <2> QED
    BY <1>0, <2>1
<1>5. CASE (EraseStep /\ ~MapBlock /\ ~EraseUnmaps) \/ WriteStep \/ OpRefused \/ ReportBad
  <2>1. Laid /\ mp' = mp
    BY <1>0, <1>5 DEF EraseStep, EraseRemaps, EraseOk, EraseFails, MapBlockNone,
      WriteStep, WriteOk, WriteFails, OpRefused, ReportBad, Laid
  <2> QED
    BY <2>1
<1>6. CASE Request
  <2>1. Laid /\ \/ mp' = mp
                \/ \E k \in LBs : /\ mp' = [mp EXCEPT ![k] = Unmapped]
                                  /\ acked' = [acked EXCEPT ![k] = "unknown"]
    BY <1>6 DEF Request, BeginErase, MarkBlockBad, BeginWrite, BeginDetach, Read, vars,
      Served, Begin, Laid
  <2> QED
    BY <1>0, <2>1, ChipAssumption DEF Settled
<1>7. CASE EndDetach \/ PowerCut
  BY <1>7 DEF EndDetach, PowerCut, Forget, Laid
<1>8. CASE UNCHANGED vars
  BY <1>8 DEF vars, Laid
<1> QED
  BY <1>1, <1>2, <1>3, <1>4, <1>5, <1>6, <1>7, <1>8 DEF Next, Run

\* an attach takes the mapping of a table
LEMMA AttachTakes ==
  ASSUME IInv, OnChip, AttachLoad
  PROVE  UNCHANGED <<chip, acked>> /\ \E home \in Tables : mp' = cells[home].mp
<1>1. PICK sig, first, second, d :
        /\ sig = Highest(SigBlocks) /\ SigBlocks # {}
        /\ first = FirstTable(sig) /\ second = SecondTable(first, sig)
        /\ d = Load(first, second, sig)
        /\ first # None /\ mp' = d.mp
        /\ UNCHANGED <<chip, ghost>>
  BY DEF AttachLoad
<1>2. sig \in SigBlocks /\ cells \in [Blocks -> Cell]
  BY <1>1, TheSignature DEF IInv, TypeOK
<1>3. /\ first \in Tables /\ \A b \in Tables : first <= b
  BY <1>1, <1>2, FirstFound
<1>4. /\ second = None => Tables = {first}
      /\ second # None => second \in Tables /\ first < second
                          /\ Tables = {first, second}
  BY <1>1, <1>2, <1>3, SecondFound
<1>5. PICK newer, home :
        /\ newer <=> second # None /\ cells[second].wc > cells[first].wc
        /\ home = IF newer THEN second ELSE first
  OBVIOUS
<1>6. home \in Tables /\ d.mp = cells[home].mp
  BY <1>1, <1>2, <1>3, <1>4, <1>5, LoadFacts
<1> QED
  BY <1>1, <1>6 DEF ghost

\* an erase or a write leaves one block known, in its home
LEMMA NewlyAgreed ==
  ASSUME IInv, Serving, Layout, Data, [Next]_vars, pc \in {"e_try", "p_try"},
         NEW l \in LBs, Settled(l)', ~Settled(l)
  PROVE  Agreed(l) /\ (Laid' => Laid /\ mp'[l] = mp[l])
<1>0. acked \in [LBs -> Values \cup {"empty", "unknown", "bad"}]
  BY DEF IInv, TypeOK
<1>1. EraseOk \/ WriteOk \/ EraseRemaps \/ EraseFails \/ WriteFails \/ OpRefused
      \/ PowerCut \/ UNCHANGED vars
  <2>1. ~RangeStep /\ ~UpdateStep /\ ~LoadStep
    BY DEF RangeStep, RangeSkip, RangeErase, RangeEraseFails, RangeEnd, Program,
      ProgramFails, RangeLoop, UpdateStep, UpdateDone, UpdateOnce, UpdateBackup, UpdateMain,
      UpdateMainRebuilds, RescueMain, RescueMainTmp, RescueMainDone, RebuildMain,
      RebuildMainFails, RebuildBackup, RebuildErased, LoadStep, RescueFront,
      RescueNext, RescueNextLoop, RescueNextDone, UpdateSingle, UpdateSingleFails,
      LoadDone
  <2>2. ~CreateStep /\ ~ReportBad /\ ~EndDetach /\ ~Attach
    BY DEF CreateStep, SigErase, SigProgram, SigFails, CreateTables, CreateFails,
      CreateEnd, CreateDone, ReportBad, EndDetach, Attach, AttachNew, AttachLoad,
      AttachRecreate, AttachFails
  <2>3. ~MapBlock /\ ~MapBlockNone /\ ~EraseUnmaps /\ ~Request
    BY DEF MapBlock, MapBlockNone, EraseUnmaps, Request, BeginErase, MarkBlockBad, BeginWrite,
      BeginDetach, Read, Served
  <2> QED
    BY <2>1, <2>2, <2>3 DEF Next, Run, EraseStep, WriteStep
<1>2. EraseOk \/ WriteOk
  <2>1. \/ acked' = acked
        \/ \E a \in {"bad", "unknown"} : acked' = [acked EXCEPT ![op.lb] = a]
        \/ EraseOk \/ WriteOk
    BY <1>1 DEF EraseRemaps, EraseFails, WriteFails, OpRefused, PowerCut, vars, ghost, Answer
  <2> QED
    BY <2>1, <1>0, ChipAssumption DEF Settled
<1>3. /\ l = op.lb /\ mp' = mp
  <2>1. \E a : acked' = [acked EXCEPT ![op.lb] = a]
    BY <1>2 DEF EraseOk, WriteOk, Answer
  <2> QED
    BY <1>0, <1>2, <2>1 DEF Settled, EraseOk, WriteOk, table
<1>4. Laid /\ NoLoop /\ mp[l] # Unmapped
  BY <1>2, <1>3 DEF EraseOk, WriteOk, Usable, Pb, Laid, NoLoop, WriteReturns
<1>5. protected => Tables = {}
  BY DEF Data, Requested, Erase, Resting, UpdateReturns
<1>6. ~protected => \A t \in Tables : cells[t].mp[l] = mp[l]
  BY <1>4, WorkedOn
<1> QED
  BY <1>3, <1>4, <1>5, <1>6 DEF Agreed

LEMMA NextHome ==
  IInv /\ Serving /\ Layout /\ Data /\ SameHome /\ ~AttachRecreate /\ [Next]_vars => SameHome'
<1> SUFFICES ASSUME IInv, Serving, Layout, Data, SameHome, ~AttachRecreate, [Next]_vars,
                    NEW l \in LBs, Settled(l)'
             PROVE  Agreed(l)'
  BY DEF SameHome
<1>1. CASE ~Attach
  <2>1. Agreed(l) /\ (Laid' => Laid /\ mp'[l] = mp[l])
    BY <1>1, NewlySettled, NewlyAgreed, HomeKept DEF SameHome
  <2>2. ASSUME NEW t \in Tables'
        PROVE  (t \in Tables /\ cells'[t] = cells[t]) \/ (Laid /\ cells'[t].mp[l] = mp[l])
    <3> SUFFICES ASSUME pc = "prog", cells'[t] = cache PROVE Laid /\ cache.mp[l] = mp[l]
      BY <2>2, TablesWritten
    <3>1. Laid /\ Settled(l)
      BY NewlySettled DEF Laid
    <3>2. mp[l] \in Blocks
      BY <3>1 DEF Data, Kept, AtHome
    <3>3. mp[l] # Unmapped
      BY <3>2, ChipFacts
    <3> QED
      BY <3>1, <3>3, CacheIsSaved
  <2> QED
    BY <2>1, <2>2 DEF Agreed
<1>2. CASE Attach
  <2>1. UNCHANGED <<chip, acked>> /\ pc = "off"
    BY <1>2 DEF Attach, AttachNew, AttachLoad, AttachRecreate, AttachFails, vars, ghost
  <2>2. Settled(l) /\ Tables' = Tables /\ cells' = cells
    BY <2>1, SameChip DEF Settled
  <2>3. CASE AttachLoad
    BY <2>2, <2>3, AttachTakes DEF Layout, SameHome, Agreed
  <2>4. ~AttachNew
    BY <2>2 DEF AttachNew, Data, NewChip
  <2>5. CASE AttachFails
    BY <2>1, <2>2, <2>5 DEF AttachFails, vars, Laid, SameHome, Agreed
  <2> QED
    BY <1>2, <2>3, <2>4, <2>5 DEF Attach
<1> QED
  BY <1>1, <1>2

-----------------------------------------------------------------------------
(* All steps. *)

LEMMA InitData == Init => DataInv
<1> SUFFICES ASSUME Init PROVE DataInv
  OBVIOUS
<1>1. pc = "off" /\ uret = "idle" /\ ~protected
  BY DEF Init
<1>2. (\A l \in LBs : ~Settled(l)) /\ \A b \in Blocks : cells[b].kind # "data"
  BY ChipAssumption DEF Init, Settled, Empty
<1>3. NewChip /\ Kept /\ SameHome /\ Tidy
  BY <1>2, NothingYet DEF SameHome
<1> QED
  BY <1>1, <1>3
  DEF DataInv, Tidy, Resting, TablesSaved, CacheSaved, Requested, Erase, Laid


LEMMA RenewedStays == [Next]_vars /\ renewed => renewed'
<1> SUFFICES ASSUME [Next]_vars, renewed PROVE renewed'
  OBVIOUS
<1> USE DEF ghost
<1>1. RangeStep \/ UpdateStep => UNCHANGED ghost
  BY DEF RangeStep, RangeSkip, RangeErase, RangeEraseFails, RangeEnd, Program,
    ProgramFails, UpdateStep, UpdateDone, UpdateOnce, UpdateBackup, UpdateMain,
    UpdateMainRebuilds, RescueMain, RescueMainTmp, RescueMainDone, RebuildMain,
    RebuildMainFails, RebuildBackup, RebuildErased
<1>2. LoadStep \/ CreateStep => UNCHANGED ghost
  BY DEF LoadStep, RescueFront, RescueNext, RescueNextLoop, RescueNextDone,
    UpdateSingle, UpdateSingleFails, LoadDone, CreateStep, SigErase, SigProgram,
    SigFails, CreateTables, CreateFails, CreateEnd, CreateDone
<1>3. EraseStep \/ WriteStep => UNCHANGED renewed
  BY DEF EraseStep, EraseRemaps, EraseOk, EraseFails, MapBlock, MapBlockNone,
    EraseUnmaps, WriteStep, WriteOk, WriteFails
<1>4. OpRefused \/ ReportBad \/ EndDetach \/ Attach \/ PowerCut => renewed'
  BY DEF OpRefused, ReportBad, EndDetach, Attach, AttachNew, AttachLoad,
    AttachRecreate, AttachFails, PowerCut, vars
<1>5. Request => renewed'
  BY DEF Request, BeginErase, MarkBlockBad, BeginWrite, BeginDetach, Read, vars
<1> QED
  BY <1>1, <1>2, <1>3, <1>4, <1>5, Zenon DEF Next, Run, vars

\* a step keeps the user's data, whether or not data lies elsewhere
LEMMA NextKeepsData ==
  IInv /\ Serving /\ Layout /\ Data /\ ~AttachRecreate /\ [Next]_vars => KeepsData
<1> SUFFICES ASSUME IInv, Serving, Layout, Data, ~AttachRecreate, [Next]_vars
             PROVE  KeepsData
  OBVIOUS
<1>1. CASE Attach
  BY <1>1, AttachLoadData, AttachNewData, SameData DEF Attach, AttachFails
<1>2. CASE Next /\ ~Attach
  BY <1>2, RangeStepData, UpdateStepData, LoadStepData, CreateStepData,
     ServeStepData, RequestData, PowerCutData DEF Next, Run
<1>3. CASE UNCHANGED vars
  BY <1>3, SameData
<1> QED
  BY <1>1, <1>2, <1>3

LEMMA NextData == IInv /\ LayoutInv /\ DataInv /\ [Next]_vars => DataInv'
<1> SUFFICES ASSUME IInv, LayoutInv, DataInv, [Next]_vars, ~stepped', ~renewed'
             PROVE  Data' /\ SameHome' /\ Tidy'
  BY DEF DataInv, Data, Tidy
<1>1. /\ IInv /\ Serving /\ Layout /\ Data /\ SameHome /\ Tidy /\ ~AttachRecreate
  BY SteppedStays, RenewedStays DEF LayoutInv, Layout, DataInv, Data, Tidy, AttachRecreate
<1>2. KeepsData
  BY <1>1, NextKeepsData
<1> QED
  BY <1>1, <1>2, NextHome DEF KeepsData

(* As long as nmbm_map_block passed over no bad spare block and no attach found
   the tables gone, memory and every table lead to what was acknowledged,
   whatever fails, whatever update, rescue or rebuild is under way and
   wherever the power is cut: DataInv is an inductive invariant.            *)
THEOREM DataInductive == Spec => []DataInv
<1>1. DataInv /\ LayoutInv /\ IInv /\ [Next]_vars => DataInv'
  BY NextData
<1> QED
  BY <1>1, InitData, LayoutInductive, Inductive, PTL DEF Spec

(* Reading a logical block (nmbm_read_logic_page) returns what was last written
   to it, or nothing after an erase, over every remapping, update of the
   tables, rescue, power cut and attach.                                     *)
THEOREM AckedStaysReadable == Spec => []AckedReadable
<1>1. ASSUME IInv, DataInv PROVE AckedReadable
  <2> SUFFICES ASSUME pc = "idle", ~protected, ~stepped, ~renewed,
                      NEW l \in LBs, Settled(l)
               PROVE  Holds(l, ReadResult(l))
    BY DEF AckedReadable
  <2>1. l < dataCount /\ AtHome(l, mp, st)
    BY <1>1 DEF DataInv, Kept, Laid
  <2>2. l \in Int /\ dataCount \in Int
    BY <1>1, Numbers, ChipFacts DEF IInv, TypeOK, LBs
  <2>3. mp[l] # Unmapped
    BY <2>1, ChipFacts DEF AtHome, Unmapped, Blocks, None
  <2>4. ReadResult(l) = cells[mp[l]]
    BY <2>1, <2>2, <2>3 DEF ReadResult, AtHome
  <2> QED
    BY <2>1, <2>4 DEF AtHome
<1> QED
  BY <1>1, Inductive, DataInductive, PTL

(* Neither the writing nor the erasing of a table (nmbm_write_mgmt_range,
   nmbm_erase_range) ever reaches the home of a logical block or a block that
   holds user data, whatever procedure runs it and whatever failed before.   *)
THEOREM TablesApartFromData == Spec => []TablesAvoidData
<1>1. ASSUME IInv, LayoutInv, DataInv PROVE TablesAvoidData
  <2> SUFFICES ASSUME ~stepped, NEW b \in Touched
               PROVE  b \notin InUse /\ (~renewed => cells[b].kind # "data")
    BY DEF TablesAvoidData
  <2>1. /\ RangeLoop \/ pc = "prog"
        /\ b = IF pc = "prog" THEN rg.ba ELSE Here
        /\ pc # "prog" => b \notin badmark
    BY DEF Touched
  <2>2. Layout
    BY <1>1 DEF LayoutInv, Layout
  <2>3. b # None
    BY <1>1, <2>1, LoopFacts, ProgramAlone, <2>2, Bounds DEF Touched
  <2>4. /\ b \in Blocks /\ Laid /\ \A l \in LBs : mp[l] # b
    BY <1>1, <2>1, <2>2, <2>3, TouchedApart
  <2>5. ASSUME ~renewed PROVE cells[b].kind # "data"
    <3>1. CASE pc = "prog"
      BY <3>1, <2>1, <2>2 DEF Layout, Looping, Empty
    <3>2. CASE pc # "prog"
      <4>1. cells[b].kind = "data" => cells[b].lb \in LBs
        BY <1>1, <2>4 DEF IInv, TypeOK, Cell, Empty, Torn, Sig, DataCell, InfoTable
      <4> QED
        BY <1>1, <2>1, <2>4, <2>5, <3>2, <4>1 DEF DataInv, DataMapped, Homes
    <3> QED
      BY <3>1, <3>2
  <2> QED
    BY <2>4, <2>5 DEF InUse
<1> QED
  BY <1>1, Inductive, LayoutInductive, DataInductive, PTL

-----------------------------------------------------------------------------
(* While one table is rewritten another one stays: TableInv is inductive.   *)

\* a loop never comes to the table that stays
LEMMA StandsApart ==
  ASSUME IInv, Layout, TableThere, RangeLoop \/ pc = "prog", ~protected,
         NEW b, b = (IF pc = "prog" THEN rg.ba ELSE Here), b # None
  PROVE  /\ Laid /\ rg.ba <= b /\ b # Standing
         /\ rg.ret \in WriteReturns \cup EraseReturns
<1>1. /\ Laid /\ rg.ba <= b /\ b < rg.lim /\ b \in Int
      /\ rg.ret \in WriteReturns \cup EraseReturns
  BY LoopFacts, HereIs, Bounds DEF Layout, Looping, RangeLoop, IInv, LocalsOk
<1>2. Ordered /\ Ranges
  BY DEF Layout
<1>3. CASE pc = "erase"
  BY <1>1, <1>3, Bounds DEF TableThere, Standing, Going, Layout, Looping, EraseReturns
<1>4. CASE pc \in {"write", "prog"}
  <2>1. rg.ret \in WriteReturns
    BY <1>4 DEF Layout, Looping
  <2>2. \A p \in WriteReturns : Going(p) <=> rg.ret = p
    BY <1>4 DEF Going, WriteReturns
  <2>3. CASE rg.ret = "up_backup"
    BY <2>2, <2>3, <1>1, <1>2, Bounds
    DEF Standing, WriteReturns, Ordered, Ranges, Passing, IInv, TablesKnown
  <2>4. CASE rg.ret = "us_backup"
    BY <2>2, <2>4, <1>1, <1>2, Bounds
    DEF Standing, WriteReturns, Ordered, Ranges, Passing, IInv, TablesKnown
  <2>5. CASE rg.ret \in {"up_main", "us_main"}
    BY <2>2, <2>5, <1>1, <1>2, Bounds
    DEF Standing, WriteReturns, Ordered, Ranges, Passing, IInv, TablesKnown
  <2>6. CASE rg.ret \in {"rm_tmp", "rm_main"}
    BY <2>2, <2>6, <1>1, <1>2, Bounds
    DEF Standing, WriteReturns, Ordered, Ranges, Passing, IInv, TablesKnown
  <2>7. CASE rg.ret \in {"rb_main", "rb_backup"}
    BY <2>2, <2>7, <1>1, <1>2, Bounds
    DEF Standing, WriteReturns, Ordered, Ranges, Passing, IInv, TablesKnown
  <2>8. CASE rg.ret \in {"rs_front", "rs_next"}
    BY <2>2, <2>8, <1>1, <1>2, Bounds
    DEF Standing, WriteReturns, Ordered, Ranges, Passing, IInv, TablesKnown
  <2> QED
    BY <2>1, <2>3, <2>4, <2>5, <2>6, <2>7, <2>8 DEF WriteReturns
<1> QED
  BY <1>1, <1>3, <1>4 DEF RangeLoop

LEMMA RangeStepThere == IInv /\ Layout /\ TableThere /\ RangeStep => TableThere'
<1> SUFFICES ASSUME IInv, Layout, TableThere, RangeStep, Laid', ~protected'
             PROVE  /\ Standing' # None => Standing' \in Tables'
                    /\ pc' = "erase" => mainBa' < rg'.ba
  BY DEF TableThere
<1> USE DEF layout, table, attachV, ctl, ghost, bounds
<1>1. /\ RangeLoop \/ pc = "prog"
      /\ UNCHANGED <<mainBa, backupBa, protected>>
      /\ rg.ret \in WriteReturns \cup EraseReturns
  BY DEF RangeStep, RangeSkip, RangeErase, RangeEraseFails, RangeEnd, Program,
    ProgramFails, Fails, Layout, Looping, RangeLoop
<1> DEFINE b == IF pc = "prog" THEN rg.ba ELSE Here
<1>2. /\ pc' \in {"write", "prog", "erase", rg.ret} /\ rg'.ret = rg.ret /\ rg'.lim = rg.lim
      /\ pc' = "erase" => pc = "erase" /\ rg'.ba \in {rg.ba, Here, Here + 1}
                          /\ Here # None
  <2>1. rg \in [ba : 0 .. NB, lim : Blocks, ret : RangeReturns]
    BY DEF IInv, TypeOK
  <2> QED
    BY <1>1, <2>1 DEF RangeStep, RangeSkip, RangeErase, RangeEraseFails, RangeEnd,
      Program, ProgramFails, RangeLoop, WriteReturns, EraseReturns
<1>3. Standing' = Standing /\ Laid
  <2>1. \A p \in {"up_main", "us_main", "rm_tmp", "rm_main"} : Going(p)' <=> Going(p)
    BY <1>1, <1>2 DEF Going, RangeLoop, WriteReturns, EraseReturns
  <2> QED
    BY <2>1, <1>1, <1>2 DEF Standing, Laid, RangeLoop
<1>4. \A x \in Tables : x # b => x \in Tables'
  <2>1. /\ cells' = cells \/ \E c : cells' = [cells EXCEPT ![b] = c]
        /\ badmark' = badmark \/ badmark' = badmark \cup {b}
    BY <1>1 DEF RangeStep, RangeSkip, RangeErase, RangeEraseFails, RangeEnd, Program,
      ProgramFails, Fails, chip, RangeLoop
  <2>2. cells \in [Blocks -> Cell]
    BY DEF IInv, TypeOK
  <2> HIDE DEF b
  <2> QED
    BY <2>1, <2>2 DEF Tables
<1>5. Standing # None => Standing \in Tables'
  <2>1. CASE b # None
    <3>1. Standing # b
      BY <2>1, <1>1, StandsApart
    <3> QED
      BY <3>1, <1>1, <1>3, <1>4 DEF TableThere
  <2>2. CASE b = None
    <3>1. None \notin Tables
      BY <1>3, TablesSound
    <3> QED
      BY <3>1, <2>2, <1>1, <1>3, <1>4 DEF TableThere
  <2> QED
    BY <2>1, <2>2
<1>6. pc' = "erase" => mainBa' < rg'.ba
  BY <1>1, <1>2, <1>3, HereIs, Bounds DEF TableThere
<1> QED
  BY <1>3, <1>5, <1>6

LEMMA UpdateStepThere == IInv /\ Layout /\ TableThere /\ UpdateStep => TableThere'
<1> SUFFICES ASSUME IInv, Layout, TableThere, UpdateStep, Laid', ~protected'
             PROVE  /\ Standing' # None => Standing' \in Tables'
                    /\ pc' = "erase" => mainBa' < rg'.ba
  BY DEF TableThere
<1> USE DEF layout, table, attachV, ghost, bounds
<1>1. /\ Laid /\ ~protected /\ Tables' = Tables
      /\ pc \in {"update", "up_backup", "up_main", "rm_tmp", "rm_main", "rb_main",
                 "rb_backup", "rb_erased"}
  <2>1. /\ cells' = cells /\ badmark' = badmark
        /\ pc \in {"update", "up_backup", "up_main", "rm_tmp", "rm_main", "rb_main",
                   "rb_backup", "rb_erased"}
    BY DEF UpdateStep, UpdateDone, UpdateOnce, UpdateBackup, UpdateMain,
      UpdateMainRebuilds, RescueMain, RescueMainTmp, RescueMainDone, RebuildMain,
      RebuildMainFails, RebuildBackup, RebuildErased, chip
  <2>2. ~protected
    BY DEF UpdateStep, UpdateDone, UpdateOnce, UpdateBackup, UpdateMain,
      UpdateMainRebuilds, RescueMain, RescueMainTmp, RescueMainDone, RebuildMain,
      RebuildMainFails, RebuildBackup, RebuildErased, Forget, GiveUp, Laid
  <2> QED
    BY <2>1, <2>2 DEF Tables, Laid
<1>2. /\ Standing # None => Standing \in Tables
      /\ mainBa = None => pc = "rb_main"
      /\ pc = "rm_tmp" => backupBa # None
      /\ pc = "rm_main" => rg.lim # None
  BY <1>1, Bounds DEF TableThere, IInv, TablesKnown, Going, UpdateReturns, Layout, Ranges
<1>3. /\ pc = "update" \/ pc = "up_backup" \/ pc = "rb_backup" \/ pc = "rb_erased"
           => Standing = mainBa
      /\ pc \in {"up_main", "rm_tmp"} => Standing = backupBa
      /\ pc = "rm_main" => Standing = rg.lim
  BY DEF Standing, Going
<1>4. pc \in WriteReturns /\ got # None => got \in Tables
  BY DEF Layout, Looping
<1>5. ASSUME pc' \in UpdateReturns \cup {"update", "c_map"}, mainBa' = None \/ mainBa' \in Tables
      PROVE  (Standing' # None => Standing' \in Tables) /\ pc' # "erase"
  BY <1>5 DEF Standing, Going, UpdateReturns
<1>6. ASSUME NEW ba, NEW lim, NEW ret, WriteRange(ba, lim, ret), ret \in WriteReturns,
             (IF ret \in {"up_main", "us_main", "rm_tmp"} THEN backupBa'
              ELSE IF ret = "rm_main" THEN lim ELSE mainBa') \in Tables \cup {None}
      PROVE  (Standing' # None => Standing' \in Tables) /\ pc' # "erase"
  BY <1>6 DEF WriteRange, Standing, Going, WriteReturns
<1>7. UpdateReturn => pc' \in UpdateReturns
  BY UpdateReturnType DEF UpdateReturn, Return, UpdateReturns, IInv, TypeOK
<1>8. RebuildReturn => pc' \in {"c_map", "update"}
  BY DEF RebuildReturn
<1>9. CASE UpdateDone
  BY <1>9, <1>1, <1>2, <1>3, <1>5, <1>7 DEF UpdateDone
<1>10. CASE UpdateOnce
  BY <1>10, <1>1, <1>2, <1>3, <1>6 DEF UpdateOnce, WriteReturns
<1>11. CASE UpdateBackup
  BY <1>11, <1>1, <1>2, <1>3, <1>4, <1>6 DEF UpdateBackup, WriteReturns
<1>12. CASE UpdateMain \/ RescueMainDone
  BY <1>12, <1>1, <1>2, <1>3, <1>4, <1>5 DEF UpdateMain, RescueMainDone, WriteReturns
<1>13. CASE UpdateMainRebuilds
  BY <1>13, <1>1, <1>6 DEF UpdateMainRebuilds, StartRebuild, WriteReturns
<1>14. CASE RescueMain
  BY <1>14, <1>1, <1>2, <1>3, <1>5, <1>6 DEF RescueMain, BackupBecomesMain, WriteReturns
<1>15. CASE RescueMainTmp
  BY <1>15, <1>1, <1>2, <1>3, <1>4, <1>5, <1>6
  DEF RescueMainTmp, BackupBecomesMain, RetryBelow, WriteReturns
<1>16. CASE RebuildMain
  BY <1>16, <1>1, <1>4, <1>5, <1>6, <1>8 DEF RebuildMain, WriteReturns
<1>17. CASE RebuildMainFails
  BY <1>17, <1>1 DEF RebuildMainFails, Forget, GiveUp, Laid
<1>18. CASE RebuildBackup
  <2>1. CASE got = None
    BY <2>1, <1>18, <1>1, <1>2, <1>3, <1>5, <1>8 DEF RebuildBackup
  <2>2. CASE got # None
    BY <2>2, <1>18, <1>1, <1>2, <1>3, Bounds DEF RebuildBackup, EraseRange, Standing, Going
  <2> QED
    BY <2>1, <2>2
<1>19. CASE RebuildErased
  BY <1>19, <1>1, <1>2, <1>3, <1>5, <1>8 DEF RebuildErased
<1> QED
  BY <1>9, <1>10, <1>11, <1>12, <1>13, <1>14, <1>15, <1>16, <1>17, <1>18, <1>19
  DEF UpdateStep

LEMMA LoadStepThere == IInv /\ Layout /\ Resting /\ TableThere /\ LoadStep => TableThere'
<1> SUFFICES ASSUME IInv, Layout, Resting, TableThere, LoadStep, Laid', ~protected'
             PROVE  /\ Standing' # None => Standing' \in Tables'
                    /\ pc' = "erase" => mainBa' < rg'.ba
  BY DEF TableThere
<1> USE DEF layout, table, attachV, ghost, bounds
<1>1. /\ Laid /\ Tables' = Tables
      /\ pc \in {"rs_front", "rs_next", "rs_erased", "us_main", "us_backup", "ld_ok",
                 "ld_fail"}
      /\ ~protected
  BY DEF LoadStep, RescueFront, RescueNext, RescueNextLoop, RescueNextDone,
    UpdateSingle, UpdateSingleFails, LoadDone, chip, Tables, Laid, Resting, UpdateReturns
<1>2. /\ ~protected /\ Standing # None => Standing \in Tables
      /\ mainBa # None
      /\ pc = "us_main" \/ pc = "us_backup" => backupBa # None
  BY <1>1 DEF TableThere, IInv, TablesKnown, Going, UpdateReturns
<1>3. /\ pc # "us_main" => Standing = mainBa
      /\ pc = "us_main" => Standing = backupBa
  BY <1>1 DEF Standing, Going
<1>4. pc \in WriteReturns /\ got # None => got \in Tables
  BY DEF Layout, Looping
<1>5. ASSUME pc' \in {"ld_ok", "ld_fail", "idle"}, mainBa' = None \/ mainBa' \in Tables
      PROVE  (Standing' # None => Standing' \in Tables) /\ pc' # "erase"
  BY <1>5 DEF Standing, Going
<1>6. ASSUME NEW ba, NEW lim, NEW ret, WriteRange(ba, lim, ret),
             ret \in {"rs_front", "rs_next"}, mainBa' \in Tables
      PROVE  (Standing' # None => Standing' \in Tables) /\ pc' # "erase"
  BY <1>6 DEF WriteRange, Standing, Going
<1>7. ASSUME NEW ba, NEW lim, NEW ret, EraseRange(ba, lim, ret),
             ret \in {"ld_ok", "rs_erased"}, mainBa' \in Tables, mainBa' < ba
      PROVE  (Standing' # None => Standing' \in Tables) /\ mainBa' < rg'.ba
  BY <1>7 DEF EraseRange, Standing, Going
<1>8. CASE RescueFront
  BY <1>8, <1>1, <1>4, <1>7, Bounds DEF RescueFront, WriteReturns
<1>9. CASE RescueNext
  BY <1>9, <1>1, <1>2, <1>3, <1>5, <1>6 DEF RescueNext
<1>10. CASE RescueNextLoop
  <2>1. mainBa < mapBa
    BY <1>1 DEF Layout, Ordered
  <2> QED
    BY <2>1, <1>10, <1>1, <1>2, <1>3, <1>5, <1>6, <1>7 DEF RescueNextLoop, RetryBelow
<1>11. CASE RescueNextDone
  BY <1>11, <1>1, <1>2, <1>3, <1>5 DEF RescueNextDone
<1>12. CASE UpdateSingle
  BY <1>12, <1>1, <1>2, <1>3, <1>4, <1>5 DEF UpdateSingle, WriteReturns
<1>13. CASE UpdateSingleFails
  BY <1>13, <1>1, <1>2, <1>3, <1>5, <1>6 DEF UpdateSingleFails
<1>14. CASE LoadDone
  BY <1>14, <1>1, <1>2, <1>3, <1>5 DEF LoadDone, Return
<1> QED
  BY <1>8, <1>9, <1>10, <1>11, <1>12, <1>13, <1>14 DEF LoadStep

LEMMA CreateStepThere == IInv /\ Layout /\ TableThere /\ CreateStep => TableThere'
<1> SUFFICES ASSUME IInv, Layout, TableThere, CreateStep, Laid', ~protected'
             PROVE  /\ Standing' # None => Standing' \in Tables'
                    /\ pc' = "erase" => mainBa' < rg'.ba
  BY DEF TableThere
<1> USE DEF layout, table, attachV, ghost, bounds
<1>1. CASE CreateTables
  BY <1>1 DEF CreateTables, StartRebuild, WriteRange, Standing, Going
<1>2. CASE CreateEnd \/ CreateDone
  <2>1. /\ Tables' = Tables /\ Laid /\ ~protected /\ mainBa' = mainBa
        /\ pc \in {"c_close", "c_map", "c_end"} /\ pc' \in {"update", "idle"}
    BY <1>2 DEF CreateEnd, CreateDone, Update, Return, chip, Tables, Laid
  <2> QED
    BY <2>1 DEF TableThere, Standing, Going
<1>3. CASE CreateFails \/ SigErase \/ SigProgram \/ SigFails
  BY <1>3 DEF CreateFails, SigErase, SigProgram, SigFails, Forget, Laid
<1> QED
  BY <1>1, <1>2, <1>3 DEF CreateStep

-----------------------------------------------------------------------------
(* The requests. *)

\* no loop is going on, and the chip changes at the home of a logical block
LEMMA HomeThere ==
  ASSUME IInv, Layout, TableThere, Laid, NoLoop, NEW l \in LBs, mp[l] # Unmapped,
         NEW c, cells' = cells \/ cells' = [cells EXCEPT ![mp[l]] = c],
         badmark' = badmark \/ badmark' = badmark \cup {mp[l]},
         mainBa' = mainBa, protected' = protected, NoLoop'
  PROVE  TableThere'
<1>1. cells \in [Blocks -> Cell] /\ mp[l] \in Blocks /\ mp[l] \notin Tables
  BY HomeFacts DEF IInv, TypeOK
<1>2. Tables \subseteq Tables'
  BY <1>1 DEF Tables
<1>3. Standing = mainBa /\ Standing' = mainBa' /\ pc' # "erase"
  BY DEF Standing, Going, NoLoop, WriteReturns
<1> QED
  BY <1>2, <1>3 DEF TableThere

LEMMA ServeStepThere ==
  IInv /\ Serving /\ Layout /\ TableThere
    /\ (EraseStep \/ WriteStep \/ OpRefused \/ ReportBad \/ EndDetach) => TableThere'
<1> SUFFICES ASSUME IInv, Serving, Layout, TableThere,
                    EraseStep \/ WriteStep \/ OpRefused \/ ReportBad \/ EndDetach
             PROVE  TableThere'
  OBVIOUS
<1> USE DEF layout, table, attachV, ghost, bounds
<1>1. CASE EndDetach
  BY <1>1 DEF EndDetach, Forget, TableThere, Laid
<1>2. CASE ReportBad \/ OpRefused \/ MapBlock \/ MapBlockNone \/ EraseUnmaps \/ EraseRemaps
  <2>1. /\ Tables' = Tables /\ Laid /\ mainBa' = mainBa /\ protected' = protected
        /\ pc \in {"bad", "e_try", "p_try", "e_map", "c_map", "e_close"}
        /\ pc' \in {"idle", "e_map", "e_try", "c_map", "update"}
    BY <1>2 DEF ReportBad, OpRefused, MapBlock, MapBlockNone, EraseUnmaps, EraseRemaps,
      Return, Update, MapReturn, chip, Tables, Laid
  <2> QED
    BY <2>1 DEF TableThere, Standing, Going
<1>3. CASE EraseOk \/ EraseFails \/ WriteOk \/ WriteFails
  <2>1. /\ pc \in {"e_try", "p_try"} /\ Pb # Unmapped
        /\ pc' \in {"idle", "e_map", "update"}
        /\ cells' = cells \/ \E c : cells' = [cells EXCEPT ![Pb] = c]
        /\ badmark' = badmark \/ badmark' = badmark \cup {Pb}
        /\ mainBa' = mainBa /\ protected' = protected
    BY <1>3 DEF EraseOk, EraseFails, WriteOk, WriteFails, Fails, Return, Update, Usable
  <2>2. op.lb \in LBs /\ Laid /\ NoLoop /\ NoLoop'
    BY <2>1 DEF Serving, Laid, NoLoop, WriteReturns
  <2> QED
    BY <2>1, <2>2, HomeThere DEF Pb
<1> QED
  BY <1>1, <1>2, <1>3 DEF EraseStep, WriteStep

LEMMA RequestThere == IInv /\ Layout /\ TableThere /\ Request => TableThere'
<1> SUFFICES ASSUME IInv, Layout, TableThere, Request PROVE TableThere'
  OBVIOUS
<1> USE DEF layout, table, attachV, ghost, bounds
<1>1. pc = "idle" /\ Laid /\ NoLoop
  BY DEF Request, BeginErase, MarkBlockBad, BeginWrite, BeginDetach, Read, Served,
    Laid, NoLoop, WriteReturns
<1>2. CASE \E lb \in LBs : MarkBlockBad(lb)
  <2>1. PICK lb \in LBs : MarkBlockBad(lb)
    BY <1>2
  <2>2. /\ cells' = cells /\ mainBa' = mainBa /\ protected' = protected
        /\ pc' \in {"bad", "update"}
        /\ badmark' = badmark \/ (mp[lb] # Unmapped /\ badmark' = badmark \cup {mp[lb]})
    BY <2>1 DEF MarkBlockBad, Update
  <2>3. NoLoop'
    BY <2>2 DEF NoLoop, WriteReturns
  <2>4. CASE mp[lb] # Unmapped
    BY <2>2, <2>3, <2>4, <1>1, HomeThere
  <2>5. CASE badmark' = badmark
    BY <2>2, <2>5, <1>1 DEF TableThere, Standing, Going, Tables
  <2> QED
    BY <2>2, <2>4, <2>5
<1>3. CASE ~\E lb \in LBs : MarkBlockBad(lb)
  <2>1. /\ Tables' = Tables /\ mainBa' = mainBa /\ protected' = protected
        /\ pc' \in {"idle", "e_try", "p_try", "update"}
    BY <1>1, <1>3 DEF Request, BeginErase, BeginWrite, BeginDetach, Read, vars, Update,
      chip, Tables
  <2> QED
    BY <2>1, <1>1 DEF TableThere, Standing, Going
<1> QED
  BY <1>2, <1>3

LEMMA AttachLoadThere == IInv /\ Layout /\ AttachLoad => TableThere'
<1> SUFFICES ASSUME IInv, Layout, AttachLoad PROVE TableThere'
  OBVIOUS
<1>1. PICK sig, first, second, d :
        /\ sig = Highest(SigBlocks) /\ SigBlocks # {}
        /\ first = FirstTable(sig) /\ second = SecondTable(first, sig)
        /\ first # None /\ mainBa' = first /\ backupBa' = second
        /\ CASE second = None -> WriteRange(MgmtStart, first, "rs_front")
             [] d.uneven /\ d.newer -> WriteRange(first, second, "us_main")
             [] d.uneven /\ ~d.newer -> WriteRange(second, d.top, "us_backup")
             [] OTHER -> pc' = "ld_ok" /\ UNCHANGED rg
        /\ d = Load(first, second, sig) /\ UNCHANGED chip
  BY DEF AttachLoad
<1>u. d.uneven => second # None
  BY <1>1 DEF Load
<1>2. /\ cells' = cells /\ Tables' = Tables /\ OnChip /\ sig \in SigBlocks
      /\ cells \in [Blocks -> Cell]
  BY <1>1, TheSignature, SameChip DEF Layout, chip, IInv, TypeOK
<1>3. first \in Tables /\ (second # None => second \in Tables)
  <2>1. Tables # {} /\ first \in Tables /\ \A b \in Tables : first <= b
    BY <1>1, <1>2, FirstFound
  <2> QED
    BY <1>1, <1>2, <2>1, SecondFound
<1> QED
  BY <1>1, <1>u, <1>2, <1>3 DEF TableThere, Standing, Going, WriteRange

LEMMA RestingStays == IInv /\ Resting /\ [Next]_vars => Resting'
<1> SUFFICES ASSUME IInv, Resting, [Next]_vars, protected'
             PROVE  pc' \in UpdateReturns \cup {"update", "e_map"}
  BY DEF Resting
<1> USE DEF layout, table, attachV, ghost, bounds
<1>r. UpdateReturn => pc' \in UpdateReturns
  BY UpdateReturnType DEF IInv, TypeOK
<1>1. CASE RangeStep
  BY <1>1 DEF RangeStep, RangeSkip, RangeErase, RangeEraseFails, RangeEnd, Program,
    ProgramFails, Resting, RangeLoop, UpdateReturns
<1>2. CASE UpdateStep
  <2>1. CASE UpdateDone \/ RebuildMainFails
    BY <2>1, <1>r DEF UpdateDone, RebuildMainFails, Forget, GiveUp
  <2>2. CASE ~(UpdateDone \/ RebuildMainFails)
    BY <2>2, <1>2 DEF UpdateStep, UpdateOnce, UpdateBackup, UpdateMain,
      UpdateMainRebuilds, RescueMain, RescueMainTmp, RescueMainDone, RebuildMain,
      RebuildBackup, RebuildErased, Resting, UpdateReturns
  <2> QED
    BY <2>1, <2>2
<1>3. CASE LoadStep
  BY <1>3 DEF LoadStep, RescueFront, RescueNext, RescueNextLoop, RescueNextDone,
    UpdateSingle, UpdateSingleFails, LoadDone, Return, Resting, UpdateReturns
<1>4. CASE CreateStep
  BY <1>4 DEF CreateStep, SigErase, SigProgram, SigFails, CreateTables, CreateFails,
    CreateEnd, CreateDone, Forget, Update, Return, Resting, UpdateReturns
<1>5. CASE EraseStep \/ WriteStep \/ OpRefused \/ ReportBad \/ EndDetach
  BY <1>5 DEF EraseStep, EraseRemaps, EraseOk, EraseFails, MapBlock, MapBlockNone,
    EraseUnmaps, WriteStep, WriteOk, WriteFails, OpRefused, ReportBad, EndDetach,
    Forget, Update, Return, MapReturn, Resting, UpdateReturns
<1>6. CASE Attach
  BY <1>6 DEF Attach, AttachNew, AttachLoad, AttachRecreate, AttachFails, vars, Resting,
    UpdateReturns
<1>7. CASE Request
  BY <1>7 DEF Request, BeginErase, MarkBlockBad, BeginWrite, BeginDetach, Read, vars,
    Served, Update, Resting, UpdateReturns
<1>8. CASE PowerCut
  BY <1>8 DEF PowerCut, Forget
<1>9. CASE UNCHANGED vars
  BY <1>9 DEF vars, Resting, UpdateReturns, ctl
<1> QED
  BY <1>1, <1>2, <1>3, <1>4, <1>5, <1>6, <1>7, <1>8, <1>9 DEF Next, Run

LEMMA NextTable == IInv /\ LayoutInv /\ TableInv /\ [Next]_vars => TableInv'
<1> SUFFICES ASSUME IInv, LayoutInv, TableInv, [Next]_vars, ~stepped'
             PROVE  TableThere'
  BY RestingStays DEF TableInv
<1>1. IInv /\ Serving /\ Layout /\ Resting /\ TableThere
  BY SteppedStays DEF LayoutInv, Layout, TableInv
<1>2. CASE AttachNew \/ AttachRecreate
  BY <1>2 DEF AttachNew, AttachRecreate, TableThere, Laid
<1>3. CASE PowerCut
  BY <1>3 DEF PowerCut, Forget, TableThere, Laid
<1>4. CASE UNCHANGED vars
  BY <1>4, <1>1 DEF vars, chip, layout, table, attachV, ctl, TableThere, Standing,
    Going, Laid, Tables
<1> QED
  BY <1>1, <1>2, <1>3, <1>4, RangeStepThere, UpdateStepThere, LoadStepThere,
     CreateStepThere, ServeStepThere, RequestThere, AttachLoadThere
  DEF Next, Run, Attach, AttachFails

(* A table is on the chip at every place of the code, and it is left alone by
   the loop that is going on, except while the only table is rewritten or both
   tables are rebuilt (nmbm_update_info_table_once, nmbm_rescue_main_info_table,
   nmbm_rescue_single_info_table, nmbm_rebuild_info_table).                  *)
THEOREM OneTableStays == Spec => []TableInv
<1>1. Init => TableInv
  BY DEF Init, TableInv, Resting, TableThere, Laid
<1>2. TableInv /\ LayoutInv /\ IInv /\ [Next]_vars => TableInv'
  BY NextTable
<1> QED
  BY <1>1, <1>2, LayoutInductive, Inductive, PTL DEF Spec

-----------------------------------------------------------------------------
(* What a power cut leaves. *)

\* an attach finds what was acknowledged, if it finds a table
LEMMA Recovers ==
  ASSUME cells \in [Blocks -> Cell], OnChip, Kept, Tables # {}, NEW l \in LBs, Settled(l)
  PROVE  RecoversTo(l, acked[l])
<1>1. PICK sig, first, second, d, newer, home :
        /\ sig = Highest(SigBlocks) /\ first = FirstTable(sig)
        /\ second = SecondTable(first, sig) /\ d = Load(first, second, sig)
        /\ newer <=> second # None /\ cells[second].wc > cells[first].wc
        /\ home = IF newer THEN second ELSE first
  OBVIOUS
<1>2. PICK t : t \in Tables
  OBVIOUS
<1>3. OnChip /\ sig \in SigBlocks /\ sig # None
  <2>1. OnChip /\ SigBlocks # {}
    BY DEF OnChip
  <2>2. sig \in SigBlocks /\ sig \in Blocks
    BY <1>1, <2>1, TheSignature
  <2>3. t \in Blocks /\ MgmtStart <= t /\ t + 1 < sig
    BY <1>2, <2>2, <2>1 DEF OnChip, Tables
  <2> QED
    BY <2>1, <2>2, <2>3, ChipTables
<1>4. first \in Tables /\ first # None /\ \A b \in Tables : first <= b
  <2>1. first \in Tables /\ \A b \in Tables : first <= b
    BY <1>1, <1>3, FirstFound
  <2>2. first \in Blocks /\ MgmtStart <= first
    BY <2>1, <1>3 DEF OnChip, Tables
  <2> QED
    BY <2>1, <2>2, ChipTables
<1>5. /\ second = None \/ second \in Tables
      /\ \A b \in Tables : b = first \/ (b = second /\ second # None)
      /\ second # None => first < second
  BY <1>1, <1>3, <1>4, SecondFound
<1>6. /\ home \in Tables /\ d.mp = cells[home].mp
  BY <1>1, <1>3, <1>4, <1>5, LoadFacts
<1>7. /\ cells[home].mp[l] # Unmapped => l < d.count
      /\ \A x \in Blocks : \/ d.st[x] = cells[home].st[x]
                           \/ x \in badmark \/ cells[x].kind = "torn"
  BY <1>1, Loaded
<1>8. PICK b \in Blocks \ badmark :
        b = cells[home].mp[l] /\ cells[home].st[b] = "good" /\ Holds(l, cells[b])
  BY <1>6 DEF Kept, AtHome
<1>9. /\ d.mp[l] = b /\ b # Unmapped /\ l < d.count
      /\ d.st[b] = "good"
  BY <1>6, <1>7, <1>8, ChipFacts DEF Holds, Empty
<1>10. d.count \in Int /\ l \in Int
  <2>1. MgmtStart \in Int /\ (\A x \in LBs : x \in Int) /\ None \in Int
    BY ChipFacts DEF LBs, Blocks
  <2>2. \A S \in SUBSET LBs : Highest(S) \in Int
    BY <2>1, HighestIn
  <2>3. d.count = MgmtStart \/ \E S \in SUBSET LBs : d.count = Highest(S) + 1
    BY <1>1 DEF Load
  <2> QED
    BY <2>1, <2>2, <2>3
<1>11. ~(l >= d.count)
  BY <1>9, <1>10
<1>12. acked[l] = IF cells[b].kind = "empty" THEN "empty" ELSE cells[b].val
  BY <1>8 DEF Holds, Empty
<1>13. acked[l] # "empty" => cells[b].kind = "data" /\ cells[b].lb = l
  BY <1>8 DEF Holds
<1>14. acked[l] = "empty" => cells[b].kind = "empty"
  BY <1>8 DEF Holds, Empty
<1> QED
  BY <1>1, <1>3, <1>4, <1>9, <1>11, <1>12, <1>13, <1>14, Zenon DEF RecoversTo

LEMMA DurableNow == IInv /\ LayoutInv /\ DataInv => DurableWithTable
<1> SUFFICES ASSUME IInv, LayoutInv, DataInv, ~stepped, ~renewed, Tables # {},
                    NEW l \in LBs, Settled(l)
             PROVE  RecoversTo(l, acked[l])
  BY DEF DurableWithTable, Durable
<1>1. cells \in [Blocks -> Cell] /\ OnChip /\ Kept
  BY DEF IInv, TypeOK, LayoutInv, DataInv
<1> QED
  BY <1>1, Recovers

\* without a table an attach finds nothing
LEMMA NothingFound ==
  ASSUME IInv, LayoutInv, ~stepped, Tables = {}, NEW l, NEW c, RecoversTo(l, c)
  PROVE  c = "lost"
<1>1. PICK sig, first :
        /\ sig = Highest(SigBlocks)
        /\ first = IF sig = None THEN None ELSE FirstTable(sig)
        /\ first = None => c = "lost"
  BY Zenon DEF RecoversTo
<1>2. sig = None \/ sig \in SigBlocks
  BY <1>1, HighestIn
<1>3. sig # None => FirstTable(sig) = None
  BY <1>2, FirstFound DEF LayoutInv, IInv, TypeOK
<1> QED
  BY <1>1, <1>3

(* At every point of every procedure, what was acknowledged is on the chip,
   where the next attach finds it: a power cut loses nothing as long as a table
   is left (nmbm_update_info_table_once writes one table at a time,
   nmbm_erase_logic_block saves the new mapping before it is used).          *)
THEOREM NothingLostWithATable == Spec => []DurableWithTable
BY DurableNow, Inductive, LayoutInductive, DataInductive, PTL

\* the chip and what is known of it say what a power cut leaves
LEMMA SameLost ==
  ASSUME UNCHANGED <<cells, badmark, acked>> PROVE Durable' <=> Durable
BY DEF Durable, Settled, RecoversTo, SigBlocks, FirstTable, SecondTable, SearchTable,
  Loads, Load, Passed, PassedFirst, CheckTable, MarkBad, TopOf

\* without NMBM_F_CREATE no attach maps the chip anew
LEMMA NeverRenewed == ~Create /\ ~renewed /\ [Next]_vars => ~renewed'
<1> SUFFICES ASSUME ~Create, ~renewed, [Next]_vars PROVE ~renewed'
  OBVIOUS
<1> USE DEF ghost
<1>1. RangeStep \/ UpdateStep => UNCHANGED ghost
  BY DEF RangeStep, RangeSkip, RangeErase, RangeEraseFails, RangeEnd, Program,
    ProgramFails, UpdateStep, UpdateDone, UpdateOnce, UpdateBackup, UpdateMain,
    UpdateMainRebuilds, RescueMain, RescueMainTmp, RescueMainDone, RebuildMain,
    RebuildMainFails, RebuildBackup, RebuildErased
<1>2. LoadStep \/ CreateStep => UNCHANGED ghost
  BY DEF LoadStep, RescueFront, RescueNext, RescueNextLoop, RescueNextDone,
    UpdateSingle, UpdateSingleFails, LoadDone, CreateStep, SigErase, SigProgram,
    SigFails, CreateTables, CreateFails, CreateEnd, CreateDone
<1>3. EraseStep \/ WriteStep => UNCHANGED renewed
  BY DEF EraseStep, EraseRemaps, EraseOk, EraseFails, MapBlock, MapBlockNone,
    EraseUnmaps, WriteStep, WriteOk, WriteFails
<1>4. OpRefused \/ ReportBad \/ EndDetach \/ Attach \/ PowerCut => UNCHANGED renewed
  BY DEF OpRefused, ReportBad, EndDetach, Attach, AttachNew, AttachLoad,
    AttachRecreate, AttachFails, PowerCut, vars
<1>5. Request => UNCHANGED renewed
  BY DEF Request, BeginErase, MarkBlockBad, BeginWrite, BeginDetach, Read, vars
<1> QED
  BY <1>1, <1>2, <1>3, <1>4, <1>5, Zenon DEF Next, Run, vars

\* the step that passes over a bad spare block leaves the chip alone
LEMMA SteppingKeeps ==
  [Next]_vars /\ ~stepped /\ stepped' => UNCHANGED <<cells, badmark, acked>>
<1> SUFFICES ASSUME [Next]_vars, ~stepped, stepped'
             PROVE  UNCHANGED <<cells, badmark, acked>>
  OBVIOUS
<1> USE DEF ghost
<1>1. ~RangeStep /\ ~UpdateStep
  BY DEF RangeStep, RangeSkip, RangeErase, RangeEraseFails, RangeEnd, Program,
    ProgramFails, UpdateStep, UpdateDone, UpdateOnce, UpdateBackup, UpdateMain,
    UpdateMainRebuilds, RescueMain, RescueMainTmp, RescueMainDone, RebuildMain,
    RebuildMainFails, RebuildBackup, RebuildErased
<1>2. ~LoadStep /\ ~CreateStep
  BY DEF LoadStep, RescueFront, RescueNext, RescueNextLoop, RescueNextDone,
    UpdateSingle, UpdateSingleFails, LoadDone, CreateStep, SigErase, SigProgram,
    SigFails, CreateTables, CreateFails, CreateEnd, CreateDone
<1>3. ~WriteStep /\ (EraseStep => MapBlock)
  BY DEF EraseStep, EraseRemaps, EraseOk, EraseFails, MapBlockNone,
    EraseUnmaps, WriteStep, WriteOk, WriteFails
<1>4. ~OpRefused /\ ~ReportBad /\ ~EndDetach /\ ~Attach /\ ~PowerCut
  BY DEF OpRefused, ReportBad, EndDetach, Attach, AttachNew, AttachLoad,
    AttachRecreate, AttachFails, PowerCut, vars
<1>5. ~Request
  BY DEF Request, BeginErase, MarkBlockBad, BeginWrite, BeginDetach, Read, vars
<1>6. MapBlock
  BY <1>1, <1>2, <1>3, <1>4, <1>5, Zenon DEF Next, Run, vars
<1> QED
  BY <1>6 DEF MapBlock, chip

LEMMA LosesWithLast ==
  ASSUME IInv, LayoutInv, DataInv, TableInv, DurableWithTable', ~renewed, ~renewed',
         [Next]_vars, Durable, ~Durable'
  PROVE  protected \/ stepped \/ Cardinality(Tables) = 1
<1> SUFFICES ASSUME ~protected, ~stepped PROVE Cardinality(Tables) = 1
  OBVIOUS
<1>1. ~stepped'
  BY SteppingKeeps, SameLost
<1>2. Tables' = {}
  BY <1>1 DEF DurableWithTable
<1>3. CASE Tables = {}
  <2>1. PICK l \in LBs : Settled(l)'
    BY DEF Durable
  <2>2. ~Settled(l)
    <3>1. SUFFICES ASSUME Settled(l) PROVE FALSE
      OBVIOUS
    <3>2. acked[l] = "lost"
      BY <1>3, <3>1, NothingFound DEF Durable
    <3> QED
      BY <3>1, <3>2, ChipAssumption DEF Settled
  <2>3. Serving /\ pc \in {"e_try", "p_try"}
    BY <2>1, <2>2, NewlySettled DEF LayoutInv
  <2>4. mainBa # None
    BY <2>3 DEF IInv, TablesKnown, Laid, Going
  <2>5. mainBa \in Tables
    BY <2>3, <2>4 DEF TableInv, TableThere, Standing, Going, Laid
  <2> QED
    BY <1>3, <2>5
<1>4. CASE Tables # {}
  <2>1. PICK b, c : /\ cells' = cells \/ cells' = [cells EXCEPT ![b] = c]
                    /\ badmark' = badmark \/ badmark' = badmark \cup {b}
    BY OneBlockChanges
  <2>2. cells \in [Blocks -> Cell]
    BY DEF IInv, TypeOK
  <2>3. \A x \in Tables : x # b => x \in Tables'
    BY <2>1, <2>2 DEF Tables
  <2>4. Tables = {b}
    BY <1>2, <1>4, <2>3
  <2> QED
    BY <2>4, FS_Singleton
<1> QED
  BY <1>3, <1>4

(* Without NMBM_F_CREATE, what was acknowledged is lost in one way only, however
   many blocks fail and wherever the power is cut: with the last table, or after
   the device announced that it could not save its tables, or that
   nmbm_map_block passed over a bad spare block.  (With NMBM_F_CREATE an attach
   that finds no table maps the chip anew, and what follows concerns another
   mapping.)                                                                *)
THEOREM LostWithLastTableOnly == ~Create => (Spec => LostOnlyWithLastTable)
<1> SUFFICES ASSUME ~Create PROVE Spec => LostOnlyWithLastTable
  OBVIOUS
<1>1. Init => ~renewed
  BY DEF Init
<1>2. ~renewed /\ [Next]_vars => ~renewed'
  BY NeverRenewed
<1>3. /\ IInv /\ LayoutInv /\ DataInv /\ TableInv /\ DurableWithTable'
      /\ ~renewed /\ ~renewed' /\ [Next]_vars
      => [Durable /\ ~Durable' => protected \/ stepped \/ Cardinality(Tables) = 1]_vars
  BY LosesWithLast
<1> QED
  BY <1>1, <1>2, <1>3, Inductive, LayoutInductive, DataInductive, OneTableStays,
     NothingLostWithATable, PTL DEF Spec, LostOnlyWithLastTable

(* All invariants together, as TLC checks them on the small chips.          *)
THEOREM AlwaysKeeps == Spec => []KeepsInv
BY LayoutInductive, DataInductive, OneTableStays, PTL DEF KeepsInv

-----------------------------------------------------------------------------
(* Panics.  Which request is being served, whether it comes from the user or    *)
(* not, and that a panic ends it.  After a panic nothing runs but the loops of  *)
(* nmbm_update_info_table, for a page of the last words that failed.            *)

Asked == pc \in {"e_try", "e_map", "e_close", "p_try", "bad"}
         \/ uret \in {"e_try", "e_close", "bad"}
UpdateLoops == {"up_backup", "up_main", "rm_tmp", "rm_main", "rb_main",
                "rb_backup", "rb_erased"}
LastUpdate ==
  /\ uret = "detached"
  /\ \/ pc \in UpdateLoops \cup {"update"}
     \/ pc \in {"write", "prog", "erase"} /\ rg.ret \in UpdateLoops
\* r is a range that some loop runs over
IsRange(r) == \E B, L : r \in [ba : B, lim : L, ret : RangeReturns]
RequestInv ==
  /\ acked \in [LBs -> Values \cup {"empty", "unknown", "bad"}]
  /\ op \in [lb : LBs \cup {Unmapped}, val : Values \cup {"none"}]
  /\ op.lb # Unmapped => acked[op.lb] = "unknown" /\ pc \notin {"idle", "off"}
  /\ pc \in {"idle", "off"} => uret = "idle"
  /\ Asked => op.lb # Unmapped
  /\ pc = "p_try" => op.val \in Values
  /\ uret \in UpdateReturns
  /\ IsRange(rg)
  /\ pc \in {"write", "prog", "erase"} => rg.ret \in WriteReturns \cup EraseReturns
PanicInv ==
  /\ panic \in {"no", "calm", "busy", "cut"} /\ mangled \in {"no", "resumed", "cut"}
  /\ panic # "no" => op.lb = Unmapped /\ (pc = "detached" \/ LastUpdate)

\* what a step of Nmbm does to the request and to what the user knows
Same == UNCHANGED <<acked, op>>
Ends == op' = NoOp /\ acked' = acked
Answers ==
  /\ op.lb # Unmapped /\ op' = NoOp /\ pc' = "idle"
  /\ \E a \in Values \cup {"empty", "unknown", "bad"} :
       acked' = [acked EXCEPT ![op.lb] = a]
Starts ==
  /\ pc = "idle" /\ pc' # "off"
  /\ \E l \in LBs : op'.lb = l /\ acked' = [acked EXCEPT ![l] = "unknown"]

\* a loop comes to block b, and one begins that is to continue at p
Moved(r, b) == [r EXCEPT !.ba = b]
NewRange(b, lim, p) == [ba |-> b, lim |-> lim, ret |-> p]

LEMMA RangeMade ==
  ASSUME NEW b, NEW lim, NEW p \in RangeReturns
  PROVE  IsRange(NewRange(b, lim, p)) /\ NewRange(b, lim, p).ret = p
<1>1. [ba |-> b, lim |-> lim, ret |-> p] \in [ba : {b}, lim : {lim}, ret : RangeReturns]
  OBVIOUS
<1> QED
  BY <1>1 DEF IsRange, NewRange

LEMMA RangeMoved ==
  ASSUME NEW r, IsRange(r), NEW b
  PROVE  IsRange(Moved(r, b)) /\ Moved(r, b).ret = r.ret
<1>1. PICK B, L : r \in [ba : B, lim : L, ret : RangeReturns]
  BY DEF IsRange
<1>2. [r EXCEPT !.ba = b] \in [ba : B \cup {b}, lim : L, ret : RangeReturns]
  BY <1>1
<1>3. [r EXCEPT !.ba = b].ret = r.ret
  BY <1>1
<1> QED
  BY <1>2, <1>3 DEF IsRange, Moved

LEMMA RangeRunsOn ==
  RequestInv /\ RangeStep =>
    RequestInv' /\ Same /\ (LastUpdate => LastUpdate' \/ pc' = "detached")
<1> SUFFICES ASSUME RequestInv, RangeStep
             PROVE  RequestInv' /\ Same /\ (LastUpdate => LastUpdate')
  OBVIOUS
<1> USE DEF RequestInv, ghost
<1>1. /\ RangeLoop \/ pc = "prog"
      /\ UNCHANGED <<acked, op, uret>> /\ pc' \in {"write", "prog", "erase", rg.ret}
      /\ rg' = rg \/ \E b : rg' = Moved(rg, b)
  BY DEF Moved, RangeStep, RangeSkip, RangeErase, RangeEraseFails, RangeEnd, Program,
    ProgramFails, RangeLoop
<1>2. IsRange(rg') /\ rg'.ret = rg.ret
  <2>1. IsRange(rg)
    BY DEF RequestInv
  <2> QED
    BY <1>1, <2>1, RangeMoved
<1> QED
  BY <1>1, <1>2 DEF Same, Asked, LastUpdate, UpdateLoops, RangeLoop, WriteReturns,
    EraseReturns

\* the request is answered, or the instance freed
LEMMA Resets ==
  Return \/ Forget => op' = NoOp /\ uret' = "idle" /\ pc' \in {"idle", "off"}
                      /\ IsRange(rg')
<1>1. IsRange(NoRange) /\ "idle" \in RangeReturns
  BY RangeMade DEF NoRange, NewRange, RangeReturns
<1> QED
  BY <1>1 DEF Return, Forget, ResetCtl

LEMMA ResetKeeps ==
  ASSUME RequestInv, op' = NoOp, uret' = "idle", pc' \in {"idle", "off"}, IsRange(rg'),
         acked' \in [LBs -> Values \cup {"empty", "unknown", "bad"}]
  PROVE  RequestInv'
BY DEF RequestInv, Asked, NoOp, UpdateReturns

\* the update of the tables goes on
LoopsOn ==
  /\ UNCHANGED <<acked, op, uret>>
  /\ pc' \in UpdateLoops \cup {"update", "c_map", "write", "erase"}
  /\ pc' = "c_map" => uret = "creating"
  /\ \/ rg' = rg /\ pc' \notin {"write", "erase"}
     \/ \E b, lim : \E p \in UpdateLoops : rg' = NewRange(b, lim, p)

LEMMA UpdateRunsOn ==
  RequestInv /\ UpdateStep =>
    /\ RequestInv' /\ (Same \/ Ends)
    /\ LastUpdate => op' = op /\ (LastUpdate' \/ pc' = "detached")
<1> SUFFICES ASSUME RequestInv, UpdateStep
             PROVE  /\ RequestInv' /\ (Same \/ Ends)
                    /\ LastUpdate => op' = op /\ (LastUpdate' \/ pc' = "detached")
  OBVIOUS
<1>1. CASE LoopsOn
  <2>1. /\ UNCHANGED <<acked, op, uret>>
        /\ pc' \in UpdateLoops \cup {"update", "c_map", "write", "erase"}
        /\ (pc' = "c_map" => uret = "creating")
    BY <1>1 DEF LoopsOn
  <2>2. IsRange(rg)
    BY DEF RequestInv
  <2>3. UpdateLoops \subseteq RangeReturns
    BY DEF UpdateLoops, RangeReturns
  <2>4. IsRange(rg') /\ (pc' \in {"write", "erase"} => rg'.ret \in UpdateLoops)
    BY <1>1, <2>2, <2>3, RangeMade DEF LoopsOn
  <2>5. RequestInv' /\ Same
    BY <2>1, <2>4 DEF RequestInv, Same, Asked, UpdateLoops, WriteReturns, EraseReturns,
      UpdateReturns
  <2> QED
    BY <2>1, <2>4, <2>5 DEF LastUpdate, UpdateLoops
<1>2. CASE UpdateReturn /\ acked' = acked /\ pc # "idle"
  <2>1. CASE uret = "idle"
    BY <1>2, <2>1, Resets, ResetKeeps DEF RequestInv, Ends, Asked, LastUpdate,
      UpdateReturn
  <2>2. CASE uret # "idle"
    BY <1>2, <2>2 DEF RequestInv, Same, Asked, LastUpdate, UpdateReturns, UpdateReturn,
      ctl, UpdateLoops
  <2> QED
    BY <2>1, <2>2
<1>3. CASE Forget /\ acked' = acked /\ uret # "detached"
  BY <1>3, Resets, ResetKeeps DEF RequestInv, Ends, Asked, LastUpdate
<1> USE DEF ghost, ctl, UpdateLoops
<1>4. UpdateDone \/ RebuildMainFails =>
        /\ UpdateReturn \/ (Forget /\ uret # "detached")
        /\ acked' = acked /\ pc # "idle"
  BY DEF UpdateDone, RebuildMainFails, GiveUp
<1>5. UpdateOnce \/ UpdateBackup \/ UpdateMain \/ UpdateMainRebuilds \/ RescueMain
        \/ RescueMainTmp \/ RescueMainDone \/ RebuildMain \/ RebuildBackup \/ RebuildErased
       => LoopsOn
  BY DEF UpdateOnce, UpdateBackup, UpdateMain,
    UpdateMainRebuilds, RescueMain, RescueMainTmp, RescueMainDone, RebuildMain,
    RebuildBackup, RebuildErased, RebuildReturn,
    WriteRange, EraseRange, StartRebuild, BackupBecomesMain, RetryBelow, LoopsOn,
    NewRange
<1> QED
  BY <1>1, <1>2, <1>3, <1>4, <1>5 DEF UpdateStep

\* a step on nobody's request, or on the same one
LEMMA QuietStays ==
  ASSUME RequestInv, UNCHANGED <<acked, op>>,
         uret' = uret \/ uret' \in UpdateReturns \ {"e_try", "e_close", "bad"},
         pc' \notin {"e_try", "e_map", "e_close", "p_try", "bad", "idle", "off"},
         IsRange(rg'),
         pc' \in {"write", "prog", "erase"} => rg'.ret \in WriteReturns \cup EraseReturns
  PROVE  RequestInv' /\ Same
BY DEF RequestInv, Asked, Same

LEMMA LoadRunsOn == RequestInv /\ LoadStep => RequestInv' /\ (Same \/ Ends)
<1> SUFFICES ASSUME RequestInv, LoadStep PROVE RequestInv' /\ (Same \/ Ends)
  OBVIOUS
<1> DEFINE Loops == {"rs_front", "rs_next", "rs_erased", "ld_ok"}
           On == /\ UNCHANGED <<acked, op, uret>>
                 /\ pc' \in {"write", "erase", "ld_ok", "ld_fail"}
                 /\ \/ rg' = rg /\ pc' \notin {"write", "erase"}
                    \/ \E b, lim : \E p \in Loops : rg' = NewRange(b, lim, p)
<1>1. CASE LoadDone
  <2>1. acked' = acked /\ Return
    BY <1>1 DEF LoadDone, ghost
  <2> QED
    BY <2>1, Resets, ResetKeeps DEF RequestInv, Ends
<1>2. LoadDone \/ On
  BY DEF LoadStep, RescueFront, RescueNext, RescueNextLoop, RescueNextDone,
    UpdateSingle,
    UpdateSingleFails, ctl, ghost, WriteRange, EraseRange, RetryBelow, NewRange
<1>3. /\ IsRange(rg) /\ Loops \subseteq RangeReturns
      /\ Loops \subseteq WriteReturns \cup EraseReturns
  BY DEF RequestInv, RangeReturns, WriteReturns, EraseReturns
<1>4. CASE On
  <2> HIDE DEF Loops
  <2>1. /\ IsRange(rg')
        /\ pc' \in {"write", "prog", "erase"} => rg'.ret \in WriteReturns \cup EraseReturns
    BY <1>3, <1>4, RangeMade
  <2> QED
    BY <1>4, <2>1, QuietStays
<1> QED
  BY <1>1, <1>2, <1>4

LEMMA CreateRunsOn == RequestInv /\ CreateStep => RequestInv' /\ (Same \/ Ends)
<1> SUFFICES ASSUME RequestInv, CreateStep PROVE RequestInv' /\ (Same \/ Ends)
  OBVIOUS
<1>0. IsRange(rg)
  BY DEF RequestInv
<1>1. CASE CreateDone \/ CreateFails
  <2>1. acked' = acked /\ (Return \/ Forget)
    BY <1>1 DEF CreateDone, CreateFails, ghost
  <2> QED
    BY <2>1, Resets, ResetKeeps DEF RequestInv, Ends
<1>2. CASE CreateTables
  <2>1. UNCHANGED <<acked, op>> /\ uret' = "creating" /\ pc' = "write"
        /\ \E lim : rg' = NewRange(MgmtStart, lim, "rb_main")
    BY <1>2 DEF CreateTables, StartRebuild, WriteRange, NewRange, ghost
  <2>2. IsRange(rg') /\ rg'.ret = "rb_main"
    BY <2>1, RangeMade DEF RangeReturns
  <2> QED
    BY <2>1, <2>2, QuietStays DEF UpdateReturns, WriteReturns
<1>3. CASE SigErase \/ SigProgram \/ SigFails \/ CreateEnd
  <2>1. /\ UNCHANGED <<acked, op>> /\ uret' \in {uret, "c_end"}
        /\ pc' \in {"sig", "sig_prog", "create", "update"}
        /\ rg' = rg \/ \E b : rg' = Moved(rg, b)
    BY <1>3 DEF SigErase, SigProgram, SigFails, CreateEnd, Update, Moved, ghost, ctl
  <2>2. IsRange(rg')
    BY <1>0, <2>1, RangeMoved
  <2> QED
    BY <2>1, <2>2, QuietStays DEF UpdateReturns
<1> QED
  BY <1>1, <1>2, <1>3 DEF CreateStep

\* a request is served
LEMMA ServeRunsOn ==
  RequestInv /\ (EraseStep \/ WriteStep \/ OpRefused \/ ReportBad) =>
    RequestInv' /\ (Same \/ Answers)
<1> SUFFICES ASSUME RequestInv, EraseStep \/ WriteStep \/ OpRefused \/ ReportBad
             PROVE  RequestInv' /\ (Same \/ Answers)
  OBVIOUS
<1>1. CASE EraseOk \/ WriteOk \/ OpRefused \/ ReportBad
  <2>1. /\ Asked /\ Return
        /\ \E a \in Values \cup {"empty", "unknown", "bad"} : Answer(a)
    BY <1>1 DEF EraseOk, WriteOk, OpRefused, ReportBad, Asked, RequestInv
  <2>2. pc' = "idle" /\ op' = NoOp /\ op.lb # Unmapped
    BY <2>1, Resets DEF Return, RequestInv
  <2>3. Answers /\ acked' \in [LBs -> Values \cup {"empty", "unknown", "bad"}]
    <3>1. PICK a \in Values \cup {"empty", "unknown", "bad"} : Answer(a)
      BY <2>1
    <3>2. acked' = [acked EXCEPT ![op.lb] = a]
      BY <3>1 DEF Answer
    <3>3. Answers
      BY <2>1, <2>2, <3>2 DEF Answers, Return
    <3> QED
      BY <3>2, <3>3 DEF RequestInv
  <2> QED
    BY <2>1, <2>3, Resets, ResetKeeps
<1>2. CASE EraseRemaps \/ EraseFails
  <2>1. pc = "e_try" /\ pc' = "e_map" /\ UNCHANGED <<acked, op, uret, rg>>
    BY <1>2 DEF EraseRemaps, EraseFails, ctl, ghost
  <2> QED
    BY <2>1 DEF RequestInv, Asked, Same
<1>3. CASE MapBlock \/ MapBlockNone \/ EraseUnmaps \/ WriteFails
  <2>1. /\ UNCHANGED <<acked, op, rg>> /\ (pc' = "update" \/ (pc = "c_map" /\ pc' = pc))
        /\ uret' = uret \/ uret' \in UpdateReturns
        /\ uret' \in {"e_try", "e_close", "bad"} => uret' = uret \/ Asked
    BY <1>3 DEF MapBlock, MapBlockNone, EraseUnmaps, WriteFails, MapReturn, Update,
      ghost, UpdateReturns, Asked
  <2> QED
    BY <2>1 DEF RequestInv, Asked, Same
<1> QED
  BY <1>1, <1>2, <1>3 DEF EraseStep, WriteStep

LEMMA AttachRunsOn == RequestInv /\ Attach => RequestInv' /\ Same
<1> SUFFICES ASSUME RequestInv, Attach PROVE RequestInv' /\ Same
  OBVIOUS
<1>1. IsRange(rg) /\ uret = "idle" /\ pc = "off"
  BY DEF RequestInv, Attach, AttachNew, AttachLoad, AttachRecreate, AttachFails
<1>2. CASE AttachFails
  BY <1>2 DEF AttachFails, vars, ctl, ghost, RequestInv, Same, Asked
<1>3. CASE AttachNew \/ AttachRecreate
  <2>1. /\ UNCHANGED <<acked, op, uret>> /\ pc' \in {"sig", "create"}
        /\ rg' = rg \/ \E b : rg' = Moved(NoRange, b)
    BY <1>3 DEF AttachNew, AttachRecreate, ctl, ghost, Moved
  <2>2. NoRange = NewRange(None, None, "idle") /\ "idle" \in RangeReturns
    BY DEF NoRange, NewRange, RangeReturns
  <2>3. IsRange(NoRange)
    BY <2>2, RangeMade
  <2>4. IsRange(rg')
    BY <1>1, <2>1, <2>3, RangeMoved
  <2> QED
    BY <1>1, <2>1, <2>4, QuietStays
<1>4. CASE AttachLoad
  <2> DEFINE Loops == {"rs_front", "us_main", "us_backup"}
  <2>1. /\ UNCHANGED <<acked, op, uret>> /\ pc' \in {"write", "ld_ok"}
        /\ \/ rg' = rg /\ pc' # "write"
           \/ \E b, lim : \E p \in Loops : rg' = NewRange(b, lim, p)
    BY <1>4 DEF AttachLoad, WriteRange, NewRange, ghost
  <2>2. Loops \subseteq RangeReturns /\ Loops \subseteq WriteReturns
    BY DEF RangeReturns, WriteReturns
  <2> HIDE DEF Loops
  <2>3. IsRange(rg') /\ (pc' \in {"write", "prog", "erase"} => rg'.ret \in WriteReturns)
    BY <1>1, <2>1, <2>2, RangeMade
  <2> QED
    BY <2>1, <2>3, QuietStays
<1> QED
  BY <1>2, <1>3, <1>4 DEF Attach

\* a request begins
LEMMA BeginRunsOn == RequestInv /\ Request => RequestInv' /\ (Same \/ Starts)
<1> SUFFICES ASSUME RequestInv, Request PROVE RequestInv' /\ (Same \/ Starts)
  OBVIOUS
<1>1. CASE BeginDetach \/ Read
  BY <1>1 DEF BeginDetach, Read, vars, ctl, ghost, RequestInv, Same, Asked, Update,
    UpdateReturns
<1>2. ASSUME NEW l \in LBs, NEW v \in Values \cup {"none"}, Begin(l, v), pc = "idle",
             UNCHANGED rg, pc' = "p_try" => v \in Values,
             \/ pc' \in {"e_try", "p_try", "bad"} /\ uret' = uret
             \/ pc' = "update" /\ uret' = "bad"
      PROVE  RequestInv' /\ Starts
  <2>1. /\ acked' = [acked EXCEPT ![l] = "unknown"] /\ acked'[l] = "unknown"
        /\ acked' \in [LBs -> Values \cup {"empty", "unknown", "bad"}]
    BY <1>2 DEF Begin, RequestInv
  <2>2. /\ op'.lb = l /\ op'.val = v /\ l # Unmapped
        /\ op' \in [lb : LBs \cup {Unmapped}, val : Values \cup {"none"}]
    BY <1>2 DEF Begin, LBs, Unmapped
  <2> QED
    BY <1>2, <2>1, <2>2 DEF RequestInv, Starts, Asked, UpdateReturns
<1>3. ASSUME NEW l \in LBs, BeginErase(l) \/ MarkBlockBad(l) PROVE RequestInv' /\ Starts
  <2>1. /\ Begin(l, "none") /\ pc = "idle" /\ UNCHANGED rg
        /\ \/ pc' \in {"e_try", "bad"} /\ uret' = uret
           \/ pc' = "update" /\ uret' = "bad"
    BY <1>3 DEF BeginErase, MarkBlockBad, Served, Update
  <2> QED
    BY <1>2, <2>1
<1>4. ASSUME NEW l \in LBs, NEW v \in Values, BeginWrite(l, v) PROVE RequestInv' /\ Starts
  <2>1. Begin(l, v) /\ pc = "idle" /\ UNCHANGED <<rg, uret>> /\ pc' = "p_try"
    BY <1>4 DEF BeginWrite, Served
  <2> QED
    BY <1>2, <2>1
<1> QED
  BY <1>1, <1>3, <1>4 DEF Request

\* the instance is freed
LEMMA ForgetRunsOn ==
  RequestInv /\ (EndDetach \/ PowerCut) => RequestInv' /\ Ends /\ pc' = "off"
<1> SUFFICES ASSUME RequestInv, EndDetach \/ PowerCut
             PROVE  RequestInv' /\ Ends /\ pc' = "off"
  OBVIOUS
<1>1. Forget /\ acked' = acked
  BY DEF EndDetach, PowerCut, ghost
<1> QED
  BY <1>1, Resets, ResetKeeps DEF RequestInv, Ends, Forget

LEMMA NextRequest ==
  RequestInv /\ [Next]_vars =>
    /\ RequestInv' /\ (Same \/ Ends \/ Answers \/ Starts)
    /\ LastUpdate => op' = op \/ op' = NoOp
<1> SUFFICES ASSUME RequestInv, [Next]_vars
             PROVE  RequestInv' /\ (Same \/ Ends \/ Answers \/ Starts)
  BY DEF Same, Ends, Answers, Starts, LastUpdate, UpdateLoops
<1>1. CASE UNCHANGED vars
  BY <1>1 DEF vars, ctl, ghost, RequestInv, Same, Asked
<1> QED
  BY <1>1, RangeRunsOn, UpdateRunsOn, LoadRunsOn, CreateRunsOn, ServeRunsOn,
    AttachRunsOn,
    BeginRunsOn, ForgetRunsOn DEF Next, Run

-----------------------------------------------------------------------------
(* Requests and panics together. *)

LEMMA PanicAlive == RequestInv /\ PanicInv /\ Alive => PanicInv'
<1> SUFFICES ASSUME RequestInv, PanicInv, Alive, panic # "no", pc' # "off"
             PROVE  op' = op /\ (pc' = "detached" \/ LastUpdate')
  BY DEF PanicInv, Alive, NoOp
<1>1. RangeStep \/ UpdateStep
  BY DEF Alive, Next, Run, LoadStep, RescueFront, RescueNext, RescueNextLoop,
    RescueNextDone,
    UpdateSingle, UpdateSingleFails, LoadDone, CreateStep, SigErase, SigProgram,
    SigFails, CreateTables, CreateFails, CreateEnd, CreateDone, EraseStep, EraseRemaps,
    EraseOk,
    EraseFails, MapBlock, MapBlockNone, EraseUnmaps, WriteStep, WriteOk, WriteFails,
    OpRefused,
    ReportBad, EndDetach, Attach, AttachNew, AttachLoad, AttachRecreate, AttachFails,
    Request, BeginErase, MarkBlockBad, BeginWrite, BeginDetach, Read, Served, PowerCut,
    Forget,
    PanicInv, LastUpdate, UpdateLoops
<1>2. LastUpdate
  BY <1>1 DEF PanicInv, RangeStep, RangeSkip, RangeErase, RangeEraseFails, RangeEnd,
    Program,
    ProgramFails, RangeLoop, UpdateStep, UpdateDone, UpdateOnce, UpdateBackup,
    UpdateMain,
    UpdateMainRebuilds, RescueMain, RescueMainTmp, RescueMainDone, RebuildMain,
    RebuildMainFails, RebuildBackup, RebuildErased
<1> QED
  BY <1>1, <1>2, RangeRunsOn, UpdateRunsOn DEF Same

\* what the user knows after a panic write
LEMMA PanicTells ==
  ASSUME RequestInv, PanicInv, PanicWrite
  PROVE  /\ RequestInv' /\ PanicInv' /\ panic' # "no" /\ op' = NoOp
         /\ \E l \in LBs, a \in Values \cup {"unknown"} : acked' = [acked EXCEPT ![l] = a]
         /\ mangled' = mangled \/ mangled' # "no"
         /\ mangled = "cut" => mangled' = "cut"
<1>1. PICK l \in LBs : PanicFails(l) \/ \E v \in Values : PanicWrites(l, v)
  BY DEF PanicWrite
<1>2. PanicServed(l)
  BY <1>1 DEF PanicFails, PanicWrites
<1>3. panic' \in {"calm", "busy", "cut"} /\ acked[l] \in {"empty", "unknown"}
  BY <1>2 DEF PanicServed, PanicInv, Stopped
<1>4. CASE PanicFails(l)
  <2>1. /\ acked' = [acked EXCEPT ![l] = "unknown"] /\ op' = NoOp /\ pc' = "update"
        /\ uret' = "detached" /\ rg' = NoRange
        /\ mangled' = mangled \/ mangled' \in {"resumed", "cut"}
        /\ mangled = "cut" => mangled' = "cut"
    BY <1>3, <1>4 DEF PanicFails, PanicInv
  <2>2. IsRange(rg')
    BY <2>1, RangeMade DEF NoRange, NewRange, RangeReturns
  <2>3. RequestInv'
    BY <2>1, <2>2 DEF RequestInv, Asked, NoOp, UpdateReturns, Unmapped
  <2> QED
    BY <1>3, <2>1, <2>3 DEF PanicInv, LastUpdate, NoOp
<1>5. ASSUME NEW v \in Values, PanicWrites(l, v)
      PROVE  /\ RequestInv' /\ PanicInv' /\ op' = NoOp /\ mangled' = mangled
             /\ \E a \in Values \cup {"unknown"} : acked' = [acked EXCEPT ![l] = a]
  <2>1. /\ acked' = [acked EXCEPT ![l] = IF @ = "empty" THEN v ELSE @] /\ op' = NoOp
        /\ pc' = "detached" /\ uret' = "idle" /\ rg' = NoRange /\ mangled' = mangled
    BY <1>5 DEF PanicWrites, ResetCtl
  <2>2. IsRange(rg')
    BY <2>1, RangeMade DEF NoRange, NewRange, RangeReturns
  <2>3. \E a \in Values \cup {"unknown"} : acked' = [acked EXCEPT ![l] = a]
    BY <1>3, <2>1
  <2>4. RequestInv'
    BY <2>1, <2>2, <2>3 DEF RequestInv, Asked, NoOp, UpdateReturns, Unmapped
  <2> QED
    BY <1>3, <2>1, <2>3, <2>4 DEF PanicInv, NoOp
<1> QED
  BY <1>1, <1>3, <1>4, <1>5

LEMMA InitRequest == PInit => RequestInv /\ PanicInv
<1> SUFFICES ASSUME PInit PROVE RequestInv /\ PanicInv
  OBVIOUS
<1>1. IsRange(rg)
  BY RangeMade DEF PInit, Init, NoRange, NewRange, RangeReturns
<1> QED
  BY <1>1 DEF PInit, Init, RequestInv, PanicInv, Asked, NoOp, UpdateReturns, Unmapped

LEMMA AlwaysRequest == PSpec => [](RequestInv /\ PanicInv)
<1>1. RequestInv /\ PanicInv /\ [Alive \/ PanicWrite]_pvars => RequestInv' /\ PanicInv'
  <2>1. RequestInv /\ PanicInv /\ Alive => RequestInv' /\ PanicInv'
    BY NextRequest, PanicAlive DEF Alive
  <2>2. RequestInv /\ UNCHANGED vars => RequestInv'
    BY NextRequest
  <2>3. PanicInv /\ UNCHANGED pvars => PanicInv' /\ UNCHANGED vars
    BY DEF pvars, vars, ctl, PanicInv, LastUpdate
  <2> QED
    BY <2>1, <2>2, <2>3, PanicTells DEF pvars
<1> QED
  BY <1>1, InitRequest, PTL DEF PSpec

-----------------------------------------------------------------------------
(* The disk that NMBM implements. *)

\* as long as nothing is lost, the disk shows what the user knows
Shown == [l \in LBs |-> IF Settled(l) /\ mangled # "cut" THEN acked[l] ELSE "unknown"]
Shows == Disk!dvars = <<Shown, op.lb, panic # "no">>

LEMMA RecoversToOne ==
  ASSUME NEW l, NEW c, NEW d, RecoversTo(l, c), RecoversTo(l, d) PROVE c = d
BY DEF RecoversTo

LEMMA DiskShown == SurvivesPanic => Shows
<1> SUFFICES ASSUME SurvivesPanic PROVE Shows
  OBVIOUS
<1>1. ASSUME NEW l \in LBs, Settled(l), mangled # "cut"
      PROVE  (CHOOSE c \in Outcomes : RecoversTo(l, c)) = acked[l]
  <2>1. RecoversTo(l, acked[l]) /\ acked[l] \in Outcomes
    BY <1>1 DEF SurvivesPanic, Durable, Settled, Outcomes
  <2> QED
    BY <2>1, RecoversToOne
<1> QED
  BY <1>1 DEF Shows, Shown, Disk!dvars

\* each step of NMBM is a step of the disk
LEMMA DiskSteps ==
  ASSUME RequestInv, PanicInv, RequestInv', PanicInv', SurvivesPanic, SurvivesPanic',
         [Alive \/ PanicWrite]_pvars
  PROVE  [Disk!Next]_(Disk!dvars)
<1>1. Shows /\ Shows'
  <2>1. (SurvivesPanic => Shows)'
    BY DiskShown, PTL
  <2> QED
    BY <2>1, DiskShown
<1>2. /\ Shown \in [LBs -> Values \cup {"empty", "unknown"}]
      /\ \A l \in LBs : Shown[l] = IF Settled(l) /\ mangled # "cut" THEN acked[l] ELSE "unknown"
  BY DEF Shown, Settled
<1>3. CASE UNCHANGED <<acked, op, panic, mangled>>
  <2>1. Shown' = Shown
    BY <1>3 DEF Shown, Settled
  <2> QED
    BY <1>1, <1>3, <2>1 DEF Shows
<1>4. CASE PanicWrite
  <2>1. PICK l \in LBs, a \in Values \cup {"unknown"} : acked' = [acked EXCEPT ![l] = a]
    BY <1>4, PanicTells
  <2>2. \/ Shown' \in {[Shown EXCEPT ![l] = c] : c \in Values \cup {"unknown"}}
        \/ Shown' = [k \in LBs |-> "unknown"]
    <3>1. CASE mangled' = "cut"
      BY <3>1 DEF Shown
    <3>2. CASE mangled' # "cut"
      <4>1. mangled # "cut"
        BY <1>4, <3>2, PanicTells
      <4>2. Shown' = [Shown EXCEPT ![l] = a]
        BY <2>1, <3>2, <4>1, ChipAssumption DEF Shown, Settled, RequestInv
      <4> QED
        BY <4>2
    <3> QED
      BY <3>1, <3>2
  <2>3. Disk!Panic
    <3>1. panic' # "no" /\ op'.lb = Unmapped
      BY <1>4, PanicTells DEF NoOp
    <3>2. (\E k \in LBs, c \in Values \cup {"empty", "unknown"} : Shown' = [Shown EXCEPT ![k] = c])
          \/ Shown' = [k \in LBs |-> "unknown"]
      BY <2>2
    <3> QED
      BY <1>1, <3>1, <3>2 DEF Disk!Panic, Shows, Disk!dvars, Disk!NoRequest, Unmapped
  <2> QED
    BY <2>3 DEF Disk!Next
<1>5. CASE Alive /\ Same /\ ~UNCHANGED <<acked, op, panic, mangled>>
  <2>1. panic # "no" /\ panic' = "no" /\ UNCHANGED mangled
    BY <1>5 DEF Alive, Same
  <2>2. Shown' = Shown /\ op'.lb = op.lb
    BY <1>5, <2>1 DEF Shown, Settled, Same
  <2>3. Disk!Reboot
    BY <1>1, <2>1, <2>2 DEF Disk!Reboot, Shows, Disk!dvars
  <2> QED
    BY <2>3 DEF Disk!Next
<1>6. CASE Alive /\ Ends
  <2>1. Shown' = Shown /\ op'.lb = Unmapped /\ panic' \in {"no", panic}
    BY <1>6 DEF Shown, Settled, Ends, Alive, NoOp
  <2>2. op.lb # Unmapped => panic = "no" /\ panic' = "no"
    BY <2>1 DEF PanicInv
  <2>3. Disk!Reboot \/ Disk!Fail \/ UNCHANGED <<Shown, op.lb, panic # "no">>
    BY <1>1, <2>1, <2>2 DEF Disk!Reboot, Disk!Fail, Shows, Disk!dvars, Disk!NoRequest,
      Unmapped
  <2> QED
    BY <1>1, <2>3 DEF Disk!Next, Shows
<1>7. CASE Alive /\ Answers
  <2>1. PICK a \in Values \cup {"empty", "unknown", "bad"} :
          acked' = [acked EXCEPT ![op.lb] = a]
    BY <1>7 DEF Answers
  <2>2. /\ op.lb \in LBs /\ op'.lb = Unmapped /\ op.lb # Unmapped /\ acked[op.lb] = "unknown"
        /\ panic = "no" /\ panic' = "no" /\ mangled' = mangled
    BY <1>7 DEF Answers, RequestInv, PanicInv, Alive, NoOp
  <2>3. Shown' = Shown \/ \E c \in Values \cup {"empty"} : Shown' = [Shown EXCEPT ![op.lb] = c]
    <3>1. CASE a \in {"unknown", "bad"} \/ mangled = "cut"
      BY <2>1, <2>2, <3>1, ChipAssumption DEF Shown, Settled, RequestInv
    <3>2. CASE a \in Values \cup {"empty"} /\ mangled # "cut"
      <4>1. Shown' = [Shown EXCEPT ![op.lb] = a]
        BY <2>1, <2>2, <3>2, ChipAssumption DEF Shown, Settled, RequestInv
      <4> QED
        BY <3>2, <4>1
    <3> QED
      BY <3>1, <3>2
  <2>4. Disk!Fail \/ Disk!Done
    BY <1>1, <2>2, <2>3 DEF Disk!Fail, Disk!Done, Shows, Disk!dvars, Disk!NoRequest,
      Unmapped
  <2> QED
    BY <2>4 DEF Disk!Next
<1>8. CASE Alive /\ Starts
  <2>1. PICK l \in LBs : op'.lb = l /\ acked' = [acked EXCEPT ![l] = "unknown"]
    BY <1>8 DEF Starts
  <2>2. op.lb = Unmapped /\ panic = "no" /\ panic' = "no" /\ mangled' = mangled
    BY <1>8 DEF Starts, RequestInv, PanicInv, Alive, LastUpdate, UpdateLoops
  <2>3. Shown' = [Shown EXCEPT ![l] = "unknown"]
    BY <2>1, <2>2, ChipAssumption DEF Shown, Settled, RequestInv
  <2>4. Disk!Begin(l)
    BY <1>1, <2>1, <2>2, <2>3 DEF Disk!Begin, Shows, Disk!dvars, Disk!NoRequest,
      Unmapped
  <2> QED
    BY <2>4 DEF Disk!Next
<1>9. Alive => Same \/ Ends \/ Answers \/ Starts
  BY NextRequest DEF Alive
<1> QED
  BY <1>3, <1>4, <1>5, <1>6, <1>7, <1>8, <1>9 DEF pvars, vars, ctl, ghost

(* As long as what was acknowledged survives (SurvivesPanic), NMBM implements
   the disk: with power cuts, panics and attaches at every point of every
   procedure, each step changes the block of the request that is being served
   (nmbm_erase_logical_block, nmbm_write_logic_page), the one a panic write is
   for (nmbm_mtd_panic_write), or none.                                      *)
THEOREM DiskWhileDurable == PSpec /\ []SurvivesPanic => ImplementsDisk
<1>1. PInit => Disk!Init
  BY ChipAssumption DEF PInit, Init, Disk!Init, Settled, NoOp, Disk!NoRequest, Unmapped
<1> QED
  BY <1>1, DiskSteps, AlwaysRequest, PTL DEF PSpec, ImplementsDisk, Disk!Spec

-----------------------------------------------------------------------------
(* What a panic comes into the middle of. *)

\* where a request is served: the loops it starts are those of
\* nmbm_update_info_table
ServedIn ==
  op.lb # Unmapped =>
    /\ uret \in {"idle", "e_try", "e_close", "bad"}
    /\ \/ pc \in {"e_try", "e_map", "e_close", "p_try", "bad", "update"} \cup UpdateLoops
       \/ pc \in {"write", "prog", "erase"} /\ rg.ret \in UpdateLoops

(* A panic that came while no table was written or erased leaves everything as
   it is between two requests; after one that stopped a loop the memory and the
   tables agree no more, but the chip is as a power cut leaves it, and nothing
   but another page of the last words follows.                               *)
Sane ==
  /\ TypeOK /\ Laid /\ OnChip /\ SigBlocks # {} /\ Kept
  /\ OneToOne(mp) /\ \A l \in LBs : mp[l] \notin SigBlocks
After == Sane /\ pc = "detached" /\ uret = "idle"
PanicKeeps ==
  mangled = "no" /\ ~stepped /\ ~renewed =>
    /\ SameHome
    /\ IF panic \in {"no", "calm"} THEN IInv /\ Serving /\ Layout /\ Data ELSE After

LEMMA RangeServedIn == RequestInv /\ ServedIn /\ RangeStep => ServedIn'
<1> SUFFICES ASSUME RequestInv, ServedIn, RangeStep PROVE ServedIn'
  OBVIOUS
<1>1. /\ UNCHANGED <<op, uret>> /\ pc \in {"write", "prog", "erase"}
      /\ pc' \in {"write", "prog", "erase", rg.ret}
      /\ rg' = rg \/ \E b : rg' = Moved(rg, b)
  BY DEF Moved, RangeStep, RangeSkip, RangeErase, RangeEraseFails, RangeEnd, Program,
    ProgramFails, RangeLoop
<1>2. rg'.ret = rg.ret
  BY <1>1, RangeMoved DEF RequestInv
<1> QED
  BY <1>1, <1>2 DEF ServedIn, UpdateLoops

LEMMA UpdateServedIn == RequestInv /\ ServedIn /\ UpdateStep => ServedIn'
<1> SUFFICES ASSUME RequestInv, ServedIn, UpdateStep, op'.lb # Unmapped PROVE ServedIn'
  BY DEF ServedIn
<1>1. CASE LoopsOn
  <2>1. /\ UNCHANGED <<op, uret>>
        /\ pc' \in UpdateLoops \cup {"update", "c_map", "write", "erase"}
        /\ pc' = "c_map" => uret = "creating"
    BY <1>1 DEF LoopsOn
  <2>2. UpdateLoops \subseteq RangeReturns
    BY DEF UpdateLoops, RangeReturns
  <2>3. pc' \in {"write", "erase"} => rg'.ret \in UpdateLoops
    BY <1>1, <2>2, RangeMade DEF LoopsOn
  <2> QED
    BY <2>1, <2>3 DEF ServedIn
<1>2. CASE UpdateReturn /\ pc # "idle"
  BY <1>2 DEF UpdateReturn, Return, ResetCtl, NoOp, ctl, ServedIn
<1>3. CASE Forget
  BY <1>3, Resets DEF NoOp
<1> USE DEF ghost, ctl, UpdateLoops
<1>4. UpdateDone \/ RebuildMainFails => (UpdateReturn /\ pc # "idle") \/ Forget
  BY DEF UpdateDone, RebuildMainFails, GiveUp
<1>5. UpdateOnce \/ UpdateBackup \/ UpdateMain \/ UpdateMainRebuilds \/ RescueMain
        \/ RescueMainTmp \/ RescueMainDone \/ RebuildMain \/ RebuildBackup \/ RebuildErased
       => LoopsOn
  BY DEF UpdateOnce, UpdateBackup, UpdateMain,
    UpdateMainRebuilds, RescueMain, RescueMainTmp, RescueMainDone, RebuildMain,
    RebuildBackup, RebuildErased, RebuildReturn,
    WriteRange, EraseRange, StartRebuild, BackupBecomesMain, RetryBelow, LoopsOn,
    NewRange
<1> QED
  BY <1>1, <1>2, <1>3, <1>4, <1>5 DEF UpdateStep

LEMMA NextServedIn == RequestInv /\ ServedIn /\ [Next]_vars => ServedIn'
<1> SUFFICES ASSUME RequestInv, ServedIn, [Next]_vars, op'.lb # Unmapped PROVE ServedIn'
  BY DEF ServedIn
<1>1. CASE LoadStep \/ CreateStep
  <2>1. op.lb = Unmapped
    BY <1>1 DEF ServedIn, UpdateLoops, LoadStep, RescueFront, RescueNext,
      RescueNextLoop,
      RescueNextDone, UpdateSingle, UpdateSingleFails, LoadDone, CreateStep, SigErase,
      SigProgram, SigFails, CreateTables, CreateFails, CreateEnd, CreateDone
  <2>2. op' = op \/ op' = NoOp
    BY <1>1, LoadRunsOn, CreateRunsOn DEF Same, Ends
  <2> QED
    BY <2>1, <2>2 DEF NoOp
<1>2. CASE EraseStep \/ WriteStep \/ OpRefused \/ ReportBad
  <2>1. CASE EraseOk \/ WriteOk \/ OpRefused \/ ReportBad
    BY <2>1, Resets DEF EraseOk, WriteOk, OpRefused, ReportBad, NoOp
  <2>2. CASE EraseRemaps \/ EraseFails
    BY <2>2 DEF EraseRemaps, EraseFails, ctl, ServedIn, UpdateLoops
  <2>3. CASE MapBlock \/ MapBlockNone \/ EraseUnmaps \/ WriteFails
    BY <2>3 DEF MapBlock, MapBlockNone, EraseUnmaps, WriteFails, MapReturn, Update,
      ServedIn,
      UpdateLoops
  <2> QED
    BY <1>2, <2>1, <2>2, <2>3 DEF EraseStep, WriteStep
<1>3. CASE Attach
  BY <1>3, AttachRunsOn DEF Same, RequestInv, Attach, AttachNew, AttachLoad,
    AttachRecreate,
    AttachFails
<1>4. CASE Request
  <2>1. op.lb = Unmapped
    BY <1>4 DEF Request, BeginErase, MarkBlockBad, BeginWrite, BeginDetach, Read,
      Served, RequestInv
  <2>2. uret = "idle"
    BY <1>4 DEF Request, BeginErase, MarkBlockBad, BeginWrite, BeginDetach, Read,
      Served, RequestInv
  <2> QED
    BY <1>4, <2>1, <2>2 DEF Request, BeginErase, MarkBlockBad, BeginWrite, BeginDetach,
      Read,
      vars, ctl, Update, ServedIn
<1>5. CASE EndDetach \/ PowerCut
  BY <1>5, ForgetRunsOn DEF Ends, NoOp
<1>6. CASE UNCHANGED vars
  BY <1>6 DEF vars, ctl, ServedIn
<1> QED
  BY <1>1, <1>2, <1>3, <1>4, <1>5, <1>6, RangeServedIn, UpdateServedIn DEF Next, Run

LEMMA AlwaysServedIn == PSpec => []ServedIn
<1>1. PInit => ServedIn
  BY DEF PInit, Init, ServedIn, NoOp
<1>2. RequestInv /\ PanicInv /\ ServedIn /\ [Alive \/ PanicWrite]_pvars => ServedIn'
  BY NextServedIn, PanicTells DEF Alive, pvars, ServedIn, NoOp
<1> QED
  BY <1>1, <1>2, AlwaysRequest, PTL DEF PSpec

-----------------------------------------------------------------------------
(* A panic write and what it leaves torn. *)

\* the homes of what is known are not what the panic stopped the code writing
LEMMA HomesSafe ==
  ASSUME RequestInv, ServedIn, TypeOK, OneToOne(mp),
         pc = "idle" \/ op.lb # Unmapped \/ pc = "detached",
         RangeLoop \/ pc = "prog" => IInv /\ Layout
  PROVE  /\ \A l \in LBs : Settled(l) /\ mp[l] # Unmapped => mp[l] \notin InFlight
         /\ (\A l \in LBs : mp[l] \notin SigBlocks) => InFlight \cap SigBlocks = {}
         /\ InFlight \subseteq Blocks
<1>1. CASE RangeLoop \/ pc = "prog"
  <2> DEFINE b == IF pc = "prog" THEN rg.ba ELSE Here
  <2>1. InFlight \subseteq {b} \ {None}
    <3>1. pc = "prog" => rg.ba # None
      BY <1>1, Bounds
    <3> QED
      BY <1>1, <3>1 DEF InFlight, RangeLoop
  <2>2. b # None => b \in Blocks /\ b \notin SigBlocks /\ \A l \in LBs : mp[l] # b
    BY <1>1, TouchedApart
  <2> QED
    BY <2>1, <2>2
<1>2. CASE pc \in {"e_try", "p_try"}
  <2>1. op.lb \in LBs /\ acked[op.lb] = "unknown"
    BY <1>2 DEF RequestInv, Asked
  <2>2. ~Settled(op.lb)
    BY <2>1, ChipAssumption DEF Settled
  <2>3. InFlight \subseteq {mp[op.lb]} /\ (InFlight # {} => mp[op.lb] # Unmapped)
    BY <1>2 DEF InFlight, RangeLoop, Usable, Pb
  <2>4. \A l \in LBs : mp[l] \in Blocks \cup {Unmapped}
    BY DEF TypeOK
  <2> QED
    BY <2>1, <2>2, <2>3, <2>4 DEF OneToOne
<1>3. CASE ~(RangeLoop \/ pc = "prog") /\ pc \notin {"e_try", "p_try"}
  <2>1. pc \notin {"sig", "sig_prog"}
    BY DEF ServedIn, UpdateLoops
  <2>2. InFlight = {}
    BY <1>3, <2>1 DEF InFlight
  <2> QED
    BY <2>2
<1> QED
  BY <1>1, <1>2, <1>3

\* what a panic write for logical block l leaves on the chip: new in its home,
\* and a block of F torn
Writes(l, new, F) ==
  \E b \in F \cup {Unmapped} :
    cells' = [x \in Blocks |-> IF x = b THEN Torn
                               ELSE IF x = mp[l] THEN new ELSE cells[x]]

LEMMA WritesType ==
  ASSUME TypeOK, NEW l, NEW new \in Cell, NEW F, Writes(l, new, F)
  PROVE  cells' \in [Blocks -> Cell]
BY CellFacts DEF Writes, TypeOK

LEMMA WritesChip ==
  ASSUME TypeOK, NEW l \in LBs,
         NEW new, new = cells[mp[l]] \/ new.kind \notin {"sig", "table"},
         NEW F, Writes(l, new, F), badmark' = badmark
  PROVE  /\ Tables' \subseteq Tables /\ \A t \in Tables' : cells'[t] = cells[t]
         /\ \A t \in Tables : t # mp[l] /\ t \notin F => t \in Tables'
         /\ (F \cup {mp[l]}) \cap SigBlocks = {} => SigBlocks' = SigBlocks
<1>1. Torn.kind \notin {"sig", "table"}
  BY DEF Torn
<1>2. PICK b \in F \cup {Unmapped} :
        cells' = [x \in Blocks |-> IF x = b THEN Torn
                                   ELSE IF x = mp[l] THEN new ELSE cells[x]]
  BY DEF Writes
<1>3. \A x \in Blocks : \/ cells'[x] = cells[x]
                        \/ (x \in F \/ x = mp[l]) /\ cells'[x].kind \notin {"sig", "table"}
  BY <1>1, <1>2, ChipFacts
<1>4. Tables' \subseteq Tables /\ \A t \in Tables' : cells'[t] = cells[t]
  BY <1>3 DEF Tables
<1>5. \A t \in Tables : t # mp[l] /\ t \notin F => t \in Tables'
  BY <1>3 DEF Tables
<1>6. (F \cup {mp[l]}) \cap SigBlocks = {} => SigBlocks' = SigBlocks
  BY <1>3 DEF SigBlocks
<1> QED
  BY <1>4, <1>5, <1>6

\* what is known of the other blocks, and of this one if new is what it becomes,
\* keeps its home
LEMMA WritesKept ==
  ASSUME TypeOK, Kept, SameHome, OneToOne(mp), Laid, Laid',
         NEW l \in LBs, mp[l] # Unmapped,
         NEW new, new = cells[mp[l]] \/ new.kind \notin {"sig", "table"},
         NEW F, Writes(l, new, F), badmark' = badmark,
         \A k \in LBs : Settled(k) => mp[k] \notin F,
         \A k \in LBs : Settled(k)' => Settled(k),
         \A k \in LBs : k # l /\ Settled(k)' => acked'[k] = acked[k],
         Settled(l)' => Holds(l, new)',
         NEW s, st' = st \/ (st' = [st EXCEPT ![mp[l]] = s] /\ ~Settled(l)'),
         UNCHANGED <<mp, dataCount>>
  PROVE  Kept' /\ SameHome'
<1>1. /\ Tables' \subseteq Tables /\ \A t \in Tables' : cells'[t] = cells[t]
  BY WritesChip
<1>2. SameHome'
  BY <1>1 DEF SameHome, Agreed
<1>3. ASSUME NEW k \in LBs, Settled(k)'
      PROVE  /\ mp[k] \in Blocks \ badmark' /\ st[mp[k]] = "good" /\ k < dataCount
             /\ st'[mp[k]] = "good" /\ Holds(k, cells[mp[k]])'
             /\ \A t \in Tables : cells[t].mp[k] = mp[k] /\ cells[t].st[mp[k]] = "good"
  <2>1. Settled(k)
    BY <1>3
  <2>2. /\ mp[k] \in Blocks \ badmark /\ st[mp[k]] = "good" /\ Holds(k, cells[mp[k]])
        /\ k < dataCount
    BY <2>1 DEF Kept, AtHome
  <2>3. \A t \in Tables : cells[t].mp[k] = mp[k] /\ cells[t].st[mp[k]] = "good"
    BY <2>1 DEF Kept, AtHome, SameHome, Agreed
  <2>4. mp[k] \notin F
    BY <2>1
  <2>5. PICK b \in F \cup {Unmapped} :
          cells' = [x \in Blocks |-> IF x = b THEN Torn
                                     ELSE IF x = mp[l] THEN new ELSE cells[x]]
    BY DEF Writes
  <2>6. CASE k = l
    <3>1. cells'[mp[k]] = new
      BY <2>2, <2>4, <2>5, <2>6, ChipFacts
    <3> QED
      BY <1>3, <2>2, <2>3, <2>6, <3>1 DEF Holds
  <2>7. CASE k # l
    <3>1. mp[k] # mp[l]
      BY <2>2, <2>7 DEF OneToOne
    <3>2. cells'[mp[k]] = cells[mp[k]]
      BY <2>2, <2>4, <2>5, <3>1, ChipFacts
    <3>3. st'[mp[k]] = st[mp[k]]
      BY <3>1, <2>2 DEF TypeOK
    <3>4. Holds(k, cells[mp[k]])'
      BY <1>3, <2>2, <2>7, <3>2 DEF Holds
    <3> QED
      BY <2>2, <2>3, <3>3, <3>4
  <2> QED
    BY <2>6, <2>7
<1>4. Kept'
  <2> SUFFICES ASSUME NEW k \in LBs, Settled(k)'
               PROVE  /\ \A t \in Tables' : AtHome(k, cells[t].mp, cells[t].st)'
                      /\ k < dataCount' /\ AtHome(k, mp, st)'
    BY DEF Kept
  <2> QED
    BY <1>1, <1>3 DEF AtHome
<1> QED
  BY <1>2, <1>4

\* the next page of the last words is for logical block l
PanicOn(l) == PanicFails(l) \/ \E v \in Values : PanicWrites(l, v)

LEMMA CutShortWrites ==
  ASSUME TypeOK, NEW l \in LBs, mp[l] \in Blocks, NEW new,
         cells' \in CutShort([cells EXCEPT ![mp[l]] = new])
  PROVE  Writes(l, new, InFlight)
<1>1. cells \in [Blocks -> Cell]
  BY DEF TypeOK
<1>2. CASE cells' = [cells EXCEPT ![mp[l]] = new]
  <2>1. cells' = [x \in Blocks |-> IF x = Unmapped THEN Torn
                                   ELSE IF x = mp[l] THEN new ELSE cells[x]]
    BY <1>1, <1>2, ChipFacts
  <2> QED
    BY <2>1 DEF Writes
<1>3. ASSUME NEW b \in InFlight, cells' = [[cells EXCEPT ![mp[l]] = new] EXCEPT ![b] = Torn]
      PROVE  Writes(l, new, InFlight)
  <2>1. cells' = [x \in Blocks |-> IF x = b THEN Torn
                                   ELSE IF x = mp[l] THEN new ELSE cells[x]]
    BY <1>1, <1>3
  <2> QED
    BY <2>1 DEF Writes
<1> QED
  BY <1>2, <1>3 DEF CutShort

LEMMA PanicWritten ==
  ASSUME TypeOK, Kept, Laid, NEW l \in LBs, PanicOn(l)
  PROVE  /\ mp[l] \in Blocks /\ UNCHANGED <<badmark, mp, dataCount>>
         /\ \A k \in LBs : Settled(k)' => Settled(k)
         /\ \A k \in LBs : k # l /\ Settled(k)' => acked'[k] = acked[k]
         /\ \E new \in Cell : /\ Writes(l, new, InFlight)
                              /\ new = cells[mp[l]] \/ new.kind \notin {"sig", "table"}
                              /\ Settled(l)' => Holds(l, new)'
         /\ st' = st \/ (st' = [st EXCEPT ![mp[l]] = "remap"] /\ ~Settled(l)')
<1>1. PanicServed(l)
  BY DEF PanicOn, PanicFails, PanicWrites
<1>2. /\ mp[l] \in Blocks /\ UNCHANGED <<badmark, mp, dataCount>>
      /\ acked[l] \in {"empty", "unknown"}
      /\ acked \in [LBs -> Values \cup {"empty", "unknown", "bad"}]
  BY <1>1 DEF PanicServed, attachV, TypeOK
<1>3. CASE PanicFails(l)
  <2>1. acked' = [acked EXCEPT ![l] = "unknown"] /\ st' = [st EXCEPT ![mp[l]] = "remap"]
    BY <1>3 DEF PanicFails, PanicBlock
  <2>2. /\ ~Settled(l)' /\ \A k \in LBs : Settled(k)' => k # l /\ Settled(k)
        /\ \A k \in LBs : k # l => acked'[k] = acked[k]
    BY <1>2, <2>1, ChipAssumption DEF Settled
  <2>3. \/ cells' \in CutShort([cells EXCEPT ![mp[l]] = cells[mp[l]]])
        \/ cells' \in CutShort([cells EXCEPT ![mp[l]] = Torn])
    <3>1. [cells EXCEPT ![mp[l]] = cells[mp[l]]] = cells
      BY <1>2 DEF TypeOK
    <3> QED
      BY <1>3, <3>1 DEF PanicFails, PanicBlock
  <2>4. Writes(l, cells[mp[l]], InFlight) \/ Writes(l, Torn, InFlight)
    BY <1>2, <2>3, CutShortWrites
  <2>5. cells[mp[l]] \in Cell /\ Torn \in Cell /\ Torn.kind \notin {"sig", "table"}
    BY <1>2, CellFacts DEF TypeOK, Torn
  <2> QED
    BY <1>2, <2>1, <2>2, <2>4, <2>5
<1>4. ASSUME NEW v \in Values, PanicWrites(l, v)
      PROVE  /\ \A k \in LBs : Settled(k)' => Settled(k)
             /\ \A k \in LBs : k # l /\ Settled(k)' => acked'[k] = acked[k]
             /\ \E new \in Cell : /\ Writes(l, new, InFlight)
                                  /\ new = cells[mp[l]] \/ new.kind \notin {"sig", "table"}
                                  /\ Settled(l)' => Holds(l, new)'
             /\ st' = st
  <2>1. acked' = [acked EXCEPT ![l] = IF acked[l] = "empty" THEN v ELSE acked[l]] /\ st' = st
    BY <1>4 DEF PanicWrites
  <2>2. /\ \A k \in LBs : k # l => acked'[k] = acked[k]
        /\ Settled(l)' => Settled(l) /\ acked[l] = "empty" /\ acked'[l] = v
    BY <1>2, <2>1, ChipAssumption DEF Settled
  <2>d. PICK data, new : /\ data = [kind |-> "data", lb |-> l, val |-> v]
                         /\ new = IF cells[mp[l]] = Empty THEN data ELSE Torn
    OBVIOUS
  <2>3. Writes(l, new, InFlight)
    <3>1. cells' \in CutShort([cells EXCEPT ![mp[l]] = new])
      BY <1>4, <2>d DEF PanicWrites, PanicBlock
    <3> QED
      BY <1>2, <3>1, CutShortWrites
  <2>4. new \in Cell /\ new.kind \notin {"sig", "table"}
    BY <2>d, CellFacts DEF Torn
  <2>5. Settled(l)' => Holds(l, new)'
    <3> SUFFICES ASSUME Settled(l)' PROVE Holds(l, new)'
      OBVIOUS
    <3>1. cells[mp[l]] = Empty
      BY <2>2 DEF Kept, AtHome, Holds
    <3>2. new = data /\ acked'[l] = v /\ v # "empty"
      BY <2>2, <2>d, <3>1, ChipAssumption
    <3> QED
      BY <2>d, <3>2 DEF Holds
  <2>6. \A k \in LBs : Settled(k)' => Settled(k)
    BY <2>2 DEF Settled
  <2> QED
    BY <2>1, <2>2, <2>3, <2>4, <2>5, <2>6
<1> QED
  BY <1>2, <1>3, <1>4 DEF PanicOn

LEMMA PanicTypes ==
  ASSUME TypeOK, cells' \in [Blocks -> Cell], NEW l \in LBs, PanicOn(l)
  PROVE  /\ TypeOK' /\ got' = None
         /\ pc' \in {"detached", "update"} /\ uret' \in {"idle", "detached"}
<1>1. PanicServed(l)
  BY DEF PanicOn, PanicFails, PanicWrites
<1>2. /\ UNCHANGED <<badmark, layout, mp, cache, attachV, stepped, renewed>>
      /\ crashes' \in 0 .. MaxCrashes /\ mp[l] \in Blocks
  BY <1>1, ChipAssumption DEF PanicServed, TypeOK
<1>3. /\ rg' = NoRange /\ got' = None /\ wba' = None /\ op' = NoOp
      /\ pc' \in {"detached", "update"} /\ uret' \in {"idle", "detached"}
      /\ acked' \in [LBs -> Values \cup {"empty", "unknown", "bad"}]
      /\ st' \in [Blocks -> States] /\ changed' \in BOOLEAN /\ faults' \in 0 .. MaxFaults
  <2>1. CASE PanicFails(l)
    <3>1. changed' \in BOOLEAN
      BY <2>1, Zenon DEF PanicFails, TypeOK
    <3>2. faults' \in 0 .. MaxFaults
      BY <2>1, ChipAssumption DEF PanicFails, TypeOK
    <3>3. /\ rg' = NoRange /\ got' = None /\ wba' = None /\ op' = NoOp
          /\ pc' = "update" /\ uret' = "detached"
          /\ acked' \in [LBs -> Values \cup {"empty", "unknown", "bad"}]
          /\ st' \in [Blocks -> States]
      BY <2>1 DEF PanicFails, TypeOK, States
    <3> QED
      BY <3>1, <3>2, <3>3
  <2>2. ASSUME NEW v \in Values, PanicWrites(l, v)
        PROVE  /\ ResetCtl /\ pc' = "detached" /\ UNCHANGED <<st, changed, faults>>
               /\ acked' \in [LBs -> Values \cup {"empty", "unknown", "bad"}]
    BY <2>2 DEF PanicWrites, TypeOK
  <2> QED
    BY <2>1, <2>2 DEF PanicOn, ResetCtl, TypeOK
<1>4. /\ NoRange \in [ba : 0 .. NB, lim : Blocks, ret : RangeReturns]
      /\ None \in 0 .. NB - 2 /\ None \in Blocks
      /\ NoOp \in [lb : LBs \cup {Unmapped}, val : Values \cup {"none"}]
  BY ChipFacts DEF NoRange, NoOp, None, Blocks, RangeReturns
<1> QED
  BY <1>2, <1>3, <1>4 DEF TypeOK, layout, attachV, Places, RangeReturns, UpdateReturns

LEMMA SaneNow ==
  ASSUME IInv, Layout, Data, Laid PROVE Sane
<1>1. sigBa \in SigBlocks /\ OneToOne(mp) /\ Clear(mp, topBa, sigBa) /\ OnChip
  BY DEF Layout, Remembered
<1>2. \A l \in LBs : mp[l] \notin SigBlocks
  BY <1>1, Bounds DEF OnChip, Clear, IInv, TypeOK
<1> QED
  BY <1>1, <1>2 DEF Sane, IInv, Data

\* a panic write leaves the chip as a power cut does, whatever it stopped
LEMMA PanicSane ==
  ASSUME RequestInv, ServedIn, PanicInv, Sane, SameHome,
         RangeLoop \/ pc = "prog" => IInv /\ Layout, NEW l \in LBs, PanicOn(l)
  PROVE  /\ Sane' /\ SameHome' /\ SigBlocks' = SigBlocks
         /\ Tables' \subseteq Tables /\ \A t \in Tables' : cells'[t] = cells[t]
         /\ \A t \in Tables : t # mp[l] /\ t \notin InFlight => t \in Tables'
<1>1. pc = "idle" \/ op.lb # Unmapped \/ pc = "detached"
  BY DEF PanicOn, PanicFails, PanicWrites, PanicServed
<1>2. /\ \A k \in LBs : Settled(k) /\ mp[k] # Unmapped => mp[k] \notin InFlight
      /\ InFlight \cap SigBlocks = {}
  BY <1>1, HomesSafe DEF Sane
<1>3. /\ mp[l] \in Blocks /\ UNCHANGED <<badmark, mp, dataCount>>
      /\ \A k \in LBs : Settled(k)' => Settled(k)
      /\ \A k \in LBs : k # l /\ Settled(k)' => acked'[k] = acked[k]
      /\ \E new \in Cell : /\ Writes(l, new, InFlight)
                           /\ new = cells[mp[l]] \/ new.kind \notin {"sig", "table"}
                           /\ Settled(l)' => Holds(l, new)'
      /\ st' = st \/ (st' = [st EXCEPT ![mp[l]] = "remap"] /\ ~Settled(l)')
  BY PanicWritten DEF Sane
<1>4. PICK new \in Cell : /\ Writes(l, new, InFlight)
                          /\ new = cells[mp[l]] \/ new.kind \notin {"sig", "table"}
                          /\ Settled(l)' => Holds(l, new)'
  BY <1>3
<1>5. /\ Tables' \subseteq Tables /\ \A t \in Tables' : cells'[t] = cells[t]
      /\ \A t \in Tables : t # mp[l] /\ t \notin InFlight => t \in Tables'
      /\ SigBlocks' = SigBlocks
  BY <1>2, <1>3, <1>4, WritesChip DEF Sane
<1>6. TypeOK' /\ Laid'
  BY <1>4, WritesType, PanicTypes DEF Sane, Laid
<1>7. mp[l] # Unmapped /\ \A k \in LBs : Settled(k) => mp[k] \notin InFlight
  <2>1. \A k \in LBs : Settled(k) => mp[k] \in Blocks
    BY DEF Sane, Kept, AtHome
  <2> QED
    BY <1>2, <1>3, <2>1, ChipFacts
<1>8. Kept' /\ SameHome'
  BY <1>3, <1>4, <1>6, <1>7, WritesKept DEF Sane
<1>9. OnChip'
  BY <1>3, <1>5, FewerTables DEF Sane
<1>10. (OneToOne(mp) /\ \A k \in LBs : mp[k] \notin SigBlocks)'
  BY <1>3, <1>5 DEF Sane, OneToOne
<1> QED
  BY <1>5, <1>6, <1>8, <1>9, <1>10 DEF Sane

-----------------------------------------------------------------------------
(* A panic that stopped no loop. *)

\* nothing of the tables is being written or erased
Calm == pc \in {"idle", "e_try", "e_map", "e_close", "p_try", "bad", "update", "detached"}

LEMMA CalmIsBetween ==
  ASSUME Calm
  PROVE  Laid /\ NoLoop /\ InFlight \subseteq {mp[op.lb]}
         /\ (InFlight # {} => pc \in {"e_try", "p_try"} /\ mp[op.lb] # Unmapped)
BY DEF Calm, Laid, NoLoop, WriteReturns, InFlight, RangeLoop, Usable, Pb

LEMMA CalmInv ==
  ASSUME IInv, Calm, TypeOK', NEW l \in LBs, PanicOn(l)
  PROVE  IInv'
<1>1. PanicServed(l) /\ ~protected /\ UNCHANGED <<layout, attachV>>
  BY DEF PanicOn, PanicFails, PanicWrites, PanicServed
<1>2. got' = None /\ pc' \in {"detached", "update"}
  BY DEF PanicOn, PanicFails, PanicWrites, ResetCtl
<1>3. mainBa # None /\ Laid
  BY <1>1 DEF IInv, TablesKnown, Calm, Laid, Going
<1>4. LocalsOk' /\ RangeInArea'
  BY <1>2 DEF LocalsOk, RangeInArea, Going
<1>5. PlacesInArea' /\ TablesKnown'
  BY <1>1, <1>2, <1>3 DEF IInv, PlacesInArea, TablesKnown, Going, layout, attachV,
    InArea
<1> QED
  BY <1>4, <1>5 DEF IInv

LEMMA CalmKeeps ==
  ASSUME RequestInv, ServedIn, PanicInv, IInv, Serving, Layout, Data, SameHome, Calm,
         NEW l \in LBs, PanicOn(l)
  PROVE  IInv' /\ Serving' /\ Layout' /\ Data' /\ SameHome'
<1>1. /\ Laid /\ NoLoop /\ ~(RangeLoop \/ pc = "prog") /\ InFlight \subseteq {mp[op.lb]}
      /\ InFlight # {} => pc \in {"e_try", "p_try"} /\ mp[op.lb] # Unmapped
  BY CalmIsBetween DEF Calm, RangeLoop
<1>2. PanicServed(l) /\ ~protected
      /\ UNCHANGED <<badmark, mp, cache, mainBa, backupBa, mapBa, topBa, sigBa,
                     dataCount, protected>>
  BY DEF PanicOn, PanicFails, PanicWrites, PanicServed, layout, attachV
<1>3. /\ Sane' /\ SameHome' /\ SigBlocks' = SigBlocks
      /\ Tables' \subseteq Tables /\ \A t \in Tables' : cells'[t] = cells[t]
      /\ \A t \in Tables : t # mp[l] /\ t \notin InFlight => t \in Tables'
  BY <1>1, SaneNow, PanicSane
<1>4. /\ mp[l] # Unmapped /\ mp[l] \in Blocks /\ mp[l] \notin Tables
      /\ ~(MgmtStart <= mp[l] /\ mp[l] <= topBa)
  BY <1>1, <1>2, HomeFacts DEF PanicServed
<1>5. Tables' = Tables
  <2>1. CASE InFlight # {}
    <3>1. op.lb \in LBs
      BY <1>1, <2>1 DEF RequestInv, Asked
    <3>2. mp[op.lb] \notin Tables
      BY <1>1, <2>1, <3>1, HomeFacts
    <3> QED
      BY <1>1, <1>3, <1>4, <3>2
  <2>2. CASE InFlight = {}
    BY <1>3, <1>4, <2>2
  <2> QED
    BY <2>1, <2>2
<1>6. /\ IInv' /\ got' = None /\ op' = NoOp
      /\ \/ pc' = "detached" /\ uret' = "idle" /\ changed' = changed
         \/ pc' = "update" /\ uret' = "detached" /\ (changed => changed')
  <2>1. TypeOK'
    BY <1>3 DEF Sane
  <2> QED
    BY <2>1, CalmInv DEF PanicOn, PanicFails, PanicWrites, ResetCtl
<1>7. st' = st \/ st' = [st EXCEPT ![mp[l]] = "remap"]
  BY DEF PanicOn, PanicFails, PanicWrites, PanicBlock
<1>8. Layout'
  <2>1. Laid' /\ NoLoop'
    BY <1>6 DEF Laid, NoLoop, WriteReturns
  <2>2. /\ Clear(mp', topBa', sigBa) /\ OneToOne(mp') /\ topBa' \in Int
        /\ mapBa <= topBa' /\ topBa' <= topBa
    BY <1>1, <1>2, Bounds DEF Layout, Remembered, Ordered, Clear, OneToOne
  <2>3. Ages(st, st') /\ \A x \in Blocks : MgmtStart <= x /\ x <= topBa => st'[x] = st[x]
    BY <1>4, <1>7 DEF IInv, TypeOK, Ages
  <2> QED
    BY <1>1, <1>2, <1>3, <1>5, <2>1, <2>2, <2>3, Between
<1>9. NewChip' /\ Kept'
  BY <1>3, <1>6 DEF Sane, NewChip, Creating
<1>10. TablesSaved'
  <2>1. \A b \in Tables : cells[b].mp = cache.mp
    BY <1>1, Saved DEF NoLoop, WriteReturns
  <2> QED
    BY <1>2, <1>3, <2>1 DEF TablesSaved
<1>11. CacheSaved'
  <2>1. \A k \in LBs : mp[k] = Unmapped \/ mp[k] = cache.mp[k] \/ changed
    BY <1>1, <1>2 DEF Data, CacheSaved
  <2> QED
    BY <1>2, <1>6, <2>1 DEF CacheSaved
<1>12. Resting' /\ Requested' /\ Serving'
  BY <1>2, <1>6 DEF Resting, Requested, Serving, Erase
<1> QED
  BY <1>3, <1>6, <1>8, <1>9, <1>10, <1>11, <1>12 DEF Data

\* after the last page of a panic that stopped a loop: the machine reboots
LEMMA AfterForgets ==
  ASSUME After, SameHome, Next
  PROVE  IInv' /\ Serving' /\ Layout' /\ Data' /\ SameHome' /\ pc' = "off"
<1>1. pc = "detached" /\ TypeOK /\ OnChip /\ Kept /\ SigBlocks # {}
  BY DEF After, Sane
<1>2. EndDetach \/ PowerCut
  BY <1>1 DEF Next, Run, RangeStep, RangeSkip, RangeErase, RangeEraseFails, RangeEnd,
    Program,
    ProgramFails, RangeLoop, UpdateStep, UpdateDone, UpdateOnce, UpdateBackup,
    UpdateMain,
    UpdateMainRebuilds, RescueMain, RescueMainTmp, RescueMainDone, RebuildMain,
    RebuildMainFails, RebuildBackup, RebuildErased, LoadStep, RescueFront, RescueNext,
    RescueNextLoop, RescueNextDone, UpdateSingle, UpdateSingleFails, LoadDone,
    CreateStep,
    SigErase, SigProgram, SigFails, CreateTables, CreateFails, CreateEnd, CreateDone,
    EraseStep,
    EraseRemaps, EraseOk, EraseFails, MapBlock, MapBlockNone, EraseUnmaps, WriteStep,
    WriteOk,
    WriteFails, OpRefused, ReportBad, Attach, AttachNew, AttachLoad, AttachRecreate,
    AttachFails, Request, BeginErase, MarkBlockBad, BeginWrite, BeginDetach, Read,
    Served
<1>3. InFlight = {}
  BY <1>1 DEF InFlight, RangeLoop
<1>4. /\ UNCHANGED <<cells, badmark, acked, stepped, renewed, faults>> /\ Forget
      /\ crashes' = crashes \/ (crashes < MaxCrashes /\ crashes' = crashes + 1)
  <2>1. {[cells EXCEPT ![b] = Torn] : b \in InFlight} = {}
    BY <1>3
  <2>2. PowerCut => cells' = cells
    BY <2>1 DEF PowerCut
  <2> QED
    BY <1>2, <2>2 DEF EndDetach, PowerCut, chip, ghost, bounds
<1>5. IInv'
  <2>1. crashes' \in 0 .. MaxCrashes
    BY <1>1, <1>4, ChipAssumption DEF TypeOK
  <2> QED
    BY <1>1, <1>4, <2>1, ForgetKeeps DEF TypeOK
<1>6. pc' = "off" /\ uret' = "idle" /\ ~protected' /\ ~Laid' /\ ~Creating'
  BY <1>4 DEF Forget, ResetCtl, Laid, Creating
<1>7. SigBlocks' = SigBlocks /\ Tables' = Tables /\ OnChip'
  BY <1>1, <1>4, SameChip DEF chip
<1>8. Layout'
  BY <1>4, <1>7, ForgetLayout
<1>9. Kept' /\ SameHome'
  BY <1>1, <1>4, <1>6, <1>7 DEF Kept, AtHome, Holds, SameHome, Agreed, Settled
<1>10. NewChip'
  BY <1>1, <1>6, <1>7 DEF NewChip
<1>11. /\ Serving' /\ Resting' /\ TablesSaved' /\ CacheSaved' /\ Requested'
  BY <1>6 DEF Serving, Resting, TablesSaved, CacheSaved, Requested, Erase
<1> QED
  BY <1>5, <1>6, <1>8, <1>9, <1>10, <1>11 DEF Data

-----------------------------------------------------------------------------
(* Nothing is lost. *)

LEMMA SameAfter == After /\ UNCHANGED vars => After'
<1> SUFFICES ASSUME After, UNCHANGED vars PROVE After'
  OBVIOUS
<1> USE DEF vars, chip, layout, table, attachV, ctl, ghost, bounds
<1>1. TypeOK'
  BY DEF After, Sane, TypeOK
<1>2. SigBlocks' = SigBlocks /\ Tables' = Tables /\ OnChip'
  BY SameChip DEF After, Sane
<1>3. Kept' /\ Laid'
  BY <1>2 DEF After, Sane, Kept, AtHome, Holds, Settled, Laid
<1> QED
  BY <1>1, <1>2, <1>3 DEF After, Sane, OneToOne

\* the kernel goes on, as if there were no panics
LEMMA PlainKeeps ==
  ASSUME IInv, Serving, Layout, Data, SameHome, [Next]_vars, ~stepped', ~renewed'
  PROVE  IInv' /\ Serving' /\ Layout' /\ Data' /\ SameHome'
<1>1. ~AttachRecreate
  BY DEF AttachRecreate
<1>2. IInv' /\ LayoutInv'
  BY NextKeeps, NextLayout DEF LayoutInv, Layout
<1>3. Data' /\ SameHome'
  BY <1>1, NextKeepsData, NextHome DEF KeepsData
<1> QED
  BY <1>2, <1>3 DEF LayoutInv, Layout

LEMMA AliveKeeps == PanicInv /\ PanicKeeps /\ Alive => PanicKeeps'
<1> SUFFICES ASSUME PanicInv, PanicKeeps, Alive, mangled = "no", ~stepped', ~renewed'
             PROVE  (SameHome /\ IF panic \in {"no", "calm"}
                                 THEN IInv /\ Serving /\ Layout /\ Data ELSE After)'
  BY DEF PanicKeeps, Alive
<1>1. ~stepped /\ ~renewed /\ Next
  BY SteppedStays, RenewedStays DEF Alive
<1>2. CASE panic \in {"no", "calm"}
  BY <1>1, <1>2, PlainKeeps DEF PanicKeeps, Alive
<1>3. CASE panic \notin {"no", "calm"}
  BY <1>1, <1>3, AfterForgets DEF PanicKeeps, Alive
<1> QED
  BY <1>2, <1>3

\* the panic writes a page of its last words
LEMMA PanicWriteKeeps ==
  RequestInv /\ ServedIn /\ PanicInv /\ PanicKeeps /\ PanicWrite => PanicKeeps'
<1> SUFFICES ASSUME RequestInv, ServedIn, PanicInv, PanicKeeps, PanicWrite,
                    mangled' = "no", ~stepped', ~renewed'
             PROVE  (SameHome /\ IF panic \in {"no", "calm"}
                                 THEN IInv /\ Serving /\ Layout /\ Data ELSE After)'
  BY DEF PanicKeeps
<1>1. PICK l \in LBs : PanicOn(l)
  BY DEF PanicWrite, PanicOn
<1>2. /\ PanicServed(l) /\ ~stepped /\ ~renewed /\ panic' \in {"calm", "busy", "cut"}
      /\ pc = "idle" \/ op.lb # Unmapped \/ pc = "detached"
  <2>1. PanicServed(l) /\ UNCHANGED <<stepped, renewed>>
    BY <1>1 DEF PanicOn, PanicFails, PanicWrites, PanicServed
  <2>2. panic' \in {"calm", "busy", "cut"}
    BY <2>1 DEF PanicServed, PanicInv, Stopped
  <2> QED
    BY <2>1, <2>2 DEF PanicServed
<1>3. /\ mangled = "no"
      /\ panic' # "calm" => pc' = "detached" /\ uret' = "idle"
  BY <1>1, <1>2 DEF PanicOn, PanicFails, PanicWrites, PanicInv, ResetCtl
<1>4. CASE panic \in {"no", "calm"}
  <2>1. IInv /\ Serving /\ Layout /\ Data /\ SameHome
    BY <1>2, <1>3, <1>4 DEF PanicKeeps
  <2>2. CASE panic' = "calm"
    <3>1. Calm
      BY <1>2, <1>4, <2>2
      DEF PanicServed, Stopped, MidUpdate, Writing, Calm, ServedIn, UpdateLoops
    <3> QED
      BY <1>1, <2>1, <2>2, <3>1, CalmKeeps
  <2>3. CASE panic' # "calm"
    <3>1. Laid
      BY <1>2 DEF ServedIn, UpdateLoops, Laid
    <3>2. Sane' /\ SameHome'
      BY <1>1, <2>1, <3>1, SaneNow, PanicSane
    <3> QED
      BY <1>2, <1>3, <2>3, <3>2 DEF After
  <2> QED
    BY <2>2, <2>3
<1>5. CASE panic \notin {"no", "calm"}
  <2>1. After /\ SameHome /\ panic' = panic /\ pc = "detached"
    BY <1>2, <1>3, <1>5 DEF PanicKeeps, PanicServed, After
  <2>2. Sane' /\ SameHome'
    BY <1>1, <2>1, PanicSane DEF After, RangeLoop
  <2> QED
    BY <1>3, <1>5, <2>1, <2>2 DEF After
<1> QED
  BY <1>4, <1>5

LEMMA AlwaysKept == PSpec => []PanicKeeps
<1>1. PInit => PanicKeeps
  <2> SUFFICES ASSUME PInit PROVE PanicKeeps
    OBVIOUS
  <2>1. IInv /\ LayoutInv /\ DataInv /\ panic = "no" /\ ~stepped
    BY InitKeeps, InitLayout, InitData DEF PInit, Init
  <2> QED
    BY <2>1 DEF PanicKeeps, LayoutInv, Layout, DataInv, Data
<1>2. PanicInv /\ PanicKeeps /\ UNCHANGED pvars => PanicKeeps'
  <2> SUFFICES ASSUME PanicInv, PanicKeeps, UNCHANGED pvars PROVE PanicKeeps'
    OBVIOUS
  <2>1. UNCHANGED vars /\ UNCHANGED <<panic, mangled, stepped, renewed>>
    BY DEF pvars, vars, ghost
  <2>2. After => After'
    BY <2>1, SameAfter
  <2>3. PanicKeeps /\ mangled = "no" /\ ~stepped /\ ~renewed /\ After => SameHome'
    BY <2>1 DEF PanicKeeps, SameHome, Agreed, Settled, Tables, Laid, vars, chip, table,
      ghost
  <2> QED
    BY <2>1, <2>2, <2>3, PlainKeeps DEF PanicKeeps
<1>3. RequestInv /\ ServedIn /\ PanicInv /\ PanicKeeps /\ [Alive \/ PanicWrite]_pvars
        => PanicKeeps'
  BY <1>2, AliveKeeps, PanicWriteKeeps
<1> QED
  BY <1>1, <1>3, AlwaysRequest, AlwaysServedIn, PTL DEF PSpec

LEMMA KeptSurvives ==
  PanicKeeps /\ PanicInv /\ ~stepped /\ ~renewed /\ mangled # "resumed" /\ Tables # {}
    => SurvivesPanic
<1> SUFFICES ASSUME PanicKeeps, PanicInv, ~stepped, ~renewed, mangled = "no", Tables # {},
                    NEW l \in LBs, Settled(l)
             PROVE  RecoversTo(l, acked[l])
  BY DEF SurvivesPanic, Durable, PanicInv
<1>1. cells \in [Blocks -> Cell] /\ OnChip /\ Kept
  BY DEF PanicKeeps, After, Sane, IInv, TypeOK, Layout, Data
<1> QED
  BY <1>1, Recovers

(* As long as a table is left on the chip, no spare block was passed over and no
   chip made anew, what was acknowledged survives every panic: nmbm_mtd_panic_write
   takes no lock and writes over what nmbm_mtd_erase, nmbm_mtd_write or
   nmbm_update_info_table were in the middle of, and still the pages it writes go
   to homes that no table and no other block's data share.  (Not for the update
   of the tables that a failing panic write begins in the middle of another.) *)
THEOREM PanicLosesNothing ==
  PSpec => [](mangled # "resumed" /\ ~stepped /\ ~renewed /\ Tables # {} => SurvivesPanic)
BY AlwaysKept, AlwaysRequest, KeptSurvives, PTL

\* a table is left as long as anything is known to be on the chip
TableLeft ==
  /\ mangled # "resumed" /\ ~stepped /\ ~renewed
  /\ (\E l \in LBs : Settled(l)) => Tables # {}

(* With panics and power cuts, whatever nmbm-core.c and nmbm-mtd.c are in the
   middle of, NMBM implements the disk of LogicalDisk as long as a table is left
   (nmbm_update_info_table and nmbm_rebuild_info_table keep one but on a chip
   worn out, see OneTableStays).                                             *)
THEOREM DiskWhileTableLeft == PSpec /\ []TableLeft => ImplementsDisk
<1>1. PanicKeeps /\ PanicInv /\ TableLeft => SurvivesPanic
  BY KeptSurvives DEF TableLeft, SurvivesPanic, Durable
<1> QED
  BY <1>1, AlwaysKept, AlwaysRequest, DiskWhileDurable, PTL
=============================================================================
