-------------------------- MODULE NmbmLayoutProofs --------------------------
(***************************************************************************)
(* LayoutInv is an inductive invariant of Nmbm, for every chip, and what   *)
(* follows from it.                                                        *)
(***************************************************************************)
EXTENDS NmbmProofs, NmbmLayout

\* the parts of LayoutInv
Layout == /\ OnChip /\ Fresh /\ Ordered /\ Remembered
          /\ Looping /\ Ranges /\ Agreeing /\ Placed

\* the numbers among the variables, with the bounds of IInv
LEMMA Bounds ==
  ASSUME IInv
  PROVE  /\ mainBa \in Blocks /\ backupBa \in Blocks /\ mapBa \in Blocks
         /\ topBa \in Blocks /\ sigBa \in Blocks /\ wba \in Blocks
         /\ rg.lim \in Blocks /\ got \in Blocks
         /\ mainBa \in Int /\ backupBa \in Int /\ mapBa \in Int /\ topBa \in Int
         /\ sigBa \in Int /\ wba \in Int /\ rg.lim \in Int /\ got \in Int
         /\ rg.ba \in Int /\ MgmtStart \in Int /\ NB \in Int
         /\ 0 < MgmtStart /\ None = 0
         /\ \A b \in Blocks : b \in Int /\ 0 <= b /\ b < NB
         /\ Laid => MgmtStart <= topBa /\ topBa < sigBa
         /\ got + 1 \in Blocks
         /\ pc \in {"write", "erase", "prog"} => MgmtStart <= rg.ba
BY Numbers, ChipFacts DEF IInv, TypeOK, PlacesInArea, RangeInArea, InArea, None, Blocks

\* the block a loop comes to is the first good one of its range
LEMMA HereIs ==
  ASSUME IInv
  PROVE  /\ Here \in Blocks /\ Here \in Int
         /\ Here # None => /\ rg.ba <= Here /\ Here < rg.lim /\ st[Here] = "good"
         /\ RangeLoop => \A b \in Blocks :
              rg.ba <= b /\ b < rg.lim /\ st[b] = "good" => Here # None /\ Here <= b
<1>1. Here \in Blocks /\ Here \in Int /\ rg.ba \in Int /\ rg.lim \in Int
  BY Bounds, NextGoodIn DEF Here
<1>2. Here # None => rg.ba <= Here /\ Here < rg.lim /\ st[Here] = "good"
  BY <1>1, NextGoodIn DEF Here, GoodIn
<1>3. ASSUME RangeLoop, NEW b \in Blocks, rg.ba <= b, b < rg.lim, st[b] = "good"
      PROVE  Here # None /\ Here <= b
  <2> DEFINE G == GoodIn(st, rg.ba, rg.lim - 1)
  <2>1. b \in G /\ \A c \in G : c \in Nat /\ c >= MgmtStart
    BY <1>1, <1>3, Bounds DEF GoodIn, RangeLoop
  <2>2. G \subseteq Nat /\ G # {} /\ Here = Lowest(G)
    BY <2>1 DEF Here, NextGood
  <2> HIDE DEF G
  <2>3. Here \in G /\ Here <= b
    BY <2>1, <2>2, LowestExists
  <2> QED
    BY <2>1, <2>3, Bounds
<1> QED
  BY <1>1, <1>2, <1>3

\* taking tables off the chip keeps what the others have in common
LEMMA FewerTables ==
  ASSUME OnChip, SigBlocks' = SigBlocks, Tables' \subseteq Tables,
         badmark \subseteq badmark', \A b \in Tables' : cells'[b] = cells[b]
  PROVE  OnChip'
BY DEF OnChip, Compatible, Ages, NoneSound, Sound

LEMMA SameChip ==
  ASSUME UNCHANGED chip
  PROVE  /\ cells' = cells /\ badmark' = badmark
         /\ SigBlocks' = SigBlocks /\ Tables' = Tables
         /\ OnChip => OnChip'
<1>1. cells' = cells /\ badmark' = badmark
  BY DEF chip
<1>2. SigBlocks' = SigBlocks /\ Tables' = Tables
  BY <1>1 DEF SigBlocks, Tables
<1> QED
  BY <1>1, <1>2, FewerTables

\* a mapping that leaves a range to the tables leaves a shorter one to them
LEMMA ClearBelow ==
  ASSUME NEW m \in [LBs -> Blocks \cup {Unmapped}], NEW top \in Int,
         NEW low \in Int, low <= top, NEW sig, Clear(m, top, sig)
  PROVE  Clear(m, low, sig)
<1>1. \A l \in LBs : m[l] \in Int
  BY ChipFacts DEF Unmapped
<1> QED
  BY <1>1 DEF Clear

\* the numbers of the blocks, and a table on the chip
LEMMA ChipTables ==
  ASSUME cells \in [Blocks -> Cell]
  PROVE  /\ \A b \in Tables : b \in Blocks /\ cells[b] \in InfoTable
         /\ MgmtStart \in Int /\ 0 < MgmtStart /\ None = 0 /\ NB \in Int
         /\ \A b \in Blocks : b \in Int /\ 0 <= b /\ b < NB
BY CellFacts, ChipFacts DEF Tables, None

LEMMA TableFacts ==
  ASSUME IInv
  PROVE  /\ cache \in InfoTable /\ \A b \in Tables : cells[b] \in InfoTable
         /\ \A t \in InfoTable : /\ t.mp \in [LBs -> Blocks \cup {Unmapped}]
                                /\ t.wc \in Int /\ t.kind = "table"
BY CellFacts DEF IInv, TypeOK, Tables, InfoTable

-----------------------------------------------------------------------------
(* The steps of a loop over a range. *)

LEMMA LoopFacts ==
  ASSUME IInv, Layout, RangeLoop \/ pc = "prog"
  PROVE  /\ Laid /\ rg.lim <= topBa /\ sigBa \in SigBlocks
         /\ \A s \in SigBlocks : s = sigBa
         /\ Here # None => Here < topBa /\ Here \notin SigBlocks
         /\ pc = "prog" => rg.ba < topBa /\ rg.ba \notin SigBlocks
                           /\ rg.ba \in Blocks
<1>1. Laid /\ rg.lim <= topBa /\ topBa < sigBa
  BY Bounds DEF Layout, Looping, RangeLoop, Laid
<1>2. sigBa \in SigBlocks /\ \A s \in SigBlocks : s = sigBa
  BY <1>1 DEF Layout, Remembered, OnChip
<1>3. Here # None => Here < topBa /\ Here < sigBa
  BY <1>1, HereIs, Bounds
<1>4. pc = "prog" => rg.ba < topBa /\ rg.ba < sigBa
  BY <1>1, Bounds DEF IInv, LocalsOk
<1>5. pc = "prog" => rg.ba \in Blocks
  BY <1>4, Bounds DEF Blocks
<1>6. ~(sigBa < sigBa)
  BY Bounds
<1> QED
  BY <1>1, <1>2, <1>3, <1>4, <1>5, <1>6

\* the erase or program of block b takes nothing off the chip but b
LEMMA OneBlock ==
  ASSUME IInv, NEW b \in Blocks, b \notin SigBlocks, NEW c,
         c.kind # "sig", c.kind # "table", cells' = [cells EXCEPT ![b] = c],
         badmark' = badmark \/ badmark' = badmark \cup {b}
  PROVE  /\ SigBlocks' = SigBlocks /\ Tables' = Tables \ {b}
         /\ \A a \in Tables' : cells'[a] = cells[a]
         /\ OnChip => OnChip'
<1>1. cells \in [Blocks -> Cell]
  BY DEF IInv, TypeOK
<1>2. /\ \A a \in Blocks : cells'[a] = IF a = b THEN c ELSE cells[a]
      /\ badmark \subseteq badmark'
      /\ \A a \in Blocks : a # b => (a \in badmark' <=> a \in badmark)
  BY <1>1
<1>3. SigBlocks' = SigBlocks
  BY <1>2 DEF SigBlocks
<1>4. Tables' = Tables \ {b}
  BY <1>2 DEF Tables
<1>5. \A a \in Tables' : cells'[a] = cells[a]
  BY <1>2, <1>4 DEF Tables
<1> QED
  BY <1>2, <1>3, <1>4, <1>5, FewerTables

LEMMA RangeEraseLayout == IInv /\ Layout /\ RangeErase => Layout'
<1> SUFFICES ASSUME IInv, Layout, RangeErase PROVE Layout'
  OBVIOUS
<1> USE DEF layout, table, attachV, ctl, ghost, bounds
<1>f. /\ RangeLoop /\ Here # None /\ Here \notin badmark
      /\ cells' = [cells EXCEPT ![Here] = Empty] /\ badmark' = badmark
      /\ rg' = [rg EXCEPT !.ba = IF pc = "write" THEN Here ELSE Here + 1]
      /\ pc' = IF pc = "write" THEN "prog" ELSE "erase"
      /\ UNCHANGED <<mainBa, backupBa, mapBa, topBa, sigBa, st, mp, cache, got>>
  BY DEF RangeErase
<1>r. /\ rg.ret' = rg.ret /\ rg.lim' = rg.lim
      /\ rg.ba' = IF pc = "write" THEN Here ELSE Here + 1
      /\ pc \in {"write", "erase"} /\ Laid /\ Laid'
  BY <1>f DEF IInv, TypeOK, RangeLoop, Laid
<1>c. SigBlocks' = SigBlocks /\ Tables' = Tables \ {Here} /\ OnChip'
      /\ \A b \in Tables' : cells'[b] = cells[b]
  BY <1>f, OneBlock, HereIs, LoopFacts DEF Empty, Layout
<1>1. Fresh' /\ Ordered'
  BY <1>f, <1>r DEF Fresh, Ordered, Layout
<1>2. Remembered'
  <2>1. ASSUME NEW b \in Tables' PROVE Follows(b)'
    <3>1. b \in Blocks /\ b \in Tables /\ b # Here /\ Follows(b) /\ cells'[b] = cells[b]
      BY <1>c, <1>r DEF Layout, Remembered, Tables
    <3>2. b \notin Stale
      BY <3>1, <1>r, HereIs, Bounds
      DEF Stale, Follows, Layout, Ranges, Ordered, Going, RangeLoop, IInv,
          TablesKnown
    <3> QED
      BY <3>1, <3>2, <1>f DEF Follows, Clear, Sound, Ages
  <2> QED
    BY <2>1, <1>f, <1>r, <1>c
    DEF Layout, Remembered, Clear, NoneSound, Sound, Going, Ages
<1>3. Looping'
  BY <1>f, <1>r, HereIs DEF Layout, Looping, Sound, WriteReturns, EraseReturns, IInv, TypeOK
<1>4. Ranges'
  BY <1>f, <1>r, HereIs, Bounds
  DEF Layout, Ranges, Going, Passing, UpTo, NoneSound, Sound, RangeLoop
<1>5. Agreeing' /\ Placed'
  BY <1>f, <1>r, <1>c DEF Layout, Agreeing, Placed, Going, WriteReturns
<1> QED
  BY <1>c, <1>1, <1>2, <1>3, <1>4, <1>5 DEF Layout

LEMMA RangeSkipLayout == IInv /\ Layout /\ RangeSkip => Layout'
<1> SUFFICES ASSUME IInv, Layout, RangeSkip PROVE Layout'
  OBVIOUS
<1> USE DEF layout, table, attachV, ctl, ghost, bounds
<1>f. /\ RangeLoop /\ Here # None /\ Here \in badmark
      /\ st' = [st EXCEPT ![Here] = "bad"] /\ rg' = [rg EXCEPT !.ba = Here + 1]
      /\ UNCHANGED <<chip, mainBa, backupBa, mapBa, topBa, sigBa, mp, cache, got, pc>>
  BY DEF RangeSkip
<1>r. /\ rg.ret' = rg.ret /\ rg.lim' = rg.lim /\ rg.ba' = Here + 1
      /\ \A b \in Blocks : st'[b] = IF b = Here THEN "bad" ELSE st[b]
      /\ pc \in {"write", "erase"} /\ Laid /\ Laid'
  BY <1>f DEF IInv, TypeOK, RangeLoop, Laid
<1>c. /\ cells' = cells /\ badmark' = badmark
      /\ SigBlocks' = SigBlocks /\ Tables' = Tables /\ OnChip'
      /\ \A b \in Tables : b \in Blocks /\ b # Here
  BY <1>f, SameChip DEF Layout, Tables
<1>1. Fresh' /\ Ordered'
  BY <1>f, <1>r DEF Fresh, Ordered, Layout
<1>2. Remembered'
  <2>1. ASSUME NEW b \in Tables PROVE Follows(b)'
    <3>1. b \in Blocks /\ b # Here /\ Follows(b)
      BY <1>c, <1>r DEF Layout, Remembered
    <3>2. b \notin Stale
      BY <3>1, <1>r, HereIs, Bounds
      DEF Stale, Follows, Layout, Ranges, Ordered, Going, RangeLoop, IInv,
          TablesKnown
    <3> QED
      BY <3>1, <3>2, <1>f, <1>r, <1>c DEF Follows, Clear, Sound, Ages
  <2> QED
    BY <2>1, <1>f, <1>r, <1>c
    DEF Layout, Remembered, Clear, NoneSound, Sound, Going, Ages
<1>3. Looping'
  BY <1>f, <1>r DEF Layout, Looping, WriteReturns
<1>4. Ranges'
  BY <1>f, <1>r, <1>c, HereIs, Bounds
  DEF Layout, Ranges, Going, Passing, UpTo, NoneSound, Sound, RangeLoop
<1>5. Agreeing' /\ Placed'
  BY <1>f, <1>r, <1>c DEF Layout, Agreeing, Placed, Going, WriteReturns
<1> QED
  BY <1>c, <1>1, <1>2, <1>3, <1>4, <1>5 DEF Layout

LEMMA RangeEraseFailsLayout == IInv /\ Layout /\ RangeEraseFails => Layout'
<1> SUFFICES ASSUME IInv, Layout, RangeEraseFails PROVE Layout'
  OBVIOUS
<1> USE DEF layout, table, attachV, ctl, ghost, bounds
<1>f. /\ RangeLoop /\ Here # None /\ Here \notin badmark
      /\ cells' = [cells EXCEPT ![Here] = Torn] /\ badmark' = badmark \cup {Here}
      /\ st' = [st EXCEPT ![Here] = "bad"] /\ rg' = [rg EXCEPT !.ba = Here + 1]
      /\ UNCHANGED <<mainBa, backupBa, mapBa, topBa, sigBa, mp, cache, got, pc>>
  BY DEF RangeEraseFails, Fails
<1>r. /\ rg.ret' = rg.ret /\ rg.lim' = rg.lim /\ rg.ba' = Here + 1
      /\ \A b \in Blocks : st'[b] = IF b = Here THEN "bad" ELSE st[b]
      /\ pc \in {"write", "erase"} /\ Laid /\ Laid'
  BY <1>f DEF IInv, TypeOK, RangeLoop, Laid
<1>c. SigBlocks' = SigBlocks /\ Tables' = Tables \ {Here} /\ OnChip'
      /\ \A b \in Tables' : b \in Blocks /\ cells'[b] = cells[b]
  BY <1>f, OneBlock, HereIs, LoopFacts DEF Torn, Layout, Tables
<1>1. Fresh' /\ Ordered'
  BY <1>f, <1>r DEF Fresh, Ordered, Layout
<1>2. Remembered'
  <2>1. ASSUME NEW b \in Tables' PROVE Follows(b)'
    <3>1. b \in Blocks /\ b \in Tables /\ b # Here /\ Follows(b) /\ cells'[b] = cells[b]
      BY <1>c, <1>r DEF Layout, Remembered
    <3>2. b \notin Stale
      BY <3>1, <1>r, HereIs, Bounds
      DEF Stale, Follows, Layout, Ranges, Ordered, Going, RangeLoop, IInv,
          TablesKnown
    <3> QED
      BY <3>1, <3>2, <1>f, <1>r, <1>c DEF Follows, Clear, Sound, Ages
  <2> QED
    BY <2>1, <1>f, <1>r, <1>c
    DEF Layout, Remembered, Clear, NoneSound, Sound, Going, Ages
<1>3. Looping'
  BY <1>f, <1>r DEF Layout, Looping, WriteReturns
<1>4. Ranges'
  BY <1>f, <1>r, <1>c, HereIs, Bounds
  DEF Layout, Ranges, Going, Passing, UpTo, NoneSound, Sound, RangeLoop
<1>5. Agreeing' /\ Placed'
  BY <1>f, <1>r, <1>c DEF Layout, Agreeing, Placed, Going, WriteReturns
<1> QED
  BY <1>c, <1>1, <1>2, <1>3, <1>4, <1>5 DEF Layout

LEMMA RangeEndLayout == IInv /\ Layout /\ RangeEnd => Layout'
<1> SUFFICES ASSUME IInv, Layout, RangeEnd PROVE Layout'
  OBVIOUS
<1> USE DEF layout, table, attachV, ctl, ghost, bounds
<1>f. /\ RangeLoop /\ Here = None /\ pc' = rg.ret
      /\ got' = IF pc = "write" THEN None ELSE got
      /\ UNCHANGED <<chip, mainBa, backupBa, mapBa, topBa, sigBa, st, mp, cache, rg>>
  BY DEF RangeEnd
<1>r. /\ pc \in {"write", "erase"} /\ Laid
      /\ IF pc = "write" THEN rg.ret \in WriteReturns ELSE rg.ret \in EraseReturns
  BY <1>f DEF Layout, Looping, RangeLoop, Laid
<1>p. /\ Laid'
      /\ \A p \in WriteReturns \cup EraseReturns : Going(p)' <=> rg.ret = p
      /\ \A p \in WriteReturns \cup EraseReturns : Going(p) <=> rg.ret = p
  BY <1>f, <1>r DEF Laid, Going, WriteReturns, EraseReturns
<1>c. /\ cells' = cells /\ badmark' = badmark
      /\ SigBlocks' = SigBlocks /\ Tables' = Tables /\ OnChip'
  BY <1>f, SameChip DEF Layout
<1>n. \A lo \in Int : NoneSound(st, lo, rg.ba) => NoneSound(st, lo, rg.lim)
  BY <1>f, HereIs, Bounds DEF NoneSound, Sound
<1>1. Fresh' /\ Ordered'
  BY <1>f, <1>r DEF Fresh, Ordered, Layout, Laid, WriteReturns, EraseReturns
<1>2. Remembered'
  <2>1. ASSUME NEW b \in Tables PROVE Follows(b)'
    <3>1. b \in Blocks /\ Follows(b)
      BY <1>r DEF Layout, Remembered, Tables
    <3>2. b \notin Stale
      BY <3>1, <1>f, <1>r, HereIs, Bounds
      DEF Stale, Follows, Layout, Ranges, Ordered, Going, RangeLoop, IInv,
          TablesKnown
    <3> QED
      BY <3>1, <3>2, <1>f, <1>c DEF Follows, Clear, Sound, Ages
  <2> QED
    BY <2>1, <1>f, <1>r, <1>c, <1>p
    DEF Layout, Remembered, Clear, NoneSound, Sound, WriteReturns, Ages
<1>3. Looping'
  BY <1>f, <1>r, <1>c, <1>p DEF Layout, Looping, WriteReturns, EraseReturns
<1>4. Ranges'
  <2>1. pc = "write" => UpTo = rg.ba /\ UpTo' = rg.lim
    BY <1>f, <1>r DEF UpTo, WriteReturns
  <2>2. \A lo \in Int : pc = "write" /\ Passing(lo) =>
                          lo <= rg.ba /\ NoneSound(st, lo, rg.lim)
    BY <2>1, <1>n DEF Passing
  <2>3. \A p \in WriteReturns : Going(p)' => pc = "write"
    BY <1>r, <1>p DEF WriteReturns, EraseReturns
  <2>4. NoneSound(st, backupBa, rg.lim)' <=> NoneSound(st, backupBa, rg.lim)
    BY <1>f, <1>c DEF NoneSound, Sound
  <2>5. \A p \in {"up_backup", "us_backup"} :
          Going(p)' => rg.lim' = topBa' /\ Passing(backupBa)'
    <3> SUFFICES ASSUME NEW p \in {"up_backup", "us_backup"}, Going(p)'
                 PROVE  rg.lim' = topBa' /\ Passing(backupBa)'
      OBVIOUS
    <3>1. pc = "write" /\ Going(p)
      BY <1>p, <2>3 DEF WriteReturns
    <3>2. rg.lim = topBa /\ Passing(backupBa)
      BY <3>1 DEF Layout, Ranges
    <3> QED
      BY <1>f, <2>1, <2>2, <2>4, <3>1, <3>2, Bounds DEF Passing
  <2> QED
    BY <1>f, <1>r, <1>c, <1>p, <2>1, <2>2, <2>3, <2>5, Bounds
    DEF Layout, Ranges, NoneSound, Sound, WriteReturns, EraseReturns, Passing
<1>5. Agreeing' /\ Placed'
  BY <1>f, <1>r, <1>c, <1>p DEF Layout, Agreeing, Placed, WriteReturns, EraseReturns
<1> QED
  BY <1>c, <1>1, <1>2, <1>3, <1>4, <1>5 DEF Layout

(* A table is written to block rg.ba.  At most one other table is left then:  *)
(* the other copy, or the temporary one of nmbm_rescue_main_info_table.       *)
OtherTable ==
  CASE rg.ret \in {"up_backup", "us_backup", "rb_backup", "rs_next", "rs_front"} -> mainBa
    [] rg.ret \in {"up_main", "us_main", "rm_tmp"} -> backupBa
    [] rg.ret = "rm_main" -> rg.lim
    [] OTHER -> None

LEMMA ProgramAlone ==
  ASSUME IInv, Layout, pc = "prog"
  PROVE  /\ rg.ba \in Blocks /\ rg.ba \notin Tables /\ rg.ba < topBa /\ MgmtStart <= rg.ba
         /\ \A b \in Tables : b = OtherTable /\ MgmtStart <= b /\ b < topBa
<1>1. /\ Laid /\ rg.ba \in Blocks /\ rg.ba < topBa /\ MgmtStart <= rg.ba
      /\ cells[rg.ba] = Empty /\ Sound(st, rg.ba) /\ rg.ret \in WriteReturns
      /\ rg.lim <= topBa /\ sigBa \in SigBlocks
  BY LoopFacts, Bounds DEF Layout, Looping
<1>2. rg.ba \notin Tables
  BY <1>1 DEF Tables, Empty
<1>3. ASSUME NEW b \in Tables PROVE b = OtherTable /\ MgmtStart <= b /\ b < topBa
  <2>1. b \in Blocks /\ b # rg.ba /\ MgmtStart <= b /\ b # None
    BY <1>1, <1>2, Bounds DEF Layout, OnChip, Tables
  <2>2. Sound(st, b)
    BY <1>1 DEF Layout, Remembered, Follows, Sound, Tables
  <2>3. b = mainBa \/ b = backupBa \/ (b = rg.lim /\ rg.ret = "rm_main")
    BY <1>1 DEF Layout, Placed, Going, WriteReturns, Looping
  <2>4. \A lo \in Int : Passing(lo) => b < lo \/ rg.ba < b
    BY <2>1, <2>2, Bounds DEF Passing, UpTo, NoneSound
  <2>5. \A p \in WriteReturns : Going(p) <=> rg.ret = p
    BY DEF Going, WriteReturns
  <2>6. ~Going("rs_front") => NoneSound(st, MgmtStart, mainBa)
    BY <1>1 DEF Layout, Remembered
  <2>7. Ordered /\ Ranges
    BY DEF Layout
  <2>8. b = OtherTable
    <3>1. CASE rg.ret \in {"up_backup", "us_backup"}
      <4>1. Passing(backupBa) /\ backupBa <= rg.ba /\ rg.lim = topBa
        BY <3>1, <2>5, <2>7 DEF Ranges, Passing, WriteReturns
      <4>2. b # backupBa
        BY <4>1, <2>1, <2>4, Bounds
      <4> QED
        BY <3>1, <4>2, <2>3 DEF OtherTable
    <3>2. CASE rg.ret \in {"up_main", "us_main"}
      <4>1. Passing(mainBa) /\ mainBa <= rg.ba
        BY <3>2, <2>5, <2>7 DEF Ranges, Passing, WriteReturns
      <4>2. b # mainBa
        BY <4>1, <2>1, <2>4, Bounds
      <4> QED
        BY <3>2, <4>2, <2>3 DEF OtherTable
    <3>3. CASE rg.ret \in {"rm_tmp", "rm_main"}
      <4>1. NoneSound(st, MgmtStart, backupBa) /\ backupBa # None
        BY <3>3, <2>5, <2>7 DEF Ranges, WriteReturns, IInv, TablesKnown
      <4>2. mainBa < backupBa
        BY <1>1, <4>1, <2>7 DEF Ordered
      <4>3. b # mainBa
        BY <4>1, <4>2, <2>1, <2>2 DEF NoneSound
      <4>4. CASE rg.ret = "rm_main"
        <5>1. backupBa <= rg.ba
          BY <1>1, <4>1, Bounds DEF NoneSound
        <5>2. Passing(MgmtStart)
          BY <4>4, <2>5, <2>7 DEF Ranges, WriteReturns
        <5>3. b # backupBa
          BY <5>1, <5>2, <2>1, <2>4, Bounds
        <5> QED
          BY <4>3, <4>4, <5>3, <2>3 DEF OtherTable
      <4> QED
        BY <3>3, <4>3, <4>4, <2>3 DEF OtherTable
    <3>4. CASE rg.ret = "rb_main"
      BY <3>4, <2>1, <2>3, <2>5, <2>7 DEF Ranges, WriteReturns
    <3>5. CASE rg.ret \in {"rb_backup", "rs_next", "rs_front"}
      BY <3>5, <2>1, <2>3, <2>5, <2>7 DEF Ranges, OtherTable, WriteReturns
    <3> QED
      BY <3>1, <3>2, <3>3, <3>4, <3>5, <1>1 DEF WriteReturns
  <2>9. b < topBa
    <3>1. mainBa < topBa /\ (backupBa # None => backupBa < topBa)
      BY <1>1, <2>7, Bounds DEF Ordered
    <3>2. b = rg.lim /\ rg.ret = "rm_main" => b < topBa
      BY <1>1, <2>5, <2>7, Bounds DEF Ranges, Ordered, WriteReturns
    <3> QED
      BY <2>1, <2>3, <3>1, <3>2
  <2> QED
    BY <2>1, <2>8, <2>9
<1> QED
  BY <1>1, <1>2, <1>3

\* in front of both no block is left for a third
LEMMA ProgramLowest ==
  ASSUME IInv, Layout, pc = "prog", NEW b \in Tables,
         NEW low \in Int, low <= rg.ba, low <= b
  PROVE  NoneSound(cache.st, MgmtStart, low) /\ NoneSound(cells[b].st, MgmtStart, low)
<1>1. /\ b = OtherTable /\ b \in Blocks /\ b # None /\ b < topBa /\ rg.ba < topBa
      /\ rg.ret \in WriteReturns /\ Laid
      /\ \A p \in WriteReturns : Going(p) <=> rg.ret = p
      /\ rg.ba < rg.lim
  BY ProgramAlone, Bounds DEF Tables, Going, WriteReturns, Layout, Looping, Laid, IInv, LocalsOk
<1>2. Ranges /\ Remembered /\ Agreeing
  BY DEF Layout
<1>3. NoneSound(st, MgmtStart, low)
  <2>1. ~Going("rs_front") => NoneSound(st, MgmtStart, mainBa)
    BY <1>1, <1>2 DEF Remembered
  <2>2. CASE rg.ret \in {"up_backup", "us_backup", "rb_backup", "rs_next"}
    BY <2>1, <2>2, <1>1, Bounds DEF OtherTable, NoneSound, WriteReturns
  <2>3. CASE rg.ret \in {"up_main", "us_main"}
    <3>1. NoneSound(st, MgmtStart, mainBa) /\ NoneSound(st, mainBa, rg.ba)
      BY <2>1, <2>3, <1>1, <1>2 DEF WriteReturns, Ranges, Passing, UpTo
    <3> QED
      BY <3>1, Bounds DEF NoneSound
  <2>4. CASE rg.ret \in {"rs_front", "rm_main"}
    BY <2>4, <1>1, <1>2, Bounds DEF WriteReturns, Ranges, Passing, UpTo, NoneSound
  <2>5. CASE rg.ret = "rm_tmp"
    BY <2>5, <1>1, <1>2, Bounds DEF WriteReturns, Ranges, NoneSound, OtherTable
  <2>6. rg.ret # "rb_main"
    BY <1>1 DEF OtherTable
  <2> QED
    BY <2>2, <2>3, <2>4, <2>5, <2>6, <1>1 DEF WriteReturns
<1>4. NoneSound(cache.st, MgmtStart, low)
  BY <1>1, <1>2, <1>3, Bounds DEF Remembered, NoneSound
<1>5. NoneSound(cells[b].st, MgmtStart, low)
  <2>1. CASE b = mainBa
    BY <2>1, <1>1, <1>2, <1>3, Bounds DEF Remembered, Follows, NoneSound
  <2>2. CASE b # mainBa
    <3>1. cells[b].st = cache.st
      BY <2>2, <1>1, <1>2 DEF OtherTable, Agreeing, WriteReturns
    <3> QED
      BY <3>1, <1>4
  <2> QED
    BY <2>1, <2>2
<1> QED
  BY <1>4, <1>5

LEMMA ProgramLayout == IInv /\ Layout /\ Program => Layout'
<1> SUFFICES ASSUME IInv, Layout, Program PROVE Layout'
  OBVIOUS
<1> USE DEF layout, table, attachV, ctl, ghost, bounds
<1>0. PICK n : n = rg.ba
  OBVIOUS
<1>f. /\ pc = "prog" /\ cells' = [cells EXCEPT ![rg.ba] = cache] /\ badmark' = badmark
      /\ got' = rg.ba /\ pc' = rg.ret
      /\ UNCHANGED <<mainBa, backupBa, mapBa, topBa, sigBa, st, mp, cache, rg>>
  BY DEF Program
<1>r. /\ rg.ret \in WriteReturns /\ Laid /\ Laid' /\ cache.kind = "table"
      /\ \A p \in WriteReturns : Going(p) <=> rg.ret = p
      /\ \A p \in WriteReturns : Going(p)' <=> rg.ret = p
      /\ ~Going("rs_erased")
  BY <1>f DEF Layout, Looping, Laid, WriteReturns, Going, IInv, TypeOK, InfoTable
<1>n. /\ n \in Blocks /\ n \notin Tables /\ n < topBa /\ MgmtStart <= n /\ n # None
      /\ n = rg.ba /\ Sound(st, n) /\ n < rg.lim /\ n \notin SigBlocks /\ sigBa \in SigBlocks
      /\ \A s \in SigBlocks : s = sigBa
  BY <1>0, <1>f, ProgramAlone, LoopFacts, Bounds DEF IInv, LocalsOk, Layout, Looping
<1>c. /\ SigBlocks' = SigBlocks /\ Tables' = Tables \cup {n}
      /\ cells'[n] = cache /\ \A b \in Tables : b # n /\ b \in Blocks /\ cells'[b] = cells[b]
  <2>1. \A b \in Blocks : cells'[b] = IF b = n THEN cache ELSE cells[b]
    BY <1>f, <1>n DEF IInv, TypeOK
  <2>2. SigBlocks' = SigBlocks
    BY <2>1, <1>f, <1>n, <1>r DEF SigBlocks
  <2>3. Tables' = Tables \cup {n}
    BY <2>1, <1>f, <1>n, <1>r DEF Tables, Sound
  <2> QED
    BY <2>1, <2>2, <2>3, <1>n DEF Tables
<1>m. /\ Clear(cache.mp, topBa, sigBa) /\ OneToOne(cache.mp)
      /\ Ages(cache.st, st)
      /\ \A x \in Blocks : MgmtStart <= x /\ x <= topBa =>
           (Sound(cache.st, x) <=> Sound(st, x))
      /\ \A b \in Tables : Follows(b) /\ Clear(cells[b].mp, topBa, sigBa)
  BY <1>f, <1>r DEF Layout, Remembered, Follows, Stale
<1>b. /\ topBa < sigBa
      /\ \A b \in Tables : MgmtStart <= b /\ b < topBa /\ b = OtherTable
  BY <1>f, <1>r, ProgramAlone, Bounds
<1>1. OnChip'
  <2>1. \A b \in Tables', s \in SigBlocks' : MgmtStart <= b /\ b + 1 < s
    BY <1>n, <1>c, <1>b, Bounds DEF Layout, OnChip
  <2>2. \A a, b \in Tables : Compatible(a, b)'
    BY <1>f, <1>c DEF Layout, OnChip, Compatible, NoneSound, Sound
  <2>3. ASSUME NEW b \in Tables PROVE Compatible(b, n)'
    <3>1. cells[b].st[n] = "good"
      BY <1>m, <1>n, <2>3 DEF Follows, Ages, Sound
    <3>2. Compatible(b, b) /\ Clear(cells[b].mp, n + 1, sigBa)
      BY <1>m, <1>n, <2>3, Bounds, TableFacts, ClearBelow DEF Layout, OnChip
    <3>3. cells[b].wc = cache.wc => cells[b] = cache
      BY <1>m, <2>3 DEF Follows
    <3>4. cells[b].wc <= cache.wc => Ages(cells[b].st, cache.st)
      BY <1>m, <2>3 DEF Follows
    <3>5. b < n => /\ NoneSound(cells[b].st, MgmtStart, b)
                   /\ NoneSound(cache.st, MgmtStart, b)
      BY <1>f, <1>n, <2>3, <1>c, ProgramLowest, Bounds
    <3> QED
      BY <1>f, <1>c, <1>n, <2>3, <3>1, <3>2, <3>3, <3>4, <3>5
      DEF Compatible, NoneSound, Sound, OneToOne, Clear, Ages
  <2>4. ASSUME NEW b \in Tables PROVE Compatible(n, b)'
    <3>1. cache.st[b] = "good"
      BY <1>m, <1>b, <1>c, <2>4 DEF Follows, Ages, Sound
    <3>2. Clear(cache.mp, b + 1, sigBa)
      BY <1>m, <1>b, <1>c, <2>4, Bounds, TableFacts, ClearBelow
    <3>3. cells[b].wc = cache.wc => cells[b] = cache
      BY <1>m, <2>4 DEF Follows
    <3>4. cache.wc <= cells[b].wc => cells[b] = cache
      <4>1. cells[b].wc <= cache.wc /\ cache.wc \in Int /\ cells[b].wc \in Int
        BY <1>m, <1>c, <2>4, CellFacts DEF Follows, IInv, TypeOK, InfoTable, Tables
      <4> QED
        BY <3>3, <4>1
    <3>5. n < b => /\ NoneSound(cells[b].st, MgmtStart, n)
                   /\ NoneSound(cache.st, MgmtStart, n)
      BY <1>f, <1>n, <2>4, <1>c, ProgramLowest, Bounds
    <3> QED
      BY <1>f, <1>c, <1>n, <1>m, <2>4, <3>1, <3>2, <3>3, <3>4, <3>5
      DEF Compatible, NoneSound, Sound, OneToOne, Clear, Ages
  <2>5. Compatible(n, n)'
    <3>1. cache.st[n] = "good" /\ Clear(cache.mp, n + 1, sigBa)
      BY <1>m, <1>n, Bounds, TableFacts, ClearBelow DEF Ages, Sound
    <3> QED
      BY <1>c, <1>f, <1>m, <1>n, <3>1, Bounds DEF Compatible, Ages, Clear, OneToOne
  <2>6. \A a, b \in Tables' : Compatible(a, b)'
    BY <1>c, <2>2, <2>3, <2>4, <2>5
  <2>7. \A a, b, c \in Tables' : a = b \/ b = c \/ a = c
    BY <1>c, <1>b
  <2>8. /\ \A s, t \in SigBlocks' : s = t
        /\ Tables' # {} => SigBlocks' # {}
    BY <1>c, <1>n
  <2> QED
    BY <2>1, <2>6, <2>7, <2>8 DEF OnChip
<1>2. Fresh' /\ Ordered'
  BY <1>f, <1>r DEF Fresh, Ordered, Layout, WriteReturns
<1>3. Remembered'
  <2>1. ASSUME NEW b \in Tables PROVE Follows(b)'
    BY <1>f, <1>c, <1>m, <2>1 DEF Follows, Clear, Sound, Ages
  <2>2. Follows(n)'
    <3>1. \A x \in Blocks : MgmtStart <= x /\ x < mainBa /\ Sound(cache.st, x) => Sound(st, x)
      BY <1>m, <1>r, Bounds DEF Layout, Ordered
    <3> QED
      BY <1>f, <1>c, <1>m, <1>n, <3>1 DEF Follows, Clear, Sound, Ages, IInv, TypeOK, InfoTable
  <2> QED
    BY <2>1, <2>2, <1>c, <1>f, <1>r
    DEF Layout, Remembered, Clear, NoneSound, Sound, Ages, WriteReturns
<1>4. Looping'
  BY <1>f, <1>r, <1>c, <1>n DEF Layout, Looping, WriteReturns
<1>5. Ranges'
  BY <1>f, <1>r, <1>n DEF Layout, Ranges, Passing, UpTo, NoneSound, Sound, WriteReturns, Going
<1>6. Agreeing' /\ Placed'
  BY <1>f, <1>r, <1>c, <1>n DEF Layout, Agreeing, Placed, WriteReturns
<1> QED
  BY <1>1, <1>2, <1>3, <1>4, <1>5, <1>6 DEF Layout

LEMMA ProgramFailsLayout == IInv /\ Layout /\ ProgramFails => Layout'
<1> SUFFICES ASSUME IInv, Layout, ProgramFails PROVE Layout'
  OBVIOUS
<1> USE DEF layout, table, attachV, ctl, ghost, bounds
<1>n. /\ pc = "prog" /\ rg.ba \in Blocks /\ rg.ba \notin Tables /\ rg.ba \notin SigBlocks
      /\ MgmtStart <= rg.ba /\ rg.ba \in Int
  BY ProgramAlone, LoopFacts, Bounds DEF ProgramFails
<1>f. /\ cells' = [cells EXCEPT ![rg.ba] = Torn] /\ badmark' = badmark \cup {rg.ba}
      /\ st' = [st EXCEPT ![rg.ba] = "bad"] /\ rg' = [rg EXCEPT !.ba = rg.ba + 1]
      /\ pc' = "write"
      /\ UNCHANGED <<mainBa, backupBa, mapBa, topBa, sigBa, mp, cache, got>>
  BY DEF ProgramFails, Fails
<1>r. /\ rg.ret' = rg.ret /\ rg.lim' = rg.lim /\ rg.ba' = rg.ba + 1
      /\ \A b \in Blocks : st'[b] = IF b = rg.ba THEN "bad" ELSE st[b]
      /\ Laid /\ Laid' /\ rg.ret \in WriteReturns
  BY <1>f, <1>n DEF IInv, TypeOK, Laid, Layout, Looping
<1>c. /\ SigBlocks' = SigBlocks /\ Tables' = Tables /\ OnChip'
      /\ \A b \in Tables : b \in Blocks /\ b # rg.ba /\ cells'[b] = cells[b]
  <2>1. /\ SigBlocks' = SigBlocks /\ Tables' = Tables \ {rg.ba} /\ OnChip'
        /\ \A b \in Tables' : cells'[b] = cells[b]
    <3>1. Torn.kind # "sig" /\ Torn.kind # "table" /\ OnChip
      BY DEF Torn, Layout
    <3> QED
      BY <1>f, <1>n, <3>1, OneBlock
  <2>2. Tables' = Tables
    BY <2>1, <1>n
  <2> QED
    BY <2>1, <2>2, <1>n DEF Tables
<1>1. Fresh' /\ Ordered'
  BY <1>f, <1>r DEF Fresh, Ordered, Layout
<1>2. Remembered'
  <2>1. ASSUME NEW b \in Tables PROVE Follows(b)'
    <3>1. b \in Blocks /\ b # rg.ba /\ Follows(b) /\ cells'[b] = cells[b]
      BY <1>c, <1>r DEF Layout, Remembered
    <3>2. b \notin Stale
      BY <1>n DEF Stale
    <3> QED
      BY <3>1, <3>2, <1>f, <1>r, <1>c DEF Follows, Clear, Sound, Ages
  <2> QED
    BY <2>1, <1>f, <1>r, <1>c, <1>n
    DEF Layout, Remembered, Clear, NoneSound, Sound, Going, Ages
<1>3. Looping'
  BY <1>f, <1>r, <1>n DEF Layout, Looping, WriteReturns
<1>4. Ranges'
  BY <1>f, <1>r, <1>c, <1>n, Bounds
  DEF Layout, Ranges, Going, Passing, UpTo, NoneSound, Sound
<1>5. Agreeing' /\ Placed'
  BY <1>f, <1>r, <1>c, <1>n DEF Layout, Agreeing, Placed, Going, WriteReturns
<1> QED
  BY <1>c, <1>1, <1>2, <1>3, <1>4, <1>5 DEF Layout

LEMMA RangeStepLayout == IInv /\ Layout /\ RangeStep => Layout'
BY RangeSkipLayout, RangeEraseLayout, RangeEraseFailsLayout, RangeEndLayout,
   ProgramLayout, ProgramFailsLayout DEF RangeStep

-----------------------------------------------------------------------------
(* The steps between two loops leave the chip and the block states alone. *)

LEMMA TablesSound ==
  ASSUME IInv, Layout, Laid
  PROVE  /\ \A b \in Tables : /\ b \in Blocks /\ MgmtStart <= b /\ b # None
                              /\ Sound(st, b) /\ Follows(b)
         /\ sigBa \in SigBlocks
BY Bounds DEF Layout, Remembered, OnChip, Follows, Sound, Tables

LEMMA Quiet ==
  ASSUME IInv, Layout, Laid, Laid', Stale = {}, Stale' = {},
         UNCHANGED <<chip, st, mp, topBa, sigBa, cache>>,
         \A b \in Tables : \A x \in Blocks :
           MgmtStart <= x /\ x < mainBa' /\ Sound(cells[b].st, x) => Sound(st, x),
         Going("rs_front")' \/ NoneSound(st, MgmtStart, mainBa')
  PROVE  OnChip' /\ Fresh' /\ Remembered'
<1>1. /\ cells' = cells /\ badmark' = badmark
      /\ SigBlocks' = SigBlocks /\ Tables' = Tables /\ OnChip'
  BY SameChip DEF Layout
<1>2. Fresh'
  BY DEF Laid, Fresh
<1>3. \A b \in Tables : Follows(b)'
  <2> SUFFICES ASSUME NEW b \in Tables PROVE Follows(b)'
    OBVIOUS
  <2>1. Follows(b)
    BY DEF Layout, Remembered
  <2> QED
    BY <2>1, <1>1 DEF Follows, Clear, Sound, Ages
<1> QED
  BY <1>1, <1>2, <1>3 DEF Layout, Remembered, Clear, NoneSound, Sound, Ages

\* a step that keeps the main table's place too
LEMMA QuietPlaces ==
  ASSUME IInv, Layout, Laid, Laid', Stale = {}, Stale' = {},
         UNCHANGED <<chip, st, mp, topBa, sigBa, cache, mainBa>>,
         Going("rs_front")' \/ ~Going("rs_front")
  PROVE  OnChip' /\ Fresh' /\ Remembered'
<1>1. \A b \in Tables : \A x \in Blocks :
           MgmtStart <= x /\ x < mainBa /\ Sound(cells[b].st, x) => Sound(st, x)
  BY DEF Layout, Remembered, Follows
<1>2. Going("rs_front")' \/ NoneSound(st, MgmtStart, mainBa)
  BY DEF Layout, Remembered
<1> QED
  BY <1>1, <1>2, Quiet

\* no loop is going on, and none has just ended
NoLoop ==
  pc \notin WriteReturns \cup {"rb_erased", "rs_erased", "write", "prog", "erase"}

LEMMA NoLoopLayout ==
  ASSUME NoLoop
  PROVE  Looping /\ Ranges /\ Agreeing /\ Stale = {}
         /\ \A p \in WriteReturns \cup {"rb_erased", "rs_erased"} : ~Going(p)
<1>1. \A p \in WriteReturns \cup {"rb_erased", "rs_erased"} : ~Going(p)
  BY DEF NoLoop, Going, WriteReturns
<1> QED
  BY <1>1 DEF NoLoop, Looping, Ranges, Agreeing, Stale, WriteReturns

\* what a place that a write of a table returns to can rely on
LEMMA Returned ==
  ASSUME IInv, Layout, pc \in WriteReturns
  PROVE  /\ Laid /\ Stale = {} /\ rg.ret = pc
         /\ \A p \in WriteReturns : Going(p) <=> pc = p
         /\ ~Going("rs_erased")
         /\ got # None => got = rg.ba /\ got < rg.lim /\ got \in Tables
                          /\ cells[got] = cache
         /\ \A lo \in Int : Passing(lo) <=> lo <= rg.ba /\
              NoneSound(st, lo, IF got = None THEN rg.lim ELSE got)
BY DEF Layout, Looping, Laid, Stale, Going, WriteReturns, Passing, UpTo

\* the write of a table begins
LEMMA WriteBegins ==
  ASSUME NEW ba, NEW lim, NEW ret, WriteRange(ba, lim, ret), ret \in WriteReturns,
         ret \notin {"us_main", "us_backup"}
  PROVE  /\ pc' = "write" /\ rg'.ba = ba /\ rg'.lim = lim /\ rg'.ret = ret
         /\ Laid' /\ Stale' = {} /\ UpTo' = ba
         /\ \A p \in WriteReturns : Going(p)' <=> ret = p
         /\ ~Going("rs_erased")' /\ ~Going("rb_erased")'
         /\ lim <= topBa' => Looping'
<1>1. pc' = "write" /\ rg'.ba = ba /\ rg'.lim = lim /\ rg'.ret = ret
  BY DEF WriteRange
<1> QED
  BY <1>1 DEF Laid, Stale, UpTo, Going, WriteReturns, Looping

\* blocks that the places of the tables are passed
LEMMA PassedTable ==
  ASSUME IInv, Layout, Laid, NEW lo, NEW lim, NoneSound(st, lo, lim),
         NEW b \in Tables
  PROVE  ~(lo <= b /\ b < lim)
BY TablesSound DEF NoneSound

-----------------------------------------------------------------------------
(* nmbm_update_info_table and the rescue and rebuild of both tables. *)

LEMMA ForgetLayout == Forget /\ OnChip' => Layout'
<1> SUFFICES ASSUME Forget, OnChip' PROVE Layout'
  OBVIOUS
<1>1. pc' = "off"
  BY DEF Forget
<1>2. NoLoop'
  BY <1>1 DEF NoLoop, WriteReturns
<1>3. Looping' /\ Ranges' /\ Agreeing'
  BY <1>1 DEF Looping, Ranges, Agreeing, Going, WriteReturns
<1>4. Fresh'
  <2>1. mp' = [l \in LBs |-> Unmapped]
    BY DEF Forget, NoTable, Table
  <2>2. Unmapped < MgmtStart
    BY ChipFacts DEF Unmapped
  <2> QED
    BY <1>1, <2>1, <2>2 DEF Fresh, OneToOne
<1> QED
  BY <1>1, <1>3, <1>4 DEF Layout, Ordered, Remembered, Placed, Laid

\* the end of nmbm_update_info_table, and of an answered request
LEMMA UpdateReturnLayout ==
  ASSUME IInv, UpdateReturn
  PROVE  NoLoop' /\ Laid' /\ pc' = uret
<1>1. pc' = uret /\ uret \in UpdateReturns
  BY UpdateReturnType DEF IInv, TypeOK
<1> QED
  BY <1>1 DEF UpdateReturns, NoLoop, Laid, WriteReturns

LEMMA QuietEnd ==
  ASSUME NoLoop'
  PROVE  /\ Looping' /\ Ranges' /\ Agreeing' /\ Stale' = {}
         /\ \A p \in WriteReturns \cup {"rb_erased", "rs_erased"} : ~Going(p)'
<1>1. \A p \in WriteReturns \cup {"rb_erased", "rs_erased"} : ~Going(p)'
  BY DEF NoLoop, Going, WriteReturns
<1> QED
  BY <1>1 DEF NoLoop, Looping, Ranges, Agreeing, Stale, WriteReturns

LEMMA UpdateDoneLayout == IInv /\ Layout /\ UpdateDone => Layout'
<1> SUFFICES ASSUME IInv, Layout, UpdateDone PROVE Layout'
  OBVIOUS
<1>f. /\ pc = "update"
      /\ UNCHANGED <<chip, mainBa, backupBa, mapBa, topBa, sigBa, st, mp, cache>>
  BY DEF UpdateDone, layout, table, attachV
<1>n. NoLoop /\ NoLoop' /\ Laid /\ Laid'
  BY <1>f, UpdateReturnLayout DEF UpdateDone, NoLoop, WriteReturns, Laid
<1>s. Tables' = Tables
  BY <1>f, SameChip
<1>1. OnChip' /\ Fresh' /\ Remembered'
  BY <1>f, <1>n, NoLoopLayout, QuietEnd, QuietPlaces DEF WriteReturns
<1>2. Ordered' /\ Placed'
  BY <1>f, <1>n, <1>s, NoLoopLayout
  DEF Layout, Ordered, Placed, NoLoop, WriteReturns
<1> QED
  BY <1>1, <1>2, <1>n, QuietEnd DEF Layout

LEMMA UpdateOnceLayout == IInv /\ Layout /\ UpdateOnce => Layout'
<1> SUFFICES ASSUME IInv, Layout, UpdateOnce PROVE Layout'
  OBVIOUS
<1>f. /\ pc = "update" /\ ~protected /\ cache' = Table(cache.wc + 1, st, mp)
      /\ UNCHANGED <<chip, mainBa, backupBa, mapBa, topBa, sigBa, st, mp>>
      /\ IF backupBa # None THEN WriteRange(backupBa, topBa, "up_backup")
                            ELSE WriteRange(mainBa, topBa, "up_main")
  <2>1. mainBa # None
    BY DEF UpdateOnce, IInv, TablesKnown, Laid, Going, UpdateReturns
  <2> QED
    BY <2>1 DEF UpdateOnce, layout, table, attachV, Regenerate, Generate
<1>n. NoLoop /\ Laid /\ Stale = {} /\ ~Going("rs_front") /\ ~Going("rm_main")
      /\ ~Going("rs_erased")
  BY <1>f, NoLoopLayout DEF NoLoop, WriteReturns, Laid
<1>c. /\ cells' = cells /\ badmark' = badmark
      /\ SigBlocks' = SigBlocks /\ Tables' = Tables /\ OnChip'
      /\ cache'.wc = cache.wc + 1 /\ cache'.st = st /\ cache'.mp = mp
  BY <1>f, SameChip DEF Layout, Table
<1>w. /\ pc' = "write" /\ rg'.lim = topBa /\ Laid' /\ Stale' = {} /\ Looping'
      /\ rg'.ret = IF backupBa # None THEN "up_backup" ELSE "up_main"
      /\ rg'.ba = IF backupBa # None THEN backupBa ELSE mainBa
      /\ UpTo' = rg'.ba
      /\ \A p \in WriteReturns : Going(p)' <=> rg'.ret = p
      /\ ~Going("rs_erased")'
  <2>1. topBa <= topBa'
    BY <1>f, Bounds
  <2>2. CASE backupBa # None
    BY <2>1, <2>2, <1>f, WriteBegins DEF WriteReturns
  <2>3. CASE backupBa = None
    BY <2>1, <2>3, <1>f, WriteBegins DEF WriteReturns
  <2> QED
    BY <2>2, <2>3
<1>1. Fresh' /\ Ordered'
  BY <1>f, <1>n, <1>w DEF Layout, Fresh, Ordered
<1>2. Remembered'
  <2>1. ASSUME NEW b \in Tables PROVE Follows(b)'
    <3>1. Follows(b) /\ Ages(cache.st, st) /\ Clear(cells[b].mp, topBa, sigBa)
      BY <1>n DEF Layout, Remembered, Follows
    <3>2. cells[b].wc <= cache.wc + 1 /\ cells[b].wc # cache.wc + 1
      BY <3>1, TableFacts DEF Follows
    <3> QED
      BY <3>1, <3>2, <1>f, <1>c DEF Follows, Ages, Clear, Sound
  <2>2. NoneSound(st, MgmtStart, mainBa)'
    BY <1>n, <1>f, <1>c DEF Layout, Remembered, NoneSound, Sound
  <2> QED
    BY <2>1, <2>2, <1>f, <1>c, <1>n
    DEF Layout, Remembered, Clear, OneToOne, Sound, Ages
<1>3. Ranges'
  BY <1>f, <1>w, Bounds DEF Ranges, Passing, NoneSound, WriteReturns
<1>4. Agreeing' /\ Placed'
  BY <1>f, <1>n, <1>c, <1>w, TablesSound
  DEF Layout, Agreeing, Placed, WriteReturns, NoLoop
<1> QED
  BY <1>c, <1>w, <1>1, <1>2, <1>3, <1>4 DEF Layout

LEMMA UpdateBackupLayout == IInv /\ Layout /\ UpdateBackup => Layout'
<1> SUFFICES ASSUME IInv, Layout, UpdateBackup PROVE Layout'
  OBVIOUS
<1>r. /\ pc = "up_backup" /\ mainBa # None /\ backupBa # None
      /\ Laid /\ Stale = {} /\ ~Going("rs_front") /\ ~Going("rm_main") /\ ~Going("rs_erased")
      /\ rg.lim = topBa /\ Passing(backupBa) /\ backupBa <= rg.ba
      /\ NoneSound(st, backupBa, IF got = None THEN topBa ELSE got)
      /\ got # None => got = rg.ba /\ got < topBa /\ got \in Tables /\ cells[got] = cache
      /\ mainBa < backupBa /\ backupBa < mapBa /\ mapBa <= topBa
  <2>1. pc = "up_backup" /\ pc \in WriteReturns
    BY DEF UpdateBackup, WriteReturns
  <2>2. Going("up_backup")
    BY <2>1 DEF Going
  <2>3. mainBa # None /\ backupBa # None
    BY <2>1, <2>2 DEF IInv, TablesKnown, Laid, Going, UpdateReturns
  <2> QED
    BY <2>1, <2>2, <2>3, Returned, Bounds DEF Layout, Ranges, Ordered, WriteReturns
<1>f. /\ UNCHANGED <<chip, mainBa, topBa, sigBa, st, mp, cache, got>>
      /\ IF got = None
         THEN backupBa' = None /\ mapBa' = backupBa /\ WriteRange(mainBa, topBa, "up_main")
         ELSE backupBa' = got /\ mapBa' = got + 1 /\ WriteRange(mainBa, got, "up_main")
  BY <1>r DEF UpdateBackup, attachV
<1>c. /\ cells' = cells /\ badmark' = badmark
      /\ SigBlocks' = SigBlocks /\ Tables' = Tables
  BY <1>f, SameChip
<1>t. \A b \in Tables : b = mainBa \/ (b = got /\ got # None)
  <2> SUFFICES ASSUME NEW b \in Tables, b # mainBa PROVE b = got /\ got # None
    OBVIOUS
  <2>1. b \in Blocks /\ b # None /\ (b = backupBa \/ b = got)
    BY <1>r, TablesSound DEF Layout, Placed
  <2>2. ~(backupBa <= b /\ b < IF got = None THEN topBa ELSE got)
    BY <1>r, PassedTable
  <2> QED
    BY <2>1, <2>2, <1>r, Bounds
<1>w. /\ pc' = "write" /\ rg'.lim = (IF got = None THEN topBa ELSE got) /\ Laid'
      /\ Stale' = {} /\ Looping' /\ rg'.ret = "up_main" /\ rg'.ba = mainBa
      /\ UpTo' = rg'.ba
      /\ \A p \in WriteReturns : Going(p)' <=> "up_main" = p
      /\ ~Going("rs_erased")'
  <2>1. (IF got = None THEN topBa ELSE got) <= topBa'
    BY <1>f, <1>r, Bounds
  <2> QED
    BY <2>1, <1>f, WriteBegins DEF WriteReturns
<1>1. OnChip' /\ Fresh' /\ Remembered'
  BY <1>r, <1>f, <1>w, QuietPlaces
<1>2. Ordered'
  BY <1>r, <1>f, Bounds DEF Ordered
<1>3. Ranges'
  BY <1>r, <1>f, <1>w, Bounds DEF Ranges, Passing, NoneSound, WriteReturns
<1>4. Agreeing' /\ Placed'
  BY <1>r, <1>f, <1>c, <1>w, <1>t, TablesSound DEF Agreeing, Placed, WriteReturns
<1> QED
  BY <1>w, <1>1, <1>2, <1>3, <1>4 DEF Layout

\* nmbm_update_info_table_once after the loop for the main table
LEMMA UpMainFacts ==
  ASSUME IInv, Layout, pc = "up_main"
  PROVE  /\ mainBa # None /\ Laid /\ Stale = {} /\ ~Going("rs_front")
         /\ ~Going("rm_main") /\ ~Going("rs_erased")
         /\ rg.lim = (IF backupBa = None THEN topBa ELSE backupBa)
         /\ mainBa <= rg.ba /\ mainBa < mapBa /\ mapBa <= topBa
         /\ backupBa # None => mainBa < backupBa /\ backupBa < mapBa
         /\ NoneSound(st, MgmtStart, IF got = None THEN rg.lim ELSE got)
         /\ got # None => got = rg.ba /\ got < rg.lim /\ got \in Tables /\ cells[got] = cache
         /\ \A b \in Tables : b = backupBa \/ (b = got /\ got # None)
         /\ backupBa \in Tables => cells[backupBa].st = cache.st
         /\ backupBa = None /\ got = None => Tables = {}
<1>1. pc \in WriteReturns /\ Going("up_main") /\ Laid /\ mainBa # None
  BY DEF WriteReturns, Going, IInv, TablesKnown, Laid, UpdateReturns
<1>2. /\ Stale = {} /\ ~Going("rs_front") /\ ~Going("rm_main") /\ ~Going("rs_erased")
      /\ rg.lim = (IF backupBa = None THEN topBa ELSE backupBa)
      /\ mainBa <= rg.ba /\ mainBa < mapBa /\ mapBa <= topBa
      /\ backupBa # None => mainBa < backupBa /\ backupBa < mapBa
      /\ NoneSound(st, mainBa, IF got = None THEN rg.lim ELSE got)
      /\ got # None => got = rg.ba /\ got < rg.lim /\ got \in Tables /\ cells[got] = cache
      /\ backupBa \in Tables => cells[backupBa].st = cache.st
  BY <1>1, Returned, Bounds DEF Layout, Ranges, Ordered, Agreeing, WriteReturns
<1>3. NoneSound(st, MgmtStart, mainBa)
  BY <1>1, <1>2 DEF Layout, Remembered
<1>4. NoneSound(st, MgmtStart, IF got = None THEN rg.lim ELSE got)
  BY <1>2, <1>3, Bounds DEF NoneSound
<1>5. ASSUME NEW b \in Tables PROVE b = backupBa \/ (b = got /\ got # None)
  <2>1. b \in Blocks /\ b # None /\ (b = mainBa \/ b = backupBa \/ b = got)
    BY <1>1, <1>2, TablesSound DEF Layout, Placed
  <2>2. ~(mainBa <= b /\ b < IF got = None THEN rg.lim ELSE got)
    BY <1>1, <1>2, PassedTable
  <2>3. CASE b = mainBa
    BY <2>1, <2>2, <2>3, <1>2, Bounds
  <2> QED
    BY <2>1, <2>3
<1>6. backupBa = None /\ got = None => Tables = {}
  BY <1>1, <1>5, TablesSound
<1> QED
  BY <1>1, <1>2, <1>4, <1>5, <1>6

LEMMA UpdateMainLayout == IInv /\ Layout /\ UpdateMain => Layout'
<1> SUFFICES ASSUME IInv, Layout, UpdateMain PROVE Layout'
  OBVIOUS
<1>f. /\ pc = "up_main" /\ got # None /\ mainBa' = got /\ pc' = "update"
      /\ mapBa' = IF backupBa = None THEN got + 1 ELSE mapBa
      /\ UNCHANGED <<chip, backupBa, topBa, sigBa, st, mp, cache, rg, got>>
  BY DEF UpdateMain, attachV, ctl
<1>n. NoLoop' /\ Laid'
  BY <1>f DEF NoLoop, WriteReturns, Laid
<1>c. Tables' = Tables
  BY <1>f, SameChip
<1>1. ASSUME NEW b \in Tables, NEW x \in Blocks, MgmtStart <= x, x < got,
             Sound(cells[b].st, x)
      PROVE  Sound(st, x)
  <2>1. cells[b].st = cache.st
    BY <1>f, <1>1, UpMainFacts
  <2>2. x <= topBa
    BY <1>f, <1>1, UpMainFacts, Bounds
  <2> QED
    BY <1>1, <1>f, <2>1, <2>2, UpMainFacts DEF Layout, Remembered
<1>2. OnChip' /\ Fresh' /\ Remembered'
  BY <1>f, <1>n, <1>1, UpMainFacts, QuietEnd, Quiet
<1>3. Ordered' /\ Placed'
  BY <1>f, <1>c, <1>n, UpMainFacts, Bounds DEF Ordered, Placed
<1> QED
  BY <1>2, <1>3, <1>n, QuietEnd DEF Layout

LEMMA UpdateMainRebuildsLayout == IInv /\ Layout /\ UpdateMainRebuilds => Layout'
<1> SUFFICES ASSUME IInv, Layout, UpdateMainRebuilds PROVE Layout'
  OBVIOUS
<1>f. /\ pc = "up_main" /\ got = None /\ backupBa = None
      /\ mainBa' = None /\ backupBa' = None /\ mapBa' = topBa
      /\ WriteRange(MgmtStart, topBa, "rb_main")
      /\ UNCHANGED <<chip, topBa, sigBa, st, mp, cache, got>>
  BY DEF UpdateMainRebuilds, StartRebuild, table, attachV
<1>c. Tables' = {} /\ Tables = {}
  BY <1>f, SameChip, UpMainFacts
<1>w. /\ pc' = "write" /\ rg'.lim = topBa /\ Laid' /\ Stale' = {} /\ Looping'
      /\ rg'.ret = "rb_main" /\ rg'.ba = MgmtStart /\ UpTo' = rg'.ba
      /\ \A p \in WriteReturns : Going(p)' <=> "rb_main" = p
      /\ ~Going("rs_erased")'
  <2>1. topBa <= topBa'
    BY <1>f, Bounds
  <2> QED
    BY <2>1, <1>f, WriteBegins DEF WriteReturns
<1>1. OnChip' /\ Fresh' /\ Remembered'
  <2>1. NoneSound(st, MgmtStart, mainBa')
    BY <1>f, Bounds DEF NoneSound
  <2> QED
    BY <1>c, <1>f, <1>w, <2>1, UpMainFacts, Quiet
<1>2. Ordered'
  BY <1>f, UpMainFacts, Bounds DEF Ordered
<1>3. Ranges'
  BY <1>f, <1>w, Bounds DEF Ranges, Passing, NoneSound, WriteReturns
<1>4. Agreeing' /\ Placed'
  BY <1>c DEF Agreeing, Placed
<1> QED
  BY <1>w, <1>1, <1>2, <1>3, <1>4 DEF Layout

\* the backup table takes the place of the main table
LEMMA BackupBecomesMainLayout ==
  ASSUME IInv, Layout, Laid, Stale = {}, pc \in WriteReturns,
         BackupBecomesMain, UNCHANGED <<chip, topBa, sigBa, st, mp, cache, got, mapBa>>,
         backupBa # None,
         NoneSound(st, MgmtStart, backupBa),
         \A b \in Tables : b = backupBa,
         backupBa \in Tables => cells[backupBa].st = cache.st
  PROVE  Layout'
<1>f. mainBa' = backupBa /\ backupBa' = None /\ pc' = "update" /\ rg' = rg
  BY DEF BackupBecomesMain
<1>n. NoLoop' /\ Laid'
  BY <1>f DEF NoLoop, WriteReturns, Laid
<1>c. Tables' = Tables
  BY SameChip
<1>o. backupBa < mapBa /\ mapBa <= topBa
  BY Bounds DEF Layout, Ordered
<1>1. ASSUME NEW b \in Tables, NEW x \in Blocks, MgmtStart <= x, x < backupBa,
             Sound(cells[b].st, x)
      PROVE  Sound(st, x)
  <2>1. cells[b].st = cache.st /\ x <= topBa
    BY <1>1, <1>o, Bounds
  <2> QED
    BY <1>1, <2>1 DEF Layout, Remembered
<1>2. OnChip' /\ Fresh' /\ Remembered'
  BY <1>f, <1>n, <1>1, QuietEnd, Quiet
<1>3. Ordered' /\ Placed'
  BY <1>f, <1>c, <1>n, <1>o DEF Ordered, Placed
<1> QED
  BY <1>2, <1>3, <1>n, QuietEnd DEF Layout

LEMMA RescueMainLayout == IInv /\ Layout /\ RescueMain => Layout'
<1> SUFFICES ASSUME IInv, Layout, RescueMain PROVE Layout'
  OBVIOUS
<1> DEFINE w == TryReserve(st, mapBa, topBa - 1)
<1>f. /\ pc = "up_main" /\ got = None /\ backupBa # None /\ pc \in WriteReturns
      /\ UNCHANGED <<chip, mapBa, topBa, sigBa, st, mp, cache, got>>
      /\ IF w = None THEN BackupBecomesMain
         ELSE WriteRange(w, topBa, "rm_tmp") /\ UNCHANGED <<mainBa, backupBa>>
  BY DEF RescueMain, table, attachV, WriteReturns
<1>t. /\ \A b \in Tables : b = backupBa
      /\ backupBa \in Tables => cells[backupBa].st = cache.st
      /\ NoneSound(st, MgmtStart, backupBa) /\ Laid /\ Stale = {}
  BY <1>f, UpMainFacts
<1>1. CASE w = None
  BY <1>1, <1>f, <1>t, BackupBecomesMainLayout
<1>2. CASE w # None
  <2>1. w \in Int /\ mapBa <= w
    BY <1>2, TryReserveIn, Bounds DEF GoodIn
  <2>c. /\ cells' = cells /\ badmark' = badmark /\ Tables' = Tables
    BY <1>f, SameChip
  <2>w. /\ pc' = "write" /\ rg'.lim = topBa /\ Laid' /\ Stale' = {} /\ Looping'
        /\ rg'.ret = "rm_tmp" /\ rg'.ba = w
        /\ \A p \in WriteReturns : Going(p)' <=> "rm_tmp" = p
        /\ ~Going("rs_erased")' /\ WriteRange(w, topBa, "rm_tmp")
    <3>1. topBa <= topBa'
      BY <1>f, Bounds
    <3> QED
      BY <3>1, <1>2, <1>f, WriteBegins DEF WriteReturns
  <2> HIDE DEF w
  <2>2. OnChip' /\ Fresh' /\ Remembered'
    BY <1>2, <1>f, <1>t, <2>w, UpMainFacts, QuietPlaces
  <2>3. Ordered'
    BY <1>2, <1>f, UpMainFacts DEF Ordered
  <2>4. Ranges'
    BY <1>2, <1>f, <1>t, <2>1, <2>c, <2>w DEF Ranges, NoneSound, Sound, WriteReturns
  <2>5. Agreeing' /\ Placed'
    BY <1>2, <1>f, <1>t, <2>c, <2>w DEF Agreeing, Placed, WriteReturns
  <2> QED
    BY <2>w, <2>2, <2>3, <2>4, <2>5 DEF Layout
<1> QED
  BY <1>1, <1>2

\* nmbm_rescue_main_info_table after a loop for the temporary table
LEMMA RmTmpFacts ==
  ASSUME IInv, Layout, pc = "rm_tmp"
  PROVE  /\ pc \in WriteReturns /\ Laid /\ Stale = {} /\ backupBa # None
         /\ ~Going("rs_front") /\ ~Going("rs_erased") /\ ~Going("rm_main")
         /\ rg.lim = topBa /\ mapBa <= rg.ba
         /\ mainBa < backupBa /\ backupBa < mapBa /\ mapBa <= topBa
         /\ NoneSound(st, MgmtStart, backupBa)
         /\ got # None => got = rg.ba /\ got < topBa /\ got \in Tables /\ cells[got] = cache
         /\ \A b \in Tables : b = backupBa \/ (b = got /\ got # None)
         /\ backupBa \in Tables => cells[backupBa].st = cache.st
<1>1. pc \in WriteReturns /\ Going("rm_tmp") /\ Laid /\ backupBa # None
  BY DEF WriteReturns, Going, IInv, TablesKnown, Laid
<1>2. /\ Stale = {} /\ ~Going("rs_front") /\ ~Going("rs_erased") /\ ~Going("rm_main")
      /\ rg.lim = topBa /\ mapBa <= rg.ba
      /\ mainBa < backupBa /\ backupBa < mapBa /\ mapBa <= topBa
      /\ NoneSound(st, MgmtStart, backupBa)
      /\ got # None => got = rg.ba /\ got < topBa /\ got \in Tables /\ cells[got] = cache
      /\ backupBa \in Tables => cells[backupBa].st = cache.st
  BY <1>1, Returned DEF Layout, Ranges, Ordered, Agreeing, WriteReturns
<1>3. ASSUME NEW b \in Tables PROVE b = backupBa \/ (b = got /\ got # None)
  <2>1. b \in Blocks /\ b # None /\ (b = mainBa \/ b = backupBa \/ b = got)
    BY <1>1, <1>2, TablesSound DEF Layout, Placed
  <2>2. ~(MgmtStart <= b /\ b < backupBa) /\ MgmtStart <= b
    BY <1>1, <1>2, PassedTable, TablesSound
  <2> QED
    BY <2>1, <2>2, <1>2, Bounds
<1> QED
  BY <1>1, <1>2, <1>3

LEMMA RescueMainTmpLayout == IInv /\ Layout /\ RescueMainTmp => Layout'
<1> SUFFICES ASSUME IInv, Layout, RescueMainTmp PROVE Layout'
  OBVIOUS
<1>f. pc = "rm_tmp" /\ UNCHANGED <<chip, topBa, sigBa, st, mp, cache, got>>
  BY DEF RescueMainTmp, table, attachV
<1>c. /\ cells' = cells /\ badmark' = badmark /\ Tables' = Tables
  BY <1>f, SameChip
<1>1. CASE got # None
  <2>f. /\ mapBa' = got + 1 /\ WriteRange(MgmtStart, got, "rm_main")
        /\ UNCHANGED <<mainBa, backupBa>>
    BY <1>1 DEF RescueMainTmp
  <2>w. /\ pc' = "write" /\ rg'.lim = got /\ Laid' /\ Stale' = {} /\ Looping'
        /\ rg'.ret = "rm_main" /\ rg'.ba = MgmtStart /\ UpTo' = MgmtStart
        /\ \A p \in WriteReturns : Going(p)' <=> "rm_main" = p
        /\ ~Going("rs_erased")'
    <3>1. got <= topBa'
      BY <1>1, <1>f, RmTmpFacts, Bounds
    <3> QED
      BY <3>1, <2>f, WriteBegins DEF WriteReturns
  <2>1. OnChip' /\ Fresh' /\ Remembered'
    BY <1>f, <2>f, <2>w, RmTmpFacts, QuietPlaces
  <2>2. Ordered'
    BY <1>1, <1>f, <2>f, RmTmpFacts, Bounds DEF Ordered
  <2>3. Ranges'
    BY <1>1, <1>f, <1>c, <2>f, <2>w, RmTmpFacts, Bounds
    DEF Ranges, NoneSound, Sound, WriteReturns, Passing
  <2>4. Agreeing' /\ Placed'
    BY <1>1, <1>f, <1>c, <2>f, <2>w, RmTmpFacts DEF Agreeing, Placed, WriteReturns
  <2> QED
    BY <2>w, <2>1, <2>2, <2>3, <2>4 DEF Layout
<1>2. CASE got = None /\ wba > mapBa
  <2>f. /\ WriteRange(wba - 1, topBa, "rm_tmp")
        /\ UNCHANGED <<mapBa, mainBa, backupBa>>
    BY <1>2 DEF RescueMainTmp, RetryBelow
  <2>w. /\ pc' = "write" /\ rg'.lim = topBa /\ Laid' /\ Stale' = {} /\ Looping'
        /\ rg'.ret = "rm_tmp" /\ rg'.ba = wba - 1
        /\ \A p \in WriteReturns : Going(p)' <=> "rm_tmp" = p
        /\ ~Going("rs_erased")'
    <3>1. topBa <= topBa'
      BY <1>f, Bounds
    <3> QED
      BY <3>1, <2>f, WriteBegins DEF WriteReturns
  <2>1. OnChip' /\ Fresh' /\ Remembered'
    BY <1>f, <2>f, <2>w, RmTmpFacts, QuietPlaces
  <2>2. Ordered'
    <3>1. /\ mainBa < backupBa /\ backupBa < mapBa /\ mapBa <= topBa
          /\ mainBa < mapBa
      BY <1>f, RmTmpFacts, Bounds
    <3> QED
      BY <1>f, <2>f, <3>1 DEF Ordered
  <2>3. Ranges'
    BY <1>2, <1>f, <1>c, <2>f, <2>w, RmTmpFacts, Bounds
    DEF Ranges, NoneSound, Sound, WriteReturns
  <2>4. Agreeing' /\ Placed'
    BY <1>2, <1>f, <1>c, <2>f, <2>w, RmTmpFacts DEF Agreeing, Placed, WriteReturns
  <2> QED
    BY <2>w, <2>1, <2>2, <2>3, <2>4 DEF Layout
<1>3. CASE got = None /\ ~(wba > mapBa)
  <2>f. BackupBecomesMain /\ mapBa' = mapBa
    BY <1>3 DEF RescueMainTmp
  <2> QED
    BY <1>3, <1>f, <2>f, RmTmpFacts, BackupBecomesMainLayout
<1> QED
  BY <1>1, <1>2, <1>3

LEMMA RescueMainDoneLayout == IInv /\ Layout /\ RescueMainDone => Layout'
<1> SUFFICES ASSUME IInv, Layout, RescueMainDone PROVE Layout'
  OBVIOUS
<1>f. /\ pc = "rm_main" /\ pc' = "update"
      /\ IF got = None THEN mainBa' = rg.lim /\ backupBa' = None
                       ELSE mainBa' = got /\ backupBa' = rg.lim
      /\ UNCHANGED <<chip, mapBa, topBa, sigBa, st, mp, cache, rg, got>>
  BY DEF RescueMainDone, attachV, ctl
<1>r. /\ pc \in WriteReturns /\ Going("rm_main") /\ Laid
      /\ \A p \in WriteReturns : Going(p) <=> p = "rm_main"
  BY <1>f DEF WriteReturns, Going, Laid
<1>m. /\ Stale = {} /\ mapBa = rg.lim + 1 /\ backupBa < rg.lim /\ backupBa # None
      /\ NoneSound(st, MgmtStart, backupBa)
      /\ NoneSound(st, MgmtStart, IF got = None THEN rg.lim ELSE got)
      /\ got # None => got < rg.lim /\ got \in Tables /\ cells[got] = cache
      /\ rg.lim \in Tables => cells[rg.lim].st = cache.st
      /\ mainBa < backupBa /\ mapBa <= topBa
  BY <1>r, Returned, Bounds DEF Layout, Ranges, Agreeing, Ordered, WriteReturns
<1>t. ASSUME NEW b \in Tables PROVE b = rg.lim \/ (b = got /\ got # None)
  <2>1. /\ b \in Blocks /\ b # None /\ MgmtStart <= b
        /\ b = mainBa \/ b = backupBa \/ b = got \/ b = rg.lim
    BY <1>r, <1>m, TablesSound DEF Layout, Placed
  <2>2. /\ ~(MgmtStart <= b /\ b < backupBa)
        /\ ~(MgmtStart <= b /\ b < IF got = None THEN rg.lim ELSE got)
    BY <1>r, <1>m, PassedTable
  <2>3. got # None => backupBa <= got
    <3> SUFFICES ASSUME got # None PROVE backupBa <= got
      OBVIOUS
    <3>1. got \in Tables /\ MgmtStart <= got
      BY <1>m, <1>r, TablesSound
    <3>2. ~(MgmtStart <= got /\ got < backupBa)
      BY <3>1, <1>m, <1>r, PassedTable
    <3> QED
      BY <3>1, <3>2, Bounds
  <2> QED
    BY <2>1, <2>2, <2>3, <1>m, Bounds
<1>n. NoLoop' /\ Laid'
  BY <1>f DEF NoLoop, WriteReturns, Laid
<1>c. Tables' = Tables
  BY <1>f, SameChip
<1>b. mainBa' \in Int /\ mainBa' <= rg.lim /\ NoneSound(st, MgmtStart, mainBa')
  BY <1>f, <1>m, Bounds
<1>1. ASSUME NEW b \in Tables, NEW x \in Blocks, MgmtStart <= x, x < mainBa',
             Sound(cells[b].st, x)
      PROVE  Sound(st, x)
  <2>1. cells[b].st = cache.st
    BY <1>m, <1>t, <1>1
  <2>2. x <= topBa
    BY <1>1, <1>b, <1>m, Bounds
  <2> QED
    BY <1>1, <1>r, <2>1, <2>2 DEF Layout, Remembered
<1>2. OnChip' /\ Fresh' /\ Remembered'
  BY <1>f, <1>n, <1>b, <1>m, <1>r, <1>1, QuietEnd, Quiet
<1>3. Ordered' /\ Placed'
  BY <1>f, <1>c, <1>n, <1>m, <1>t, Bounds DEF Ordered, Placed
<1> QED
  BY <1>2, <1>3, <1>n, QuietEnd DEF Layout

LEMMA RebuildMainFailsLayout == IInv /\ Layout /\ RebuildMainFails => Layout'
<1> SUFFICES ASSUME IInv, Layout, RebuildMainFails PROVE Layout'
  OBVIOUS
<1>f. pc = "rb_main" /\ got = None /\ UNCHANGED chip
  BY DEF RebuildMainFails
<1>1. CASE uret \in {"creating", "c_end"}
  BY <1>1, <1>f, SameChip, ForgetLayout DEF RebuildMainFails, Layout
<1>2. CASE uret \notin {"creating", "c_end"}
  <2>f. /\ UpdateReturn
        /\ UNCHANGED <<mainBa, backupBa, mapBa, topBa, sigBa, st, mp, cache>>
    BY <1>2 DEF RebuildMainFails, GiveUp, layout, table
  <2>n. NoLoop' /\ Laid'
    BY <2>f, UpdateReturnLayout
  <2>r. pc \in WriteReturns /\ Going("rb_main") /\ Laid
    BY <1>f DEF WriteReturns, Going, Laid
  <2>m. /\ Stale = {} /\ mainBa = None /\ backupBa = None /\ ~Going("rs_front")
        /\ ~Going("rm_main") /\ ~Going("rs_erased")
    BY <2>r, <1>f, Returned DEF Layout, Ranges, WriteReturns
  <2>t. Tables = {} /\ Tables' = {}
    BY <1>f, <2>m, <2>r, SameChip, TablesSound DEF Layout, Placed
  <2>1. OnChip' /\ Fresh' /\ Remembered'
    BY <1>f, <2>f, <2>n, <2>r, <2>m, QuietEnd, QuietPlaces
  <2>2. Ordered' /\ Placed'
    BY <2>f, <2>r, <2>t DEF Layout, Ordered, Placed
  <2> QED
    BY <2>1, <2>2, <2>n, QuietEnd DEF Layout
<1> QED
  BY <1>1, <1>2

\* nmbm_rebuild_info_table goes back to nmbm_create_info_table or to
\* nmbm_update_info_table
LEMMA RebuildReturnLayout ==
  ASSUME RebuildReturn PROVE NoLoop' /\ Laid'
BY DEF RebuildReturn, NoLoop, Laid, WriteReturns

LEMMA RebuildMainLayout == IInv /\ Layout /\ RebuildMain => Layout'
<1> SUFFICES ASSUME IInv, Layout, RebuildMain PROVE Layout'
  OBVIOUS
<1> DEFINE w == TryReserve(st, got + 1, topBa - 1)
<1>f. /\ pc = "rb_main" /\ got # None /\ mainBa' = got /\ mapBa' = got + 1
      /\ IF w = None THEN RebuildReturn /\ UNCHANGED rg
                     ELSE WriteRange(w, topBa, "rb_backup")
      /\ UNCHANGED <<chip, backupBa, topBa, sigBa, st, mp, cache, got>>
  BY DEF RebuildMain, attachV
<1>r. pc \in WriteReturns /\ Going("rb_main") /\ Laid
  BY <1>f DEF WriteReturns, Going, Laid
<1>m. /\ Stale = {} /\ mainBa = None /\ backupBa = None /\ ~Going("rs_front")
      /\ ~Going("rm_main") /\ ~Going("rs_erased")
      /\ NoneSound(st, MgmtStart, got) /\ got < topBa
      /\ got \in Tables /\ cells[got] = cache
  BY <1>r, <1>f, Returned, Bounds DEF Layout, Ranges, WriteReturns
<1>t. \A b \in Tables : b = got
  BY <1>r, <1>m, TablesSound DEF Layout, Placed
<1>c. Tables' = Tables /\ cells' = cells /\ badmark' = badmark
  BY <1>f, SameChip
<1>1. ASSUME NEW b \in Tables, NEW x \in Blocks, MgmtStart <= x, x < got,
             Sound(cells[b].st, x)
      PROVE  Sound(st, x)
  <2>1. cells[b].st = cache.st /\ x <= topBa
    BY <1>1, <1>m, <1>t, Bounds
  <2> QED
    BY <1>1, <1>r, <2>1 DEF Layout, Remembered
<1>2. Ordered'
  BY <1>f, <1>m, <1>r, Bounds DEF Ordered
<1>3. CASE w = None
  <2>n. NoLoop' /\ Laid'
    BY <1>f, <1>3, RebuildReturnLayout
  <2>1. OnChip' /\ Fresh' /\ Remembered'
    BY <1>f, <1>r, <1>m, <1>1, <2>n, QuietEnd, Quiet
  <2>2. Placed'
    BY <1>f, <1>c, <1>t DEF Placed
  <2> QED
    BY <1>2, <2>n, <2>1, <2>2, QuietEnd DEF Layout
<1>4. CASE w # None
  <2>1. w \in Int /\ got + 1 <= w
    BY <1>4, TryReserveIn, Bounds DEF GoodIn
  <2>w. /\ pc' = "write" /\ rg'.lim = topBa /\ Laid' /\ Stale' = {} /\ Looping'
        /\ rg'.ret = "rb_backup" /\ rg'.ba = w
        /\ \A p \in WriteReturns : Going(p)' <=> "rb_backup" = p
        /\ ~Going("rs_erased")'
    <3>1. topBa <= topBa'
      BY <1>f, Bounds
    <3> QED
      BY <3>1, <1>4, <1>f, WriteBegins DEF WriteReturns
  <2> HIDE DEF w
  <2>2. OnChip' /\ Fresh' /\ Remembered'
    BY <1>f, <1>r, <1>m, <1>1, <2>w, Quiet
  <2>3. Ranges'
    BY <1>f, <1>m, <2>1, <2>w, Bounds DEF Ranges, WriteReturns
  <2>4. Agreeing' /\ Placed'
    BY <1>f, <1>c, <1>t, <2>w DEF Agreeing, Placed, WriteReturns
  <2> QED
    BY <1>2, <2>w, <2>2, <2>3, <2>4 DEF Layout
<1> QED
  BY <1>3, <1>4

\* the erase of the blocks between the tables begins
LEMMA EraseBegins ==
  ASSUME NEW ba, NEW lim, NEW ret, EraseRange(ba, lim, ret), ret \in EraseReturns
  PROVE  /\ pc' = "erase" /\ rg'.ba = ba /\ rg'.lim = lim /\ rg'.ret = ret
         /\ Laid' /\ Stale' = {}
         /\ \A p \in WriteReturns \cup EraseReturns : Going(p)' <=> ret = p
         /\ ret # "rs_erased" => Ranges' /\ Agreeing'
         /\ lim <= topBa' => Looping'
<1>1. pc' = "erase" /\ rg'.ba = ba /\ rg'.lim = lim /\ rg'.ret = ret
  BY DEF EraseRange
<1>2. \A p \in WriteReturns \cup EraseReturns : Going(p)' <=> ret = p
  BY <1>1 DEF Going, WriteReturns, EraseReturns
<1>3. ret # "rs_erased" => Ranges' /\ Agreeing'
  BY <1>2 DEF Ranges, Agreeing, WriteReturns, EraseReturns
<1> QED
  BY <1>1, <1>2, <1>3 DEF Laid, Stale, WriteReturns, Looping

LEMMA RebuildBackupLayout == IInv /\ Layout /\ RebuildBackup => Layout'
<1> SUFFICES ASSUME IInv, Layout, RebuildBackup PROVE Layout'
  OBVIOUS
<1>f. /\ pc = "rb_backup" /\ UNCHANGED <<chip, mainBa, topBa, sigBa, st, mp, cache, got>>
      /\ IF got = None
         THEN RebuildReturn /\ UNCHANGED <<backupBa, mapBa, rg>>
         ELSE /\ backupBa' = got /\ mapBa' = got + 1
              /\ EraseRange(mainBa + 1, got, "rb_erased")
  BY DEF RebuildBackup, table, attachV
<1>r. pc \in WriteReturns /\ Going("rb_backup") /\ Laid
  BY <1>f DEF WriteReturns, Going, Laid
<1>m. /\ Stale = {} /\ backupBa = None /\ ~Going("rs_front")
      /\ ~Going("rm_main") /\ ~Going("rs_erased")
      /\ mainBa < mapBa /\ mapBa <= topBa
      /\ got # None => mainBa < got /\ got < topBa
  BY <1>r, <1>f, Returned, Bounds DEF Layout, Ranges, Ordered, WriteReturns
<1>t. \A b \in Tables : b = mainBa \/ (b = got /\ got # None)
  BY <1>r, <1>m, TablesSound DEF Layout, Placed
<1>c. Tables' = Tables
  BY <1>f, SameChip
<1>1. CASE got = None
  <2>n. NoLoop' /\ Laid'
    BY <1>f, <1>1, RebuildReturnLayout
  <2>1. OnChip' /\ Fresh' /\ Remembered'
    BY <1>1, <1>f, <1>r, <1>m, <2>n, QuietEnd, QuietPlaces
  <2>2. Ordered' /\ Placed'
    BY <1>1, <1>f, <1>c, <1>m, <1>t DEF Ordered, Placed
  <2> QED
    BY <2>n, <2>1, <2>2, QuietEnd DEF Layout
<1>2. CASE got # None
  <2>f. /\ backupBa' = got /\ mapBa' = got + 1
        /\ EraseRange(mainBa + 1, got, "rb_erased")
    BY <1>2, <1>f
  <2>w. /\ Laid' /\ Stale' = {} /\ Ranges' /\ Agreeing' /\ Looping'
        /\ ~Going("rs_front")'
    <3>1. got <= topBa'
      BY <1>2, <1>f, <1>m, Bounds
    <3> QED
      BY <2>f, <3>1, EraseBegins DEF EraseReturns, WriteReturns
  <2>1. OnChip' /\ Fresh' /\ Remembered'
    BY <1>f, <1>r, <1>m, <2>w, QuietPlaces
  <2>2. Ordered' /\ Placed'
    BY <1>2, <2>f, <1>f, <1>c, <1>m, <1>t, Bounds DEF Ordered, Placed
  <2> QED
    BY <2>w, <2>1, <2>2 DEF Layout
<1> QED
  BY <1>1, <1>2

LEMMA RebuildErasedLayout == IInv /\ Layout /\ RebuildErased => Layout'
<1> SUFFICES ASSUME IInv, Layout, RebuildErased PROVE Layout'
  OBVIOUS
<1>f. /\ pc = "rb_erased"
      /\ UNCHANGED <<chip, mainBa, backupBa, mapBa, topBa, sigBa, st, mp, cache>>
  BY DEF RebuildErased, layout, table, attachV
<1>n. NoLoop' /\ Laid' /\ Laid
  BY <1>f, RebuildReturnLayout DEF RebuildErased, Laid
<1>m. Stale = {} /\ \A p \in WriteReturns \cup {"rs_erased"} : ~Going(p)
  BY <1>f DEF Stale, Going, WriteReturns
<1>c. Tables' = Tables
  BY <1>f, SameChip
<1>1. OnChip' /\ Fresh' /\ Remembered'
  BY <1>f, <1>n, <1>m, QuietEnd, QuietPlaces DEF WriteReturns
<1>2. Ordered' /\ Placed'
  BY <1>f, <1>n, <1>c, <1>m DEF Layout, Ordered, Placed, WriteReturns
<1> QED
  BY <1>n, <1>1, <1>2, QuietEnd DEF Layout

LEMMA UpdateStepLayout == IInv /\ Layout /\ UpdateStep => Layout'
BY UpdateDoneLayout, UpdateOnceLayout, UpdateBackupLayout, UpdateMainLayout,
   UpdateMainRebuildsLayout, RescueMainLayout, RescueMainTmpLayout,
   RescueMainDoneLayout, RebuildMainLayout, RebuildMainFailsLayout,
   RebuildBackupLayout, RebuildErasedLayout DEF UpdateStep

-----------------------------------------------------------------------------
(* The end of an attach: nmbm_rescue_single_info_table and                   *)
(* nmbm_update_single_info_table.                                            *)

LEMMA RsFrontFacts ==
  ASSUME IInv, Layout, pc = "rs_front"
  PROVE  /\ Laid /\ Stale = {} /\ mainBa # None /\ backupBa = None
         /\ NoneSound(st, MgmtStart, IF got = None THEN mainBa ELSE got)
         /\ got # None => got < mainBa
         /\ mainBa < mapBa /\ mapBa <= topBa
         /\ \A b \in Tables : b = mainBa \/ (b = got /\ got # None)
         /\ \A b \in Tables : Follows(b)
<1>1. pc \in WriteReturns /\ Going("rs_front") /\ Laid /\ mainBa # None
  BY DEF WriteReturns, Going, IInv, TablesKnown, Laid, UpdateReturns
<1>2. /\ Stale = {} /\ backupBa = None /\ rg.lim = mainBa
      /\ NoneSound(st, MgmtStart, IF got = None THEN mainBa ELSE got)
      /\ got # None => got < mainBa
      /\ mainBa < mapBa /\ mapBa <= topBa /\ ~Going("rm_main")
  BY <1>1, Returned, Bounds DEF Layout, Ranges, Ordered, WriteReturns
<1> QED
  BY <1>1, <1>2, TablesSound DEF Layout, Placed

LEMMA RescueFrontLayout == IInv /\ Layout /\ RescueFront => Layout'
<1> SUFFICES ASSUME IInv, Layout, RescueFront PROVE Layout'
  OBVIOUS
<1>f. /\ pc = "rs_front" /\ got # None /\ backupBa' = mainBa /\ mainBa' = got
      /\ EraseRange(got + 1, mainBa, "ld_ok")
      /\ UNCHANGED <<chip, mapBa, topBa, sigBa, st, mp, cache, got>>
  BY DEF RescueFront, attachV
<1>c. Tables' = Tables
  BY <1>f, SameChip
<1>w. Laid' /\ Stale' = {} /\ Ranges' /\ Agreeing' /\ Looping'
  <2>1. mainBa <= topBa'
    BY <1>f, RsFrontFacts, Bounds
  <2> QED
    BY <1>f, <2>1, EraseBegins DEF EraseReturns
<1>1. ASSUME NEW b \in Tables, NEW x \in Blocks, MgmtStart <= x, x < got,
             Sound(cells[b].st, x)
      PROVE  Sound(st, x)
  BY <1>1, <1>f, RsFrontFacts, Bounds DEF Follows
<1>2. OnChip' /\ Fresh' /\ Remembered'
  BY <1>f, <1>w, <1>1, RsFrontFacts, Quiet
<1>3. Ordered' /\ Placed'
  BY <1>f, <1>c, RsFrontFacts, Bounds DEF Ordered, Placed
<1> QED
  BY <1>w, <1>2, <1>3 DEF Layout

LEMMA RescueNextLayout == IInv /\ Layout /\ RescueNext => Layout'
<1> SUFFICES ASSUME IInv, Layout, RescueNext PROVE Layout'
  OBVIOUS
<1> DEFINE w == TryReserve(st, mapBa, topBa - 1)
<1>f. /\ pc = "rs_front" /\ got = None
      /\ IF w = None THEN pc' = "ld_fail" ELSE WriteRange(w, topBa, "rs_next")
      /\ UNCHANGED <<chip, mainBa, backupBa, mapBa, topBa, sigBa, st, mp, cache, got>>
  BY DEF RescueNext, attachV, layout, table
<1>c. Tables' = Tables
  BY <1>f, SameChip
<1>1. \A b \in Tables : \A x \in Blocks :
        MgmtStart <= x /\ x < mainBa' /\ Sound(cells[b].st, x) => Sound(st, x)
  BY <1>f, RsFrontFacts DEF Follows
<1>2. NoneSound(st, MgmtStart, mainBa')
  BY <1>f, RsFrontFacts
<1>3. Ordered'
  BY <1>f, RsFrontFacts DEF Ordered
<1>4. CASE w = None
  <2>n. NoLoop' /\ Laid'
    BY <1>f, <1>4 DEF NoLoop, Laid, WriteReturns
  <2>1. OnChip' /\ Fresh' /\ Remembered'
    BY <1>f, <1>1, <1>2, <2>n, RsFrontFacts, QuietEnd, Quiet
  <2>2. Placed'
    BY <1>f, <1>c, RsFrontFacts DEF Placed
  <2> QED
    BY <1>3, <2>n, <2>1, <2>2, QuietEnd DEF Layout
<1>5. CASE w # None
  <2>1. w \in Int /\ mapBa <= w
    BY <1>5, TryReserveIn, Bounds DEF GoodIn
  <2>w. /\ pc' = "write" /\ rg'.lim = topBa /\ Laid' /\ Stale' = {} /\ Looping'
        /\ rg'.ret = "rs_next" /\ rg'.ba = w
        /\ \A p \in WriteReturns : Going(p)' <=> "rs_next" = p
        /\ ~Going("rs_erased")'
    <3>1. topBa <= topBa'
      BY <1>f, Bounds
    <3> QED
      BY <3>1, <1>5, <1>f, WriteBegins DEF WriteReturns
  <2> HIDE DEF w
  <2>2. OnChip' /\ Fresh' /\ Remembered'
    BY <1>f, <1>1, <1>2, <2>w, RsFrontFacts, Quiet
  <2>3. Ranges'
    BY <1>f, <2>1, <2>w, RsFrontFacts DEF Ranges, WriteReturns
  <2>4. Agreeing' /\ Placed'
    BY <1>f, <1>c, <2>w, RsFrontFacts DEF Agreeing, Placed, WriteReturns
  <2> QED
    BY <1>3, <2>w, <2>2, <2>3, <2>4 DEF Layout
<1> QED
  BY <1>4, <1>5

LEMMA RsNextFacts ==
  ASSUME IInv, Layout, pc = "rs_next"
  PROVE  /\ Laid /\ Stale = {} /\ backupBa = None /\ ~Going("rs_front")
         /\ mainBa < mapBa /\ mapBa <= topBa /\ mapBa <= rg.ba
         /\ got # None => mapBa <= got /\ got < topBa
         /\ \A b \in Tables : b = mainBa \/ (b = got /\ got # None)
<1>1. pc \in WriteReturns /\ Going("rs_next") /\ Laid
  BY DEF WriteReturns, Going, Laid
<1>2. /\ Stale = {} /\ backupBa = None /\ rg.lim = topBa /\ mapBa <= rg.ba
      /\ got # None => mapBa <= got /\ got < topBa
      /\ mainBa < mapBa /\ mapBa <= topBa /\ ~Going("rm_main") /\ ~Going("rs_front")
  BY <1>1, Returned, Bounds DEF Layout, Ranges, Ordered, WriteReturns
<1> QED
  BY <1>1, <1>2, TablesSound DEF Layout, Placed

LEMMA RescueNextLoopLayout == IInv /\ Layout /\ RescueNextLoop => Layout'
<1> SUFFICES ASSUME IInv, Layout, RescueNextLoop PROVE Layout'
  OBVIOUS
<1>f. /\ pc = "rs_next"
      /\ UNCHANGED <<chip, mainBa, backupBa, mapBa, topBa, sigBa, st, mp, cache, got>>
  BY DEF RescueNextLoop, attachV, layout, table
<1>c. Tables' = Tables
  BY <1>f, SameChip
<1>o. Ordered'
  BY <1>f, RsNextFacts DEF Ordered
<1>1. CASE got # None
  <2>f. EraseRange(mapBa, got, "rs_erased")
    BY <1>1 DEF RescueNextLoop
  <2>w. /\ Laid' /\ Stale' = {} /\ Looping'
        /\ \A p \in WriteReturns : ~Going(p)'
        /\ Going("rs_erased")'
    <3>1. got <= topBa'
      BY <1>1, <1>f, RsNextFacts, Bounds
    <3> QED
      BY <2>f, <3>1, EraseBegins DEF WriteReturns, EraseReturns
  <2>1. OnChip' /\ Fresh' /\ Remembered'
    BY <1>f, <2>w, RsNextFacts, QuietPlaces DEF WriteReturns
  <2>2. Ranges' /\ Agreeing'
    BY <1>1, <1>f, <2>w, RsNextFacts DEF Ranges, Agreeing, WriteReturns
  <2>3. Placed'
    BY <1>1, <1>f, <1>c, <2>w, RsNextFacts DEF Placed
  <2> QED
    BY <1>o, <2>w, <2>1, <2>2, <2>3 DEF Layout
<1>2. CASE got = None /\ wba > mapBa
  <2>f. WriteRange(wba - 1, topBa, "rs_next")
    BY <1>2 DEF RescueNextLoop, RetryBelow
  <2>w. /\ pc' = "write" /\ rg'.lim = topBa /\ Laid' /\ Stale' = {} /\ Looping'
        /\ rg'.ret = "rs_next" /\ rg'.ba = wba - 1
        /\ \A p \in WriteReturns : Going(p)' <=> "rs_next" = p
        /\ ~Going("rs_erased")'
    <3>1. topBa <= topBa'
      BY <1>f, Bounds
    <3> QED
      BY <3>1, <2>f, WriteBegins DEF WriteReturns
  <2>1. OnChip' /\ Fresh' /\ Remembered'
    BY <1>f, <2>w, RsNextFacts, QuietPlaces
  <2>2. Ranges'
    BY <1>2, <1>f, <2>w, RsNextFacts, Bounds DEF Ranges, WriteReturns
  <2>3. Agreeing' /\ Placed'
    BY <1>2, <1>f, <1>c, <2>w, RsNextFacts DEF Agreeing, Placed, WriteReturns
  <2> QED
    BY <1>o, <2>w, <2>1, <2>2, <2>3 DEF Layout
<1>3. CASE got = None /\ ~(wba > mapBa)
  <2>n. NoLoop' /\ Laid'
    BY <1>3 DEF RescueNextLoop, NoLoop, Laid, WriteReturns
  <2>1. OnChip' /\ Fresh' /\ Remembered'
    BY <1>f, <2>n, RsNextFacts, QuietEnd, QuietPlaces
  <2>2. Placed'
    BY <1>3, <1>f, <1>c, RsNextFacts DEF Placed
  <2> QED
    BY <1>o, <2>n, <2>1, <2>2, QuietEnd DEF Layout
<1> QED
  BY <1>1, <1>2, <1>3

LEMMA RescueNextDoneLayout == IInv /\ Layout /\ RescueNextDone => Layout'
<1> SUFFICES ASSUME IInv, Layout, RescueNextDone PROVE Layout'
  OBVIOUS
<1>f. /\ pc = "rs_erased" /\ backupBa' = got /\ mapBa' = got + 1 /\ pc' = "ld_ok"
      /\ UNCHANGED <<chip, mainBa, topBa, sigBa, st, mp, cache, got>>
  BY DEF RescueNextDone, attachV, ctl
<1>n. NoLoop' /\ Laid' /\ Laid /\ Going("rs_erased") /\ Stale = {}
      /\ ~Going("rs_front") /\ ~Going("rm_main")
  BY <1>f DEF NoLoop, Laid, Going, WriteReturns, Stale
<1>m. /\ mapBa <= got /\ got < topBa /\ backupBa = None
      /\ mainBa < mapBa
  BY <1>n DEF Layout, Ranges, Ordered
<1>c. Tables' = Tables
  BY <1>f, SameChip
<1>1. OnChip' /\ Fresh' /\ Remembered'
  BY <1>f, <1>n, QuietEnd, QuietPlaces
<1>2. Ordered'
  BY <1>f, <1>m, Bounds DEF Ordered
<1>3. Placed'
  BY <1>f, <1>n, <1>m, <1>c, TablesSound DEF Layout, Placed
<1> QED
  BY <1>n, <1>1, <1>2, <1>3, QuietEnd DEF Layout

\* nmbm_update_single_info_table after its loop
LEMMA UsMainFacts ==
  ASSUME IInv, Layout, pc = "us_main"
  PROVE  /\ Laid /\ Stale = {} /\ backupBa # None /\ backupBa \in Int
         /\ mainBa < backupBa /\ backupBa < mapBa /\ mapBa <= topBa
         /\ got # None => got < backupBa
         /\ NoneSound(st, MgmtStart, IF got = None THEN backupBa ELSE got)
         /\ \A b \in Tables : b = backupBa \/ (b = got /\ got # None)
         /\ \A b \in Tables : cells[b].st = cache.st
<1>1. pc \in WriteReturns /\ Going("us_main") /\ Laid /\ backupBa # None
  BY DEF WriteReturns, Going, IInv, TablesKnown, Laid
<1>2. /\ Stale = {} /\ ~Going("rs_front") /\ ~Going("rm_main") /\ ~Going("rs_erased")
      /\ rg.lim = backupBa /\ mainBa <= rg.ba
      /\ mainBa < backupBa /\ backupBa < mapBa /\ mapBa <= topBa
      /\ NoneSound(st, mainBa, IF got = None THEN backupBa ELSE got)
      /\ got # None => got = rg.ba /\ got < backupBa /\ got \in Tables /\ cells[got] = cache
      /\ backupBa \in Tables => cells[backupBa].st = cache.st
  BY <1>1, Returned, Bounds DEF Layout, Ranges, Ordered, Agreeing, WriteReturns
<1>3. NoneSound(st, MgmtStart, mainBa)
  BY <1>1, <1>2 DEF Layout, Remembered
<1>4. NoneSound(st, MgmtStart, IF got = None THEN backupBa ELSE got)
  BY <1>2, <1>3, Bounds DEF NoneSound
<1>5. ASSUME NEW b \in Tables PROVE b = backupBa \/ (b = got /\ got # None)
  <2>1. b \in Blocks /\ b # None /\ (b = mainBa \/ b = backupBa \/ b = got)
    BY <1>1, <1>2, TablesSound DEF Layout, Placed
  <2>2. ~(mainBa <= b /\ b < IF got = None THEN backupBa ELSE got)
    BY <1>1, <1>2, PassedTable
  <2>3. CASE b = mainBa
    BY <2>1, <2>2, <2>3, <1>2, Bounds
  <2> QED
    BY <2>1, <2>3
<1>6. \A b \in Tables : cells[b].st = cache.st
  BY <1>2, <1>5
<1> QED
  BY <1>1, <1>2, <1>4, <1>5, <1>6, Bounds

LEMMA UsBackupFacts ==
  ASSUME IInv, Layout, pc = "us_backup"
  PROVE  /\ Laid /\ Stale = {} /\ backupBa # None /\ ~Going("rs_front")
         /\ mainBa < backupBa /\ backupBa < mapBa /\ mapBa <= topBa
         /\ got # None => backupBa <= got /\ got < topBa
         /\ \A b \in Tables : b = mainBa \/ (b = got /\ got # None)
<1>1. pc \in WriteReturns /\ Going("us_backup") /\ Laid /\ backupBa # None
  BY DEF WriteReturns, Going, IInv, TablesKnown, Laid
<1>2. /\ Stale = {} /\ ~Going("rs_front") /\ ~Going("rm_main") /\ ~Going("rs_erased")
      /\ rg.lim = topBa /\ backupBa <= rg.ba
      /\ mainBa < backupBa /\ backupBa < mapBa /\ mapBa <= topBa
      /\ NoneSound(st, backupBa, IF got = None THEN topBa ELSE got)
      /\ got # None => got = rg.ba /\ got < topBa
  BY <1>1, Returned, Bounds DEF Layout, Ranges, Ordered, WriteReturns
<1>3. ASSUME NEW b \in Tables PROVE b = mainBa \/ (b = got /\ got # None)
  <2>1. b \in Blocks /\ b # None /\ (b = mainBa \/ b = backupBa \/ b = got)
    BY <1>1, <1>2, TablesSound DEF Layout, Placed
  <2>2. ~(backupBa <= b /\ b < IF got = None THEN topBa ELSE got)
    BY <1>1, <1>2, PassedTable
  <2>3. CASE b = backupBa
    BY <2>1, <2>2, <2>3, <1>2, Bounds
  <2> QED
    BY <2>1, <2>3
<1> QED
  BY <1>1, <1>2, <1>3

LEMMA UpdateSingleLayout == IInv /\ Layout /\ UpdateSingle => Layout'
<1> SUFFICES ASSUME IInv, Layout, UpdateSingle PROVE Layout'
  OBVIOUS
<1>f. /\ pc \in {"us_main", "us_backup"} /\ got # None /\ pc' = "ld_ok"
      /\ IF pc = "us_main" THEN mainBa' = got /\ UNCHANGED <<backupBa, mapBa>>
         ELSE backupBa' = got /\ mapBa' = got + 1 /\ UNCHANGED mainBa
      /\ UNCHANGED <<chip, topBa, sigBa, st, mp, cache>>
  BY DEF UpdateSingle, attachV, ctl
<1>n. NoLoop' /\ Laid'
  BY <1>f DEF NoLoop, WriteReturns, Laid
<1>c. Tables' = Tables
  BY <1>f, SameChip
<1>1. CASE pc = "us_main"
  <2>1. ASSUME NEW b \in Tables, NEW x \in Blocks, MgmtStart <= x, x < got,
               Sound(cells[b].st, x)
        PROVE  Sound(st, x)
    <3>1. cells[b].st = cache.st /\ x <= topBa /\ Laid
      BY <1>1, <1>f, <2>1, UsMainFacts, Bounds
    <3> QED
      BY <2>1, <3>1 DEF Layout, Remembered
  <2>2. OnChip' /\ Fresh' /\ Remembered'
    BY <1>1, <1>f, <1>n, <2>1, UsMainFacts, QuietEnd, Quiet
  <2>3. Ordered' /\ Placed'
    BY <1>1, <1>f, <1>c, UsMainFacts, Bounds DEF Ordered, Placed
  <2> QED
    BY <1>n, <2>2, <2>3, QuietEnd DEF Layout
<1>2. CASE pc = "us_backup"
  <2>1. OnChip' /\ Fresh' /\ Remembered'
    BY <1>2, <1>f, <1>n, UsBackupFacts, QuietEnd, QuietPlaces
  <2>2. Ordered' /\ Placed'
    BY <1>2, <1>f, <1>c, UsBackupFacts, Bounds DEF Ordered, Placed
  <2> QED
    BY <1>n, <2>1, <2>2, QuietEnd DEF Layout
<1> QED
  BY <1>f, <1>1, <1>2

LEMMA UpdateSingleFailsLayout == IInv /\ Layout /\ UpdateSingleFails => Layout'
<1> SUFFICES ASSUME IInv, Layout, UpdateSingleFails PROVE Layout'
  OBVIOUS
<1>f. /\ pc \in {"us_main", "us_backup"} /\ got = None /\ backupBa' = None
      /\ IF pc = "us_main"
         THEN mainBa' = backupBa /\ mapBa' = mapBa
              /\ WriteRange(MgmtStart, backupBa, "rs_front")
         ELSE mapBa' = backupBa /\ mainBa' = mainBa /\ pc' = "ld_fail"
      /\ UNCHANGED <<chip, topBa, sigBa, st, mp, cache>>
  BY DEF UpdateSingleFails, attachV, table
<1>c. Tables' = Tables
  BY <1>f, SameChip
<1>1. CASE pc = "us_main"
  <2>1. ASSUME NEW b \in Tables, NEW x \in Blocks, MgmtStart <= x, x < backupBa,
               Sound(cells[b].st, x)
        PROVE  Sound(st, x)
    <3>1. cells[b].st = cache.st /\ x <= topBa /\ Laid
      BY <1>1, <1>f, <2>1, UsMainFacts, Bounds
    <3> QED
      BY <2>1, <3>1 DEF Layout, Remembered
  <2>w. /\ pc' = "write" /\ rg'.lim = backupBa /\ Laid' /\ Stale' = {} /\ Looping'
        /\ rg'.ret = "rs_front" /\ rg'.ba = MgmtStart /\ UpTo' = rg'.ba
        /\ \A p \in WriteReturns : Going(p)' <=> "rs_front" = p
        /\ ~Going("rs_erased")'
    <3>1. backupBa <= topBa'
      BY <1>1, <1>f, UsMainFacts, Bounds
    <3> QED
      BY <3>1, <1>1, <1>f, WriteBegins DEF WriteReturns
  <2>2. OnChip' /\ Fresh' /\ Remembered'
    BY <1>1, <1>f, <2>1, <2>w, UsMainFacts, Quiet DEF WriteReturns
  <2>3. Ordered'
    BY <1>1, <1>f, UsMainFacts DEF Ordered
  <2>4. Ranges'
    BY <1>1, <1>f, <2>w, Bounds DEF Ranges, Passing, NoneSound, WriteReturns
  <2>5. Agreeing' /\ Placed'
    BY <1>1, <1>f, <1>c, <2>w, UsMainFacts DEF Agreeing, Placed, WriteReturns
  <2> QED
    BY <2>w, <2>2, <2>3, <2>4, <2>5 DEF Layout
<1>2. CASE pc = "us_backup"
  <2>n. NoLoop' /\ Laid'
    BY <1>2, <1>f DEF NoLoop, WriteReturns, Laid
  <2>1. OnChip' /\ Fresh' /\ Remembered'
    BY <1>2, <1>f, <2>n, UsBackupFacts, QuietEnd, QuietPlaces
  <2>2. Ordered' /\ Placed'
    BY <1>2, <1>f, <1>c, UsBackupFacts, Bounds DEF Ordered, Placed
  <2> QED
    BY <2>n, <2>1, <2>2, QuietEnd DEF Layout
<1> QED
  BY <1>f, <1>1, <1>2

LEMMA LoadDoneLayout == IInv /\ Layout /\ LoadDone => Layout'
<1> SUFFICES ASSUME IInv, Layout, LoadDone PROVE Layout'
  OBVIOUS
<1>f. /\ pc \in {"ld_ok", "ld_fail"} /\ pc' = "idle"
      /\ UNCHANGED <<chip, mainBa, backupBa, mapBa, topBa, sigBa, st, mp, cache>>
  BY DEF LoadDone, layout, table, Return
<1>n. NoLoop' /\ Laid' /\ NoLoop /\ Laid
  BY <1>f DEF NoLoop, Laid, WriteReturns
<1>c. Tables' = Tables
  BY <1>f, SameChip
<1>1. OnChip' /\ Fresh' /\ Remembered'
  BY <1>f, <1>n, NoLoopLayout, QuietEnd, QuietPlaces DEF WriteReturns
<1>2. Ordered' /\ Placed'
  BY <1>f, <1>n, <1>c, NoLoopLayout
  DEF Layout, Ordered, Placed, NoLoop, WriteReturns
<1> QED
  BY <1>1, <1>2, <1>n, QuietEnd DEF Layout

LEMMA LoadStepLayout == IInv /\ Layout /\ LoadStep => Layout'
BY RescueFrontLayout, RescueNextLayout, RescueNextLoopLayout,
   RescueNextDoneLayout, UpdateSingleLayout, UpdateSingleFailsLayout,
   LoadDoneLayout DEF LoadStep

-----------------------------------------------------------------------------
(* The steps that serve a request, and the mapping of logical blocks: the    *)
(* tables stay, and block states change outside of their area.               *)

LEMMA Between ==
  ASSUME IInv, Layout, Laid, Laid', NoLoop, NoLoop',
         SigBlocks' = SigBlocks, Tables' = Tables, badmark \subseteq badmark',
         \A b \in Tables : cells'[b] = cells[b],
         UNCHANGED <<mainBa, backupBa, mapBa, sigBa, cache>>,
         topBa' \in Int, mapBa <= topBa', topBa' <= topBa,
         Clear(mp', topBa', sigBa), OneToOne(mp'), Ages(st, st'),
         \A x \in Blocks : MgmtStart <= x /\ x <= topBa =>
           st'[x] = st[x] /\ (x \in badmark' <=> x \in badmark)
  PROVE  Layout'
<1>1. OnChip'
  BY FewerTables DEF Layout
<1>2. Fresh'
  BY DEF Fresh, Laid
<1>3. Ordered'
  BY DEF Layout, Ordered
<1>p. \A b \in Tables : b = mainBa \/ b = backupBa
  BY NoLoopLayout DEF Layout, Placed, NoLoop, WriteReturns
<1>4. Placed'
  BY <1>p DEF Placed
<1>b. /\ MgmtStart \in Int /\ mainBa \in Int /\ topBa \in Int /\ mapBa \in Int
      /\ mainBa < mapBa /\ mapBa <= topBa
      /\ \A b \in Blocks : b \in Int
  BY Bounds DEF Layout, Ordered
<1>5. \A x \in Blocks : MgmtStart <= x /\ x <= topBa =>
         (Sound(st, x)' <=> Sound(st, x))
  BY DEF Sound
<1>6. ASSUME NEW b \in Tables PROVE Follows(b)'
  <2>1. /\ Follows(b) /\ b \in Blocks /\ MgmtStart <= b /\ b <= topBa
    <3>1. Follows(b) /\ b \in Blocks /\ MgmtStart <= b /\ b # None
      BY TablesSound
    <3>2. b < mapBa
      BY <3>1, <1>p DEF Layout, Ordered
    <3> QED
      BY <3>1, <3>2, <1>b
  <2>2. Clear(cells[b].mp, topBa', sigBa)
    <3>1. Clear(cells[b].mp, topBa, sigBa)
      BY <2>1, NoLoopLayout DEF Follows
    <3>2. cells[b].mp \in [LBs -> Blocks \cup {Unmapped}]
      BY TableFacts
    <3> QED
      BY <3>1, <3>2, <1>b, ClearBelow
  <2>3. \A x \in Blocks : MgmtStart <= x /\ x < mainBa /\ Sound(cells[b].st, x)'
                           => Sound(st, x)'
    <3> SUFFICES ASSUME NEW x \in Blocks, MgmtStart <= x, x < mainBa,
                        Sound(cells[b].st, x)'
                 PROVE  Sound(st, x)'
      OBVIOUS
    <3>1. cells'[b] = cells[b] /\ Sound(cells[b].st, x)
      BY DEF Sound
    <3>2. Sound(st, x)
      BY <2>1, <3>1 DEF Follows
    <3> QED
      BY <3>2, <1>5, <1>b
  <2>4. st'[b] = "good" /\ cells'[b] = cells[b] /\ cache' = cache
    BY <2>1 DEF Follows
  <2> QED
    BY <2>1, <2>2, <2>3, <2>4, <1>b DEF Follows, Ages, Sound, Clear
<1>7. Clear(cache.mp, topBa', sigBa) /\ OneToOne(cache.mp)
  BY <1>b, TableFacts, ClearBelow DEF Layout, Remembered
<1>8. Ages(cache.st, st')
  BY DEF Layout, Remembered, Ages
<1>9. \A x \in Blocks : MgmtStart <= x /\ x <= topBa' =>
         (Sound(cache.st, x)' <=> Sound(st, x)')
  BY <1>5, <1>b DEF Layout, Remembered, Sound
<1>10. NoneSound(st, MgmtStart, mainBa)'
  <2>1. NoneSound(st, MgmtStart, mainBa)
    BY NoLoopLayout DEF Layout, Remembered, WriteReturns
  <2> QED
    BY <2>1, <1>5, <1>b DEF NoneSound, Sound
<1>11. Remembered'
  BY <1>6, <1>7, <1>8, <1>9, <1>10, <1>b
  DEF Layout, Remembered, Clear, OneToOne, Ages, Sound
<1> QED
  BY <1>1, <1>2, <1>3, <1>4, <1>11, QuietEnd DEF Layout

\* a block that a logical block is mapped to holds no table and no signature
LEMMA HomeFacts ==
  ASSUME IInv, Layout, Laid, NoLoop, NEW l \in LBs, mp[l] # Unmapped
  PROVE  /\ mp[l] \in Blocks /\ mp[l] \notin SigBlocks /\ mp[l] \notin Tables
         /\ ~(MgmtStart <= mp[l] /\ mp[l] <= topBa)
<1>1. mp[l] \in Blocks /\ mp[l] \in Int
  BY Bounds DEF IInv, TypeOK
<1>2. mp[l] < sigBa /\ (mp[l] < MgmtStart \/ topBa < mp[l])
  BY DEF Layout, Remembered, Clear
<1>3. \A s \in SigBlocks : s = sigBa
  BY DEF Layout, Remembered, OnChip
<1>4. \A b \in Tables : b \in Blocks /\ MgmtStart <= b /\ b <= topBa
  <2> SUFFICES ASSUME NEW b \in Tables
               PROVE  b \in Blocks /\ MgmtStart <= b /\ b <= topBa
    OBVIOUS
  <2>1. b \in Blocks /\ MgmtStart <= b /\ b # None
    BY TablesSound
  <2>2. b = mainBa \/ b = backupBa
    BY NoLoopLayout DEF Layout, Placed, NoLoop, WriteReturns
  <2> QED
    BY <2>1, <2>2, Bounds DEF Layout, Ordered
<1> QED
  BY <1>1, <1>2, <1>3, <1>4, Bounds

\* the steps that leave the chip, the mapping and the block states alone
LEMMA BetweenQuiet ==
  ASSUME IInv, Layout, Laid, Laid', NoLoop, NoLoop',
         UNCHANGED <<chip, mainBa, backupBa, mapBa, topBa, sigBa, st, mp, cache>>
  PROVE  Layout'
<1>1. /\ SigBlocks' = SigBlocks /\ Tables' = Tables
      /\ cells' = cells /\ badmark' = badmark
  BY SameChip
<1>2. Clear(mp', topBa', sigBa) /\ OneToOne(mp')
  BY DEF Layout, Remembered, Clear, OneToOne
<1>3. topBa' \in Int /\ mapBa <= topBa' /\ topBa' <= topBa
  BY Bounds DEF Layout, Ordered
<1> QED
  BY <1>1, <1>2, <1>3, Between DEF Ages

\* the steps that erase, program or give up the home of a logical block
LEMMA BetweenHome ==
  ASSUME IInv, Layout, Laid, Laid', NoLoop, NoLoop',
         NEW l \in LBs, mp[l] # Unmapped, NEW c, c.kind # "sig", c.kind # "table",
         cells' = cells \/ cells' = [cells EXCEPT ![mp[l]] = c],
         badmark' = badmark \/ badmark' = badmark \cup {mp[l]},
         NEW s, s # "good", st' = st \/ st' = [st EXCEPT ![mp[l]] = s],
         mp' = mp \/ mp' = [mp EXCEPT ![l] = Unmapped],
         UNCHANGED <<mainBa, backupBa, mapBa, topBa, sigBa, cache>>
  PROVE  Layout'
<1>h. /\ mp[l] \in Blocks /\ mp[l] \notin SigBlocks /\ mp[l] \notin Tables
      /\ ~(MgmtStart <= mp[l] /\ mp[l] <= topBa)
  BY HomeFacts
<1>t. st \in [Blocks -> States] /\ cells \in [Blocks -> Cell]
      /\ mp \in [LBs -> Blocks \cup {Unmapped}]
  BY DEF IInv, TypeOK
<1>1. /\ \A b \in Blocks : b # mp[l] => cells'[b] = cells[b]
      /\ \/ cells'[mp[l]] = cells[mp[l]]
         \/ cells'[mp[l]] = c
      /\ badmark \subseteq badmark'
      /\ \A b \in Blocks : b # mp[l] => (b \in badmark' <=> b \in badmark)
  <2>1. CASE cells' = cells
    BY <2>1
  <2>2. CASE cells' = [cells EXCEPT ![mp[l]] = c]
    BY <2>2, <1>h, <1>t
  <2> QED
    BY <2>1, <2>2
<1>2. SigBlocks' = SigBlocks
  BY <1>1, <1>h DEF SigBlocks
<1>3. Tables' = Tables /\ \A b \in Tables : cells'[b] = cells[b]
  BY <1>1, <1>h DEF Tables
<1>4. /\ \A x \in Blocks : x # mp[l] => st'[x] = st[x]
      /\ st'[mp[l]] = st[mp[l]] \/ st'[mp[l]] = s
  BY <1>h, <1>t
<1>5. Ages(st, st')
  BY <1>4 DEF Ages
<1>6. \A x \in Blocks : MgmtStart <= x /\ x <= topBa =>
        st'[x] = st[x] /\ (x \in badmark' <=> x \in badmark)
  BY <1>1, <1>4, <1>h
<1>7. Clear(mp', topBa', sigBa) /\ OneToOne(mp')
  <2>1. Clear(mp, topBa, sigBa) /\ OneToOne(mp)
    BY DEF Layout, Remembered
  <2>2. Unmapped < sigBa /\ Unmapped < MgmtStart
    BY Bounds DEF Unmapped
  <2>3. \A k \in LBs : mp'[k] = mp[k] \/ mp'[k] = Unmapped
    BY <1>t
  <2> QED
    BY <2>1, <2>2, <2>3 DEF Clear, OneToOne
<1>8. topBa' \in Int /\ mapBa <= topBa' /\ topBa' <= topBa
  BY Bounds DEF Layout, Ordered
<1> QED
  BY <1>1, <1>2, <1>3, <1>5, <1>6, <1>7, <1>8, Between

LEMMA EraseStepLayout ==
  IInv /\ Serving /\ Layout /\ EraseStep /\ ~stepped' => Layout'
<1> SUFFICES ASSUME IInv, Serving, Layout, EraseStep, ~stepped' PROVE Layout'
  OBVIOUS
<1> USE DEF layout, table, attachV, ctl, ghost, bounds
<1>a. /\ pc \in {"e_try", "e_map", "e_close", "c_map"} /\ Laid /\ NoLoop
      /\ pc # "c_map" => op.lb \in LBs
  BY DEF EraseStep, EraseRemaps, EraseOk, EraseFails, MapBlock, MapBlockNone,
         EraseUnmaps, Laid, NoLoop, WriteReturns, Serving
<1>b. \A ret : Update(ret) => Laid' /\ NoLoop'
  BY DEF Update, Laid, NoLoop, WriteReturns
<1>c. /\ Empty.kind # "sig" /\ Empty.kind # "table"
      /\ Torn.kind # "sig" /\ Torn.kind # "table"
  BY DEF Empty, Torn
<1>1. CASE EraseRemaps
  <2>1. /\ pc' = "e_map" /\ op.lb \in LBs /\ Pb # Unmapped
        /\ st' = st \/ st' = [st EXCEPT ![Pb] = "bad"]
        /\ UNCHANGED <<chip, mainBa, backupBa, mapBa, topBa, sigBa, mp, cache>>
    BY <1>1, <1>a DEF EraseRemaps
  <2>2. NoLoop' /\ Laid' /\ cells' = cells /\ badmark' = badmark
    BY <2>1 DEF NoLoop, Laid, WriteReturns, chip
  <2> QED
    BY <1>a, <1>c, <2>1, <2>2, BetweenHome DEF Pb
<1>2. CASE EraseOk
  <2>1. /\ pc' = "idle" /\ op.lb \in LBs /\ Pb # Unmapped
        /\ cells' = [cells EXCEPT ![Pb] = Empty]
        /\ UNCHANGED <<badmark, mainBa, backupBa, mapBa, topBa, sigBa, st, mp, cache>>
    BY <1>2, <1>a DEF EraseOk, Usable, Return
  <2>2. NoLoop' /\ Laid'
    BY <2>1 DEF NoLoop, Laid, WriteReturns
  <2> QED
    BY <1>a, <1>c, <2>1, <2>2, BetweenHome DEF Pb
<1>3. CASE EraseFails
  <2>1. /\ pc' = "e_map" /\ op.lb \in LBs /\ Pb # Unmapped
        /\ cells' = [cells EXCEPT ![Pb] = Torn] /\ badmark' = badmark \cup {Pb}
        /\ st' = [st EXCEPT ![Pb] = "bad"]
        /\ UNCHANGED <<mainBa, backupBa, mapBa, topBa, sigBa, mp, cache>>
    BY <1>3, <1>a DEF EraseFails, Fails, Usable
  <2>2. NoLoop' /\ Laid'
    BY <2>1 DEF NoLoop, Laid, WriteReturns
  <2> QED
    BY <1>a, <1>c, <2>1, <2>2, BetweenHome DEF Pb
<1>o. /\ mainBa < mapBa /\ mapBa <= topBa /\ topBa < sigBa
      /\ MgmtStart <= topBa
      /\ Clear(mp, topBa, sigBa) /\ OneToOne(mp)
      /\ mp \in [LBs -> Blocks \cup {Unmapped}]
      /\ \A l \in LBs : mp[l] \in Int
  BY <1>a, Bounds, ChipFacts
  DEF Layout, Ordered, Remembered, IInv, TypeOK, Unmapped
<1>4. CASE MapBlock
  <2>1. /\ SpareBlock = topBa /\ mapBa # topBa /\ topBa' = topBa - 1
        /\ mp' = [mp EXCEPT ![Lb] = topBa]
        /\ UNCHANGED <<chip, mainBa, backupBa, mapBa, sigBa, st, cache>>
    BY <1>4 DEF MapBlock, CanMap
  <2>2. NoLoop' /\ Laid'
    <3>1. CASE pc = "c_map"
      BY <1>4, <3>1 DEF MapBlock, MapReturn, NoLoop, Laid, WriteReturns
    <3>2. CASE pc # "c_map"
      BY <1>4, <3>2, <1>b DEF MapBlock, MapReturn
    <3> QED
      BY <3>1, <3>2
  <2>3. topBa' \in Int /\ mapBa <= topBa' /\ topBa' <= topBa
    BY <2>1, <1>o, Bounds
  <2>4. \A l \in LBs : mp'[l] = mp[l] \/ (mp'[l] = topBa /\ l = Lb)
    BY <2>1, <1>o
  <2>5. Clear(mp', topBa', sigBa)
    <3>1. Clear(mp, topBa', sigBa)
      BY <1>o, <2>3, Bounds, ClearBelow
    <3> QED
      BY <2>1, <2>4, <3>1, <1>o, Bounds DEF Clear
  <2>6. OneToOne(mp')
    <3>1. \A l \in LBs : mp[l] # topBa
      BY <1>o, Bounds DEF Clear
    <3> QED
      BY <2>4, <3>1, <1>o DEF OneToOne
  <2>7. /\ SigBlocks' = SigBlocks /\ Tables' = Tables
        /\ cells' = cells /\ badmark' = badmark
    BY <2>1, SameChip
  <2> QED
    BY <1>a, <2>1, <2>2, <2>3, <2>5, <2>6, <2>7, Between DEF Ages
<1>5. CASE MapBlockNone
  BY <1>5, <1>a, <1>b, BetweenQuiet DEF MapBlockNone
<1>6. CASE EraseUnmaps
  <2>1. /\ topBa' = mapBa /\ mp' = [mp EXCEPT ![op.lb] = Unmapped]
        /\ UNCHANGED <<chip, mainBa, backupBa, mapBa, sigBa, st, cache>>
        /\ NoLoop' /\ Laid'
    BY <1>6, <1>b DEF EraseUnmaps
  <2>2. topBa' \in Int /\ mapBa <= topBa' /\ topBa' <= topBa
    BY <2>1, <1>o, Bounds
  <2>3. \A l \in LBs : mp'[l] = mp[l] \/ mp'[l] = Unmapped
    BY <2>1, <1>o
  <2>4. Clear(mp', topBa', sigBa)
    <3>1. Clear(mp, topBa', sigBa)
      BY <1>o, <2>2, Bounds, ClearBelow
    <3> QED
      BY <2>3, <3>1, <1>o, Bounds DEF Clear, Unmapped
  <2>5. OneToOne(mp')
    BY <2>3, <1>o DEF OneToOne
  <2>6. /\ SigBlocks' = SigBlocks /\ Tables' = Tables
        /\ cells' = cells /\ badmark' = badmark
    BY <2>1, SameChip
  <2> QED
    BY <1>a, <2>1, <2>2, <2>4, <2>5, <2>6, Between DEF Ages
<1> QED
  BY <1>1, <1>2, <1>3, <1>4, <1>5, <1>6 DEF EraseStep

LEMMA OtherStepLayout ==
  IInv /\ Serving /\ Layout /\ (WriteStep \/ OpRefused \/ ReportBad \/ EndDetach)
    => Layout'
<1> SUFFICES ASSUME IInv, Serving, Layout,
                    WriteStep \/ OpRefused \/ ReportBad \/ EndDetach
             PROVE  Layout'
  OBVIOUS
<1> USE DEF layout, table, attachV, ctl, ghost, bounds
<1>a. /\ pc \in {"e_try", "p_try", "bad", "detached"} /\ Laid /\ NoLoop
      /\ pc = "p_try" => op.lb \in LBs
  BY DEF WriteStep, WriteOk, WriteFails, OpRefused, ReportBad, EndDetach,
         Laid, NoLoop, WriteReturns, Serving
<1>b. \A ret : Update(ret) => Laid' /\ NoLoop'
  BY DEF Update, Laid, NoLoop, WriteReturns
<1>r. Return => Laid' /\ NoLoop'
  BY DEF Return, Laid, NoLoop, WriteReturns
<1>1. CASE WriteOk
  <2> DEFINE c == [kind |-> "data", lb |-> op.lb, val |-> op.val]
  <2>1. /\ op.lb \in LBs /\ Pb # Unmapped /\ cells' = [cells EXCEPT ![Pb] = c]
        /\ Laid' /\ NoLoop'
        /\ UNCHANGED <<badmark, mainBa, backupBa, mapBa, topBa, sigBa, st, mp, cache>>
    BY <1>1, <1>a, <1>r DEF WriteOk
  <2>2. c.kind # "sig" /\ c.kind # "table"
    OBVIOUS
  <2> HIDE DEF c
  <2> QED
    BY <1>a, <2>1, <2>2, BetweenHome DEF Pb
<1>2. CASE WriteFails
  <2>1. /\ op.lb \in LBs /\ Pb # Unmapped /\ cells' = [cells EXCEPT ![Pb] = Torn]
        /\ st' = [st EXCEPT ![Pb] = "remap"] /\ Laid' /\ NoLoop'
        /\ UNCHANGED <<badmark, mainBa, backupBa, mapBa, topBa, sigBa, mp, cache>>
    BY <1>2, <1>a, <1>b DEF WriteFails
  <2>2. Torn.kind # "sig" /\ Torn.kind # "table" /\ "remap" # "good"
    BY DEF Torn
  <2> QED
    BY <1>a, <2>1, <2>2, BetweenHome DEF Pb
<1>3. CASE OpRefused
  BY <1>3, <1>a, <1>r, BetweenQuiet DEF OpRefused
<1>4. CASE ReportBad
  BY <1>4, <1>a, <1>r, BetweenQuiet DEF ReportBad
<1>5. CASE EndDetach
  BY <1>5, SameChip, ForgetLayout DEF EndDetach, Layout
<1> QED
  BY <1>1, <1>2, <1>3, <1>4, <1>5 DEF WriteStep

LEMMA RequestLayout == IInv /\ Layout /\ Request => Layout'
<1> SUFFICES ASSUME IInv, Layout, Request PROVE Layout'
  OBVIOUS
<1> USE DEF layout, table, attachV, ctl, ghost, bounds
<1>a. pc = "idle" /\ Laid /\ NoLoop
  BY DEF Request, BeginErase, BeginWrite, MarkBlockBad, BeginDetach, Read,
         Served, Laid, NoLoop, WriteReturns
<1>b. \A ret : Update(ret) => Laid' /\ NoLoop'
  BY DEF Update, Laid, NoLoop, WriteReturns
<1>1. ASSUME NEW lb \in LBs, BeginErase(lb) PROVE Layout'
  BY <1>1, <1>a, BetweenQuiet DEF BeginErase, Laid, NoLoop, WriteReturns
<1>2. ASSUME NEW lb \in LBs, NEW v \in Values, BeginWrite(lb, v) PROVE Layout'
  BY <1>2, <1>a, BetweenQuiet DEF BeginWrite, Laid, NoLoop, WriteReturns
<1>3. ASSUME NEW lb \in LBs, MarkBlockBad(lb) PROVE Layout'
  <2>1. CASE mp[lb] = Unmapped
    <3>1. /\ pc' = "bad"
          /\ UNCHANGED <<chip, mainBa, backupBa, mapBa, topBa, sigBa, st, mp, cache>>
      BY <1>3, <2>1 DEF MarkBlockBad, chip
    <3> QED
      BY <3>1, <1>a, BetweenQuiet DEF Laid, NoLoop, WriteReturns
  <2>2. CASE mp[lb] # Unmapped
    <3>1. /\ cells' = cells /\ badmark' = badmark \cup {mp[lb]}
          /\ st' = [st EXCEPT ![mp[lb]] = "bad"]
          /\ mp' = [mp EXCEPT ![lb] = Unmapped] /\ Laid' /\ NoLoop'
          /\ UNCHANGED <<mainBa, backupBa, mapBa, topBa, sigBa, cache>>
      BY <1>3, <2>2, <1>b DEF MarkBlockBad
    <3>2. Empty.kind # "sig" /\ Empty.kind # "table" /\ "bad" # "good"
      BY DEF Empty
    <3> QED
      BY <1>a, <2>2, <3>1, <3>2, BetweenHome
  <2> QED
    BY <2>1, <2>2
<1>4. CASE BeginDetach
  BY <1>4, <1>a, <1>b, BetweenQuiet DEF BeginDetach
<1>5. CASE Read
  <2>1. /\ pc' = pc
        /\ UNCHANGED <<chip, mainBa, backupBa, mapBa, topBa, sigBa, st, mp, cache>>
    BY <1>5 DEF Read, vars
  <2> QED
    BY <2>1, <1>a, BetweenQuiet DEF Laid, NoLoop, WriteReturns
<1> QED
  BY <1>1, <1>2, <1>3, <1>4, <1>5 DEF Request

LEMMA PowerCutLayout == IInv /\ Serving /\ Layout /\ PowerCut => Layout'
<1> SUFFICES ASSUME IInv, Serving, Layout, PowerCut PROVE Layout'
  OBVIOUS
<1>1. Forget /\ badmark' = badmark /\ pc # "off"
  BY DEF PowerCut
<1>2. CASE cells' = cells
  BY <1>1, <1>2, SameChip, ForgetLayout DEF chip, Layout
<1>3. ASSUME NEW b \in InFlight, cells' = [cells EXCEPT ![b] = Torn]
      PROVE  Layout'
  <2>1. b \in Blocks /\ b \notin SigBlocks
    <3>1. CASE RangeLoop
      BY <3>1, <1>3, HereIs, LoopFacts DEF InFlight, RangeLoop
    <3>2. CASE pc = "prog"
      BY <3>2, <1>3, LoopFacts DEF InFlight, RangeLoop
    <3>3. CASE pc = "sig"
      <4>1. b = SigHere
        BY <3>3, <1>3 DEF InFlight, RangeLoop
      <4>2. SigHere \in Blocks
        BY WalkDescIn DEF SigHere
      <4> QED
        BY <3>3, <4>1, <4>2 DEF Layout, Fresh
    <3>4. CASE pc = "sig_prog"
      BY <3>4, <1>3 DEF InFlight, RangeLoop, Layout, Fresh, IInv, LocalsOk
    <3>5. CASE pc \in {"e_try", "p_try"}
      <4>1. b = Pb /\ Pb # Unmapped /\ op.lb \in LBs
        BY <3>5, <1>3 DEF InFlight, RangeLoop, Usable, Serving
      <4>2. Laid /\ NoLoop
        BY <3>5 DEF Laid, NoLoop, WriteReturns
      <4> QED
        BY <4>1, <4>2, HomeFacts DEF Pb
    <3> QED
      BY <3>1, <3>2, <3>3, <3>4, <3>5, <1>3 DEF InFlight
  <2>2. OnChip'
    BY <2>1, <1>1, <1>3, OneBlock DEF Torn, Layout
  <2> QED
    BY <1>1, <2>2, ForgetLayout
<1> QED
  BY <1>2, <1>3 DEF PowerCut

-----------------------------------------------------------------------------
(* The first tables of a chip: nmbm_create_new and nmbm_create_info_table. *)

LEMMA SigStepLayout == IInv /\ Layout /\ (SigErase \/ SigProgram \/ SigFails) => Layout'
<1> SUFFICES ASSUME IInv, Layout, SigErase \/ SigProgram \/ SigFails PROVE Layout'
  OBVIOUS
<1> USE DEF layout, table, attachV, ctl, ghost, bounds
<1>a. /\ pc \in {"sig", "sig_prog"} /\ SigBlocks = {} /\ Tables = {}
      /\ OneToOne(mp) /\ \A l \in LBs : mp[l] < MgmtStart
      /\ mp' = mp /\ pc' \in {"sig", "sig_prog", "create"}
  BY DEF SigErase, SigProgram, SigFails, Layout, Fresh, OnChip, Laid
<1>t. cells \in [Blocks -> Cell]
  BY DEF IInv, TypeOK
<1>e. Looping' /\ Ranges' /\ Agreeing' /\ Ordered' /\ Remembered' /\ Placed'
  BY <1>a
  DEF Looping, Ranges, Agreeing, Ordered, Remembered, Placed, Laid, Going, WriteReturns
<1>m. OneToOne(mp)' /\ \A l \in LBs : mp'[l] < MgmtStart
  BY <1>a DEF OneToOne
<1>g. /\ \A b \in Blocks : st[b] = "good" => b \notin badmark
      /\ pc = "sig_prog" => st[rg.ba] = "good"
      /\ st \in [Blocks -> States]
  BY <1>a DEF Layout, Fresh, IInv, TypeOK
<1>1. ASSUME NEW b \in Blocks, NEW c, c.kind # "sig", c.kind # "table",
             cells' = [cells EXCEPT ![b] = c],
             \/ badmark' = badmark /\ st' = st
             \/ badmark' = badmark \cup {b} /\ st' = [st EXCEPT ![b] = "bad"],
             \/ pc' = "sig"
             \/ pc' = "sig_prog" /\ st'[rg'.ba] = "good"
      PROVE  Layout'
  <2>1. SigBlocks' = {} /\ Tables' = {} /\ OnChip'
    BY <1>1, <1>a, OneBlock DEF Layout
  <2>2. Fresh'
    <3>1. \A x \in Blocks : st'[x] = "good" => x \notin badmark'
      BY <1>1, <1>g
    <3> QED
      BY <3>1, <2>1, <1>1, <1>m DEF Fresh
  <2> QED
    BY <2>1, <2>2, <1>e DEF Layout
<1>k. Empty.kind # "sig" /\ Empty.kind # "table" /\ Torn.kind # "sig" /\ Torn.kind # "table"
  BY DEF Empty, Torn
<1>h. SigHere \in Blocks
  BY WalkDescIn DEF SigHere
<1>2. CASE SigErase
  <2>1. /\ cells' = [cells EXCEPT ![SigHere] = Empty] /\ badmark' = badmark
        /\ st' = st /\ pc' = "sig_prog" /\ rg'.ba = SigHere /\ SigHere # None
    BY <1>2 DEF SigErase, IInv, TypeOK
  <2>2. st[SigHere] = "good"
    BY <2>1, WalkDescIn DEF SigHere, GoodIn
  <2> QED
    BY <2>1, <2>2, <1>1, <1>k, <1>h
<1>3. CASE SigFails
  <2>1. pc = "sig_prog" => rg.ba \in Blocks
    BY DEF IInv, LocalsOk
  <2>2. CASE pc = "sig"
    BY <2>2, <1>3, <1>1, <1>k, <1>h DEF SigFails, Fails
  <2>3. CASE pc = "sig_prog"
    BY <2>1, <2>3, <1>3, <1>1, <1>k DEF SigFails, Fails
  <2> QED
    BY <2>2, <2>3, <1>a
<1>4. CASE SigProgram
  <2>1. /\ rg.ba \in Blocks /\ cells' = [cells EXCEPT ![rg.ba] = Sig]
        /\ badmark' = badmark /\ sigBa' = rg.ba /\ pc' = "create"
    BY <1>4 DEF SigProgram, IInv, LocalsOk
  <2>2. Sig.kind = "sig" /\ Sig.kind # "table"
    BY DEF Sig
  <2>3. SigBlocks' \subseteq {rg.ba} /\ Tables' = {}
    BY <2>1, <2>2, <1>a, <1>t DEF SigBlocks, Tables
  <2>c. rg.ba \in SigBlocks'
    BY <2>1, <2>2, <1>g, <1>t, <1>4 DEF SigBlocks, SigProgram
  <2>4. OnChip'
    BY <2>3 DEF OnChip
  <2>5. Fresh'
    BY <2>1, <2>3, <2>c, <1>m DEF Fresh
  <2> QED
    BY <2>4, <2>5, <1>e DEF Layout
<1> QED
  BY <1>2, <1>3, <1>4

\* the first tables are written where the mapping of the data area leaves room
LEMMA CreateTablesLayout == IInv /\ Layout /\ CreateTables => Layout'
<1> SUFFICES ASSUME IInv, Layout, CreateTables PROVE Layout'
  OBVIOUS
<1>f. /\ pc = "create" /\ topBa' = WalkDescOne(st, sigBa, MgmtStart) /\ topBa' # None
      /\ mainBa' = None /\ backupBa' = None /\ mapBa' = topBa'
      /\ cache' = Generate(cache.wc, st, mp, changed)
      /\ WriteRange(MgmtStart, topBa', "rb_main")
      /\ UNCHANGED <<chip, sigBa, st, mp, got>>
  BY DEF CreateTables, StartRebuild, Regenerate, table, attachV
<1>a. /\ Tables = {} /\ sigBa \in SigBlocks
      /\ OneToOne(mp) /\ \A l \in LBs : mp[l] < MgmtStart
  BY <1>f DEF Layout, Fresh, Laid
<1>b. topBa' \in Int /\ MgmtStart < topBa' /\ topBa' < sigBa
  BY <1>f, WalkDescOneIn, Bounds
<1>c. /\ cells' = cells /\ badmark' = badmark
      /\ SigBlocks' = SigBlocks /\ Tables' = {} /\ OnChip'
  BY <1>f, <1>a, SameChip DEF Layout
<1>w. /\ pc' = "write" /\ rg'.lim = topBa' /\ Laid' /\ Stale' = {}
      /\ rg'.ret = "rb_main" /\ rg'.ba = MgmtStart /\ UpTo' = MgmtStart
      /\ \A p \in WriteReturns : Going(p)' <=> "rb_main" = p
      /\ ~Going("rs_erased")' /\ Looping'
  <2>1. topBa' <= topBa'
    BY <1>b
  <2>2. PICK t : t = topBa'
    OBVIOUS
  <2>3. WriteRange(MgmtStart, t, "rb_main") /\ t <= topBa'
    BY <1>f, <2>1, <2>2
  <2> QED
    BY <2>2, <2>3, WriteBegins DEF WriteReturns
<1>1. Fresh' /\ Ordered'
  BY <1>f, <1>w, <1>b, Bounds DEF Fresh, Ordered, None
<1>m. \A l \in LBs : mp[l] \in Int
  BY ChipFacts DEF IInv, TypeOK, Unmapped
<1>2. Clear(mp, topBa', sigBa)
  BY <1>a, <1>b, <1>m, Bounds DEF Clear
<1>g. cache'.st = st /\ cache'.mp = mp
  BY <1>f DEF Generate, Table
<1>3. Remembered'
  BY <1>f, <1>a, <1>b, <1>c, <1>2, <1>g, Bounds
  DEF Remembered, Clear, OneToOne, Ages, Sound, NoneSound
<1>4. Ranges'
  BY <1>f, <1>w, Bounds DEF Ranges, Passing, NoneSound, WriteReturns
<1>5. Agreeing' /\ Placed'
  BY <1>c, <1>w DEF Agreeing, Placed, WriteReturns
<1> QED
  BY <1>c, <1>w, <1>1, <1>3, <1>4, <1>5 DEF Layout

LEMMA CreateStepLayout == IInv /\ Layout /\ CreateStep => Layout'
<1> SUFFICES ASSUME IInv, Layout, CreateStep PROVE Layout'
  OBVIOUS
<1> USE DEF layout, table, attachV, ctl, ghost, bounds
<1>1. CASE CreateFails
  BY <1>1, SameChip, ForgetLayout DEF CreateFails, Layout
<1>2. CASE CreateEnd
  <2>1. /\ pc \in {"c_close", "c_map"} /\ topBa' \in {mapBa, topBa} /\ pc' = "update"
        /\ UNCHANGED <<chip, mainBa, backupBa, mapBa, sigBa, st, mp, cache>>
    BY <1>2 DEF CreateEnd, Update
  <2>2. Laid /\ NoLoop /\ Laid' /\ NoLoop'
    BY <2>1 DEF Laid, NoLoop, WriteReturns
  <2>3. topBa' \in Int /\ mapBa <= topBa' /\ topBa' <= topBa
    BY <2>1, <2>2, Bounds DEF Layout, Ordered
  <2>4. Clear(mp, topBa', sigBa) /\ OneToOne(mp)
    <3>1. Clear(mp, topBa, sigBa) /\ OneToOne(mp)
      BY <2>2 DEF Layout, Remembered
    <3> QED
      BY <2>3, <3>1, Bounds, ClearBelow DEF IInv, TypeOK
  <2>5. Clear(mp', topBa', sigBa) /\ OneToOne(mp')
    BY <2>1, <2>4 DEF Clear, OneToOne
  <2>6. /\ SigBlocks' = SigBlocks /\ Tables' = Tables
        /\ cells' = cells /\ badmark' = badmark
    BY <2>1, SameChip
  <2> QED
    BY <2>1, <2>2, <2>3, <2>5, <2>6, Between DEF Ages
<1>3. CASE CreateDone
  <2>1. /\ pc = "c_end" /\ pc' = "idle"
        /\ UNCHANGED <<chip, mainBa, backupBa, mapBa, topBa, sigBa, st, mp, cache>>
    BY <1>3 DEF CreateDone, Return
  <2> QED
    BY <2>1, BetweenQuiet DEF Laid, NoLoop, WriteReturns
<1> QED
  BY <1>1, <1>2, <1>3, SigStepLayout, CreateTablesLayout DEF CreateStep

-----------------------------------------------------------------------------
(* The mapping of a new chip: nmbm_build_mapping_table. *)

\* a finite set of naturals has a member above any number of others
LEMMA NthExists ==
  ASSUME NEW G, G \subseteq Nat, IsFiniteSet(G), NEW n \in Nat, n < Cardinality(G)
  PROVE  \E b \in G : Cardinality({c \in G : c < b}) = n
<1> DEFINE Under(b) == {c \in G : c < b}
           k == Cardinality(G)
           f == [b \in G |-> Cardinality(Under(b))]
<1>1. k \in Nat
  BY FS_CardinalityType
<1>2. \A b \in G : Under(b) \in SUBSET G /\ b \notin Under(b)
  OBVIOUS
<1>3. ASSUME NEW b \in G
      PROVE  IsFiniteSet(Under(b)) /\ Cardinality(Under(b)) \in Nat
             /\ Cardinality(Under(b)) < k
  <2> DEFINE U == Under(b)
  <2>1. U \in SUBSET G /\ U # G
    BY <1>2, <1>3
  <2> HIDE DEF U
  <2>2. IsFiniteSet(U) /\ Cardinality(U) <= k /\ Cardinality(U) # k
    BY <2>1, FS_Subset
  <2>3. Cardinality(U) \in Nat
    BY <2>2, FS_CardinalityType
  <2>4. Cardinality(U) < k
    BY <1>1, <2>2, <2>3
  <2>5. U = Under(b)
    BY DEF U
  <2> QED
    BY <2>2, <2>3, <2>4, <2>5
<1>4. ASSUME NEW a \in G, NEW b \in G, a < b
      PROVE  Cardinality(Under(a)) < Cardinality(Under(b))
  <2> DEFINE U == Under(a)
             V == Under(b)
  <2>1. U \in SUBSET V /\ U # V
    <3>1. \A c \in G : c \in Nat
      OBVIOUS
    <3>2. a \in V /\ a \notin U /\ \A c \in U : c \in G /\ c < a
      BY <1>4, <3>1
    <3>3. \A c \in U : c \in V
      BY <1>4, <3>1, <3>2
    <3> HIDE DEF U, V
    <3> QED
      BY <3>2, <3>3
  <2>2. IsFiniteSet(V) /\ Cardinality(V) \in Nat /\ Cardinality(U) \in Nat
    BY <1>3
  <2> HIDE DEF U, V
  <2>3. Cardinality(U) <= Cardinality(V) /\ Cardinality(U) # Cardinality(V)
    BY <2>1, <2>2, FS_Subset
  <2>4. Cardinality(U) < Cardinality(V)
    BY <2>2, <2>3
  <2> QED
    BY <2>4 DEF U, V
<1> HIDE DEF Under
<1>5. \A a, b \in G : Cardinality(Under(a)) = Cardinality(Under(b)) => a = b
  <2> SUFFICES ASSUME NEW a \in G, NEW b \in G,
                      Cardinality(Under(a)) = Cardinality(Under(b)), a # b
               PROVE  FALSE
    OBVIOUS
  <2>1. a < b \/ b < a
    OBVIOUS
  <2>2. Cardinality(Under(a)) \in Nat /\ Cardinality(Under(b)) \in Nat
    BY <1>3
  <2> QED
    BY <1>4, <2>1, <2>2
<1>6. \A b \in G : Cardinality(Under(b)) \in 0 .. k - 1
  BY <1>1, <1>3
<1>7. f \in Injection(G, 0 .. k - 1)
  BY <1>5, <1>6 DEF Injection, IsInjective
<1>8. IsFiniteSet(0 .. k - 1) /\ Cardinality(0 .. k - 1) = k
  <2>1. 0 \in Int /\ k - 1 \in Int
    BY <1>1
  <2>2. /\ IsFiniteSet(0 .. k - 1)
        /\ Cardinality(0 .. k - 1) = IF 0 > k - 1 THEN 0 ELSE k - 1 - 0 + 1
    BY <2>1, FS_Interval, Zenon
  <2>3. (IF 0 > k - 1 THEN 0 ELSE k - 1 - 0 + 1) = k
    BY <1>1
  <2> QED
    BY <2>2, <2>3
<1> HIDE DEF f, k
<1>9. f \in Surjection(G, 0 .. k - 1)
  <2>1. Cardinality(G) = Cardinality(0 .. k - 1)
    BY <1>8 DEF k
  <2> QED
    BY <1>7, <1>8, <2>1, FS_Injection
<1>10. n \in 0 .. k - 1
  BY <1>1 DEF k
<1>11. \E b \in G : f[b] = n
  BY <1>9, <1>10 DEF Surjection
<1> QED
  BY <1>11 DEF f, Under

\* two logical blocks of a new chip get two physical blocks of the data area
LEMMA BuildMappingApart ==
  ASSUME NEW s
  PROVE  /\ OneToOne(BuildMapping(s))
         /\ \A l \in LBs : BuildMapping(s)[l] < MgmtStart
<1> DEFINE G == GoodData(s)
           m == BuildMapping(s)
           Rank(b) == Cardinality({c \in G : c < b})
<1>1. G \subseteq LBs /\ LBs \subseteq Nat /\ IsFiniteSet(LBs)
  <2>1. 0 \in Int /\ MgmtStart - 1 \in Int
    BY ChipFacts
  <2>2. IsFiniteSet(0 .. MgmtStart - 1)
    BY <2>1, FS_Interval, Zenon
  <2> QED
    BY <2>2 DEF GoodData, LBs
<1>2. G \subseteq Nat /\ IsFiniteSet(G)
  BY <1>1, FS_Subset
<1>3. ASSUME NEW l \in LBs, m[l] # Unmapped PROVE m[l] \in G /\ Rank(m[l]) = l
  <2>1. l \in Nat /\ l < Cardinality(G) /\ m[l] = Nth(G, l)
    BY <1>1, <1>3 DEF BuildMapping
  <2>2. \E b \in G : Cardinality({c \in G : c < b}) = l
    BY <1>2, <2>1, NthExists
  <2> QED
    BY <2>1, <2>2 DEF Nth, Pick
<1>4. OneToOne(m)
  BY <1>3 DEF OneToOne
<1>5. \A l \in LBs : m[l] < MgmtStart
  <2> SUFFICES ASSUME NEW l \in LBs PROVE m[l] < MgmtStart
    OBVIOUS
  <2>1. \A b \in LBs \cup {Unmapped} : b < MgmtStart
    BY ChipFacts DEF LBs, Unmapped
  <2>2. m[l] \in LBs \cup {Unmapped}
    BY <1>1, <1>3
  <2> HIDE DEF m
  <2> QED
    BY <2>1, <2>2
<1> QED
  BY <1>4, <1>5

-----------------------------------------------------------------------------
(* An attach: nmbm_search_info_table finds the tables, whatever a power cut  *)
(* or a failing block has left of them.                                      *)

LEMMA TheSignature ==
  ASSUME OnChip, SigBlocks # {}
  PROVE  /\ Highest(SigBlocks) \in SigBlocks /\ Highest(SigBlocks) \in Blocks
         /\ \A s \in SigBlocks : s = Highest(SigBlocks)
<1>1. PICK s : s \in SigBlocks
  OBVIOUS
<1>2. s \in Blocks /\ s \in Int /\ \A t \in SigBlocks : t = s
  BY <1>1, ChipFacts DEF OnChip, SigBlocks
<1>3. \A t \in SigBlocks : t <= s
  BY <1>2
<1>4. Highest(SigBlocks) \in SigBlocks
  BY <1>1, <1>3 DEF Highest, Pick
<1> QED
  BY <1>2, <1>4

\* nmbm_check_info_table accepts each table, with the block states of each
LEMMA EachLoads ==
  ASSUME cells \in [Blocks -> Cell], OnChip, NEW sig \in SigBlocks, NEW a \in Tables, NEW b \in Tables
  PROVE  /\ Loads(b, AllGood, sig) /\ Loads(b, cells[a].st, sig)
         /\ b \in Blocks /\ MgmtStart <= b /\ b <= sig - 2
<1>1. b \in Blocks /\ b \in Int /\ sig \in Int /\ MgmtStart \in Int
      /\ MgmtStart <= b /\ b + 1 < sig
  BY ChipTables DEF OnChip, Tables, SigBlocks
<1>2. /\ cells[a].st[b] = "good" /\ cells[b].st[b] = "good"
      /\ Clear(cells[b].mp, b + 1, sig)
  BY DEF OnChip, Compatible
<1>3. \A l \in LBs : cells[b].mp[l] \in Int
  BY ChipTables, ChipFacts DEF Unmapped, InfoTable
<1>4. \A s : CheckTable(cells[b], b, s, sig)
  <2> SUFFICES ASSUME NEW l \in LBs
               PROVE  cells[b].mp[l] # sig /\ cells[b].mp[l] \notin MgmtStart .. b
    BY <1>2 DEF CheckTable
  <2> QED
    BY <1>1, <1>2, <1>3 DEF Clear
<1> QED
  BY <1>1, <1>2, <1>4 DEF Loads, AllGood, Tables

LEMMA FirstFound ==
  ASSUME cells \in [Blocks -> Cell], OnChip, NEW sig \in SigBlocks
  PROVE  /\ Tables = {} => FirstTable(sig) = None
         /\ Tables # {} => /\ FirstTable(sig) \in Tables
                           /\ \A b \in Tables : FirstTable(sig) <= b
<1> DEFINE S == {c \in MgmtStart .. sig - 2 : Loads(c, AllGood, sig)}
<1>1. sig \in Int /\ sig < NB /\ MgmtStart \in Nat
  BY ChipFacts DEF SigBlocks
<1>2. \A b \in S : b \in Blocks /\ b \in Nat
  BY <1>1, ChipFacts DEF Blocks
<1>3. S \subseteq Tables
  BY <1>2 DEF Loads, Tables
<1>4. Tables \subseteq S
  <2> SUFFICES ASSUME NEW b \in Tables PROVE b \in S
    OBVIOUS
  <2>1. Loads(b, AllGood, sig) /\ b \in Int /\ MgmtStart <= b /\ b <= sig - 2
    BY EachLoads, ChipFacts
  <2> QED
    BY <2>1, <1>1
<1>5. S = Tables /\ S \subseteq Nat
  BY <1>2, <1>3, <1>4
<1>6. FirstTable(sig) = Lowest(S)
  BY DEF FirstTable, SearchTable
<1> HIDE DEF S
<1>7. S = {} => FirstTable(sig) = None
  BY <1>6, LowestIn
<1>8. S # {} => FirstTable(sig) \in S /\ \A b \in S : FirstTable(sig) <= b
  BY <1>5, <1>6, LowestExists
<1> QED
  BY <1>5, <1>7, <1>8

LEMMA SecondFound ==
  ASSUME cells \in [Blocks -> Cell], OnChip, NEW sig \in SigBlocks, NEW first \in Tables,
         \A b \in Tables : first <= b
  PROVE  LET second == SecondTable(first, sig) IN
         /\ second = None => Tables = {first}
         /\ second # None => /\ second \in Tables /\ first < second
                             /\ Tables = {first, second}
<1> DEFINE S == {c \in first + 1 .. sig - 2 : Loads(c, cells[first].st, sig)}
           second == SecondTable(first, sig)
<1>1. /\ sig \in Int /\ sig < NB /\ MgmtStart \in Nat /\ first \in Int /\ first # None
      /\ MgmtStart <= first /\ 0 < MgmtStart /\ None = 0
  BY ChipFacts, ChipTables DEF SigBlocks, OnChip, Tables
<1>2. \A b \in S : b \in Blocks /\ b \in Nat /\ first < b
  BY <1>1, ChipFacts DEF Blocks
<1>3. \A b \in S : b \in Tables
  BY <1>2 DEF Loads, Tables
<1>4. \A b \in Tables : b # first => b \in S
  <2> SUFFICES ASSUME NEW b \in Tables, b # first PROVE b \in S
    OBVIOUS
  <2>1. Loads(b, cells[first].st, sig) /\ b \in Int /\ b <= sig - 2
    BY EachLoads, ChipFacts
  <2>2. first <= b
    OBVIOUS
  <2> QED
    BY <2>1, <2>2, <1>1
<1>5. second = Lowest(S)
  BY <1>1 DEF SecondTable, SearchTable
<1>6. S \subseteq Nat
  BY <1>2
<1> HIDE DEF S
<1>7. CASE S = {}
  <2>1. second = None
    BY <1>5, <1>7, LowestIn
  <2>2. Tables = {first}
    BY <1>4, <1>7
  <2> QED
    BY <2>1, <2>2
<1>8. CASE S # {}
  <2>1. second \in S
    BY <1>5, <1>6, <1>8, LowestExists
  <2>2. second \in Tables /\ first < second /\ second # None
    BY <2>1, <1>1, <1>2, <1>3
  <2>3. first # second
    BY <2>2, <1>1
  <2>4. \A b \in Tables : b = first \/ b = second
    BY <2>2, <2>3 DEF OnChip
  <2>5. Tables = {first, second}
    BY <2>2, <2>4
  <2> QED
    BY <2>2, <2>5
<1> QED
  BY <1>7, <1>8

\* the unmapped spare blocks that an attach finds end behind the tables and
\* below each block that is mapped
LEMMA TopFound ==
  ASSUME cells \in [Blocks -> Cell], OnChip, NEW sig \in SigBlocks, NEW home \in Tables, NEW b \in Tables
  PROVE  /\ TopOf(cells[home], home, sig) \in Int
         /\ b + 1 <= TopOf(cells[home], home, sig)
         /\ Clear(cells[home].mp, TopOf(cells[home], home, sig), sig)
<1> DEFINE m == cells[home].mp
           S == {sig} \cup {m[l] : l \in {k \in LBs : m[k] > home}}
           top == TopOf(cells[home], home, sig)
<1>1. /\ sig \in Int /\ MgmtStart \in Int /\ home \in Int /\ b \in Int
      /\ 0 <= b /\ 0 <= home /\ MgmtStart <= home /\ b + 1 < sig /\ sig \in Nat
  BY ChipFacts, ChipTables DEF SigBlocks, OnChip, Tables
<1>2. Clear(m, b + 1, sig)
  BY DEF OnChip, Compatible
<1>3. \A l \in LBs : m[l] \in Int
  BY ChipTables, ChipFacts DEF Unmapped, InfoTable
<1>4. top = Lowest(S) - 1
  BY DEF TopOf
<1> HIDE DEF m, top
<1>5. \A x \in S : x \in Nat /\ b + 1 < x
  BY <1>1, <1>2, <1>3 DEF Clear
<1>6. S \subseteq Nat /\ S # {}
  BY <1>5
<1>7. Lowest(S) \in S /\ \A x \in S : Lowest(S) <= x
  BY <1>6, LowestExists
<1>8. Lowest(S) \in Int /\ b + 1 < Lowest(S)
  BY <1>5, <1>7
<1>9. ASSUME NEW l \in LBs PROVE m[l] < MgmtStart \/ top < m[l]
  <2> SUFFICES ASSUME ~(m[l] < MgmtStart) PROVE top < m[l]
    OBVIOUS
  <2>1. \A x \in Tables : m[l] # x
    <3> SUFFICES ASSUME NEW x \in Tables, m[l] = x PROVE FALSE
      OBVIOUS
    <3>1. Clear(m, x + 1, sig) /\ x \in Int
      BY ChipFacts DEF OnChip, Compatible, m, Tables
    <3> QED
      BY <3>1, <1>3 DEF Clear
  <2>2. Clear(m, home + 1, sig)
    BY DEF OnChip, Compatible, m
  <2>3. m[l] > home
    BY <1>1, <1>3, <2>2 DEF Clear
  <2>4. m[l] \in S
    BY <2>3
  <2>5. Lowest(S) <= m[l]
    BY <1>7, <2>4
  <2> QED
    BY <1>3, <1>4, <1>8, <2>5
<1>10. Clear(m, top, sig)
  BY <1>2, <1>9 DEF Clear
<1> HIDE DEF S
<1>11. top \in Int /\ b + 1 <= top
  BY <1>1, <1>4, <1>8
<1> QED
  BY <1>10, <1>11 DEF m, top

\* what nmbm_load_info_table makes of the tables first and second, or of first
\* alone when second is None
LEMMA LoadFacts ==
  ASSUME cells \in [Blocks -> Cell], OnChip, NEW sig \in SigBlocks, NEW first \in Tables,
         NEW second, second = None \/ second \in Tables,
         \A b \in Tables : b = first \/ (b = second /\ second # None),
         second # None => first < second,
         NEW newer, newer <=> second # None /\ cells[second].wc > cells[first].wc,
         NEW home, home = IF newer THEN second ELSE first,
         NEW d, d = Load(first, second, sig)
  PROVE  /\ home \in Tables /\ d.mp = cells[home].mp /\ d.wc = cells[home].wc
         /\ d.top = TopOf(cells[home], home, sig)
         /\ d.newer <=> newer
         /\ d.uneven <=> second # None /\ cells[second].wc # cells[first].wc
         /\ d.end = (IF second = None THEN first ELSE second) + 1
         /\ d.st \in [Blocks -> States]
         /\ Ages(cells[home].st, d.st)
         /\ \A b \in Tables : d.st[b] = "good"
         /\ \A x \in Blocks : x < first => d.st[x] = cells[home].st[x]
         /\ newer => d.st = cells[home].st
         /\ ~d.dirty => d.st = cells[home].st
<1> DEFINE one == cells[first]
           between == Passed(first + 1, second, one.st, sig)
<1>1. home \in Tables /\ first \in Blocks /\ first \in Int
  BY ChipFacts DEF Tables
<1>2. /\ d.mp = cells[home].mp /\ d.wc = cells[home].wc
      /\ d.top = TopOf(cells[home], home, sig) /\ (d.newer <=> newer)
      /\ d.uneven <=> second # None /\ cells[second].wc # cells[first].wc
      /\ d.end = (IF second = None THEN first ELSE second) + 1
      /\ d.st = IF newer THEN cells[home].st ELSE MarkBad(one.st, between)
      /\ ~d.dirty => between = {}
  BY DEF Load
<1>3. /\ one.st \in [Blocks -> States] /\ cells[home].st \in [Blocks -> States]
      /\ \A b \in Tables : cells[home].st[b] = "good" /\ b \in Blocks /\ b \in Int
                           /\ b \notin badmark /\ cells[b].kind # "torn"
  <2>1. \A t \in Tables : cells[t].st \in [Blocks -> States] /\ cells[t].kind = "table"
    BY ChipTables DEF InfoTable
  <2>2. \A b \in Tables : b \in Blocks /\ b \in Int /\ b \notin badmark
    BY ChipFacts DEF Tables
  <2>3. \A a, b \in Tables : cells[a].st[b] = "good"
    BY DEF OnChip, Compatible
  <2> QED
    BY <1>1, <2>1, <2>2, <2>3
<1>4. \A x \in between : x \notin Tables /\ x \in Int /\ first < x
  <2>1. \A hi : \A x \in first + 1 .. hi : x \in Int /\ first < x
    BY <1>1
  <2> QED
    BY <1>3, <2>1 DEF Passed
<1> HIDE DEF between
<1>5. CASE newer
  BY <1>1, <1>2, <1>3, <1>5 DEF Ages
<1>6. CASE ~newer
  <2>1. home = first /\ d.st = MarkBad(one.st, between)
    BY <1>2, <1>6
  <2>2. d.st = [b \in Blocks |-> IF b \in between THEN "bad" ELSE one.st[b]]
    BY <2>1 DEF MarkBad
  <2>3. d.st \in [Blocks -> States]
    BY <2>2, <1>3 DEF States
  <2>4. Ages(one.st, d.st)
    BY <2>2 DEF Ages
  <2>5. \A b \in Tables : d.st[b] = "good"
    BY <2>1, <2>2, <1>3, <1>4
  <2>6. \A x \in Blocks : x < first => d.st[x] = one.st[x]
    <3>1. \A x \in Blocks : x < first => x \notin between
      BY <1>1, <1>4
    <3> QED
      BY <2>2, <3>1
  <2>7. ~d.dirty => d.st = one.st
    <3>1. between = {} => \A x \in Blocks : d.st[x] = one.st[x]
      BY <2>2
    <3> QED
      BY <3>1, <1>2, <1>3, <2>3
  <2> QED
    BY <1>1, <1>2, <1>6, <2>1, <2>3, <2>4, <2>5, <2>6, <2>7
<1> QED
  BY <1>5, <1>6

LEMMA AttachLoadLayout == IInv /\ Layout /\ AttachLoad => Layout'
<1> SUFFICES ASSUME IInv, Layout, AttachLoad PROVE Layout'
  OBVIOUS
<1> USE DEF layout, table, attachV, ctl, ghost, bounds
<1>1. PICK sig, first, second, d :
        /\ sig = Highest(SigBlocks) /\ SigBlocks # {}
        /\ first = FirstTable(sig) /\ second = SecondTable(first, sig)
        /\ d = Load(first, second, sig)
        /\ first # None /\ sigBa' = sig /\ st' = d.st /\ mp' = d.mp
        /\ cache' = Generate(d.wc, d.st, d.mp, d.dirty)
        /\ mainBa' = first /\ backupBa' = second /\ mapBa' = d.end /\ topBa' = d.top
        /\ CASE second = None -> WriteRange(MgmtStart, first, "rs_front")
             [] d.uneven /\ d.newer -> WriteRange(first, second, "us_main")
             [] d.uneven /\ ~d.newer -> WriteRange(second, d.top, "us_backup")
             [] OTHER -> pc' = "ld_ok" /\ UNCHANGED rg
        /\ UNCHANGED chip
  BY DEF AttachLoad
<1>c. /\ cells' = cells /\ badmark' = badmark
      /\ SigBlocks' = SigBlocks /\ Tables' = Tables /\ OnChip /\ OnChip'
      /\ cells \in [Blocks -> Cell]
  BY <1>1, SameChip DEF Layout, IInv, TypeOK
<1>s. sig \in SigBlocks
  BY <1>1, <1>c, TheSignature
<1>t. /\ first \in Tables /\ \A b \in Tables : first <= b
      /\ second = None => Tables = {first}
      /\ second # None => second \in Tables /\ first < second
                          /\ Tables = {first, second}
  <2>1. Tables # {} /\ first \in Tables /\ \A b \in Tables : first <= b
    BY <1>1, <1>c, <1>s, FirstFound
  <2> QED
    BY <1>1, <1>c, <1>s, <2>1, SecondFound
<1>2. PICK newer, home :
        /\ newer <=> second # None /\ cells[second].wc > cells[first].wc
        /\ home = IF newer THEN second ELSE first
  OBVIOUS
<1>d. /\ home \in Tables /\ d.mp = cells[home].mp /\ d.wc = cells[home].wc
      /\ d.top = TopOf(cells[home], home, sig)
      /\ d.newer <=> newer
      /\ d.uneven <=> second # None /\ cells[second].wc # cells[first].wc
      /\ d.end = (IF second = None THEN first ELSE second) + 1
      /\ d.st \in [Blocks -> States]
      /\ Ages(cells[home].st, d.st)
      /\ \A b \in Tables : d.st[b] = "good"
      /\ \A x \in Blocks : x < first => d.st[x] = cells[home].st[x]
      /\ newer => d.st = cells[home].st
      /\ ~d.dirty => d.st = cells[home].st
  BY <1>1, <1>2, <1>c, <1>s, <1>t, LoadFacts
<1>n. /\ first \in Int /\ second \in Int /\ MgmtStart \in Int /\ sig \in Int
      /\ first \in Blocks /\ MgmtStart <= first /\ None = 0 /\ 0 < MgmtStart
      /\ second # None => second \in Blocks
      /\ \A b \in Blocks : b \in Int
      /\ \A b \in Tables : cells[b] \in InfoTable /\ cells[b].wc \in Int
  <2>1. \A b \in Tables : b \in Blocks /\ b \in Int
    BY Bounds DEF Tables
  <2> QED
    BY <1>c, <1>s, <1>t, <2>1, Bounds, TableFacts DEF OnChip, SigBlocks
<1>p. /\ d.top \in Int /\ first + 1 <= d.top
      /\ second # None => second + 1 <= d.top
      /\ Clear(cells[home].mp, d.top, sig) /\ OneToOne(cells[home].mp)
  BY <1>c, <1>s, <1>t, <1>d, TopFound DEF OnChip, Compatible
<1>g. /\ cache'.st = st' /\ cache'.mp = cells[home].mp
      /\ cache'.wc = IF d.dirty THEN cells[home].wc + 1 ELSE cells[home].wc
      /\ ~d.dirty => cache' = cells[home]
  <2>1. cache' = Table(IF d.dirty THEN d.wc + 1 ELSE d.wc, d.st, d.mp) /\ st' = d.st
    BY <1>1 DEF Generate
  <2>2. cells[home] = Table(cells[home].wc, cells[home].st, cells[home].mp)
    BY <1>n, <1>d DEF InfoTable, Table
  <2> QED
    BY <2>1, <2>2, <1>d DEF Table
\* where the attach goes on
<1>w. \/ /\ second = None
         /\ pc' = "write" /\ rg' = [ba |-> MgmtStart, lim |-> first, ret |-> "rs_front"]
      \/ /\ second # None /\ cells[second].wc # cells[first].wc /\ newer
         /\ pc' = "write" /\ rg' = [ba |-> first, lim |-> second, ret |-> "us_main"]
      \/ /\ second # None /\ cells[second].wc # cells[first].wc /\ ~newer
         /\ pc' = "write" /\ rg' = [ba |-> second, lim |-> d.top, ret |-> "us_backup"]
      \/ /\ second # None /\ cells[second].wc = cells[first].wc
         /\ pc' = "ld_ok"
  BY <1>1, <1>d DEF WriteRange
<1>3. Laid' /\ Fresh'
  BY <1>w DEF Laid, Fresh
<1>4. Ordered'
  BY <1>1, <1>d, <1>n, <1>p, <1>t DEF Ordered
<1>5. Stale' = IF second = None \/ cells[second].wc = cells[first].wc THEN {}
               ELSE IF newer THEN {first} ELSE {second}
  BY <1>1, <1>w DEF Stale
<1>6. ASSUME NEW b \in Tables PROVE Follows(b)'
  <2>1. /\ b = first \/ (b = second /\ second # None)
        /\ b \in Blocks /\ cells'[b] = cells[b] /\ st'[b] = "good"
    BY <1>1, <1>c, <1>d, <1>t DEF Tables
  <2>2. cells[b].wc <= cells[home].wc
    BY <1>2, <1>n, <1>t, <2>1
  <2>3. cells[b].wc <= cache'.wc
    BY <1>g, <1>n, <1>d, <2>2
  <2>4. cells[b].wc = cache'.wc => cells[b] = cache'
    <3>1. cells[b].wc = cells[home].wc => cells[b] = cells[home]
      BY <1>c, <1>d DEF OnChip, Compatible
    <3>2. cells[b].wc = cache'.wc => ~d.dirty
      BY <1>g, <1>n, <1>d, <2>2
    <3> QED
      BY <1>g, <3>1, <3>2
  <2>5. Ages(cells[b].st, st')
    <3>1. Ages(cells[b].st, cells[home].st)
      BY <1>c, <1>d, <2>2 DEF OnChip, Compatible
    <3> QED
      BY <1>1, <1>d, <3>1 DEF Ages
  <2>6. b \notin Stale' => Clear(cells[b].mp, topBa', sigBa')
    <3>1. b \notin Stale' => cells[b] = cells[home]
      <4>1. CASE b = home
        BY <4>1
      <4>2. CASE b # home
        <5>1. second # None /\ (b \notin Stale' => cells[second].wc = cells[first].wc)
          BY <1>2, <1>5, <1>t, <2>1, <4>2
        <5>2. cells[second].wc = cells[first].wc => cells[second] = cells[first]
          BY <1>c, <1>t, <5>1 DEF OnChip, Compatible
        <5> QED
          BY <1>2, <2>1, <5>1, <5>2
      <4> QED
        BY <4>1, <4>2
    <3> QED
      BY <1>1, <1>p, <3>1
  <2>7. \A x \in Blocks : MgmtStart <= x /\ x < first /\ Sound(cells[b].st, x)
                           => Sound(st, x)'
    <3> SUFFICES ASSUME NEW x \in Blocks, MgmtStart <= x, x < first,
                        Sound(cells[b].st, x)
                 PROVE  Sound(st, x)'
      OBVIOUS
    <3>1. CASE second = None
      BY <3>1, <1>1, <1>2, <1>c, <1>d, <2>1 DEF Sound
    <3>2. CASE second # None
      <4>1. NoneSound(cells[first].st, MgmtStart, first)
            /\ NoneSound(cells[second].st, MgmtStart, first)
        BY <3>2, <1>c, <1>t DEF OnChip, Compatible
      <4> QED
        BY <4>1, <2>1 DEF NoneSound
    <3> QED
      BY <3>1, <3>2
  <2>8. \A x \in Blocks : Sound(cells[b].st, x)' => Sound(cells[b].st, x)
    BY <1>c, <2>1 DEF Sound
  <2> QED
    BY <1>1, <1>c, <2>1, <2>3, <2>4, <2>5, <2>6, <2>7, <2>8, <1>g DEF Follows, Clear, Ages
<1>7. Going("rs_front")' \/ NoneSound(st, MgmtStart, mainBa)'
  <2>1. CASE second = None
    BY <2>1, <1>w DEF Going
  <2>2. CASE second # None
    <3>1. NoneSound(cells[home].st, MgmtStart, first)
      BY <2>2, <1>2, <1>c, <1>t DEF OnChip, Compatible
    <3>2. \A x \in Blocks : MgmtStart <= x /\ x < first =>
             (Sound(st, x)' => Sound(cells[home].st, x))
      BY <1>1, <1>c, <1>d DEF Sound
    <3> QED
      BY <1>1, <3>1, <3>2 DEF NoneSound
  <2> QED
    BY <2>1, <2>2
<1>8. Remembered'
  <2>1. Clear(mp, topBa, sigBa)' /\ OneToOne(mp)'
        /\ Clear(cache.mp, topBa, sigBa)' /\ OneToOne(cache.mp)'
    BY <1>1, <1>d, <1>g, <1>p DEF Clear, OneToOne
  <2>2. Ages(cache.st, st)' /\ \A x \in Blocks : Sound(cache.st, x)' <=> Sound(st, x)'
    BY <1>g DEF Ages, Sound
  <2> QED
    BY <1>1, <1>c, <1>s, <1>6, <1>7, <2>1, <2>2 DEF Remembered
<1>9. Looping'
  BY <1>1, <1>w, <1>n, <1>p DEF Looping, WriteReturns
<1>10. Ranges'
  <2>1. \A lo \in Int : \A s : NoneSound(s, lo, lo)'
    BY <1>n DEF NoneSound
  <2>2. pc' = "write" => UpTo' = rg'.ba
    BY DEF UpTo
  <2> QED
    BY <1>1, <1>w, <1>n, <2>1, <2>2 DEF Ranges, Going, Passing
<1>11. Agreeing'
  <2>1. \A p \in {"up_main", "us_main", "rm_tmp", "rm_main"} :
          Going(p)' => newer /\ p # "rm_main"
    BY <1>w DEF Going
  <2>2. newer => cells[second].st = d.st
    BY <1>2, <1>d
  <2>3. backupBa' = second /\ st' = d.st
    BY <1>1
  <2> QED
    BY <1>c, <1>g, <2>1, <2>2, <2>3 DEF Agreeing
<1>12. Placed'
  BY <1>1, <1>c, <1>t DEF Placed
<1> QED
  BY <1>c, <1>3, <1>4, <1>8, <1>9, <1>10, <1>11, <1>12 DEF Layout

\* a new chip, or one whose tables are lost, gets a new mapping
LEMMA AttachAnew ==
  ASSUME IInv, Layout, pc' \in {"sig", "create"}, UNCHANGED chip,
         NEW s, mp' = BuildMapping(s),
         pc' = "sig" => SigBlocks = {}
                        /\ \A b \in Blocks : st'[b] = "good" => b \notin badmark,
         pc' = "create" => Tables = {} /\ sigBa' \in SigBlocks
  PROVE  Layout'
<1>1. /\ cells' = cells /\ badmark' = badmark
      /\ SigBlocks' = SigBlocks /\ Tables' = Tables /\ OnChip'
  BY SameChip DEF Layout
<1>2. OneToOne(mp') /\ \A l \in LBs : mp'[l] < MgmtStart
  BY BuildMappingApart
<1>3. Fresh'
  BY <1>1, <1>2 DEF Fresh, OneToOne
<1>4. Looping' /\ Ranges' /\ Agreeing' /\ Ordered' /\ Remembered' /\ Placed'
  <2>1. pc' = "sig" \/ pc' = "create"
    OBVIOUS
  <2> QED
    BY <2>1
    DEF Looping, Ranges, Agreeing, Ordered, Remembered, Placed, Laid, Going, WriteReturns
<1> QED
  BY <1>1, <1>3, <1>4 DEF Layout

LEMMA SameLayout == Layout /\ UNCHANGED vars => Layout'
<1> SUFFICES ASSUME Layout, UNCHANGED vars PROVE Layout'
  OBVIOUS
<1>1. /\ UNCHANGED <<chip, st, mp, cache, mainBa, backupBa, mapBa, topBa, sigBa>>
      /\ UNCHANGED <<pc, rg, got>>
  BY DEF vars, layout, table, attachV, ctl
<1>2. /\ cells' = cells /\ badmark' = badmark
      /\ SigBlocks' = SigBlocks /\ Tables' = Tables /\ OnChip'
  BY <1>1, SameChip DEF Layout
<1>3. Fresh' /\ Ordered'
  BY <1>1, <1>2 DEF Layout, Fresh, Ordered, Laid, OneToOne
<1>4. Remembered'
  BY <1>1, <1>2
  DEF Layout, Remembered, Laid, Follows, Stale, Ages, Clear, OneToOne, Sound,
      NoneSound, Going
<1>5. Looping'
  BY <1>1, <1>2 DEF Layout, Looping, Sound
<1>6. Ranges'
  BY <1>1, <1>2 DEF Layout, Ranges, Passing, UpTo, NoneSound, Sound, Going
<1>7. Agreeing' /\ Placed'
  BY <1>1, <1>2 DEF Layout, Agreeing, Placed, Laid, Going
<1> QED
  BY <1>2, <1>3, <1>4, <1>5, <1>6, <1>7 DEF Layout

LEMMA AttachLayout == IInv /\ Layout /\ Attach => Layout'
<1> SUFFICES ASSUME IInv, Layout, Attach PROVE Layout'
  OBVIOUS
<1>1. CASE AttachNew
  <2>1. /\ pc' = "sig" /\ SigBlocks = {} /\ st' = Scan(AllGood)
        /\ mp' = BuildMapping(st') /\ UNCHANGED chip
    BY <1>1 DEF AttachNew
  <2>2. \A b \in Blocks : st'[b] = "good" => b \notin badmark
    BY <2>1 DEF Scan
  <2>3. PICK s : s = st'
    OBVIOUS
  <2>4. mp' = BuildMapping(s)
    BY <2>1, <2>3
  <2> QED
    BY <2>1, <2>2, <2>4, AttachAnew
<1>2. CASE AttachRecreate
  <2>1. /\ pc' = "create" /\ SigBlocks # {} /\ sigBa' = Highest(SigBlocks)
        /\ FirstTable(Highest(SigBlocks)) = None
        /\ mp' = BuildMapping(st') /\ UNCHANGED chip
    BY <1>2 DEF AttachRecreate
  <2>2. sigBa' \in SigBlocks
    BY <2>1, TheSignature DEF Layout
  <2>3. Tables = {}
    <3>1. None \notin Tables
      BY Bounds DEF Layout, OnChip
    <3> QED
      BY <2>1, <2>2, <3>1, FirstFound DEF Layout, IInv, TypeOK
  <2>4. PICK s : s = st'
    OBVIOUS
  <2>5. mp' = BuildMapping(s)
    BY <2>1, <2>4
  <2> QED
    BY <2>1, <2>2, <2>3, <2>5, AttachAnew
<1>3. CASE AttachFails
  BY <1>3, SameLayout DEF AttachFails
<1> QED
  BY <1>1, <1>2, <1>3, AttachLoadLayout DEF Attach

-----------------------------------------------------------------------------
(* LayoutInv is inductive. *)

LEMMA InitLayout == Init => LayoutInv
<1> SUFFICES ASSUME Init PROVE LayoutInv
  OBVIOUS
<1>1. pc = "off" /\ uret = "idle"
  BY DEF Init
<1>2. SigBlocks = {} /\ Tables = {}
  BY DEF Init, SigBlocks, Tables, Empty
<1>3. OnChip
  BY <1>2 DEF OnChip
<1>4. Fresh
  <2>1. mp = [l \in LBs |-> Unmapped]
    BY DEF Init, NoTable, Table
  <2>2. Unmapped < MgmtStart
    BY ChipFacts DEF Unmapped
  <2> QED
    BY <1>1, <2>1, <2>2 DEF Fresh, OneToOne
<1>5. Ordered /\ Remembered /\ Placed /\ Serving
  BY <1>1 DEF Ordered, Remembered, Placed, Laid, Serving
<1>6. NoLoop
  BY <1>1 DEF NoLoop, WriteReturns
<1> QED
  BY <1>3, <1>4, <1>5, <1>6, NoLoopLayout DEF LayoutInv

LEMMA ServingKept == IInv /\ Serving /\ [Next]_vars => Serving'
<1> SUFFICES ASSUME IInv, Serving, [Next]_vars PROVE Serving'
  OBVIOUS
<1> USE DEF layout, table, attachV, ctl, ghost, bounds, chip
<1>t. rg.ret \in RangeReturns /\ uret \in UpdateReturns
  BY DEF IInv, TypeOK
<1>0. CASE UNCHANGED vars
  BY <1>0 DEF vars, Serving
<1>r. Return \/ Forget => Serving'
  BY DEF Return, Forget, ResetCtl, Serving
<1>u. UpdateReturn => Serving'
  BY <1>r, <1>t DEF UpdateReturn, Serving, UpdateReturns
<1>q. ASSUME pc' \notin {"e_try", "e_map", "e_close", "p_try"},
             (uret' = uret /\ op' = op) \/ uret' \notin {"e_try", "e_close"}
      PROVE  Serving'
  BY <1>q DEF Serving
<1>1. CASE RangeStep
  BY <1>1, <1>t, <1>q DEF RangeStep, RangeSkip, RangeErase, RangeEraseFails, RangeEnd,
    RangeLoop, Program, ProgramFails, RangeReturns
<1>2. CASE UpdateStep
  <2>1. CASE UpdateDone \/ UpdateOnce \/ UpdateBackup \/ UpdateMain \/ UpdateMainRebuilds
    BY <2>1, <1>u, <1>q DEF UpdateDone, UpdateOnce, UpdateBackup, UpdateMain,
      UpdateMainRebuilds, StartRebuild, WriteRange
  <2>2. CASE RescueMain \/ RescueMainTmp \/ RescueMainDone
    BY <2>2, <1>q DEF RescueMain, RescueMainTmp, RescueMainDone, WriteRange,
      RetryBelow, BackupBecomesMain
  <2>3. CASE RebuildMain \/ RebuildMainFails \/ RebuildBackup \/ RebuildErased
    BY <2>3, <1>r, <1>u, <1>q DEF RebuildMain, RebuildMainFails, RebuildBackup,
      RebuildErased, GiveUp, RebuildReturn, WriteRange, EraseRange
  <2> QED
    BY <1>2, <2>1, <2>2, <2>3 DEF UpdateStep
<1>3. CASE LoadStep
  BY <1>3, <1>r, <1>q DEF LoadStep, RescueFront, RescueNext, RescueNextLoop,
    RescueNextDone, UpdateSingle, UpdateSingleFails, LoadDone, WriteRange, EraseRange,
    RetryBelow
<1>4. CASE CreateStep
  BY <1>4, <1>r, <1>q DEF CreateStep, SigErase, SigProgram, SigFails, CreateTables,
    CreateFails, CreateEnd, CreateDone, StartRebuild, WriteRange, Update
<1>5. CASE EraseStep
  BY <1>5, <1>r, <1>q DEF EraseStep, EraseRemaps, EraseOk, EraseFails, MapBlock,
    MapReturn, MapBlockNone, EraseUnmaps, Update, Serving
<1>6. CASE WriteStep \/ OpRefused \/ ReportBad \/ EndDetach
  BY <1>6, <1>r, <1>q DEF WriteStep, WriteOk, WriteFails, OpRefused, ReportBad,
    EndDetach, Update
<1>7. CASE Attach
  BY <1>7, <1>0, <1>q DEF Attach, AttachNew, AttachLoad, AttachRecreate, AttachFails,
    WriteRange
<1>8. CASE Request
  BY <1>8, <1>0, <1>q DEF Request, BeginErase, MarkBlockBad, BeginWrite, BeginDetach,
    Read, Begin, Update, Serving
<1>9. CASE PowerCut
  BY <1>9, <1>r DEF PowerCut
<1> QED
  BY <1>0, <1>1, <1>2, <1>3, <1>4, <1>5, <1>6, <1>7, <1>8, <1>9 DEF Next, Run

\* nmbm_map_block never comes to have passed over no bad block again
LEMMA SteppedStays == [Next]_vars /\ stepped => stepped'
<1> SUFFICES ASSUME [Next]_vars, stepped PROVE stepped'
  OBVIOUS
<1> USE DEF ghost
<1>1. RangeStep \/ UpdateStep => UNCHANGED ghost
  BY DEF RangeStep, RangeSkip, RangeErase, RangeEraseFails, RangeEnd, Program,
    ProgramFails, UpdateStep, UpdateDone, UpdateOnce, UpdateBackup, UpdateMain,
    UpdateMainRebuilds, RescueMain, RescueMainTmp, RescueMainDone, RebuildMain,
    RebuildMainFails, RebuildBackup, RebuildErased
<1>2. LoadStep \/ CreateStep => UNCHANGED ghost
  BY DEF LoadStep, RescueFront, RescueNext, RescueNextLoop, RescueNextDone,
    UpdateSingle, UpdateSingleFails, LoadDone, CreateStep, SigErase, SigProgram,
    SigFails, CreateTables, CreateFails, CreateEnd, CreateDone
<1>3. EraseStep \/ WriteStep => stepped'
  BY DEF EraseStep, EraseRemaps, EraseOk, EraseFails, MapBlock, MapBlockNone,
    EraseUnmaps, WriteStep, WriteOk, WriteFails
<1>4. OpRefused \/ ReportBad \/ EndDetach \/ Attach \/ PowerCut => stepped'
  BY DEF OpRefused, ReportBad, EndDetach, Attach, AttachNew, AttachLoad,
    AttachRecreate, AttachFails, PowerCut, vars
<1>5. Request => stepped'
  BY DEF Request, BeginErase, MarkBlockBad, BeginWrite, BeginDetach, Read, vars
<1> QED
  BY <1>1, <1>2, <1>3, <1>4, <1>5, Zenon DEF Next, Run, vars

LEMMA NextLayout == IInv /\ LayoutInv /\ [Next]_vars => LayoutInv'
<1> SUFFICES ASSUME IInv, LayoutInv, [Next]_vars PROVE LayoutInv'
  OBVIOUS
<1>1. Serving /\ Serving'
  BY ServingKept DEF LayoutInv
<1>2. ASSUME ~stepped' PROVE Layout'
  <2>1. Layout
    BY <1>2, SteppedStays DEF LayoutInv, Layout
  <2> QED
    BY <1>1, <1>2, <2>1, RangeStepLayout, UpdateStepLayout, LoadStepLayout,
       CreateStepLayout, EraseStepLayout, OtherStepLayout, AttachLayout,
       RequestLayout, PowerCutLayout, SameLayout
    DEF Next, Run
<1> QED
  BY <1>1, <1>2 DEF LayoutInv, Layout

(* As long as nmbm_map_block passed over no bad spare block, the tables, the
   mapping and the spare blocks stay apart, whatever failed before and
   wherever the power was cut: LayoutInv is an inductive invariant.          *)
THEOREM LayoutInductive == Spec => []LayoutInv
<1>1. LayoutInv /\ IInv /\ [Next]_vars => LayoutInv'
  BY NextLayout
<1> QED
  BY <1>1, InitLayout, Inductive, PTL DEF Spec

-----------------------------------------------------------------------------
(* What follows. *)

(* Two logical blocks never share a physical block, over every remapping, every
   update of the tables and every attach, as long as nmbm_map_block found the
   block at mapping_blocks_top_ba good.                                      *)
THEOREM NoBlockMappedTwice == Spec => []MappedOnce
<1>1. ASSUME IInv, LayoutInv PROVE MappedOnce
  <2> SUFFICES ASSUME ~stepped PROVE OneToOne(mp)
    BY DEF MappedOnce, OneToOne
  <2> QED
    BY <1>1 DEF LayoutInv, Fresh, Remembered
<1> QED
  BY <1>1, Inductive, LayoutInductive, PTL


(* While NMBM serves requests the main table, the backup table, the unmapped
   spare blocks, the mapped ones and the signature follow one another, whatever
   updates, rescues and remappings moved them towards each other.            *)
THEOREM AreaLaidOut == Spec => []LayoutOk
<1>1. ASSUME IInv, LayoutInv PROVE LayoutOk
  <2> SUFFICES ASSUME Up, ~protected, ~stepped
               PROVE  /\ MgmtStart <= mainBa /\ mainBa < mapBa /\ mapBa <= topBa
                      /\ topBa < sigBa
                      /\ backupBa # None => mainBa < backupBa /\ backupBa < mapBa
    BY DEF LayoutOk
  <2>1. Laid /\ ~Going("rb_main")
    BY DEF Up, Laid, Going
  <2>2. mainBa # None /\ MgmtStart <= mainBa /\ topBa < sigBa
    BY <1>1, <2>1, Bounds DEF IInv, TablesKnown, PlacesInArea, InArea
  <2>3. Ordered
    BY <1>1 DEF LayoutInv
  <2> QED
    BY <2>1, <2>2, <2>3 DEF Ordered
<1> QED
  BY <1>1, Inductive, LayoutInductive, PTL

(* Once an attach is over, no table on the chip is newer than the memory: no
   rescue leaves one behind that a later attach would prefer.                *)
THEOREM NothingNewerLeft == Spec => []NewestLoaded
<1>1. ASSUME IInv, LayoutInv PROVE NewestLoaded
  <2> SUFFICES ASSUME pc = "idle", ~stepped, NEW b \in Tables
               PROVE  cells[b].wc <= cache.wc
    BY DEF NewestLoaded
  <2> QED
    BY <1>1 DEF LayoutInv, Remembered, Laid, Follows
<1> QED
  BY <1>1, Inductive, LayoutInductive, PTL
=============================================================================
