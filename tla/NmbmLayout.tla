----------------------------- MODULE NmbmLayout -----------------------------
(***************************************************************************)
(* Why NMBM keeps its tables, its mapping and its spare blocks apart: the  *)
(* inductive invariant behind LayoutOk, NewestLoaded, MappedOnce and       *)
(* TablesAvoidData (proved in NmbmLayoutProofs).  It relates what is on    *)
(* the chip, where a power cut may leave any step half done, to what the   *)
(* memory holds at every place of the code.                                *)
(***************************************************************************)
EXTENDS NmbmSafety

\* a block that a loop can write a table to
Sound(s, b) == s[b] = "good" /\ b \notin badmark
NoneSound(s, lo, lim) == \A b \in Blocks : lo <= b /\ b < lim => ~Sound(s, b)

\* mapping m leaves MgmtStart .. top to the tables and ends below sig
Clear(m, top, sig) ==
  \A l \in LBs : m[l] < sig /\ (m[l] < MgmtStart \/ top < m[l])
OneToOne(m) == \A k, l \in LBs : m[k] = m[l] /\ m[k] # Unmapped => k = l

\* block states only get worse from r to s
Ages(r, s) == \A x \in Blocks : s[x] = "good" => r[x] = "good"

-----------------------------------------------------------------------------
(* What two tables on the chip have in common, each with itself too: the     *)
(* search of an attach that finds one finds the other, each leaves room for  *)
(* both, and in front of the lower one no block is left for a third.         *)
Compatible(a, b) ==
  /\ cells[a].st[b] = "good"
  /\ OneToOne(cells[a].mp)
  /\ \A s \in SigBlocks : Clear(cells[a].mp, b + 1, s)
  /\ cells[a].wc = cells[b].wc => cells[a] = cells[b]
  /\ cells[a].wc <= cells[b].wc => Ages(cells[a].st, cells[b].st)
  /\ a < b => NoneSound(cells[a].st, MgmtStart, a)
              /\ NoneSound(cells[b].st, MgmtStart, a)

OnChip ==
  /\ \A s, t \in SigBlocks : s = t
  /\ Tables # {} => SigBlocks # {}
  /\ \A b \in Tables, s \in SigBlocks : MgmtStart <= b /\ b + 1 < s
  /\ \A a, b \in Tables : Compatible(a, b)
  /\ \A a, b, c \in Tables : a = b \/ b = c \/ a = c

\* a chip that is given its first tables has none, and its mapping no spare block
Fresh ==
  /\ pc \in {"sig", "sig_prog"} =>
       SigBlocks = {} /\ \A b \in Blocks : st[b] = "good" => b \notin badmark
  /\ pc = "sig_prog" => st[rg.ba] = "good"
  /\ ~Laid => OneToOne(mp) /\ \A l \in LBs : mp[l] < MgmtStart
  /\ pc = "create" => Tables = {} /\ sigBa \in SigBlocks

-----------------------------------------------------------------------------
(* The memory. *)

Ordered ==
  Laid => /\ mainBa < mapBa /\ mapBa <= topBa
          /\ backupBa # None => mainBa < backupBa /\ backupBa < mapBa

\* the older of two uneven tables, which an attach found and is about to erase
Stale ==
  IF pc = "write" /\ rg.ret = "us_main" /\ rg.ba = mainBa THEN {mainBa}
  ELSE IF pc = "write" /\ rg.ret = "us_backup" /\ rg.ba = backupBa
       THEN {backupBa} ELSE {}

\* a table on the chip and the memory
Follows(b) ==
  /\ st[b] = "good"
  /\ cells[b].wc <= cache.wc
  /\ cells[b].wc = cache.wc => cells[b] = cache
  /\ Ages(cells[b].st, cache.st)
  /\ b \notin Stale => Clear(cells[b].mp, topBa, sigBa)
  /\ \A x \in Blocks : MgmtStart <= x /\ x < mainBa /\ Sound(cells[b].st, x)
                         => Sound(st, x)

Remembered ==
  Laid => /\ sigBa \in SigBlocks
          /\ Clear(mp, topBa, sigBa) /\ OneToOne(mp)
          /\ Clear(cache.mp, topBa, sigBa) /\ OneToOne(cache.mp)
          /\ Ages(cache.st, st)
          /\ \A x \in Blocks : MgmtStart <= x /\ x <= topBa =>
               (Sound(cache.st, x) <=> Sound(st, x))
          /\ \A b \in Tables : Follows(b)
          /\ Going("rs_front") \/ NoneSound(st, MgmtStart, mainBa)

-----------------------------------------------------------------------------
(* The loops over ranges. *)

WriteReturns ==
  {"up_backup", "up_main", "us_main", "us_backup", "rm_tmp", "rm_main",
   "rb_main", "rb_backup", "rs_front", "rs_next"}
EraseReturns == {"rb_erased", "rs_erased", "ld_ok"}

\* all blocks the loop has passed, or the written one
UpTo == IF pc \in {"write", "prog"} THEN rg.ba
        ELSE IF got = None THEN rg.lim ELSE got
Passing(lo) == lo <= rg.ba /\ NoneSound(st, lo, UpTo)

Looping ==
  /\ pc \in {"write", "prog"} => rg.ret \in WriteReturns
  /\ pc = "erase" => rg.ret \in EraseReturns
  /\ pc \in {"write", "prog", "erase"} => rg.lim <= topBa
  /\ pc = "prog" => cells[rg.ba] = Empty /\ Sound(st, rg.ba)
  /\ pc \in WriteReturns => rg.ret = pc
  /\ pc \in WriteReturns /\ got # None =>
       got = rg.ba /\ got < rg.lim /\ got \in Tables /\ cells[got] = cache

\* the range of each loop
Ranges ==
  /\ \A p \in {"up_backup", "us_backup"} :
       Going(p) => rg.lim = topBa /\ Passing(backupBa)
  /\ Going("up_main") =>
       rg.lim = (IF backupBa = None THEN topBa ELSE backupBa) /\ Passing(mainBa)
  /\ Going("us_main") => rg.lim = backupBa /\ Passing(mainBa)
  /\ Going("rm_tmp") => rg.lim = topBa /\ mapBa <= rg.ba
  /\ Going("rm_main") => mapBa = rg.lim + 1 /\ backupBa < rg.lim /\ backupBa # None
                         /\ Passing(MgmtStart)
  /\ \A p \in {"rm_tmp", "rm_main"} :
       Going(p) => NoneSound(st, MgmtStart, backupBa)
  /\ Going("rb_main") => rg.lim = topBa /\ mainBa = None /\ backupBa = None
                         /\ Passing(MgmtStart)
  /\ Going("rb_backup") => rg.lim = topBa /\ mainBa < rg.ba /\ backupBa = None
  /\ Going("rs_front") => rg.lim = mainBa /\ backupBa = None
                          /\ Passing(MgmtStart)
  /\ Going("rs_next") => rg.lim = topBa /\ mapBa <= rg.ba /\ backupBa = None
  /\ Going("rs_erased") => mapBa <= got /\ got < topBa /\ backupBa = None

\* the block states a backup or temporary table was written with
Agreeing ==
  /\ \A p \in {"up_main", "us_main", "rm_tmp", "rm_main"} :
       Going(p) /\ backupBa \in Tables => cells[backupBa].st = cache.st
  /\ Going("rm_main") /\ rg.lim \in Tables => cells[rg.lim].st = cache.st

\* where the tables are
Placed ==
  Laid => \A b \in Tables :
            \/ b = mainBa \/ b = backupBa
            \/ b = got /\ (pc \in WriteReturns \/ Going("rs_erased"))
            \/ b = rg.lim /\ Going("rm_main")

\* the logical block of an erase that is being served, or will be again after
\* the tables are updated
Serving ==
  pc \in {"e_try", "e_map", "e_close", "p_try"} \/ uret \in {"e_try", "e_close"}
    => op.lb \in LBs

LayoutInv ==
  /\ Serving
  /\ ~stepped => /\ OnChip /\ Fresh /\ Ordered /\ Remembered
                 /\ Looping /\ Ranges /\ Agreeing /\ Placed
=============================================================================
