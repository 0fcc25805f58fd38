------------------------------ MODULE NmbmPanic ------------------------------
(***************************************************************************)
(* NMBM when the kernel panics.  The panic handler stops the other CPUs    *)
(* wherever they are and writes its last words with nmbm_mtd_panic_write,  *)
(* which enters the core without the device lock: it works on a struct     *)
(* nmbm_instance that may be in the middle of an update.  Then the machine *)
(* reboots.                                                                *)
(*                                                                         *)
(* The lower panic_write may fail on any block, worn or not: the MTD layer *)
(* refuses it when the controller's driver has none.  MaxFaults bounds     *)
(* these failures too, and MaxCrashes the panics.                          *)
(***************************************************************************)
EXTENDS NmbmSafety

VARIABLES
  panic,     \* "no", or what the panic stopped: see Stopped
  mangled    \* "no", or a panic write updated the tables in the middle of an
             \* update, "resumed", that had "cut" the main table

pvars == <<vars, panic, mangled>>

PInit == Init /\ panic = "no" /\ mangled = "no"

\* The rest of the kernel goes on until it panics, or the power is cut.
Alive ==
  /\ Next
  /\ panic' = IF pc' = "off" THEN "no" ELSE panic
  /\ UNCHANGED mangled

\* MISTAKE: the logical block is taken for the physical one
PanicBlockUnmapped(lb) == lb
PanicBlock(lb) == mp[lb]

\* What a panic stops.  "cut": the main table is being written, the backup is the
\* only one that is whole; "busy": tables are being written or erased;
\* "calm": none is.
MidUpdate == pc \in {"write", "prog"} /\ rg.ret = "up_main"
Writing == pc \in {"write", "erase", "prog", "up_backup", "up_main", "rm_tmp",
                   "rm_main", "rb_main", "rb_backup", "rb_erased"}
Stopped == IF MidUpdate THEN "cut" ELSE IF Writing THEN "busy" ELSE "calm"

\* The panic comes at any time once the device is registered; when one page is
\* written the next may follow.
PanicServed(lb) ==
  /\ IF panic # "no" THEN pc = "detached" /\ UNCHANGED <<panic, crashes>>
     ELSE /\ pc = "idle" \/ op.lb # Unmapped
          /\ panic' = Stopped
          /\ crashes < MaxCrashes /\ crashes' = crashes + 1
  /\ ~protected /\ lb < dataCount /\ acked[lb] \in {"empty", "unknown"}
  /\ mp[lb] # Unmapped /\ st[PanicBlock(lb)] # "bad"
  /\ UNCHANGED <<badmark, layout, mp, cache, attachV, stepped, renewed>>

\* what it stopped in the middle of may be left torn
CutShort(c) == {c} \cup {[c EXCEPT ![b] = Torn] : b \in InFlight}

PanicWrites(lb, v) ==
  /\ PanicServed(lb)
  /\ cells' \in CutShort([cells EXCEPT ![PanicBlock(lb)] =
       IF @ = Empty THEN [kind |-> "data", lb |-> lb, val |-> v] ELSE Torn])
  /\ acked' = [acked EXCEPT ![lb] = IF @ = "empty" THEN v ELSE @]
  /\ pc' = "detached" /\ ResetCtl
  /\ UNCHANGED <<st, changed, faults, mangled>>

\* The block is to be remapped by an erase, and the tables are updated at once.
PanicFails(lb) ==
  /\ PanicServed(lb)
  /\ faults < MaxFaults /\ faults' = faults + 1
  /\ \/ cells' \in CutShort(cells)
     \/ cells' \in CutShort([cells EXCEPT ![PanicBlock(lb)] = Torn])
  /\ acked' = [acked EXCEPT ![lb] = "unknown"]
  /\ changed' = (changed \/ st[PanicBlock(lb)] # "remap")
  /\ st' = [st EXCEPT ![PanicBlock(lb)] = "remap"]
  /\ pc' = "update" /\ uret' = "detached"
  /\ rg' = NoRange /\ got' = None /\ wba' = None /\ op' = NoOp
  /\ mangled' = CASE panic' = "cut" -> "cut"
                  [] panic' = "busy" /\ mangled = "no" -> "resumed"
                  [] OTHER -> mangled

PanicWrite == \E lb \in LBs : PanicFails(lb) \/ \E v \in Values : PanicWrites(lb, v)

PSpec == PInit /\ [][Alive \/ PanicWrite]_pvars

-----------------------------------------------------------------------------

(* What was acknowledged survives power cuts and panics, the last words of a
   panic included, at every point of every procedure (nmbm_mtd_panic_write
   without nmbm_get_device): unless a panic write fails after the panic came
   while the main table was being written.  nmbm_update_info_table then erases
   the backup table, the only one that is whole.                             *)
SurvivesPanic == mangled # "cut" => Durable

Disk == INSTANCE LogicalDisk WITH
  Contents <- Values \cup {"empty"},
  disk <- [l \in LBs |-> IF Settled(l) /\ mangled # "cut"
                          THEN CHOOSE c \in Outcomes : RecoversTo(l, c)
                          ELSE "unknown"],
  req <- op.lb,
  dead <- panic # "no"

(* Seen through what a power cut would leave, Nmbm is a disk whose blocks
   change only by a request for that very block, and by a panic only the one
   its last words are written to.                                            *)
ImplementsDisk == Disk!Spec
=============================================================================
