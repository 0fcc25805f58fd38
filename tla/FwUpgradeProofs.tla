-------------------------- MODULE FwUpgradeProofs ---------------------------
(***************************************************************************)
(* Proofs about FwUpgrade, for all devices and files and any bound: the    *)
(* script and the flash are well typed; with two slots no upgrade, failure *)
(* or power cut leaves a device without a system, and the upgrade is       *)
(* atomic; the configuration and its volume outlive every upgrade and      *)
(* every reset to default in which nothing fails, on whatever earlier      *)
(* failures and power cuts have left behind.                               *)
(***************************************************************************)
EXTENDS FwUpgrade, TLAPS

Inv == TypeOK /\ RanLastLoads

-----------------------------------------------------------------------------
(* The scripts are sequences of commands.                                  *)

(* A command is an operation and what it is applied to.                    *)
LEMMA CmdType ==
  ASSUME NEW op \in {"detach", "ubiblock", "remove", "make", "write", "setenv",
                     "format", "restore"},
         NEW what \in {"kernel", "root", "data", "all", "current", "valid"}
  PROVE  Cmd(op, what) \in Command
BY DEF Cmd, Command

(* A command that is left out if there is nothing to remove.               *)
LEMMA RemoveType ==
  ASSUME NEW what \in {"kernel", "root", "data"}, NEW there \in BOOLEAN
  PROVE  Remove(what, there) \in Seq(Command)
BY CmdType DEF Remove

(* The commands of the preparation (nand_upgrade_prepare_ubi and its dual). *)
LEMMA PrepareType ==
  ASSUME TypeOK, NEW f \in File
  PROVE  Prepare(f) \in Seq(Command)
<1>1. PrepareDual \in Seq(Command)
  <2>1. Remove("kernel", HasPart("kernel")) \in Seq(Command)
    BY RemoveType DEF HasPart
  <2>2. Remove("root", HasPart("root")) \in Seq(Command)
    BY RemoveType DEF HasPart
  <2> QED
    BY <2>1, <2>2, CmdType DEF PrepareDual
<1>2. PrepareSingle(f) \in Seq(Command)
  <2>1. Remove("kernel", HasPart("kernel") /\ ~dev.kernelMtd) \in Seq(Command)
    BY RemoveType DEF HasPart
  <2>2. Remove("root", HasPart("root")) \in Seq(Command)
    BY RemoveType DEF HasPart
  <2>3. Remove("data", HasData) \in Seq(Command)
    BY RemoveType DEF HasData
  <2> QED
    BY <2>1, <2>2, <2>3, CmdType DEF PrepareSingle
<1> QED
  BY <1>1, <1>2, CmdType DEF Prepare

(* The commands of the installation.                                       *)
LEMMA InstallType ==
  ASSUME TypeOK, NEW f \in File
  PROVE  Install(f) \in Seq(Command)
<1>1. InstallTar \in Seq(Command)
  BY CmdType DEF InstallTar, WriteAndSwitch
<1>2. Afterwards \in Seq(Command)
  BY CmdType DEF Afterwards
<1> QED
  BY <1>1, <1>2, CmdType DEF Install

(* The commands of a reset to default (init_readonlyfs*.sh).               *)
LEMMA ResetType == Reset \in Seq(Command)
BY CmdType DEF Reset

-----------------------------------------------------------------------------
(* What the commands do to the parts.                                      *)

(* Only the parts of the target slot change, to the content given.         *)
LEMMA SetPartsType ==
  ASSUME TypeOK, NEW ps, NEW content \in 0 .. MaxUpgrades \cup {Absent, Empty, Torn},
         SetParts(ps, content)
  PROVE  /\ part' \in [Slots -> [Parts -> 0 .. MaxUpgrades \cup {Absent, Empty, Torn}]]
         /\ \A s \in Slots : s # Target => part'[s] = part[s]
<1>1. Target \in Slots
  BY DEF Target, TypeOK, Slots
<1> QED
  BY <1>1 DEF SetParts, TypeOK

(* A slot stays loadable when its parts, and its mark, do.                 *)
LEMMA LoadsStays ==
  ASSUME NEW s \in Slots, Loads(s), part'[s] = part[s],
         invalid' \subseteq invalid, alone \subseteq alone'
  PROVE  Loads(s)'
BY DEF Loads, Whole

(* What touches the other slot only keeps the one that runs.               *)
LEMMA OtherSlotOnly ==
  ASSUME TypeOK, RanLastLoads, dev' = dev, booted' = booted,
         alone \subseteq alone', invalid' \subseteq invalid,
         \A s \in Slots : s # Target => part'[s] = part[s]
  PROVE  RanLastLoads'
<1> SUFFICES ASSUME dev.dual PROVE Loads(booted)'
  BY DEF RanLastLoads
<1>1. booted \in Slots /\ booted # Target
  BY DEF TypeOK, Slots, Target
<1>2. Loads(booted)
  BY DEF RanLastLoads
<1> QED
  BY <1>1, <1>2 DEF Loads, Whole

-----------------------------------------------------------------------------
(* One step.                                                               *)

(* A command leaves the script well typed and the running slot alone.      *)
LEMMA RunCommandKeeps ==
  ASSUME Inv, RunCommand
  PROVE  Inv'
<1> USE DEF UpgradeSame, EnvSame, trouble
<1>0. /\ TypeOK /\ RanLastLoads
      /\ UpgradeSame
  BY DEF Inv, RunCommand, Detach, DetachFails, Unblock, UnblockFails,
    RemoveVolume, RemoveFails, MakeVolume, MakeFails, WriteStart, WriteSkips,
    WriteEnds, WriteBreaks, Setenv, SetenvFails, Format, FormatFails, Restore,
    RestoreFails
<1>1. todo # <<>>
  BY <1>0 DEF RunCommand, Detach, DetachFails, Unblock, UnblockFails,
    RemoveVolume, RemoveFails, MakeVolume, MakeFails, WriteStart, WriteSkips,
    WriteEnds, WriteBreaks, Setenv, SetenvFails, Format, FormatFails, Restore,
    RestoreFails, Running, TypeOK
<1>2. /\ Tail(todo) \in Seq(Command) /\ Head(todo) \in Command
      /\ <<>> \in Seq(Command)
  BY <1>0, <1>1 DEF TypeOK
<1>3. What \in {"kernel", "root", "data", "all", "current", "valid"}
  BY <1>2 DEF What, Command
<1>4. DetachFails \/ UnblockFails \/ RemoveFails \/ MakeFails \/ WriteSkips
        \/ WriteBreaks \/ SetenvFails \/ FormatFails \/ RestoreFails
      => fails' \in 0 .. MaxFails /\ hurt' \in BOOLEAN
  <2>1. fails \in 0 .. MaxFails /\ hurt \in BOOLEAN /\ MaxFails \in Nat
    BY <1>0, UpgradeAssumption DEF TypeOK
  <2>2. fails' = fails \/ (fails > 0 /\ fails' = fails - 1) => fails' \in 0 .. MaxFails
    BY <2>1
  <2>3. hurt' = hurt \/ hurt' = TRUE => hurt' \in BOOLEAN
    BY <2>1, Zenon
  <2>4. \/ FailsUnless(TRUE) \/ FailsUnless(What # "data" \/ ~Mounted)
        \/ FailsUnless(CanMake) \/ FailsUnless(ToWrite) \/ FailsUnless(~Mounted)
        => fails' \in 0 .. MaxFails /\ hurt' \in BOOLEAN
    BY <2>2, <2>3, Zenon DEF FailsUnless
  <2> QED
    BY <2>4, Zenon DEF DetachFails, UnblockFails, RemoveFails, MakeFails, WriteSkips,
      WriteBreaks, SetenvFails, FormatFails, RestoreFails
<1>5. ASSUME NEW ps, NEW content \in 0 .. MaxUpgrades \cup {Absent, Empty, Torn},
             SetParts(ps, content)
      PROVE  /\ part' \in [Slots -> [Parts -> 0 .. MaxUpgrades \cup {Absent, Empty, Torn}]]
             /\ \A s \in Slots : s # Target => part'[s] = part[s]
  BY <1>0, <1>5, SetPartsType
<1>6. image \in 0 .. MaxUpgrades \cup {Absent, Empty, Torn}
      /\ Absent \in 0 .. MaxUpgrades \cup {Absent, Empty, Torn}
      /\ Empty \in 0 .. MaxUpgrades \cup {Absent, Empty, Torn}
      /\ Torn \in 0 .. MaxUpgrades \cup {Absent, Empty, Torn}
  BY <1>0 DEF TypeOK
<1>7. Target \in Slots
  BY <1>0 DEF TypeOK, Target, Slots
<1>8. TypeOK'
  <2>1. CASE Detach
    BY <1>0, <1>1, <1>2, <2>1 DEF TypeOK, Detach, Proceed, Running, DataStates
  <2>2. CASE DetachFails
    BY <1>0, <1>1, <1>2, <2>2, <1>4 DEF TypeOK, DetachFails, GiveUp, Running,
      DataStates
  <2>3. CASE Unblock
    BY <1>0, <1>1, <1>2, <2>3 DEF TypeOK, Unblock, Proceed, Running,
      DataStates
  <2>4. CASE UnblockFails
    BY <1>0, <1>1, <1>2, <2>4, <1>4 DEF TypeOK, UnblockFails, GiveUp, Running,
      DataStates
  <2>5. CASE RemoveVolume
    BY <1>0, <1>1, <1>2, <2>5, <1>3, <1>5, <1>6 DEF TypeOK, RemoveVolume,
      Proceed, Running, DataStates
  <2>6. CASE RemoveFails
    BY <1>0, <1>1, <1>2, <2>6, <1>4 DEF TypeOK, RemoveFails, Proceed, Running,
      DataStates
  <2>7. CASE MakeVolume
    BY <1>0, <1>1, <1>2, <2>7, <1>3, <1>5, <1>6 DEF TypeOK, MakeVolume,
      CanMake, Proceed, Running, DataStates
  <2>8. CASE MakeFails
    BY <1>0, <1>1, <1>2, <2>8, <1>4 DEF TypeOK, MakeFails, GiveUp, Running,
      DataStates
  <2>9. CASE WriteStart
    BY <1>0, <1>1, <1>2, <2>9, <1>3, <1>5, <1>6 DEF TypeOK, WriteStart,
      Proceed, Running, DataStates
  <2>10. CASE WriteSkips
    BY <1>0, <1>1, <1>2, <2>10, <1>4 DEF TypeOK, WriteSkips, Proceed, Running,
      DataStates
  <2>11. CASE WriteEnds
    BY <1>0, <1>1, <1>2, <2>11, <1>3, <1>5, <1>6 DEF TypeOK, WriteEnds,
      Proceed, Running, DataStates
  <2>12. CASE WriteBreaks
    BY <1>0, <1>1, <1>2, <2>12, <1>4 DEF TypeOK, WriteBreaks, Proceed,
      Running, DataStates
  <2>13. CASE Setenv
    BY <1>0, <1>1, <1>2, <1>7, <2>13 DEF TypeOK, Setenv, Proceed, Running,
      DataStates
  <2>14. CASE SetenvFails
    BY <1>0, <1>1, <1>2, <2>14, <1>4 DEF TypeOK, SetenvFails, Proceed,
      Running, DataStates
  <2>15. CASE Format
    BY <1>0, <1>1, <1>2, <2>15 DEF TypeOK, Format, Proceed, Running,
      DataStates
  <2>16. CASE FormatFails
    BY <1>0, <1>1, <1>2, <2>16, <1>4 DEF TypeOK, FormatFails, GiveUp, Running,
      DataStates
  <2>17. CASE Restore
    BY <1>0, <1>1, <1>2, <2>17 DEF TypeOK, Restore, Proceed, Running,
      DataStates
  <2>18. CASE RestoreFails
    BY <1>0, <1>1, <1>2, <2>18, <1>4 DEF TypeOK, RestoreFails, Proceed,
      Running, DataStates
  <2> QED
    BY <2>1, <2>2, <2>3, <2>4, <2>5, <2>6, <2>7, <2>8, <2>9, <2>10, <2>11,
      <2>12, <2>13, <2>14, <2>15, <2>16, <2>17, <2>18 DEF RunCommand
<1>9. /\ invalid' \subseteq invalid
      /\ \A s \in Slots : s # Target => part'[s] = part[s]
  <2>1. CASE RemoveVolume \/ MakeVolume \/ WriteStart \/ WriteEnds
    BY <1>0, <2>1, <1>5, <1>6 DEF RemoveVolume, MakeVolume, WriteStart,
      WriteEnds
  <2>2. CASE Setenv
    BY <2>2 DEF Setenv
  <2>3. CASE ~(RemoveVolume \/ MakeVolume \/ WriteStart \/ WriteEnds \/ Setenv)
    BY <2>3 DEF RunCommand, Detach, DetachFails, Unblock, UnblockFails,
      RemoveFails, MakeFails, WriteSkips, WriteBreaks, SetenvFails, Format,
      FormatFails, Restore, RestoreFails
  <2> QED
    BY <2>1, <2>2, <2>3
<1> QED
  BY <1>0, <1>8, <1>9, OtherSlotOnly DEF Inv

(* A boot runs a slot that loads; what fell back is marked (boot loader).   *)
LEMMA BootKeeps ==
  ASSUME Inv, Boot
  PROVE  Inv'
<1>1. Choice \in Slots
  BY DEF Choice, Inv, TypeOK, Slots
<1>2. TypeOK'
  BY <1>1, ResetType DEF Inv, TypeOK, Boot, trouble
<1>3. RanLastLoads'
  <2>1. Loads(Choice) /\ Choice \notin invalid'
    BY DEF Boot, Loads, Choice, Inv, TypeOK, Slots
  <2> QED
    BY <2>1 DEF RanLastLoads, Boot, Loads, Whole
<1> QED
  BY <1>2, <1>3 DEF Inv

(* Everything that holds initially and is kept by every step.              *)
LEMMA InitInv == Init => Inv
<1> SUFFICES ASSUME Init PROVE Inv
  OBVIOUS
<1>1. TypeOK
  <2>1. part \in [Slots -> [Parts -> 0 .. MaxUpgrades \cup {Absent, Empty, Torn}]]
    BY UpgradeAssumption DEF Init
  <2>2. invalid \subseteq Slots /\ current \in Slots /\ booted \in Slots
    BY DEF Init, Slots
  <2>3. file \in File /\ alone \subseteq 1 .. MaxUpgrades
    BY DEF Init, File, Parts
  <2>4. todo \in Seq(Command) /\ todo = <<>> /\ writing = FALSE
    BY DEF Init
  <2>5. /\ dev \in Devices /\ data \in DataStates /\ phase = "up"
        /\ hasty \in BOOLEAN /\ backup \in BOOLEAN /\ said \in BOOLEAN
        /\ hurt \in BOOLEAN
    BY DEF Init, DataStates
  <2>6. image = 0 /\ fails = MaxFails /\ cuts = MaxCuts
    BY DEF Init
  <2>7. /\ image \in 0 .. MaxUpgrades
        /\ fails \in 0 .. MaxFails /\ cuts \in 0 .. MaxCuts
    BY <2>6, UpgradeAssumption
  <2> QED
    BY <2>1, <2>2, <2>3, <2>4, <2>5, <2>7 DEF TypeOK
<1>2. RanLastLoads
  BY DEF Init, RanLastLoads, Loads, Whole, Slots, Parts
<1> QED
  BY <1>1, <1>2 DEF Inv

LEMMA NextInv == Inv /\ [Next]_vars => Inv'
<1> SUFFICES ASSUME Inv, [Next]_vars PROVE Inv'
  OBVIOUS
<1> USE DEF Inv, FlashSame, trouble
<1>1. CASE RunCommand
  BY <1>1, RunCommandKeeps
<1>2. ASSUME NEW f \in Files, NEW b \in BOOLEAN, Offer(f, b) PROVE Inv'
  <2>1. f \in File /\ Prepare(f) \in Seq(Command)
    BY PrepareType, UpgradeAssumption
  <2>2. image' \in 0 .. MaxUpgrades /\ alone' \subseteq 1 .. MaxUpgrades
    <3>1. image' = image + 1 /\ image < MaxUpgrades
      BY <1>2 DEF Offer
    <3>2. alone' = alone \/ alone' = alone \cup {image + 1}
      BY <1>2 DEF Offer
    <3>3. image \in 0 .. MaxUpgrades /\ alone \subseteq 1 .. MaxUpgrades
      BY DEF TypeOK
    <3>4. image + 1 \in 1 .. MaxUpgrades
      BY <3>1, <3>3, UpgradeAssumption
    <3>5. alone' \subseteq 1 .. MaxUpgrades
      BY <3>2, <3>3, <3>4
    <3>6. image' \in 0 .. MaxUpgrades
      BY <3>1, <3>4, UpgradeAssumption
    <3> QED
      BY <3>5, <3>6
  <2>3. writing' = FALSE /\ phase' = "prepare" /\ said' = FALSE
    BY <1>2 DEF Offer, TypeOK
  <2>4. todo' \in Seq(Command) /\ file' \in File
    BY <1>2, <2>1 DEF Offer
  <2>5. backup' \in BOOLEAN /\ hasty' \in BOOLEAN /\ hurt' \in BOOLEAN
    BY <1>2 DEF Offer, TypeOK
  <2>6. /\ UNCHANGED <<dev, part, data, current, invalid>>
        /\ UNCHANGED <<booted, fails, cuts>>
    BY <1>2 DEF Offer
  <2>7. TypeOK'
    BY <2>2, <2>3, <2>4, <2>5, <2>6 DEF TypeOK
  <2> QED
    BY <1>2, <2>7, OtherSlotOnly DEF Offer
<1>3. CASE EndPrepare
  <2>1. Install(file) \in Seq(Command)
    BY InstallType DEF TypeOK
  <2>2. TypeOK'
    BY <1>3, <2>1 DEF EndPrepare, TypeOK
  <2> QED
    BY <1>3, <2>2, OtherSlotOnly DEF EndPrepare
<1>4. CASE EndInstall
  <2>1. TypeOK'
    BY <1>4 DEF EndInstall, TypeOK
  <2> QED
    BY <1>4, <2>1, OtherSlotOnly DEF EndInstall
<1>5. CASE Configure
  <2>1. TypeOK'
    BY <1>5 DEF Configure, TypeOK, DataStates, UpgradeSame, EnvSame
  <2> QED
    BY <1>5, <2>1, OtherSlotOnly DEF Configure, UpgradeSame, EnvSame
<1>6. CASE Reboot
  <2>1. TypeOK'
    BY <1>6 DEF Reboot, TypeOK
  <2> QED
    BY <1>6, <2>1, OtherSlotOnly DEF Reboot
<1>7. CASE PowerCut
  <2>1. cuts' \in 0 .. MaxCuts
    BY <1>7, UpgradeAssumption DEF PowerCut, TypeOK
  <2>2. todo' \in Seq(Command)
    BY <1>7 DEF PowerCut
  <2>3. TypeOK'
    BY <1>7, <2>1, <2>2 DEF PowerCut, TypeOK
  <2> QED
    BY <1>7, <2>3, OtherSlotOnly DEF PowerCut
<1>8. CASE Boot
  BY <1>8, BootKeeps
<1>9. CASE EndInit
  <2>1. TypeOK'
    BY <1>9 DEF EndInit, TypeOK, DataStates, UpgradeSame, EnvSame
  <2> QED
    BY <1>9, <2>1, OtherSlotOnly DEF EndInit, UpgradeSame, EnvSame
<1>10. CASE UNCHANGED vars
  BY <1>10 DEF vars, TypeOK, RanLastLoads, Loads, Whole
<1> QED
  BY <1>1, <1>2, <1>3, <1>4, <1>5, <1>6, <1>7, <1>8, <1>9, <1>10 DEF Next

-----------------------------------------------------------------------------

(* The script, the environment and the flash are always well typed.        *)
THEOREM TypeCorrect == Spec => []TypeOK
BY InitInv, NextInv, PTL DEF Spec, Inv

(* With two slots there is always a system to boot: the one that ran last.
   No upgrade touches it (ubi_dual_boot_upgrade_tar and
   mtk_mmc_do_upgrade_dual_boot write the slot that does not run).          *)
THEOREM NeverBrickedAlways == Spec => []NeverBricked
<1>1. Inv => NeverBricked
  BY DEF Inv, RanLastLoads, NeverBricked, TypeOK
<1> QED
  BY <1>1, InitInv, NextInv, PTL DEF Spec
-----------------------------------------------------------------------------
(***************************************************************************)
(* FwUpgrade implements AtomicUpgrade: with two slots, when no command     *)
(* fails, the archives are complete and each upgrade is followed by a boot, *)
(* the next boot runs the old system up to the switch of the slot and the  *)
(* new one from then on, wherever the power goes.                          *)
(***************************************************************************)
(* The inductive invariant.                                                *)

\* The conditions of AtomicUpgrade.
Promised == dev.dual /\ NothingFailed /\ Careful

Steps == 1 .. Len(todo)
Op(i) == todo[i][1]
On(i) == todo[i][2]
Does(i, op, what) == Op(i) = op /\ On(i) = what

\* the other slot was not selected since the last boot
NotSwitched == current = booted \/ Target \in invalid
Upgraded == \A p \in Parts : part[Target][p] = image

\* What is offered is a tar, with both parts unless the history says otherwise.
Offered ==
  /\ file.parts = Parts \/ image \in alone
  /\ dev.dual => file.type = "tar"

\* Before the preparation ends each volume is there or will be made, in the place
\* of the old one.
Preparing ==
  /\ \A i \in Steps : Op(i) \in {"ubiblock", "remove", "make"}
  /\ \A i \in Steps : Op(i) = "make" => On(i) \in Parts \cup {"data"}
  /\ \A i \in Steps, p \in Parts :
       /\ Does(i, "make", p) =>
            /\ part[Target][p] = Absent \/ \E j \in 1 .. i - 1 : Does(j, "remove", p)
            /\ \A j \in i + 1 .. Len(todo) : On(j) # p
       /\ Does(i, "remove", p) => \E j \in i + 1 .. Len(todo) : Does(j, "make", p)
       /\ Does(i, "make", "data") =>
            \A j \in i + 1 .. Len(todo) : ~Does(j, "make", p)
  /\ \A p \in Parts :
       part[Target][p] # Absent \/ \E i \in Steps : Does(i, "make", p)
  /\ ~OnUbi => todo = <<>>
  /\ NotSwitched

\* Each part is written or will be, and the slot is switched after the writes.
Installing ==
  /\ \A i \in Steps : Op(i) \in {"write", "setenv", "format", "restore"}
  /\ \A i \in Steps : Op(i) = "write" => On(i) \in Parts
  /\ \A p \in Parts : part[Target][p] # Absent
  /\ \A p \in Parts :
       part[Target][p] = image \/ \E i \in Steps : Does(i, "write", p)
  /\ \A i \in Steps, j \in Steps :
       Op(i) \in {"setenv", "format"} /\ i < j => Op(j) # "write"
  /\ NotSwitched \/ \A i \in Steps : Op(i) # "write"

\* A reset to default touches rootfs_data only.
Starting ==
  /\ \A i \in Steps : On(i) = "data" /\ Op(i) \in {"remove", "make", "format"}
  /\ NotSwitched

\* Partitions, unlike volumes, are always there.
Partitions ==
  ~OnUbi => \A s \in Slots, p \in Parts : part[s][p] # Absent

\* What holds between any two commands as long as the promise does.
Kept ==
  /\ Partitions /\ SelectedWhole
  /\ phase = "prepare" => Preparing
  /\ phase = "install" => Installing
  /\ phase = "init" => Starting
  /\ phase = "up" /\ ~said => NotSwitched

AInv == Offered /\ (Promised => Kept)

-----------------------------------------------------------------------------
(* The script gets shorter.                                                *)

\* A script that is not empty is its head and a script one command shorter.
LEMMA Shorter ==
  ASSUME TypeOK, todo # <<>>
  PROVE  /\ Len(todo) \in Nat /\ Len(todo) >= 1
         /\ Head(todo) = todo[1]
         /\ Len(Tail(todo)) = Len(todo) - 1
         /\ \A i \in 1 .. Len(todo) - 1 : Tail(todo)[i] = todo[i + 1]
  BY DEF TypeOK

\* The target slot, as far as the preparation and the installation go.
LEMMA TargetType ==
  ASSUME TypeOK
  PROVE  /\ booted \in Slots /\ Target \in Slots /\ current \in Slots
         /\ dev.dual => booted # Target /\ (current = booted \/ current = Target)
                        /\ 1 - Target = booted /\ 1 - booted = Target
  BY DEF TypeOK, Target, Slots

\* SetParts changes the parts it names, to what it says.
LEMMA SetPartsSets ==
  ASSUME TypeOK, NEW ps, NEW content, SetParts(ps, content)
  PROVE  \A p \in Parts :
           part'[Target][p] = IF p \in ps THEN content ELSE part[Target][p]
<1>1. Target \in Slots
  BY TargetType
<1> QED
  BY <1>1 DEF SetParts, TypeOK

\* The first command of a preparation is done: the rest is one, too.
LEMMA PreparingShifts ==
  ASSUME TypeOK, Preparing, todo # <<>>, todo' = Tail(todo),
         dev' = dev, booted' = booted, NotSwitched',
         \A p \in Parts :
           /\ Does(1, "remove", p) => part'[Target][p] = Absent
           /\ Does(1, "make", p) => part'[Target][p] # Absent
           /\ ~Does(1, "remove", p) /\ ~Does(1, "make", p) =>
                part'[Target][p] = part[Target][p]
  PROVE  Preparing'
<1>1. /\ Len(todo) \in Nat /\ Len(todo) >= 1 /\ Len(todo') = Len(todo) - 1
      /\ \A i \in 1 .. Len(todo') : todo'[i] = todo[i + 1]
  BY Shorter
<1>2. Target' = Target
  BY DEF Target
<1>3. \A i \in Steps' : i + 1 \in Steps /\ Op(i)' = Op(i + 1) /\ On(i)' = On(i + 1)
  BY <1>1 DEF Steps, Op, On
<1>4. \A i \in Steps' : Op(i)' \in {"ubiblock", "remove", "make"}
  BY <1>3 DEF Preparing
<1>5. \A i \in Steps' : Op(i)' = "make" => On(i)' \in Parts \cup {"data"}
  BY <1>3 DEF Preparing
<1>6. ASSUME NEW i \in Steps', NEW p \in Parts, Does(i, "make", p)'
      PROVE  /\ part'[Target][p] = Absent
                 \/ \E j \in 1 .. i - 1 : Does(j, "remove", p)'
             /\ \A j \in i + 1 .. Len(todo') : On(j)' # p
  <2>1. Does(i + 1, "make", p) /\ i + 1 \in Steps
    BY <1>3, <1>6 DEF Does
  <2>2. \A j \in i + 1 .. Len(todo') : On(j)' # p
    <3> SUFFICES ASSUME NEW j \in i + 1 .. Len(todo') PROVE On(j)' # p
      OBVIOUS
    <3>1. j \in Steps' /\ j + 1 \in i + 1 + 1 .. Len(todo)
      BY <1>1 DEF Steps
    <3> QED
      BY <1>3, <2>1, <3>1 DEF Preparing
  <2>3. ~Does(1, "make", p)
    <3>1. 1 \in Steps /\ i + 1 \in 1 + 1 .. Len(todo) /\ On(i + 1) = p
      BY <1>1, <2>1 DEF Steps, Does
    <3> QED
      BY <3>1 DEF Preparing
  <2>4. CASE Does(1, "remove", p)
    BY <2>2, <2>4
  <2>5. CASE ~Does(1, "remove", p)
    <3>1. CASE part[Target][p] = Absent
      BY <2>2, <2>3, <2>5, <3>1
    <3>2. CASE part[Target][p] # Absent
      <4>0. i \in Int /\ (i + 1) - 1 = i
        BY <1>1 DEF Steps
      <4>1. PICK j \in 1 .. i : Does(j, "remove", p)
        BY <2>1, <3>2, <4>0 DEF Preparing
      <4>2. j # 1 /\ j - 1 \in 1 .. i - 1 /\ j - 1 \in Steps'
        BY <1>1, <2>5, <4>1 DEF Steps
      <4>3. Does(j - 1, "remove", p)'
        BY <1>3, <4>1, <4>2 DEF Does
      <4> QED
        BY <2>2, <4>2, <4>3
    <3> QED
      BY <3>1, <3>2
  <2> QED
    BY <2>4, <2>5
<1>7. ASSUME NEW i \in Steps', NEW p \in Parts, Does(i, "remove", p)'
      PROVE  \E j \in i + 1 .. Len(todo') : Does(j, "make", p)'
  <2>1. Does(i + 1, "remove", p) /\ i + 1 \in Steps
    BY <1>3, <1>7 DEF Does
  <2>2. PICK j \in i + 1 + 1 .. Len(todo) : Does(j, "make", p)
    BY <2>1 DEF Preparing
  <2>3. j - 1 \in i + 1 .. Len(todo') /\ j - 1 \in Steps'
    BY <1>1, <2>2 DEF Steps
  <2> QED
    BY <1>3, <2>2, <2>3 DEF Does
<1>8. ASSUME NEW i \in Steps', NEW p \in Parts, Does(i, "make", "data")',
             NEW j \in i + 1 .. Len(todo')
      PROVE  ~Does(j, "make", p)'
  <2>1. Does(i + 1, "make", "data") /\ i + 1 \in Steps
    BY <1>3, <1>8 DEF Does
  <2>2. j \in Steps' /\ j + 1 \in i + 1 + 1 .. Len(todo)
    BY <1>1 DEF Steps
  <2>3. ~Does(j + 1, "make", p)
    BY <2>1, <2>2 DEF Preparing
  <2> QED
    BY <1>3, <2>2, <2>3 DEF Does
<1>9. ASSUME NEW p \in Parts
      PROVE  part'[Target][p] # Absent \/ \E i \in Steps' : Does(i, "make", p)'
  <2>1. ASSUME NEW i \in Steps, i # 1, Does(i, "make", p)
        PROVE  \E j \in Steps' : Does(j, "make", p)'
    <3>1. i - 1 \in Steps' /\ (i - 1) + 1 = i
      BY <1>1, <2>1 DEF Steps
    <3> QED
      BY <1>3, <2>1, <3>1 DEF Does
  <2>2. CASE Does(1, "make", p)
    BY <2>2
  <2>3. CASE Does(1, "remove", p)
    <3>1. PICK j \in 1 + 1 .. Len(todo) : Does(j, "make", p)
      BY <1>1, <2>3 DEF Preparing, Steps
    <3>2. j \in Steps /\ j # 1
      BY <1>1 DEF Steps
    <3> QED
      BY <2>1, <3>1, <3>2
  <2>4. CASE ~Does(1, "remove", p) /\ ~Does(1, "make", p)
    BY <2>1, <2>4 DEF Preparing
  <2> QED
    BY <2>2, <2>3, <2>4
<1>10. OnUbi' = OnUbi
  BY DEF OnUbi
<1>11. OnUbi
  BY DEF Preparing
<1> QED
  BY <1>2, <1>4, <1>5, <1>6, <1>7, <1>8, <1>9, <1>10, <1>11 DEF Preparing

\* The same for an installation; only the switch and what follows it may change
\* which slot is selected.
LEMMA InstallingShifts ==
  ASSUME TypeOK, Installing, todo # <<>>, todo' = Tail(todo),
         dev' = dev, booted' = booted, image' = image,
         NotSwitched' \/ NotSwitched' = NotSwitched
           \/ Op(1) \in {"setenv", "format"},
         \A p \in Parts :
           /\ Does(1, "write", p) => part'[Target][p] = image
           /\ ~Does(1, "write", p) => part'[Target][p] = part[Target][p]
  PROVE  Installing'
<1>1. /\ Len(todo) \in Nat /\ Len(todo) >= 1 /\ Len(todo') = Len(todo) - 1
      /\ \A i \in 1 .. Len(todo') : todo'[i] = todo[i + 1]
  BY Shorter
<1>2. Target' = Target
  BY DEF Target
<1>3. \A i \in Steps' : i + 1 \in Steps /\ Op(i)' = Op(i + 1) /\ On(i)' = On(i + 1)
  BY <1>1 DEF Steps, Op, On
<1>4. 1 \in Steps
  BY <1>1 DEF Steps
<1>5. \A i \in Steps' : Op(i)' \in {"write", "setenv", "format", "restore"}
  BY <1>3 DEF Installing
<1>6. \A i \in Steps' : Op(i)' = "write" => On(i)' \in Parts
  BY <1>3 DEF Installing
<1>7. image # Absent
  BY DEF TypeOK, Absent
<1>8. ASSUME NEW p \in Parts
      PROVE  /\ part'[Target][p] # Absent
             /\ part'[Target][p] = image \/ \E i \in Steps' : Does(i, "write", p)'
  <2>1. CASE Does(1, "write", p)
    BY <1>7, <2>1
  <2>2. CASE ~Does(1, "write", p)
    <3>1. part'[Target][p] = part[Target][p] /\ part[Target][p] # Absent
      BY <2>2 DEF Installing
    <3>2. ASSUME NEW i \in Steps, Does(i, "write", p)
          PROVE  \E j \in Steps' : Does(j, "write", p)'
      <4>1. i # 1 /\ i - 1 \in Steps' /\ (i - 1) + 1 = i
        BY <1>1, <2>2, <3>2 DEF Steps
      <4> QED
        BY <1>3, <3>2, <4>1 DEF Does
    <3> QED
      BY <3>1, <3>2 DEF Installing
  <2> QED
    BY <2>1, <2>2
<1>9. ASSUME NEW i \in Steps', NEW j \in Steps', Op(i)' \in {"setenv", "format"}, i < j
      PROVE  Op(j)' # "write"
  <2>1. i + 1 \in Steps /\ j + 1 \in Steps /\ i + 1 < j + 1
    BY <1>1, <1>3, <1>9 DEF Steps
  <2> QED
    BY <1>3, <1>9, <2>1 DEF Installing
<1>10. NotSwitched' \/ \A i \in Steps' : Op(i)' # "write"
  <2>1. CASE Op(1) \in {"setenv", "format"}
    <3>1. ASSUME NEW i \in Steps' PROVE Op(i)' # "write"
      <4>1. 1 < i + 1
        BY <1>1 DEF Steps
      <4> QED
        BY <1>3, <1>4, <2>1, <4>1 DEF Installing
    <3> QED
      BY <3>1
  <2>2. CASE NotSwitched' = NotSwitched
    BY <1>3, <2>2 DEF Installing
  <2> QED
    BY <2>1, <2>2
<1> QED
  BY <1>2, <1>5, <1>6, <1>8, <1>9, <1>10 DEF Installing

-----------------------------------------------------------------------------
(* The scripts start out as the invariant says.                            *)

\* Where the elements of a concatenation come from.
LEMMA Joined ==
  ASSUME NEW S, NEW s \in Seq(S), NEW t \in Seq(S)
  PROVE  /\ s \o t \in Seq(S) /\ Len(s \o t) = Len(s) + Len(t)
         /\ Len(s) \in Nat /\ Len(t) \in Nat
         /\ \A i \in 1 .. Len(s) : (s \o t)[i] = s[i]
         /\ \A i \in 1 .. Len(t) : (s \o t)[Len(s) + i] = t[i]
OBVIOUS

\* Scripts of two commands and of one.
LEMMA Pair ==
  ASSUME NEW S, NEW a \in S, NEW b \in S
  PROVE  <<a, b>> \in Seq(S) /\ Len(<<a, b>>) = 2
         /\ <<a, b>>[1] = a /\ <<a, b>>[2] = b
OBVIOUS

LEMMA One ==
  ASSUME NEW S, NEW a \in S
  PROVE  <<a>> \in Seq(S) /\ Len(<<a>>) = 1 /\ <<a>>[1] = a
OBVIOUS

\* dual_boot_upgrade_prepare_ubi: the volumes that are there are removed, both
\* are made, then rootfs_data is replaced unless it is reserved.
LEMMA PrepareDualIs ==
  ASSUME TypeOK, todo = PrepareDual
  PROVE  \E n \in Nat :
           /\ n >= 1 /\ Len(todo) \in {n + 2, n + 4}
           /\ \A i \in 1 .. n : Op(i) \in {"ubiblock", "remove"}
           /\ \A p \in Parts : HasPart(p) => \E i \in 1 .. n : Does(i, "remove", p)
           /\ Does(n + 1, "make", "kernel") /\ Does(n + 2, "make", "root")
           /\ Len(todo) = n + 4 =>
                Does(n + 3, "remove", "data") /\ Does(n + 4, "make", "data")
<1> DEFINE u == Cmd("ubiblock", "root")
           rk == Cmd("remove", "kernel")
           rr == Cmd("remove", "root")
           mk == Cmd("make", "kernel")
           mr == Cmd("make", "root")
           rd == Cmd("remove", "data")
           md == Cmd("make", "data")
           k == Remove("kernel", HasPart("kernel"))
           r == Remove("root", HasPart("root"))
           d == IF ~dev.reserve /\ HasData THEN <<rd, md>> ELSE <<>>
           c1 == <<u>> \o k
           c2 == c1 \o r
           c3 == c2 \o <<mk, mr>>
           c4 == c3 \o d
           n == Len(c2)
<1>1. /\ u \in Command /\ rk \in Command /\ rr \in Command /\ mk \in Command
      /\ mr \in Command /\ rd \in Command /\ md \in Command
  BY CmdType
<1>2. todo = c4
  BY DEF PrepareDual
<1>3. k \in Seq(Command) /\ (k = <<rk>> \/ (k = <<>> /\ ~HasPart("kernel")))
  BY <1>1 DEF Remove
<1>4. r \in Seq(Command) /\ (r = <<rr>> \/ (r = <<>> /\ ~HasPart("root")))
  BY <1>1 DEF Remove
<1>5. d \in Seq(Command) /\ (d = <<rd, md>> \/ d = <<>>)
  BY <1>1
<1>6. <<u>> \in Seq(Command) /\ <<mk, mr>> \in Seq(Command)
  BY <1>1
<1>7. /\ u[1] = "ubiblock" /\ rk = <<"remove", "kernel">>
      /\ rr = <<"remove", "root">> /\ mk = <<"make", "kernel">>
      /\ mr = <<"make", "root">> /\ rd = <<"remove", "data">>
      /\ md = <<"make", "data">>
  BY DEF Cmd
<1> HIDE DEF u, rk, rr, mk, mr, rd, md, k, r, d
<1>8. /\ c1 \in Seq(Command) /\ Len(c1) \in 1 .. 2 /\ Len(c1) = 1 + Len(k)
      /\ c1[1] = u /\ (k = <<rk>> => Len(c1) = 2 /\ c1[2] = rk)
      /\ (k = <<>> => Len(c1) = 1)
  BY <1>1, <1>3, <1>6, Joined, One
<1> HIDE DEF c1
<1>9. /\ c2 \in Seq(Command) /\ n \in 1 .. 3
      /\ \A i \in 1 .. Len(c1) : c2[i] = c1[i]
      /\ n = Len(c1) + Len(r)
      /\ r = <<rr>> => c2[n] = rr /\ n = Len(c1) + 1
      /\ r = <<>> => n = Len(c1)
  <2>1. /\ c2 \in Seq(Command) /\ n = Len(c1) + Len(r)
        /\ \A i \in 1 .. Len(c1) : c2[i] = c1[i]
        /\ \A i \in 1 .. Len(r) : c2[Len(c1) + i] = r[i]
    BY <1>4, <1>8, Joined
  <2>2. r = <<rr>> => Len(r) = 1 /\ r[1] = rr
    BY <1>1, One
  <2>3. r = <<>> => Len(r) = 0
    OBVIOUS
  <2> HIDE DEF c2
  <2> QED
    BY <1>4, <1>8, <2>1, <2>2, <2>3
<1>10. \A i \in 1 .. n : c2[i][1] \in {"ubiblock", "remove"}
  BY <1>3, <1>4, <1>7, <1>8, <1>9
<1>11. /\ HasPart("kernel") => \E i \in 1 .. n : c2[i] = rk
       /\ HasPart("root") => \E i \in 1 .. n : c2[i] = rr
  BY <1>3, <1>4, <1>8, <1>9
<1> HIDE DEF c2
<1>12. /\ c3 \in Seq(Command) /\ Len(c3) = n + 2
       /\ \A i \in 1 .. n : c3[i] = c2[i]
       /\ c3[n + 1] = mk /\ c3[n + 2] = mr
  BY <1>1, <1>6, <1>9, Joined, Pair
<1> HIDE DEF c3
<1>13. /\ \A i \in 1 .. n + 2 : c4[i] = c3[i]
       /\ Len(c4) = n + 2 + Len(d)
       /\ d = <<rd, md>> => Len(c4) = n + 4 /\ c4[n + 3] = rd /\ c4[n + 4] = md
       /\ d = <<>> => Len(c4) = n + 2
  <2>0. c3 \in Seq(Command) /\ d \in Seq(Command)
    BY <1>5, <1>12
  <2>1. /\ Len(c4) = Len(c3) + Len(d)
        /\ \A i \in 1 .. Len(c3) : c4[i] = c3[i]
        /\ \A i \in 1 .. Len(d) : c4[Len(c3) + i] = d[i]
    BY <2>0, Joined
  <2>2. d = <<rd, md>> => Len(d) = 2 /\ d[1] = rd /\ d[2] = md
    BY <1>1, Pair
  <2>3. d = <<>> => Len(d) = 0
    OBVIOUS
  <2>4. n \in 1 .. 3 /\ Len(c3) = n + 2
    BY <1>9, <1>12 DEF n
  <2>5. (n + 2) + 1 = n + 3 /\ (n + 2) + 2 = n + 4
    BY <2>4
  <2> HIDE DEF c4, n
  <2>6. d = <<rd, md>> => c4[n + 3] = rd /\ c4[n + 4] = md
    <3> SUFFICES ASSUME d = <<rd, md>> PROVE c4[n + 3] = rd /\ c4[n + 4] = md
      OBVIOUS
    <3>1. 1 \in 1 .. Len(d) /\ 2 \in 1 .. Len(d)
      BY <2>2
    <3>2. c4[Len(c3) + 1] = d[1] /\ c4[Len(c3) + 2] = d[2]
      BY <2>1, <3>1
    <3> QED
      BY <2>2, <2>4, <2>5, <3>2
  <2> QED
    BY <1>5, <2>1, <2>2, <2>3, <2>4, <2>6
<1> HIDE DEF c4
<1>14. Len(todo) \in {n + 2, n + 4} /\ n \in Nat /\ n >= 1
  BY <1>2, <1>5, <1>9, <1>13
<1>15. \A i \in 1 .. n : todo[i] = c2[i]
  BY <1>2, <1>9, <1>12, <1>13
<1>16. todo[n + 1] = mk /\ todo[n + 2] = mr
  BY <1>2, <1>9, <1>12, <1>13
<1>17. Len(todo) = n + 4 => todo[n + 3] = rd /\ todo[n + 4] = md
  BY <1>2, <1>5, <1>9, <1>13
<1> HIDE DEF n
<1>18. \A p \in Parts : HasPart(p) => \E i \in 1 .. n : Does(i, "remove", p)
  BY <1>7, <1>11, <1>15 DEF Does, Op, On, Parts
<1>19. \A i \in 1 .. n : Op(i) \in {"ubiblock", "remove"}
  BY <1>10, <1>15 DEF Op
<1>20. /\ Does(n + 1, "make", "kernel") /\ Does(n + 2, "make", "root")
       /\ Len(todo) = n + 4 =>
            Does(n + 3, "remove", "data") /\ Does(n + 4, "make", "data")
  BY <1>7, <1>16, <1>17 DEF Does, Op, On
<1> QED
  BY <1>14, <1>18, <1>19, <1>20

\* So the preparation starts as one.
LEMMA PrepareDualStarts ==
  TypeOK /\ OnUbi /\ todo = PrepareDual /\ NotSwitched => Preparing
<1> SUFFICES ASSUME TypeOK, OnUbi, todo = PrepareDual, NotSwitched
             PROVE  Preparing
  OBVIOUS
<1>1. PICK n \in Nat :
        /\ n >= 1 /\ Len(todo) \in {n + 2, n + 4}
        /\ \A i \in 1 .. n : Op(i) \in {"ubiblock", "remove"}
        /\ \A p \in Parts : HasPart(p) => \E i \in 1 .. n : Does(i, "remove", p)
        /\ Does(n + 1, "make", "kernel") /\ Does(n + 2, "make", "root")
        /\ Len(todo) = n + 4 =>
             Does(n + 3, "remove", "data") /\ Does(n + 4, "make", "data")
  BY PrepareDualIs
<1>2. ASSUME NEW i \in Steps
      PROVE  \/ i \in 1 .. n /\ Op(i) \in {"ubiblock", "remove"}
             \/ i = n + 1 /\ Does(i, "make", "kernel")
             \/ i = n + 2 /\ Does(i, "make", "root")
             \/ i = n + 3 /\ Does(i, "remove", "data") /\ Len(todo) = n + 4
             \/ i = n + 4 /\ Does(i, "make", "data") /\ Len(todo) = n + 4
  BY <1>1 DEF Steps
<1>3. /\ \A i \in Steps : Op(i) \in {"ubiblock", "remove", "make"}
      /\ \A i \in Steps : Op(i) = "make" => On(i) \in Parts \cup {"data"}
  BY <1>2 DEF Does, Parts
<1>4. ASSUME NEW i \in Steps, NEW p \in Parts, Does(i, "make", p)
      PROVE  /\ part[Target][p] = Absent
                 \/ \E j \in 1 .. i - 1 : Does(j, "remove", p)
             /\ \A j \in i + 1 .. Len(todo) : On(j) # p
  <2>1. i \in {n + 1, n + 2} /\ (i = n + 1 => p = "kernel") /\ (i = n + 2 => p = "root")
    BY <1>2, <1>4 DEF Does, Parts
  <2>2. HasPart(p) => \E j \in 1 .. i - 1 : Does(j, "remove", p)
    BY <1>1, <2>1
  <2>3. ASSUME NEW j \in i + 1 .. Len(todo) PROVE On(j) # p
    <3>1. j \in Steps /\ j > i
      BY <1>1, <2>1 DEF Steps
    <3> QED
      BY <1>2, <2>1, <3>1 DEF Does
  <2> QED
    BY <2>2, <2>3 DEF HasPart
<1>5. ASSUME NEW i \in Steps, NEW p \in Parts, Does(i, "remove", p)
      PROVE  \E j \in i + 1 .. Len(todo) : Does(j, "make", p)
  <2>1. i \in 1 .. n
    BY <1>2, <1>5 DEF Does, Parts
  <2> QED
    BY <1>1, <2>1 DEF Parts
<1>6. ASSUME NEW i \in Steps, NEW p \in Parts, Does(i, "make", "data"),
             NEW j \in i + 1 .. Len(todo)
      PROVE  ~Does(j, "make", p)
  <2>1. i = n + 4
    BY <1>2, <1>6 DEF Does
  <2> QED
    BY <1>1, <2>1
<1>7. ASSUME NEW p \in Parts PROVE \E i \in Steps : Does(i, "make", p)
  <2>1. n + 1 \in Steps /\ n + 2 \in Steps
    BY <1>1 DEF Steps
  <2> QED
    BY <1>1, <2>1 DEF Parts
<1> QED
  BY <1>3, <1>4, <1>5, <1>6, <1>7 DEF Preparing

\* An empty preparation is one if the parts are there.
LEMMA NothingToPrepare ==
  todo = <<>> /\ NotSwitched /\ (\A p \in Parts : part[Target][p] # Absent)
    => Preparing
BY DEF Preparing, Steps

\* WriteAndSwitch, then what becomes of rootfs_data.
LEMMA InstallStarts ==
  /\ TypeOK /\ dev.dual /\ file.type = "tar" /\ todo = Install(file) /\ NotSwitched
  /\ \A p \in Parts : part[Target][p] # Absent
  => Installing
<1> SUFFICES ASSUME TypeOK, dev.dual, file.type = "tar", todo = Install(file),
                    NotSwitched, \A p \in Parts : part[Target][p] # Absent
             PROVE  Installing
  OBVIOUS
<1> DEFINE ws == WriteAndSwitch
<1>1. todo = ws \o Afterwards
  BY DEF Install, InstallTar
<1>2. /\ ws \in Seq(Command) /\ Len(ws) = 4
      /\ ws[1] = <<"write", "kernel">> /\ ws[2] = <<"write", "root">>
      /\ ws[3][1] = "setenv" /\ ws[4][1] = "setenv"
  BY CmdType DEF WriteAndSwitch, Cmd
<1>3. /\ Afterwards \in Seq(Command) /\ Len(Afterwards) \in Nat
      /\ \A i \in 1 .. Len(Afterwards) : Afterwards[i][1] \in {"format", "restore"}
  <2>1. Cmd("format", "data") \in Command /\ Cmd("restore", "data") \in Command
    BY CmdType
  <2>2. CASE dev.dual /\ dev.reserve
    BY <2>2 DEF Afterwards
  <2>3. CASE ~(dev.dual /\ dev.reserve) /\ OnUbi
    BY <2>1, <2>3 DEF Afterwards, Cmd
  <2>4. CASE ~(dev.dual /\ dev.reserve) /\ ~OnUbi
    BY <2>1, <2>4 DEF Afterwards, Cmd
  <2> QED
    BY <2>2, <2>3, <2>4
<1> HIDE DEF ws
<1>4. /\ Len(todo) = 4 + Len(Afterwards)
      /\ \A i \in 1 .. 4 : todo[i] = ws[i]
      /\ \A i \in 1 .. Len(Afterwards) : todo[4 + i] = Afterwards[i]
  <2>1. ws \in Seq(Command) /\ Afterwards \in Seq(Command)
    BY <1>2, <1>3
  <2>2. /\ Len(ws \o Afterwards) = Len(ws) + Len(Afterwards)
        /\ \A i \in 1 .. Len(ws) : (ws \o Afterwards)[i] = ws[i]
        /\ \A i \in 1 .. Len(Afterwards) :
             (ws \o Afterwards)[Len(ws) + i] = Afterwards[i]
    BY <2>1, Joined
  <2> QED
    BY <1>1, <1>2, <2>2
<1>5. ASSUME NEW i \in Steps
      PROVE  \/ i = 1 /\ Does(i, "write", "kernel")
             \/ i = 2 /\ Does(i, "write", "root")
             \/ i > 2 /\ Op(i) \in {"setenv", "format", "restore"}
  <2>1. CASE i \in 1 .. 4
    BY <1>2, <1>4, <2>1 DEF Does, Op, On
  <2>2. CASE i > 4
    <3>1. i - 4 \in 1 .. Len(Afterwards) /\ 4 + (i - 4) = i
      BY <1>3, <1>4, <2>2 DEF Steps
    <3> QED
      BY <1>3, <1>4, <3>1 DEF Op
  <2> QED
    BY <2>1, <2>2 DEF Steps
<1>6. 1 \in Steps /\ 2 \in Steps
  BY <1>3, <1>4 DEF Steps
<1>7. Does(1, "write", "kernel") /\ Does(2, "write", "root")
  BY <1>5, <1>6
<1>8. \A p \in Parts : \E i \in Steps : Does(i, "write", p)
  BY <1>6, <1>7 DEF Parts
<1>9. \A i \in Steps : Op(i) = "write" => On(i) \in Parts
  BY <1>5 DEF Does, Parts
<1>10. \A i \in Steps : Op(i) \in {"write", "setenv", "format", "restore"}
  BY <1>5 DEF Does
<1>11. ASSUME NEW i \in Steps, NEW j \in Steps, Op(i) \in {"setenv", "format"}, i < j
       PROVE  Op(j) # "write"
  <2>1. i > 2
    BY <1>5, <1>11 DEF Does
  <2>2. j > 2
    BY <1>11, <2>1 DEF Steps
  <2> QED
    BY <1>5, <2>2
<1> QED
  BY <1>8, <1>9, <1>10, <1>11 DEF Installing

\* The commands of a reset to default are about rootfs_data.
LEMMA ResetStarts ==
  todo = Reset /\ NotSwitched => Starting
<1> SUFFICES ASSUME todo = Reset, NotSwitched PROVE Starting
  OBVIOUS
<1>1. CASE data # "reset"
  BY <1>1 DEF Reset, Starting, Steps
<1>2. CASE data = "reset" /\ OnUbi
  <2>1. todo = <<Cmd("remove", "data"), Cmd("make", "data")>>
    BY <1>2 DEF Reset
  <2> QED
    BY <2>1 DEF Starting, Steps, Op, On, Cmd
<1>3. CASE data = "reset" /\ ~OnUbi
  <2>1. todo = <<Cmd("format", "data")>>
    BY <1>3 DEF Reset
  <2> QED
    BY <2>1 DEF Starting, Steps, Op, On, Cmd
<1> QED
  BY <1>1, <1>2, <1>3

-----------------------------------------------------------------------------
(* One command.                                                            *)

\* What no command changes; one that fails is counted.
LEMMA CommandSame ==
  ASSUME RunCommand
  PROVE  UpgradeSame /\ (fails' = fails \/ (fails > 0 /\ fails' = fails - 1))
<1> USE DEF trouble
<1>1. CASE DetachFails \/ UnblockFails \/ RemoveFails \/ MakeFails \/ WriteSkips
             \/ WriteBreaks \/ SetenvFails \/ FormatFails \/ RestoreFails
  BY <1>1 DEF DetachFails, UnblockFails, RemoveFails, MakeFails, WriteSkips,
    WriteBreaks, SetenvFails, FormatFails, RestoreFails, FailsUnless
<1>2. CASE Detach \/ Unblock \/ RemoveVolume \/ MakeVolume \/ WriteStart
             \/ WriteEnds \/ Setenv \/ Format \/ Restore
  BY <1>2 DEF Detach, Unblock, RemoveVolume, MakeVolume, WriteStart, WriteEnds,
    Setenv, Format, Restore
<1> QED
  BY <1>1, <1>2 DEF RunCommand

\* The promise is not renewed: a failure, an archive without a part and a second
\* upgrade before the reboot are remembered.
LEMMA PromiseKept ==
  ASSUME TypeOK, [Next]_vars, Promised'
  PROVE  Promised /\ dev' = dev /\ fails' = fails
<1> USE DEF UpgradeSame, FlashSame, trouble
<1>1. dev' = dev /\ fails' <= fails /\ alone \subseteq alone' /\ (hasty => hasty')
      /\ fails \in 0 .. MaxFails
  <2>0. fails \in 0 .. MaxFails
    BY DEF TypeOK
  <2>1. CASE RunCommand
    <3>1. UpgradeSame /\ (fails' = fails \/ (fails > 0 /\ fails' = fails - 1))
      BY <2>1, CommandSame
    <3>2. dev' = dev /\ alone' = alone /\ hasty' = hasty
      BY <3>1
    <3>3. fails' <= fails
      BY <2>0, <3>1, UpgradeAssumption
    <3> QED
      BY <2>0, <3>2, <3>3
  <2>2. CASE \E f \in Files, b \in BOOLEAN : Offer(f, b)
    <3>1. PICK f \in Files, b \in BOOLEAN : Offer(f, b)
      BY <2>2
    <3>2. dev' = dev /\ fails' = fails /\ (hasty => hasty')
      BY <3>1 DEF Offer
    <3>3. alone \subseteq alone'
      BY <3>1 DEF Offer
    <3> QED
      BY <2>0, <3>2, <3>3, UpgradeAssumption
  <2>3. CASE EndPrepare \/ EndInstall \/ Configure \/ Reboot \/ PowerCut \/ Boot \/ EndInit
    BY <2>0, <2>3, UpgradeAssumption DEF EndPrepare, EndInstall, Configure, Reboot, PowerCut, Boot, EndInit
  <2>4. CASE UNCHANGED vars
    BY <2>0, <2>4, UpgradeAssumption DEF vars
  <2> QED
    BY <2>1, <2>2, <2>3, <2>4 DEF Next
<1>2. fails' = MaxFails /\ alone' = {} /\ ~hasty'
  BY DEF Promised, NothingFailed, Careful
<1>3. fails = MaxFails
  BY <1>1, <1>2, UpgradeAssumption
<1> QED
  BY <1>1, <1>2, <1>3 DEF Promised, NothingFailed, Careful

\* The command at the head of the script is the one that runs; a running write is
\* a write.
LEMMA HeadRuns ==
  ASSUME TypeOK, RunCommand
  PROVE  /\ todo # <<>> /\ 1 \in Steps
         /\ writing => Op(1) = "write"
         /\ \A op : Running(op) => Op(1) = op /\ ~writing
         /\ What = On(1)
<1>1. todo # <<>>
  BY DEF RunCommand, Detach, DetachFails, Unblock, UnblockFails,
    RemoveVolume, RemoveFails, MakeVolume, MakeFails, WriteStart, WriteSkips,
    WriteEnds, WriteBreaks, Setenv, SetenvFails, Format, FormatFails, Restore,
    RestoreFails, Running, TypeOK
<1>2. Head(todo) = todo[1] /\ 1 \in Steps
  BY <1>1, Shorter DEF Steps
<1> QED
  BY <1>1, <1>2 DEF TypeOK, Op, On, What, Running

\* While it prepares, a dual-boot upgrade removes and makes the volumes of the
\* slot that does not run; when rootfs_data cannot be made again (it is mounted)
\* both parts have been made already.
LEMMA CommandPrepares ==
  ASSUME TypeOK, Offered, Promised, fails' = fails, Preparing, RunCommand
  PROVE  /\ Preparing' /\ NotSwitched' /\ OnUbi
         /\ UNCHANGED <<dev, current, invalid, booted, phase, image, file, alone, said>>
         /\ part'[booted] = part[booted]
<1>1. UpgradeSame
  BY CommandSame
<1>2. /\ todo # <<>> /\ 1 \in Steps /\ Op(1) \in {"ubiblock", "remove", "make"}
      /\ ~writing /\ OnUbi
  BY HeadRuns DEF Preparing
<1>3. file.parts = Parts /\ fails \in Nat
  BY DEF Offered, Promised, Careful, TypeOK
<1>4. booted \in Slots /\ Target \in Slots /\ booted # Target /\ dev.dual
  BY TargetType DEF Promised
<1>5. /\ UNCHANGED <<current, invalid, phase>>
      /\ NotSwitched'
      /\ \/ Unblock \/ RemoveVolume \/ RemoveFails \/ MakeVolume \/ MakeFails
  <2>1. Unblock \/ RemoveVolume \/ RemoveFails \/ MakeVolume \/ MakeFails
    <3>1. ~Running("detach") /\ ~Running("write") /\ ~Running("setenv")
            /\ ~Running("format") /\ ~Running("restore") /\ ~writing
      BY <1>2, HeadRuns
    <3>2. ~UnblockFails
      BY <1>3 DEF UnblockFails, FailsUnless
    <3> QED
      BY <3>1, <3>2 DEF RunCommand, Detach, DetachFails, WriteStart, WriteSkips,
        WriteEnds, WriteBreaks, Setenv, SetenvFails, Format, FormatFails, Restore,
        RestoreFails
  <2>2. UNCHANGED <<current, invalid, phase>>
    BY <2>1 DEF Unblock, RemoveVolume, RemoveFails, MakeVolume, MakeFails, EnvSame
  <2> QED
    BY <1>1, <2>1, <2>2 DEF NotSwitched, Target, Preparing, UpgradeSame
<1>6. part'[booted] = part[booted]
  <2>1. CASE RemoveVolume \/ MakeVolume
    <3>1. PICK content : SetParts({What}, content)
      BY <2>1 DEF RemoveVolume, MakeVolume
    <3> QED
      BY <1>4, <3>1 DEF SetParts, TypeOK
  <2>2. CASE Unblock \/ RemoveFails \/ MakeFails
    BY <2>2 DEF Unblock, RemoveFails, MakeFails
  <2> QED
    BY <1>5, <2>1, <2>2
<1>7. Preparing'
  <2> USE DEF UpgradeSame
  <2>1. CASE Unblock
    <3>1. Op(1) = "ubiblock"
      BY <2>1, HeadRuns DEF Unblock
    <3> QED
      BY <1>1, <1>2, <1>5, <2>1, <3>1, PreparingShifts DEF Unblock, Proceed, Does
  <2>2. CASE RemoveVolume
    <3>1. Op(1) = "remove" /\ What = On(1)
      BY <2>2, HeadRuns DEF RemoveVolume
    <3>2. \A p \in Parts :
            part'[Target][p] = IF p \in {What} THEN Absent ELSE part[Target][p]
      BY <2>2, SetPartsSets DEF RemoveVolume
    <3> QED
      BY <1>1, <1>2, <1>5, <2>2, <3>1, <3>2, PreparingShifts
        DEF RemoveVolume, Proceed, Does
  <2>3. CASE RemoveFails
    <3>1. Op(1) = "remove" /\ What = "data" /\ What = On(1)
      BY <1>3, <2>3, HeadRuns DEF RemoveFails, FailsUnless
    <3>2. \A p \in Parts : ~Does(1, "remove", p) /\ ~Does(1, "make", p)
      BY <3>1 DEF Does, Parts
    <3> QED
      BY <1>1, <1>2, <1>5, <2>3, <3>2, PreparingShifts DEF RemoveFails, Proceed
  <2>4. CASE MakeVolume
    <3>1. Op(1) = "make" /\ What = On(1)
      BY <2>4, HeadRuns DEF MakeVolume
    <3>2. \A p \in Parts :
            part'[Target][p] = IF p \in {What} THEN Empty ELSE part[Target][p]
      BY <2>4, SetPartsSets DEF MakeVolume
    <3>3. Empty # Absent
      BY DEF Empty, Absent
    <3> QED
      BY <1>1, <1>2, <1>5, <2>4, <3>1, <3>2, <3>3, PreparingShifts
        DEF MakeVolume, Proceed, Does
  <2>5. CASE MakeFails
    <3>1. Op(1) = "make" /\ What = On(1) /\ ~CanMake
      BY <1>3, <2>5, HeadRuns DEF MakeFails, FailsUnless
    <3>2. On(1) = "data"
      <4>1. ASSUME NEW p \in Parts, On(1) = p PROVE FALSE
        <5>1. Does(1, "make", p)
          BY <3>1, <4>1 DEF Does
        <5>2. part[Target][p] = Absent
          BY <1>2, <5>1 DEF Preparing
        <5> QED
          BY <1>3, <3>1, <4>1, <5>2 DEF CanMake, HasPart
      <4> QED
        BY <1>2, <3>1, <4>1 DEF Preparing
    <3>3. \A p \in Parts : part[Target][p] # Absent
      <4> SUFFICES ASSUME NEW p \in Parts PROVE part[Target][p] # Absent
        OBVIOUS
      <4>1. Does(1, "make", "data")
        BY <3>1, <3>2 DEF Does
      <4>2. ASSUME NEW i \in Steps PROVE ~Does(i, "make", p)
        <5>1. i = 1 \/ i \in 1 + 1 .. Len(todo)
          BY DEF Steps
        <5>2. ~Does(1, "make", p)
          BY <3>2 DEF Does, Parts
        <5> QED
          BY <1>2, <4>1, <5>1, <5>2 DEF Preparing
      <4> QED
        BY <4>2 DEF Preparing
    <3>4. todo' = <<>> /\ part' = part /\ Target' = Target
      BY <1>1, <2>5 DEF MakeFails, GiveUp, Target
    <3> QED
      BY <1>5, <3>3, <3>4 DEF Preparing, Steps
  <2> QED
    BY <1>5, <2>1, <2>2, <2>3, <2>4, <2>5
<1> QED
  BY <1>1, <1>2, <1>5, <1>6, <1>7 DEF UpgradeSame

\* A finished or abandoned script leaves an installation behind that is one.
LEMMA InstalledIsUpgraded ==
  ASSUME Installing, \A i \in Steps : Op(i) # "write"
  PROVE  Upgraded
BY DEF Installing, Upgraded, Does

\* The installation writes both parts of the slot that does not run, then
\* switches to it; what fails after that is the format of rootfs_data.
LEMMA CommandInstalls ==
  ASSUME TypeOK, Offered, Promised, fails' = fails, Installing, phase = "install",
         RunCommand
  PROVE  /\ Installing'
         /\ UNCHANGED <<dev, booted, phase, image, file, alone, said>>
         /\ part'[booted] = part[booted]
         /\ OnUbi \/ \A p \in Parts : part'[Target][p] # Absent
         /\ invalid' \subseteq invalid /\ current' \in {current, Target}
<1>1. UpgradeSame
  BY CommandSame
<1>2. /\ todo # <<>> /\ 1 \in Steps /\ Op(1) \in {"write", "setenv", "format", "restore"}
      /\ What = On(1) /\ (writing => Op(1) = "write")
  BY HeadRuns DEF Installing
<1>3. file.parts = Parts /\ fails \in Nat
  BY DEF Offered, Promised, Careful, TypeOK
<1>4. booted \in Slots /\ Target \in Slots /\ booted # Target /\ dev.dual
  BY TargetType DEF Promised
<1>5. Target' = Target
  BY <1>1 DEF Target, UpgradeSame
<1>6. Op(1) = "write" => What \in Parts
  BY <1>2 DEF Installing
<1>7. WriteStart \/ WriteEnds \/ Setenv \/ FormatFails \/ Restore
  <2>1. ~Running("detach") /\ ~Running("ubiblock") /\ ~Running("remove")
          /\ ~Running("make")
    BY <1>2, HeadRuns
  <2>2. ~WriteBreaks /\ ~SetenvFails /\ ~RestoreFails
    BY <1>3 DEF WriteBreaks, SetenvFails, RestoreFails, FailsUnless
  <2>3. ~WriteSkips
    <3>1. SUFFICES ASSUME WriteSkips PROVE FALSE
      OBVIOUS
    <3>2. What \in Parts
      BY <1>6, <3>1, HeadRuns DEF WriteSkips
    <3>3. ToWrite
      BY <1>3, <3>2 DEF ToWrite, HasPart, Installing
    <3> QED
      BY <1>3, <3>1, <3>3 DEF WriteSkips, FailsUnless
  <2>4. ~Format
    BY <1>4 DEF Format, Mounted
  <2> QED
    BY <2>1, <2>2, <2>3, <2>4 DEF RunCommand, Detach, DetachFails, Unblock,
      UnblockFails, RemoveVolume, RemoveFails, MakeVolume, MakeFails
<1>8. phase' = phase
  BY <1>7 DEF WriteStart, WriteEnds, Setenv, FormatFails, Restore
<1>9. part'[booted] = part[booted]
  <2>1. CASE WriteStart \/ WriteEnds
    <3>1. PICK content : SetParts(Written, content)
      BY <2>1 DEF WriteStart, WriteEnds
    <3> QED
      BY <1>4, <3>1 DEF SetParts, TypeOK
  <2>2. CASE Setenv \/ FormatFails \/ Restore
    BY <2>2 DEF Setenv, FormatFails, Restore
  <2> QED
    BY <1>7, <2>1, <2>2
<1>10. invalid' \subseteq invalid /\ current' \in {current, Target}
  BY <1>7 DEF WriteStart, WriteEnds, Setenv, FormatFails, Restore, EnvSame
<1>11. Installing'
  <2> USE DEF UpgradeSame
  <2>0. ~Setenv => NotSwitched' = NotSwitched
    <3>1. ~Setenv => current' = current /\ invalid' = invalid
      BY <1>7 DEF WriteStart, WriteEnds, FormatFails, Restore, EnvSame
    <3> QED
      BY <1>1, <1>5, <3>1 DEF NotSwitched
  <2>1. CASE WriteStart
    <3>1. Op(1) = "write" /\ What \in Parts /\ Does(1, "write", What)
      BY <1>2, <1>6, <2>1, HeadRuns DEF WriteStart, Does
    <3>2. \A p \in Parts :
            part'[Target][p] = IF p \in {What} THEN Torn ELSE part[Target][p]
      BY <2>1, <3>1, SetPartsSets DEF WriteStart, Written, Parts
    <3>3. \A p \in Parts : part'[Target][p] # Absent
      BY <3>2 DEF Torn, Absent, Installing
    <3>4. \A p \in Parts :
            part'[Target][p] = image \/ \E i \in Steps : Does(i, "write", p)
      BY <1>2, <3>1, <3>2 DEF Installing
    <3>5. todo' = todo /\ image' = image
      BY <1>1, <2>1 DEF WriteStart
    <3>6. ~Setenv
      BY <3>1, HeadRuns DEF Setenv
    <3>7. NotSwitched' = NotSwitched
      BY <2>0, <3>6
    <3> QED
      BY <1>5, <3>3, <3>4, <3>5, <3>7 DEF Installing, Steps, Op, On, Does
  <2>2. CASE WriteEnds
    <3>1. Op(1) = "write" /\ What \in Parts /\ What = On(1)
      BY <1>2, <1>6, <2>2 DEF WriteEnds
    <3>2. \A p \in Parts :
            part'[Target][p] = IF p \in {What} THEN image ELSE part[Target][p]
      BY <2>2, <3>1, SetPartsSets DEF WriteEnds, Written, Parts
    <3>3. ~Setenv
      BY <3>1, HeadRuns DEF Setenv
    <3> QED
      BY <1>1, <1>2, <2>0, <2>2, <3>1, <3>2, <3>3, InstallingShifts
        DEF WriteEnds, Proceed, Does
  <2>3. CASE Setenv
    <3>1. Op(1) = "setenv"
      BY <2>3, HeadRuns DEF Setenv
    <3> QED
      BY <1>1, <1>2, <2>3, <3>1, InstallingShifts DEF Setenv, Proceed, Does
  <2>4. CASE FormatFails
    <3>1. Op(1) = "format"
      BY <2>4, HeadRuns DEF FormatFails
    <3>2. \A i \in Steps : Op(i) # "write"
      <4>1. \A i \in Steps : i = 1 \/ 1 < i
        BY DEF Steps
      <4> QED
        BY <1>2, <3>1, <4>1 DEF Installing
    <3>3. Upgraded
      BY <3>2, InstalledIsUpgraded
    <3>4. todo' = <<>> /\ part' = part /\ image' = image
      BY <1>1, <2>4 DEF FormatFails, GiveUp
    <3> QED
      BY <1>5, <3>3, <3>4 DEF Installing, Steps, Upgraded
  <2>5. CASE Restore
    <3>1. Op(1) = "restore" /\ ~Setenv
      BY <2>5, HeadRuns DEF Restore, Setenv
    <3> QED
      BY <1>1, <1>2, <2>0, <2>5, <3>1, InstallingShifts DEF Restore, Proceed, Does
  <2> QED
    BY <1>7, <2>1, <2>2, <2>3, <2>4, <2>5
<1> QED
  BY <1>1, <1>5, <1>8, <1>9, <1>10, <1>11 DEF UpgradeSame, Installing

\* A reset to default is about rootfs_data only.
LEMMA CommandResets ==
  ASSUME TypeOK, Starting, phase = "init", RunCommand
  PROVE  /\ Starting'
         /\ UNCHANGED <<dev, booted, current, invalid, phase, image, file, alone, said>>
         /\ \A s \in Slots, p \in Parts : part'[s][p] = part[s][p]
<1>1. UpgradeSame
  BY CommandSame
<1>2. /\ todo # <<>> /\ 1 \in Steps /\ Op(1) \in {"remove", "make", "format"}
      /\ What = "data" /\ ~writing
  BY HeadRuns DEF Starting
<1>3. /\ RemoveVolume \/ RemoveFails \/ MakeVolume \/ MakeFails \/ Format \/ FormatFails
  <2>1. ~Running("detach") /\ ~Running("ubiblock") /\ ~Running("write")
          /\ ~Running("setenv") /\ ~Running("restore")
    BY <1>2, HeadRuns
  <2> QED
    BY <1>2, <2>1 DEF RunCommand, Detach, DetachFails, Unblock, UnblockFails,
      WriteStart, WriteSkips, WriteEnds, WriteBreaks, Setenv, SetenvFails, Restore,
      RestoreFails
<1>4. UNCHANGED <<current, invalid, phase>> /\ (todo' = Tail(todo) \/ todo' = <<>>)
  BY <1>3 DEF RemoveVolume, RemoveFails, MakeVolume, MakeFails, Format, FormatFails,
    EnvSame, Proceed, GiveUp
<1>5. \A s \in Slots, p \in Parts : part'[s][p] = part[s][p]
  <2>1. CASE RemoveVolume \/ MakeVolume
    <3>1. PICK content : SetParts({"data"}, content)
      BY <1>2, <2>1 DEF RemoveVolume, MakeVolume
    <3>2. Target \in Slots /\ \A p \in Parts : p \notin {"data"}
      BY TargetType DEF Parts
    <3> QED
      BY <3>1, <3>2 DEF SetParts, TypeOK
  <2>2. CASE RemoveFails \/ MakeFails \/ Format \/ FormatFails
    BY <2>2 DEF RemoveFails, MakeFails, Format, FormatFails
  <2> QED
    BY <1>3, <2>1, <2>2
<1>6. Starting'
  <2>1. NotSwitched'
    BY <1>1, <1>4 DEF NotSwitched, Target, Starting, UpgradeSame
  <2>2. \A i \in Steps' :
          (i + 1 \in Steps /\ todo'[i] = todo[i + 1]) \/ todo' = <<>>
    BY <1>2, <1>4, Shorter DEF Steps
  <2>3. CASE todo' = <<>>
    BY <2>1, <2>3 DEF Starting, Steps
  <2>4. CASE todo' # <<>>
    BY <2>1, <2>2, <2>4 DEF Starting, Op, On
  <2> QED
    BY <2>3, <2>4
<1> QED
  BY <1>1, <1>4, <1>5, <1>6 DEF UpgradeSame

-----------------------------------------------------------------------------
(* What the boot loader chooses.                                           *)

\* Before the switch it is the slot that ran last.
LEMMA ChoiceBooted ==
  TypeOK /\ RanLastLoads /\ dev.dual /\ NotSwitched => Choice = booted /\ SelectedWhole
<1> SUFFICES ASSUME TypeOK, RanLastLoads, dev.dual, NotSwitched
             PROVE  Choice = booted /\ SelectedWhole
  OBVIOUS
<1>1. /\ booted # Target /\ (current = booted \/ current = Target)
      /\ 1 - Target = booted
  BY TargetType
<1>2. Loads(booted) /\ booted \notin invalid /\ Whole(booted)
  BY DEF RanLastLoads, Loads
<1>3. CASE current = booted
  BY <1>2, <1>3 DEF Choice, SelectedWhole
<1>4. CASE current = Target /\ Target \in invalid
  BY <1>1, <1>4 DEF Choice, Loads, SelectedWhole
<1> QED
  BY <1>1, <1>3, <1>4 DEF NotSwitched

\* After it, the slot that was written.
LEMMA ChoiceTarget ==
  TypeOK /\ Promised /\ SelectedWhole /\ ~NotSwitched => Choice = Target
<1> SUFFICES ASSUME TypeOK, Promised, SelectedWhole, ~NotSwitched
             PROVE  Choice = Target
  OBVIOUS
<1>1. current = Target /\ current \notin invalid
  BY TargetType DEF NotSwitched, Promised
<1>2. Whole(current)
  BY <1>1 DEF SelectedWhole, Promised
<1> QED
  BY <1>1, <1>2 DEF Choice, Loads

\* While it installs, what is selected is whole: the old system, or all of the new.
LEMMA InstallingWhole ==
  TypeOK /\ RanLastLoads /\ Promised /\ Installing =>
    /\ SelectedWhole
    /\ ~NotSwitched => part[Target]["root"] = image
<1> SUFFICES ASSUME TypeOK, RanLastLoads, Promised, Installing
             PROVE  /\ SelectedWhole
                    /\ ~NotSwitched => part[Target]["root"] = image
  OBVIOUS
<1>1. CASE NotSwitched
  BY <1>1, ChoiceBooted DEF Promised
<1>2. CASE ~NotSwitched
  <2>1. Upgraded
    BY <1>2, InstalledIsUpgraded DEF Installing
  <2>2. image >= 0 /\ ~(image < image)
    BY DEF TypeOK
  <2>3. Whole(Target) /\ part[Target]["root"] = image
    BY <2>1, <2>2 DEF Upgraded, Whole, Parts
  <2>4. current = Target
    BY <1>2, TargetType DEF NotSwitched, Promised
  <2> QED
    BY <2>3, <2>4 DEF SelectedWhole
<1> QED
  BY <1>1, <1>2

-----------------------------------------------------------------------------
(* The invariant.                                                          *)

\* The invariant holds at the start,
LEMMA InitAInv == Init => AInv
<1> SUFFICES ASSUME Init PROVE AInv
  OBVIOUS
<1>1. Offered /\ Partitions /\ NotSwitched
  BY DEF Init, Offered, Partitions, NotSwitched, Absent, Slots
<1>2. SelectedWhole
  BY DEF Init, SelectedWhole, Whole, Slots, Parts
<1> QED
  BY <1>1, <1>2 DEF Init, AInv, Kept

\* What is offered stays so.
LEMMA OfferedKept ==
  ASSUME Inv, Offered, [Next]_vars
  PROVE  Offered'
<1>1. ASSUME NEW f \in Files, NEW b \in BOOLEAN, Offer(f, b) PROVE Offered'
  <2>1. f \in File
    BY UpgradeAssumption
  <2>2. file' = f /\ dev' = dev /\ (dev.dual => f.type = "tar")
    BY <1>1 DEF Offer, FlashSame
  <2>3. f.parts = Parts \/ image' \in alone'
    <3>1. f.parts \subseteq Parts
      BY <2>1 DEF File
    <3>2. Brought(f) = Parts => f.parts = Parts
      BY <3>1 DEF Brought
    <3> QED
      BY <1>1, <3>2 DEF Offer
  <2> QED
    BY <2>2, <2>3 DEF Offered
<1>2. CASE ~\E f \in Files, b \in BOOLEAN : Offer(f, b)
  <2>1. UNCHANGED <<dev, file, image, alone>>
    <3>1. CASE RunCommand
      BY <3>1, CommandSame DEF UpgradeSame
    <3>2. CASE ~RunCommand
      BY <1>2, <3>2 DEF Next, vars, EndPrepare, EndInstall, Configure, Reboot,
        PowerCut, Boot, EndInit, UpgradeSame, FlashSame
    <3> QED
      BY <3>1, <3>2
  <2> QED
    BY <2>1 DEF Offered
<1> QED
  BY <1>1, <1>2

\* What the next boot runs.
System == part[Choice]["root"]

\* A step that is no command, while the promise holds.
LEMMA PhaseKeeps ==
  ASSUME Inv, Inv', Offered, Offered', Promised, Promised', Kept, dev' = dev,
         [Next]_vars, ~RunCommand
  PROVE  /\ Kept' /\ System' = System
         /\ image' = image
              \/ \E f \in Files, b \in BOOLEAN : Offer(f, b)
<1>1. TypeOK /\ TypeOK' /\ RanLastLoads /\ RanLastLoads' /\ dev.dual /\ dev'.dual
  BY DEF Inv, Promised
<1>2. (NotSwitched => SelectedWhole)' /\ (NotSwitched' => Choice' = booted')
  <2>1. (TypeOK /\ RanLastLoads /\ dev.dual /\ NotSwitched
           => Choice = booted /\ SelectedWhole)'
    BY ChoiceBooted, PTL
  <2> QED
    BY <1>1, <2>1
<1>3. NotSwitched => Choice = booted
  BY <1>1, ChoiceBooted
<1>4. ASSUME UNCHANGED <<part, current, invalid, booted>>
      PROVE  /\ NotSwitched' = NotSwitched /\ Target' = Target /\ Partitions'
             /\ System' = System
             /\ \A p \in Parts : part'[Target'][p] = part[Target][p]
  BY <1>4 DEF NotSwitched, Target, Partitions, Kept, System, OnUbi, Choice, Loads, Whole,
     Promised, Careful
<1>5. ASSUME UNCHANGED <<part, current, invalid, booted>>
      PROVE  SelectedWhole'
  BY <1>4, <1>5 DEF SelectedWhole, Whole, Kept, Promised, Careful
<1>6. ASSUME NEW f \in Files, NEW b \in BOOLEAN, Offer(f, b)
      PROVE  Kept' /\ System' = System
  <2>1. /\ UNCHANGED <<part, current, invalid, booted, data>>
        /\ phase = "up" /\ phase' = "prepare" /\ todo' = Prepare(f)
        /\ file' = f
    BY <1>6 DEF Offer, FlashSame
  <2>2. ~said
    BY <1>6 DEF Offer, Promised, Careful
  <2>3. NotSwitched'
    BY <1>4, <2>1, <2>2 DEF Kept
  <2>4. f.type = "tar"
    BY <1>1, <2>1 DEF Offered
  <2>5. Preparing'
    <3>1. CASE OnUbi
      <4>1. todo' = PrepareDual' /\ OnUbi'
        BY <1>1, <1>4, <2>1, <2>4, <3>1
          DEF Prepare, PrepareDual, OnUbi, HasPart, HasData, Target
      <4>2. (TypeOK /\ OnUbi /\ todo = PrepareDual /\ NotSwitched => Preparing)'
        BY PrepareDualStarts, PTL
      <4> QED
        BY <1>1, <2>3, <4>1, <4>2
    <3>2. CASE ~OnUbi
      <4>1. todo' = <<>>
        BY <1>1, <2>1, <3>2 DEF Prepare
      <4>2. \A p \in Parts : part'[Target'][p] # Absent
        BY <1>1, <1>4, <2>1, <3>2, TargetType DEF Kept, Partitions
      <4>3. (todo = <<>> /\ NotSwitched /\ (\A p \in Parts : part[Target][p] # Absent)
               => Preparing)'
        BY NothingToPrepare, PTL
      <4> QED
        BY <2>3, <4>1, <4>2, <4>3
    <3> QED
      BY <3>1, <3>2
  <2> QED
    BY <1>4, <1>5, <2>1, <2>5 DEF Kept
<1>7. CASE EndPrepare
  <2>1. /\ UNCHANGED <<part, current, invalid, booted, file, image>>
        /\ phase = "prepare" /\ phase' = "install" /\ todo' = Install(file)
        /\ todo = <<>>
    BY <1>7 DEF EndPrepare, FlashSame
  <2>2. Preparing /\ Steps = {}
    BY <2>1 DEF Kept, Steps
  <2>3. NotSwitched' /\ \A p \in Parts : part'[Target'][p] # Absent
    BY <1>4, <2>1, <2>2 DEF Preparing
  <2>4. todo' = Install(file)' /\ file'.type = "tar"
    BY <1>1, <2>1 DEF Install, InstallTar, Afterwards, OnUbi, WriteAndSwitch, Offered
  <2>5. (/\ TypeOK /\ dev.dual /\ file.type = "tar" /\ todo = Install(file) /\ NotSwitched
         /\ \A p \in Parts : part[Target][p] # Absent
         => Installing)'
    BY InstallStarts, PTL
  <2>6. Installing'
    BY <1>1, <2>3, <2>4, <2>5
  <2> QED
    BY <1>4, <1>5, <2>1, <2>6 DEF Kept
<1>8. CASE EndInstall
  <2>1. /\ UNCHANGED <<part, current, invalid, booted, image>>
        /\ phase' \in {"up", "off"} /\ said' = TRUE
    BY <1>8 DEF EndInstall, FlashSame
  <2> QED
    BY <1>4, <1>5, <2>1 DEF Kept
<1>9. CASE Configure
  <2>1. /\ UNCHANGED <<part, current, invalid, booted, image, said, phase>>
        /\ phase = "up"
    BY <1>9 DEF Configure, UpgradeSame, EnvSame
  <2> QED
    BY <1>4, <1>5, <2>1 DEF Kept
<1>10. CASE Reboot \/ PowerCut
  <2>1. UNCHANGED <<part, current, invalid, booted, image>> /\ phase' = "off"
    BY <1>10 DEF Reboot, PowerCut, FlashSame
  <2> QED
    BY <1>4, <1>5, <2>1 DEF Kept
<1>11. CASE Boot
  <2>1. /\ booted' = Choice /\ todo' = Reset /\ phase' = "init" /\ Loads(Choice)
        /\ invalid' = IF Choice = current THEN invalid ELSE invalid \cup {current}
        /\ UNCHANGED <<part, data, current, image, dev>>
    BY <1>11 DEF Boot
  <2>2. Choice \in Slots /\ current \in Slots
    BY <1>1 DEF Choice, TypeOK, Slots
  <2>3. NotSwitched'
    BY <1>1, <2>1, <2>2 DEF NotSwitched, Target, Slots
  <2>4. todo' = Reset'
    BY <2>1 DEF Reset, OnUbi
  <2>5. (todo = Reset /\ NotSwitched => Starting)'
    BY ResetStarts, PTL
  <2>6. Starting' /\ SelectedWhole' /\ Choice' = Choice
    BY <1>2, <2>1, <2>3, <2>4, <2>5
  <2>7. Partitions'
    BY <2>1 DEF Kept, Partitions, OnUbi
  <2> QED
    BY <2>1, <2>6, <2>7 DEF Kept, System
<1>12. CASE EndInit
  <2>1. /\ UNCHANGED <<part, current, invalid, booted, image>>
        /\ phase = "init" /\ phase' = "up"
    BY <1>12 DEF EndInit, UpgradeSame, EnvSame
  <2> QED
    BY <1>4, <1>5, <2>1 DEF Kept, Starting
<1>13. CASE UNCHANGED vars
  <2>1. /\ UNCHANGED <<part, current, invalid, booted, image>>
        /\ UNCHANGED <<phase, todo, said, file, dev>>
    BY <1>13 DEF vars
  <2> QED
    BY <1>4, <1>5, <2>1 DEF Kept, Preparing, Installing, Starting, Steps, Op, On, Does,
      OnUbi
<1>14. image' = image \/ \E f \in Files, b \in BOOLEAN : Offer(f, b)
  BY DEF Next, vars, EndPrepare, EndInstall, Configure, Reboot, PowerCut, Boot, EndInit,
    UpgradeSame
<1> QED
  BY <1>6, <1>7, <1>8, <1>9, <1>10, <1>11, <1>12, <1>13, <1>14 DEF Next

\* A command, while the promise holds.
LEMMA CommandKeeps ==
  ASSUME Inv, Inv', Offered, Promised, Promised', Kept, fails' = fails, dev' = dev,
         RunCommand
  PROVE  Kept' /\ image' = image /\ (System' = System \/ System' = image)
<1>1. TypeOK /\ TypeOK' /\ RanLastLoads /\ RanLastLoads' /\ dev.dual /\ dev'.dual
  BY DEF Inv, Promised
<1>2. NotSwitched' => Choice' = booted' /\ SelectedWhole'
  <2>1. (TypeOK /\ RanLastLoads /\ dev.dual /\ NotSwitched
           => Choice = booted /\ SelectedWhole)'
    BY ChoiceBooted, PTL
  <2> QED
    BY <1>1, <2>1
<1>3. NotSwitched => Choice = booted
  BY <1>1, ChoiceBooted
<1>4. /\ booted \in Slots /\ Target \in Slots /\ booted # Target
      /\ \A s \in Slots : s = booted \/ s = Target
  BY <1>1, TargetType DEF Slots, Target
<1>5. phase \in {"init", "prepare", "install"}
  BY <1>1, HeadRuns DEF TypeOK
<1>6. CASE phase = "prepare"
  <2>1. /\ Preparing' /\ NotSwitched' /\ OnUbi /\ NotSwitched
        /\ UNCHANGED <<dev, current, invalid, booted, phase, image>>
        /\ part'[booted] = part[booted]
    BY <1>1, <1>6, CommandPrepares DEF Kept, Preparing
  <2>2. Partitions'
    BY <2>1 DEF Partitions, OnUbi
  <2>3. System' = System
    BY <1>2, <1>3, <2>1 DEF System
  <2> QED
    BY <1>2, <1>6, <2>1, <2>2, <2>3 DEF Kept
<1>7. CASE phase = "install"
  <2>1. /\ Installing /\ Installing'
        /\ UNCHANGED <<dev, booted, phase, image>>
        /\ part'[booted] = part[booted]
        /\ invalid' \subseteq invalid /\ current' \in {current, Target}
    BY <1>1, <1>7, CommandInstalls DEF Kept
  <2>2. Target' = Target
    BY <2>1 DEF Target
  <2>3. Partitions'
    BY <1>4, <2>1, <2>2 DEF Partitions, OnUbi, Installing, Kept
  <2>4. SelectedWhole' /\ (~NotSwitched' => part'[Target']["root"] = image')
    <3>1. (TypeOK /\ RanLastLoads /\ Promised /\ Installing =>
             /\ SelectedWhole
             /\ ~NotSwitched => part[Target]["root"] = image)'
      BY InstallingWhole, PTL
    <3> QED
      BY <1>1, <2>1, <3>1
  <2>5. ~NotSwitched' => Choice' = Target'
    <3>1. (TypeOK /\ Promised /\ SelectedWhole /\ ~NotSwitched => Choice = Target)'
      BY ChoiceTarget, PTL
    <3> QED
      BY <1>1, <2>4, <3>1
  <2>6. System' = System \/ System' = image
    <3>1. CASE ~NotSwitched'
      BY <2>1, <2>4, <2>5, <3>1 DEF System
    <3>2. CASE NotSwitched'
      <4>1. NotSwitched
        BY <1>1, <2>1, <2>2, <3>2, TargetType DEF NotSwitched
      <4> QED
        BY <1>2, <1>3, <2>1, <3>2, <4>1 DEF System
    <3> QED
      BY <3>1, <3>2
  <2> QED
    BY <1>7, <2>1, <2>3, <2>4, <2>6 DEF Kept
<1>8. CASE phase = "init"
  <2>1. /\ Starting /\ Starting'
        /\ UNCHANGED <<dev, booted, phase, image>>
        /\ \A s \in Slots, p \in Parts : part'[s][p] = part[s][p]
    BY <1>1, <1>8, CommandResets DEF Kept
  <2>2. Partitions'
    BY <2>1 DEF Partitions, OnUbi, Kept
  <2>3. System' = System
    BY <1>2, <1>3, <1>4, <2>1 DEF System, Starting, Parts
  <2> QED
    BY <1>2, <1>8, <2>1, <2>2, <2>3 DEF Kept, Starting
<1> QED
  BY <1>5, <1>6, <1>7, <1>8

\* is kept by each step,
LEMMA NextAInv == Inv /\ Inv' /\ AInv /\ [Next]_vars => AInv'
<1> SUFFICES ASSUME Inv, Inv', AInv, [Next]_vars PROVE AInv'
  OBVIOUS
<1>1. Offered /\ Offered'
  BY OfferedKept DEF AInv
<1>2. ASSUME Promised' PROVE Kept'
  <2>1. Promised /\ dev' = dev /\ fails' = fails
    BY <1>2, PromiseKept DEF Inv
  <2>2. Kept
    BY <2>1 DEF AInv, Kept
  <2> QED
    BY <1>1, <1>2, <2>1, <2>2, CommandKeeps, PhaseKeeps
<1> QED
  BY <1>1, <1>2 DEF AInv, Kept

\* and so always holds.
LEMMA AlwaysAInv == Spec => [](Inv /\ AInv)
BY InitInv, NextInv, InitAInv, NextAInv, PTL DEF Spec

-----------------------------------------------------------------------------

(* When no command fails, the archives are complete and each upgrade is followed
   by a boot, the selected slot is whole unless it is marked invalid, between any
   two commands of the scripts: also a boot loader that does not check what it
   loads finds a system.                                                    *)
THEOREM SelectedAlwaysWhole == Spec => []SelectedWhole
<1>1. AInv => SelectedWhole
  BY DEF AInv, Kept, SelectedWhole, Promised
<1> QED
  BY <1>1, AlwaysAInv, PTL

(* A dual-boot upgrade is atomic (ubi_dual_boot_upgrade_tar,
   mtk_mmc_do_upgrade_dual_boot): between any two commands the next boot runs the
   old system or all of the new one, and the change from one to the other is one
   step, the fw_setenv that makes the other slot the one to be booted.      *)
THEOREM UpgradeIsAtomic == Spec => ImplementsAtomicUpgrade
<1>1. Init => Owner!Init
  <2> SUFFICES ASSUME Init PROVE Owner!Init
    OBVIOUS
  <2>1. Choice \in Slots
    BY DEF Init, Choice, Slots
  <2>2. part[Choice]["root"] = 0 /\ image = 0
    BY <2>1 DEF Init, Parts
  <2>3. (dev.dual /\ NothingFailed /\ Careful) \in BOOLEAN
    BY UpgradeAssumption DEF Init, Device, NothingFailed, Careful
  <2> QED
    BY <2>2, <2>3 DEF Owner!Init
<1>2. Inv /\ Inv' /\ AInv /\ [Next]_vars => [Owner!Next]_(Owner!avars)
  <2> SUFFICES ASSUME Inv, Inv', AInv, [Next]_vars
               PROVE  [Owner!Next]_(Owner!avars)
    OBVIOUS
  <2>1. CASE ~Promised'
    BY <2>1 DEF Promised, Owner!Next, Owner!Release
  <2>2. CASE Promised'
    <3>1. Promised /\ dev' = dev /\ fails' = fails
      BY <2>2, PromiseKept DEF Inv
    <3>2. Kept /\ Offered /\ Offered'
      BY <3>1, OfferedKept DEF AInv, Kept
    <3>3. CASE RunCommand
      <4>1. image' = image /\ (System' = System \/ System' = image)
        BY <2>2, <3>1, <3>2, <3>3, CommandKeeps
      <4> QED
        BY <2>2, <3>1, <4>1
          DEF Owner!Next, Owner!Switch, Owner!avars, System, Promised
    <3>4. CASE ~RunCommand
      <4>1. /\ System' = System
            /\ image' = image \/ \E f \in Files, b \in BOOLEAN : Offer(f, b)
        BY <2>2, <3>1, <3>2, <3>4, PhaseKeeps
      <4>2. image' = image \/ image' = image + 1
        BY <4>1 DEF Offer
      <4> QED
        BY <2>2, <3>1, <4>1, <4>2
          DEF Owner!Next, Owner!Offer, Owner!avars, System, Promised
    <3> QED
      BY <3>3, <3>4
  <2> QED
    BY <2>1, <2>2
<1> QED
  BY <1>1, <1>2, AlwaysAInv, PTL DEF Spec, ImplementsAtomicUpgrade, Owner!Spec
-----------------------------------------------------------------------------
(***************************************************************************)
(* The configuration and the volume it lives on (DataThere, ConfigKept):   *)
(* when nothing fails and the power stays from the time the system was up  *)
(* with its overlay, no upgrade or reset to default leaves a device that   *)
(* boots without rootfs_data, and a configuration that was to be kept is   *)
(* there again.  Earlier failures and power cuts, and what they left       *)
(* behind, do not matter.                                                  *)
(***************************************************************************)
(* The inductive invariant.                                                *)

\* The commands of a script, and what their order guarantees: none comes twice,
\* nothing is removed that was just made, and the configuration is restored last.
Items(s) == {s[i] : i \in 1 .. Len(s)}
MayPrecede(c, d) ==
  /\ c # d /\ c # Cmd("restore", "data")
  /\ ~(c[1] = "make" /\ d[1] = "remove" /\ c[2] = d[2])
InOrder(s) == \A i, j \in 1 .. Len(s) : i < j => MayPrecede(s[i], s[j])
Left == Items(todo)

\* a tar without a root took the only root volume: the device boots no more
RootLost ==
  /\ ~dev.dual /\ file.type = "tar"
  /\ "root" \notin file.parts /\ part[Target]["root"] = Absent

\* the commands of the preparation, of the installation, of a reset to default
PrepareCommands ==
  {Cmd("detach", "all")} \cup
  IF ~OnUbi \/ file.type = "ubi" THEN {}
  ELSE {Cmd(op, what) : op \in {"remove", "make"}, what \in {"kernel", "root", "data"}}
       \cup {Cmd("ubiblock", "root"), Cmd("write", "kernel")}
InstallCommands ==
  {Cmd("write", "kernel"), Cmd("write", "root"), Cmd("format", "data"),
   Cmd("restore", "data")}
  \cup (IF file.type = "ubi" THEN {Cmd("write", "all")} ELSE {})
  \cup (IF dev.dual THEN {Cmd("setenv", "current"), Cmd("setenv", "valid")} ELSE {})
StartCommands ==
  {Cmd("format", "data")} \cup
  IF OnUbi THEN {Cmd("remove", "data"), Cmd("make", "data")} ELSE {}

\* What holds whatever goes wrong.  With two slots rootfs_data is mounted while an
\* upgrade runs, so that what is asked of it there has no effect.
Base ==
  /\ dev.dual \/ ~OnUbi => file.type = "tar"
  /\ phase = "prepare" => Left \subseteq PrepareCommands
  /\ phase = "install" => Left \subseteq InstallCommands
  /\ phase = "init" => Left \subseteq StartCommands
  /\ dev.dual /\ phase = "prepare" /\ Cmd("make", "data") \in Left => HasData
  /\ dev.dual /\ phase \in {"up", "prepare", "install"} => data # "empty"
  /\ ~dev.dual => current = booted
  /\ ~OnUbi => HasData
  /\ said => phase = "off" \/ (dev.dual /\ phase = "up")

\* What is removed in the preparation and still needed is made again.
PreparesData ==
  file.type = "tar" /\ ~dev.dual /\ ~UbifsRoot =>
    /\ Cmd("remove", "data") \in Left =>
         data # "absent" /\ Cmd("make", "data") \in Left
    /\ \/ data # "absent" \/ Cmd("make", "data") \in Left
       \/ todo = <<>> /\ RootLost
    /\ \/ data # "reset" \/ ~OnUbi \/ Cmd("remove", "data") \in Left
       \/ todo = <<>> /\ RootLost
    /\ Cmd("make", "kernel") \in Left =>
         "kernel" \in file.parts /\ Cmd("write", "kernel") \notin Left
    /\ \A p \in Parts : Cmd("make", p) \in Left =>
         part[Target][p] = Absent \/ Cmd("remove", p) \in Left

\* The volume is there, and new, before the configuration is restored to it.
InstallsData ==
  ~dev.dual /\ ~UbifsRoot =>
    /\ data # "absent" \/ Cmd("write", "all") \in Left \/ RootLost
    /\ \/ data # "reset" \/ RootLost
       \/ Cmd("write", "all") \in Left \/ Cmd("format", "data") \in Left
    /\ backup /\ "root" \in file.parts =>
         \/ Cmd("restore", "data") \in Left
         \/ todo = <<>> /\ data = "saved"

\* A reset to default makes the volume again that it removes.
StartsData ==
  /\ Cmd("remove", "data") \in Left =>
       data # "absent" /\ Cmd("make", "data") \in Left
  /\ Settled \/ Cmd("make", "data") \in Left

\* What holds as long as nothing goes wrong.
Quiet ==
  /\ InOrder(todo)
  /\ writing => What = "all" \/ What \in file.parts \/ file.type = "ubifs"
  /\ phase = "prepare" => PreparesData
  /\ phase = "install" => InstallsData
  /\ phase = "init" => StartsData
  /\ phase = "up" => Settled
  /\ phase = "off" => Settled \/ RootLost
  /\ dev.dual /\ phase # "init" => data \in {"user", "reset", "saved"}
  /\ said /\ ~dev.dual /\ ~UbifsRoot /\ backup /\ "root" \in file.parts => data = "saved"

DInv == Base /\ (~hurt => Quiet)

-----------------------------------------------------------------------------
(* Scripts as sets of commands.                                            *)

\* A script that is in order is in order without its first command, which does
\* not come again.
LEMMA ItemsShorter ==
  ASSUME TypeOK, InOrder(todo), todo # <<>>, todo' = Tail(todo)
  PROVE  /\ InOrder(todo')
         /\ Items(todo') = Left \ {Head(todo)}
         /\ \A d \in Items(todo') : MayPrecede(Head(todo), d)
<1>1. /\ Len(todo) \in Nat /\ Len(todo) >= 1 /\ Head(todo) = todo[1]
      /\ Len(todo') = Len(todo) - 1
      /\ \A i \in 1 .. Len(todo') : todo'[i] = todo[i + 1]
  BY Shorter
<1>2. InOrder(todo')
  BY <1>1 DEF InOrder
<1>3. ASSUME NEW d \in Items(todo')
      PROVE  d \in Left /\ MayPrecede(Head(todo), d)
  <2>1. PICK i \in 1 .. Len(todo') : d = todo[i + 1]
    BY <1>1 DEF Items
  <2>2. i + 1 \in 1 .. Len(todo) /\ 1 \in 1 .. Len(todo) /\ 1 < i + 1
    BY <1>1
  <2>3. d \in Left
    BY <2>1, <2>2 DEF Left, Items
  <2> QED
    BY <1>1, <2>1, <2>2, <2>3 DEF InOrder
<1>4. ASSUME NEW d \in Left, d # Head(todo) PROVE d \in Items(todo')
  <2>1. PICK i \in 1 .. Len(todo) : d = todo[i]
    BY DEF Left, Items
  <2>2. i - 1 \in 1 .. Len(todo') /\ (i - 1) + 1 = i
    BY <1>1, <1>4, <2>1
  <2> QED
    BY <1>1, <2>1, <2>2 DEF Items
<1> QED
  BY <1>2, <1>3, <1>4 DEF MayPrecede

\* An empty script.
LEMMA NoItems == InOrder(<<>>) /\ Items(<<>>) = {}
BY DEF InOrder, Items

LEMMA HeadItem == TypeOK /\ todo # <<>> => Head(todo) \in Left /\ Left # {}
BY Shorter DEF Left, Items

\* A script of one command, and one script after another.
LEMMA OneItem ==
  ASSUME NEW c
  PROVE  InOrder(<<c>>) /\ Items(<<c>>) = {c}
BY DEF InOrder, Items

LEMMA JoinedItems ==
  ASSUME NEW s \in Seq(Command), NEW t \in Seq(Command), InOrder(s), InOrder(t),
         \A c \in Items(s), d \in Items(t) : MayPrecede(c, d)
  PROVE  /\ s \o t \in Seq(Command)
         /\ InOrder(s \o t) /\ Items(s \o t) = Items(s) \cup Items(t)
<1>1. /\ s \o t \in Seq(Command) /\ Len(s \o t) = Len(s) + Len(t)
      /\ Len(s) \in Nat /\ Len(t) \in Nat
      /\ \A i \in 1 .. Len(s) : (s \o t)[i] = s[i]
      /\ \A i \in 1 .. Len(t) : (s \o t)[Len(s) + i] = t[i]
  BY Joined
<1>2. \A i \in 1 .. Len(s) + Len(t) :
        i \in 1 .. Len(s) \/ (i - Len(s) \in 1 .. Len(t) /\ Len(s) + (i - Len(s)) = i)
  BY <1>1
<1>3. \A i \in 1 .. Len(s) + Len(t) :
        \/ i \in 1 .. Len(s) /\ (s \o t)[i] = s[i]
        \/ i - Len(s) \in 1 .. Len(t) /\ (s \o t)[i] = t[i - Len(s)]
  BY <1>1, <1>2
<1>4. \A i \in 1 .. Len(s) : i \in 1 .. Len(s) + Len(t) /\ (s \o t)[i] = s[i]
  BY <1>1
<1>5. \A i \in 1 .. Len(t) : Len(s) + i \in 1 .. Len(s) + Len(t)
  BY <1>1
<1>6. Items(s \o t) = Items(s) \cup Items(t)
  BY <1>1, <1>3, <1>4, <1>5, SMTT(30) DEF Items
<1>7. ASSUME NEW i \in 1 .. Len(s) + Len(t), NEW j \in 1 .. Len(s) + Len(t), i < j
      PROVE  MayPrecede((s \o t)[i], (s \o t)[j])
  <2>1. CASE i \in 1 .. Len(s) /\ j \in 1 .. Len(s)
    BY <1>4, <1>7, <2>1 DEF InOrder
  <2>2. CASE i \in 1 .. Len(s) /\ j \notin 1 .. Len(s)
    BY <1>3, <1>4, <2>2 DEF Items
  <2>3. CASE i \notin 1 .. Len(s)
    <3>1. j \notin 1 .. Len(s) /\ i - Len(s) < j - Len(s)
      BY <1>1, <1>7, <2>3
    <3> QED
      BY <1>3, <2>3, <3>1 DEF InOrder
  <2> QED
    BY <2>1, <2>2, <2>3
<1> QED
  BY <1>1, <1>6, <1>7 DEF InOrder

-----------------------------------------------------------------------------
(* What one command does: at all, and when nothing fails.                  *)

\* Nothing of the script but its first command is lost or run, unless the script
\* gives up; few commands take rootfs_data away or clear it.
LEMMA CommandDoesAnyway ==
  ASSUME TypeOK, RunCommand, NEW h, h = Head(todo)
  PROVE  /\ todo # <<>> /\ h = Cmd(h[1], h[2]) /\ UpgradeSame
         /\ phase' = phase \/ (phase' = "off" /\ todo' = <<>>)
         /\ current' = current \/ h[1] = "setenv"
         /\ todo' \in {todo, Tail(todo), <<>>}
         /\ data' = "absent" =>
              \/ data = "absent" \/ h = Cmd("write", "all")
              \/ h = Cmd("remove", "data") /\ ~Mounted
         /\ data' = "empty" =>
              \/ data = "empty" \/ (h[1] = "write" /\ ~dev.dual) \/ h = Cmd("write", "all")
              \/ h = Cmd("make", "data") /\ ~HasData
              \/ h[1] = "format" /\ ~Mounted
<1> USE DEF EnvSame
<1>1. todo # <<>>
  BY HeadRuns
<1>2. h = Cmd(h[1], h[2]) /\ What = h[2] /\ h[1] = Head(todo)[1]
  <2>1. Head(todo) \in Command
    BY <1>1 DEF TypeOK
  <2> QED
    BY <2>1 DEF Command, Cmd, What
<1>3. UpgradeSame
  BY CommandSame
<1>4. "data" \notin Parts /\ "all" \notin Parts
  BY DEF Parts
<1>5. CASE \/ Detach \/ DetachFails \/ Unblock \/ UnblockFails \/ RemoveFails \/ MakeFails
           \/ WriteSkips \/ WriteBreaks \/ SetenvFails \/ FormatFails \/ RestoreFails
  <2>1. data' = data /\ current' = current
    BY <1>5 DEF Detach, DetachFails, Unblock, UnblockFails, RemoveFails, MakeFails,
      WriteSkips, WriteBreaks, SetenvFails, FormatFails, RestoreFails
  <2>2. todo' = Tail(todo) \/ todo' = <<>>
    BY <1>5 DEF Detach, DetachFails, Unblock, UnblockFails, RemoveFails, MakeFails,
      WriteSkips, WriteBreaks, SetenvFails, FormatFails, RestoreFails, Proceed, GiveUp
  <2>3. phase' = phase \/ (phase' = "off" /\ todo' = <<>>)
    BY <1>5 DEF Detach, DetachFails, Unblock, UnblockFails, RemoveFails, MakeFails,
      WriteSkips, WriteBreaks, SetenvFails, FormatFails, RestoreFails, GiveUp
  <2> QED
    BY <1>1, <1>2, <1>3, <2>1, <2>2, <2>3
<1>6. CASE RemoveVolume
  BY <1>1, <1>2, <1>3, <1>4, <1>6 DEF RemoveVolume, Proceed, Running
<1>7. CASE MakeVolume
  BY <1>1, <1>2, <1>3, <1>4, <1>7 DEF MakeVolume, CanMake, Proceed, Running
<1>8. CASE WriteStart
  BY <1>1, <1>2, <1>3, <1>4, <1>8 DEF WriteStart, Running, Cmd
<1>9. CASE WriteEnds
  <2>1. Head(todo)[1] = "write"
    BY <1>9 DEF WriteEnds, TypeOK
  <2> QED
    BY <1>1, <1>2, <1>3, <1>4, <1>9, <2>1 DEF WriteEnds, Proceed, Cmd
<1>10. CASE Setenv
  BY <1>1, <1>2, <1>3, <1>10 DEF Setenv, Proceed, Running
<1>11. CASE Format
  BY <1>1, <1>2, <1>3, <1>11 DEF Format, Proceed, Running
<1>12. CASE Restore
  BY <1>1, <1>2, <1>3, <1>12 DEF Restore, Proceed, Running
<1> QED
  BY <1>5, <1>6, <1>7, <1>8, <1>9, <1>10, <1>11, <1>12 DEF RunCommand

\* What fails is remembered in hurt.
LEMMA NothingFails ==
  ASSUME ~hurt'
  PROVE  ~FailsUnless(TRUE) /\ \A P \in BOOLEAN : FailsUnless(P) => ~P
BY DEF FailsUnless

\* When nothing fails a script goes on, unless a volume is there or a part is not in
\* the file (make), or rootfs_data is mounted (format).
LEMMA CommandDoes ==
  ASSUME TypeOK, ~hurt', RunCommand, NEW h, h = Head(todo)
  PROVE  /\ todo # <<>> /\ h = Cmd(h[1], h[2])
         /\ UpgradeSame /\ phase' = phase
         /\ current' = current \/ h[1] = "setenv"
         /\ \/ todo' = todo /\ h[1] = "write"
            \/ todo' = Tail(todo)
            \/ todo' = <<>> /\ data' = data /\ part' = part
               /\ ((h[1] = "make" /\ ~CanMake) \/ (h[1] = "format" /\ Mounted))
         /\ writing' => todo' = todo /\ ToWrite
<1> USE DEF UpgradeSame, EnvSame
<1>2. ~FailsUnless(TRUE) /\ \A P \in BOOLEAN : FailsUnless(P) => ~P
  BY NothingFails
<1>3. todo # <<>>
  BY HeadRuns
<1>4. h = Cmd(h[1], h[2])
  <2>1. Head(todo) \in Command
    BY <1>3 DEF TypeOK
  <2> QED
    BY <2>1 DEF Command, Cmd
<1>5. ~DetachFails /\ ~UnblockFails /\ ~WriteBreaks /\ ~SetenvFails /\ ~RestoreFails
  BY <1>2 DEF DetachFails, UnblockFails, WriteBreaks, SetenvFails, RestoreFails
<1>6. UpgradeSame
  BY CommandSame
<1>7. CASE Detach \/ Unblock \/ RemoveVolume \/ RemoveFails \/ MakeVolume \/ WriteSkips
             \/ WriteEnds \/ Format \/ Restore
  BY <1>3, <1>4, <1>6, <1>7 DEF Detach, Unblock, RemoveVolume, RemoveFails, MakeVolume, WriteSkips,
    WriteEnds, Format, Restore, Proceed, Running, TypeOK
<1>8. CASE Setenv
  BY <1>3, <1>4, <1>6, <1>8 DEF Setenv, Proceed, Running, TypeOK
<1>9. CASE WriteStart
  BY <1>3, <1>4, <1>6, <1>9 DEF WriteStart, Running
<1>10. CASE MakeFails
  <2>1. ~CanMake
    BY <1>2, <1>10 DEF MakeFails, CanMake, FailsUnless
  <2> QED
    BY <1>3, <1>4, <1>6, <1>10, <2>1 DEF MakeFails, GiveUp, Running
<1>11. CASE FormatFails
  <2>1. Mounted
    BY <1>2, <1>11 DEF FormatFails, Mounted, FailsUnless
  <2> QED
    BY <1>3, <1>4, <1>6, <1>11, <2>1 DEF FormatFails, GiveUp, Running
<1> QED
  BY <1>5, <1>7, <1>8, <1>9, <1>10, <1>11 DEF RunCommand

\* Only the commands that name rootfs_data, and those that write over it, change it.
LEMMA DataDoes ==
  ASSUME TypeOK, ~hurt', RunCommand, NEW h, h = Head(todo)
  PROVE  /\ h = Cmd("remove", "data") =>
              IF Mounted THEN data' = data ELSE data' = "absent"
         /\ h = Cmd("make", "data") =>
              data' = IF data = "absent" THEN "empty" ELSE data
         /\ h = Cmd("write", "all") /\ todo' # todo => data' = "empty"
         /\ h[1] = "write" /\ h[2] # "all" =>
              data' = data \/ (data' = "empty" /\ ~OnUbi /\ ~dev.dual)
         /\ h[1] = "format" => data' = IF Mounted THEN data ELSE "empty"
         /\ h[1] = "restore" =>
              data' = IF backup /\ data \in {"user", "empty", "saved"} THEN "saved" ELSE data
         /\ h[1] \in {"detach", "ubiblock", "setenv"} \/ h[2] \in Parts =>
              h[1] = "write" \/ h[1] \in {"format", "restore"} \/ data' = data
<1>2. ~FailsUnless(TRUE) /\ \A P \in BOOLEAN : FailsUnless(P) => ~P
  BY NothingFails
<1>3. h = Cmd(h[1], h[2]) /\ todo # <<>> /\ h = Head(todo)
  BY CommandDoes
<1>4. ~DetachFails /\ ~UnblockFails /\ ~WriteBreaks /\ ~SetenvFails /\ ~RestoreFails
  BY <1>2 DEF DetachFails, UnblockFails, WriteBreaks, SetenvFails, RestoreFails
<1>5. What = h[2] /\ h[1] = Head(todo)[1]
  BY <1>3 DEF What
<1>p. "data" \notin Parts /\ "all" \notin Parts
  BY DEF Parts
<1>6. CASE Detach \/ Unblock \/ Setenv
  BY <1>5, <1>6 DEF Detach, Unblock, Setenv, Running, Cmd
<1>7. CASE RemoveVolume
  BY <1>5, <1>7, <1>p DEF RemoveVolume, Running, Cmd
<1>8. CASE RemoveFails
  <2>1. What = "data" /\ Mounted
    BY <1>2, <1>8 DEF RemoveFails, Mounted, FailsUnless
  <2> QED
    BY <1>5, <1>8, <2>1 DEF RemoveFails, Running, Cmd
<1>9. CASE MakeVolume
  BY <1>5, <1>9, <1>p DEF MakeVolume, Running, Cmd, CanMake, HasData
<1>10. CASE MakeFails
  <2>1. ~CanMake
    BY <1>2, <1>10 DEF MakeFails, CanMake, FailsUnless
  <2> QED
    BY <1>5, <1>10, <2>1 DEF MakeFails, Running, Cmd, CanMake, HasData
<1>11. CASE WriteStart
  BY <1>5, <1>11, <1>p DEF WriteStart, Running, Cmd
<1>12. CASE WriteSkips
  <2>1. ~ToWrite
    BY <1>2, <1>12 DEF WriteSkips, ToWrite, FailsUnless
  <2> QED
    BY <1>5, <1>12, <2>1 DEF WriteSkips, Running, Cmd, ToWrite
<1>13. CASE WriteEnds
  <2>1. Head(todo)[1] = "write"
    BY <1>13 DEF WriteEnds, TypeOK
  <2> QED
    BY <1>5, <1>13, <2>1 DEF WriteEnds, Cmd
<1>14. CASE Format \/ FormatFails
  <2>1. FormatFails => Mounted
    BY <1>2 DEF FormatFails, Mounted, FailsUnless
  <2> QED
    BY <1>5, <1>14, <2>1 DEF Format, FormatFails, Running, Cmd
<1>15. CASE Restore
  BY <1>5, <1>15 DEF Restore, Running, Cmd, HasData
<1> QED
  BY <1>4, <1>6, <1>7, <1>8, <1>9, <1>10, <1>11, <1>12, <1>13, <1>14, <1>15 DEF RunCommand

\* Only the commands that name a part change it, and no write of a part that the
\* file does not have; it is gone when it was removed.
LEMMA PartsDo ==
  ASSUME TypeOK, ~hurt', RunCommand, NEW h, h = Head(todo),
         writing => What = "all" \/ What \in file.parts \/ file.type = "ubifs",
         NEW p \in Parts
  PROVE  /\ h = Cmd("remove", p) => part'[Target][p] = Absent
         /\ \/ h[2] \notin {p, "all"}
            \/ h[1] \notin {"remove", "make", "write"}
            \/ h = Cmd("write", p) /\ p \notin file.parts /\ file.type # "ubifs"
            => part'[Target][p] = part[Target][p]
<1>2. ~FailsUnless(TRUE) /\ \A P \in BOOLEAN : FailsUnless(P) => ~P
  BY NothingFails
<1>3. What = h[2] /\ h[1] = Head(todo)[1]
  BY DEF What
<1>4. p # "data"
  BY DEF Parts
<1>5. CASE RemoveVolume
  <2>1. SetParts({What}, Absent) /\ h[1] = "remove"
    BY <1>3, <1>5 DEF RemoveVolume, Running
  <2> QED
    BY <1>3, <2>1, SetPartsSets DEF Cmd
<1>6. CASE MakeVolume
  <2>1. SetParts({What}, Empty) /\ h[1] = "make"
    BY <1>3, <1>6 DEF MakeVolume, Running
  <2> QED
    BY <1>3, <2>1, SetPartsSets DEF Cmd
<1>7. CASE WriteStart \/ WriteEnds
  <2>1. (SetParts(Written, Torn) \/ SetParts(Written, image)) /\ h[1] = "write"
    BY <1>3, <1>7 DEF WriteStart, WriteEnds, Running, TypeOK
  <2>2. h[2] # "all" =>
          Written = {h[2]} /\ (h[2] \in file.parts \/ file.type = "ubifs")
    BY <1>3, <1>7 DEF Written, WriteStart, ToWrite, WriteEnds
  <2>3. p # "all"
    BY DEF Parts
  <2> QED
    BY <2>1, <2>2, <2>3, SetPartsSets DEF Cmd
<1>8. CASE RemoveFails
  <2>1. What = "data"
    BY <1>2, <1>8 DEF RemoveFails, Mounted, FailsUnless
  <2> QED
    BY <1>3, <1>4, <1>8, <2>1 DEF RemoveFails, Cmd
<1>9. CASE Detach \/ DetachFails \/ Unblock \/ UnblockFails \/ MakeFails \/ WriteSkips
             \/ WriteBreaks \/ Setenv \/ SetenvFails \/ Format \/ FormatFails
             \/ Restore \/ RestoreFails
  <2>1. part' = part /\ h[1] # "remove"
    BY <1>3, <1>9 DEF Detach, DetachFails, Unblock, UnblockFails, MakeFails, WriteSkips,
      WriteBreaks, Setenv, SetenvFails, Format, FormatFails, Restore, RestoreFails,
      Running, TypeOK
  <2> QED
    BY <2>1 DEF Cmd
<1> QED
  BY <1>5, <1>6, <1>7, <1>8, <1>9 DEF RunCommand

-----------------------------------------------------------------------------
(* The scripts start out as the invariant says.                            *)

\* A script that one more command is added to, or is not.
LEMMA OneMore ==
  ASSUME NEW s \in Seq(Command), InOrder(s), NEW c \in Command, NEW there \in BOOLEAN,
         \A d \in Items(s) : MayPrecede(d, c),
         NEW t, t = s \o (IF there THEN <<c>> ELSE <<>>)
  PROVE  /\ t \in Seq(Command) /\ InOrder(t)
         /\ Items(t) = Items(s) \cup (IF there THEN {c} ELSE {})
<1>1. CASE there
  <2>1. <<c>> \in Seq(Command) /\ InOrder(<<c>>) /\ Items(<<c>>) = {c}
    BY OneItem
  <2>2. \A d \in Items(s), e \in Items(<<c>>) : MayPrecede(d, e)
    BY <2>1
  <2>3. /\ s \o <<c>> \in Seq(Command) /\ InOrder(s \o <<c>>)
        /\ Items(s \o <<c>>) = Items(s) \cup Items(<<c>>)
    BY <2>1, <2>2, JoinedItems
  <2> QED
    BY <1>1, <2>1, <2>3
<1>2. CASE ~there
  <2>1. t = s
    BY <1>2
  <2> QED
    BY <1>2, <2>1
<1> QED
  BY <1>1, <1>2

\* dual_boot_upgrade_prepare_ubi.
LEMMA PrepareDualOrder ==
  ASSUME TypeOK
  PROVE  /\ InOrder(PrepareDual)
         /\ Items(PrepareDual) \subseteq
              {Cmd(op, what) : op \in {"remove", "make"}, what \in {"kernel", "root", "data"}}
                \cup {Cmd("ubiblock", "root")}
         /\ Cmd("make", "data") \in Items(PrepareDual) => HasData
<1> DEFINE a == <<Cmd("ubiblock", "root")>>
           b == a \o Remove("kernel", HasPart("kernel"))
           c == b \o Remove("root", HasPart("root"))
           d == c \o <<Cmd("make", "kernel"), Cmd("make", "root")>>
           p == ~dev.reserve /\ HasData
           e == d \o (IF p THEN <<Cmd("remove", "data"), Cmd("make", "data")>> ELSE <<>>)
           w == {"kernel", "root", "data"}
<1>1. PrepareDual = e
  BY DEF PrepareDual
<1>2. HasPart("kernel") \in BOOLEAN /\ HasPart("root") \in BOOLEAN
  BY DEF HasPart
<1>3. \A op \in {"remove", "make", "ubiblock"}, what \in w : Cmd(op, what) \in Command
  BY CmdType
<1>4. a \in Seq(Command) /\ InOrder(a) /\ Items(a) = {Cmd("ubiblock", "root")}
  BY <1>3, OneItem
<1> HIDE DEF a
<1>5. /\ b \in Seq(Command) /\ InOrder(b)
      /\ Items(b) \subseteq {Cmd("ubiblock", "root"), Cmd("remove", "kernel")}
  <2>1. \A x \in Items(a) : MayPrecede(x, Cmd("remove", "kernel"))
    BY <1>4 DEF MayPrecede, Cmd
  <2>2. b = a \o (IF HasPart("kernel") THEN <<Cmd("remove", "kernel")>> ELSE <<>>)
    BY DEF Remove
  <2>3. Cmd("remove", "kernel") \in Command
    BY <1>3
  <2> HIDE DEF b
  <2>4. /\ b \in Seq(Command) /\ InOrder(b)
        /\ Items(b) = Items(a) \cup (IF HasPart("kernel") THEN {Cmd("remove", "kernel")} ELSE {})
    BY <1>2, <1>4, <2>1, <2>2, <2>3, OneMore, ZenonT(60)
  <2> QED
    BY <1>4, <2>4
<1> HIDE DEF b
<1>6. /\ c \in Seq(Command) /\ InOrder(c)
      /\ Items(c) \subseteq {Cmd("ubiblock", "root"), Cmd("remove", "kernel"),
                             Cmd("remove", "root")}
  <2>1. \A x \in Items(b) : MayPrecede(x, Cmd("remove", "root"))
    BY <1>5 DEF MayPrecede, Cmd
  <2>2. c = b \o (IF HasPart("root") THEN <<Cmd("remove", "root")>> ELSE <<>>)
    BY DEF Remove
  <2>3. Cmd("remove", "root") \in Command
    BY <1>3
  <2> HIDE DEF c
  <2>4. /\ c \in Seq(Command) /\ InOrder(c)
        /\ Items(c) = Items(b) \cup (IF HasPart("root") THEN {Cmd("remove", "root")} ELSE {})
    BY <1>2, <1>5, <2>1, <2>2, <2>3, OneMore, ZenonT(60)
  <2> QED
    BY <1>5, <2>4
<1> HIDE DEF c
<1>7. /\ d \in Seq(Command) /\ InOrder(d)
      /\ Items(d) \subseteq {Cmd("ubiblock", "root"), Cmd("remove", "kernel"),
           Cmd("remove", "root"), Cmd("make", "kernel"), Cmd("make", "root")}
  <2> DEFINE m == <<Cmd("make", "kernel"), Cmd("make", "root")>>
  <2>1. m \in Seq(Command) /\ InOrder(m)
        /\ Items(m) = {Cmd("make", "kernel"), Cmd("make", "root")}
    BY <1>3 DEF InOrder, Items, MayPrecede, Cmd
  <2> HIDE DEF m
  <2>2. \A x \in Items(c), y \in Items(m) : MayPrecede(x, y)
    BY <1>6, <2>1 DEF MayPrecede, Cmd
  <2>3. d = c \o m
    BY DEF m
  <2> QED
    BY <1>6, <2>1, <2>2, <2>3, JoinedItems
<1> HIDE DEF d
<1>8. /\ InOrder(e)
      /\ Items(e) \subseteq {Cmd("ubiblock", "root"), Cmd("remove", "kernel"),
           Cmd("remove", "root"), Cmd("make", "kernel"), Cmd("make", "root"),
           Cmd("remove", "data"), Cmd("make", "data")}
      /\ Cmd("make", "data") \in Items(e) => HasData
  <2>1. CASE p
    <3> DEFINE m == <<Cmd("remove", "data"), Cmd("make", "data")>>
    <3>1. m \in Seq(Command) /\ InOrder(m)
          /\ Items(m) = {Cmd("remove", "data"), Cmd("make", "data")}
      BY <1>3 DEF InOrder, Items, MayPrecede, Cmd
    <3> HIDE DEF m
    <3>2. \A x \in Items(d), y \in Items(m) : MayPrecede(x, y)
      BY <1>7, <3>1 DEF MayPrecede, Cmd
    <3>3. e = d \o m
      BY <2>1 DEF m
    <3> HIDE DEF e
    <3> QED
      BY <1>7, <2>1, <3>1, <3>2, <3>3, JoinedItems
  <2>2. CASE ~p
    <3>1. e = d
      BY <1>7, <2>2
    <3>2. Cmd("make", "data") \notin Items(d)
      BY <1>7 DEF Cmd
    <3> HIDE DEF e
    <3> QED
      BY <1>7, <3>1, <3>2
  <2> QED
    BY <2>1, <2>2
<1> HIDE DEF e
<1> QED
  BY <1>1, <1>8

\* nand_upgrade_prepare_ubi.
LEMMA PrepareSingleOrder ==
  ASSUME TypeOK, NEW f \in File, NEW tar, tar = (f.type = "tar")
  PROVE  /\ InOrder(PrepareSingle(f))
         /\ Items(PrepareSingle(f)) =
              (IF tar /\ dev.kernelMtd THEN {Cmd("write", "kernel")} ELSE {})
                \cup {Cmd("ubiblock", "root")}
                \cup (IF HasPart("kernel") /\ ~dev.kernelMtd
                        THEN {Cmd("remove", "kernel")} ELSE {})
                \cup (IF HasPart("root") THEN {Cmd("remove", "root")} ELSE {})
                \cup (IF HasData THEN {Cmd("remove", "data")} ELSE {})
                \cup (IF HasKernel(f) THEN {Cmd("make", "kernel")} ELSE {})
                \cup {Cmd("make", "root")}
                \cup (IF ~f.ubifs THEN {Cmd("make", "data")} ELSE {})
<1> DEFINE opt(q, x) == IF q THEN <<x>> ELSE <<>>
           k0 == tar /\ dev.kernelMtd
           k1 == HasPart("kernel") /\ ~dev.kernelMtd
           k2 == HasPart("root")
           k3 == HasData
           k4 == HasKernel(f)
           k5 == ~f.ubifs
           a == opt(k0, Cmd("write", "kernel"))
           b == a \o <<Cmd("ubiblock", "root")>>
           c == b \o opt(k1, Cmd("remove", "kernel"))
           d == c \o opt(k2, Cmd("remove", "root"))
           e == d \o opt(k3, Cmd("remove", "data"))
           g == e \o opt(k4, Cmd("make", "kernel"))
           h == g \o <<Cmd("make", "root")>>
           i == h \o opt(k5, Cmd("make", "data"))
<1>1. PrepareSingle(f) = i
  BY DEF PrepareSingle, Remove
<1>2. /\ k0 \in BOOLEAN /\ k1 \in BOOLEAN /\ k2 \in BOOLEAN /\ k3 \in BOOLEAN
      /\ k4 \in BOOLEAN /\ k5 \in BOOLEAN /\ TRUE \in BOOLEAN
  BY DEF HasPart, HasData, HasKernel, File
<1>3. \A op \in {"remove", "make", "ubiblock", "write"}, what \in {"kernel", "root", "data"} :
        Cmd(op, what) \in Command
  BY CmdType
<1> HIDE DEF k0, k1, k2, k3, k4, k5
<1> DEFINE O(q, x) == IF q THEN {x} ELSE {}
           A == O(k0, Cmd("write", "kernel"))
           B == A \cup {Cmd("ubiblock", "root")}
           C == B \cup O(k1, Cmd("remove", "kernel"))
           D == C \cup O(k2, Cmd("remove", "root"))
           E == D \cup O(k3, Cmd("remove", "data"))
           G == E \cup O(k4, Cmd("make", "kernel"))
           H == G \cup {Cmd("make", "root")}
           I == H \cup O(k5, Cmd("make", "data"))
<1>4. a \in Seq(Command) /\ InOrder(a) /\ Items(a) = A
  <2>1. CASE k0
    BY <1>3, <2>1, OneItem
  <2>2. CASE ~k0
    BY <2>2, NoItems
  <2> QED
    BY <2>1, <2>2
<1> HIDE DEF a, A
<1>5. b \in Seq(Command) /\ InOrder(b) /\ Items(b) = B
  <2>1. \A x \in Items(a) : MayPrecede(x, Cmd("ubiblock", "root"))
    BY <1>4 DEF MayPrecede, Cmd, A, B, C, D, E, G, H
  <2>2. b = a \o (IF TRUE THEN <<Cmd("ubiblock", "root")>> ELSE <<>>)
    OBVIOUS
  <2>3. B = A \cup (IF TRUE THEN {Cmd("ubiblock", "root")} ELSE {})
    OBVIOUS
  <2>4. Cmd("ubiblock", "root") \in Command
    BY <1>3
  <2> HIDE DEF b, B
  <2> QED
    BY <1>2, <1>4, <2>1, <2>2, <2>3, <2>4, OneMore, ZenonT(60)
<1> HIDE DEF b, B
<1>6. c \in Seq(Command) /\ InOrder(c) /\ Items(c) = C
  <2>1. \A x \in Items(b) : MayPrecede(x, Cmd("remove", "kernel"))
    BY <1>5 DEF MayPrecede, Cmd, A, B, C, D, E, G, H
  <2>2. c = b \o (IF k1 THEN <<Cmd("remove", "kernel")>> ELSE <<>>)
    OBVIOUS
  <2>3. C = B \cup (IF k1 THEN {Cmd("remove", "kernel")} ELSE {})
    OBVIOUS
  <2>4. Cmd("remove", "kernel") \in Command
    BY <1>3
  <2> HIDE DEF c, C
  <2> QED
    BY <1>2, <1>5, <2>1, <2>2, <2>3, <2>4, OneMore, ZenonT(60)
<1> HIDE DEF c, C
<1>7. d \in Seq(Command) /\ InOrder(d) /\ Items(d) = D
  <2>1. \A x \in Items(c) : MayPrecede(x, Cmd("remove", "root"))
    BY <1>6 DEF MayPrecede, Cmd, A, B, C, D, E, G, H
  <2>2. d = c \o (IF k2 THEN <<Cmd("remove", "root")>> ELSE <<>>)
    OBVIOUS
  <2>3. D = C \cup (IF k2 THEN {Cmd("remove", "root")} ELSE {})
    OBVIOUS
  <2>4. Cmd("remove", "root") \in Command
    BY <1>3
  <2> HIDE DEF d, D
  <2> QED
    BY <1>2, <1>6, <2>1, <2>2, <2>3, <2>4, OneMore, ZenonT(60)
<1> HIDE DEF d, D
<1>8. e \in Seq(Command) /\ InOrder(e) /\ Items(e) = E
  <2>1. \A x \in Items(d) : MayPrecede(x, Cmd("remove", "data"))
    BY <1>7 DEF MayPrecede, Cmd, A, B, C, D, E, G, H
  <2>2. e = d \o (IF k3 THEN <<Cmd("remove", "data")>> ELSE <<>>)
    OBVIOUS
  <2>3. E = D \cup (IF k3 THEN {Cmd("remove", "data")} ELSE {})
    OBVIOUS
  <2>4. Cmd("remove", "data") \in Command
    BY <1>3
  <2> HIDE DEF e, E
  <2> QED
    BY <1>2, <1>7, <2>1, <2>2, <2>3, <2>4, OneMore, ZenonT(60)
<1> HIDE DEF e, E
<1>9. g \in Seq(Command) /\ InOrder(g) /\ Items(g) = G
  <2>1. \A x \in Items(e) : MayPrecede(x, Cmd("make", "kernel"))
    BY <1>8 DEF MayPrecede, Cmd, A, B, C, D, E, G, H
  <2>2. g = e \o (IF k4 THEN <<Cmd("make", "kernel")>> ELSE <<>>)
    OBVIOUS
  <2>3. G = E \cup (IF k4 THEN {Cmd("make", "kernel")} ELSE {})
    OBVIOUS
  <2>4. Cmd("make", "kernel") \in Command
    BY <1>3
  <2> HIDE DEF g, G
  <2> QED
    BY <1>2, <1>8, <2>1, <2>2, <2>3, <2>4, OneMore, ZenonT(60)
<1> HIDE DEF g, G
<1>10. h \in Seq(Command) /\ InOrder(h) /\ Items(h) = H
  <2>1. \A x \in Items(g) : MayPrecede(x, Cmd("make", "root"))
    BY <1>9 DEF MayPrecede, Cmd, A, B, C, D, E, G, H
  <2>2. h = g \o (IF TRUE THEN <<Cmd("make", "root")>> ELSE <<>>)
    OBVIOUS
  <2>3. H = G \cup (IF TRUE THEN {Cmd("make", "root")} ELSE {})
    OBVIOUS
  <2>4. Cmd("make", "root") \in Command
    BY <1>3
  <2> HIDE DEF h, H
  <2> QED
    BY <1>2, <1>9, <2>1, <2>2, <2>3, <2>4, OneMore, ZenonT(60)
<1> HIDE DEF h, H
<1>11. i \in Seq(Command) /\ InOrder(i) /\ Items(i) = I
  <2>1. \A x \in Items(h) : MayPrecede(x, Cmd("make", "data"))
    BY <1>10 DEF MayPrecede, Cmd, A, B, C, D, E, G, H
  <2>2. i = h \o (IF k5 THEN <<Cmd("make", "data")>> ELSE <<>>)
    OBVIOUS
  <2>3. I = H \cup (IF k5 THEN {Cmd("make", "data")} ELSE {})
    OBVIOUS
  <2>4. Cmd("make", "data") \in Command
    BY <1>3
  <2> HIDE DEF i, I
  <2> QED
    BY <1>2, <1>10, <2>1, <2>2, <2>3, <2>4, OneMore, ZenonT(60)
<1>12. Items(PrepareSingle(f)) = I
  BY <1>1, <1>11
<1> QED
  BY <1>1, <1>11, <1>12 DEF A, B, C, D, E, G, H, k0, k1, k2, k3, k4, k5

\* The preparation.
LEMMA PreparesStarts ==
  /\ TypeOK /\ todo = Prepare(file) /\ (dev.dual \/ ~OnUbi => file.type = "tar")
  /\ ~OnUbi => HasData
  => /\ InOrder(todo) /\ Left \subseteq PrepareCommands /\ PreparesData
     /\ dev.dual /\ Cmd("make", "data") \in Left => HasData
<1> SUFFICES ASSUME TypeOK, todo = Prepare(file), dev.dual \/ ~OnUbi => file.type = "tar",
                    ~OnUbi => HasData
             PROVE  /\ InOrder(todo) /\ Left \subseteq PrepareCommands /\ PreparesData
                    /\ dev.dual /\ Cmd("make", "data") \in Left => HasData
  OBVIOUS
<1>1. CASE ~OnUbi
  <2>1. todo = IF dev.dual THEN <<>> ELSE <<Cmd("detach", "all")>>
    BY <1>1 DEF Prepare
  <2>2. InOrder(todo) /\ Left = IF dev.dual THEN {} ELSE {Cmd("detach", "all")}
    <3>1. CASE dev.dual
      BY <2>1, <3>1, NoItems DEF Left
    <3>2. CASE ~dev.dual
      BY <2>1, <3>2, OneItem DEF Left
    <3> QED
      BY <3>1, <3>2
  <2>3. \A what : Cmd("remove", what) \notin Left /\ Cmd("make", what) \notin Left
    BY <2>2 DEF Cmd
  <2>4. Left \subseteq PrepareCommands
    BY <2>2 DEF PrepareCommands
  <2> QED
    BY <1>1, <2>2, <2>3, <2>4 DEF PreparesData, HasData
<1>2. CASE OnUbi /\ file.type = "ubi"
  <2>1. todo = <<>> /\ ~dev.dual
    BY <1>2 DEF Prepare
  <2> QED
    BY <1>2, <2>1, NoItems DEF PreparesData, Left
<1>3. CASE OnUbi /\ file.type # "ubi" /\ dev.dual
  <2>1. todo = PrepareDual
    BY <1>3 DEF Prepare
  <2> QED
    BY <1>3, <2>1, PrepareDualOrder DEF PreparesData, PrepareCommands, Left
<1>4. CASE OnUbi /\ file.type # "ubi" /\ ~dev.dual
  <2>1. todo = PrepareSingle(file) /\ file \in File
    BY <1>4 DEF Prepare, TypeOK
  <2>2. /\ InOrder(todo)
        /\ Left =
             (IF file.type = "tar" /\ dev.kernelMtd THEN {Cmd("write", "kernel")} ELSE {})
               \cup {Cmd("ubiblock", "root")}
               \cup (IF HasPart("kernel") /\ ~dev.kernelMtd
                       THEN {Cmd("remove", "kernel")} ELSE {})
               \cup (IF HasPart("root") THEN {Cmd("remove", "root")} ELSE {})
               \cup (IF HasData THEN {Cmd("remove", "data")} ELSE {})
               \cup (IF HasKernel(file) THEN {Cmd("make", "kernel")} ELSE {})
               \cup {Cmd("make", "root")}
               \cup (IF ~file.ubifs THEN {Cmd("make", "data")} ELSE {})
    BY <2>1, PrepareSingleOrder, ZenonT(60) DEF Left
  <2>3. Left \subseteq PrepareCommands
    BY <1>4, <2>2 DEF PrepareCommands, Cmd
  <2>4. ~UbifsRoot =>
          /\ Cmd("remove", "data") \in Left =>
               data # "absent" /\ Cmd("make", "data") \in Left
          /\ Cmd("make", "data") \in Left
          /\ data # "reset" \/ Cmd("remove", "data") \in Left
    BY <1>4, <2>2 DEF Cmd, HasData, UbifsRoot
  <2>5. Cmd("make", "kernel") \in Left =>
          "kernel" \in file.parts /\ Cmd("write", "kernel") \notin Left
    BY <2>2 DEF Cmd, HasKernel
  <2>6. \A p \in Parts : Cmd("make", p) \in Left =>
          part[Target][p] = Absent \/ Cmd("remove", p) \in Left
    BY <2>2 DEF Cmd, HasKernel, HasPart, Parts
  <2> QED
    BY <1>4, <2>2, <2>3, <2>4, <2>5, <2>6 DEF PreparesData
<1> QED
  BY <1>1, <1>2, <1>3, <1>4

\* The installation, and what it expects of the preparation.
Prepared ==
  ~dev.dual /\ ~UbifsRoot /\ file.type # "ubi" =>
    \/ RootLost
    \/ data # "absent" /\ (data # "reset" \/ ~OnUbi)
LEMMA InstallsStarts ==
  /\ TypeOK /\ todo = Install(file) /\ (dev.dual \/ ~OnUbi => file.type = "tar")
  => /\ InOrder(todo) /\ Left \subseteq InstallCommands
     /\ Prepared => InstallsData
<1> SUFFICES ASSUME TypeOK, todo = Install(file), dev.dual \/ ~OnUbi => file.type = "tar"
             PROVE  /\ InOrder(todo) /\ Left \subseteq InstallCommands
                    /\ Prepared => InstallsData
  OBVIOUS
<1> DEFINE first == IF file.type = "ubi" THEN <<Cmd("write", "all")>>
                    ELSE IF file.type = "ubifs" THEN <<Cmd("write", "root")>>
                    ELSE InstallTar
<1>1. todo = first \o Afterwards
  BY DEF Install
<1>2. \A op \in {"write", "setenv", "format", "restore"},
         what \in {"kernel", "root", "data", "all", "current", "valid"} : Cmd(op, what) \in Command
  BY CmdType
<1>3. /\ Afterwards \in Seq(Command) /\ InOrder(Afterwards)
      /\ Items(Afterwards) \subseteq {Cmd("format", "data"), Cmd("restore", "data")}
      /\ ~dev.dual => Cmd("restore", "data") \in Items(Afterwards)
      /\ ~dev.dual /\ ~OnUbi => Cmd("format", "data") \in Items(Afterwards)
  <2>1. CASE dev.dual /\ dev.reserve
    BY <2>1, NoItems DEF Afterwards
  <2>2. CASE ~(dev.dual /\ dev.reserve) /\ OnUbi
    <3>1. Afterwards = <<Cmd("restore", "data")>>
      BY <1>2, <2>2 DEF Afterwards
    <3> QED
      BY <1>2, <2>2, <3>1, OneItem
  <2>3. CASE ~(dev.dual /\ dev.reserve) /\ ~OnUbi
    <3> DEFINE a == <<Cmd("format", "data")>>
               b == <<Cmd("restore", "data")>>
    <3>1. Afterwards = a \o b
      BY <2>3 DEF Afterwards
    <3>2. /\ a \in Seq(Command) /\ InOrder(a) /\ Items(a) = {Cmd("format", "data")}
          /\ b \in Seq(Command) /\ InOrder(b) /\ Items(b) = {Cmd("restore", "data")}
      BY <1>2, OneItem
    <3>3. MayPrecede(Cmd("format", "data"), Cmd("restore", "data"))
      BY DEF MayPrecede, Cmd
    <3> HIDE DEF a, b
    <3>4. /\ a \o b \in Seq(Command) /\ InOrder(a \o b)
          /\ Items(a \o b) = Items(a) \cup Items(b)
      BY <3>2, <3>3, JoinedItems
    <3> QED
      BY <3>1, <3>2, <3>4
  <2> QED
    BY <2>1, <2>2, <2>3
<1>4. /\ first \in Seq(Command) /\ InOrder(first)
      /\ file.type = "ubi" => Items(first) = {Cmd("write", "all")}
      /\ file.type # "ubi" =>
           Items(first) \subseteq {Cmd("write", "kernel"), Cmd("write", "root")}
             \cup IF dev.dual THEN {Cmd("setenv", "current"), Cmd("setenv", "valid")} ELSE {}
  <2>1. CASE file.type \in {"ubi", "ubifs"}
    BY <1>2, <2>1, OneItem
  <2>2. CASE file.type \notin {"ubi", "ubifs"} /\ dev.dual
    <3>1. first = <<Cmd("write", "kernel"), Cmd("write", "root"), Cmd("setenv", "current"),
                    Cmd("setenv", "valid")>>
      BY <2>2 DEF InstallTar, WriteAndSwitch
    <3> HIDE DEF first
    <3>2. first \in Seq(Command)
      BY <1>2, <3>1
    <3>3. InOrder(first)
      BY <3>1 DEF InOrder, MayPrecede, Cmd
    <3>4. Items(first) = {Cmd("write", "kernel"), Cmd("write", "root"),
                          Cmd("setenv", "current"), Cmd("setenv", "valid")}
      BY <3>1 DEF Items
    <3> QED
      BY <2>2, <3>2, <3>3, <3>4
  <2>3. CASE file.type \notin {"ubi", "ubifs"} /\ ~dev.dual /\ OnUbi /\ dev.kernelMtd
    <3>1. first = <<Cmd("write", "root")>>
      BY <2>3 DEF InstallTar
    <3> HIDE DEF first
    <3> QED
      BY <1>2, <2>3, <3>1, OneItem
  <2>4. CASE file.type \notin {"ubi", "ubifs"} /\ ~dev.dual /\ ~(OnUbi /\ dev.kernelMtd)
    <3>1. first = <<Cmd("write", "kernel"), Cmd("write", "root")>>
      BY <2>4 DEF InstallTar
    <3> HIDE DEF first
    <3> QED
      BY <1>2, <2>4, <3>1 DEF InOrder, Items, MayPrecede, Cmd
  <2> QED
    BY <2>1, <2>2, <2>3, <2>4
<1> HIDE DEF first
<1>5. \A c \in Items(first), d \in Items(Afterwards) : MayPrecede(c, d)
  BY <1>3, <1>4 DEF MayPrecede, Cmd
<1>6. InOrder(todo) /\ Left = Items(first) \cup Items(Afterwards)
  BY <1>1, <1>3, <1>4, <1>5, JoinedItems DEF Left
<1>7. Left \subseteq InstallCommands
  BY <1>3, <1>4, <1>6 DEF InstallCommands
<1>8. ASSUME ~dev.dual, ~UbifsRoot, Prepared
      PROVE  /\ Cmd("restore", "data") \in Left
             /\ data # "absent" \/ Cmd("write", "all") \in Left \/ RootLost
             /\ \/ data # "reset" \/ RootLost
                \/ Cmd("write", "all") \in Left \/ Cmd("format", "data") \in Left
  BY <1>3, <1>4, <1>6, <1>8 DEF Prepared
<1> QED
  BY <1>6, <1>7, <1>8 DEF InstallsData

\* A reset to default.
LEMMA StartsStarts ==
  TypeOK /\ todo = Reset
  => /\ InOrder(todo) /\ Left \subseteq StartCommands
     /\ Settled => StartsData
<1> SUFFICES ASSUME TypeOK, todo = Reset
             PROVE  /\ InOrder(todo) /\ Left \subseteq StartCommands
                    /\ Settled => StartsData
  OBVIOUS
<1>1. CASE data # "reset"
  <2>1. todo = <<>>
    BY <1>1 DEF Reset
  <2> QED
    BY <2>1, NoItems DEF StartsData, StartCommands, Left
<1>2. CASE data = "reset" /\ OnUbi
  <2>1. todo = <<Cmd("remove", "data"), Cmd("make", "data")>>
    BY <1>2 DEF Reset
  <2>2. InOrder(todo) /\ Left = {Cmd("remove", "data"), Cmd("make", "data")}
    BY <2>1 DEF InOrder, Left, Items, MayPrecede, Cmd
  <2> QED
    BY <1>2, <2>2 DEF StartsData, StartCommands
<1>3. CASE data = "reset" /\ ~OnUbi
  <2>1. todo = <<Cmd("format", "data")>>
    BY <1>3 DEF Reset
  <2>2. InOrder(todo) /\ Left = {Cmd("format", "data")}
    BY <2>1, OneItem DEF Left
  <2> QED
    BY <1>3, <2>2 DEF StartsData, StartCommands, Cmd
<1> QED
  BY <1>1, <1>2, <1>3

-----------------------------------------------------------------------------

\* What goes wrong is remembered, until the system is up with its overlay.
LEMMA HurtStays ==
  ASSUME RunCommand, hurt
  PROVE  hurt'
<1>1. CASE DetachFails \/ UnblockFails \/ RemoveFails \/ MakeFails \/ WriteSkips
             \/ WriteBreaks \/ SetenvFails \/ FormatFails \/ RestoreFails
  BY <1>1, Zenon DEF DetachFails, UnblockFails, RemoveFails, MakeFails, WriteSkips,
    WriteBreaks, SetenvFails, FormatFails, RestoreFails, FailsUnless, trouble
<1>2. CASE Detach \/ Unblock \/ RemoveVolume \/ MakeVolume \/ WriteStart
             \/ WriteEnds \/ Setenv \/ Format \/ Restore
  BY <1>2, Zenon DEF Detach, Unblock, RemoveVolume, MakeVolume, WriteStart, WriteEnds,
    Setenv, Format, Restore, trouble
<1> QED
  BY <1>1, <1>2 DEF RunCommand

\* Only a system that is up, or comes up, with its overlay is taken for a sound one.
LEMMA HurtKept ==
  ASSUME [Next]_vars, ~hurt'
  PROVE  /\ ~PowerCut
         /\ \/ ~hurt
            \/ Settled /\ (EndInit \/ \E f \in Files, b \in BOOLEAN : Offer(f, b))
<1>1. ~PowerCut
  BY DEF PowerCut
<1>2. CASE RunCommand
  BY <1>1, <1>2, HurtStays
<1>3. ASSUME NEW f \in Files, NEW b \in BOOLEAN, Offer(f, b)
      PROVE  ~hurt \/ Settled
  BY <1>3, Zenon DEF Offer
<1>4. CASE EndInit
  BY <1>1, <1>4, Zenon DEF EndInit
<1>5. CASE EndPrepare \/ EndInstall \/ Configure \/ Reboot \/ Boot \/ UNCHANGED vars
  <2>1. hurt' = hurt
    BY <1>5 DEF EndPrepare, EndInstall, Configure, Reboot, Boot, vars, trouble
  <2> QED
    BY <1>1, <2>1, Zenon
<1> QED
  BY <1>1, <1>2, <1>3, <1>4, <1>5 DEF Next

\* The device stays what it is.
LEMMA DeviceStays ==
  ASSUME [Next]_vars
  PROVE  dev' = dev /\ OnUbi' = OnUbi
<1>1. CASE RunCommand
  BY <1>1, CommandSame DEF UpgradeSame, OnUbi
<1>2. CASE ~RunCommand
  BY <1>2 DEF Next, vars, Offer, EndPrepare, EndInstall, Configure, Reboot, PowerCut, Boot,
    EndInit, UpgradeSame, FlashSame, OnUbi
<1> QED
  BY <1>1, <1>2

-----------------------------------------------------------------------------
(* What holds whatever goes wrong.                                         *)

\* No step adds a command to a script that runs.
LEMMA LeftShrinks ==
  ASSUME TypeOK, todo # <<>>, todo' \in {todo, Tail(todo), <<>>}
  PROVE  Left' \subseteq Left
<1>1. CASE todo' = todo
  BY <1>1 DEF Left, Items
<1>2. CASE todo' = Tail(todo)
  <2>1. /\ Len(todo) \in Nat /\ Len(todo) >= 1
        /\ Len(todo') = Len(todo) - 1
        /\ \A i \in 1 .. Len(todo') : todo'[i] = todo[i + 1]
    BY <1>2, Shorter
  <2>2. \A i \in 1 .. Len(todo') : i + 1 \in 1 .. Len(todo)
    BY <2>1
  <2> QED
    BY <2>1, <2>2 DEF Left, Items
<1>3. CASE todo' = <<>>
  BY <1>3 DEF Left, Items
<1> QED
  BY <1>1, <1>2, <1>3

\* What the commands of each phase are about.
LEMMA CommandIs ==
  ASSUME Base, NEW h \in Left, phase \in {"prepare", "install", "init"}
  PROVE  /\ \/ h \in {Cmd(op, what) : op \in {"remove", "make"}, what \in Parts}
            \/ h \in {Cmd("detach", "all"), Cmd("ubiblock", "root"),
                      Cmd("write", "kernel"), Cmd("write", "root")}
            \/ h \in {Cmd("remove", "data"), Cmd("make", "data")} /\ OnUbi
            \/ h \in {Cmd("format", "data"), Cmd("restore", "data")}
            \/ h = Cmd("write", "all") /\ file.type = "ubi"
            \/ h \in {Cmd("setenv", "current"), Cmd("setenv", "valid")} /\ dev.dual
         /\ phase = "prepare" =>
              h[1] \in {"remove", "make", "detach", "ubiblock"} \/ h = Cmd("write", "kernel")
         /\ phase = "install" => h[1] \notin {"remove", "make", "detach", "ubiblock"}
         /\ phase = "init" =>
              h \in {Cmd("format", "data"), Cmd("remove", "data"), Cmd("make", "data")}
<1>1. CASE phase = "prepare"
  BY <1>1 DEF Base, PrepareCommands, Parts, Cmd
<1>2. CASE phase = "install"
  BY <1>2 DEF Base, InstallCommands, Parts, Cmd
<1>3. CASE phase = "init"
  BY <1>3 DEF Base, StartCommands, Parts, Cmd
<1> QED
  BY <1>1, <1>2, <1>3

\* A command: with two slots rootfs_data is mounted, on MMC it cannot be removed.
LEMMA CommandBase ==
  ASSUME TypeOK, TypeOK', Base, RunCommand
  PROVE  Base'
<1> DEFINE h == Head(todo)
<1>1. /\ UNCHANGED <<dev, booted, file, said>> /\ todo # <<>>
      /\ phase' = phase \/ (phase' = "off" /\ todo' = <<>>)
      /\ current' = current \/ h[1] = "setenv"
      /\ todo' \in {todo, Tail(todo), <<>>}
  BY CommandDoesAnyway DEF UpgradeSame
<1>2. h \in Left /\ Left' \subseteq Left
  BY <1>1, HeadItem, LeftShrinks
<1>3. phase \in {"prepare", "install", "init"}
  BY <1>1 DEF TypeOK
<1>4. /\ \/ h \in {Cmd(op, what) : op \in {"remove", "make"}, what \in Parts}
         \/ h \in {Cmd("detach", "all"), Cmd("ubiblock", "root"),
                   Cmd("write", "kernel"), Cmd("write", "root")}
         \/ h \in {Cmd("remove", "data"), Cmd("make", "data")} /\ OnUbi
         \/ h \in {Cmd("format", "data"), Cmd("restore", "data")}
         \/ h = Cmd("write", "all") /\ file.type = "ubi"
         \/ h \in {Cmd("setenv", "current"), Cmd("setenv", "valid")} /\ dev.dual
      /\ phase = "install" => h[1] \notin {"remove", "make", "detach", "ubiblock"}
  BY <1>2, <1>3, CommandIs
<1>5. /\ data' = "absent" =>
           \/ data = "absent" \/ h = Cmd("write", "all")
           \/ h = Cmd("remove", "data") /\ ~Mounted
      /\ data' = "empty" =>
           \/ data = "empty" \/ (h[1] = "write" /\ ~dev.dual) \/ h = Cmd("write", "all")
           \/ h = Cmd("make", "data") /\ ~HasData
           \/ h[1] = "format" /\ ~Mounted
  BY CommandDoesAnyway
<1>6. dev.dual \/ ~OnUbi => file.type = "tar"
  BY DEF Base
<1>7. h = Cmd("write", "all") => OnUbi /\ ~dev.dual
  <2>1. h = Cmd("write", "all") => file.type = "ubi"
    BY <1>4 DEF Cmd, Parts
  <2> QED
    BY <1>6, <2>1
<1>8. dev.dual /\ phase \in {"prepare", "install"} => data' # "empty"
  <2> SUFFICES ASSUME dev.dual, phase \in {"prepare", "install"} PROVE data' # "empty"
    OBVIOUS
  <2>1. Mounted /\ data # "empty"
    BY DEF Mounted, Base
  <2>2. h = Cmd("make", "data") => HasData
    <3>1. h = Cmd("make", "data") => phase = "prepare"
      BY <1>3, <1>4 DEF Cmd
    <3> QED
      BY <1>2, <3>1 DEF Base
  <2> QED
    BY <1>5, <1>7, <2>1, <2>2
<1>9. dev.dual /\ phase = "prepare" /\ Cmd("make", "data") \in Left' => data' # "absent"
  <2> SUFFICES ASSUME dev.dual, phase = "prepare", Cmd("make", "data") \in Left
               PROVE  data' # "absent"
    BY <1>2
  <2>1. Mounted /\ data # "absent"
    BY DEF Mounted, Base, HasData
  <2> QED
    BY <1>5, <1>7, <2>1
<1>10. ~OnUbi => data' # "absent"
  <2>1. ~OnUbi => data # "absent"
    BY DEF Base, HasData
  <2>2. h = Cmd("remove", "data") => OnUbi
    BY <1>4 DEF Cmd, Parts
  <2> QED
    BY <1>5, <1>7, <2>1, <2>2
<1>11. ~dev.dual => current' = current
  BY <1>1, <1>4 DEF Cmd
<1>12. UNCHANGED <<OnUbi, PrepareCommands, InstallCommands, StartCommands>>
  BY <1>1 DEF OnUbi, PrepareCommands, InstallCommands, StartCommands
<1>13. ~said
  BY <1>3 DEF Base
<1> HIDE DEF h
<1> QED
  BY <1>1, <1>2, <1>3, <1>6, <1>8, <1>9, <1>10, <1>11, <1>12, <1>13 DEF Base, HasData

\* What the user, the end of a script, a boot or a power cut does.
LEMMA PhaseBase ==
  ASSUME TypeOK, TypeOK', Base, [Next]_vars, ~RunCommand
  PROVE  Base'
<1>1. dev' = dev /\ OnUbi' = OnUbi
  BY DeviceStays
<1>2. ASSUME NEW f \in Files, NEW b \in BOOLEAN, Offer(f, b) PROVE Base'
  <2>1. /\ UNCHANGED <<part, data, current, booted>>
        /\ phase = "up" /\ phase' = "prepare" /\ todo' = Prepare(f)
        /\ file' = f /\ said' = FALSE /\ (f.type # "tar" => OnUbi /\ ~dev.dual)
    BY <1>2 DEF Offer, FlashSame
  <2>2. todo' = Prepare(file)'
    BY <1>1, <2>1
      DEF Prepare, PrepareDual, PrepareSingle, HasKernel, OnUbi, HasPart, HasData, Target
  <2>3. (dev.dual \/ ~OnUbi => file.type = "tar")' /\ (~OnUbi => HasData)'
    BY <1>1, <2>1 DEF Base, HasData
  <2>4. (/\ TypeOK /\ todo = Prepare(file) /\ (dev.dual \/ ~OnUbi => file.type = "tar")
         /\ ~OnUbi => HasData
         => /\ InOrder(todo) /\ Left \subseteq PrepareCommands /\ PreparesData
            /\ dev.dual /\ Cmd("make", "data") \in Left => HasData)'
    BY PreparesStarts, PTL
  <2>5. /\ Left' \subseteq PrepareCommands'
        /\ (dev.dual /\ Cmd("make", "data") \in Left => HasData)'
    BY <2>2, <2>3, <2>4
  <2> QED
    BY <1>1, <2>1, <2>3, <2>5 DEF Base
<1>3. CASE EndPrepare
  <2>1. /\ UNCHANGED <<part, data, current, booted, file, backup, said>>
        /\ phase = "prepare" /\ phase' = "install" /\ todo' = Install(file)
    BY <1>3 DEF EndPrepare, FlashSame
  <2>2. todo' = Install(file)'
    BY <1>1, <2>1 DEF Install, InstallTar, WriteAndSwitch, Afterwards
  <2>3. (dev.dual \/ ~OnUbi => file.type = "tar")'
    BY <1>1, <2>1 DEF Base
  <2>4. (/\ TypeOK /\ todo = Install(file) /\ (dev.dual \/ ~OnUbi => file.type = "tar")
         => /\ InOrder(todo) /\ Left \subseteq InstallCommands
            /\ Prepared => InstallsData)'
    BY InstallsStarts, PTL
  <2>5. Left' \subseteq InstallCommands'
    BY <2>2, <2>3, <2>4
  <2> QED
    BY <1>1, <2>1, <2>3, <2>5 DEF Base, HasData
<1>4. CASE EndInstall
  <2>1. /\ UNCHANGED <<data, current, booted, file>> /\ phase = "install"
        /\ phase' = "off" \/ (dev.dual /\ phase' = "up")
    BY <1>4 DEF EndInstall, FlashSame
  <2> QED
    BY <1>1, <2>1 DEF Base, HasData
<1>5. CASE Configure
  <2>1. /\ UNCHANGED <<current, booted, file, said, phase>>
        /\ phase = "up" /\ data' \in {"user", "reset"}
    BY <1>5 DEF Configure, UpgradeSame, EnvSame
  <2> QED
    BY <1>1, <2>1 DEF Base, HasData
<1>6. CASE Reboot \/ PowerCut
  <2>1. UNCHANGED <<data, current, booted, file>> /\ phase' = "off" /\ said' = FALSE
    BY <1>6 DEF Reboot, PowerCut, FlashSame
  <2> QED
    BY <1>1, <2>1 DEF Base, HasData
<1>7. CASE Boot
  <2>1. /\ UNCHANGED <<data, current, file>>
        /\ phase' = "init" /\ said' = FALSE /\ booted' = Choice /\ todo' = Reset
    BY <1>7 DEF Boot
  <2>2. ~dev.dual => booted' = current'
    BY <2>1 DEF Choice
  <2>3. todo' = Reset'
    BY <1>1, <2>1 DEF Reset
  <2>4. (TypeOK /\ todo = Reset
         => /\ InOrder(todo) /\ Left \subseteq StartCommands
            /\ Settled => StartsData)'
    BY StartsStarts, PTL
  <2>5. Left' \subseteq StartCommands'
    BY <2>3, <2>4
  <2> QED
    BY <1>1, <2>1, <2>2, <2>5 DEF Base, HasData
<1>8. CASE EndInit
  <2>1. /\ UNCHANGED <<current, booted, file, said>>
        /\ phase = "init" /\ phase' = "up"
        /\ data' = IF data = "empty" THEN "user" ELSE data
    BY <1>8 DEF EndInit, UpgradeSame, EnvSame
  <2> QED
    BY <1>1, <2>1 DEF Base, HasData
<1>9. CASE UNCHANGED vars
  <2>1. UNCHANGED <<data, current, booted, todo, file, said, phase>>
    BY <1>9 DEF vars
  <2>2. UNCHANGED <<PrepareCommands, InstallCommands, StartCommands, Left>>
    BY <1>1, <2>1 DEF PrepareCommands, InstallCommands, StartCommands, Left, Items
  <2> QED
    BY <1>1, <2>1, <2>2 DEF Base, HasData
<1> QED
  BY <1>2, <1>3, <1>4, <1>5, <1>6, <1>7, <1>8, <1>9 DEF Next

-----------------------------------------------------------------------------
(* One command, and the rest of the script.                                *)

\* The script after a command: the same while a write is under way, without the
\* first command when it is done, empty when the script gave up.
LEMMA ScriptAfter ==
  ASSUME TypeOK, TypeOK', ~hurt', RunCommand, InOrder(todo),
         NEW h, h = Head(todo)
  PROVE  /\ InOrder(todo') /\ h \in Left /\ Left' \subseteq Left
         /\ \/ todo' = todo /\ Left' = Left /\ h[1] = "write"
            \/ Left' = Left \ {h} /\ \A d \in Left' : MayPrecede(h, d)
            \/ todo' = <<>> /\ Left' = {} /\ data' = data /\ part' = part
               /\ ((h[1] = "make" /\ ~CanMake) \/ (h[1] = "format" /\ Mounted))
         /\ Left' = {} => todo' = <<>>
<1>1. todo # <<>>
  BY HeadRuns
<1>2. h \in Left
  BY <1>1, HeadItem
<1>3. Left' = {} => todo' = <<>>
  <2>1. (TypeOK /\ todo # <<>> => Head(todo) \in Left /\ Left # {})'
    BY HeadItem, PTL
  <2> QED
    BY <2>1
<1>4. CASE todo' = todo /\ h[1] = "write"
  BY <1>2, <1>3, <1>4 DEF Left, Items, InOrder
<1>5. CASE todo' = Tail(todo)
  <2>1. /\ InOrder(todo') /\ Items(todo') = Left \ {h}
        /\ \A d \in Items(todo') : MayPrecede(h, d)
    BY <1>1, <1>5, ItemsShorter
  <2>2. Left' = Items(todo')
    BY DEF Left, Items
  <2> QED
    BY <1>2, <1>3, <2>1, <2>2
<1>6. CASE todo' = <<>> /\ data' = data /\ part' = part /\
           ((h[1] = "make" /\ ~CanMake) \/ (h[1] = "format" /\ Mounted))
  <2>1. InOrder(todo') /\ Items(todo') = {}
    BY <1>6, NoItems
  <2>2. Left' = {}
    BY <2>1 DEF Left, Items
  <2> QED
    BY <1>2, <1>6, <2>1, <2>2
<1> QED
  BY <1>4, <1>5, <1>6, CommandDoes

\* What else is quiet stays so.
LEMMA CommandQuiet ==
  ASSUME TypeOK, TypeOK', ~hurt', RunCommand, Quiet, Base, Base',
         (phase = "prepare" => PreparesData)', (phase = "install" => InstallsData)',
         (phase = "init" => StartsData)'
  PROVE  Quiet'
<1> DEFINE h == Head(todo)
<1>1. UNCHANGED <<dev, booted, file, backup, said, phase>> /\ todo # <<>>
  BY CommandDoes DEF UpgradeSame
<1>2. phase \in {"prepare", "install", "init"}
  BY <1>1 DEF TypeOK
<1>3. /\ InOrder(todo') /\ h \in Left
  BY ScriptAfter DEF Quiet
<1>4. /\ \/ h \in {Cmd(op, what) : op \in {"remove", "make"}, what \in Parts}
         \/ h \in {Cmd("detach", "all"), Cmd("ubiblock", "root"),
                   Cmd("write", "kernel"), Cmd("write", "root")}
         \/ h \in {Cmd("remove", "data"), Cmd("make", "data")} /\ OnUbi
         \/ h \in {Cmd("format", "data"), Cmd("restore", "data")}
         \/ h = Cmd("write", "all") /\ file.type = "ubi"
         \/ h \in {Cmd("setenv", "current"), Cmd("setenv", "valid")} /\ dev.dual
  BY <1>2, <1>3, CommandIs
<1>5. writing' => What' = "all" \/ What' \in file.parts \/ file.type = "ubifs"
  <2>1. writing' => todo' = todo /\ ToWrite
    BY CommandDoes
  <2> QED
    BY <2>1 DEF ToWrite, What
<1>6. /\ h = Cmd("remove", "data") =>
           IF Mounted THEN data' = data ELSE data' = "absent"
      /\ h = Cmd("make", "data") =>
           data' = IF data = "absent" THEN "empty" ELSE data
      /\ h[1] = "write" /\ h[2] # "all" =>
           data' = data \/ (data' = "empty" /\ ~OnUbi /\ ~dev.dual)
      /\ h[1] = "format" => data' = IF Mounted THEN data ELSE "empty"
      /\ h[1] = "restore" =>
           data' = IF backup /\ data \in {"user", "empty", "saved"} THEN "saved" ELSE data
      /\ h[1] \in {"detach", "ubiblock", "setenv"} \/ h[2] \in Parts =>
           h[1] = "write" \/ h[1] \in {"format", "restore"} \/ data' = data
  BY DataDoes
<1>7. dev.dual /\ phase # "init" => data' \in {"user", "reset", "saved"}
  <2> SUFFICES ASSUME dev.dual, phase # "init" PROVE data' \in {"user", "reset", "saved"}
    OBVIOUS
  <2>1. data \in {"user", "reset", "saved"} /\ Mounted /\ file.type = "tar"
    BY DEF Quiet, Base, Mounted
  <2> QED
    BY <1>4, <1>6, <2>1 DEF Cmd
<1> HIDE DEF h
<1>8. ~said
  BY <1>2 DEF Base
<1> QED
  BY <1>1, <1>2, <1>3, <1>5, <1>7, <1>8 DEF Quiet

\* A preparation goes on, or gives up at a part that the file does not have: the
\* configuration has a volume, or will have.
LEMMA CommandPreparesData ==
  ASSUME TypeOK, TypeOK', ~hurt', RunCommand, Quiet, Base, phase = "prepare"
  PROVE  PreparesData'
<1> DEFINE h == Head(todo)
<1>1. /\ UNCHANGED <<dev, booted, file, backup, said, phase>> /\ todo # <<>>
      /\ h = Cmd(h[1], h[2])
  BY CommandDoes DEF UpgradeSame
<1>2. PreparesData /\ InOrder(todo)
  BY DEF Quiet
<1>3. /\ h \in Left /\ Left' \subseteq Left
      /\ \/ todo' = todo /\ Left' = Left /\ h[1] = "write"
         \/ Left' = Left \ {h} /\ \A d \in Left' : MayPrecede(h, d)
         \/ todo' = <<>> /\ Left' = {} /\ data' = data /\ part' = part
            /\ ((h[1] = "make" /\ ~CanMake) \/ (h[1] = "format" /\ Mounted))
      /\ Left' = {} => todo' = <<>>
  BY <1>2, ScriptAfter
<1>4. /\ \/ h \in {Cmd(op, what) : op \in {"remove", "make"}, what \in Parts}
         \/ h \in {Cmd("detach", "all"), Cmd("ubiblock", "root"), Cmd("write", "kernel")}
         \/ h \in {Cmd("remove", "data"), Cmd("make", "data")}
  BY <1>3, CommandIs DEF Cmd
<1>5. UNCHANGED <<OnUbi, UbifsRoot>>
  BY <1>1 DEF OnUbi, UbifsRoot
<1>6. PreparesData' \/ (file.type = "tar" /\ ~dev.dual /\ ~UbifsRoot)
  BY <1>1, <1>5 DEF PreparesData
<1> SUFFICES ASSUME file.type = "tar", ~dev.dual, ~UbifsRoot PROVE PreparesData'
  BY <1>6
<1>7. /\ Cmd("remove", "data") \in Left =>
           data # "absent" /\ Cmd("make", "data") \in Left
      /\ data # "absent" \/ Cmd("make", "data") \in Left
      /\ data # "reset" \/ ~OnUbi \/ Cmd("remove", "data") \in Left
      /\ Cmd("make", "kernel") \in Left =>
           "kernel" \in file.parts /\ Cmd("write", "kernel") \notin Left
      /\ \A p \in Parts : Cmd("make", p) \in Left =>
           part[Target][p] = Absent \/ Cmd("remove", p) \in Left
  BY <1>1, <1>2 DEF PreparesData
<1>8. Target' = Target
  BY <1>1 DEF Target
<1>9. /\ h = Cmd("remove", "data") => data' = "absent"
      /\ h = Cmd("make", "data") =>
           data' = IF data = "absent" THEN "empty" ELSE data
      /\ h \notin {Cmd("remove", "data"), Cmd("make", "data")} => data' \in {data, "empty"}
  BY <1>4, DataDoes DEF Cmd, Mounted
<1>10. ASSUME NEW p \in Parts
       PROVE  /\ h = Cmd("remove", p) => part'[Target][p] = Absent
              /\ h \notin {Cmd("remove", p), Cmd("make", p), Cmd("write", p)} =>
                   part'[Target][p] = part[Target][p]
  <2>1. writing => What = "all" \/ What \in file.parts \/ file.type = "ubifs"
    BY DEF Quiet
  <2>2. /\ h = Cmd("remove", p) => part'[Target][p] = Absent
        /\ \/ h[2] \notin {p, "all"}
           \/ h[1] \notin {"remove", "make", "write"}
           => part'[Target][p] = part[Target][p]
    BY <2>1, PartsDo
  <2> QED
    BY <1>4, <2>2 DEF Cmd, Parts
<1>11. Cmd("make", "kernel") \in Left' => "kernel" \in file'.parts /\ Cmd("write", "kernel") \notin Left'
  BY <1>1, <1>3, <1>7
<1> SUFFICES
      /\ Cmd("remove", "data") \in Left' =>
           data' # "absent" /\ Cmd("make", "data") \in Left'
      /\ \/ data' # "absent" \/ Cmd("make", "data") \in Left'
         \/ todo' = <<>> /\ RootLost'
      /\ \/ data' # "reset" \/ ~OnUbi \/ Cmd("remove", "data") \in Left'
         \/ todo' = <<>> /\ RootLost'
      /\ \A p \in Parts : Cmd("make", p) \in Left' =>
           part'[Target'][p] = Absent \/ Cmd("remove", p) \in Left'
  BY <1>1, <1>5, <1>11 DEF PreparesData
<1>12. CASE todo' = todo /\ Left' = Left /\ h[1] = "write"
  <2>1. h = Cmd("write", "kernel")
    BY <1>4, <1>12 DEF Cmd
  <2>2. data' \in {data, "empty"}
    BY <1>9, <2>1 DEF Cmd
  <2>3. \A p \in Parts : Cmd("make", p) \in Left => part'[Target][p] = part[Target][p]
    BY <1>3, <1>7, <1>10, <2>1 DEF Cmd
  <2> QED
    BY <1>7, <1>8, <1>12, <2>2, <2>3
<1>13. CASE Left' = Left \ {h} /\ \A d \in Left' : MayPrecede(h, d)
  <2>1. Cmd("remove", "data") \in Left' => h # Cmd("make", "data")
    BY <1>13 DEF MayPrecede, Cmd
  <2>2. Cmd("remove", "data") \in Left' =>
          data' # "absent" /\ Cmd("make", "data") \in Left'
    BY <1>3, <1>7, <1>9, <1>13, <2>1
  <2>3. data' # "absent" \/ Cmd("make", "data") \in Left'
    <3>1. CASE h = Cmd("make", "data")
      BY <1>9, <3>1
    <3>2. CASE h = Cmd("remove", "data")
      BY <1>3, <1>7, <1>13, <3>2 DEF Cmd
    <3>3. CASE h \notin {Cmd("remove", "data"), Cmd("make", "data")}
      BY <1>7, <1>9, <1>13, <3>3
    <3> QED
      BY <3>1, <3>2, <3>3
  <2>4. data' # "reset" \/ ~OnUbi \/ Cmd("remove", "data") \in Left'
    BY <1>3, <1>4, <1>7, <1>9, <1>13
  <2>5. ASSUME NEW p \in Parts, Cmd("make", p) \in Left'
        PROVE  part'[Target][p] = Absent \/ Cmd("remove", p) \in Left'
    <3>1. Cmd("make", p) \in Left /\ h # Cmd("make", p)
      BY <1>13, <2>5
    <3>2. h # Cmd("write", p)
      BY <1>3, <1>4, <1>7, <3>1 DEF Cmd
    <3> QED
      BY <1>7, <1>10, <1>13, <3>1, <3>2
  <2> QED
    BY <1>8, <2>2, <2>3, <2>4, <2>5
<1>14. CASE todo' = <<>> /\ Left' = {} /\ data' = data /\ part' = part
             /\ ((h[1] = "make" /\ ~CanMake) \/ (h[1] = "format" /\ Mounted))
  <2>1. h[1] = "make" /\ ~CanMake /\ What = h[2]
    BY <1>4, <1>14 DEF Cmd, What
  <2>2. \A p \in Parts \cup {"data"} : h = Cmd("make", p) => Cmd("remove", p) \notin Left
    <3>1. /\ Len(todo) \in Nat /\ Len(todo) >= 1 /\ h = todo[1]
      BY <1>1, Shorter
    <3>2. ASSUME NEW d \in Left, d # h PROVE MayPrecede(h, d)
      <4>1. PICK i \in 1 .. Len(todo) : d = todo[i]
        BY DEF Left, Items
      <4>2. 1 < i /\ 1 \in 1 .. Len(todo)
        BY <3>1, <3>2, <4>1
      <4> QED
        BY <1>2, <3>1, <4>1, <4>2 DEF InOrder
    <3> HIDE DEF h
    <3> QED
      BY <3>2 DEF MayPrecede, Cmd
  <2>3. \A p \in Parts : h = Cmd("make", p) => part[Target][p] = Absent /\ p \notin file.parts
    <3> SUFFICES ASSUME NEW p \in Parts, h = Cmd("make", p)
                 PROVE  part[Target][p] = Absent /\ p \notin file.parts
      OBVIOUS
    <3>1. part[Target][p] = Absent
      BY <1>3, <1>7, <2>2
    <3>2. What = p
      BY <2>1 DEF Cmd
    <3> QED
      BY <2>1, <3>1, <3>2 DEF CanMake, HasPart
  <2>4. data # "absent" \/ h = Cmd("make", "root")
    <3>1. CASE h = Cmd("make", "data")
      BY <2>1, <3>1 DEF CanMake, HasData, Cmd
    <3>2. CASE h = Cmd("make", "kernel")
      BY <1>3, <1>7, <2>3, <3>2 DEF Parts
    <3> QED
      BY <1>4, <2>1, <3>1, <3>2 DEF Parts, Cmd
  <2>5. h = Cmd("make", "root") => RootLost'
    BY <1>1, <1>8, <1>14, <2>3 DEF RootLost, Parts
  <2>6. data # "reset" \/ ~OnUbi \/ h = Cmd("make", "root")
    <3>1. CASE h = Cmd("make", "data")
      <4>1. Cmd("remove", "data") \notin Left
        BY <2>2, <3>1
      <4> QED
        BY <1>7, <4>1
    <3>2. CASE h = Cmd("make", "kernel")
      BY <1>3, <1>7, <2>3, <3>2 DEF Parts
    <3> QED
      BY <1>4, <2>1, <3>1, <3>2 DEF Parts, Cmd
  <2> QED
    BY <1>14, <2>4, <2>5, <2>6
<1> QED
  BY <1>3, <1>12, <1>13, <1>14

\* An installation goes on: the volume is there before the configuration is
\* restored to it, after everything that writes over it.
LEMMA CommandInstallsData ==
  ASSUME TypeOK, TypeOK', ~hurt', RunCommand, Quiet, Base, phase = "install"
  PROVE  InstallsData'
<1> DEFINE h == Head(todo)
<1>1. /\ UNCHANGED <<dev, booted, file, backup, said, phase>> /\ todo # <<>>
      /\ h = Cmd(h[1], h[2])
  BY CommandDoes DEF UpgradeSame
<1>2. InstallsData /\ InOrder(todo)
  BY DEF Quiet
<1>3. /\ h \in Left /\ Left' \subseteq Left
      /\ \/ todo' = todo /\ Left' = Left /\ h[1] = "write"
         \/ Left' = Left \ {h} /\ \A d \in Left' : MayPrecede(h, d)
         \/ todo' = <<>> /\ Left' = {} /\ data' = data /\ part' = part
            /\ ((h[1] = "make" /\ ~CanMake) \/ (h[1] = "format" /\ Mounted))
      /\ Left' = {} => todo' = <<>>
  BY <1>2, ScriptAfter
<1>4. UNCHANGED UbifsRoot
  BY <1>1 DEF OnUbi, UbifsRoot
<1>5. InstallsData' \/ (~UbifsRoot /\ ~dev.dual)
  BY <1>1, <1>4 DEF InstallsData
<1> SUFFICES ASSUME ~UbifsRoot, ~dev.dual PROVE InstallsData'
  BY <1>5
<1>6. /\ data # "absent" \/ Cmd("write", "all") \in Left \/ RootLost
      /\ \/ data # "reset" \/ RootLost
         \/ Cmd("write", "all") \in Left \/ Cmd("format", "data") \in Left
      /\ backup /\ "root" \in file.parts => Cmd("restore", "data") \in Left
  BY <1>1, <1>2 DEF InstallsData
<1>7. \/ h \in {Cmd("write", "kernel"), Cmd("write", "root"), Cmd("format", "data"),
                Cmd("restore", "data")}
      \/ h = Cmd("write", "all") /\ file.type = "ubi"
  BY <1>3 DEF Base, InstallCommands
<1>8. /\ \/ todo' = todo /\ Left' = Left /\ h[1] = "write"
         \/ Left' = Left \ {h} /\ \A d \in Left' : MayPrecede(h, d)
  BY <1>3, <1>7 DEF Mounted, Cmd
<1>9. /\ h = Cmd("write", "all") /\ todo' # todo => data' = "empty"
      /\ h \in {Cmd("write", "kernel"), Cmd("write", "root")} => data' \in {data, "empty"}
      /\ h = Cmd("format", "data") => data' = "empty"
      /\ h = Cmd("restore", "data") =>
           data' = IF backup /\ data \in {"user", "empty", "saved"} THEN "saved" ELSE data
  BY <1>7, DataDoes DEF Cmd, Mounted
<1>10. RootLost => RootLost'
  <2> SUFFICES ASSUME RootLost PROVE RootLost'
    OBVIOUS
  <2>1. "root" \in Parts /\ "root" \notin file.parts /\ file.type = "tar"
    BY DEF RootLost, Parts
  <2>2. writing => What = "all" \/ What \in file.parts \/ file.type = "ubifs"
    BY DEF Quiet
  <2>3. \/ h[2] \notin {"root", "all"}
        \/ h = Cmd("write", "root") /\ "root" \notin file.parts /\ file.type # "ubifs"
        => part'[Target]["root"] = part[Target]["root"]
    BY <2>1, <2>2, PartsDo
  <2>4. part'[Target]["root"] = part[Target]["root"]
    BY <1>7, <2>1, <2>3 DEF Cmd
  <2> QED
    BY <1>1, <2>4 DEF RootLost, Target
<1>11. data' # "absent" \/ Cmd("write", "all") \in Left' \/ RootLost'
  <2>1. CASE h = Cmd("write", "all")
    <3>1. CASE todo' = todo
      <4>1. Left' = Left
        BY <3>1 DEF Left, Items
      <4> QED
        BY <1>3, <2>1, <4>1
    <3>2. CASE todo' # todo
      BY <1>9, <2>1, <3>2
    <3> QED
      BY <3>1, <3>2
  <2>2. CASE h # Cmd("write", "all")
    <3>1. Cmd("write", "all") \in Left => Cmd("write", "all") \in Left'
      BY <1>8, <2>2
    <3>2. data # "absent" => data' # "absent"
      BY <1>7, <1>9, <2>2
    <3> QED
      BY <1>6, <1>10, <3>1, <3>2
  <2> QED
    BY <2>1, <2>2
<1>12. \/ data' # "reset" \/ RootLost'
       \/ Cmd("write", "all") \in Left' \/ Cmd("format", "data") \in Left'
  <2>1. CASE h = Cmd("write", "all")
    <3>1. CASE todo' = todo
      <4>1. Left' = Left
        BY <3>1 DEF Left, Items
      <4> QED
        BY <1>3, <2>1, <4>1
    <3>2. CASE todo' # todo
      BY <1>9, <2>1, <3>2
    <3> QED
      BY <3>1, <3>2
  <2>2. CASE h = Cmd("format", "data")
    BY <1>9, <2>2
  <2>3. CASE h \notin {Cmd("write", "all"), Cmd("format", "data")}
    <3>1. /\ Cmd("write", "all") \in Left => Cmd("write", "all") \in Left'
          /\ Cmd("format", "data") \in Left => Cmd("format", "data") \in Left'
      BY <1>8, <2>3
    <3>2. data # "reset" => data' # "reset"
      BY <1>7, <1>9, <2>3
    <3> QED
      BY <1>6, <1>10, <3>1, <3>2
  <2> QED
    BY <2>1, <2>2, <2>3
<1>13. ASSUME backup, "root" \in file.parts
       PROVE  Cmd("restore", "data") \in Left' \/ (todo' = <<>> /\ data' = "saved")
  <2>1. CASE h = Cmd("restore", "data")
    <3>1. h[1] # "write"
      BY <2>1 DEF Cmd
    <3>2. Left' = Left \ {h} /\ \A d \in Left' : MayPrecede(h, d)
      BY <1>8, <3>1
    <3>3. Left' = {}
      BY <2>1, <3>2 DEF MayPrecede
    <3>4. Cmd("write", "all") \notin Left /\ Cmd("format", "data") \notin Left
      BY <2>1, <3>2, <3>3 DEF Cmd
    <3>5. data \in {"user", "empty", "saved"}
      BY <1>6, <1>13, <3>4 DEF RootLost, TypeOK, DataStates
    <3> QED
      BY <1>3, <1>9, <1>13, <2>1, <3>3, <3>5
  <2>2. CASE h # Cmd("restore", "data")
    BY <1>6, <1>8, <1>13, <2>2
  <2> QED
    BY <2>1, <2>2
<1> QED
  BY <1>1, <1>4, <1>11, <1>12, <1>13 DEF InstallsData

\* A reset to default goes on.
LEMMA CommandStartsData ==
  ASSUME TypeOK, TypeOK', ~hurt', RunCommand, Quiet, Base, phase = "init"
  PROVE  StartsData'
<1> DEFINE h == Head(todo)
<1>1. UNCHANGED <<dev, file>> /\ todo # <<>>
  BY CommandDoes DEF UpgradeSame
<1>2. StartsData /\ InOrder(todo)
  BY DEF Quiet
<1>3. /\ h \in Left /\ Left' \subseteq Left
      /\ \/ todo' = todo /\ Left' = Left /\ h[1] = "write"
         \/ Left' = Left \ {h} /\ \A d \in Left' : MayPrecede(h, d)
         \/ todo' = <<>> /\ Left' = {} /\ data' = data /\ part' = part
            /\ ((h[1] = "make" /\ ~CanMake) \/ (h[1] = "format" /\ Mounted))
      /\ Left' = {} => todo' = <<>>
  BY <1>2, ScriptAfter
<1>4. h \in {Cmd("format", "data"), Cmd("remove", "data"), Cmd("make", "data")}
  BY <1>3, CommandIs
<1>5. ~Mounted
  BY DEF Mounted
<1>6. /\ h = Cmd("make", "data") => data' # "absent"
      /\ h = Cmd("format", "data") => data' \in {data, "empty"}
  BY <1>4, DataDoes DEF Cmd
<1>7. UNCHANGED UbifsRoot
  BY <1>1 DEF OnUbi, UbifsRoot
<1>8. \/ Left' = Left \ {h} /\ \A d \in Left' : MayPrecede(h, d)
      \/ Left' = {} /\ data' # "absent"
  <2>1. CASE Left' = {} /\ data' = data /\ h[1] = "make" /\ ~CanMake
    <3>1. What = "data"
      BY <1>4, <2>1 DEF Cmd, What
    <3> QED
      BY <2>1, <3>1 DEF CanMake, HasData
  <2> QED
    BY <1>3, <1>4, <1>5, <2>1 DEF Cmd
<1>9. CASE Left' = Left \ {h} /\ \A d \in Left' : MayPrecede(h, d)
  <2>1. Cmd("remove", "data") \in Left' => h = Cmd("format", "data")
    <3>1. Cmd("remove", "data") \in Left' => MayPrecede(h, Cmd("remove", "data"))
      BY <1>9
    <3> HIDE DEF h
    <3> QED
      BY <1>4, <3>1 DEF MayPrecede, Cmd
  <2>2. Cmd("remove", "data") \in Left' => data' # "absent" /\ Cmd("make", "data") \in Left'
    <3>1. Cmd("format", "data") # Cmd("make", "data")
      BY DEF Cmd
    <3> QED
      BY <1>2, <1>6, <1>9, <2>1, <3>1 DEF StartsData
  <2>3. data' # "absent" \/ Cmd("make", "data") \in Left' \/ UbifsRoot
    <3>1. Cmd("remove", "data") # Cmd("make", "data")
          /\ Cmd("format", "data") # Cmd("make", "data")
      BY DEF Cmd
    <3> QED
      BY <1>2, <1>3, <1>4, <1>6, <1>9, <3>1 DEF StartsData, Settled, HasData
  <2> QED
    BY <1>7, <2>2, <2>3 DEF StartsData, Settled, HasData
<1>10. CASE Left' = {} /\ data' # "absent"
  BY <1>10 DEF StartsData, Settled, HasData
<1> QED
  BY <1>8, <1>9, <1>10

\* A command leaves everything quiet.
LEMMA CommandStaysQuiet ==
  ASSUME TypeOK, TypeOK', ~hurt', RunCommand, Quiet, Base, Base'
  PROVE  Quiet'
<1>1. phase' = phase
  BY CommandDoes
<1> QED
  BY <1>1, CommandPreparesData, CommandInstallsData, CommandStartsData, CommandQuiet

-----------------------------------------------------------------------------
(* The other steps, and the invariant.                                     *)

\* The start of an upgrade, on a system that is there with its overlay, is quiet:
\* whatever went wrong before.
LEMMA OfferQuiet ==
  ASSUME TypeOK, TypeOK', Base, Base', Settled, dev' = dev, OnUbi' = OnUbi,
         NEW f \in Files, NEW b \in BOOLEAN, Offer(f, b)
  PROVE  Quiet'
<1>1. /\ UNCHANGED <<part, data, current, booted, writing>>
      /\ phase = "up" /\ phase' = "prepare" /\ todo' = Prepare(f)
      /\ file' = f /\ said' = FALSE
  BY DEF Offer, FlashSame
<1>2. todo' = Prepare(file)'
  BY <1>1 DEF Prepare, PrepareDual, PrepareSingle, HasKernel, OnUbi, HasPart, HasData, Target
<1>3. (/\ TypeOK /\ todo = Prepare(file) /\ (dev.dual \/ ~OnUbi => file.type = "tar")
       /\ ~OnUbi => HasData
       => /\ InOrder(todo) /\ Left \subseteq PrepareCommands /\ PreparesData
          /\ dev.dual /\ Cmd("make", "data") \in Left => HasData)'
  BY PreparesStarts, PTL
<1>4. InOrder(todo') /\ PreparesData'
  BY <1>2, <1>3 DEF Base
<1>5. ~writing'
  BY <1>1 DEF TypeOK
<1>6. dev.dual => data \in {"user", "reset", "saved"}
  BY <1>1 DEF Base, Settled, UbifsRoot, HasData, TypeOK, DataStates
<1> QED
  BY <1>1, <1>4, <1>5, <1>6 DEF Quiet

\* So is the end of a boot that found, or made, the overlay.
LEMMA EndInitQuiet ==
  ASSUME TypeOK, TypeOK', Base, Settled, dev' = dev, OnUbi' = OnUbi, EndInit
  PROVE  Quiet'
<1>1. /\ UNCHANGED <<file, todo, said, writing>> /\ phase = "init" /\ phase' = "up"
      /\ todo = <<>> /\ data' = IF data = "empty" THEN "user" ELSE data
  BY DEF EndInit, UpgradeSame, EnvSame
<1>2. InOrder(todo') /\ ~writing' /\ ~said'
  BY <1>1, NoItems DEF TypeOK, Base
<1>3. Settled'
  BY <1>1 DEF Settled, HasData, UbifsRoot
<1>4. dev.dual => data' \in {"user", "reset", "saved"}
  BY <1>1 DEF Settled, UbifsRoot, HasData, TypeOK, DataStates
<1> QED
  BY <1>1, <1>2, <1>3, <1>4 DEF Quiet

\* What the user, a script that ends, or a boot does leaves everything quiet.
LEMMA PhaseStaysQuiet ==
  ASSUME TypeOK, TypeOK', Quiet, Base, Base', [Next]_vars, ~RunCommand, ~PowerCut
  PROVE  Quiet'
<1>0. dev' = dev /\ OnUbi' = OnUbi
  BY DeviceStays
<1>1. todo = <<>> => ~writing /\ Left = {}
  BY NoItems DEF TypeOK, Left
<1>2. phase \notin {"init", "prepare", "install"} => todo = <<>>
  BY DEF TypeOK
<1>3. todo' = <<>> => InOrder(todo') /\ ~writing'
  BY NoItems DEF TypeOK
<1>4. ASSUME NEW f \in Files, NEW b \in BOOLEAN, Offer(f, b) PROVE Quiet'
  <2>1. Settled
    BY <1>4 DEF Offer, Quiet
  <2> QED
    BY <1>0, <1>4, <2>1, OfferQuiet
<1>5. CASE EndPrepare
  <2>1. /\ UNCHANGED <<part, data, current, booted, writing, file, backup, said>>
        /\ phase = "prepare" /\ phase' = "install" /\ todo' = Install(file) /\ todo = <<>>
    BY <1>5 DEF EndPrepare, FlashSame
  <2>2. todo' = Install(file)'
    BY <1>0, <2>1 DEF Install, InstallTar, WriteAndSwitch, Afterwards
  <2>3. Prepared
    <3> SUFFICES ASSUME ~dev.dual, ~UbifsRoot, file.type # "ubi"
                 PROVE  RootLost \/ (data # "absent" /\ (data # "reset" \/ ~OnUbi))
      BY DEF Prepared
    <3>1. file.type = "tar"
      BY DEF TypeOK, File, UbifsRoot, Base
    <3> QED
      BY <1>1, <2>1, <3>1 DEF Quiet, PreparesData
  <2>4. Prepared'
    BY <1>0, <2>1, <2>3 DEF Prepared, RootLost, Target, UbifsRoot
  <2>5. (/\ TypeOK /\ todo = Install(file) /\ (dev.dual \/ ~OnUbi => file.type = "tar")
         => /\ InOrder(todo) /\ Left \subseteq InstallCommands
            /\ Prepared => InstallsData)'
    BY InstallsStarts, PTL
  <2>6. InOrder(todo') /\ InstallsData'
    BY <2>2, <2>4, <2>5 DEF Base
  <2>7. ~said'
    BY <2>1 DEF Base
  <2> QED
    BY <1>0, <1>1, <2>1, <2>6, <2>7 DEF Quiet
<1>6. CASE EndInstall
  <2>1. /\ UNCHANGED <<part, data, current, booted, file, backup, todo>>
        /\ phase = "install" /\ todo = <<>> /\ phase' \in {"up", "off"}
        /\ ~dev.dual => phase' = "off"
    BY <1>6 DEF EndInstall, FlashSame
  <2>2. UNCHANGED <<UbifsRoot, Settled, RootLost>>
    BY <1>0, <2>1 DEF UbifsRoot, Settled, HasData, RootLost, Target
  <2>3. ~dev.dual /\ ~UbifsRoot =>
          /\ data # "absent" \/ RootLost
          /\ backup /\ "root" \in file.parts => data = "saved"
    BY <1>1, <2>1 DEF Quiet, InstallsData
  <2>4. dev.dual => data \in {"user", "reset", "saved"}
    BY <2>1 DEF Quiet
  <2>5. Settled \/ RootLost
    BY <2>3, <2>4 DEF Settled, HasData
  <2>6. dev.dual => Settled
    BY <2>4 DEF Settled, HasData
  <2> QED
    BY <1>0, <1>3, <2>1, <2>2, <2>3, <2>4, <2>5, <2>6 DEF Quiet
<1>7. CASE Configure
  <2>1. /\ UNCHANGED <<current, booted, said, phase, todo, file>>
        /\ phase = "up" /\ data' \in {"user", "reset"}
    BY <1>7 DEF Configure, UpgradeSame, EnvSame
  <2>2. Settled' /\ ~(said /\ ~dev.dual)
    BY <2>1 DEF Settled, HasData, Base
  <2> QED
    BY <1>0, <1>2, <1>3, <2>1, <2>2 DEF Quiet
<1>8. CASE Reboot
  <2>1. /\ UNCHANGED <<part, data, current, booted, todo, file>>
        /\ phase = "up" /\ phase' = "off" /\ said' = FALSE
    BY <1>8 DEF Reboot, FlashSame
  <2>2. UNCHANGED Settled
    BY <1>0, <2>1 DEF UbifsRoot, Settled, HasData
  <2> QED
    BY <1>0, <1>2, <1>3, <2>1, <2>2 DEF Quiet
<1>9. CASE Boot
  <2>1. /\ UNCHANGED <<part, data, current, writing, file>>
        /\ phase = "off" /\ phase' = "init" /\ said' = FALSE
        /\ Loads(Choice) /\ booted' = Choice /\ todo' = Reset
    BY <1>9 DEF Boot
  <2>2. ~dev.dual => Choice = current /\ current = booted
    BY DEF Choice, Base
  <2>3. ~RootLost
    BY <2>1, <2>2 DEF RootLost, Target, Loads, Whole, Absent
  <2>4. Settled'
    BY <1>0, <2>1, <2>3 DEF Quiet, Settled, HasData, UbifsRoot
  <2>5. todo' = Reset'
    BY <1>0, <2>1 DEF Reset
  <2>6. (TypeOK /\ todo = Reset
         => /\ InOrder(todo) /\ Left \subseteq StartCommands
            /\ Settled => StartsData)'
    BY StartsStarts, PTL
  <2>7. InOrder(todo') /\ StartsData'
    BY <2>4, <2>5, <2>6
  <2> QED
    BY <1>0, <1>1, <1>2, <2>1, <2>7 DEF Quiet
<1>10. CASE EndInit
  <2>1. Settled
    BY <1>1, <1>10 DEF EndInit, Quiet, StartsData
  <2> QED
    BY <1>0, <1>10, <2>1, EndInitQuiet
<1>11. CASE UNCHANGED vars
  <2>1. UNCHANGED <<part, data, current, booted, todo, file, said, phase, writing, backup>>
    BY <1>11 DEF vars
  <2>2. UNCHANGED <<UbifsRoot, Settled, RootLost, Left, What>>
    BY <1>0, <2>1 DEF UbifsRoot, Settled, HasData, RootLost, Target, Left, Items, What
  <2>3. UNCHANGED <<PreparesData, InstallsData, StartsData>>
    BY <1>0, <2>1, <2>2 DEF PreparesData, InstallsData, StartsData, Target
  <2> QED
    BY <1>0, <2>1, <2>2, <2>3 DEF Quiet
<1> QED
  BY <1>4, <1>5, <1>6, <1>7, <1>8, <1>9, <1>10, <1>11 DEF Next

\* The invariant holds at the start,
LEMMA InitDInv == Init => DInv
<1> SUFFICES ASSUME Init PROVE DInv
  OBVIOUS
<1>1. InOrder(todo)
  BY NoItems DEF Init
<1>2. phase = "up" /\ data = "user" /\ ~said /\ ~writing /\ file.type = "tar"
      /\ current = booted
  BY DEF Init
<1> QED
  BY <1>1, <1>2 DEF DInv, Base, Quiet, Settled, HasData

\* is kept by each step,
LEMMA NextDInv == Inv /\ Inv' /\ DInv /\ [Next]_vars => DInv'
<1> SUFFICES ASSUME Inv, Inv', DInv, [Next]_vars PROVE DInv'
  OBVIOUS
<1>1. TypeOK /\ TypeOK' /\ Base /\ (~hurt => Quiet)
  BY DEF Inv, DInv
<1>2. Base'
  BY <1>1, CommandBase, PhaseBase
<1>3. ASSUME ~hurt' PROVE Quiet'
  <2>1. /\ ~PowerCut
        /\ \/ ~hurt
           \/ Settled /\ (EndInit \/ \E f \in Files, b \in BOOLEAN : Offer(f, b))
    BY <1>3, HurtKept
  <2>2. dev' = dev /\ OnUbi' = OnUbi
    BY DeviceStays
  <2>3. CASE ~hurt /\ RunCommand
    BY <1>1, <1>2, <1>3, <2>3, CommandStaysQuiet
  <2>4. CASE ~hurt /\ ~RunCommand
    BY <1>1, <1>2, <2>1, <2>4, PhaseStaysQuiet
  <2>5. CASE Settled /\ EndInit
    BY <1>1, <2>2, <2>5, EndInitQuiet
  <2>6. CASE Settled /\ \E f \in Files, b \in BOOLEAN : Offer(f, b)
    BY <1>1, <1>2, <2>2, <2>6, OfferQuiet
  <2> QED
    BY <2>1, <2>3, <2>4, <2>5, <2>6
<1> QED
  BY <1>2, <1>3 DEF DInv

\* and so always holds.
LEMMA AlwaysDInv == Spec => [](Inv /\ DInv)
BY InitInv, NextInv, InitDInv, NextDInv, PTL DEF Spec

-----------------------------------------------------------------------------

(* A system that is up without a volume to write its configuration to has a UBIFS
   root, or a command has failed or the power has gone since it last had one: what
   the scripts remove (nand_upgrade_prepare_ubi, the reset to default of
   init_readonlyfs.sh) they make again, or the device does not boot, whatever
   earlier failures and power cuts have left behind.                         *)
THEOREM DataAlwaysThere == Spec => []DataThere
<1>1. DInv => DataThere
  BY DEF DInv, Quiet, DataThere
<1> QED
  BY <1>1, AlwaysDInv, PTL

(* A configuration that the user wanted to keep is there when an upgrade in which no
   command failed has said that it was successful: with one slot it was restored
   (nand_restore_config, mmc_restore_config), after everything that writes over it
   and to a volume that no reset to default is pending on; with two it was not
   touched.                                                                   *)
THEOREM ConfigAlwaysKept == Spec => []ConfigKept
<1>1. Inv /\ DInv => ConfigKept
  <2> SUFFICES ASSUME TypeOK, DInv, ~hurt, said, ~UbifsRoot
               PROVE  IF dev.dual THEN data \in {"user", "reset", "saved"}
                      ELSE backup /\ "root" \in file.parts => data = "saved"
    BY DEF Inv, ConfigKept
  <2>1. Quiet /\ phase # "init"
    BY DEF DInv, Base
  <2>2. CASE ~dev.dual
    BY <2>1, <2>2 DEF Quiet
  <2>3. CASE dev.dual
    BY <2>1, <2>3 DEF Quiet
  <2> QED
    BY <2>2, <2>3
<1> QED
  BY <1>1, AlwaysDInv, PTL
=============================================================================
