----------------------------- MODULE FwUpgrade ------------------------------
(***************************************************************************)
(* The firmware upgrade (recipes-devtools/fw-upgrade: sysupgrade,          *)
(* do_stage2, platform.sh, nand.sh, mmc.sh) and what the next boot makes   *)
(* of it (initrd/files/init_readonlyfs*.sh).                               *)
(*                                                                         *)
(* The upgrade is a shell script: one action is one command that touches   *)
(* the flash, or the start and the end of one that takes long.  Each may   *)
(* fail, the power may go before or in the middle of each.  The script     *)
(* still to be run is a sequence of commands, todo; a `return 1` drops the *)
(* rest of it.                                                             *)
(*                                                                         *)
(* On UBI (nand) a part of the system is a volume, which is removed,       *)
(* created and written; on MMC it is a partition, which is only written.   *)
(* With dual boot there are two slots, the boot loader passes the one that *)
(* is not running to the kernel (boot_param: upgrade_image_slot), and the  *)
(* upgrade goes there.  Without it the running system is replaced.         *)
(***************************************************************************)
EXTENDS Integers, Sequences

CONSTANTS
  Devices,      \* the kinds of device: see Device
  Files,        \* the kinds of file a user may pass: see File
  MaxUpgrades,  \* bound on the upgrades
  MaxFails,     \* bound on the commands that fail
  MaxCuts       \* bound on the power cuts

Parts == {"kernel", "root"}
Slots == {0, 1}

(* storage: UBI volumes or MMC partitions; dual: the boot parameter dual_boot;
   reserve: reserve_rootfs_data; kernelMtd: (NAND, single boot) the kernel has
   an MTD partition of its own.                                             *)
Device == [storage : {"nand", "mmc"}, dual : BOOLEAN, reserve : BOOLEAN,
           kernelMtd : BOOLEAN]

(* A tar with some of the parts, or an image of the whole UBI device or of a
   UBIFS root.  An archive that is none has no parts.  ubifs: the root in it is a
   UBIFS, which can be written to and needs no rootfs_data.                 *)
File == {f \in [type : {"tar", "ubi", "ubifs"}, parts : SUBSET Parts, ubifs : BOOLEAN] :
          /\ f.type = "ubi" => f.parts = Parts /\ ~f.ubifs
          /\ f.type = "ubifs" => f.ubifs
          /\ f.ubifs => "root" \in f.parts}

ASSUME UpgradeAssumption ==
  /\ Devices \subseteq Device /\ Files \subseteq File
  /\ MaxUpgrades \in Nat /\ MaxFails \in Nat /\ MaxCuts \in Nat

\* the content of a part, where it is not the number of the image it is from
Absent == -1  \* no such volume
Empty == -2   \* created and not written
Torn == -3    \* written in part

VARIABLES
  dev,      \* the device
  part,     \* content of each part of each slot
  data,     \* rootfs_data: see DataStates
  current,  \* environment: dual_boot.current_slot
  invalid,  \* environment: the slots whose dual_boot.slot_N_invalid is set
  booted,   \* the slot that runs, or ran last
  phase,    \* "off", "init" (the init script), "up", "prepare", "install"
  todo,     \* the commands still to be run
  writing,  \* the first of them is a write, under way
  image,    \* number of the image offered last
  file,     \* what was offered
  alone,    \* history: the images that do not hold both parts
  hasty,    \* history: an upgrade was started while a reboot was pending
  backup,   \* there is a saved configuration to restore
  said,     \* "sysupgrade successful" was said since the last boot
  hurt,     \* history: a command failed or the power went, since the system was last
            \* there with its overlay
  fails,    \* commands that may still fail
  cuts      \* power cuts still to come

vars == <<dev, part, data, current, invalid, booted, phase, todo, writing,
          image, file, alone, hasty, backup, said, hurt, fails, cuts>>

\* of the user, to be reset at the next boot (upper/reset-default), without
\* anything of the user, with the restored configuration, or no such volume
DataStates == {"user", "reset", "empty", "saved", "absent"}

-----------------------------------------------------------------------------
(* The parts of a system, and the boot loader.                             *)

\* MISTAKE: the running slot is upgraded (boot_kernel_part, boot_rootfs_part)
TargetBooted == booted
\* the slot an upgrade writes: upgrade_image_slot, or the only one there is
Target == IF dev.dual THEN 1 - booted ELSE booted

\* both parts are written to the end, and belong together
Whole(s) ==
  LET k == part[s]["kernel"]
      r == part[s]["root"]
  IN k >= 0 /\ r >= 0 /\ (k < r => r \in alone) /\ (r < k => k \in alone)

(* The boot loader is not part of the repository.  It reads the environment
   that the scripts write, checks the image it loads, marks a slot it could not
   load, and falls back to the other.                                       *)
Loads(s) == s \notin invalid /\ Whole(s)
Choice == IF Loads(current) \/ ~dev.dual THEN current ELSE 1 - current

-----------------------------------------------------------------------------
(* The scripts: which commands an upgrade consists of.                     *)

Cmd(op, what) == <<op, what>>
Command == {"detach", "ubiblock", "remove", "make", "write", "setenv", "format",
            "restore"} \X {"kernel", "root", "data", "all", "current", "valid"}

OnUbi == dev.storage = "nand"

\* `[ "$kern_ubivol" ] && ubirmvol`: the volumes found at the start are removed
Remove(what, there) == IF there THEN <<Cmd("remove", what)>> ELSE <<>>
HasPart(p) == part[Target][p] # Absent
HasData == data # "absent"
\* the volume of the overlay is there, or was not to be made
UbifsRoot == OnUbi /\ ~dev.dual /\ file.ubifs
Settled == HasData \/ UbifsRoot

\* dual_boot_upgrade_prepare_ubi
PrepareDual ==
  <<Cmd("ubiblock", "root")>> \o Remove("kernel", HasPart("kernel"))
    \o Remove("root", HasPart("root"))
    \o <<Cmd("make", "kernel"), Cmd("make", "root")>>
    \o IF ~dev.reserve /\ HasData
         THEN <<Cmd("remove", "data"), Cmd("make", "data")>> ELSE <<>>

\* nand_upgrade_prepare_ubi, for a tar or a UBIFS image; before it, the kernel
\* of a tar is written to its MTD partition if there is one
HasKernel(f) == f.type = "tar" /\ "kernel" \in f.parts /\ ~dev.kernelMtd
PrepareSingle(f) ==
  (IF f.type = "tar" /\ dev.kernelMtd THEN <<Cmd("write", "kernel")>> ELSE <<>>)
    \o <<Cmd("ubiblock", "root")>>
    \o Remove("kernel", HasPart("kernel") /\ ~dev.kernelMtd)
    \o Remove("root", HasPart("root")) \o Remove("data", HasData)
    \o (IF HasKernel(f) THEN <<Cmd("make", "kernel")>> ELSE <<>>)
    \o <<Cmd("make", "root")>>
    \o (IF f.ubifs THEN <<>> ELSE <<Cmd("make", "data")>>)

Prepare(f) ==
  IF ~OnUbi THEN IF dev.dual THEN <<>> ELSE <<Cmd("detach", "all")>>
  ELSE IF f.type = "ubi" THEN <<>>
  ELSE IF dev.dual THEN PrepareDual ELSE PrepareSingle(f)

\* MISTAKE: the slot is switched before its parts are written
WriteAndSwitchEarly ==
  <<Cmd("setenv", "current"), Cmd("setenv", "valid"),
    Cmd("write", "kernel"), Cmd("write", "root")>>
\* the end of ubi_dual_boot_upgrade_tar; mtk_mmc_do_upgrade_dual_boot
WriteAndSwitch ==
  <<Cmd("write", "kernel"), Cmd("write", "root"),
    Cmd("setenv", "current"), Cmd("setenv", "valid")>>

InstallTar ==
  IF dev.dual THEN WriteAndSwitch
  ELSE IF OnUbi /\ dev.kernelMtd THEN <<Cmd("write", "root")>>
  ELSE <<Cmd("write", "kernel"), Cmd("write", "root")>>

\* MISTAKE: the configuration is restored before rootfs_data is formatted
AfterwardsRestoreFirst ==
  IF dev.dual /\ dev.reserve THEN <<>>
  ELSE <<Cmd("restore", "data")>>
         \o IF OnUbi THEN <<>> ELSE <<Cmd("format", "data")>>
\* nand_do_upgrade_success, or the format of rootfs_data on MMC; nothing when
\* rootfs_data is reserved
Afterwards ==
  IF dev.dual /\ dev.reserve THEN <<>>
  ELSE (IF OnUbi THEN <<>> ELSE <<Cmd("format", "data")>>)
         \o <<Cmd("restore", "data")>>

Install(f) ==
  (IF f.type = "ubi" THEN <<Cmd("write", "all")>>
   ELSE IF f.type = "ubifs" THEN <<Cmd("write", "root")>>
   ELSE InstallTar) \o Afterwards

-----------------------------------------------------------------------------
(* Running the commands.                                                   *)

trouble == <<hurt, fails>>

Running(op) == todo # <<>> /\ ~writing /\ Head(todo)[1] = op
What == Head(todo)[2]
Proceed == todo' = Tail(todo)
GiveUp == todo' = <<>>

\* a command fails for a reason of its own, or because it has to
FailsUnless(possible) ==
  IF possible THEN fails > 0 /\ fails' = fails - 1 /\ hurt' = TRUE
  ELSE UNCHANGED trouble

\* init_readonlyfs*.sh mounted rootfs_data on /overlay, and with dual boot the
\* upgrade does not switch to ramfs: it cannot be removed or formatted
Mounted == dev.dual /\ phase # "init"

SetParts(ps, content) ==
  part' = [part EXCEPT ![Target] =
             [p \in Parts |-> IF p \in ps THEN content ELSE @[p]]]

UpgradeSame ==
  UNCHANGED <<dev, booted, image, file, alone, hasty, backup, said, cuts>>
EnvSame == UNCHANGED <<current, invalid>>

\* losetup --detach-all
Detach ==
  /\ Running("detach") /\ Proceed
  /\ UpgradeSame /\ EnvSame /\ UNCHANGED <<part, data, phase, writing, trouble>>
\* reboot -f
DetachFails ==
  /\ Running("detach") /\ FailsUnless(TRUE) /\ GiveUp
  /\ phase' = "off"
  /\ UpgradeSame /\ EnvSame /\ UNCHANGED <<part, data, writing>>

\* ubiblock -r of the root volume
Unblock ==
  /\ Running("ubiblock") /\ Proceed
  /\ UpgradeSame /\ EnvSame /\ UNCHANGED <<part, data, phase, writing, trouble>>
\* return 1, which the caller ignores: on to the writes
UnblockFails ==
  /\ Running("ubiblock") /\ HasPart("root") /\ FailsUnless(TRUE) /\ GiveUp
  /\ UpgradeSame /\ EnvSame /\ UNCHANGED <<part, data, phase, writing>>

\* ubirmvol
RemoveVolume ==
  /\ Running("remove") /\ (What = "data" => ~Mounted) /\ Proceed
  /\ SetParts({What}, Absent)
  /\ data' = IF What = "data" THEN "absent" ELSE data
  /\ UpgradeSame /\ EnvSame /\ UNCHANGED <<phase, writing, trouble>>
\* || true
RemoveFails ==
  /\ Running("remove") /\ Proceed
  /\ FailsUnless(What # "data" \/ ~Mounted)
  /\ UpgradeSame /\ EnvSame /\ UNCHANGED <<part, data, phase, writing>>

\* ubimkvol needs a name that is free and a size that is not 0
CanMake ==
  \/ What = "data" /\ ~HasData
  \/ /\ What \in Parts /\ ~HasPart(What)
     /\ What \in file.parts \/ file.type = "ubifs"
MakeVolume ==
  /\ Running("make") /\ CanMake /\ Proceed
  /\ SetParts({What}, Empty)
  /\ data' = IF What = "data" THEN "empty" ELSE data
  /\ UpgradeSame /\ EnvSame /\ UNCHANGED <<phase, writing, trouble>>
\* return 1, ignored
MakeFails ==
  /\ Running("make") /\ FailsUnless(CanMake) /\ GiveUp
  /\ UpgradeSame /\ EnvSame /\ UNCHANGED <<part, data, phase, writing>>

\* a part that the file has goes to a volume or partition that there is
ToWrite ==
  \/ What = "all"
  \/ (What \in file.parts \/ file.type = "ubifs") /\ HasPart(What)
\* the UBI device does not hold a kernel that has an MTD partition
Brought(f) == f.parts \ IF f.type = "ubi" /\ dev.kernelMtd THEN {"kernel"} ELSE {}
Written == IF What = "all" THEN Brought(file) ELSE {What}

\* MISTAKE: the script does not wait for the end of the write
WriteStartBackground ==
  /\ Running("write") /\ ToWrite /\ Proceed
  /\ writing' = TRUE /\ SetParts(Written, Torn)
  /\ data' = IF What = "all" THEN "absent" ELSE data
  /\ UpgradeSame /\ EnvSame /\ UNCHANGED <<phase, trouble>>
\* ubiupdatevol, mtd write, a redirection to the partition, ubiformat -f.  On
\* MMC without a second slot rootfs_data is the rest of the root partition.
WriteStart ==
  /\ Running("write") /\ ToWrite
  /\ writing' = TRUE /\ SetParts(Written, Torn)
  /\ \/ What = "all" /\ data' = "absent"
     \/ What # "all" /\ UNCHANGED data
     \/ What = "root" /\ ~OnUbi /\ ~dev.dual /\ data' = "empty"
  /\ UpgradeSame /\ EnvSame /\ UNCHANGED <<phase, todo, trouble>>
\* nothing to write, or a failure at once: nobody looks
WriteSkips ==
  /\ Running("write") /\ Proceed /\ FailsUnless(ToWrite)
  /\ UpgradeSame /\ EnvSame /\ UNCHANGED <<part, data, phase, writing>>
WriteEnds ==
  /\ writing /\ writing' = FALSE /\ Proceed
  /\ SetParts(Written, image)
  /\ data' = IF What = "all" THEN "empty" ELSE data
  /\ UpgradeSame /\ EnvSame /\ UNCHANGED <<phase, trouble>>
\* the archive is damaged or the flash is: the part stays torn, nobody looks
WriteBreaks ==
  /\ writing /\ writing' = FALSE /\ Proceed /\ FailsUnless(TRUE)
  /\ UpgradeSame /\ EnvSame /\ UNCHANGED <<part, data, phase>>

\* fw_setenv
Setenv ==
  /\ Running("setenv") /\ Proceed
  /\ \/ What = "current" /\ current' = Target /\ UNCHANGED invalid
     \/ What = "valid" /\ invalid' = invalid \ {Target} /\ UNCHANGED current
  /\ UpgradeSame /\ UNCHANGED <<part, data, phase, writing, trouble>>
SetenvFails ==
  /\ Running("setenv") /\ Proceed /\ FailsUnless(TRUE)
  /\ UpgradeSame /\ EnvSame /\ UNCHANGED <<part, data, phase, writing>>

\* mkfs of rootfs_data (MMC)
Format ==
  /\ Running("format") /\ ~Mounted /\ Proceed
  /\ data' = "empty"
  /\ UpgradeSame /\ EnvSame /\ UNCHANGED <<part, phase, writing, trouble>>
\* return 1
FormatFails ==
  /\ Running("format") /\ FailsUnless(~Mounted) /\ GiveUp
  /\ UpgradeSame /\ EnvSame /\ UNCHANGED <<part, data, phase, writing>>

\* the saved configuration goes to the new rootfs_data (or, without one, into a
\* UBIFS root, whose files are not modelled), or to one that the next boot resets
Restore ==
  /\ Running("restore") /\ Proceed
  /\ data' = IF backup /\ data \in {"user", "empty", "saved"} THEN "saved" ELSE data
  /\ UpgradeSame /\ EnvSame /\ UNCHANGED <<part, phase, writing, trouble>>
RestoreFails ==
  /\ Running("restore") /\ backup /\ FailsUnless(TRUE) /\ Proceed
  /\ UpgradeSame /\ EnvSame /\ UNCHANGED <<part, data, phase, writing>>

RunCommand ==
  \/ Detach \/ DetachFails \/ Unblock \/ UnblockFails
  \/ RemoveVolume \/ RemoveFails \/ MakeVolume \/ MakeFails
  \/ WriteStart \/ WriteSkips \/ WriteEnds \/ WriteBreaks
  \/ Setenv \/ SetenvFails \/ Format \/ FormatFails \/ Restore \/ RestoreFails

-----------------------------------------------------------------------------
(* The upgrade as a whole, and the boots.                                  *)

FlashSame == UNCHANGED <<dev, part, data, current, invalid>>

\* platform_do_upgrade: with one slot on UBI the type of the file is looked at,
\* everywhere else it is taken for a tar.  No script calls platform_check_image.
Offer(f, b) ==
  /\ phase = "up" /\ image < MaxUpgrades
  /\ f.type # "tar" => OnUbi /\ ~dev.dual
  /\ phase' = "prepare" /\ todo' = Prepare(f)
  /\ image' = image + 1 /\ file' = f /\ backup' = b /\ said' = FALSE
  /\ hasty' = (hasty \/ said)
  /\ alone' = IF Brought(f) = Parts THEN alone ELSE alone \cup {image + 1}
  /\ hurt' = (hurt /\ ~Settled)
  /\ FlashSame /\ UNCHANGED <<booted, writing, fails, cuts>>

EndPrepare ==
  /\ phase = "prepare" /\ todo = <<>>
  /\ phase' = "install" /\ todo' = Install(file)
  /\ FlashSame
  /\ UNCHANGED <<booted, writing, image, file, alone, hasty, backup, said, trouble,
                 cuts>>

\* "sysupgrade successful" or "test fw success."; then nand_do_upgrade_success
\* or do_stage2 reboots, unless there is another slot and no reason to
EndInstall ==
  /\ phase = "install" /\ todo = <<>>
  /\ said' = TRUE
  /\ phase' = IF dev.dual /\ (~OnUbi \/ dev.reserve) THEN "up" ELSE "off"
  /\ FlashSame
  /\ UNCHANGED <<booted, todo, writing, image, file, alone, hasty, backup, trouble,
                 cuts>>

\* the system writes its configuration, or asks for a reset to default
Configure ==
  /\ phase = "up" /\ HasData
  /\ data' \in {"user", "reset"}
  /\ UpgradeSame /\ EnvSame /\ UNCHANGED <<part, phase, todo, writing, trouble>>

Reboot ==
  /\ phase = "up" /\ phase' = "off" /\ said' = FALSE
  /\ FlashSame
  /\ UNCHANGED <<booted, todo, writing, image, file, alone, hasty, backup, trouble,
                 cuts>>

PowerCut ==
  /\ phase # "off" /\ cuts > 0 /\ cuts' = cuts - 1
  /\ phase' = "off" /\ todo' = <<>> /\ writing' = FALSE /\ said' = FALSE
  /\ hurt' = TRUE
  /\ FlashSame /\ UNCHANGED <<booted, image, file, alone, hasty, backup, fails>>

\* MISTAKE: the volume is removed only
ResetRemoves ==
  IF data # "reset" THEN <<>>
  ELSE IF OnUbi THEN <<Cmd("remove", "data")>> ELSE <<Cmd("format", "data")>>
\* the boot loader, then init_readonlyfs(-emmc).sh up to a reset to default
Reset ==
  IF data # "reset" THEN <<>>
  ELSE IF OnUbi THEN <<Cmd("remove", "data"), Cmd("make", "data")>>
  ELSE <<Cmd("format", "data")>>
Boot ==
  /\ phase = "off" /\ Loads(Choice)
  /\ booted' = Choice
  /\ invalid' = IF Choice = current THEN invalid ELSE invalid \cup {current}
  /\ phase' = "init" /\ todo' = Reset /\ said' = FALSE
  /\ UNCHANGED <<dev, part, data, current, writing, image, file, alone, hasty,
                 backup, trouble, cuts>>
\* rootfs_data is mounted; the system fills it when it is new
EndInit ==
  /\ phase = "init" /\ todo = <<>>
  /\ phase' = "up"
  /\ data' = IF data = "empty" THEN "user" ELSE data
  /\ hurt' = (hurt /\ ~Settled)
  /\ UpgradeSame /\ EnvSame /\ UNCHANGED <<part, todo, writing, fails>>

-----------------------------------------------------------------------------

\* the other slot holds a system, or nothing that can be booted
Init ==
  /\ dev \in Devices
  /\ part = [s \in Slots |-> [p \in Parts |-> 0]]
  /\ data = "user"
  /\ current = 0 /\ booted = 0 /\ phase = "up"
  /\ invalid \in IF dev.dual THEN {{}, {1}} ELSE {{}}
  /\ todo = <<>> /\ writing = FALSE
  /\ image = 0 /\ file = [type |-> "tar", parts |-> Parts, ubifs |-> FALSE] /\ alone = {}
  /\ hasty = FALSE /\ backup = FALSE /\ said = FALSE /\ hurt = FALSE
  /\ fails = MaxFails /\ cuts = MaxCuts

Next ==
  \/ RunCommand
  \/ \E f \in Files, b \in BOOLEAN : Offer(f, b)
  \/ EndPrepare \/ EndInstall
  \/ Configure \/ Reboot \/ PowerCut \/ Boot \/ EndInit

Spec == Init /\ [][Next]_vars

-----------------------------------------------------------------------------

(* The type invariant of the flash, the environment and the script.        *)
TypeOK ==
  /\ dev \in Devices
  /\ part \in [Slots -> [Parts -> 0 .. MaxUpgrades \cup {Absent, Empty, Torn}]]
  /\ data \in DataStates
  /\ current \in Slots /\ invalid \subseteq Slots /\ booted \in Slots
  /\ phase \in {"off", "init", "up", "prepare", "install"}
  /\ todo \in Seq(Command) /\ writing \in BOOLEAN
  /\ writing => todo # <<>> /\ Head(todo)[1] = "write"
  /\ todo # <<>> => phase \in {"init", "prepare", "install"}
  /\ image \in 0 .. MaxUpgrades /\ file \in File /\ alone \subseteq 1 .. MaxUpgrades
  /\ hasty \in BOOLEAN /\ backup \in BOOLEAN /\ said \in BOOLEAN /\ hurt \in BOOLEAN
  /\ fails \in 0 .. MaxFails /\ cuts \in 0 .. MaxCuts

(* With two slots the device boots, whatever was offered, whichever commands
   failed without anybody looking, and whenever the power went: the slot that
   ran last is still whole and valid.                                       *)
NeverBricked == dev.dual => \E s \in Slots : Loads(s)
RanLastLoads == dev.dual => Loads(booted)

\* nothing went wrong but the power
NothingFailed == fails = MaxFails
\* complete archives, and a boot after each upgrade
Careful == alone = {} /\ ~hasty

(* The selected slot itself is whole, unless it is marked invalid: when no
   command fails and each upgrade is followed by a boot, even a boot loader
   that does not check what it loads finds a system.                        *)
SelectedWhole ==
  dev.dual /\ NothingFailed /\ Careful => current \in invalid \/ Whole(current)

(* A configuration that was to be kept is there when the upgrade says that it
   was successful, if nothing went wrong in it: with one slot it was restored, and
   with two the running system and its overlay were not touched.  (Not into a UBIFS
   root; and not with a tar without a root on a device with one slot: the failure
   to make the root volume then leaves no rootfs_data to restore it to.)    *)
ConfigKept ==
  ~hurt /\ said /\ ~UbifsRoot =>
    IF dev.dual THEN data \in {"user", "reset", "saved"}
    ELSE backup /\ "root" \in file.parts => data = "saved"

(* The system comes up without a volume for its overlay only on a UBIFS root, or
   once a command failed or the power went after it last had one: no script takes
   rootfs_data away for good, in whatever state earlier failures left the device. *)
DataThere == phase = "up" /\ ~hurt => Settled

(* nand.sh says "sysupgrade successful", mmc.sh "test fw success.": the parts
   of the file are in their slot, whole, and that is the slot to be booted.  *)
SaidIsDone ==
  said =>
    /\ \A p \in file.parts : part[Target][p] = image
    /\ Whole(Target)
    /\ dev.dual => current = Target /\ Target \notin invalid

(* The upgrade is atomic: see AtomicUpgrade.  The next boot runs the image in
   the slot that the boot loader chooses.  A second slot, complete archives and
   a boot after each upgrade are the owner's part, a working flash the device's.*)
Owner == INSTANCE AtomicUpgrade WITH
  offered <- image, system <- part[Choice]["root"],
  bound <- dev.dual /\ NothingFailed /\ Careful
ImplementsAtomicUpgrade == Owner!Spec
=============================================================================
