# A verification development for the OneWifi Filogic layers

The repository is a Yocto tree that builds RDK-B OneWifi for MediaTek Filogic
routers. Most of it is build metadata and vendored layers. The programs it holds
itself are kernel drivers, the flash tools and the update scripts; this
directory models them in TLA+, checks them with TLC and proves part of what is
checked with TLAPS.

Paths below are relative to `src/`. `NMBM/` stands for
`meta-filogic/recipes-kernel/linux/linux-mediatek-5.4/generic/files-5.4/drivers/mtd/nmbm/`,
`ETH/` for the `drivers/net/ethernet/mediatek/` of the `mediatek/files-5.4` tree
next to it, `INI/` for `meta-filogic/recipes-devtools/initrd/files/`, `FWU/` for `meta-filogic/recipes-devtools/fw-upgrade/files/`, `SYS/`
for `meta-cmf-filogic/recipes-rdkb/sysint-broadband/files/`.

## 1. Inventory

| Component | State it keeps | Operations | Interacts with |
|---|---|---|---|
| **NMBM core** `NMBM/nmbm-core.c` | states of the physical blocks, mapping of logical to physical blocks, two copies of both on flash (info tables), limits of the spare area | attach (create, load, rescue), detach, erase, read, write, mark bad | called by the MTD device under its lock; calls the lower NAND driver |
| **NMBM MTD device: lock** `NMBM/nmbm-mtd.c` | lock word, wait queue | request entry points, shutdown; the panic write, which takes no lock | threads of UBI, the MTD character device; reboot notifier; the panic handler |
| **NMBM MTD device: probe and remove** `NMBM/nmbm-mtd.c` | list of devices | probe, remove | platform bus, MTD layer |
| **Firmware upgrade** `FWU/nand.sh`, `mmc.sh`, `sysupgrade`, `platform.sh`, `do_stage2`, `INI/init_readonlyfs*.sh` | UBI volumes or MMC partitions, boot environment, slot validity | switch to ramfs, remove and create volumes, write them, switch slot, save and restore the configuration, reboot, mount or reset the overlay at boot | UBI (on top of NMBM), boot loader (reads the environment) |
| **Software update daemon** `SYS/swupdate_utility.sh` | downloaded files, reboot-pending flag | poll, compare versions, download, verify, flash | firmware upgrade, update server |
| **Ethernet hang monitor** `ETH/mtk_eth_reset.c` | error counts of the units, what each showed last | a round of nine functions each second | the hardware, reset recovery |
| **Ethernet reset recovery** `ETH/mtk_eth_reset.c`, work in `ETH/mtk_eth_soc.c` | kind of reset asked for, lock counter, number of outstanding answers, completion | requests, notifier events, reset work | Wi-Fi drivers over the netdevice notifier chain, MAC driver, hardware NAT |
| **Ethernet MAC driver** `ETH/mtk_eth_soc.c`, SGMII/USXGMII | DMA rings, interrupt mask, users of the rings, link state | open, stop, xmit, NAPI polls | network stack, phylink, reset recovery |
| **Hardware NAT** `ETH/mtk_hnat/` | flow entries in the PPE, per-interface tables | netfilter hooks, aging timer, debugfs | network stack, reset recovery |
| **SPI-NAND controller** `mediatek/files-5.4/drivers/mtd/mtk-snand/` | controller registers, page cache | read, program, erase a page or block | below NMBM |
| **Switch drivers** `drivers/net/dsa/airoha/`, `drivers/net/phy/` | switch registers | DSA operations | Ethernet driver |
| **Log upload, remote configuration** `SYS/DCMscript.sh`, `dca_utility.sh`, `uploadSTBLogs.sh`, … | marker files, cron schedule, retry counters | fetch configuration, collect, upload | each other through files in /tmp |
| **hostapd bindings** `meta-filogic/recipes-wifi/hostapd/` | ubus objects per BSS | ubus methods, notifications | hostapd (not in the tree) |
| **atenl** `meta-filogic/recipes-wifi/atenl/` | EEPROM image, test state | HQA commands | mt76 over netlink |
| **mtd**, **smp-mt76.sh**, **service scripts** | none beyond the command | command line | kernel |

What is hard about the parts that are modelled or planned, and what makes each
correct:

* **NMBM core.** Power may be cut at any flash operation; any erase or program
  may fail and cost a block, also in the middle of the procedure that handles an
  earlier failure; the tables move while they are being rescued; a panic enters
  the core while it is at any of this. It is correct when what was acknowledged
  survives (`SurvivesPanic`, `AckedReadable`), when its
  loops stay off the user's data (`TablesAvoidData`, `TablesInArea`), when no
  stale table is ever preferred (`NewestLoaded`), and when every request ends
  (`Answered`).
* **NMBM MTD device.** A hand-written sleeping lock: no lost wakeup, one request
  at a time, nothing after shutdown, nobody waits for ever.
* **Firmware upgrade.** A power cut between any two commands; commands that fail
  and whose failure nobody looks at; two environment writes that belong
  together; volumes that are found at the start and made later. Correct when a
  bootable system is left at every point (`NeverBricked`), the slot is switched
  to complete images only (`SelectedWhole`), the owner sees the old system or the
  new one (`ImplementsAtomicUpgrade`), and the configuration is kept
  (`ConfigKept`, `DataThere`).
* **Ethernet hang monitor and reset recovery.** A timer, a work item, notifier
  callbacks and debugfs share plain integers; answers race their own timeouts;
  static error counts outlive the reset. Correct when a reset waits for the
  answers it asked for, the chips are released by the event that fits what
  stopped them, a reset ends, and a hang is found and repaired, but no hang is
  found where there is none.
* **Ethernet MAC driver.** One ring is filled by every device, read by the
  hardware and reclaimed by a poll that takes no lock, while devices are opened
  and closed and the engine is reset. Correct when the count of free descriptors
  is exact, nothing that the hardware owns is touched, the ring outlives its
  users, and neither an interrupt nor the waking of a queue is lost.
* **Software update daemon.** Shell control flow (`continue` inside functions).
  Correct when only a verified image is flashed and a transient failure is
  retried. The script that flashes is not in the tree.

The full list of hazards, each at its line, is in `PROJECT.json`.

## 2. Modules

```
 LogicalDisk   <── refined by ── NmbmPanic                           MCNmbmPanic
                                     | EXTENDS
                                 NmbmSafety ── EXTENDS ──> Nmbm
                                     ^── NmbmProofs
                                 NmbmLayout ── EXTENDS ──> NmbmSafety
                                     ^── NmbmLayoutProofs
                                 NmbmData ── EXTENDS ──> NmbmLayout  MCNmbm
                                     ^── NmbmDataProofs
 OneAtATime    <── refined by ── NmbmMtd                             MCNmbmMtd
                                     ^── NmbmMtdProofs
 AtomicUpgrade <── refined by ── FwUpgrade                           MCFwUpgrade
                                     ^── FwUpgradeProofs
 EthMonitor    (who asks)            ^── EthMonitorProofs
      |
 EthReset      (the reset)           ^── EthResetProofs              MCEthReset
      |
 EthTx         (what is reset)       ^── EthTxProofs                 MCEthTx
```

The three Ethernet modules meet at `mtk_pending_work`: `EthMonitor` decides that
a reset is needed and sees it as one step, `EthReset` has the work with all its
waits and sees the network devices as one step each way, and `EthTx` has what the
work does to the devices and to the ring.

### Nmbm: `nmbm-core.c`

The chip is `cells` (content of each physical block: empty, torn, signature,
data, or an info table) and `badmark`. The fields of `struct nmbm_instance` keep
their meaning: `st` is `block_state`, `mp` is `block_mapping`, `mainBa`,
`backupBa`, `mapBa`, `topBa`, `sigBa`, `dataCount`, `protected`; `changed` is
"either change counter is not zero", the only thing the code asks of them.

One action is the code from one flash operation up to the next. That is the
grain at which a power cut or a failure can be observed: between two flash
operations only memory changes. `pc` names the place in the code. The two loops
that touch table blocks, `nmbm_write_mgmt_range` and `nmbm_erase_range`, are
called from a dozen places; they are one loop in the model, whose return place
is in `rg.ret`, and the same holds for `nmbm_update_info_table` with `uret`.

| Code | Actions |
|---|---|
| `nmbm_write_mgmt_range`, `nmbm_erase_range`, `nmbn_write_verify_data` | `RangeSkip`, `RangeErase`, `RangeEraseFails`, `RangeEnd`, `Program`, `ProgramFails` |
| `nmbm_update_info_table(_once)` | `UpdateDone`, `UpdateOnce`, `UpdateBackup`, `UpdateMain`, `UpdateMainRebuilds` |
| `nmbm_rescue_main_info_table` | `RescueMain`, `RescueMainTmp`, `RescueMainDone` |
| `nmbm_rebuild_info_table` | `StartRebuild`, `RebuildMain`, `RebuildMainFails`, `RebuildBackup`, `RebuildErased` |
| `nmbm_rescue_single_info_table`, `nmbm_update_single_info_table` | `RescueFront`, `RescueNext`, `RescueNextLoop`, `RescueNextDone`, `UpdateSingle`, `UpdateSingleFails` |
| `nmbm_attach`, `nmbm_create_new`, `nmbm_load_existing`, `nmbm_load_info_table` | `AttachNew`, `AttachLoad`, `AttachRecreate`, `AttachFails`, `LoadDone`, `Sig…`, `Create…` |
| `nmbm_erase_logic_block`, `nmbm_map_block` | `BeginErase`, `EraseOk`, `EraseFails`, `EraseRemaps`, `MapBlock`, `MapBlockNone`, `EraseUnmaps` |
| `nmbm_write_single_page`, `nmbm_write_logic_page` | `BeginWrite`, `WriteOk`, `WriteFails` |
| `nmbm_mark_bad_block`, `nmbm_read_single_page`, `nmbm_detach` | `MarkBlockBad`, `Read`, `BeginDetach`, `EndDetach` |

`PowerCut` forgets the instance; the block under the erase or program in flight
may be left torn. `Fails` is the only other nondeterminism of the chip.

Simplifications, all of them deliberate:

* An info table fills one block (true below 32768 blocks of 128 KiB). The
  loader's limit for longer tables is therefore not exercised.
* A data block is one cell: pages of a block are not told apart, and a write is
  made only to a block that was erased, as UBI does.
* Marking a failing block bad in its spare area succeeds.
* The signature is looked for on the whole chip, and `MgmtStart` is a constant:
  the geometry computed from `max_ratio` and `max_reserved_blocks` is not
  modelled.
* A chip without a signature is always created. The constant `Create` is
  NMBM_F_CREATE as the attaches of a chip *with* a signature see it: whether a
  mapping is rebuilt from nothing when no table is found.
* The byte ranges of `nmbm_read_range`/`nmbm_write_range` are not modelled.

History variables: `acked` is what the user was last told about each logical
block; `stepped` records that `nmbm_map_block` passed over a bad spare block, and
`renewed` that an attach found no table and mapped the chip anew (NMBM_F_CREATE).

`NmbmSafety` has the properties, `NmbmLayout` and `NmbmData` the inductive
invariants behind those about the layout and about the content of the chip
(section 4).

### NmbmPanic: the last words of a panic

A panic stops the other CPUs wherever they are and then writes its log with
`nmbm_mtd_panic_write`, page after page, without the device lock. So `PanicServed`
may follow any step of `Nmbm`; it drops what was under way (`CutShort`: the block
under the erase or program may be left torn) and works on the instance as it finds
it. After it nothing but its own table update and the reboot happens.

| Code | Definitions |
|---|---|
| `nmbm_mtd_panic_write`, `nmbm_panic_write_single_page` | `PanicServed`, `PanicWrite` |
| `nmbm_panic_write_logic_page`, when the page is written | `PanicWrites` |
| the same, when it fails: the block is to be remapped, and `nmbm_update_info_table` runs on the state that was left | `PanicFails`, then the steps of `Update` |

The lower `panic_write_page` may fail on any block, not only on worn ones. A panic
writes into blocks that are empty or whose content nobody relies on (`acked`), as
the log partition is.

`panic` records what the panic stopped: `"calm"` nothing that writes tables,
`"cut"` the writing of the main table, when the backup is the only one that is
whole (`MidUpdate`), `"busy"` any other writing or erasing of tables (`Stopped`). `mangled` records that a
panic write failed afterwards and its table update began in the middle of another
one: `"cut"` or `"resumed"`. Both are history: no step depends on them.

### NmbmMtd: the lock of `nmbm-mtd.c`

`state` is `nm->state`, `wq` the wait queue, `asleep` the threads in
TASK_UNINTERRUPTIBLE. Each critical section of the spinlock is one action;
`schedule()` and `remove_wait_queue()` are actions of their own, which is where
the races are. `FL_READING`, `FL_WRITING` and `FL_ERASING` are one value, the
code never tells them apart.

### FwUpgrade: the scripts of the upgrade, and the next boot

The upgrade is a shell script, so its state is the script still to be run:
`todo` is a sequence of commands, and one action runs the first of them or lets it
fail. `Prepare` and `Install` build the sequence as the scripts do, from the kind
of device (NAND or MMC, one slot or two, `reserve_rootfs_data`, kernel in an MTD
partition), the kind of file, and the volumes that are there *at that time*. A
`return 1` drops the rest of the sequence of the same function (`GiveUp`); where
the caller ignores it, the next phase follows all the same. A write has a start
and an end, and leaves a torn part if it does not come to its end.

| Code | Definitions |
|---|---|
| `platform_do_upgrade`, `nand_do_upgrade`, `mtk_mmc_do_upgrade` | `Offer`, `EndPrepare`, `EndInstall` |
| `dual_boot_upgrade_prepare_ubi`, `nand_upgrade_prepare_ubi` | `PrepareDual`, `PrepareSingle` |
| `ubi_dual_boot_upgrade_tar`, `mtk_mmc_do_upgrade_dual_boot`, the single-slot ones | `WriteAndSwitch`, `InstallTar`, `Afterwards` |
| `losetup`, `ubiblock`, `ubirmvol`, `ubimkvol`, `ubiupdatevol`, `mtd write`, `fw_setenv`, `mkfs`, restoring the saved configuration | `Detach`, `Unblock`, `RemoveVolume`, `MakeVolume`, `WriteStart`, `WriteEnds`, `Setenv`, `Format`, `Restore`, each with what it does when it fails |
| `init_readonlyfs.sh`, `init_readonlyfs-emmc.sh` | `Boot`, `Reset`, `EndInit` |

The boot loader is external: it is modelled from what the scripts write for it
(`dual_boot.current_slot`, `dual_boot.slot_N_invalid`) and read of it
(`boot_param`). It is assumed to check what it loads and to fall back to the
other slot; `SelectedWhole` does not use that assumption.

An image is its number; a tar may lack a part, and its root may be a UBIFS, for which
no `rootfs_data` is made (`file.ubifs`, `UbifsRoot`). History: `alone` (images that
lack a part), `hasty` (an upgrade started while a reboot was due), `said`, and
`hurt`: a command failed or the power went, and since then no upgrade began and no
boot ended with `rootfs_data` in its place (`Settled`).

`DataThere` and `ConfigKept` are about the scripts where nothing goes wrong *in them*,
in whatever state earlier failures and cuts left the device: that is what `~hurt` says.
A power cut between `ubirmvol` and `ubimkvol` of `init_readonlyfs.sh` (45, 46) does
lose the volume, on a device with two slots for good; the code has no answer to it, and
`hurt` exempts it.

### EthReset: the reset work and those who ask for it

`pc` is where `mtk_pending_work` is; the waits for the Wi-Fi chips are places of
their own, and so is every use of `mtk_reset_flag`, which the work reads three
times while others write it. `wait_ser_done` counts like a completion,
`mtk_rest_cnt` is the number of answers still expected. A chip is what it was told
last, and how many answers to each event it owes: one that was told to stop its traffic
and then to reset itself may answer both. The monitor is a timer function that may be between
its look at the hardware and its write of the flag while the work runs on another
CPU. Who holds the rtnl lock keeps notifications out, and the model keeps to it.

The Wi-Fi drivers are external; they may answer late or never. `disturbed`
records what went out of order so far; the properties say exactly which of these
disturbances they do not survive. `force` and `asked` are what debugfs and
`mtk_mac_config` do.

Where the code goes wrong under such a disturbance no property can say otherwise:

* An answer that comes after its wait timed out, or after another chip failed, is counted
  for the next event: `AllAnswered` exempts `timeout`, `superfluous` and `failed`.
* `mtk_reset_flag` written by the monitor or debugfs while the work uses it makes the
  chips be released with the wrong event: `ChipsReleased` and `WdmaOnlyUnderReset` exempt
  `overwritten`. They do cover the write by a chip that fails, and the second event after it.
* A flag that the monitor writes between the restart of its timer and the end of the
  work is cleared, and the next reset is one without the WDMAs. `WdmaHangRepaired`
  says that it is lost nowhere else: without its premise about this place TLC refutes it.
* `mtk_mac_config` may raise `force` to 2, after which nothing is repaired: the premise
  `<>[](force = 1)`.

### EthMonitor: the nine functions that find a hang

Each unit (a WDMA, the QDMA, a GMAC, …) has an error count. The functions count in
three ways, and the model says for each unit which (`how`): `Plain` is the usual
one, `Inner` has its `else` at the inner `if`, `Apart` tests the limit apart from
the count. The registers are reduced to whether a unit looks busy and whether it
moved since it was looked at. The first function that reports something ends the
round: the ones behind it keep what they saw (`Round`). Most functions compare the unit
with what they last saw of it. `mtk_monitor_qdma_tx` does not, and `mtk_monitor_tdma_rx`
compares only whether it was busy (`Level`, `idle`): these two keep their count over a
round that skipped them, and over a reset, for as long as the unit looks stuck at each
look, and may report it a second later. `CountsAreFresh` and `NoFalseAlarm` exempt
exactly this, with the history variable `skipped`; for the others an old count is gone at
the next look. `still` is a history variable: for
how many seconds a unit has really looked stuck. Here a reset is one step;
`EthReset` has it in full, and its fairness assumption that a hang is noticed is
what `HangsEnd` shows here, for the units that are counted the usual way.

### EthTx: the transmit ring

| Code | Actions |
|---|---|
| `mtk_start_xmit`, `mtk_tx_map` | `XmitCalled`, `XmitBegin`, `XmitBusy`, `XmitMap`, `XmitDrops`, `XmitBell`, `XmitThresh`, `XmitStop` |
| `mtk_handle_irq_tx`, `mtk_napi_tx`, `mtk_poll_tx_qdma` | `Irq`, `PollAck`, `PollRead`, `PollReaps`, `PollReaped`, `PollRoom`, `PollWakes`, `PollCheck`, `PollUnmasks` |
| `mtk_open`, `mtk_start_dma`, `mtk_tx_alloc` | `OpenBegins`, `OpenFirst`, `OpenNext`, `Opened` |
| `mtk_stop`, `mtk_dma_free` | `CloseBegins`, `Disable`, `DropRef`, `DropLastRef`, `NapiOff`, `FreeRing` |
| `mtk_tx_timeout`, `mtk_pending_work` | `TxTimeout`, `OthersAsk`, `WorkBegins`, `ResetBegins`, `HwInit`, `ResetEnds` |
| `mtk_prepare_reset_fe` | `WorkBegins` (the interrupt is masked), `Quiet` (`netif_tx_disable` of each device, open or not), `Quieted` (`engine`, MTK_TX_DMA_EN) |

A sender holds `page_lock` from beginning to end; the poll
holds nothing and is cut into steps at each shared variable, one for each
descriptor it reclaims. The hardware is external: it sends whole packets, sets
the interrupt status, and stops at `ctx_ptr`. Opening, closing and the reset run
under the rtnl lock, which the work gives up once, while it waits for the Wi-Fi
chips. A device has one queue, `force` is 1, and byte queue limits, the receive
rings and an `mtk_open` that fails are left out. A mapping that fails is unwound under
`page_lock`, behind `next_free` where neither the hardware nor the poll looks, so
`XmitDrops` is one step that leaves the ring as it is. `OpenFirst` is one step, for all
it does is under the rtnl lock and at a ring nobody can use yet.

### Abstract specifications

* `LogicalDisk`: a disk whose blocks change only by a request for that block, and
  by a panic at most the block its last words go to, or, at worst, all of them.
  `NmbmPanic!Disk` maps it to the driver: the content of a block is *what an attach
  after a power cut at this moment would return*, so refinement says that every
  flash operation of every procedure is safe to be the last one. The worst case is
  taken by `mangled` states only.
* `OneAtATime`: one user of the core at a time and none after the close. It is
  what `Nmbm` assumes of its callers.
* `AtomicUpgrade`: the next boot runs one whole image, and changes in one step from
  the old one to the one offered last. The promise binds with two slots, complete
  archives, a boot after each upgrade and no failing command; nothing is said of
  the power. `FwUpgrade!Owner` maps the system of the next boot to what the boot
  loader would choose at this moment.

Operators commented `MISTAKE` are variants of the code with a plausible bug.
They are used by no specification; putting one in the place of the definition
that follows it makes the property named in `PROJECT.json` ("mutants") fail,
which shows that the property depends on that line of code.

## 3. Runs

| Run | Checks | Instance |
|---|---|---|
| `nmbm_wear` | `TypeOK`, `LayoutOk`, `AckedReadable`, `NewestLoaded`, `MappedOnce`, and `KeepsInv`, the inductive invariants of the proofs | 10 blocks, any may fail, 2 failures, 1 power cut |
| `nmbm_worn` | `TablesInArea`, `TablesAvoidData`, `DurableWithTable`, `LostOnlyWithLastTable`, `Answered` (liveness) | 8 blocks, 4 failures, 1 power cut, no NMBM_F_CREATE; fresh, or with a management area worn out at the factory |
| `nmbm_durable` | `SurvivesPanic`, refinement of `LogicalDisk` | 10 blocks, a data or a spare block fails, 1 failure (of an erase, a program or a panic write), 2 power cuts or panics, no NMBM_F_CREATE |
| `nmbm_lock` | `TypeOK`, `NoLostWakeup`, `StateTells`, refinement of `OneAtATime`, `Served` (liveness) | 3 threads, 2 requests each, any may shut down |
| `fw_upgrade` | `TypeOK`, `NeverBricked`, `DataThere`, `SelectedWhole`, `ConfigKept`, refinement of `AtomicUpgrade` | all devices and files, 3 upgrades, 2 failing commands, 2 power cuts |
| `eth_reset` | `TypeOK`, `AllAnswered`, `WdmaOnlyUnderReset`, `ChipsReleased`, `ResetEnds`, `HangRepaired`, `WdmaHangRepaired` (liveness) | NETSYS_V3, 2 chips, 1 hang or error, 2 requests, 1 chip that comes or goes, 1 answer to each event owed |
| `eth_monitor` | `CountsAreFresh`, `NoFalseAlarm`, `HangsEnd` (liveness) | one WDMA, TDMA and MAC, all nine functions, one hang at a time and one more unit that looks stuck |
| `eth_tx` | `TypeOK`, `RingExact`, `HardwareHolds`, `RingThere` | 2 devices, ring of 5, packets of 1 or 2 parts, budget 2 |
| `eth_tx_live` | `Reclaimed`, `QueueWakes` (liveness) | 1 device, ring of 5, budget 1 |
| `nmbm_same_spare` | `MapsUnused`: violated | factory bad data and spare blocks, 2 failures |
| `fw_said` | `SaidIsDone`: violated | NAND with two slots, 1 upgrade, nothing fails |
| `eth_monitor_deaf` | `AllHangsEnd`: violated | as `eth_monitor` |

Two conditions run through the properties of NMBM. `~stepped`: once
`nmbm_map_block` passed over a bad spare block (the run `nmbm_same_spare`), that
block is mapped and counted as unmapped at once. A table that moves up may then be
written over it, so nothing that concerns the layout or the content can be promised
any more; the attempt to prove `LayoutOk`, `AckedReadable`, `NewestLoaded` and
`TablesAvoidData` without the condition failed there, and on a chip of twelve
blocks TLC shows such a loss. `~renewed`: when no table is left and NMBM_F_CREATE
is given, an attach maps the chip anew, and what a block held under the old mapping
says nothing of what it is read as under the new one; that the tables stay away
from *mapped* blocks, and the layout, hold all the same.

Why these bounds.

* NMBM: the interesting layouts need room for two tables, the gap behind the main
  one, a spare block and the signature: ten blocks have one to spare, eight with a
  larger area none, so both "moves up" and "nowhere to go" happen. Two logical
  blocks are the least for which mappings can collide. Two failures reach every
  rescue from a healthy chip; four exhaust the management area of the smaller chip
  and reach the protected state. Two power cuts let the second one hit the rescue
  after the first. Without NMBM_F_CREATE a chip whose first table was cut off can
  never be attached, which `nmbm_durable` and `nmbm_worn` have; with it the chip is
  mapped anew, which `nmbm_wear` has. `MaxFaults` also bounds the panic writes that fail and
  `MaxCrashes` the panics; blocks that hold tables do not fail in `nmbm_durable`,
  where one failing panic write is enough to start a table update. Only one block
  can fail there, so the run lets one of the two data blocks wear: NMBM treats them alike.
  `MaxWc` bounds detaches only, by the write count up to which a detach may begin; the
  count still grows with failures. With 1, in `nmbm_wear`, a detach comes before the
  first failure; with 2 and 3, in `nmbm_durable` and `nmbm_worn`, also after one.
* FwUpgrade: three upgrades go to slot 1, back to slot 0 and once more, with what
  earlier ones left behind; two failing commands let one hit a removal and the
  next one what was to follow; a second cut hits the boot after the first.
* EthReset: with two chips an answer can be the first or the last; with two
  requests one can come under way of the other's reset, and the second reset sees
  what the first one left behind. `MaxOwed` bounds how many answers to the *same* event
  a chip that answers nothing may pile up; with 1 it still owes one to each event. With
  2 the run passes as well, in 2.2 million states.
* EthMonitor has no bound but the number of units; the counts saturate at their
  limits.
* EthTx: a ring of five has three usable descriptors, so packets of two parts fill
  it, stop the queue (`Thresh` 1) and go round its end; two devices are the least
  for `dma_refcnt` and for the order of the reset. Two devices are too many states
  for a liveness check; `QueueWakes` and `Reclaimed` are about one queue at a time.

Fairness. `Answered` assumes weak fairness of the code's own steps: the kernel
runs a request to its end. Nothing is assumed of failures, users or power.
`Served` assumes that each thread runs when it can; it holds because each thread
makes a bounded number of requests. With an endless stream of requests the lock,
which wakes everybody and lets the first one in, may starve a thread: this is a
fact of the code, not of the model. `ResetEnds`, `HangRepaired` and `WdmaHangRepaired` assume that the
work queue runs the work and the timer of the monitor expires, never that a chip
answers. `HangsEnd` assumes the same two. `Reclaimed` and `QueueWakes` assume that
the hardware sends what it was told about, that interrupts and polls run, that a
thread in `mtk_start_xmit` gets to its end and the stack ends a batch it
announced, that the watchdog of the stack fires, and strong fairness where a mutex
or spin lock is contended (the rtnl lock, the lock of a queue): the kernel's
mutexes hand over and its queued spin locks are fair. Nobody is assumed to send,
open or close.

Deadlock checking is off where the system really stops: a lock that was shut down
keeps every later thread asleep, by design; a device with one slot that lost its
system stays off; the reset recovery stops when nobody may ask any more.

### Where the code differs from what it says

Three runs end in a violation, each of a sentence in the source:

* `nmbm_same_spare` (`MapsUnused`): *"Map a bad block to a unused spare block"*.
  `nmbm_map_block` walks past bad spare blocks but lowers
  `mapping_blocks_top_ba` by one only, so the next logical block can get the same
  spare block. `MappedOnce` shows that this is the only way two logical blocks
  come to share one, and `AckedReadable` and `TablesAvoidData` that it is the only
  way to lose acknowledged data while a table is left.
* `fw_said` (`SaidIsDone`): *"sysupgrade successful"*. The result of the
  preparation is ignored, so the slot is switched and success is said although
  nothing was written. `NeverBricked` shows that the old slot is still there.
* `eth_monitor_deaf` (`AllHangsEnd`): the hang of the QDMA receive side, of a GMAC
  and of the transmit side of a GDM is never reported, for their counts are set
  back by the call that raises them. `MonitorDeaf` proves it of all of them.

Some more sentences that the code does not keep are stated as operators. No run
checks them, and no other property relies on them:

* `NmbmSafety!UpdateSavesAll` (`nmbm-core.c:1544`, `1597`): *"update info table
  repeatedly until no new bad block found during updating"*. A block that fails
  during the write of a table is marked clean together with what the table holds.
* `NmbmSafety!BadStaysBad` (`nmbm-core.c:2480`): *"Mark logic block unusable, and
  update info table"*. Out of spare blocks, the unmapping is not counted as a
  change and is never saved.
* `NmbmSafety!ReadOnlyIsReadable` (`nmbm-core.c:2609`, `2064`): *"Device is now
  read-only"*. Reads are refused too.
* `EthReset!DebugResetsAll` (`mtk_eth_dbg.c:410`, `434`): *"FE and WDMA reset"*.
  Nobody writes the flag, and after the first reset it is 0: the FE alone is reset.
* `EthReset!DisabledMeansNone` (`mtk_eth_reset.c:209`, `mtk_eth_dbg.c:433`):
  *"disable reset"*. An error interrupt is reason enough for a work that is queued.
* `EthTx!AwakeHasRoom` (`mtk_eth_soc.c:2346`, `2908`): *"Tx Ring full when queue
  awake!"*. A queue with `MAX_SKB_FRAGS + 1` free descriptors stays awake, and
  refuses a packet of `MAX_SKB_FRAGS + 1` parts. The packet is sent later.

A panic write that fails makes two things worse. It reports success
(`nmbm-mtd.c:586`), and when the panic came while the main table was being written,
the table update that follows erases the backup, the only table that is whole.
`SurvivesPanic` is `Durable` with this one exception; without the exception TLC finds
a power cut at that place after which no table is left.

A panic write that fails in the middle of `nmbm_rescue_main_info_table` is rarer and
odder: the temporary table may be written and `mapping_blocks_ba` not yet moved behind it.
The update then starts the rescue again from the old place and can leave a third table on
the chip. It takes a panic during the rescue, and the failure of the front blocks and of a
panic write in one update; TLC shows it on eleven blocks, with `Spare` 1 and four failures
(`OnChip` fails there), which is beyond the bounds of `nmbm_durable`.

## 4. Proofs

`NmbmProofs` proves for every geometry, any number of failures and power cuts,
with or without NMBM_F_CREATE and any factory bad blocks:

* `TypeCorrect`: `Spec => []TypeOK`. This is not bookkeeping: block addresses are
  unsigned in the code, and the retry loops count `write_ba` down and `topBa`
  down; the type invariant says that none of them ever leaves the chip.
* `TablesStayInArea`: `Spec => []TablesInArea`, no table is ever written or
  erased in the data area or over the signature.

Neither is inductive. The invariant that is, `IInv` in `NmbmSafety`, adds: every
place remembered in the instance lies in the management area once an attach has
fixed the layout (`PlacesInArea`); a range being written or erased starts and
ends in it (`RangeInArea`); the main table is unknown only while it is rebuilt,
or on a protected device which touches nothing (`TablesKnown`); the locals fit
the place (`LocalsOk`). `TablesKnown` is the heart of it: `nmbm_update_single_info_table`
starts to write at `main_table_ba` without a test, and
`nmbm_update_info_table_once` tests it and would rebuild both tables; on an attached
device it is never 0 outside a rebuild, so that test never fires. The proof has a lemma for each action, over lemmas for
the walks (`GoodIn`, `WalkDesc`, `TryReserve`, `NextGood`: what they return lies
between their limits), for the shared loops and for `nmbm_load_info_table`. The
only assumption is `ChipAssumption`, here and in the next two modules.

`NmbmLayoutProofs` proves `LayoutInductive` (`Spec => []LayoutInv`), and from it
`NoBlockMappedTwice` (`MappedOnce`), `AreaLaidOut` (`LayoutOk`) and
`NothingNewerLeft` (`NewestLoaded`). All three depend on what the *next attach* will
find, so `LayoutInv` has to say what any two tables on the chip have in common, at
every flash operation of every procedure, for a power cut may stop there:

* `OnChip`: at most two tables, `Compatible` with each other. Each counts the
  other's block as good, so the search of `nmbm_load_existing` that finds the first
  finds the second; each leaves room for both below the spare blocks it has mapped;
  the one with the greater write count knows all bad blocks of the other, and equal
  counts mean equal tables, so it does not matter which of the two is loaded; and
  no block is left before the lower one where a third could be written.
* `Remembered`, `Placed`: the memory follows the tables. No table is newer than the
  cache, the blocks known to be bad only become more, the mapping stays above
  `mapping_blocks_top_ba`, and every table is at a place that the instance knows.
  `Stale` is the one exception: the older of two uneven tables, which an attach has
  found and erases next, may map the very blocks the newer one counts as free.
* `Ordered`, `Looping`, `Ranges`, `Agreeing`: where each loop is, on which behalf,
  and that no good block was passed over; `Fresh`: a chip that gets its first
  tables.

`NmbmDataProofs` proves two more invariants. `DataInductive` (`DataInv`): what was
acknowledged is at the block that the memory *and every table* map it to (`Kept`),
all of them to the same block (`SameHome`), no block holds data that a mapping
does not lead to (`DataMapped`), a block known
as bad holds none (`NotGood`), the tables hold the mapping of the cache and the
cache that of the memory but for a change that is about to be saved (`TablesSaved`,
`CacheSaved`), and a request works on a block that the user expects nothing of
(`Requested`). `OneTableStays` (`TableInv`): the loop that is going on leaves a
table alone (`Standing`), except while the only one is rewritten or both are
rebuilt. Hence:

* `AckedStaysReadable` (`AckedReadable`) and `TablesApartFromData`
  (`TablesAvoidData`);
* `NothingLostWithATable` (`DurableWithTable`): at every place of the code the attach
  after a power cut finds what was acknowledged, as long as a table is left;
* `LostWithLastTableOnly` (`LostOnlyWithLastTable`), for a driver without
  NMBM_F_CREATE: the step that loses something is a step on a chip with one table, or
  is announced. A step changes one block (`OneBlockChanges`), and as long as a table is
  left `NothingLostWithATable` applies, so it must have been the last.

`AlwaysKeeps` puts the invariants together as `nmbm_wear` checks them.

The module ends with panics (`PSpec` of `NmbmPanic`).

* `PanicLosesNothing` (`SurvivesPanic`): a panic at any point, with any number of pages of
  last words, loses nothing that was acknowledged, as long as a table is left and
  `mangled` is not `"resumed"`. The invariant is `PanicKeeps`. A panic that stopped no loop
  over tables (`Calm`) leaves the instance as it is between two requests, and all
  invariants go on to hold (`CalmKeeps`), except that no data may lie where no mapping
  leads (`Tidy`): an erase or a remapping that was given up breaks that, so
  `DataInv` is proved in two parts, and `Data` without `Tidy`. A panic that stopped a loop
  leaves memory and tables in disagreement for good; but then only pages are written
  until the reboot, and it is enough that the chip is as a power cut would leave it
  (`Sane`, `After`): the pages go to homes that no table shares, and the block in flight is
  never the home of anything known (`HomesSafe`). Why it cannot be: while a request is
  served the only loops are those of the table update (`ServedIn`), which stay off
  mapped blocks (`TouchedApart`), and an erase or a write works on a block of which
  nothing is known.
* `DiskWhileDurable` (`ImplementsDisk`), the refinement of `LogicalDisk`: as long as
  `SurvivesPanic` holds, the disk shows what the user knows (`DiskShown`), and
  each step of NMBM begins, answers or drops a request, tells something of the block a
  panic writes to, or changes nothing (`NextRequest`, `PanicTells`, `DiskSteps`).
* `DiskWhileTableLeft`: the two together. NMBM implements `LogicalDisk` while a table is
  left and no update begins in the middle of another. Without a table an attach finds
  nothing; and a resumed update can leave a third table, about which `OnChip`, on which
  all of this rests, promises nothing.

`NmbmMtdProofs` proves, for any set of threads and any number of requests, that
`LockInv` is an invariant, hence `TypeOK`, `NoLostWakeup` and `StateTells`, and
that `NmbmMtd` implements `OneAtATime`. `LockInv` adds to the properties only
where a thread is on the wait queue (`Queued`).

`FwUpgradeProofs` proves for any kinds of devices and files and any number of
upgrades, failures and cuts `TypeCorrect` and `NeverBrickedAlways`. The invariant
is that the slot that ran last loads (`RanLastLoads`): an upgrade writes only to
the other one, and a slot becomes the running one only by being loaded. What has
to be shown is that no command of the script can name the running slot, whatever
was dropped from the script by a failure.

It goes on to prove `SelectedAlwaysWhole` (`SelectedWhole`) and
`UpgradeIsAtomic`: `FwUpgrade` implements `AtomicUpgrade`. The invariant says what the
script still has to do at each command, as long as the conditions of the promise
hold (`Promised`): during the preparation each volume of the other slot is there
or will be made, in the place of the old one, and is not named again afterwards
(`Preparing`); during the installation each part is written or will be, and the
switch of the slot comes after the last write (`Installing`); the reset at boot
names `rootfs_data` only (`Starting`). Each is shown of the script that `Prepare`,
`Install` and `Reset` build, and of its tail after each command. The conditions
are lost once and for all (`PromiseKept`), so nothing has to be known of what a
failing command left behind.

The third part of the module is about the configuration and the volume it lives on,
for one slot and for two: `DataAlwaysThere` (`DataThere`) and `ConfigAlwaysKept`
(`ConfigKept`). A script is looked at as the set of the commands that are left
(`Left`) and what their order guarantees (`InOrder`: none comes twice, nothing is
removed that was just made, the configuration is restored last), which every command
keeps (`ScriptAfter`). The invariant `DInv` has two parts. `Base` holds whatever goes
wrong: what is on the device, and that the commands that are left are some of those the
script began with (`LeftShrinks`), so that a new upgrade or boot can be reasoned about
from any state. `Quiet` holds while `~hurt`, and is established anew when an upgrade begins or a
boot ends with `rootfs_data` in its place (`OfferQuiet`, `EndInitQuiet`). It says of
each phase what is left to do about the volume: what is to be removed is there and will
be made again (`PreparesData`, `StartsData`), it is there before the configuration is
restored (`InstallsData`). The one way round this that the code leaves is a tar without
a root on a device with one slot: the `ubimkvol` of the root fails, the preparation
returns before it makes `rootfs_data`, and the failure is ignored. Then the only root
volume is gone as well (`RootLost`), nothing writes it again, and the device does not
boot: `DataThere` holds because there is no system left to miss its volume. A root that
is a UBIFS gets no `rootfs_data`; both properties say so (`UbifsRoot`).

`EthResetProofs` proves, for any set of chips and any number of hangs, requests and
moves, `TypeCorrect` (it contains what `reset_lock` is at each place),
`ResetNeverSkipped` (which follows from it, so that no run checks it), `EveryChipAnswered`, and for NETSYS_V3 `EveryChipReleased`
and `WdmaSafe`. The invariants relate `mtk_rest_cnt` and `wait_ser_done` to the
chips that still owe answers, and say that one which owes something owes one answer to
one event, as long as nothing was disturbed; the cardinality
of that set is where the proofs need the chips to be finitely many.

`EthMonitorProofs` proves, for any numbers of WDMAs, TDMAs and MACs,
`MonitorFresh` (`CountsAreFresh`), `MonitorTrue` (`NoFalseAlarm`) and
`MonitorDeaf`: the units that are not counted the usual way are never reported. The
first two are stated with what `mtk_monitor_qdma_tx` and `mtk_monitor_tdma_rx` do
otherwise: the invariant relates `cnt`, `still` and the places where a count may be older
than the hang (`moved`, and for these two `skipped`).

`EthTxProofs` proves, for a ring of any size with room for the largest packet and
any devices and budget, `TxTypes`, `TxRing` (`RingExact`), `TxHardwareHolds` and
`TxRingThere`. The inductive invariant has four parts besides the types.
`Ordered`: going round from the last reclaimed descriptor one meets what the poll
may reclaim, what the hardware has sent, what it was told about, what is mapped
and what is free, in this order; all of it is written with `Dist`, the distance
round the ring, about which a few lemmas say all that is needed. `Places` and
`Counts`: where the holder of the rtnl lock is, and which devices `dma_refcnt`
counts then, in particular that every running device is counted except those the
reset has still to open. `Sender`: a thread past `MTK_RESETTING` belongs to a
device that is counted and not past `netif_tx_disable`. The only assumption is
`TxAssumption`.

Only model-checked: `SurvivesPanic` and the refinement of `LogicalDisk` in two cases,
the `"resumed"` one and that a table is left in the first place when only the blocks of
`nmbm_durable` fail; and the liveness properties, which are out of the prover's reach, as
is everything about ENABLED. `LostOnlyWithLastTable` is proved, and checked, without
NMBM_F_CREATE.

## 5. Plan

In this order:

1. **EthRx**: the receive rings (buffers that are replaced one by one, the poll with
   its budget, HW LRO) beside `EthTx`, and the PDMA-only chips.
2. **Hnat**: the life cycle of a flow entry against aging, roaming and reset.
3. **NMBM, the rest**: the geometry and the search for the signature as operators
   checked against a reference definition; info tables of several blocks; probe
   and remove with the list of devices.
4. **DcmUpload**: the file protocol between `DCMscript.sh`, `dca_utility.sh` and
   `dcaSplunkUpload.sh`.
5. Proofs: the update that a failing panic write resumes (a `Placed` that allows for a
   table the memory does not know of), when the update it stopped was not a rescue.

## 6. Not modelled

Besides the plan: the software update daemon, which hands what it downloaded to
`/lib/rdk/FilogicFwUpgrade.sh`, a script that is not in the tree; the register programming of the Ethernet, SerDes, switch and
SPI-NAND drivers and the register tables of the switch SDKs (no state that a
property would tell apart), debugfs and the command-line tools of the switches
(they print registers), the `mtd` tool (one pass over a partition), the hostapd and
atenl adapters (the state belongs to programs that are not in the tree), one-shot
scripts, and the build metadata. Much of the tree by number of lines is of these
kinds or vendored.
