------------------------------ MODULE EthReset ------------------------------
(***************************************************************************)
(* The recovery of the frame engine of the Ethernet driver (mtk_eth_soc.c, *)
(* mtk_eth_reset.c): a worker, mtk_pending_work, stops the wifi chips and  *)
(* the network devices, resets the engine and starts everything again.     *)
(*                                                                         *)
(* It is scheduled by the hang monitor (a timer), a transmit timeout, a    *)
(* wifi chip, a change of the mode of a MAC, and debugfs.  What it has to  *)
(* do is in a variable that all of them write, mtk_reset_flag, and that it *)
(* reads three times on its way: when it tells the wifi chips, when it     *)
(* resets the hardware, and when it releases the chips.                    *)
(*                                                                         *)
(* The wifi drivers are not part of the repository.  They are modelled by  *)
(* the notifications that they get and send.  Notifications are called     *)
(* under the RTNL, so none comes while the worker holds it.                *)
(***************************************************************************)
EXTENDS Integers, FiniteSets

CONSTANTS
  Chips,        \* the wifi chips
  NetsysV3,     \* MTK_NETSYS_V3: the WDMAs are reset along, a failure is retried
  Debugfs,      \* somebody writes to /sys/kernel/debug/mtketh/reset
  MaxHangs,     \* bound on the hangs and error interrupts of the hardware
  MaxRequests,  \* bound on the requests for a reset from elsewhere
  MaxMoves,     \* bound on the chips that come and go
  MaxOwed       \* bound on the answers to one event that a chip still owes

ASSUME ResetAssumption ==
  /\ IsFiniteSet(Chips)
  /\ NetsysV3 \in BOOLEAN /\ Debugfs \in BOOLEAN
  /\ MaxHangs \in Nat /\ MaxRequests \in Nat /\ MaxMoves \in Nat
  /\ MaxOwed \in Nat \ {0}

VARIABLES
  \* the driver
  reset_lock,      \* resets under way
  force,           \* 0: disabled, 1: enabled
  mtk_reset_flag,  \* see Flags
  mtk_stop_fail,   \* a chip could not stop its traffic
  mtk_rest_cnt,    \* answers still expected from the chips
  wait_ser_done,   \* completions not yet consumed
  pending,         \* the work is queued
  armed,           \* the timer of the monitor is
  pc,              \* where the worker is
  monitor,         \* what the monitor is about to write to mtk_reset_flag
  \* the hardware
  hung,            \* what hangs
  fe_int,          \* an error bit is set in MTK_FE_INT_STATUS
  \* the wifi chips
  online,          \* those that are registered; mtk_wifi_num is their number
  chip,            \* what each of them was told
  owes,            \* the answers to each event it has not given yet
  \* bounds and history
  hangs, requests, moves,
  did,             \* the kind of the last reset of the hardware
  asked,           \* debugfs 1 was accepted, and nothing else after it
  disturbed        \* what went wrong so far: see Disturbances

worker == <<reset_lock, pc, mtk_stop_fail, armed, did>>
wifi == <<online, chip, owes>>
bounds == <<hangs, requests, moves>>
vars == <<reset_lock, force, mtk_reset_flag, mtk_stop_fail, mtk_rest_cnt,
          wait_ser_done, pending, armed, pc, monitor, hung, fe_int, online, chip,
          owes, hangs, requests, moves, did, asked, disturbed>>

\* MTK_FE_START_RESET, MTK_FE_STOP_TRAFFIC, 0
Flags == {"start_reset", "stop_traffic", "none"}

\* what the chips are told to do, and answer
Events == {"stop_traffic", "start_reset"}
Nothing == [e \in Events |-> 0]

Places == {"idle", "check", "wait", "again", "wait_again", "stop", "init",
           "release", "restart", "tail"}

(* A wait timed out; a completion came when none was awaited, or a second one; a
   chip could not stop its traffic; mtk_reset_flag was written while a reset was
   under way.                                                               *)
Disturbances == {"timeout", "superfluous", "failed", "overwritten"}

\* the RTNL is held, so no notification comes
RtnlHeld == pc \in {"init", "release", "restart", "tail"}
\* MTK_RESETTING
Resetting == pc \notin {"idle", "check"}

wifi_num == Cardinality(online)

-----------------------------------------------------------------------------
(* Helpers.                                                                *)

Schedule == pending' = TRUE

\* mtk_reset_flag is written, perhaps between two uses of the worker
WriteFlag(f) ==
  /\ mtk_reset_flag' = f
  /\ disturbed' = disturbed \cup
       IF pc \in {"idle", "check", "restart", "tail"} THEN {} ELSE {"overwritten"}

\* complete(&wait_ser_done), which counts
Complete(how) ==
  /\ wait_ser_done' = wait_ser_done + 1
  /\ mtk_rest_cnt' = wifi_num
  /\ disturbed' = disturbed \cup how \cup
       IF wait_ser_done > 0 \/ pc \notin {"wait", "wait_again"}
         THEN {"superfluous"} ELSE {}

\* each registered chip is told to stop its traffic or to reset itself; what it did
\* not answer before it may still answer
Tell(what) ==
  /\ chip' = [c \in Chips |-> IF c \in online THEN what ELSE chip[c]]
  /\ owes' = [c \in Chips |->
       IF c \in online /\ owes[c][what] < MaxOwed
         THEN [owes[c] EXCEPT ![what] = @ + 1] ELSE owes[c]]
  /\ UNCHANGED online

\* a chip that stopped its traffic starts it again, one that is in the middle of
\* its reset goes on
Release(what) ==
  /\ chip' = [c \in Chips |->
       IF c \in online /\ chip[c] = what THEN "runs" ELSE chip[c]]
  /\ UNCHANGED <<online, owes>>

-----------------------------------------------------------------------------
(* The worker.                                                             *)

\* MISTAKE: reset_lock is not taken
WorkBeginsUnlocked ==
  /\ pc = "idle" /\ pending
  /\ pending' = FALSE /\ pc' = "check"
  /\ asked' = IF asked = "queued" THEN "served" ELSE asked
  /\ UNCHANGED <<reset_lock, force, mtk_reset_flag, mtk_stop_fail, mtk_rest_cnt,
                 wait_ser_done, armed, monitor, hung, fe_int, wifi, bounds, did,
                 disturbed>>
\* MISTAKE: the flag is cleared when the work begins
WorkBeginsForgets ==
  /\ pc = "idle" /\ pending
  /\ pending' = FALSE /\ pc' = "check"
  /\ reset_lock' = reset_lock + 1 /\ mtk_reset_flag' = "none"
  /\ asked' = IF asked = "queued" THEN "served" ELSE asked
  /\ UNCHANGED <<force, mtk_stop_fail, mtk_rest_cnt, wait_ser_done, armed, monitor,
                 hung, fe_int, wifi, bounds, did, disturbed>>
WorkBegins ==
  /\ pc = "idle" /\ pending
  /\ pending' = FALSE /\ pc' = "check"
  /\ reset_lock' = reset_lock + 1
  /\ asked' = IF asked = "queued" THEN "served" ELSE asked
  /\ UNCHANGED <<force, mtk_reset_flag, mtk_stop_fail, mtk_rest_cnt,
                 wait_ser_done, armed, monitor, hung, fe_int, wifi, bounds, did,
                 disturbed>>

\* mtk_check_reset_event: "No need to do FE reset !"
NoNeed ==
  /\ pc = "check" /\ ~fe_int /\ force = 0
  /\ pc' = "idle" /\ reset_lock' = reset_lock - 1
  /\ UNCHANGED <<force, mtk_reset_flag, mtk_stop_fail, mtk_rest_cnt,
                 wait_ser_done, pending, armed, monitor, hung, fe_int, wifi, bounds,
                 did, asked, disturbed>>

\* MISTAKE: the chips are never told to reset themselves
AnnounceStops == Tell("stop_traffic")
\* the event that the flag calls for
Announce ==
  Tell(IF mtk_reset_flag = "stop_traffic" THEN "stop_traffic" ELSE "start_reset")

\* the engine is prepared for the reset and the chips are told
Prepare ==
  /\ pc = "check" /\ (fe_int \/ force # 0)
  /\ pc' = "wait"
  /\ Announce
  /\ UNCHANGED <<reset_lock, force, mtk_reset_flag, mtk_stop_fail, mtk_rest_cnt,
                 wait_ser_done, pending, armed, monitor, hung, fe_int, bounds, did,
                 asked, disturbed>>

\* wait_for_completion_timeout returns in time
Woken ==
  /\ pc = "wait" /\ wait_ser_done > 0
  /\ wait_ser_done' = wait_ser_done - 1
  /\ pc' = IF NetsysV3 /\ mtk_stop_fail THEN "again" ELSE "stop"
  /\ UNCHANGED <<reset_lock, force, mtk_reset_flag, mtk_stop_fail, mtk_rest_cnt,
                 pending, armed, monitor, hung, fe_int, wifi, bounds, did, asked,
                 disturbed>>

\* some chip could not stop its traffic: all of them reset themselves
TellAgain ==
  /\ pc = "again" /\ pc' = "wait_again"
  /\ Tell("start_reset")
  /\ UNCHANGED <<reset_lock, force, mtk_reset_flag, mtk_stop_fail, mtk_rest_cnt,
                 wait_ser_done, pending, armed, monitor, hung, fe_int, bounds, did,
                 asked, disturbed>>

WokenAgain ==
  /\ pc = "wait_again" /\ wait_ser_done > 0
  /\ wait_ser_done' = wait_ser_done - 1
  /\ pc' = "stop" /\ mtk_stop_fail' = FALSE
  /\ UNCHANGED <<reset_lock, force, mtk_reset_flag, mtk_rest_cnt, pending, armed,
                 monitor, hung, fe_int, wifi, bounds, did, asked, disturbed>>

\* MISTAKE: wait_for_completion, without a timeout, the second time
TimesOutOnce ==
  /\ pc = "wait" /\ wait_ser_done = 0
  /\ pc' = "stop"
  /\ disturbed' = disturbed \cup {"timeout"}
  /\ UNCHANGED <<reset_lock, force, mtk_reset_flag, mtk_stop_fail, mtk_rest_cnt,
                 wait_ser_done, pending, armed, monitor, hung, fe_int, wifi, bounds,
                 did, asked>>
\* three seconds are over: the reset goes on
TimesOut ==
  /\ pc \in {"wait", "wait_again"} /\ wait_ser_done = 0
  /\ pc' = "stop"
  /\ mtk_stop_fail' = (mtk_stop_fail /\ pc = "wait")
  /\ disturbed' = disturbed \cup {"timeout"}
  /\ UNCHANGED <<reset_lock, force, mtk_reset_flag, mtk_rest_cnt, wait_ser_done,
                 pending, armed, monitor, hung, fe_int, wifi, bounds, did, asked>>

\* del_timer_sync waits for the monitor; then the network devices are stopped
StopAll ==
  /\ pc = "stop" /\ monitor = "off"
  /\ pc' = "init" /\ armed' = FALSE
  /\ UNCHANGED <<reset_lock, force, mtk_reset_flag, mtk_stop_fail, mtk_rest_cnt,
                 wait_ser_done, pending, monitor, hung, fe_int, wifi, bounds, did,
                 asked, disturbed>>

\* mtk_hw_init, whose reset depends on reset_lock, and mtk_eth_warm_reset, whose
\* reset bits depend on the flag; then the network devices are opened
Reset ==
  IF reset_lock = 0 THEN "nothing"
  ELSE IF NetsysV3 /\ mtk_reset_flag = "start_reset" THEN "fe_wdma" ELSE "fe"
HwInit ==
  /\ pc = "init" /\ pc' = "release"
  /\ did' = Reset
  /\ hung' = IF Reset = "fe_wdma" \/ (Reset = "fe" /\ hung = "fe") THEN "nothing" ELSE hung
  /\ fe_int' = (fe_int /\ Reset = "nothing")
  /\ UNCHANGED <<reset_lock, force, mtk_reset_flag, mtk_stop_fail, mtk_rest_cnt,
                 wait_ser_done, pending, armed, monitor, wifi, bounds, asked,
                 disturbed>>

\* MTK_FE_START_TRAFFIC or MTK_FE_RESET_DONE
TellDone ==
  /\ pc = "release" /\ pc' = "restart"
  /\ Release(IF mtk_reset_flag = "stop_traffic" THEN "stop_traffic" ELSE "start_reset")
  /\ UNCHANGED <<reset_lock, force, mtk_reset_flag, mtk_stop_fail, mtk_rest_cnt,
                 wait_ser_done, pending, armed, monitor, hung, fe_int, bounds, did,
                 asked, disturbed>>

\* MISTAKE: the timer of the monitor is not restarted
RestartWithoutTimer ==
  /\ pc = "restart" /\ pc' = "tail"
  /\ reset_lock' = reset_lock - 1
  /\ UNCHANGED <<force, mtk_reset_flag, mtk_stop_fail, mtk_rest_cnt, armed,
                 wait_ser_done, pending, monitor, hung, fe_int, wifi, bounds, did,
                 asked, disturbed>>
\* the monitor may run from here on
RestartTimer ==
  /\ pc = "restart" /\ pc' = "tail"
  /\ reset_lock' = reset_lock - 1 /\ armed' = TRUE
  /\ UNCHANGED <<force, mtk_reset_flag, mtk_stop_fail, mtk_rest_cnt,
                 wait_ser_done, pending, monitor, hung, fe_int, wifi, bounds, did,
                 asked, disturbed>>

\* mtk_reset_flag = 0; the state bit and the RTNL are released
WorkEnds ==
  /\ pc = "tail" /\ pc' = "idle"
  /\ mtk_reset_flag' = "none"
  /\ asked' = IF asked = "served" THEN "no" ELSE asked
  /\ UNCHANGED <<reset_lock, force, mtk_stop_fail, mtk_rest_cnt, wait_ser_done,
                 pending, armed, monitor, hung, fe_int, wifi, bounds, did,
                 disturbed>>

Work ==
  \/ WorkBegins \/ NoNeed \/ Prepare \/ Woken \/ TellAgain \/ WokenAgain
  \/ TimesOut \/ StopAll \/ HwInit \/ TellDone \/ RestartTimer \/ WorkEnds

-----------------------------------------------------------------------------
(* Who asks for a reset.                                                   *)

(* mtk_dma_monitor, once a second: a hang of a WDMA calls for the reset of the
   wifi chips, any other for stopping their traffic.  It is a timer function and
   may run on another CPU than the worker: first it looks, then it writes.  *)
MonitorLooks ==
  /\ armed /\ monitor = "off" /\ hung # "nothing"
  /\ reset_lock = 0 /\ force = 1
  /\ monitor' = IF hung = "wdma" THEN "start_reset" ELSE "stop_traffic"
  /\ UNCHANGED <<worker, force, mtk_reset_flag, mtk_rest_cnt, wait_ser_done,
                 pending, hung, fe_int, wifi, bounds, asked, disturbed>>
MonitorWrites ==
  /\ monitor # "off" /\ monitor' = "off"
  /\ WriteFlag(monitor) /\ Schedule
  /\ UNCHANGED <<worker, force, mtk_rest_cnt, wait_ser_done, hung, fe_int, wifi,
                 bounds, asked>>

Request == requests > 0 /\ requests' = requests - 1 /\ UNCHANGED <<hangs, moves>>

TxTimeout ==
  /\ Request /\ reset_lock = 0
  /\ Schedule
  /\ UNCHANGED <<worker, force, mtk_reset_flag, mtk_rest_cnt, wait_ser_done, monitor,
                 hung, fe_int, wifi, asked, disturbed>>

\* MTK_FE_START_RESET_INIT
ChipAsks ==
  /\ Request /\ ~RtnlHeld /\ reset_lock = 0 /\ force = 1
  /\ WriteFlag("start_reset") /\ Schedule
  /\ UNCHANGED <<worker, force, mtk_rest_cnt, wait_ser_done, monitor, hung, fe_int,
                 wifi, asked>>

\* mtk_mac_config: from an XGDM to a GDM that is not idle
ModeChange ==
  /\ Request /\ ~Resetting
  /\ force' = force + 1 /\ Schedule
  /\ UNCHANGED <<worker, mtk_reset_flag, mtk_rest_cnt, wait_ser_done, monitor, hung,
                 fe_int, wifi, asked, disturbed>>

DebugSame ==
  UNCHANGED <<worker, mtk_rest_cnt, wait_ser_done, monitor, hung, fe_int, wifi>>
\* 0: disable reset; 2: enable reset
DebugForce ==
  /\ Debugfs /\ Request
  /\ force' \in {0, 1}
  /\ DebugSame /\ UNCHANGED <<mtk_reset_flag, pending, asked, disturbed>>
\* 1: FE and WDMA reset
DebugResetAll ==
  /\ Debugfs /\ Request /\ force = 1
  /\ Schedule /\ asked' = "queued"
  /\ DebugSame /\ UNCHANGED <<force, mtk_reset_flag, disturbed>>
\* 3: FE reset
DebugReset ==
  /\ Debugfs /\ Request /\ force = 1
  /\ WriteFlag("stop_traffic") /\ Schedule /\ asked' = "no"
  /\ DebugSame /\ UNCHANGED force

-----------------------------------------------------------------------------
(* The hardware and the wifi chips.                                        *)

Hangs(what) ==
  /\ hangs > 0 /\ hangs' = hangs - 1 /\ UNCHANGED <<requests, moves>>
  /\ hung = "nothing" /\ hung' = what
  /\ UNCHANGED <<worker, force, mtk_reset_flag, mtk_rest_cnt, wait_ser_done, pending,
                 monitor, fe_int, wifi, asked, disturbed>>
FeError ==
  /\ hangs > 0 /\ hangs' = hangs - 1 /\ UNCHANGED <<requests, moves>>
  /\ ~fe_int /\ fe_int' = TRUE
  /\ UNCHANGED <<worker, force, mtk_reset_flag, mtk_rest_cnt, wait_ser_done, pending,
                 monitor, hung, wifi, asked, disturbed>>
\* mtk_handle_fe_irq acknowledges the error, and that is all
FeIrq ==
  /\ fe_int /\ fe_int' = FALSE
  /\ UNCHANGED <<worker, force, mtk_reset_flag, mtk_rest_cnt, wait_ser_done, pending,
                 monitor, hung, wifi, bounds, asked, disturbed>>

\* one of the answers to e that c owes
Answers(c, e) ==
  owes[c][e] > 0 /\ owes' = [owes EXCEPT ![c][e] = @ - 1]

\* MISTAKE: the first answer is enough
AnswerCompletes(c) ==
  /\ ~RtnlHeld /\ \E e \in Events : Answers(c, e)
  /\ Complete({})
  /\ UNCHANGED <<worker, force, mtk_reset_flag, pending, monitor, hung, fe_int,
                 online, chip, bounds, asked>>
\* MTK_WIFI_RESET_DONE, MTK_FE_STOP_TRAFFIC_DONE
Answer(c) ==
  /\ ~RtnlHeld /\ \E e \in Events : Answers(c, e)
  /\ \/ mtk_rest_cnt = 1 /\ Complete({})
     \/ /\ mtk_rest_cnt # 1
        /\ mtk_rest_cnt' = mtk_rest_cnt - 1
        /\ UNCHANGED <<wait_ser_done, disturbed>>
  /\ UNCHANGED <<worker, force, mtk_reset_flag, pending, monitor, hung, fe_int,
                 online, chip, bounds, asked>>

\* MTK_FE_STOP_TRAFFIC_DONE_FAIL
AnswerFails(c) ==
  /\ ~RtnlHeld /\ Answers(c, "stop_traffic")
  /\ mtk_stop_fail' = TRUE
  /\ mtk_reset_flag' = "start_reset"
  /\ Complete({"failed"})
  /\ UNCHANGED <<reset_lock, force, pending, armed, pc, monitor, hung, fe_int,
                 online, chip, bounds, did, asked>>

\* MTK_WIFI_CHIP_ONLINE, MTK_WIFI_CHIP_OFFLINE
Moves(c) ==
  /\ moves > 0 /\ moves' = moves - 1 /\ UNCHANGED <<hangs, requests>>
  /\ ~RtnlHeld
  /\ online' = IF c \in online THEN online \ {c} ELSE online \cup {c}
  /\ chip' = [chip EXCEPT ![c] = "runs"]
  /\ owes' = [owes EXCEPT ![c] = Nothing]
  /\ mtk_rest_cnt' = Cardinality(online')
  /\ UNCHANGED <<worker, force, mtk_reset_flag, wait_ser_done, pending, monitor, hung,
                 fe_int, asked, disturbed>>

-----------------------------------------------------------------------------

Init ==
  /\ reset_lock = 0 /\ force = 1 /\ mtk_reset_flag = "start_reset"
  /\ mtk_stop_fail = FALSE /\ mtk_rest_cnt = Cardinality(Chips)
  /\ wait_ser_done = 0 /\ pending = FALSE /\ armed = TRUE
  /\ pc = "idle" /\ monitor = "off"
  /\ hung = "nothing" /\ fe_int = FALSE
  /\ online = Chips /\ chip = [c \in Chips |-> "runs"]
  /\ owes = [c \in Chips |-> Nothing]
  /\ hangs = MaxHangs /\ requests = MaxRequests /\ moves = MaxMoves
  /\ did = "nothing" /\ asked = "no" /\ disturbed = {}

Next ==
  \/ Work
  \/ MonitorLooks \/ MonitorWrites
  \/ TxTimeout \/ ChipAsks \/ ModeChange
  \/ DebugForce \/ DebugResetAll \/ DebugReset
  \/ Hangs("fe") \/ Hangs("wdma") \/ FeError \/ FeIrq
  \/ \E c \in Chips : Answer(c) \/ AnswerFails(c) \/ Moves(c)

Spec == Init /\ [][Next]_vars

(* The work queue runs the work, and the timer expires; the chips may never
   answer.                                                                  *)
Fairness == WF_vars(Work) /\ WF_vars(MonitorLooks) /\ WF_vars(MonitorWrites)
FairSpec == Spec /\ Fairness

-----------------------------------------------------------------------------

(* The types of the driver's variables.  reset_lock is held exactly between
   the start of the work and the restart of the monitor.                    *)
TypeOK ==
  /\ reset_lock = IF pc \in {"idle", "tail"} THEN 0 ELSE 1
  /\ force \in Nat
  /\ mtk_reset_flag \in Flags
  /\ mtk_stop_fail \in BOOLEAN
  /\ mtk_rest_cnt \in Int /\ wait_ser_done \in Nat
  /\ pending \in BOOLEAN /\ armed \in BOOLEAN
  /\ pc \in Places /\ monitor \in {"off", "start_reset", "stop_traffic"}
  /\ hung \in {"nothing", "fe", "wdma"} /\ fe_int \in BOOLEAN
  /\ online \subseteq Chips
  /\ chip \in [Chips -> {"runs", "stop_traffic", "start_reset"}]
  /\ owes \in [Chips -> [Events -> 0 .. MaxOwed]]
  /\ hangs \in 0 .. MaxHangs /\ requests \in 0 .. MaxRequests
  /\ moves \in 0 .. MaxMoves
  /\ did \in {"nothing", "fe", "fe_wdma"}
  /\ asked \in {"no", "queued", "served"}
  /\ disturbed \subseteq Disturbances

(* The hardware is reset only when every chip has answered what it was told,
   unless a wait timed out now or before, there was a superfluous completion or
   a chip failed: wait_ser_done is never reinitialised, mtk_rest_cnt is not reset
   when a wait times out, and the answers of the others to the first event are
   counted as answers to the second; a later reset may then start too early.  *)
AllAnswered ==
  pc = "init" /\ disturbed \subseteq {"overwritten"} =>
    \A c \in online : owes[c] = Nothing

(* The WDMAs are reset only under chips that reset themselves, unless somebody
   wrote the flag after the chips were told.                                *)
WdmaOnlyUnderReset ==
  pc = "release" /\ did = "fe_wdma" /\ disturbed \cap {"overwritten", "superfluous"} = {} =>
    \A c \in online : chip[c] # "stop_traffic"

(* After a reset every chip runs again, unless the event that releases it was
   chosen from a flag that was written in between.                          *)
ChipsReleased ==
  pc \in {"idle", "tail"} /\ disturbed \cap {"overwritten", "superfluous"} = {} =>
    \A c \in online : chip[c] = "runs"

(* mtk_hw_init never takes the work for the first initialisation and returns
   without a reset.  It follows from what TypeOK says of reset_lock; no run
   checks it.                                                               *)
ResetNotSkipped == pc = "release" => did # "nothing"

(* A reset ends, whatever the chips answer.                                 *)
ResetEnds == pc # "idle" ~> pc = "idle"

(* As long as resets are enabled a hang of the engine is repaired.          *)
HangRepaired == <>[](force = 1) => []<>(hung # "fe")

(* And so is a hang of a WDMA with MTK_NETSYS_V3: what the monitor asks for is not
   lost on the way to the reset, except between the restart of the timer and the
   end of the work, where mtk_reset_flag is cleared; if the monitor stops writing
   it there, a reset of the WDMAs follows.                                  *)
WdmaHangRepaired ==
  NetsysV3 /\ <>[](force = 1) /\ <>[][pc = "tail" => ~MonitorWrites]_vars =>
    []<>(hung = "nothing")

(* What the code does not keep; no run checks the next two.                 *)

(* "1  FE and WDMA reset" (mtk_eth_dbg.c) says that the reset which debugfs 1
   asked for resets the WDMAs, too.  It does not hold: nobody writes the flag,
   which the reset before has left "none".                                  *)
DebugResetsAll ==
  pc = "release" /\ asked = "served" /\ "overwritten" \notin disturbed =>
    did = "fe_wdma"

(* "0  disable reset" (mtk_eth_dbg.c): none begins while it is disabled.  It does
   not hold: an error interrupt is reason enough for a work that is queued.  *)
DisabledMeansNone == [][Prepare => force # 0]_vars
=============================================================================
