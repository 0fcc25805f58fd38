------------------------------- MODULE EthTx --------------------------------
(***************************************************************************)
(* The transmit ring of the Ethernet driver (mtk_eth_soc.c, QDMA): the     *)
(* network devices that fill it under page_lock, the DMA engine that reads *)
(* it, the NAPI poll that reclaims it, the interrupt that starts the poll, *)
(* and what opens, closes and resets the devices under the rtnl lock.      *)
(*                                                                         *)
(* All devices use one ring.  A descriptor is known by its index; what it  *)
(* says is not modelled, only whether a buffer is attached to it: the      *)
(* first of a packet holds the skb, the others a dummy (MTK_DMA_DUMMY_DESC)*)
(* for a fragment.  A device has one queue here, and `force' (see EthReset) *)
(* is 1 as at the start, so that pending_work does reset.  The byte queue  *)
(* limits and the receive rings are left out.                              *)
(***************************************************************************)
EXTENDS Integers, FiniteSets

CONSTANTS
  Devs,    \* the network devices
  N,       \* tx_dma_size
  Thresh,  \* ring->thresh, MAX_SKB_FRAGS: a packet has up to Thresh + 1 parts
  Budget,  \* packets a poll may reclaim
  Nobody   \* no device

ASSUME TxAssumption ==
  /\ N \in Nat /\ Thresh \in Nat /\ Thresh + 3 < N
  /\ Budget \in Nat \ {0}
  /\ Nobody \notin Devs

VARIABLES
  \* struct mtk_tx_ring
  alive,     \* dma and buf are allocated
  buf,       \* per descriptor: "none", "skb" or "frag" (MTK_DMA_DUMMY_DESC)
  nextFree,  \* next_free
  lastFree,  \* last_free, and last_free_ptr outside of the poll's loop
  free,      \* free_count
  \* the hardware
  ctx,       \* ctx_ptr: the first descriptor that is not to be sent yet
  drx,       \* drx_ptr: the last descriptor that was sent
  status,    \* MTK_TX_DONE_INT in the interrupt status
  mask,      \* MTK_TX_DONE_INT in the interrupt mask
  engine,    \* MTK_TX_DMA_EN
  \* the poll
  napi,      \* where mtk_napi_tx is; "off": napi_disable, "idle": not scheduled
  dma,       \* drx_ptr as it was read
  left,      \* what is left of the budget
  late,      \* napi_complete is over, mtk_tx_irq_enable is not
  \* the network devices
  up,        \* netif_running
  awake,     \* the queues are not stopped
  users,     \* the devices counted in dma_refcnt
  xmit,      \* the thread in mtk_start_xmit that holds page_lock
  batch,     \* devices whose thread has promised one more packet (xmit_more)
  \* opening, closing and mtk_pending_work
  job,       \* what the holder of the rtnl lock does
  at,        \* where it is
  todo,      \* the devices it still has to stop or to open
  who,       \* the one it is at
  pending,   \* pending_work is queued
  resetting  \* MTK_RESETTING

ringV == <<alive, buf, nextFree, lastFree, free>>
hwV   == <<ctx, drx, status, mask, engine>>
pollV == <<napi, dma, left, late>>
devV  == <<up, awake, users, xmit, batch>>
jobV  == <<job, at, todo, who, pending, resetting>>
vars  == <<ringV, hwV, pollV, devV, jobV>>

-----------------------------------------------------------------------------
(* The ring: txd2 of each descriptor points to the next one.               *)

Ring == 0 .. N - 1
Plus(i, n) == IF i + n < N THEN i + n ELSE i + n - N
Dist(i, k) == IF i <= k THEN k - i ELSE k - i + N
\* n descriptors from i on
Span(i, n) == {k \in Ring : Dist(i, k) < n}

\* descriptors between the last reclaimed and the next free one
InUse == Span(Plus(lastFree, 1), Dist(lastFree, nextFree) - 1)
\* descriptors the hardware was told about and has not sent
Told == Span(Plus(drx, 1), Dist(drx, ctx) - 1)

NoRing == [i \in Ring |-> "none"]

\* MISTAKE: the descriptor that stays free is counted too
NewRingAll ==
  /\ buf' = NoRing
  /\ nextFree' = 0 /\ lastFree' = N - 1 /\ free' = N - 1
  /\ ctx' = 0 /\ drx' = N - 1
\* mtk_tx_alloc; the values of a ring that is not there do not matter
NewRing ==
  /\ buf' = NoRing
  /\ nextFree' = 0 /\ lastFree' = N - 1 /\ free' = N - 2
  /\ ctx' = 0 /\ drx' = N - 1

-----------------------------------------------------------------------------
(* mtk_start_xmit, called by the stack under the lock of the queue.        *)

NoXmit == [at |-> "none", dev |-> Nobody, n |-> 0, more |-> FALSE]
Goto(place) == xmit' = [xmit EXCEPT !.at = place]

\* back in the stack, which goes on with its batch unless the queue is stopped
Leave ==
  /\ xmit' = NoXmit
  /\ batch' = IF xmit.more /\ xmit.dev \in awake' THEN batch \cup {xmit.dev}
                                                  ELSE batch \ {xmit.dev}
StopQueue == awake' = awake \ {xmit.dev}

\* the stack sends a packet of n parts, with or without another to follow
XmitCalled(d, n, more) ==
  /\ xmit.at = "none" /\ d \in up /\ d \in awake
  /\ xmit' = [at |-> "begin", dev |-> d, n |-> n, more |-> more]
  /\ UNCHANGED <<ringV, hwV, pollV, up, awake, users, batch, jobV>>

XmitBegin ==
  /\ xmit.at = "begin"
  /\ UNCHANGED <<ringV, hwV, pollV, up, awake, users, jobV>>
  /\ IF resetting THEN Leave ELSE Goto("room") /\ UNCHANGED batch

\* MISTAKE: the fragments are not counted
NeedsFirst(n) == 1
\* mtk_cal_txd_req
Needs(n) == n

\* "Tx Ring full when queue awake!": NETDEV_TX_BUSY
XmitBusy ==
  /\ xmit.at = "room" /\ free <= Needs(xmit.n)
  /\ StopQueue /\ Leave
  /\ UNCHANGED <<ringV, hwV, pollV, up, users, jobV>>

\* mtk_tx_map
XmitMap ==
  /\ xmit.at = "room" /\ free > Needs(xmit.n)
  /\ buf' = [i \in Ring |->
               IF i = nextFree THEN "skb"
               ELSE IF i \in Span(nextFree, xmit.n) THEN "frag" ELSE buf[i]]
  /\ nextFree' = Plus(nextFree, xmit.n)
  /\ free' = free - xmit.n
  /\ Goto(IF xmit.more /\ xmit.dev \in awake THEN "thresh" ELSE "bell")
  /\ UNCHANGED <<alive, lastFree, hwV, pollV, up, awake, users, batch, jobV>>

\* a mapping that failed is unwound, or there is no memory: the packet is dropped
XmitDrops ==
  /\ xmit.at = "room" /\ free > Needs(xmit.n)
  /\ UNCHANGED <<ringV, hwV, pollV, up, awake, users, jobV>>
  /\ Leave

XmitBell ==
  /\ xmit.at = "bell"
  /\ ctx' = nextFree /\ Goto("thresh")
  /\ UNCHANGED <<ringV, drx, status, mask, engine, pollV, up, awake, users, batch,
                 jobV>>

\* free_count is read, and then the queue is stopped
XmitThresh ==
  /\ xmit.at = "thresh"
  /\ UNCHANGED <<ringV, hwV, pollV, up, awake, users, jobV>>
  /\ IF free <= Thresh THEN Goto("stop") /\ UNCHANGED batch ELSE Leave
XmitStop ==
  /\ xmit.at = "stop"
  /\ StopQueue /\ Leave
  /\ UNCHANGED <<ringV, hwV, pollV, up, users, jobV>>

XmitStep == XmitBegin \/ XmitBusy \/ XmitMap \/ XmitDrops \/ XmitBell
            \/ XmitThresh \/ XmitStop

-----------------------------------------------------------------------------
(* The hardware, external.  A skb is attached to the first descriptor of its
   packet and freed with it, so drx_ptr has to move by whole packets.       *)

PacketOf(n) ==
  /\ \A k \in 1 .. n - 1 : buf[Plus(drx, k + 1)] = "frag"
  /\ n = Dist(drx, ctx) - 1 \/ buf[Plus(drx, n + 1)] = "skb"

HwSends ==
  /\ engine
  /\ \E n \in 1 .. Dist(drx, ctx) - 1 : PacketOf(n) /\ drx' = Plus(drx, n)
  /\ status' = TRUE
  /\ UNCHANGED <<ringV, ctx, mask, engine, pollV, devV, jobV>>

-----------------------------------------------------------------------------
(* mtk_handle_irq_tx and mtk_napi_tx.                                      *)

\* while napi is off or running, napi_schedule_prep fails
Irq ==
  /\ status /\ mask /\ napi = "idle"
  /\ napi' = "ack" /\ mask' = FALSE
  /\ UNCHANGED <<ringV, ctx, drx, status, engine, dma, left, late, devV, jobV>>

PollAck ==
  /\ napi = "ack" /\ napi' = "read" /\ status' = FALSE
  /\ UNCHANGED <<ringV, ctx, drx, mask, engine, dma, left, late, devV, jobV>>

PollRead ==
  /\ napi = "read" /\ napi' = "reap"
  /\ dma' = drx /\ left' = Budget
  /\ UNCHANGED <<ringV, hwV, late, devV, jobV>>

\* MISTAKE: everything that was mapped is reclaimed
MoreToReapMapped ==
  Plus(lastFree, 1) # nextFree /\ left > 0 /\ buf[Plus(lastFree, 1)] # "none"
\* the loop of mtk_poll_tx_qdma.  It also looks at the owner bit, but at the one
\* of the descriptor before, which was reclaimed: it is always set.
MoreToReap ==
  lastFree # dma /\ left > 0 /\ buf[Plus(lastFree, 1)] # "none"

PollReaps ==
  /\ napi = "reap" /\ MoreToReap
  /\ LET i == Plus(lastFree, 1) IN
       /\ left' = IF buf[i] = "skb" THEN left - 1 ELSE left
       /\ buf' = [buf EXCEPT ![i] = "none"]
       /\ lastFree' = i
  /\ free' = free + 1
  /\ UNCHANGED <<alive, nextFree, hwV, napi, dma, late, devV, jobV>>

\* mtk_queue_stopped, of any device; then free_count; then the queues are woken
PollReaped ==
  /\ napi = "reap" /\ ~MoreToReap
  /\ napi' = IF awake = Devs THEN "check" ELSE "room"
  /\ dma' = 0
  /\ UNCHANGED <<ringV, hwV, left, late, devV, jobV>>
PollRoom ==
  /\ napi = "room" /\ napi' = IF free > Thresh THEN "wake" ELSE "check"
  /\ UNCHANGED <<ringV, hwV, dma, left, late, devV, jobV>>
\* all queues of all devices, also of those that are closed
PollWakes ==
  /\ napi = "wake" /\ napi' = "check" /\ awake' = Devs
  /\ UNCHANGED <<ringV, hwV, dma, left, late, up, users, xmit, batch, jobV>>

\* MISTAKE: the interrupt is acknowledged after the poll
PollCheckAcks ==
  /\ napi = "check" /\ status' = FALSE
  /\ IF left = 0 THEN napi' = "ack" /\ UNCHANGED late
                 ELSE napi' = "idle" /\ late' = TRUE
  /\ left' = 0
  /\ UNCHANGED <<ringV, ctx, drx, mask, engine, dma, devV, jobV>>
\* the budget is used up or something was sent since: once more
PollCheck ==
  /\ napi = "check"
  /\ IF left = 0 \/ status THEN napi' = "ack" /\ UNCHANGED late
                           ELSE napi' = "idle" /\ late' = TRUE
  /\ left' = 0
  /\ UNCHANGED <<ringV, hwV, dma, devV, jobV>>
PollUnmasks ==
  /\ late /\ late' = FALSE /\ mask' = TRUE
  /\ UNCHANGED <<ringV, ctx, drx, status, engine, napi, dma, left, devV, jobV>>

PollStep == PollAck \/ PollRead \/ PollReaps \/ PollReaped \/ PollRoom
            \/ PollWakes \/ PollCheck \/ PollUnmasks

-----------------------------------------------------------------------------
(* mtk_open, mtk_stop and mtk_pending_work, under the rtnl lock.           *)

JobSame == UNCHANGED <<job, pending, resetting>>
\* no thread is between the lock of a queue of d and its unlock
QueueIdle(d) == xmit.dev # d /\ d \notin batch

OpenBegins(d) ==
  /\ job = "none" /\ d \notin up
  /\ job' = "up" /\ at' = "open" /\ who' = d /\ todo' = {}
  /\ UNCHANGED <<ringV, hwV, pollV, devV, pending, resetting>>

\* the stack takes its queues away first
CloseBegins(d) ==
  /\ job = "none" /\ d \in up /\ QueueIdle(d)
  /\ up' = up \ {d}
  /\ job' = "down" /\ at' = "stop" /\ who' = d /\ todo' = {}
  /\ UNCHANGED <<ringV, hwV, pollV, awake, users, xmit, batch, pending, resetting>>

\* reset_lock is 0
MayAsk == ~resetting \/ at = "end"
\* the watchdog of the stack: mtk_tx_timeout
TxTimeout ==
  /\ \E d \in up : d \notin awake
  /\ MayAsk /\ pending' = TRUE
  /\ UNCHANGED <<ringV, hwV, pollV, devV, job, at, todo, who, resetting>>

\* the other reasons for a reset: see EthReset
OthersAsk ==
  /\ MayAsk /\ pending' = TRUE
  /\ UNCHANGED <<ringV, hwV, pollV, devV, job, at, todo, who, resetting>>

\* what the work does next: the next device, or the reset of the hardware
NextToStop(rest) ==
  \/ \E d \in rest : who' = d /\ todo' = rest \ {d} /\ at' = "stop"
  \/ rest = {} /\ who' = Nobody /\ todo' = up /\ at' = "hw"
\* the other devices, or the end of the work
NextToOpen(rest) ==
  \/ \E d \in rest : who' = d /\ todo' = rest \ {d} /\ at' = "open"
  \/ rest = {} /\ who' = Nobody /\ todo' = {} /\ at' = "end"

\* MTK_RESETTING is set, and mtk_prepare_reset_fe masks the interrupt, ...
WorkBegins ==
  /\ pending /\ ~resetting /\ job = "none"
  /\ pending' = FALSE /\ resetting' = TRUE /\ mask' = FALSE
  /\ job' = "prepare" /\ at' = "quiet" /\ todo' = Devs
  /\ UNCHANGED <<ringV, ctx, drx, status, engine, pollV, devV, who>>
\* ... disables the queues of all devices, also of those that are closed, ...
Quiet ==
  /\ at = "quiet"
  /\ \E d \in todo : /\ QueueIdle(d)
                     /\ awake' = awake \ {d} /\ todo' = todo \ {d}
  /\ JobSame /\ UNCHANGED <<ringV, hwV, pollV, up, users, xmit, batch, at, who>>
\* ... and stops the engine.  Then the work lets go of the rtnl lock and waits for
\* the wifi chips, and devices may be opened and closed meanwhile.
Quieted ==
  /\ at = "quiet" /\ todo = {}
  /\ engine' = FALSE
  /\ job' = "none" /\ at' = "none"
  /\ UNCHANGED <<ringV, ctx, drx, status, mask, pollV, devV, todo, who, pending,
                 resetting>>

ResetBegins ==
  /\ resetting /\ job = "none"
  /\ job' = "reset" /\ NextToStop(up)
  /\ UNCHANGED <<ringV, hwV, pollV, devV, pending, resetting>>

\* netif_tx_disable
Disable ==
  /\ at = "stop" /\ QueueIdle(who) /\ at' = "drop"
  /\ awake' = awake \ {who}
  /\ JobSame /\ UNCHANGED <<ringV, hwV, pollV, up, users, xmit, batch, todo, who>>

Stopped == IF job = "reset" THEN NextToStop(todo) /\ JobSame
           ELSE /\ job' = "none" /\ at' = "none" /\ who' = Nobody
                /\ UNCHANGED <<todo, pending, resetting>>

\* refcount_dec_and_test: somebody else still uses the ring
DropRef ==
  /\ at = "drop" /\ users # {who}
  /\ users' = users \ {who} /\ Stopped
  /\ UNCHANGED <<ringV, hwV, pollV, up, awake, xmit, batch>>
\* nobody does: mtk_tx_irq_disable
DropLastRef ==
  /\ at = "drop" /\ users = {who}
  /\ users' = {} /\ mask' = FALSE /\ at' = "napi"
  /\ JobSame
  /\ UNCHANGED <<ringV, ctx, drx, status, engine, pollV, up, awake, xmit, batch, todo,
                 who>>
\* MISTAKE: the ring is freed without napi_disable
NapiLeftOn ==
  /\ at = "napi" /\ at' = "free"
  /\ JobSame /\ UNCHANGED <<ringV, hwV, pollV, devV, todo, who>>
\* napi_disable waits for the poll
NapiOff ==
  /\ at = "napi" /\ napi = "idle"
  /\ napi' = "off" /\ at' = "free"
  /\ JobSame /\ UNCHANGED <<ringV, hwV, dma, left, late, devV, todo, who>>
\* mtk_stop_dma, mtk_dma_free
FreeRing ==
  /\ at = "free"
  /\ engine' = FALSE /\ alive' = FALSE /\ NewRing /\ Stopped
  /\ UNCHANGED <<status, mask, pollV, devV>>

\* mtk_hw_init
HwInit ==
  /\ at = "hw"
  /\ status' = FALSE /\ mask' = FALSE /\ NextToOpen(todo) /\ JobSame
  /\ UNCHANGED <<ringV, ctx, drx, engine, pollV, devV>>

\* "we run 2 netdevs on the same dma ring so we only bring it up once"
OpenFirst ==
  /\ at = "open" /\ users = {}
  /\ alive' = TRUE /\ NewRing /\ engine' = TRUE /\ users' = {who}
  /\ napi' = "idle" /\ mask' = TRUE /\ at' = "start"
  /\ JobSame
  /\ UNCHANGED <<status, dma, left, late, up, awake, xmit, batch, todo, who>>
OpenNext ==
  /\ at = "open" /\ users # {}
  /\ users' = users \cup {who} /\ at' = "start"
  /\ JobSame
  /\ UNCHANGED <<ringV, hwV, pollV, up, awake, xmit, batch, todo, who>>

\* MISTAKE: the queues are only started by an open of the network stack
StartOpened == awake' = IF job = "up" THEN awake \cup {who} ELSE awake
Start == awake' = awake \cup {who}

Opened ==
  /\ at = "start" /\ Start
  /\ up' = up \cup {who}
  /\ IF job = "reset" THEN NextToOpen(todo) /\ JobSame
     ELSE /\ job' = "none" /\ at' = "none" /\ who' = Nobody
          /\ UNCHANGED <<todo, pending, resetting>>
  /\ UNCHANGED <<ringV, hwV, pollV, users, xmit, batch>>

ResetEnds ==
  /\ at = "end"
  /\ job' = "none" /\ at' = "none" /\ resetting' = FALSE
  /\ UNCHANGED <<ringV, hwV, pollV, devV, todo, who, pending>>

JobStep == Quiet \/ Quieted
           \/ Disable \/ DropRef \/ DropLastRef \/ NapiOff \/ FreeRing \/ HwInit
           \/ OpenFirst \/ OpenNext \/ Opened \/ ResetEnds

-----------------------------------------------------------------------------

Init ==
  /\ alive = FALSE /\ buf = NoRing
  /\ nextFree = 0 /\ lastFree = N - 1 /\ free = N - 2
  /\ ctx = 0 /\ drx = N - 1 /\ status = FALSE /\ mask = FALSE
  /\ engine = FALSE /\ napi = "off" /\ dma = 0 /\ left = 0 /\ late = FALSE
  /\ up = {} /\ awake = Devs /\ users = {} /\ xmit = NoXmit /\ batch = {}
  /\ job = "none" /\ at = "none" /\ todo = {} /\ who = Nobody
  /\ pending = FALSE /\ resetting = FALSE

Send == \E d \in Devs, n \in 1 .. Thresh + 1, more \in BOOLEAN :
          XmitCalled(d, n, more)
Next ==
  \/ Send \/ XmitStep
  \/ HwSends \/ Irq \/ PollStep
  \/ \E d \in Devs : OpenBegins(d) \/ CloseBegins(d)
  \/ TxTimeout \/ OthersAsk \/ WorkBegins \/ ResetBegins \/ JobStep

Spec == Init /\ [][Next]_vars

(* Threads that hold a lock go on, and a batch ends; the poll, the interrupt and
   the hardware go on; the rtnl mutex and the spin lock of a queue are fair; the
   watchdog fires.  Nobody has to send, to open or to close anything.       *)
BatchEnds(d) == d \in batch /\ \E n \in 1 .. Thresh + 1 : XmitCalled(d, n, FALSE)
FairSpec ==
  /\ Spec
  /\ WF_vars(XmitStep) /\ \A d \in Devs : SF_vars(BatchEnds(d))
  /\ WF_vars(HwSends) /\ WF_vars(Irq) /\ WF_vars(PollUnmasks)
  /\ WF_vars(PollStep)
  /\ WF_vars(TxTimeout) /\ SF_vars(WorkBegins \/ ResetBegins)
  /\ SF_vars(JobStep)

-----------------------------------------------------------------------------
(* Properties.                                                             *)

\* Every variable has its type.
TypeOK ==
  /\ alive \in BOOLEAN /\ buf \in [Ring -> {"none", "skb", "frag"}]
  /\ nextFree \in Ring /\ lastFree \in Ring /\ free \in 0 .. N - 2
  /\ ctx \in Ring /\ drx \in Ring /\ status \in BOOLEAN /\ mask \in BOOLEAN
  /\ engine \in BOOLEAN
  /\ napi \in {"off", "idle", "ack", "read", "reap", "room", "wake", "check"}
  /\ dma \in Ring /\ left \in 0 .. Budget /\ late \in BOOLEAN
  /\ up \subseteq Devs /\ awake \subseteq Devs /\ users \subseteq Devs
  /\ batch \subseteq Devs
  /\ xmit \in [at : {"none", "begin", "room", "bell", "thresh", "stop"},
               dev : Devs \cup {Nobody}, n : 0 .. Thresh + 1, more : BOOLEAN]
  /\ job \in {"none", "up", "down", "prepare", "reset"}
  /\ at \in {"none", "quiet", "open", "start", "stop", "drop", "napi", "free", "hw",
             "end"}
  /\ todo \subseteq Devs /\ who \in Devs \cup {Nobody}
  /\ pending \in BOOLEAN /\ resetting \in BOOLEAN

\* free_count, which the senders and the poll change without a common lock, says
\* exactly how many descriptors are free, the last free one is never used, and a
\* buffer is attached to each descriptor in use and to no other.
RingExact ==
  alive => /\ free = Dist(nextFree, lastFree) - 1 /\ free > 0
           /\ \A i \in Ring : buf[i] # "none" <=> i \in InUse

\* The buffer of a descriptor that the hardware was told about and has not sent
\* is not reclaimed and not overwritten, whatever is mapped, polled, closed or
\* reset meanwhile.
HardwareHolds ==
  alive => /\ Told \subseteq InUse
           /\ napi = "reap" => Told \cap Span(Plus(lastFree, 1),
                                              Dist(lastFree, dma)) = {}

\* The ring is there while a thread fills it or the poll reclaims it: closing the
\* last device and resetting the engine wait for both.
RingThere ==
  (xmit.at \in {"room", "bell", "thresh"} \/ napi = "reap") => alive

\* What was handed to the hardware is sent and reclaimed, or the ring goes: no
\* interrupt is lost between the acknowledgement, the poll and the unmasking.
Reclaimed == \A i \in Ring : (alive /\ i \in Told) ~> (buf[i] = "none")

\* A stopped queue is woken: by the poll, or, when the poll was over before the
\* queue was stopped, by the reset that the watchdog asks for.
QueueWakes ==
  \A d \in Devs : (d \in up /\ d \notin awake) ~> (d \in awake \/ d \notin up)

\* What the code does not keep; no run checks it.  "Tx Ring full when queue awake!"
\* is not to happen: a queue that is awake has room for any packet.  But a queue
\* with Thresh + 1 free descriptors is awake, and refuses a packet of as many.
AwakeHasRoom == xmit.at = "room" => free > Needs(xmit.n)
=============================================================================
