----------------------------- MODULE EthMonitor ------------------------------
(***************************************************************************)
(* The hang monitor of the Ethernet driver (mtk_eth_reset.c): once a second *)
(* a timer calls nine functions, each of which looks at the registers of   *)
(* the units it knows and counts how often it found one stuck.  The first  *)
(* function that reports a hang asks for a reset, and those after it are   *)
(* not called.  What the reset does is in EthReset; here it only repairs.  *)
(*                                                                         *)
(* Of the registers only this is kept: whether a unit looks busy, and      *)
(* whether it has moved since the function looked at it last.  That a      *)
(* pointer goes round and stops where it was is left out.                  *)
(***************************************************************************)
EXTENDS Integers, Sequences

CONSTANTS
  Wdmas,     \* the WDMAs, which are the engines of the wifi chips
  Macs,      \* the MACs whose network device is running
  Tdmas      \* the TDMA, which only MTK_NETSYS_V3 has

VARIABLES
  cnt,      \* err_cnt of each unit, static: a reset leaves it
  moved,    \* units that moved since they were looked at
  idle,     \* pre_fsm of mtk_monitor_tdma_rx is 0: it was idle at the last look
  pending,  \* a reset was asked for
  hung,     \* units that will not move until a reset
  reported, \* history: the units that were reported at the last tick
  still,    \* history: for how many ticks a unit has looked stuck
  skipped   \* history: units of Level that were not looked at, or were reset, since
            \* a look last found them well

vars == <<cnt, moved, idle, pending, hung, reported, still, skipped>>

\* mtk_reset_monitor_func
Functions == <<"wdma_tx", "wdma_rx", "qdma_tx", "qdma_rx", "adma_rx", "tdma_tx",
               "tdma_rx", "gdm_tx", "gdm_rx">>
Place == [f \in {Functions[i] : i \in 1 .. Len(Functions)} |->
            CHOOSE i \in 1 .. Len(Functions) : Functions[i] = f]

\* `how': in which of three ways the function counts, see below
Unit(f, part, how, ids) ==
  {[fn |-> f, part |-> part, how |-> how, id |-> i] : i \in ids}

Units ==
  \* the queues of the PSE that mtk_monitor_wdma_tx looks at
  Unit("wdma_tx", "oq", "plain", {0})
  \cup Unit("wdma_tx", "dma", "plain", Wdmas)
  \cup Unit("wdma_rx", "dma", "plain", Wdmas)
  \cup Unit("qdma_tx", "dma", "plain", {0})
  \cup Unit("qdma_rx", "dma", "inner", {0})
  \cup Unit("adma_rx", "dma", "plain", {0})
  \cup Unit("tdma_tx", "dma", "plain", Tdmas)
  \cup Unit("tdma_rx", "dma", "plain", Tdmas)
  \cup Unit("gdm_tx", "gmac", "apart", Macs)
  \cup Unit("gdm_tx", "gdm", "apart", Macs)
  \cup Unit("gdm_rx", "gmac", "apart", Macs)
  \cup (IF Tdmas = {} THEN {} ELSE Unit("gdm_rx", "gdm", "plain", Macs))

Queue(u) == u.part = "oq"
\* found stuck by what it shows now; the others are compared with the last look
Level(u) == u.fn \in {"qdma_tx", "tdma_rx"}
TdmaRx == {u \in Units : u.fn = "tdma_rx"}
\* the error count at which a hang is reported
Limit(u) == IF u.how = "apart" THEN 5 ELSE 3

-----------------------------------------------------------------------------
(* One call of a function for one unit.  `sees' is what it finds.          *)

Cap(u, n) == IF n > Limit(u) THEN Limit(u) ELSE n
\* MISTAKE: the count is not set back when the unit moves
PlainKeeps(u, sees) == IF sees THEN Cap(u, cnt[u] + 1) ELSE cnt[u]
\* if (sees) { err_cnt++; if (err_cnt >= 3) ... else err_cnt = 0 }
Inner(u, sees) ==
  IF ~sees THEN cnt[u] ELSE IF cnt[u] + 1 >= Limit(u) THEN Limit(u) ELSE 0
\* if (sees) { err_cnt++; if (err_cnt >= 3) ... } else err_cnt = 0
Plain(u, sees) == IF sees THEN Cap(u, cnt[u] + 1) ELSE 0
\* if (sees) err_cnt++; if (err_cnt > 4) ... else err_cnt = 0
Apart(u, sees) ==
  LET n == IF sees THEN cnt[u] + 1 ELSE cnt[u] IN IF n >= Limit(u) THEN n ELSE 0

Counted(u, sees) ==
  CASE u.how = "inner" -> Inner(u, sees)
    [] u.how = "apart" -> Apart(u, sees)
    [] OTHER -> Plain(u, sees)

-----------------------------------------------------------------------------
(* The timer.  The units in S look stuck, the others have moved.           *)

\* mtk_monitor_tdma_rx, too, has to see its unit busy at two looks on end.
Sees(u, S) == u \in S /\ u \notin (IF Level(u) THEN idle ELSE moved)
\* a WDMA is only stuck while a queue is
OqFull(S) == \E q \in Units : Queue(q) /\ Counted(q, Sees(q, S)) >= Limit(q)
err_cnt(u, S) ==
  Counted(u, Sees(u, S) /\ (u.fn = "wdma_tx" /\ ~Queue(u) => OqFull(S)))

\* a function that reports something ends the round: n is what the counts would be
\* if all were called, and `over' the units that would be reported.  A unit that is
\* not stuck may show itself idle or not.
Round(n, over, looked, S) ==
  /\ cnt' = [u \in Units |-> IF u \in looked THEN n[u] ELSE cnt[u]]
  /\ moved' = (moved \cup (Units \ S)) \ looked
  /\ \E free \in SUBSET ((looked \cap TdmaRx) \ S) : idle' = (idle \ looked) \cup free
  /\ pending' = (pending \/ over # {}) /\ reported' = over \cap looked
  /\ still' = [u \in Units |-> IF u \in S THEN Cap(u, still[u] + 1) ELSE 0]
  /\ skipped' = {u \in Units : /\ Level(u)
                               /\ u \notin looked \/ (u \in skipped /\ Sees(u, S))}
  /\ UNCHANGED hung
mtk_dma_monitor(S) ==
  \E n \in {[u \in Units |-> err_cnt(u, S)]} :
  \E over \in {{u \in Units : ~Queue(u) /\ n[u] >= Limit(u)}} :
  \E looked \in {{u \in Units : \A v \in over : Place[u.fn] <= Place[v.fn]}} :
    Round(n, over, looked, S)

\* what hangs is stuck, a WDMA together with its queue; another unit may look stuck
\* although it works: this bounds what is checked
Few == {{}} \cup {{u} : u \in Units}
StuckSets ==
  LET always == {u \in Units : u \in hung \/
                    (Queue(u) /\ \E w \in hung : w.fn = "wdma_tx")}
  IN  {always \cup more : more \in Few}
Tick == \E S \in StuckSets : mtk_dma_monitor(S)

Hangs ==
  /\ hung = {} /\ \E u \in {w \in Units : ~Queue(w)} : hung' = {u}
  /\ UNCHANGED <<cnt, moved, idle, pending, reported, still, skipped>>

\* mtk_pending_work; the static variables stay as they are
Reset ==
  /\ pending /\ pending' = FALSE /\ hung' = {} /\ reported' = {}
  /\ moved' = Units /\ still' = [u \in Units |-> 0]
  /\ skipped' = {u \in Units : Level(u)}
  /\ UNCHANGED <<cnt, idle>>

Init ==
  /\ cnt = [u \in Units |-> 0] /\ moved = Units /\ pending = FALSE
  /\ hung = {} /\ reported = {} /\ still = [u \in Units |-> 0]
  /\ idle = TdmaRx /\ skipped = {}

Next == Tick \/ Hangs \/ Reset
Spec == Init /\ [][Next]_vars
\* the timer goes off and the work is done
FairSpec == Spec /\ WF_vars(Tick) /\ WF_vars(Reset)

-----------------------------------------------------------------------------
(* Properties.                                                             *)

\* Every variable has its type.
TypeOK ==
  /\ cnt \in [Units -> 0 .. 5] /\ still \in [Units -> 0 .. 5]
  /\ moved \subseteq Units /\ hung \subseteq Units /\ reported \subseteq Units
  /\ idle \subseteq TdmaRx /\ skipped \subseteq Units
  /\ pending \in BOOLEAN

(* No count is older than the hang, but for these.  A unit that is compared and
   that moved while its function was not called, or was reset, keeps its count
   until the next look, which sets it back.  A unit of Level (mtk_monitor_qdma_tx
   and mtk_monitor_tdma_rx) may keep an old count for as long as it looks stuck:
   from a round that ended before its function, or from before a reset.      *)
CountsAreFresh ==
  \A u \in Units : cnt[u] > still[u] => u \in (IF Level(u) THEN skipped ELSE moved)

(* A unit is reported only if it has looked stuck for at least three seconds on
   end; one of Level also sooner, but then its function was not called, or the unit
   was reset, since a look last found it well.                               *)
NoFalseAlarm ==
  \A u \in reported : still[u] >= 3 \/ (Level(u) /\ u \in skipped)

\* A hang ends: it is counted up to its report, however often other units make the
\* monitor stop before it gets there.
HangsEnd == (\E u \in hung : u.how = "plain") ~> (hung = {})

\* "QDMA Rx Info", "GMAC%d Tx Info", ...: the hangs of these are reported too.
AllHangsEnd == (hung # {}) ~> (hung = {})
=============================================================================
