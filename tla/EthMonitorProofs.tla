-------------------------- MODULE EthMonitorProofs ---------------------------
(***************************************************************************)
(* What the hang monitor counts and reports, for any units and any number  *)
(* of them that look stuck: which counts may be older than the hang        *)
(* (CountsAreFresh) and which alarms may come too soon (NoFalseAlarm), and *)
(* no alarm at all of the units whose count is set back by the call that   *)
(* raises it.                                                              *)
(***************************************************************************)
EXTENDS EthMonitor, TLAPS

\* The counts of the QDMA RX and of most of the MACs do not outlive the call that
\* raises them.
CountsLost == \A u \in Units : u.how # "plain" => cnt[u] = 0
OnlyPlainReported == \A u \in reported : u.how = "plain"

CountsBounded == \A u \in Units : cnt[u] <= Limit(u)

IInv == TypeOK /\ CountsBounded /\ CountsAreFresh /\ NoFalseAlarm /\ CountsLost /\ OnlyPlainReported

LEMMA CapBounds ==
  ASSUME NEW u, NEW n \in Nat
  PROVE  /\ Cap(u, n) \in 0 .. 5 /\ Cap(u, n) <= n
         /\ n >= Limit(u) => Cap(u, n) = Limit(u)
         /\ n < Limit(u) => Cap(u, n) = n
  BY DEF Cap, Limit

\* What one call makes of a count that is no older than the hang.
LEMMA CountedBounds ==
  ASSUME IInv, NEW u \in Units, NEW sees \in BOOLEAN
  PROVE  /\ Counted(u, sees) \in 0 .. 5
         /\ u.how # "plain" => Counted(u, sees) = 0
         /\ ~sees => Counted(u, sees) = 0
         /\ sees => Counted(u, sees) <= Cap(u, cnt[u] + 1)
<1>1. cnt[u] \in 0 .. 5 /\ (u.how # "plain" => cnt[u] = 0)
  BY DEF IInv, TypeOK, CountsLost
<1>2. Limit(u) \in {3, 5}
  BY DEF Limit
<1>3. Cap(u, cnt[u] + 1) \in 0 .. 5
  BY <1>1, CapBounds
<1>4. u.how \in {"plain", "inner", "apart"}
  BY DEF Units, Unit
<1>5. CASE u.how = "inner"
  <2>1. Counted(u, sees) = Inner(u, sees)
    BY <1>5 DEF Counted
  <2>2. Inner(u, sees) = 0
    BY <1>1, <1>2, <1>5 DEF Inner
  <2> QED
    BY <1>5, <1>3, <2>1, <2>2
<1>6. CASE u.how = "apart"
  <2>1. Counted(u, sees) = Apart(u, sees)
    BY <1>6 DEF Counted
  <2>2. Apart(u, sees) = 0
    BY <1>1, <1>6 DEF Apart, Limit
  <2> QED
    BY <1>6, <1>3, <2>1, <2>2
<1>7. CASE u.how \notin {"inner", "apart"}
  <2>1. Counted(u, sees) = Plain(u, sees)
    BY <1>7 DEF Counted
  <2> QED
    BY <1>1, <1>7, <1>3, <1>4, <2>1 DEF Plain
<1> QED
  BY <1>5, <1>6, <1>7

LEMMA TickKeeps ==
  ASSUME IInv, NEW S, mtk_dma_monitor(S)
  PROVE  IInv'
<1> DEFINE n == [u \in Units |-> err_cnt(u, S)]
           over == {u \in Units : ~Queue(u) /\ n[u] >= Limit(u)}
           looked == {u \in Units : \A v \in over : Place[u.fn] <= Place[v.fn]}
<1>0. Round(n, over, looked, S)
  BY DEF mtk_dma_monitor
<1> HIDE DEF n
<1>1. /\ cnt' = [u \in Units |-> IF u \in looked THEN n[u] ELSE cnt[u]]
      /\ moved' = (moved \cup (Units \ S)) \ looked
      /\ pending' = (pending \/ over # {}) /\ reported' = over \cap looked
      /\ still' = [u \in Units |-> IF u \in S THEN Cap(u, still[u] + 1) ELSE 0]
      /\ \E free \in SUBSET ((looked \cap TdmaRx) \ S) :
           idle' = (idle \ looked) \cup free
      /\ skipped' = {u \in Units : /\ Level(u)
                                   /\ u \notin looked \/ (u \in skipped /\ Sees(u, S))}
      /\ hung' = hung
  BY <1>0 DEF Round
<1> USE DEF n
<1>2. ASSUME NEW u \in Units
      PROVE  /\ n[u] \in 0 .. 5
             /\ u.how # "plain" => n[u] = 0
             /\ ~Sees(u, S) => n[u] = 0
             /\ Sees(u, S) => n[u] <= Cap(u, cnt[u] + 1)
  <2> DEFINE s == Sees(u, S) /\ (u.fn = "wdma_tx" /\ ~Queue(u) => OqFull(S))
  <2>1. s \in BOOLEAN /\ n[u] = Counted(u, s)
    BY DEF err_cnt
  <2>2. cnt[u] + 1 \in Nat
    BY DEF IInv, TypeOK
  <2> HIDE DEF s, n
  <2>3. /\ Counted(u, s) \in 0 .. 5
        /\ u.how # "plain" => Counted(u, s) = 0
        /\ ~s => Counted(u, s) = 0
        /\ s => Counted(u, s) <= Cap(u, cnt[u] + 1)
    BY <2>1, CountedBounds
  <2>4. s => Sees(u, S)
    BY DEF s
  <2>5. Cap(u, cnt[u] + 1) >= 0
    BY <2>2, CapBounds
  <2> QED
    BY <2>1, <2>3, <2>4, <2>5
<1> HIDE DEF n
<1>3. ASSUME NEW u \in Units
      PROVE  /\ cnt'[u] = IF u \in looked THEN n[u] ELSE cnt[u]
             /\ still'[u] = IF u \in S THEN Cap(u, still[u] + 1) ELSE 0
             /\ cnt[u] \in 0 .. 5 /\ still[u] \in 0 .. 5
             /\ still'[u] \in 0 .. 5
  <2>1. still[u] + 1 \in Nat /\ cnt[u] \in 0 .. 5 /\ still[u] \in 0 .. 5
    BY DEF IInv, TypeOK
  <2> QED
    BY <1>1, <2>1, CapBounds
<1>4. TypeOK'
  <2>1. cnt' \in [Units -> 0 .. 5]
    <3>1. \A u \in Units : (IF u \in looked THEN n[u] ELSE cnt[u]) \in 0 .. 5
      BY <1>2, <1>3
    <3> QED
      BY <1>1, <3>1
  <2>2. still' \in [Units -> 0 .. 5]
    <3>1. \A u \in Units : (IF u \in S THEN Cap(u, still[u] + 1) ELSE 0) \in 0 .. 5
      BY <1>3
    <3> QED
      BY <1>1, <3>1
  <2>3. moved' \subseteq Units /\ hung' \subseteq Units /\ reported' \subseteq Units
        /\ pending' \in BOOLEAN /\ skipped' \subseteq Units
    BY <1>1 DEF IInv, TypeOK
  <2>4. idle' \subseteq TdmaRx
    BY <1>1 DEF IInv, TypeOK
  <2>5. (idle \subseteq TdmaRx)'
    BY <2>4 DEF TdmaRx
  <2> QED
    BY <2>1, <2>2, <2>3, <2>5 DEF TypeOK
<1>5. ASSUME NEW u \in Units, u \in looked, Level(u) => u \notin skipped'
      PROVE  n[u] <= still'[u]
  <2>1. CASE ~Sees(u, S)
    BY <1>2, <1>3, <2>1
  <2>2. CASE Sees(u, S)
    <3>1. u \in S /\ u \notin (IF Level(u) THEN skipped ELSE moved)
      BY <1>1, <1>5, <2>2 DEF Sees
    <3>2. cnt[u] <= still[u]
      BY <1>3, <3>1 DEF IInv, CountsAreFresh
    <3>3. Cap(u, cnt[u] + 1) <= Cap(u, still[u] + 1)
      BY <1>3, <3>2 DEF Cap, Limit
    <3>4. Cap(u, cnt[u] + 1) \in 0 .. 5 /\ Cap(u, still[u] + 1) \in 0 .. 5
      BY <1>3, CapBounds
    <3> QED
      BY <1>2, <1>3, <2>2, <3>1, <3>3, <3>4
  <2> QED
    BY <2>1, <2>2
<1>6. CountsAreFresh'
  <2> SUFFICES ASSUME NEW u \in Units, u \notin (IF Level(u) THEN skipped' ELSE moved')
               PROVE  cnt'[u] <= still'[u]
    BY <1>4 DEF CountsAreFresh, Level, TypeOK
  <2>1. CASE u \in looked
    BY <1>3, <1>5, <2>1
  <2>2. CASE u \notin looked
    <3>1. ~Level(u) /\ u \in S /\ u \notin moved
      BY <1>1, <2>2
    <3>2. cnt[u] <= still[u]
      BY <1>3, <3>1 DEF IInv, CountsAreFresh
    <3>3. Cap(u, still[u] + 1) >= cnt[u]
      <4>1. cnt[u] <= Limit(u)
        BY DEF IInv, CountsBounded
      <4>2. Limit(u) \in {3, 5}
        BY DEF Limit
      <4> QED
        BY <1>3, <3>2, <4>1, <4>2 DEF Cap
    <3> QED
      BY <1>3, <2>2, <3>1, <3>3
  <2> QED
    BY <2>1, <2>2
<1>7. NoFalseAlarm'
  <2> SUFFICES ASSUME NEW u \in reported', Level(u) => u \notin skipped'
               PROVE  still'[u] >= 3
    BY DEF NoFalseAlarm, Level
  <2>1. u \in Units /\ u \in looked /\ n[u] >= Limit(u)
    BY <1>1
  <2>2. Limit(u) >= 3 /\ Limit(u) \in Nat
    BY DEF Limit
  <2>3. n[u] <= still'[u] /\ n[u] \in 0 .. 5 /\ still'[u] \in 0 .. 5
    BY <1>2, <1>3, <1>5, <2>1
  <2> QED
    BY <2>1, <2>2, <2>3
<1>8. CountsLost'
  BY <1>2, <1>3 DEF IInv, CountsLost
<1>9. OnlyPlainReported'
  <2> SUFFICES ASSUME NEW u \in reported', u.how # "plain"
               PROVE  FALSE
    BY DEF OnlyPlainReported
  <2>1. u \in Units /\ n[u] >= Limit(u)
    BY <1>1
  <2>2. n[u] = 0 /\ Limit(u) \in {3, 5}
    BY <1>2, <2>1 DEF Limit
  <2> QED
    BY <2>1, <2>2
<1>10. CountsBounded'
  <2> SUFFICES ASSUME NEW u \in Units
               PROVE  cnt'[u] <= Limit(u)
    BY DEF CountsBounded, Limit
  <2>1. cnt[u] <= Limit(u) /\ Limit(u) \in {3, 5}
    BY DEF IInv, CountsBounded, Limit
  <2>2. Cap(u, cnt[u] + 1) <= Limit(u) /\ Cap(u, cnt[u] + 1) \in 0 .. 5
    BY <1>3, <2>1, CapBounds DEF Cap
  <2>3. n[u] <= Limit(u)
    BY <1>2, <2>1, <2>2
  <2> QED
    BY <1>3, <2>1, <2>3
<1> QED
  BY <1>4, <1>6, <1>7, <1>8, <1>9, <1>10 DEF IInv

THEOREM Invariance == Spec => []IInv
<1>1. Init => IInv
  <2> SUFFICES ASSUME Init PROVE IInv
    OBVIOUS
  <2>1. cnt \in [Units -> 0 .. 5] /\ still \in [Units -> 0 .. 5] /\ CountsLost
    BY DEF Init, CountsLost
  <2>4. TypeOK
    BY <2>1 DEF Init, TypeOK
  <2>2. CountsBounded
    BY DEF Init, CountsBounded, Limit
  <2>3. CountsAreFresh /\ NoFalseAlarm /\ OnlyPlainReported
    BY DEF Init, CountsAreFresh, NoFalseAlarm, OnlyPlainReported
  <2> QED
    BY <2>1, <2>2, <2>3, <2>4 DEF IInv
<1>2. ASSUME IInv, [Next]_vars
      PROVE  IInv'
  <2>1. CASE Tick
    BY <1>2, <2>1, TickKeeps DEF Tick
  <2>2. CASE Hangs
    <3>1. /\ hung' \subseteq Units
          /\ UNCHANGED <<cnt, moved, idle, pending, reported, still, skipped>>
      BY <2>2 DEF Hangs
    <3> QED
      BY <1>2, <3>1 DEF IInv, TypeOK, CountsAreFresh, NoFalseAlarm, CountsLost, CountsBounded,
                        OnlyPlainReported
  <2>3. CASE Reset
    <3>1. /\ moved' = Units /\ hung' = {} /\ reported' = {} /\ pending' = FALSE
          /\ cnt' = cnt /\ still' = [u \in Units |-> 0] /\ idle' = idle
          /\ skipped' = {u \in Units : Level(u)}
      BY <2>3 DEF Reset
    <3>5. cnt' \in [Units -> 0 .. 5] /\ still' \in [Units -> 0 .. 5]
      BY <1>2, <3>1 DEF IInv, TypeOK
    <3>2. TypeOK'
      BY <1>2, <3>1, <3>5 DEF IInv, TypeOK
    <3>3. CountsBounded' /\ CountsLost'
      BY <1>2, <3>1 DEF IInv, CountsBounded, CountsLost
    <3>4. CountsAreFresh' /\ NoFalseAlarm' /\ OnlyPlainReported'
      BY <3>1 DEF CountsAreFresh, NoFalseAlarm, OnlyPlainReported, Level
    <3> QED
      BY <3>2, <3>3, <3>4 DEF IInv
  <2>4. CASE UNCHANGED vars
    BY <1>2, <2>4 DEF vars, IInv, TypeOK, CountsAreFresh, NoFalseAlarm, CountsLost, CountsBounded,
                      OnlyPlainReported
  <2> QED
    BY <1>2, <2>1, <2>2, <2>3, <2>4 DEF Next
<1> QED
  BY <1>1, <1>2, PTL DEF Spec

\* mtk_dma_monitor skips functions, and resets leave err_cnt as it is: a unit that is
\* compared with its last look keeps an old count at most until its next look; one of
\* Level only if it was not looked at, or was reset, since a look found it well.
THEOREM MonitorFresh == Spec => []CountsAreFresh
<1>1. IInv => CountsAreFresh
  BY DEF IInv
<1> QED
  BY <1>1, Invariance, PTL

\* mtk_dma_monitor reports no unit that was not stuck for three seconds, other than one
\* of Level whose count was kept over rounds that skipped it or over a reset.
THEOREM MonitorTrue == Spec => []NoFalseAlarm
<1>1. IInv => NoFalseAlarm
  BY DEF IInv
<1> QED
  BY <1>1, Invariance, PTL

\* A hang of the QDMA RX, of a GMAC or of the TX of a GDM is never reported.
THEOREM MonitorDeaf == Spec => []OnlyPlainReported
<1>1. IInv => OnlyPlainReported
  BY DEF IInv
<1> QED
  BY <1>1, Invariance, PTL
=============================================================================
