----------------------------- MODULE EthTxProofs -----------------------------
(***************************************************************************)
(* The transmit ring for every number of devices and descriptors: the      *)
(* types, the exact count of free descriptors and the buffers that are     *)
(* attached to them (RingExact), that nothing the hardware still owns is   *)
(* reclaimed (HardwareHolds), and that the ring is there while it is used  *)
(* (RingThere).                                                            *)
(***************************************************************************)
EXTENDS EthTx, TLAPS

-----------------------------------------------------------------------------
(* The inductive invariant.                                                *)

\* Going round from the last descriptor that was reclaimed: what the hardware has
\* sent, what it was told about, what is mapped, and the free ones.
Ordered ==
  /\ free = Dist(nextFree, lastFree) - 1 /\ free > 0
  /\ Dist(lastFree, drx) < Dist(lastFree, ctx)
  /\ Dist(lastFree, ctx) <= Dist(lastFree, nextFree)
  /\ napi = "reap" => Dist(lastFree, dma) <= Dist(lastFree, drx)
  /\ \A i \in Ring : buf[i] # "none" <=>
       (0 < Dist(lastFree, i) /\ Dist(lastFree, i) < Dist(lastFree, nextFree))

\* Where the holder of the rtnl lock is.
Places ==
  /\ job = "none" <=> at = "none"
  /\ job = "up" => at \in {"open", "start"}
  /\ job = "down" => at \in {"stop", "drop", "napi", "free"} /\ who \notin up
  /\ job = "prepare" <=> at = "quiet"
  /\ job \in {"prepare", "reset"} => resetting
  /\ at \in {"open", "start", "stop", "drop", "napi", "free"} => who \in Devs
  /\ at = "hw" => todo = up
  /\ at = "start" => who \in users

\* The devices that are counted, the ring and the poll.
Counts ==
  /\ at \in {"napi", "free"} => users = {}
  /\ users = {} /\ at # "napi" => napi = "off"
  /\ users # {} \/ at \in {"napi", "free"} => alive
  /\ job # "reset" => up \subseteq users
  /\ job = "reset" /\ at = "open" => up \subseteq users \cup todo \cup {who}
  /\ job = "reset" /\ at \in {"start", "end"} => up \subseteq users \cup todo
  /\ at = "end" => todo = {}

\* The thread in mtk_start_xmit.
Filling == xmit.at \in {"room", "bell", "thresh"}
Sender ==
  /\ xmit.at # "none" => xmit.n >= 1 /\ xmit.dev \in up
  /\ Filling => xmit.dev \in users
  /\ Filling /\ at = "drop" => xmit.dev # who

IInv == TypeOK /\ Ordered /\ Places /\ Counts /\ Sender

LEMMA Modulus == N \in Nat /\ N >= 4 /\ Thresh \in Nat /\ Thresh + 3 < N
                 /\ Budget \in Nat /\ Budget >= 1 /\ Nobody \notin Devs
  BY TxAssumption

LEMMA RingBounds ==
  ASSUME NEW i \in Ring, NEW k \in Ring
  PROVE  Dist(i, k) \in 0 .. N - 1 /\ (Dist(i, k) = 0 <=> i = k)
  BY Modulus DEF Ring, Dist

LEMMA PlusBounds ==
  ASSUME NEW i \in Ring, NEW n \in 0 .. N - 1
  PROVE  Plus(i, n) \in Ring /\ Dist(i, Plus(i, n)) = n
  BY Modulus DEF Ring, Dist, Plus

\* The distance from l of what lies n behind i, if the end of the round is not passed.
LEMMA PlusFurther ==
  ASSUME NEW l \in Ring, NEW i \in Ring, NEW n \in 0 .. N - 1, Dist(l, i) + n < N
  PROVE  Dist(l, Plus(i, n)) = Dist(l, i) + n
  BY Modulus DEF Ring, Dist, Plus

\* One step on, everything but l itself is nearer.
LEMMA Nearer ==
  ASSUME NEW l \in Ring, NEW k \in Ring
  PROVE  /\ Dist(Plus(l, 1), k) = IF k = l THEN N - 1 ELSE Dist(l, k) - 1
         /\ Dist(l, k) > 0 <=> k # l
  BY Modulus DEF Ring, Dist, Plus

\* Seen from l, what lies behind i at less than n.
LEMMA Behind ==
  ASSUME NEW l \in Ring, NEW i \in Ring, NEW k \in Ring, NEW n \in 0 .. N - 1,
         Dist(l, i) + n < N
  PROVE  Dist(i, k) < n <=> (Dist(l, i) <= Dist(l, k) /\ Dist(l, k) < Dist(l, i) + n)
  BY Modulus DEF Ring, Dist

LEMMA FreeAndUsed ==
  ASSUME NEW i \in Ring, NEW k \in Ring, i # k
  PROVE  Dist(i, k) + Dist(k, i) = N
  BY Modulus DEF Ring, Dist

-----------------------------------------------------------------------------
(* The ring.                                                               *)

LEMMA RingTypes ==
  ASSUME TypeOK
  PROVE  /\ nextFree \in Ring /\ lastFree \in Ring /\ ctx \in Ring /\ drx \in Ring
         /\ dma \in Ring /\ buf \in [Ring -> {"none", "skb", "frag"}] /\ free \in Nat
  BY Modulus DEF TypeOK

LEMMA RingUntouched ==
  ASSUME Ordered, UNCHANGED <<buf, nextFree, lastFree, free, ctx, drx>>,
         napi' = "reap" => napi = "reap" /\ dma' = dma
  PROVE  Ordered'
  BY DEF Ordered

LEMMA NewRingOrdered ==
  ASSUME NewRing, napi' # "reap"
  PROVE  Ordered'
<1>1. /\ buf' = NoRing /\ nextFree' = 0 /\ lastFree' = N - 1 /\ free' = N - 2
      /\ ctx' = 0 /\ drx' = N - 1
  BY DEF NewRing
<1>2. \A i \in Ring : buf'[i] = "none"
  BY <1>1 DEF NoRing
<1>3. /\ Dist(0, N - 1) = N - 1 /\ Dist(N - 1, N - 1) = 0 /\ Dist(N - 1, 0) = 1
  BY Modulus DEF Dist
<1>4. \A i \in Ring : ~(0 < Dist(N - 1, i) /\ Dist(N - 1, i) < 1)
  BY Modulus DEF Dist, Ring
<1> QED
  BY Modulus, <1>1, <1>2, <1>3, <1>4 DEF Ordered

LEMMA MapOrdered ==
  ASSUME IInv, XmitMap
  PROVE  Ordered'
<1> DEFINE n == xmit.n
           used == Dist(lastFree, nextFree)
<1>1. /\ n \in Nat /\ n >= 1 /\ free > n
  <2>1. xmit.at # "none" /\ xmit.n \in Nat
    BY Modulus DEF IInv, TypeOK, XmitMap
  <2> QED
    BY <2>1 DEF IInv, Sender, XmitMap, Needs
<1>2. /\ nextFree \in Ring /\ lastFree \in Ring /\ ctx \in Ring /\ drx \in Ring
      /\ dma \in Ring /\ free \in Nat
  BY RingTypes DEF IInv
<1>3. /\ free = Dist(nextFree, lastFree) - 1
      /\ Dist(lastFree, drx) < Dist(lastFree, ctx) /\ Dist(lastFree, ctx) <= used
      /\ napi = "reap" => Dist(lastFree, dma) <= Dist(lastFree, drx)
  BY DEF IInv, Ordered
<1>4. nextFree # lastFree /\ used + Dist(nextFree, lastFree) = N
  <2>1. nextFree # lastFree
    BY <1>1, <1>2, <1>3, RingBounds
  <2> QED
    BY <1>2, <2>1, FreeAndUsed
<1>5. used \in 0 .. N - 1 /\ n \in 0 .. N - 1 /\ used + n < N
  BY Modulus, <1>1, <1>2, <1>3, <1>4, RingBounds
<1>6. /\ nextFree' = Plus(nextFree, n) /\ free' = free - n
      /\ UNCHANGED <<lastFree, ctx, drx, dma, napi>>
      /\ buf' = [i \in Ring |-> IF i = nextFree THEN "skb"
                   ELSE IF i \in Span(nextFree, n) THEN "frag" ELSE buf[i]]
  BY DEF XmitMap, hwV, pollV
<1>7. Dist(lastFree, nextFree') = used + n /\ nextFree' \in Ring
  BY <1>2, <1>5, <1>6, PlusFurther, PlusBounds
<1>8. free' = Dist(nextFree', lastFree') - 1 /\ free' > 0
  <2>1. lastFree # nextFree'
    BY <1>2, <1>1, <1>5, <1>7, RingBounds
  <2>2. Dist(nextFree', lastFree) + Dist(lastFree, nextFree') = N
    BY <1>2, <1>7, <2>1, FreeAndUsed
  <2>3. Dist(nextFree, lastFree) \in Nat /\ Dist(nextFree', lastFree) \in Nat
    BY <1>2, <1>7, RingBounds
  <2> QED
    BY Modulus, <1>1, <1>2, <1>3, <1>4, <1>5, <1>6, <1>7, <2>2, <2>3
<1>9. ASSUME NEW i \in Ring
      PROVE  buf'[i] # "none" <=>
               (0 < Dist(lastFree, i) /\ Dist(lastFree, i) < used + n)
  <2>1. i = nextFree => 0 < Dist(lastFree, i) /\ Dist(lastFree, i) < used + n
    BY <1>1, <1>2, <1>3, <1>4, <1>5, RingBounds
  <2>2. i \in Span(nextFree, n) <=>
          (used <= Dist(lastFree, i) /\ Dist(lastFree, i) < used + n)
    BY <1>2, <1>5, Behind DEF Span
  <2>3. buf[i] # "none" <=> (0 < Dist(lastFree, i) /\ Dist(lastFree, i) < used)
    BY DEF IInv, Ordered
  <2>4. buf'[i] = IF i = nextFree THEN "skb"
                  ELSE IF i \in Span(nextFree, n) THEN "frag" ELSE buf[i]
    BY <1>6
  <2>5. used > 0 /\ Dist(lastFree, i) \in Nat
    BY <1>2, <1>4, <1>5, RingBounds
  <2> QED
    BY <1>1, <1>5, <2>1, <2>2, <2>3, <2>4, <2>5
<1>10. Dist(lastFree, ctx) \in Nat
  BY <1>2, RingBounds
<1> QED
  BY <1>1, <1>3, <1>5, <1>6, <1>7, <1>8, <1>9, <1>10 DEF Ordered

LEMMA BellOrdered ==
  ASSUME IInv, XmitBell
  PROVE  Ordered'
<1>1. ctx' = nextFree /\ UNCHANGED <<buf, nextFree, lastFree, free, drx, napi, dma>>
  BY DEF XmitBell, ringV, pollV
<1>2. /\ nextFree \in Ring /\ lastFree \in Ring /\ ctx \in Ring /\ drx \in Ring
  BY RingTypes DEF IInv
<1>3. /\ Dist(lastFree, drx) \in Nat /\ Dist(lastFree, ctx) \in Nat
      /\ Dist(lastFree, nextFree) \in Nat
  BY <1>2, RingBounds
<1> QED
  BY <1>1, <1>3 DEF IInv, Ordered

LEMMA SendsOrdered ==
  ASSUME IInv, HwSends
  PROVE  Ordered'
<1>1. PICK n \in 1 .. Dist(drx, ctx) - 1 : drx' = Plus(drx, n)
  BY DEF HwSends
<1>2. UNCHANGED <<buf, nextFree, lastFree, free, ctx, napi, dma>>
  BY DEF HwSends, ringV, pollV
<1>3. /\ nextFree \in Ring /\ lastFree \in Ring /\ ctx \in Ring /\ drx \in Ring
      /\ dma \in Ring
  BY RingTypes DEF IInv
<1>4. Dist(drx, ctx) \in 0 .. N - 1 /\ Dist(lastFree, drx) \in 0 .. N - 1
      /\ Dist(lastFree, ctx) \in 0 .. N - 1 /\ Dist(lastFree, dma) \in 0 .. N - 1
  BY <1>3, RingBounds
<1>5. Dist(lastFree, drx) < Dist(lastFree, ctx)
  BY DEF IInv, Ordered
<1>6. Dist(lastFree, drx) + Dist(drx, ctx) = Dist(lastFree, ctx)
  BY Modulus, <1>3, <1>5 DEF Dist, Ring
<1>7. Dist(lastFree, drx') = Dist(lastFree, drx) + n
  <2>1. n \in 0 .. N - 1 /\ Dist(lastFree, drx) + n < N
    BY Modulus, <1>4, <1>6
  <2> QED
    BY <1>1, <1>3, <2>1, PlusFurther
<1> QED
  BY <1>2, <1>4, <1>6, <1>7 DEF IInv, Ordered

LEMMA ReapsOrdered ==
  ASSUME IInv, PollReaps
  PROVE  Ordered'
<1> DEFINE l == Plus(lastFree, 1)
<1>1. /\ lastFree # dma /\ napi = "reap" /\ lastFree' = l /\ free' = free + 1
      /\ buf' = [buf EXCEPT ![l] = "none"]
      /\ UNCHANGED <<nextFree, ctx, drx, napi, dma>>
  BY DEF PollReaps, MoreToReap, hwV
<1>2. /\ nextFree \in Ring /\ lastFree \in Ring /\ ctx \in Ring /\ drx \in Ring
      /\ dma \in Ring /\ buf \in [Ring -> {"none", "skb", "frag"}] /\ free \in Nat
  BY RingTypes DEF IInv
<1>3. /\ free = Dist(nextFree, lastFree) - 1
      /\ Dist(lastFree, drx) < Dist(lastFree, ctx)
      /\ Dist(lastFree, ctx) <= Dist(lastFree, nextFree)
      /\ Dist(lastFree, dma) <= Dist(lastFree, drx)
  BY <1>1 DEF IInv, Ordered
<1>4. \A k \in Ring : Dist(lastFree, k) \in 0 .. N - 1
  BY <1>2, RingBounds
<1>5. \A k \in Ring : Dist(lastFree, k) > 0 => Dist(l, k) = Dist(lastFree, k) - 1
  BY <1>2, Nearer
<1>6. l \in Ring /\ Dist(lastFree, l) = 1
  BY Modulus, <1>2, PlusBounds
<1>7. Dist(lastFree, dma) > 0
  BY <1>1, <1>2, Nearer
<1>8. /\ Dist(l, dma) <= Dist(l, drx) /\ Dist(l, drx) < Dist(l, ctx)
      /\ Dist(l, ctx) <= Dist(l, nextFree)
      /\ Dist(l, nextFree) = Dist(lastFree, nextFree) - 1
  BY <1>2, <1>3, <1>4, <1>5, <1>7
<1>9. free' = Dist(nextFree, l) - 1 /\ free' > 0
  <2>1. Dist(nextFree, l) = Dist(nextFree, lastFree) + 1
    BY Modulus, <1>2, <1>3, <1>4, <1>7 DEF Dist, Plus, Ring
  <2>2. Dist(nextFree, lastFree) \in Nat
    BY <1>2, RingBounds
  <2> QED
    BY <1>1, <1>2, <1>3, <2>1, <2>2
<1>10. ASSUME NEW i \in Ring
       PROVE  buf'[i] # "none" <=> (0 < Dist(l, i) /\ Dist(l, i) < Dist(l, nextFree))
  <2>1. buf[i] # "none" <=>
          (0 < Dist(lastFree, i) /\ Dist(lastFree, i) < Dist(lastFree, nextFree))
    BY DEF IInv, Ordered
  <2>2. CASE i = l
    BY <1>1, <1>2, <1>6, <2>2, RingBounds
  <2>3. CASE i = lastFree
    <3>1. Dist(lastFree, i) = 0 /\ Dist(l, i) = N - 1 /\ i # l
      BY Modulus, <1>2, <1>6, <2>3, RingBounds, Nearer
    <3>2. Dist(lastFree, nextFree) <= N - 1
      BY <1>2, <1>4
    <3> QED
      BY Modulus, <1>1, <1>2, <1>4, <1>8, <2>1, <3>1, <3>2
  <2>4. CASE i # l /\ i # lastFree
    <3>1. buf'[i] = buf[i]
      BY <1>1, <1>2, <2>4
    <3>2. Dist(lastFree, i) > 0 /\ Dist(l, i) = Dist(lastFree, i) - 1
      BY <1>2, <1>5, <2>4, Nearer
    <3>3. Dist(l, i) # 0
      BY <1>6, <2>4, RingBounds
    <3> QED
      BY <1>2, <1>4, <1>6, <1>8, <2>1, <3>1, <3>2, <3>3, RingBounds
  <2> QED
    BY <2>2, <2>3, <2>4
<1> QED
  BY <1>1, <1>8, <1>9, <1>10 DEF Ordered

LEMMA StepOrdered ==
  ASSUME IInv, Next
  PROVE  Ordered'
<1>1. CASE Send
  BY <1>1, RingUntouched DEF IInv, Send, XmitCalled, ringV, hwV, pollV
<1>2. CASE XmitStep
  <2>1. CASE XmitMap
    BY <2>1, MapOrdered
  <2>2. CASE XmitBell
    BY <2>2, BellOrdered
  <2>3. CASE XmitBegin \/ XmitBusy \/ XmitDrops \/ XmitThresh \/ XmitStop
    BY <2>3, RingUntouched DEF IInv, XmitBegin, XmitBusy, XmitDrops, XmitThresh,
                               XmitStop, ringV, hwV, pollV
  <2> QED
    BY <1>2, <2>1, <2>2, <2>3 DEF XmitStep
<1>3. CASE HwSends
  BY <1>3, SendsOrdered
<1>4. CASE Irq
  BY <1>4, RingUntouched DEF IInv, Irq, ringV
<1>5. CASE PollStep
  <2>1. CASE PollReaps
    BY <2>1, ReapsOrdered
  <2>2. CASE PollRead
    <3>1. dma' = drx /\ UNCHANGED <<buf, nextFree, lastFree, free, ctx, drx>>
      BY <2>2 DEF PollRead, ringV, hwV
    <3>2. Dist(lastFree, drx) <= Dist(lastFree, drx)
      BY RingTypes, RingBounds DEF IInv
    <3> QED
      BY <3>1, <3>2 DEF IInv, Ordered
  <2>3. CASE PollAck \/ PollReaped \/ PollRoom \/ PollWakes \/ PollCheck \/ PollUnmasks
    BY <2>3, RingUntouched DEF IInv, PollAck, PollReaped, PollRoom, PollWakes,
                               PollCheck, PollUnmasks, ringV, hwV
  <2> QED
    BY <1>5, <2>1, <2>2, <2>3 DEF PollStep
<1>6. CASE \E d \in Devs : OpenBegins(d) \/ CloseBegins(d)
  BY <1>6, RingUntouched DEF IInv, OpenBegins, CloseBegins, ringV, hwV, pollV
<1>7. CASE TxTimeout \/ OthersAsk \/ WorkBegins \/ ResetBegins
  BY <1>7, RingUntouched DEF IInv, TxTimeout, OthersAsk, WorkBegins, ResetBegins, ringV, hwV, pollV
<1>8. CASE JobStep
  <2>1. CASE FreeRing
    <3>1. NewRing /\ napi' = napi
      BY <2>1 DEF FreeRing, pollV
    <3>2. napi = "off"
      BY <2>1 DEF FreeRing, IInv, Counts
    <3> QED
      BY <3>1, <3>2, NewRingOrdered
  <2>2. CASE OpenFirst
    BY <2>2, NewRingOrdered DEF OpenFirst
  <2>3. CASE Quiet \/ Quieted \/ Disable \/ DropRef \/ DropLastRef \/ NapiOff \/ HwInit
             \/ OpenNext \/ Opened \/ ResetEnds
    BY <2>3, RingUntouched DEF IInv, Quiet, Quieted, Disable, DropRef, DropLastRef, NapiOff,
                               HwInit, OpenNext, Opened, ResetEnds, ringV, hwV, pollV
  <2> QED
    BY <1>8, <2>1, <2>2, <2>3 DEF JobStep
<1> QED
  BY <1>1, <1>2, <1>3, <1>4, <1>5, <1>6, <1>7, <1>8 DEF Next

-----------------------------------------------------------------------------
(* The jobs, the poll and the sender.                                      *)

LEMMA NextToStopPlaces ==
  ASSUME NEW rest, rest \subseteq Devs, NextToStop(rest)
  PROVE  /\ at' \in {"stop", "hw"} /\ todo' \subseteq Devs \cup up
         /\ at' = "stop" => who' \in Devs /\ todo' \subseteq Devs
         /\ at' = "hw" => todo' = up /\ who' = Nobody
  BY DEF NextToStop

LEMMA NextToOpenPlaces ==
  ASSUME NEW rest, rest \subseteq Devs, NextToOpen(rest)
  PROVE  /\ at' \in {"open", "end"} /\ todo' \subseteq Devs
         /\ at' = "open" => who' \in Devs /\ rest = todo' \cup {who'}
         /\ at' = "end" => todo' = {} /\ who' = Nobody /\ rest = {}
  BY DEF NextToOpen

LEMMA StepPlaces ==
  ASSUME IInv, Next
  PROVE  Places'
<1> USE DEF IInv, Places
<1>1. CASE Send
  BY <1>1 DEF Send, XmitCalled, jobV
<1>2. CASE XmitStep
  BY <1>2 DEF XmitStep, XmitBegin, XmitBusy, XmitMap, XmitDrops, XmitBell, XmitThresh,
              XmitStop, jobV
<1>3. CASE HwSends \/ Irq
  BY <1>3 DEF HwSends, Irq, devV, jobV
<1>5. CASE PollStep
  BY <1>5 DEF PollStep, PollAck, PollRead, PollReaps, PollReaped, PollRoom, PollWakes,
              PollCheck, PollUnmasks, devV, jobV
<1>6. CASE \E d \in Devs : OpenBegins(d) \/ CloseBegins(d)
  BY <1>6 DEF OpenBegins, CloseBegins, devV
<1>7. CASE TxTimeout \/ OthersAsk \/ WorkBegins
  BY <1>7 DEF TxTimeout, OthersAsk, WorkBegins, devV
<1>8. CASE ResetBegins
  <2>1. NextToStop(up) /\ up \subseteq Devs /\ up' = up /\ users' = users
        /\ job' = "reset" /\ resetting /\ resetting' = resetting
    BY <1>8 DEF ResetBegins, TypeOK, devV
  <2> QED
    BY <2>1, NextToStopPlaces
<1>9. CASE JobStep
  <2>1. CASE Disable
    BY <2>1 DEF Disable, JobSame
  <2>2. CASE DropRef \/ FreeRing
    <3>1. Stopped /\ up' = up /\ at \in {"drop", "free"} /\ todo \subseteq Devs
      BY <2>2 DEF DropRef, FreeRing, devV, TypeOK
    <3>2. CASE job = "reset"
      <4>1. NextToStop(todo) /\ JobSame
        BY <3>1, <3>2 DEF Stopped
      <4> QED
        BY <3>1, <3>2, <4>1, NextToStopPlaces DEF JobSame
    <3>3. CASE job # "reset"
      BY <3>1, <3>3 DEF Stopped
    <3> QED
      BY <3>2, <3>3
  <2>3. CASE DropLastRef
    BY <2>3 DEF DropLastRef, JobSame
  <2>4. CASE NapiOff
    BY <2>4 DEF NapiOff, JobSame, devV
  <2>5. CASE HwInit
    <3>1. NextToOpen(todo) /\ JobSame /\ up' = up /\ at = "hw" /\ todo \subseteq Devs
      BY <2>5 DEF HwInit, devV, TypeOK
    <3> QED
      BY <3>1, NextToOpenPlaces DEF JobSame
  <2>6. CASE OpenFirst \/ OpenNext
    BY <2>6 DEF OpenFirst, OpenNext, JobSame
  <2>7. CASE Opened
    <3>1. at = "start" /\ todo \subseteq Devs /\ users' = users
      BY <2>7 DEF Opened, TypeOK
    <3>2. CASE job = "reset"
      <4>1. NextToOpen(todo) /\ JobSame
        BY <2>7, <3>2 DEF Opened
      <4> QED
        BY <3>1, <3>2, <4>1, NextToOpenPlaces DEF JobSame
    <3>3. CASE job # "reset"
      BY <2>7, <3>3 DEF Opened
    <3> QED
      BY <3>2, <3>3
  <2>8. CASE ResetEnds
    BY <2>8 DEF ResetEnds, devV
  <2>9. CASE Quiet \/ Quieted
    BY <2>9 DEF Quiet, Quieted, JobSame, devV
  <2> QED
    BY <1>9, <2>1, <2>2, <2>3, <2>4, <2>5, <2>6, <2>7, <2>8, <2>9 DEF JobStep
<1> QED
  BY <1>1, <1>2, <1>3, <1>5, <1>6, <1>7, <1>8, <1>9 DEF Next

LEMMA StepCounts ==
  ASSUME IInv, Next
  PROVE  Counts'
<1> USE DEF IInv, Places, Counts
<1>1. CASE Send
  BY <1>1 DEF Send, XmitCalled, ringV, pollV, jobV
<1>2. CASE XmitStep
  BY <1>2 DEF XmitStep, XmitBegin, XmitBusy, XmitMap, XmitDrops, XmitBell, XmitThresh,
              XmitStop, ringV, pollV, jobV
<1>3. CASE HwSends \/ Irq
  BY <1>3 DEF HwSends, Irq, ringV, pollV, devV, jobV
<1>5. CASE PollStep
  BY <1>5 DEF PollStep, PollAck, PollRead, PollReaps, PollReaped, PollRoom, PollWakes,
              PollCheck, PollUnmasks, ringV, devV, jobV
<1>6. CASE \E d \in Devs : OpenBegins(d) \/ CloseBegins(d)
  BY <1>6 DEF OpenBegins, CloseBegins, ringV, pollV, devV
<1>7. CASE TxTimeout \/ OthersAsk \/ WorkBegins
  BY <1>7 DEF TxTimeout, OthersAsk, WorkBegins, ringV, pollV, devV
<1>8. CASE ResetBegins
  <2>1. /\ NextToStop(up) /\ up \subseteq Devs /\ job = "none" /\ job' = "reset"
        /\ UNCHANGED <<alive, napi, users, up>>
    BY <1>8 DEF ResetBegins, TypeOK, ringV, pollV, devV
  <2> QED
    BY <2>1, NextToStopPlaces
<1>9. CASE JobStep
  <2>1. CASE Disable
    BY <2>1 DEF Disable, JobSame, ringV, pollV
  <2>2. CASE DropRef \/ FreeRing
    <3>1. /\ Stopped /\ up' = up /\ napi' = napi /\ at \in {"drop", "free"}
          /\ todo \subseteq Devs
      BY <2>2 DEF DropRef, FreeRing, pollV, devV, TypeOK
    <3>2. at' \notin {"napi", "free", "open", "start", "end"}
          /\ (job' = "reset" <=> job = "reset")
      <4>1. CASE job = "reset"
        BY <3>1, <4>1, NextToStopPlaces DEF Stopped, JobSame
      <4>2. CASE job # "reset"
        BY <3>1, <4>2 DEF Stopped
      <4> QED
        BY <4>1, <4>2
    <3>3. /\ job # "reset" => who \notin up
          /\ users' = {} => napi = "off"
          /\ users' # {} => alive'
          /\ users' \subseteq users /\ users \ {who} \subseteq users'
      BY <2>2 DEF DropRef, FreeRing, ringV, devV, TypeOK
    <3>4. job' # "reset" => up' \subseteq users'
      <4>1. job # "reset" => up \subseteq users /\ who \notin up
        BY <3>3
      <4> QED
        BY <3>1, <3>2, <3>3, <4>1
    <3> QED
      BY <3>1, <3>2, <3>3, <3>4
  <2>3. CASE DropLastRef
    <3>1. /\ at = "drop" /\ users = {who} /\ users' = {} /\ at' = "napi"
          /\ UNCHANGED <<job, alive, up>>
      BY <2>3 DEF DropLastRef, JobSame, ringV
    <3>2. alive
      BY <3>1
    <3>3. job # "reset" => up = {}
      BY <3>1 DEF TypeOK
    <3> QED
      BY <3>1, <3>2, <3>3
  <2>4. CASE NapiOff
    BY <2>4 DEF NapiOff, JobSame, ringV, devV
  <2>5. CASE HwInit
    <3>1. /\ NextToOpen(todo) /\ JobSame /\ at = "hw" /\ todo \subseteq Devs
          /\ UNCHANGED <<alive, napi, up, users>>
      BY <2>5 DEF HwInit, ringV, pollV, devV, TypeOK
    <3> QED
      BY <3>1, NextToOpenPlaces DEF JobSame
  <2>6. CASE OpenFirst \/ OpenNext
    BY <2>6 DEF OpenFirst, OpenNext, JobSame, ringV, pollV
  <2>7. CASE Opened
    <3>1. /\ at = "start" /\ todo \subseteq Devs /\ who \in users
          /\ up' = up \cup {who} /\ UNCHANGED <<alive, napi, users>>
      BY <2>7 DEF Opened, TypeOK, ringV, pollV
    <3>2. users # {} /\ alive /\ ~(users = {})
      BY <3>1
    <3>3. CASE job = "reset"
      <4>1. NextToOpen(todo) /\ job' = job
        BY <2>7, <3>3 DEF Opened, JobSame
      <4>2. up \subseteq users \cup todo
        BY <3>1, <4>1
      <4>3. /\ at' \in {"open", "end"}
            /\ at' = "end" => todo' = {} /\ todo = {}
            /\ at' = "open" => todo = todo' \cup {who'}
        BY <3>1, <4>1, NextToOpenPlaces
      <4> QED
        BY <3>1, <3>2, <4>1, <4>2, <4>3
    <3>4. CASE job # "reset"
      <4>1. at' = "none" /\ job' = "none"
        BY <2>7, <3>4 DEF Opened
      <4>2. up \subseteq users
        BY <3>4
      <4> QED
        BY <3>1, <3>2, <4>1, <4>2
    <3> QED
      BY <3>3, <3>4
  <2>8. CASE ResetEnds
    BY <2>8 DEF ResetEnds, ringV, pollV, devV
  <2>9. CASE Quiet \/ Quieted
    BY <2>9 DEF Quiet, Quieted, JobSame, ringV, pollV, devV
  <2> QED
    BY <1>9, <2>1, <2>2, <2>3, <2>4, <2>5, <2>6, <2>7, <2>8, <2>9 DEF JobStep
<1> QED
  BY <1>1, <1>2, <1>3, <1>5, <1>6, <1>7, <1>8, <1>9 DEF Next

LEMMA StepSender ==
  ASSUME IInv, Next
  PROVE  Sender'
<1> USE DEF IInv, Sender, Filling
<1>1. CASE Send
  BY <1>1 DEF Send, XmitCalled, jobV
<1>2. CASE XmitStep
  <2>1. UNCHANGED <<up, users, at, who>>
    BY <1>2 DEF XmitStep, XmitBegin, XmitBusy, XmitMap, XmitDrops, XmitBell, XmitThresh,
                XmitStop, jobV
  <2>2. CASE xmit' = NoXmit
    BY <2>1, <2>2 DEF NoXmit
  <2>3. CASE XmitBegin /\ Goto("room")
    <3>1. ~resetting \/ xmit' = NoXmit
      BY <2>3 DEF XmitBegin, Leave
    <3>2. xmit.at = "begin" /\ xmit' = [xmit EXCEPT !.at = "room"]
      BY <2>3 DEF XmitBegin, Goto
    <3>3. xmit'.at = "room" /\ xmit'.n = xmit.n /\ xmit'.dev = xmit.dev
      BY <3>2 DEF TypeOK
    <3>4. CASE ~resetting
      <4>1. xmit.dev \in up /\ xmit.dev \in users
        BY <3>2, <3>4 DEF Counts, Places
      <4>2. at = "drop" => job = "down"
        BY <3>4 DEF Places, TypeOK
      <4>3. at = "drop" => xmit.dev # who
        BY <4>1, <4>2 DEF Places
      <4> QED
        BY <2>1, <3>2, <3>3, <4>1, <4>3
    <3> QED
      BY <2>2, <3>1, <3>4
  <2>4. CASE Filling /\ \E place \in {"bell", "thresh", "stop"} : Goto(place)
    <3>1. xmit'.at \in {"bell", "thresh", "stop"} /\ xmit'.n = xmit.n
          /\ xmit'.dev = xmit.dev
      BY <2>4 DEF Goto, TypeOK
    <3> QED
      BY <2>1, <2>4, <3>1
  <2> QED
    BY <1>2, <2>2, <2>3, <2>4 DEF XmitStep, XmitBegin, XmitBusy, XmitMap, XmitDrops,
                                  XmitBell, XmitThresh, XmitStop, Leave
<1>3. CASE HwSends \/ Irq
  BY <1>3 DEF HwSends, Irq, devV, jobV
<1>5. CASE PollStep
  BY <1>5 DEF PollStep, PollAck, PollRead, PollReaps, PollReaped, PollRoom, PollWakes,
              PollCheck, PollUnmasks, devV, jobV
<1>6. CASE \E d \in Devs : OpenBegins(d) \/ CloseBegins(d)
  BY <1>6 DEF OpenBegins, CloseBegins, devV, QueueIdle
<1>7. CASE TxTimeout \/ OthersAsk \/ WorkBegins
  BY <1>7 DEF TxTimeout, OthersAsk, WorkBegins, devV
<1>8. CASE ResetBegins
  <2>1. NextToStop(up) /\ up \subseteq Devs /\ UNCHANGED <<xmit, users, up>>
    BY <1>8 DEF ResetBegins, TypeOK, devV
  <2> QED
    BY <2>1, NextToStopPlaces
<1>9. CASE JobStep
  <2>1. CASE Disable
    BY <2>1 DEF Disable, QueueIdle
  <2>2. CASE DropRef \/ FreeRing
    <3>1. /\ Stopped /\ UNCHANGED <<xmit, up>> /\ at \in {"drop", "free"}
          /\ todo \subseteq Devs
      BY <2>2 DEF DropRef, FreeRing, devV, TypeOK
    <3>2. at' # "drop"
      BY <3>1, NextToStopPlaces DEF Stopped
    <3>3. users' = users \/ (at = "drop" /\ users' = users \ {who})
      BY <2>2 DEF DropRef, FreeRing, devV
    <3> QED
      BY <3>1, <3>2, <3>3
  <2>3. CASE DropLastRef
    BY <2>3 DEF DropLastRef
  <2>4. CASE NapiOff
    BY <2>4 DEF NapiOff, devV
  <2>5. CASE HwInit
    <3>1. NextToOpen(todo) /\ todo \subseteq Devs /\ UNCHANGED <<xmit, up, users>>
      BY <2>5 DEF HwInit, devV, TypeOK
    <3> QED
      BY <3>1, NextToOpenPlaces
  <2>6. CASE OpenFirst \/ OpenNext
    BY <2>6 DEF OpenFirst, OpenNext
  <2>7. CASE Opened
    <3>1. /\ up' = up \cup {who} /\ UNCHANGED <<xmit, users>> /\ todo \subseteq Devs
      BY <2>7 DEF Opened, TypeOK
    <3>2. at' # "drop"
      BY <2>7, <3>1, NextToOpenPlaces DEF Opened
    <3> QED
      BY <3>1, <3>2
  <2>8. CASE ResetEnds
    BY <2>8 DEF ResetEnds, devV
  <2>9. CASE Quiet \/ Quieted
    BY <2>9 DEF Quiet, Quieted, JobSame, devV
  <2> QED
    BY <1>9, <2>1, <2>2, <2>3, <2>4, <2>5, <2>6, <2>7, <2>8, <2>9 DEF JobStep
<1> QED
  BY <1>1, <1>2, <1>3, <1>5, <1>6, <1>7, <1>8, <1>9 DEF Next

-----------------------------------------------------------------------------
(* The types, for each part of the state.                                  *)

LEMMA NewRingTypes ==
  ASSUME NewRing
  PROVE  /\ buf' \in [Ring -> {"none", "skb", "frag"}] /\ nextFree' \in Ring
         /\ lastFree' \in Ring /\ ctx' \in Ring /\ drx' \in Ring
  BY Modulus DEF NewRing, NoRing, Ring

LEMMA StepRingTypes ==
  ASSUME IInv, Next
  PROVE  /\ alive' \in BOOLEAN /\ buf' \in [Ring -> {"none", "skb", "frag"}]
         /\ nextFree' \in Ring /\ lastFree' \in Ring
<1> USE DEF IInv, TypeOK
<1>1. CASE XmitMap
  <2>1. xmit.n \in 0 .. N - 1
    BY Modulus
  <2>2. nextFree' \in Ring
    BY <1>1, <2>1, PlusBounds DEF XmitMap
  <2> QED
    BY <1>1, <2>2 DEF XmitMap
<1>2. CASE PollReaps
  <2>1. Plus(lastFree, 1) \in Ring
    BY Modulus, PlusBounds
  <2> QED
    BY <1>2, <2>1 DEF PollReaps
<1>3. CASE FreeRing \/ OpenFirst
  BY <1>3, NewRingTypes DEF FreeRing, OpenFirst
<1>4. CASE Send \/ (XmitStep /\ ~XmitMap)
  BY <1>4 DEF Send, XmitCalled, XmitStep, XmitBegin, XmitBusy, XmitDrops, XmitBell,
              XmitThresh, XmitStop, ringV
<1>5. CASE HwSends \/ Irq \/ (PollStep /\ ~PollReaps)
  BY <1>5 DEF HwSends, Irq, PollStep, PollAck, PollRead, PollReaped, PollRoom, PollWakes,
              PollCheck, PollUnmasks, ringV
<1>6. CASE \E d \in Devs : OpenBegins(d) \/ CloseBegins(d)
  BY <1>6 DEF OpenBegins, CloseBegins, ringV
<1>7. CASE TxTimeout \/ OthersAsk \/ WorkBegins \/ ResetBegins
  BY <1>7 DEF TxTimeout, OthersAsk, WorkBegins, ResetBegins, ringV
<1>8. CASE JobStep /\ ~FreeRing /\ ~OpenFirst
  BY <1>8 DEF JobStep, Quiet, Quieted, Disable, DropRef, DropLastRef, NapiOff,
              HwInit, OpenNext, Opened, ResetEnds, ringV
<1> QED
  BY <1>1, <1>2, <1>3, <1>4, <1>5, <1>6, <1>7, <1>8 DEF Next

LEMMA StepHwTypes ==
  ASSUME IInv, Next
  PROVE  /\ ctx' \in Ring /\ drx' \in Ring /\ status' \in BOOLEAN /\ mask' \in BOOLEAN
         /\ engine' \in BOOLEAN
<1> USE DEF IInv, TypeOK
<1>1. CASE HwSends
  <2>1. PICK n \in 1 .. Dist(drx, ctx) - 1 : drx' = Plus(drx, n)
    BY <1>1 DEF HwSends
  <2>2. n \in 0 .. N - 1
    BY Modulus, RingBounds
  <2>3. drx' \in Ring
    BY <2>1, <2>2, PlusBounds
  <2> QED
    BY <1>1, <2>3 DEF HwSends
<1>2. CASE FreeRing \/ OpenFirst
  BY <1>2, NewRingTypes DEF FreeRing, OpenFirst
<1>3. CASE Send \/ XmitStep
  BY <1>3 DEF Send, XmitCalled, XmitStep, XmitBegin, XmitBusy, XmitMap, XmitDrops, XmitBell,
              XmitThresh, XmitStop, hwV
<1>4. CASE Irq \/ PollStep
  BY <1>4 DEF Irq, PollStep, PollAck, PollRead, PollReaps, PollReaped, PollRoom, PollWakes,
              PollCheck, PollUnmasks, hwV
<1>5. CASE \E d \in Devs : OpenBegins(d) \/ CloseBegins(d)
  BY <1>5 DEF OpenBegins, CloseBegins, hwV
<1>6. CASE TxTimeout \/ OthersAsk \/ WorkBegins \/ ResetBegins
  BY <1>6 DEF TxTimeout, OthersAsk, WorkBegins, ResetBegins, hwV
<1>7. CASE JobStep /\ ~FreeRing /\ ~OpenFirst
  BY <1>7 DEF JobStep, Quiet, Quieted, Disable, DropRef, DropLastRef, NapiOff,
              HwInit, OpenNext, Opened, ResetEnds, hwV
<1> QED
  BY <1>1, <1>2, <1>3, <1>4, <1>5, <1>6, <1>7 DEF Next

LEMMA StepPollTypes ==
  ASSUME IInv, Next
  PROVE  /\ napi' \in {"off", "idle", "ack", "read", "reap", "room", "wake", "check"}
         /\ dma' \in Ring /\ left' \in 0 .. Budget /\ late' \in BOOLEAN
<1> USE DEF IInv, TypeOK
<1>1. CASE Send \/ XmitStep
  BY <1>1 DEF Send, XmitCalled, XmitStep, XmitBegin, XmitBusy, XmitMap, XmitDrops, XmitBell,
              XmitThresh, XmitStop, pollV
<1>2. CASE HwSends \/ Irq
  BY <1>2 DEF HwSends, Irq, pollV
<1>3. CASE PollReaps
  <2>1. left > 0
    BY <1>3 DEF PollReaps, MoreToReap
  <2> QED
    BY Modulus, <1>3, <2>1 DEF PollReaps
<1>4. CASE PollStep /\ ~PollReaps
  <2>1. 0 \in Ring /\ 0 \in 0 .. Budget /\ Budget \in 0 .. Budget
    BY Modulus DEF Ring
  <2> QED
    BY <1>4, <2>1 DEF PollStep, PollAck, PollRead, PollReaped, PollRoom, PollWakes,
                      PollCheck, PollUnmasks
<1>5. CASE \E d \in Devs : OpenBegins(d) \/ CloseBegins(d)
  BY <1>5 DEF OpenBegins, CloseBegins, pollV
<1>6. CASE TxTimeout \/ OthersAsk \/ WorkBegins \/ ResetBegins
  BY <1>6 DEF TxTimeout, OthersAsk, WorkBegins, ResetBegins, pollV
<1>7. CASE JobStep
  BY <1>7 DEF JobStep, Quiet, Quieted, Disable, DropRef, DropLastRef, NapiOff, FreeRing,
              HwInit, OpenFirst, OpenNext, Opened, ResetEnds, pollV
<1> QED
  BY <1>1, <1>2, <1>3, <1>4, <1>5, <1>6, <1>7 DEF Next

LEMMA StepDevTypes ==
  ASSUME IInv, Next
  PROVE  /\ up' \subseteq Devs /\ awake' \subseteq Devs /\ users' \subseteq Devs
         /\ batch' \subseteq Devs
<1> USE DEF IInv, TypeOK
<1>1. CASE Send \/ XmitStep
  <2>1. UNCHANGED <<up, users>>
    BY <1>1 DEF Send, XmitCalled, XmitStep, XmitBegin, XmitBusy, XmitMap, XmitDrops,
                XmitBell, XmitThresh, XmitStop
  <2>2. awake' = awake \/ StopQueue
    BY <1>1 DEF Send, XmitCalled, XmitStep, XmitBegin, XmitBusy, XmitMap, XmitDrops,
                XmitBell, XmitThresh, XmitStop
  <2>3. batch' = batch \/ Leave
    BY <1>1 DEF Send, XmitCalled, XmitStep, XmitBegin, XmitBusy, XmitMap, XmitDrops,
                XmitBell, XmitThresh, XmitStop
  <2>4. awake' \subseteq Devs
    BY <2>2 DEF StopQueue
  <2>5. batch' \subseteq Devs
    BY <2>3, <2>4 DEF Leave
  <2> QED
    BY <2>1, <2>4, <2>5
<1>2. CASE HwSends \/ Irq \/ PollStep
  BY <1>2 DEF HwSends, Irq, PollStep, PollAck, PollRead, PollReaps, PollReaped, PollRoom,
              PollWakes, PollCheck, PollUnmasks, devV
<1>3. CASE \E d \in Devs : OpenBegins(d) \/ CloseBegins(d)
  BY <1>3 DEF OpenBegins, CloseBegins, devV
<1>4. CASE TxTimeout \/ OthersAsk \/ WorkBegins \/ ResetBegins
  BY <1>4 DEF TxTimeout, OthersAsk, WorkBegins, ResetBegins, devV
<1>5. CASE JobStep
  <2>1. at \in {"open", "start", "stop", "drop"} => who \in Devs
    BY DEF Places
  <2> QED
    BY <1>5, <2>1 DEF JobStep, Quiet, Quieted, Disable, DropRef, DropLastRef, NapiOff,
                      FreeRing, HwInit, OpenFirst, OpenNext, Opened, Start, ResetEnds, devV
<1> QED
  BY <1>1, <1>2, <1>3, <1>4, <1>5 DEF Next

LEMMA StepXmitTypes ==
  ASSUME IInv, Next
  PROVE  xmit' \in [at : {"none", "begin", "room", "bell", "thresh", "stop"},
                    dev : Devs \cup {Nobody}, n : 0 .. Thresh + 1, more : BOOLEAN]
<1> USE DEF IInv, TypeOK
<1>1. CASE Send
  BY Modulus, <1>1 DEF Send, XmitCalled
<1>2. CASE XmitStep
  <2>1. Leave \/ \E place \in {"room", "bell", "thresh", "stop"} : Goto(place)
    BY <1>2 DEF XmitStep, XmitBegin, XmitBusy, XmitMap, XmitDrops, XmitBell, XmitThresh,
                XmitStop
  <2>2. CASE Leave
    BY Modulus, <2>2 DEF Leave, NoXmit
  <2>3. CASE \E place \in {"room", "bell", "thresh", "stop"} : Goto(place)
    BY <2>3 DEF Goto
  <2> QED
    BY <2>1, <2>2, <2>3
<1>3. CASE HwSends \/ Irq \/ PollStep
  BY <1>3 DEF HwSends, Irq, PollStep, PollAck, PollRead, PollReaps, PollReaped, PollRoom,
              PollWakes, PollCheck, PollUnmasks, devV
<1>4. CASE \E d \in Devs : OpenBegins(d) \/ CloseBegins(d)
  BY <1>4 DEF OpenBegins, CloseBegins, devV
<1>5. CASE TxTimeout \/ OthersAsk \/ WorkBegins \/ ResetBegins
  BY <1>5 DEF TxTimeout, OthersAsk, WorkBegins, ResetBegins, devV
<1>6. CASE JobStep
  BY <1>6 DEF JobStep, Quiet, Quieted, Disable, DropRef, DropLastRef, NapiOff, FreeRing,
              HwInit, OpenFirst, OpenNext, Opened, ResetEnds, devV
<1> QED
  BY <1>1, <1>2, <1>3, <1>4, <1>5, <1>6 DEF Next

LEMMA StepJobTypes ==
  ASSUME IInv, Next
  PROVE  /\ job' \in {"none", "up", "down", "prepare", "reset"}
         /\ at' \in {"none", "quiet", "open", "start", "stop", "drop", "napi", "free", "hw",
                    "end"}
         /\ todo' \subseteq Devs /\ who' \in Devs \cup {Nobody}
         /\ pending' \in BOOLEAN /\ resetting' \in BOOLEAN
<1> USE DEF IInv, TypeOK
<1>1. CASE Send \/ XmitStep
  BY <1>1 DEF Send, XmitCalled, XmitStep, XmitBegin, XmitBusy, XmitMap, XmitDrops, XmitBell,
              XmitThresh, XmitStop, jobV
<1>2. CASE HwSends \/ Irq \/ PollStep
  BY <1>2 DEF HwSends, Irq, PollStep, PollAck, PollRead, PollReaps, PollReaped, PollRoom,
              PollWakes, PollCheck, PollUnmasks, jobV
<1>3. CASE \E d \in Devs : OpenBegins(d) \/ CloseBegins(d)
  BY <1>3 DEF OpenBegins, CloseBegins
<1>4. CASE TxTimeout \/ OthersAsk \/ WorkBegins
  BY <1>4 DEF TxTimeout, OthersAsk, WorkBegins
<1>5. CASE ResetBegins
  <2>1. NextToStop(up) /\ job' = "reset"
        /\ UNCHANGED <<pending, resetting>>
    BY <1>5 DEF ResetBegins
  <2> QED
    BY <2>1, NextToStopPlaces
<1>6. CASE JobStep
  <2>1. CASE DropRef \/ FreeRing
    <3>1. Stopped
      BY <2>1 DEF DropRef, FreeRing
    <3>2. CASE job = "reset"
      <4>1. NextToStop(todo) /\ JobSame
        BY <3>1, <3>2 DEF Stopped
      <4> QED
        BY <4>1, NextToStopPlaces DEF JobSame
    <3>3. CASE job # "reset"
      BY <3>1, <3>3 DEF Stopped
    <3> QED
      BY <3>2, <3>3
  <2>2. CASE HwInit
    <3>1. NextToOpen(todo) /\ JobSame
      BY <2>2 DEF HwInit
    <3> QED
      BY <3>1, NextToOpenPlaces DEF JobSame
  <2>3. CASE Opened
    <3>1. CASE job = "reset"
      <4>1. NextToOpen(todo) /\ JobSame
        BY <2>3, <3>1 DEF Opened
      <4> QED
        BY <4>1, NextToOpenPlaces DEF JobSame
    <3>2. CASE job # "reset"
      BY <2>3, <3>2 DEF Opened
    <3> QED
      BY <3>1, <3>2
  <2>4. CASE Quiet \/ Quieted \/ Disable \/ DropLastRef \/ NapiOff \/ OpenFirst \/ OpenNext
             \/ ResetEnds
    BY <2>4 DEF Quiet, Quieted, Disable, DropLastRef, NapiOff, OpenFirst, OpenNext,
                ResetEnds, JobSame
  <2> QED
    BY <1>6, <2>1, <2>2, <2>3, <2>4 DEF JobStep
<1> QED
  BY <1>1, <1>2, <1>3, <1>4, <1>5, <1>6 DEF Next

LEMMA StepTypes ==
  ASSUME IInv, Next
  PROVE  TypeOK'
<1>1. nextFree' \in Ring /\ lastFree' \in Ring
  BY StepRingTypes
<1>2. free' = Dist(nextFree', lastFree') - 1 /\ free' > 0
  BY StepOrdered DEF Ordered
<1>3. free' \in 0 .. N - 2
  BY <1>1, <1>2, RingBounds, Modulus
<1> QED
  BY <1>3, StepRingTypes, StepHwTypes, StepPollTypes, StepDevTypes, StepXmitTypes,
     StepJobTypes DEF TypeOK

-----------------------------------------------------------------------------

LEMMA InitInv ==
  ASSUME Init
  PROVE  IInv
<1>1. 0 \in Ring /\ N - 1 \in Ring /\ N - 2 \in 0 .. N - 2 /\ 0 \in 0 .. Budget
  BY Modulus DEF Ring
<1>2. TypeOK
  <2>1. buf \in [Ring -> {"none", "skb", "frag"}]
    BY DEF Init, NoRing
  <2>2. xmit \in [at : {"none", "begin", "room", "bell", "thresh", "stop"},
                  dev : Devs \cup {Nobody}, n : 0 .. Thresh + 1, more : BOOLEAN]
    BY Modulus DEF Init, NoXmit
  <2>3. /\ nextFree \in Ring /\ lastFree \in Ring /\ free \in 0 .. N - 2
        /\ ctx \in Ring /\ drx \in Ring /\ dma \in Ring /\ left \in 0 .. Budget
    BY <1>1 DEF Init
  <2>4. up \subseteq Devs /\ awake \subseteq Devs /\ users \subseteq Devs
        /\ batch \subseteq Devs /\ todo \subseteq Devs /\ who \in Devs \cup {Nobody}
    BY DEF Init
  <2> QED
    BY <2>1, <2>2, <2>3, <2>4 DEF Init, TypeOK
<1>3. /\ Dist(0, N - 1) = N - 1 /\ Dist(N - 1, N - 1) = 0 /\ Dist(N - 1, 0) = 1
  BY Modulus DEF Dist
<1>4. \A i \in Ring : ~(0 < Dist(N - 1, i) /\ Dist(N - 1, i) < 1)
  BY Modulus DEF Dist, Ring
<1>5. Ordered
  BY Modulus, <1>3, <1>4 DEF Ordered, Init, NoRing
<1>6. Places /\ Counts /\ Sender
  BY DEF Init, Places, Counts, Sender, Filling, NoXmit
<1> QED
  BY <1>2, <1>5, <1>6 DEF IInv

LEMMA StutterInv ==
  ASSUME IInv, UNCHANGED vars
  PROVE  IInv'
<1>1. UNCHANGED <<alive, buf, nextFree, lastFree, free, ctx, drx, status, mask,
                  engine, napi, dma, left, late, up, awake, users, xmit, batch, job, at,
                  todo, who, pending, resetting>>
  BY DEF vars, ringV, hwV, pollV, devV, jobV
<1> QED
  BY <1>1 DEF IInv, TypeOK, Ordered, Places, Counts, Sender, Filling

\* IInv holds in every state.
THEOREM TxInvariance == Spec => []IInv
<1>1. Init => IInv
  BY InitInv
<1>2. IInv /\ [Next]_vars => IInv'
  <2> SUFFICES ASSUME IInv, [Next]_vars PROVE IInv'
    OBVIOUS
  <2>1. CASE Next
    BY <2>1, StepTypes, StepOrdered, StepPlaces, StepCounts, StepSender DEF IInv
  <2>2. CASE UNCHANGED vars
    BY <2>2, StutterInv
  <2> QED
    BY <2>1, <2>2
<1> QED
  BY <1>1, <1>2, PTL DEF Spec

LEMMA InUseIs ==
  ASSUME IInv, NEW i \in Ring
  PROVE  i \in InUse <=>
           (0 < Dist(lastFree, i) /\ Dist(lastFree, i) < Dist(lastFree, nextFree))
<1> DEFINE l == Plus(lastFree, 1)
<1>1. l \in Ring /\ nextFree \in Ring /\ lastFree \in Ring
  BY Modulus, RingTypes, PlusBounds DEF IInv
<1>2. /\ Dist(l, i) = IF i = lastFree THEN N - 1 ELSE Dist(lastFree, i) - 1
      /\ Dist(lastFree, i) > 0 <=> i # lastFree
  BY <1>1, Nearer
<1>3. /\ Dist(lastFree, i) \in 0 .. N - 1 /\ Dist(lastFree, nextFree) \in 0 .. N - 1
      /\ Dist(lastFree, i) = 0 <=> lastFree = i
  BY <1>1, RingBounds
<1>4. i \in InUse <=> Dist(l, i) < Dist(lastFree, nextFree) - 1
  BY DEF InUse, Span
<1> QED
  BY Modulus, <1>2, <1>3, <1>4

LEMMA ToldIs ==
  ASSUME IInv, NEW i \in Ring
  PROVE  i \in Told =>
           (Dist(lastFree, drx) < Dist(lastFree, i) /\ Dist(lastFree, i) < Dist(lastFree, ctx))
<1> DEFINE p == Plus(drx, 1)
<1> SUFFICES ASSUME i \in Told
             PROVE  Dist(lastFree, drx) < Dist(lastFree, i)
                    /\ Dist(lastFree, i) < Dist(lastFree, ctx)
  OBVIOUS
<1>1. p \in Ring /\ ctx \in Ring /\ drx \in Ring /\ lastFree \in Ring
  BY Modulus, RingTypes, PlusBounds DEF IInv
<1>2. Dist(lastFree, drx) < Dist(lastFree, ctx)
  BY DEF IInv, Ordered
<1>3. Dist(lastFree, drx) + Dist(drx, ctx) = Dist(lastFree, ctx)
  BY Modulus, <1>1, <1>2 DEF Dist, Ring
<1>4. /\ Dist(lastFree, drx) \in 0 .. N - 1 /\ Dist(drx, ctx) \in 0 .. N - 1
      /\ Dist(lastFree, ctx) \in 0 .. N - 1 /\ Dist(lastFree, i) \in 0 .. N - 1
  BY <1>1, RingBounds
<1>5. Dist(lastFree, p) = Dist(lastFree, drx) + 1
  BY Modulus, <1>1, <1>2, <1>4, PlusFurther
<1>6. Dist(p, i) < Dist(drx, ctx) - 1
  BY DEF Told, Span
<1>7. Dist(drx, ctx) - 1 \in 0 .. N - 1
      /\ Dist(lastFree, p) + (Dist(drx, ctx) - 1) < N
  BY Modulus, <1>2, <1>3, <1>4, <1>5
<1>8. /\ Dist(lastFree, p) <= Dist(lastFree, i)
      /\ Dist(lastFree, i) < Dist(lastFree, p) + (Dist(drx, ctx) - 1)
  BY <1>1, <1>6, <1>7, Behind
<1> QED
  BY <1>3, <1>4, <1>5, <1>8

LEMMA RingSafe ==
  ASSUME IInv
  PROVE  RingExact /\ HardwareHolds
<1>1. /\ ctx \in Ring /\ drx \in Ring /\ lastFree \in Ring /\ nextFree \in Ring
      /\ dma \in Ring
  BY RingTypes DEF IInv
<1>2. \A k \in Ring : Dist(lastFree, k) \in 0 .. N - 1
  BY <1>1, RingBounds
<1>3. RingExact
  BY InUseIs DEF RingExact, IInv, Ordered
<1>4. ASSUME NEW i \in Told
      PROVE  i \in InUse
  <2>1. i \in Ring
    BY DEF Told, Span
  <2>2. /\ Dist(lastFree, drx) < Dist(lastFree, i)
        /\ Dist(lastFree, i) < Dist(lastFree, ctx)
    BY <2>1, ToldIs
  <2>3. Dist(lastFree, ctx) <= Dist(lastFree, nextFree)
    BY DEF IInv, Ordered
  <2> QED
    BY <1>1, <1>2, <2>1, <2>2, <2>3, InUseIs
<1>5. ASSUME napi = "reap", NEW i \in Told
      PROVE  i \notin Span(Plus(lastFree, 1), Dist(lastFree, dma))
  <2>1. i \in Ring /\ Plus(lastFree, 1) \in Ring
    BY <1>1, Modulus, PlusBounds DEF Told, Span
  <2>2. /\ Dist(lastFree, drx) < Dist(lastFree, i)
        /\ Dist(lastFree, dma) <= Dist(lastFree, drx)
    BY <1>5, <2>1, ToldIs DEF IInv, Ordered
  <2>3. i # lastFree /\ Dist(Plus(lastFree, 1), i) = Dist(lastFree, i) - 1
    BY <1>1, <1>2, <2>1, <2>2, Nearer, RingBounds
  <2>4. Dist(Plus(lastFree, 1), i) >= Dist(lastFree, dma)
    BY <1>1, <1>2, <2>1, <2>2, <2>3
  <2> QED
    BY <1>1, <1>2, <2>1, <2>3, <2>4 DEF Span
<1> QED
  BY <1>3, <1>4, <1>5 DEF HardwareHolds

\* Every variable has its type in every state.
THEOREM TxTypes == Spec => []TypeOK
<1>1. IInv => TypeOK
  BY DEF IInv
<1> QED
  BY <1>1, TxInvariance, PTL

\* The count of the free descriptors is exact, and a buffer is attached to the
\* descriptors in use and to no other: mtk_tx_map, mtk_poll_tx_qdma, mtk_tx_alloc.
THEOREM TxRing == Spec => []RingExact
<1>1. IInv => RingExact
  BY RingSafe
<1> QED
  BY <1>1, TxInvariance, PTL

\* Nothing that the hardware still has to send is reclaimed or overwritten:
\* mtk_poll_tx_qdma, mtk_tx_map, mtk_stop.
THEOREM TxHardwareHolds == Spec => []HardwareHolds
<1>1. IInv => HardwareHolds
  BY RingSafe
<1> QED
  BY <1>1, TxInvariance, PTL

\* No sender and no poll is at a ring that mtk_stop has freed: mtk_stop,
\* mtk_pending_work.
THEOREM TxRingThere == Spec => []RingThere
<1>1. IInv => RingThere
  <2> SUFFICES ASSUME IInv PROVE RingThere
    OBVIOUS
  <2>1. CASE xmit.at \in {"room", "bell", "thresh"}
    BY <2>1 DEF IInv, Sender, Filling, Counts, RingThere
  <2>2. CASE napi = "reap"
    <3>1. users # {} \/ at = "napi"
      BY <2>2 DEF IInv, Counts
    <3> QED
      BY <3>1 DEF IInv, Counts, RingThere
  <2> QED
    BY <2>1, <2>2 DEF RingThere
<1> QED
  BY <1>1, TxInvariance, PTL
=============================================================================
