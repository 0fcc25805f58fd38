--------------------------- MODULE EthResetProofs ---------------------------
(***************************************************************************)
(* Proofs about EthReset: reset_lock is exact, no reset is skipped, the    *)
(* worker and the wifi chips stay in step unless the flag is written under *)
(* way, and every chip has answered before the hardware is reset, unless a *)
(* wait timed out or a completion was superfluous.                         *)
(***************************************************************************)
EXTENDS EthReset, FiniteSetTheorems, TLAPS

-----------------------------------------------------------------------------
(* Types.                                                                  *)

(* The number of chips is a number, which mtk_rest_cnt starts from.        *)
LEMMA NumType ==
  ASSUME NEW S, S \subseteq Chips
  PROVE  IsFiniteSet(S) /\ Cardinality(S) \in Nat
BY ResetAssumption, FS_Subset, FS_CardinalityType

(* To owe nothing is to owe a number of answers.                            *)
LEMMA NothingType == Nothing \in [Events -> 0 .. MaxOwed]
BY ResetAssumption DEF Nothing

(* Telling the chips adds to what they owe.                                *)
LEMMA TellOwes ==
  ASSUME TypeOK, NEW what \in Events, Tell(what)
  PROVE  /\ owes' \in [Chips -> [Events -> 0 .. MaxOwed]]
         /\ chip' \in [Chips -> {"runs", "stop_traffic", "start_reset"}]
         /\ online' = online
<1>1. \A c \in Chips :
        (IF c \in online /\ owes[c][what] < MaxOwed
           THEN [owes[c] EXCEPT ![what] = @ + 1] ELSE owes[c])
          \in [Events -> 0 .. MaxOwed]
  BY ResetAssumption DEF TypeOK
<1>2. owes' \in [Chips -> [Events -> 0 .. MaxOwed]]
  BY <1>1 DEF Tell
<1> QED
  BY <1>2 DEF Tell, TypeOK, Events

(* An answer takes one away, of that chip only.                            *)
LEMMA AnswersOwes ==
  ASSUME TypeOK, NEW c \in Chips, NEW e \in Events, Answers(c, e)
  PROVE  /\ owes' \in [Chips -> [Events -> 0 .. MaxOwed]]
         /\ owes'[c] = [owes[c] EXCEPT ![e] = owes[c][e] - 1]
         /\ \A d \in Chips \ {c} : owes'[d] = owes[d]
         /\ owes[c][e] > 0 /\ owes[c] # Nothing
<1>1. owes[c] \in [Events -> 0 .. MaxOwed] /\ owes[c][e] \in 0 .. MaxOwed
  BY DEF TypeOK
<1>2. [owes[c] EXCEPT ![e] = owes[c][e] - 1] \in [Events -> 0 .. MaxOwed]
  BY <1>1, ResetAssumption DEF Answers
<1>3. owes' = [owes EXCEPT ![c] = [owes[c] EXCEPT ![e] = owes[c][e] - 1]]
  BY DEF Answers
<1> QED
  BY <1>1, <1>2, <1>3 DEF TypeOK, Answers, Nothing

(* The steps of the worker keep the types.                                 *)
LEMMA WorkType ==
  ASSUME TypeOK, Work
  PROVE  TypeOK'
<1> USE DEF TypeOK, Places, wifi, bounds, Flags
<1>1. CASE WorkBegins
  <2>1. reset_lock' = 1 /\ pc' = "check" /\ pending' = FALSE
    BY <1>1 DEF WorkBegins
  <2>2. asked' \in {"no", "queued", "served"}
    BY <1>1 DEF WorkBegins
  <2> QED
    BY <1>1, <2>1, <2>2 DEF WorkBegins
<1>2. CASE NoNeed
  BY <1>2 DEF NoNeed
<1>3. CASE Prepare
  <2>1. PICK what \in Events : Tell(what)
    BY <1>3 DEF Prepare, Announce, Events
  <2>2. /\ owes' \in [Chips -> [Events -> 0 .. MaxOwed]]
        /\ chip' \in [Chips -> {"runs", "stop_traffic", "start_reset"}]
        /\ online' = online
    BY <2>1, TellOwes, Zenon
  <2> QED
    BY <1>3, <2>2 DEF Prepare
<1>4. CASE Woken
  BY <1>4 DEF Woken
<1>5. CASE TellAgain
  <2>1. /\ owes' \in [Chips -> [Events -> 0 .. MaxOwed]]
        /\ chip' \in [Chips -> {"runs", "stop_traffic", "start_reset"}]
        /\ online' = online
    BY <1>5, TellOwes DEF TellAgain, Events
  <2> QED
    BY <1>5, <2>1 DEF TellAgain
<1>6. CASE WokenAgain
  <2>1. wait_ser_done' \in Nat /\ pc' = "stop" /\ mtk_stop_fail' = FALSE
    BY <1>6 DEF WokenAgain
  <2> QED
    BY <1>6, <2>1 DEF WokenAgain
<1>7. CASE TimesOut
  BY <1>7 DEF TimesOut, Disturbances
<1>8. CASE StopAll
  BY <1>8 DEF StopAll
<1>9. CASE HwInit
  BY <1>9 DEF HwInit, Reset
<1>10. CASE TellDone
  BY <1>10 DEF TellDone, Release
<1>11. CASE RestartTimer
  BY <1>11 DEF RestartTimer
<1>12. CASE WorkEnds
  BY <1>12 DEF WorkEnds
<1> QED
  BY <1>1, <1>2, <1>3, <1>4, <1>5, <1>6, <1>7, <1>8, <1>9, <1>10, <1>11, <1>12
     DEF Work

(* The requests, the hardware and the chips keep them, too.                *)
LEMMA OtherType ==
  ASSUME TypeOK, Next, ~Work
  PROVE  TypeOK'
<1> USE ResetAssumption DEF TypeOK, Places, worker, wifi, bounds, Flags, Request,
      Schedule, DebugSame
<1>1. CASE MonitorLooks
  BY <1>1 DEF MonitorLooks
<1>2. CASE MonitorWrites
  BY <1>2 DEF MonitorWrites, WriteFlag, Disturbances
<1>3. CASE TxTimeout
  BY <1>3 DEF TxTimeout
<1>4. CASE ChipAsks
  BY <1>4 DEF ChipAsks, WriteFlag, Disturbances
<1>5. CASE ModeChange
  <2>1. requests' \in 0 .. MaxRequests /\ UNCHANGED <<hangs, moves>>
    BY <1>5 DEF ModeChange
  <2>2. force' \in Nat
    BY <1>5 DEF ModeChange
  <2> QED
    BY <1>5, <2>1, <2>2 DEF ModeChange
<1>6. CASE DebugForce
  BY <1>6 DEF DebugForce
<1>7. CASE DebugResetAll
  BY <1>7 DEF DebugResetAll
<1>8. CASE DebugReset
  BY <1>8 DEF DebugReset, WriteFlag, Disturbances
<1>9. CASE Hangs("fe") \/ Hangs("wdma")
  BY <1>9 DEF Hangs
<1>10. CASE FeError \/ FeIrq
  <2>1. hangs' \in 0 .. MaxHangs /\ fe_int' \in BOOLEAN
    <3>1. hangs' \in 0 .. MaxHangs
      BY <1>10 DEF FeError, FeIrq
    <3>2. fe_int' \in BOOLEAN
      BY <1>10 DEF FeError, FeIrq
    <3> QED
      BY <3>1, <3>2
  <2>2. UNCHANGED <<requests, moves>>
    BY <1>10 DEF FeError, FeIrq
  <2> QED
    BY <1>10, <2>1, <2>2 DEF FeError, FeIrq
<1>11. ASSUME NEW c \in Chips, Answer(c) PROVE TypeOK'
  <2>1. /\ mtk_rest_cnt' \in Int /\ wait_ser_done' \in Nat
        /\ disturbed' \subseteq Disturbances
    <3>1. CASE Complete({})
      BY <3>1, NumType DEF Complete, wifi_num, Disturbances
    <3>2. CASE /\ mtk_rest_cnt' = mtk_rest_cnt - 1
               /\ UNCHANGED <<wait_ser_done, disturbed>>
      BY <3>2
    <3> QED
      BY <1>11, <3>1, <3>2 DEF Answer
  <2>2. owes' \in [Chips -> [Events -> 0 .. MaxOwed]]
    <3>1. PICK e \in Events : Answers(c, e)
      BY <1>11 DEF Answer
    <3> QED
      BY <3>1, AnswersOwes, Zenon
  <2> QED
    BY <1>11, <2>1, <2>2 DEF Answer
<1>12. ASSUME NEW c \in Chips, AnswerFails(c) PROVE TypeOK'
  <2>1. owes' \in [Chips -> [Events -> 0 .. MaxOwed]]
    BY <1>12, AnswersOwes DEF AnswerFails, Events
  <2>2. /\ mtk_rest_cnt' \in Int /\ wait_ser_done' \in Nat
        /\ disturbed' \subseteq Disturbances
    BY <1>12, NumType DEF AnswerFails, Complete, wifi_num, Disturbances
  <2> QED
    BY <1>12, <2>1, <2>2 DEF AnswerFails
<1>13. ASSUME NEW c \in Chips, Moves(c) PROVE TypeOK'
  <2>1. online' \subseteq Chips
    BY <1>13 DEF Moves
  <2>2. mtk_rest_cnt' \in Int
    BY <1>13, <2>1, NumType DEF Moves
  <2>3. owes' \in [Chips -> [Events -> 0 .. MaxOwed]]
    BY <1>13, NothingType DEF Moves
  <2> QED
    BY <1>13, <2>1, <2>2, <2>3 DEF Moves
<1> QED
  BY <1>1, <1>2, <1>3, <1>4, <1>5, <1>6, <1>7, <1>8, <1>9, <1>10, <1>11, <1>12,
     <1>13 DEF Next

(* TypeOK is inductive by itself.                                          *)
LEMMA TypeInductive ==
  /\ Init => TypeOK
  /\ TypeOK /\ [Next]_vars => TypeOK'
<1>1. Init => TypeOK
  <2> SUFFICES ASSUME Init PROVE TypeOK
    OBVIOUS
  <2>1. mtk_rest_cnt \in Int
    BY NumType DEF Init
  <2>2. /\ hangs \in 0 .. MaxHangs /\ requests \in 0 .. MaxRequests
        /\ moves \in 0 .. MaxMoves
    BY ResetAssumption DEF Init
  <2>3. owes \in [Chips -> [Events -> 0 .. MaxOwed]]
    BY NothingType DEF Init
  <2> QED
    BY <2>1, <2>2, <2>3 DEF Init, TypeOK, Flags, Places
<1>2. ASSUME TypeOK, [Next]_vars PROVE TypeOK'
  <2>1. CASE UNCHANGED vars
    BY <1>2, <2>1 DEF vars, TypeOK, Places, Flags
  <2> QED
    BY <1>2, <2>1, WorkType, OtherType
<1> QED
  BY <1>1, <1>2

(* reset_lock and the other variables of the driver.                       *)
THEOREM TypeCorrect == Spec => []TypeOK
BY TypeInductive, PTL DEF Spec

(* mtk_hw_init finds reset_lock taken, so it resets the hardware.          *)
THEOREM ResetNeverSkipped == Spec => []ResetNotSkipped
<1>1. Init => ResetNotSkipped
  BY DEF Init, ResetNotSkipped
<1>2. TypeOK /\ ResetNotSkipped /\ [Next]_vars => ResetNotSkipped'
  <2> SUFFICES ASSUME TypeOK, ResetNotSkipped, [Next]_vars PROVE ResetNotSkipped'
    OBVIOUS
  <2>1. CASE HwInit
    BY <2>1 DEF HwInit, Reset, ResetNotSkipped, TypeOK
  <2>2. CASE Work /\ ~HwInit
    BY <2>2 DEF Work, WorkBegins, NoNeed, Prepare, Woken, TellAgain, WokenAgain,
      TimesOut, StopAll, TellDone, RestartTimer, WorkEnds, ResetNotSkipped
  <2>3. CASE ~Work
    BY <2>3 DEF Next, MonitorLooks, MonitorWrites, TxTimeout, ChipAsks, ModeChange,
      DebugForce, DebugResetAll, DebugReset, DebugSame, Hangs, FeError, FeIrq,
      Answer, AnswerFails, Moves, worker, ResetNotSkipped, vars
  <2> QED
    BY <2>1, <2>2, <2>3
<1> QED
  BY <1>1, <1>2, TypeInductive, PTL DEF Spec

-----------------------------------------------------------------------------
(* The worker and the chips stay in step.                                  *)

Calm == disturbed \cap {"overwritten", "superfluous"} = {}

\* what the chips were told, or have to be
Told == IF mtk_reset_flag = "stop_traffic" THEN "stop_traffic" ELSE "start_reset"

(* As long as the flag is written only where nobody reads it: a failure is
   known, to the worker, before it goes on; the chips are in the state that the
   flag stands for; and all of them run when no reset is under way.         *)
InStep ==
  /\ \A c \in Chips \ online : chip[c] = "runs" /\ owes[c] = Nothing
  /\ mtk_stop_fail =>
       /\ pc \in {"wait", "again", "wait_again"}
       /\ mtk_reset_flag = "start_reset"
       /\ pc = "wait" => wait_ser_done > 0
  /\ pc \in {"again", "wait_again"} => mtk_stop_fail
  /\ pc \in {"idle", "check", "restart", "tail"} =>
       \A c \in online : chip[c] = "runs"
  /\ pc \in {"wait", "wait_again", "stop", "init", "release"} =>
       \/ \A c \in online : chip[c] \in {"runs", Told}
       \/ pc = "wait" /\ mtk_stop_fail
  /\ pc = "release" /\ did = "fe_wdma" => mtk_reset_flag = "start_reset"

(* Once something disturbed a reset, nothing is claimed any more.          *)
LEMMA CalmBefore ==
  ASSUME Next
  PROVE  Calm' => Calm
<1> SUFFICES disturbed \subseteq disturbed'
  BY DEF Calm
<1> USE DEF bounds, worker, wifi, DebugSame, Request
<1>1. CASE Work
  BY <1>1 DEF Work, WorkBegins, NoNeed, Prepare, Woken, TellAgain, WokenAgain,
    TimesOut, StopAll, HwInit, TellDone, RestartTimer, WorkEnds
<1>2. CASE ~Work
  BY <1>2 DEF Next, MonitorLooks, MonitorWrites, TxTimeout, ChipAsks, ModeChange,
    DebugForce, DebugResetAll, DebugReset, Hangs, FeError, FeIrq, Answer,
    AnswerFails, Moves, WriteFlag, Complete
<1> QED
  BY <1>1, <1>2

(* The end of a wait, in time or not, leaves them in step once no failure is
   pending.                                                                 *)
LEMMA InStepStop ==
  ASSUME InStep, pc' = "stop", ~mtk_stop_fail',
         pc \in {"wait", "wait_again"}, pc = "wait" => ~mtk_stop_fail,
         UNCHANGED <<online, chip, owes, mtk_reset_flag, did>>
  PROVE  InStep'
<1> USE DEF InStep, Told
<1>1. (pc \in {"wait", "wait_again", "stop", "init", "release"} =>
         \/ \A c \in online : chip[c] \in {"runs", Told}
         \/ pc = "wait" /\ mtk_stop_fail)'
  OBVIOUS
<1>2. (\A c \in Chips \ online : chip[c] = "runs" /\ owes[c] = Nothing)'
  OBVIOUS
<1>3. (/\ pc \in {"again", "wait_again"} => mtk_stop_fail
       /\ pc \in {"idle", "check", "restart", "tail"} =>
            \A c \in online : chip[c] = "runs"
       /\ pc = "release" /\ did = "fe_wdma" => mtk_reset_flag = "start_reset")'
  OBVIOUS
<1>4. (mtk_stop_fail =>
         /\ pc \in {"wait", "again", "wait_again"}
         /\ mtk_reset_flag = "start_reset"
         /\ pc = "wait" => wait_ser_done > 0)'
  BY Zenon
<1> QED
  BY <1>1, <1>2, <1>3, <1>4, Zenon

(* The worker stays in step with the chips.                                *)
LEMMA InStepWork ==
  ASSUME NetsysV3, TypeOK, InStep, Work
  PROVE  InStep'
<1> USE DEF InStep, Told, wifi
<1>1. CASE WorkBegins
  BY <1>1 DEF WorkBegins
<1>2. CASE NoNeed
  BY <1>2 DEF NoNeed
<1>3. CASE Prepare
  BY <1>3 DEF Prepare, Announce, Tell, TypeOK
<1>4. CASE Woken
  BY <1>4 DEF Woken
<1>5. CASE TellAgain
  BY <1>5 DEF TellAgain, Tell, TypeOK
<1>6. CASE WokenAgain
  BY <1>6, InStepStop DEF WokenAgain
<1>7. CASE TimesOut
  <2>1. pc \in {"wait", "wait_again"} /\ pc' = "stop"
    BY <1>7 DEF TimesOut
  <2>2. ~mtk_stop_fail'
    <3>1. pc = "wait" => ~mtk_stop_fail
      BY <1>7 DEF TimesOut
    <3>2. mtk_stop_fail' = (mtk_stop_fail /\ pc = "wait")
      BY <1>7 DEF TimesOut
    <3> QED
      BY <3>1, <3>2, Zenon
  <2>3. pc = "wait" => ~mtk_stop_fail
    BY <1>7 DEF TimesOut
  <2>4. UNCHANGED <<online, chip, owes, mtk_reset_flag, did>>
    BY <1>7 DEF TimesOut
  <2> QED
    BY <2>1, <2>2, <2>3, <2>4, InStepStop
<1>8. CASE StopAll
  BY <1>8 DEF StopAll
<1>9. CASE HwInit
  BY <1>9 DEF HwInit, Reset
<1>10. CASE TellDone
  BY <1>10 DEF TellDone, Release, TypeOK
<1>11. CASE RestartTimer
  BY <1>11 DEF RestartTimer
<1>12. CASE WorkEnds
  BY <1>12 DEF WorkEnds
<1> QED
  BY <1>1, <1>2, <1>3, <1>4, <1>5, <1>6, <1>7, <1>8, <1>9, <1>10, <1>11, <1>12
     DEF Work

(* The others keep it, too: a flag that is written under way, or a completion
   that nobody waits for, is what disturbs.                                 *)
LEMMA InStepOther ==
  ASSUME TypeOK, InStep, Calm, Calm', Next, ~Work
  PROVE  InStep'
<1> USE DEF InStep, Told, worker, wifi, Calm
<1>1. CASE MonitorLooks \/ TxTimeout \/ ModeChange \/ DebugForce \/ DebugResetAll
           \/ Hangs("fe") \/ Hangs("wdma") \/ FeError \/ FeIrq
  BY <1>1 DEF MonitorLooks, TxTimeout, ModeChange, DebugForce, DebugResetAll,
    DebugSame, Hangs, FeError, FeIrq
<1>2. CASE MonitorWrites \/ ChipAsks \/ DebugReset
  <2>1. pc \in {"idle", "check", "restart", "tail"}
    BY <1>2 DEF MonitorWrites, ChipAsks, DebugReset, WriteFlag
  <2>2. UNCHANGED <<pc, mtk_stop_fail, did, online, chip, owes, wait_ser_done>>
    BY <1>2 DEF MonitorWrites, ChipAsks, DebugReset, DebugSame
  <2> QED
    BY <2>1, <2>2
<1>3. ASSUME NEW c \in Chips, Answer(c) PROVE InStep'
  <2>1. UNCHANGED <<pc, mtk_stop_fail, did, online, chip, mtk_reset_flag>>
    BY <1>3 DEF Answer
  <2>2. /\ c \in online
        /\ \A d \in Chips \ {c} : owes'[d] = owes[d]
    BY <1>3, AnswersOwes DEF Answer
  <2>3. wait_ser_done > 0 => wait_ser_done' > 0
    BY <1>3 DEF Answer, Complete, TypeOK
  <2> QED
    BY <2>1, <2>2, <2>3 DEF TypeOK
<1>4. ASSUME NEW c \in Chips, AnswerFails(c) PROVE InStep'
  <2>1. /\ UNCHANGED <<pc, did, online, chip>>
        /\ mtk_stop_fail' /\ mtk_reset_flag' = "start_reset"
        /\ Answers(c, "stop_traffic")
    BY <1>4 DEF AnswerFails
  <2>2. pc \in {"wait", "wait_again"} /\ wait_ser_done' > 0
    BY <1>4 DEF AnswerFails, Complete, TypeOK
  <2>3. c \in online /\ \A d \in Chips \ {c} : owes'[d] = owes[d]
    BY <2>1, AnswersOwes DEF Events
  <2>4. pc = "wait_again" => \A d \in online : chip[d] \in {"runs", "start_reset"}
    OBVIOUS
  <2> QED
    BY <2>1, <2>2, <2>3, <2>4
<1>5. ASSUME NEW c \in Chips, Moves(c) PROVE InStep'
  BY <1>5 DEF Moves, TypeOK
<1> QED
  BY <1>1, <1>2, <1>3, <1>4, <1>5 DEF Next

(* Unless something disturbs a reset, worker and chips are in step.        *)
LEMMA InStepAlways == NetsysV3 => (Spec => [](Calm => InStep))
<1> SUFFICES ASSUME NetsysV3 PROVE Spec => [](Calm => InStep)
  OBVIOUS
<1>1. Init => (Calm => InStep)
  BY DEF Init, InStep
<1>2. TypeOK /\ (Calm => InStep) /\ [Next]_vars => (Calm => InStep)'
  <2> SUFFICES ASSUME TypeOK, Calm => InStep, [Next]_vars, Calm' PROVE InStep'
    OBVIOUS
  <2>1. CASE UNCHANGED vars
    BY <2>1 DEF vars, InStep, Calm, Told
  <2>2. CASE Next
    BY <2>2, CalmBefore, InStepWork, InStepOther
  <2> QED
    BY <2>1, <2>2
<1> QED
  BY <1>1, <1>2, TypeInductive, PTL DEF Spec

(* With MTK_NETSYS_V3, which tries a failed stop again, every chip runs after a
   reset: the event that releases the chips (mtk_pending_work) is the one that
   stopped them.                                                            *)
THEOREM EveryChipReleased == NetsysV3 => (Spec => []ChipsReleased)
<1> SUFFICES ASSUME NetsysV3 PROVE Spec => []ChipsReleased
  OBVIOUS
<1>1. (Calm => InStep) => ChipsReleased
  BY DEF Calm, InStep, ChipsReleased
<1> QED
  BY <1>1, InStepAlways, PTL

(* The WDMAs are reset only under chips that are in their own reset.       *)
THEOREM WdmaSafe == NetsysV3 => (Spec => []WdmaOnlyUnderReset)
<1> SUFFICES ASSUME NetsysV3 PROVE Spec => []WdmaOnlyUnderReset
  OBVIOUS
<1>1. (Calm => InStep) => WdmaOnlyUnderReset
  BY DEF Calm, InStep, WdmaOnlyUnderReset, Told
<1> QED
  BY <1>1, InStepAlways, PTL

-----------------------------------------------------------------------------
(* Every chip has answered.                                                *)

Undisturbed == disturbed \subseteq {"overwritten"}

Owing == {c \in Chips : owes[c] # Nothing}

\* one answer to one event
One(c, e) == \A f \in Events : owes[c][f] = IF f = e THEN 1 ELSE 0

(* mtk_rest_cnt counts the answers that are missing: it is the number of chips
   except during the wait, and then it is not less than the number of chips that
   owe one, each of them a single one; the one completion that is given is given
   for the last answer.                                                     *)
Counted ==
  /\ ~mtk_stop_fail /\ pc \notin {"again", "wait_again"}
  /\ Owing \subseteq online
  /\ \A c \in Owing : \E e \in Events : One(c, e)
  /\ wait_ser_done \in {0, 1} /\ (wait_ser_done = 1 => pc = "wait")
  /\ pc # "wait" \/ wait_ser_done = 1 =>
       Owing = {} /\ mtk_rest_cnt = wifi_num
  /\ pc = "wait" /\ wait_ser_done = 0 => mtk_rest_cnt >= Cardinality(Owing)

(* What disturbed a reset stays known.                                     *)
LEMMA UndisturbedBefore ==
  ASSUME Next
  PROVE  Undisturbed' => Undisturbed
<1> SUFFICES disturbed \subseteq disturbed'
  BY DEF Undisturbed
<1> USE DEF bounds, worker, wifi, DebugSame, Request
<1>1. CASE Work
  BY <1>1 DEF Work, WorkBegins, NoNeed, Prepare, Woken, TellAgain, WokenAgain,
    TimesOut, StopAll, HwInit, TellDone, RestartTimer, WorkEnds
<1>2. CASE ~Work
  BY <1>2 DEF Next, MonitorLooks, MonitorWrites, TxTimeout, ChipAsks, ModeChange,
    DebugForce, DebugResetAll, DebugReset, Hangs, FeError, FeIrq, Answer,
    AnswerFails, Moves, WriteFlag, Complete
<1> QED
  BY <1>1, <1>2

(* What leaves the chips and the counters alone, and the worker where it is or
   not in a wait.                                                           *)
LEMMA CountedSame ==
  ASSUME Counted, UNCHANGED <<mtk_rest_cnt, wait_ser_done, mtk_stop_fail, online, owes>>,
         \/ pc' = pc
         \/ pc # "wait" /\ pc' \notin {"wait", "again", "wait_again"}
  PROVE  Counted'
<1>1. Owing' = Owing /\ wifi_num' = wifi_num
  BY DEF Owing, wifi_num
<1>2. ~mtk_stop_fail'
  BY DEF Counted
<1>3. (\A c \in Owing : \E e \in Events : One(c, e))'
  BY <1>1 DEF Counted, One
<1> QED
  BY <1>1, <1>2, <1>3 DEF Counted

(* The worker's steps.                                                     *)
LEMMA CountedWork ==
  ASSUME TypeOK, Counted, Undisturbed', Work
  PROVE  Counted'
<1> USE DEF wifi
<1>1. CASE Prepare
  <2>1. PICK what \in Events : Tell(what)
    BY <1>1 DEF Prepare, Announce, Events
  <2>2. /\ \A c \in Chips : owes[c] = Nothing
        /\ \A c \in online : owes'[c] = [Nothing EXCEPT ![what] = 1]
        /\ \A c \in Chips \ online : owes'[c] = Nothing
    <3>1. pc # "wait"
      BY <1>1 DEF Prepare
    <3>2. \A c \in Chips : owes[c] = Nothing
      BY <3>1 DEF Counted, Owing
    <3> QED
      BY <2>1, <3>2, ResetAssumption DEF Tell, Nothing, TypeOK
  <2>3. Owing' \subseteq online
    BY <2>2 DEF Owing, TypeOK
  <2>4. \A c \in Owing' : \E e \in Events : One(c, e)'
    <3> SUFFICES ASSUME NEW c \in Owing' PROVE One(c, what)'
      BY <2>1
    <3> QED
      BY <2>2, <2>3 DEF One, Nothing
  <2>5. Cardinality(Owing') \in Nat /\ Cardinality(Owing') <= wifi_num
    BY <2>3, NumType, FS_Subset DEF wifi_num, TypeOK
  <2>6. /\ UNCHANGED <<mtk_rest_cnt, wait_ser_done, mtk_stop_fail, online>>
        /\ pc = "check" /\ pc' = "wait"
    BY <1>1 DEF Prepare, Announce, Tell
  <2>7. mtk_rest_cnt = wifi_num /\ wait_ser_done = 0
    BY <2>6 DEF Counted
  <2>8. ~mtk_stop_fail'
    BY <2>6 DEF Counted
  <2>9. mtk_rest_cnt' >= Cardinality(Owing')
    BY <2>5, <2>6, <2>7 DEF TypeOK
  <2> QED
    BY <2>3, <2>6, <2>7, <2>8, <2>9, <2>4 DEF Counted
<1>2. CASE Woken
  <2>1. /\ UNCHANGED <<mtk_rest_cnt, mtk_stop_fail, online, owes>>
        /\ wait_ser_done > 0 /\ wait_ser_done' = wait_ser_done - 1
        /\ pc = "wait" /\ (~mtk_stop_fail => pc' = "stop")
    BY <1>2 DEF Woken
  <2>2. Owing' = Owing /\ wifi_num' = wifi_num
    BY <2>1 DEF Owing, wifi_num
  <2>3. ~mtk_stop_fail' /\ ~mtk_stop_fail
    BY <2>1 DEF Counted
  <2>4. wait_ser_done = 1 /\ wait_ser_done' = 0
    BY <2>1 DEF Counted
  <2>5. (\A c \in Owing : \E e \in Events : One(c, e))'
    BY <2>1, <2>2 DEF Counted, One
  <2> QED
    BY <2>1, <2>2, <2>3, <2>4, <2>5 DEF Counted
<1>3. CASE TellAgain \/ WokenAgain
  BY <1>3 DEF TellAgain, WokenAgain, Counted
<1>4. CASE TimesOut
  BY <1>4 DEF TimesOut, Undisturbed
<1>5. CASE WorkBegins \/ NoNeed \/ StopAll \/ HwInit \/ TellDone \/ RestartTimer
           \/ WorkEnds
  BY <1>5, CountedSame DEF WorkBegins, NoNeed, StopAll, HwInit, TellDone, Release,
    RestartTimer, WorkEnds
<1> QED
  BY <1>1, <1>2, <1>3, <1>4, <1>5 DEF Work

(* The steps of the chips and of the others.                               *)
LEMMA CountedOther ==
  ASSUME TypeOK, Counted, Undisturbed', Next, ~Work
  PROVE  Counted'
<1> USE DEF worker, wifi
<1>1. CASE ~ \E c \in Chips : Answer(c) \/ AnswerFails(c) \/ Moves(c)
  BY <1>1, CountedSame DEF Next, MonitorLooks, MonitorWrites, TxTimeout, ChipAsks,
    ModeChange, DebugForce, DebugResetAll, DebugReset, DebugSame, Hangs, FeError,
    FeIrq
<1>2. ASSUME NEW c \in Chips, Answer(c) PROVE Counted'
  <2>1. /\ UNCHANGED <<pc, mtk_stop_fail, online>>
        /\ \E e \in Events : Answers(c, e)
    BY <1>2 DEF Answer
  <2>2. PICK e \in Events : Answers(c, e)
    BY <2>1
  <2>3. /\ owes'[c] = [owes[c] EXCEPT ![e] = owes[c][e] - 1]
        /\ \A d \in Chips \ {c} : owes'[d] = owes[d]
        /\ owes[c][e] > 0 /\ owes[c] # Nothing
    BY <2>2, AnswersOwes, Zenon
  <2>4. One(c, e)
    BY <2>3, ResetAssumption DEF Counted, Owing, One, TypeOK
  <2>5. owes'[c] = Nothing
    <3>1. owes[c] \in [Events -> 0 .. MaxOwed]
      BY DEF TypeOK
    <3>2. \A f \in Events : owes'[c][f] = 0
      BY <2>3, <2>4, <3>1 DEF One
    <3> QED
      BY <2>3, <3>1, <3>2 DEF Nothing
  <2>6. c \in Owing /\ Owing' = Owing \ {c} /\ wifi_num' = wifi_num
    BY <2>1, <2>3, <2>5 DEF Owing, wifi_num
  <2>7. \A d \in Owing' : \E f \in Events : One(d, f)'
    BY <2>6, <2>3 DEF Counted, One, Owing
  <2>8. pc = "wait" /\ wait_ser_done = 0 /\ mtk_rest_cnt >= Cardinality(Owing)
    BY <2>6 DEF Counted
  <2>9. IsFiniteSet(Owing) /\ Cardinality(Owing) \in Nat
    BY NumType DEF Owing
  <2>10. /\ Cardinality(Owing') = Cardinality(Owing) - 1
        /\ IsFiniteSet(Owing') /\ Cardinality(Owing') \in Nat
    BY <2>6, <2>9, FS_RemoveElement, FS_CardinalityType
  <2>11. ~mtk_stop_fail' /\ Owing' \subseteq online' /\ pc' = "wait"
    BY <2>1, <2>6, <2>8 DEF Counted
  <2>12. CASE mtk_rest_cnt = 1 /\ Complete({})
    <3>1. wait_ser_done' = 1 /\ mtk_rest_cnt' = wifi_num
      BY <2>8, <2>12 DEF Complete
    <3>2. Owing' = {}
      <4>1. Cardinality(Owing') = 0
        BY <2>8, <2>9, <2>10, <2>12
      <4> QED
        BY <2>10, <4>1, FS_EmptySet
    <3> QED
      BY <2>6, <2>11, <2>7, <3>1, <3>2 DEF Counted
  <2>13. CASE mtk_rest_cnt' = mtk_rest_cnt - 1 /\ UNCHANGED wait_ser_done
    <3>1. mtk_rest_cnt' >= Cardinality(Owing')
      BY <2>8, <2>9, <2>10, <2>13 DEF TypeOK
    <3> QED
      BY <2>8, <2>11, <2>13, <2>7, <3>1 DEF Counted
  <2> QED
    BY <1>2, <2>12, <2>13 DEF Answer
<1>3. ASSUME NEW c \in Chips, AnswerFails(c) PROVE Counted'
  BY <1>3 DEF AnswerFails, Complete, Undisturbed
<1>4. ASSUME NEW c \in Chips, Moves(c) PROVE Counted'
  <2>1. /\ UNCHANGED <<pc, mtk_stop_fail, wait_ser_done>>
        /\ owes' = [owes EXCEPT ![c] = Nothing]
        /\ online' \in {online \ {c}, online \cup {c}}
        /\ mtk_rest_cnt' = Cardinality(online')
    BY <1>4 DEF Moves
  <2>2. Owing' = Owing \ {c} /\ Owing' \subseteq online' /\ online' \subseteq Chips
    BY <2>1 DEF Owing, Counted, TypeOK
  <2>3. /\ mtk_rest_cnt' = wifi_num' /\ mtk_rest_cnt' \in Nat
        /\ Cardinality(Owing') \in Nat /\ mtk_rest_cnt' >= Cardinality(Owing')
    BY <2>1, <2>2, NumType, FS_Subset DEF wifi_num
  <2>4. ~mtk_stop_fail'
    BY <2>1 DEF Counted
  <2>5. \A d \in Owing' : \E e \in Events : One(d, e)'
    BY <2>1, <2>2 DEF Counted, One, Owing, TypeOK
  <2> QED
    BY <2>1, <2>2, <2>3, <2>4, <2>5 DEF Counted
<1> QED
  BY <1>1, <1>2, <1>3, <1>4

(* The hardware is reset only after every chip has answered: the count of the
   answers (mtk_rest_cnt) and of the completions (wait_ser_done) are right until
   a wait times out, a completion is superfluous or a chip fails.           *)
THEOREM EveryChipAnswered == Spec => []AllAnswered
<1>1. Init => Counted
  BY ResetAssumption DEF Init, Counted, Owing, wifi_num
<1>2. TypeOK /\ (Undisturbed => Counted) /\ [Next]_vars => (Undisturbed => Counted)'
  <2> SUFFICES ASSUME TypeOK, Undisturbed => Counted, [Next]_vars, Undisturbed'
               PROVE  Counted'
    OBVIOUS
  <2>1. CASE UNCHANGED vars
    <3>1. Undisturbed
      BY <2>1 DEF vars, Undisturbed
    <3> QED
      BY <2>1, <3>1, CountedSame DEF vars
  <2>2. CASE Next
    BY <2>2, UndisturbedBefore, CountedWork, CountedOther
  <2> QED
    BY <2>1, <2>2
<1>3. TypeOK /\ (Undisturbed => Counted) => AllAnswered
  BY DEF TypeOK, Undisturbed, Counted, AllAnswered, Owing
<1> QED
  BY <1>1, <1>2, <1>3, TypeInductive, PTL DEF Spec
=============================================================================
