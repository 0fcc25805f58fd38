--------------------------- MODULE NmbmMtdProofs ----------------------------
(***************************************************************************)
(* For any number of threads and requests: the device lock of nmbm-mtd.c   *)
(* loses no wakeup and lets one request at a time into the core.           *)
(***************************************************************************)
EXTENDS NmbmMtd, TLAPS

(* At the start nobody uses the device.                                    *)
LEMMA LockInit == Init => LockInv
  BY RequestsAssumption DEF Init, LockInv, TypeOK, NoLostWakeup, StateTells, Queued,
     Inside, Places, FL_READY, FL_BUSY, FL_PM_SUSPENDED

(* The steps that leave nm->state and the wait queue alone: a call begins, and
   schedule() returns.                                                     *)
LEMMA CallKeepsLock ==
  ASSUME LockInv, NEW t \in Threads, Call(t) \/ CallShutdown(t) \/ Schedule(t)
  PROVE  LockInv'
  <1> USE DEF LockInv, TypeOK, Places, Goto, Call, CallShutdown, Schedule
  <1>1. TypeOK'
    BY RequestsAssumption
  <1>2. NoLostWakeup'
    BY DEF NoLostWakeup, Queued
  <1>3. StateTells'
    BY DEF StateTells, Inside
  <1>4. Queued'
    BY DEF Queued, NoLostWakeup
  <1> QED BY <1>1, <1>2, <1>3, <1>4

(* nmbm_get_device returns to its caller.                                  *)
LEMMA GetKeepsLock ==
  ASSUME LockInv, NEW t \in Threads, Get(t)
  PROVE  LockInv'
  <1> USE DEF LockInv, TypeOK, Places, Goto, Get, Admits, FL_READY, FL_BUSY,
              FL_PM_SUSPENDED
  <1>1. TypeOK'
    OBVIOUS
  <1>2. NoLostWakeup'
    BY DEF NoLostWakeup
  <1>3. StateTells'
    BY DEF StateTells, Inside
  <1>4. Queued'
    BY DEF Queued
  <1> QED BY <1>1, <1>2, <1>3, <1>4

(* nmbm_get_device goes to sleep, and tries again after it was woken.      *)
LEMMA WaitKeepsLock ==
  ASSUME LockInv, NEW t \in Threads, Wait(t) \/ Retry(t)
  PROVE  LockInv'
  <1> USE DEF LockInv, TypeOK, Places, Goto, Wait, Retry, Enqueue, Admits,
              FL_READY, FL_BUSY, FL_PM_SUSPENDED, Queued
  <1>1. TypeOK'
    OBVIOUS
  <1>2. NoLostWakeup'
    BY DEF NoLostWakeup
  <1>3. StateTells'
    BY DEF StateTells, Inside
  <1>4. Queued'
    OBVIOUS
  <1> QED BY <1>1, <1>2, <1>3, <1>4

(* nmbm_release_device: whoever slept is awake.                            *)
LEMMA ReleaseKeepsLock ==
  ASSUME LockInv, NEW t \in Threads, Release(t)
  PROVE  LockInv'
  <1> USE DEF LockInv, TypeOK, Places, Goto, Release, WakeUp, FL_READY, FL_BUSY,
              FL_PM_SUSPENDED
  <1>1. TypeOK'
    OBVIOUS
  <1>2. NoLostWakeup'
    BY DEF NoLostWakeup
  <1>3. StateTells'
    BY DEF StateTells, Inside
  <1>4. Queued'
    BY DEF Queued
  <1> QED BY <1>1, <1>2, <1>3, <1>4

(* The inductive invariant of the device lock.                             *)
THEOREM LockInvariant == Spec => []LockInv
  <1>1. LockInv /\ [Next]_vars => LockInv'
    <2> SUFFICES ASSUME LockInv, [Next]_vars PROVE LockInv'
      OBVIOUS
    <2>1. CASE Next
      BY <2>1, CallKeepsLock, GetKeepsLock, WaitKeepsLock, ReleaseKeepsLock
      DEF Next, Step
    <2>2. CASE UNCHANGED vars
      BY <2>2 DEF vars, LockInv, TypeOK, NoLostWakeup, StateTells, Queued, Inside
    <2> QED BY <2>1, <2>2
  <1> QED BY LockInit, <1>1, PTL DEF Spec

(* state, the wait queue and the places of the threads keep their types.   *)
THEOREM LockTypes == Spec => []TypeOK
  BY LockInvariant, PTL DEF LockInv

(* No thread sleeps in nmbm_get_device while the device is ready.          *)
THEOREM NoWakeupLost == Spec => []NoLostWakeup
  BY LockInvariant, PTL DEF LockInv

(* nm->state is FL_READY or FL_PM_SUSPENDED exactly while no thread is inside
   the core, and never are two.                                            *)
THEOREM StateTellsTruth == Spec => []StateTells
  BY LockInvariant, PTL DEF LockInv

(* The device lock implements the abstract one: requests enter the core one at
   a time, and none after a shutdown.                                      *)
THEOREM OneRequestAtATime == Spec => ImplementsOneAtATime
  <1>1. Init => Device!Init
    BY DEF Init, Device!Init, Inside, FL_READY, FL_PM_SUSPENDED
  <1>2. LockInv /\ [Next]_vars => [Device!Next]_(Device!ovars)
    <2> SUFFICES ASSUME LockInv, [Next]_vars PROVE [Device!Next]_(Device!ovars)
      OBVIOUS
    <2> USE DEF LockInv, TypeOK, StateTells, Inside, Goto, Device!ovars,
                FL_READY, FL_BUSY, FL_PM_SUSPENDED
    <2>1. ASSUME NEW t \in Threads,
                 Call(t) \/ CallShutdown(t) \/ Wait(t) \/ Schedule(t) \/ Retry(t)
          PROVE  UNCHANGED Device!ovars
      BY <2>1 DEF Call, CallShutdown, Wait, Schedule, Retry
    <2>2. ASSUME NEW t \in Threads, Get(t), want[t] = FL_BUSY
          PROVE  Device!Enter(t)
      BY <2>2 DEF Get, Admits, Device!Enter
    <2>3. ASSUME NEW t \in Threads, Get(t), want[t] = FL_PM_SUSPENDED
          PROVE  Device!Close
      BY <2>3 DEF Get, Admits, Device!Close
    <2>4. ASSUME NEW t \in Threads, Release(t)
          PROVE  Device!Leave
      BY <2>4 DEF Release, Device!Leave
    <2>5. CASE UNCHANGED vars
      BY <2>5 DEF vars
    <2> QED
      BY <2>1, <2>2, <2>3, <2>4, <2>5 DEF Next, Step, Device!Next
  <1> QED
    BY <1>1, <1>2, LockInvariant, PTL DEF Spec, ImplementsOneAtATime, Device!Spec
=============================================================================
