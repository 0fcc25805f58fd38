------------------------------ MODULE NmbmMtd -------------------------------
(***************************************************************************)
(* The MTD device on top of NMBM (drivers/mtd/nmbm/nmbm-mtd.c): threads    *)
(* that erase, read, write, test or mark blocks take the device lock       *)
(* (nmbm_get_device), call into nmbm-core.c and give it back               *)
(* (nmbm_release_device); a shutdown takes it and keeps it.                *)
(*                                                                         *)
(* The lock is a state word and a wait queue, both under a spinlock: one   *)
(* action is one critical section of that spinlock, or one call a thread   *)
(* makes outside of it.  FL_READING, FL_WRITING and FL_ERASING are never   *)
(* told apart by the code: they are FL_BUSY here.  What a request does     *)
(* inside the core is module Nmbm.  Not modelled: nmbm_mtd_panic_write,    *)
(* which calls the core without the lock when the kernel has died.         *)
(***************************************************************************)
EXTENDS Integers

CONSTANTS
  Threads,      \* threads that use the device
  MaxRequests   \* bound on the requests of one thread

ASSUME RequestsAssumption == MaxRequests \in Nat

FL_READY == "ready"
FL_BUSY == "busy"
FL_PM_SUSPENDED == "suspended"

VARIABLES
  state,    \* nm->state
  wq,       \* nm->wq: how often each thread is on the wait queue
  asleep,   \* threads in TASK_UNINTERRUPTIBLE
  want,     \* the state each thread asks for
  pc,       \* where each thread is
  left      \* requests each thread may still make

vars == <<state, wq, asleep, want, pc, left>>

-----------------------------------------------------------------------------

Goto(t, place) == pc' = [pc EXCEPT ![t] = place]

\* MISTAKE: the early return for a suspended device is given to every request
AdmitsSuspended(new) == state \in {FL_READY, FL_PM_SUSPENDED}
\* MISTAKE: nm->state is tested for suspension only
AdmitsBusy(new) == state # FL_PM_SUSPENDED \/ new = FL_PM_SUSPENDED
\* nmbm_get_device lets a thread in that asks for new
Admits(new) ==
  state = FL_READY \/ (state = FL_PM_SUSPENDED /\ new = FL_PM_SUSPENDED)

\* MISTAKE: add_wait_queue is forgotten
EnqueueNot(t) == asleep' = asleep \cup {t} /\ UNCHANGED wq
\* set_current_state(TASK_UNINTERRUPTIBLE) and add_wait_queue
Enqueue(t) == asleep' = asleep \cup {t} /\ wq' = [wq EXCEPT ![t] = @ + 1]

\* wake_up: no waiter is exclusive, all of them become runnable
WakeUp == asleep' = {t \in asleep : wq[t] = 0}

\* a request of the layer above
Call(t) ==
  /\ pc[t] = "user" /\ left[t] > 0
  /\ left' = [left EXCEPT ![t] = @ - 1]
  /\ want' = [want EXCEPT ![t] = FL_BUSY]
  /\ Goto(t, "get")
  /\ UNCHANGED <<state, wq, asleep>>

\* nmbm_mtd_shutdown, from the reboot notifier of the MTD layer
CallShutdown(t) ==
  /\ pc[t] = "user"
  /\ want' = [want EXCEPT ![t] = FL_PM_SUSPENDED]
  /\ Goto(t, "get")
  /\ UNCHANGED <<state, wq, asleep, left>>

\* nmbm_get_device returns: into the core, or the shutdown is done
Get(t) ==
  /\ pc[t] = "get" /\ Admits(want[t])
  /\ state' = want[t]
  /\ Goto(t, IF want[t] = FL_BUSY THEN "core" ELSE "down")
  /\ UNCHANGED <<wq, asleep, want, left>>

\* nmbm_get_device goes to sleep
Wait(t) ==
  /\ pc[t] = "get" /\ ~Admits(want[t])
  /\ Enqueue(t) /\ Goto(t, "schedule")
  /\ UNCHANGED <<state, want, left>>

\* schedule() returns: at once, when the thread was woken before it slept
Schedule(t) ==
  /\ pc[t] = "schedule" /\ t \notin asleep
  /\ Goto(t, "remove")
  /\ UNCHANGED <<state, wq, asleep, want, left>>

\* MISTAKE: retried without remove_wait_queue
RetryQueued(t) ==
  /\ pc[t] = "remove" /\ Goto(t, "get")
  /\ UNCHANGED <<state, wq, asleep, want, left>>
\* remove_wait_queue, goto retry
Retry(t) ==
  /\ pc[t] = "remove" /\ wq' = [wq EXCEPT ![t] = @ - 1] /\ Goto(t, "get")
  /\ UNCHANGED <<state, asleep, want, left>>

\* the core has answered: nmbm_release_device
Release(t) ==
  /\ pc[t] = "core" /\ state' = FL_READY /\ WakeUp
  /\ Goto(t, "user")
  /\ UNCHANGED <<wq, want, left>>

-----------------------------------------------------------------------------

Init ==
  /\ state = FL_READY /\ wq = [t \in Threads |-> 0] /\ asleep = {}
  /\ want = [t \in Threads |-> FL_BUSY]
  /\ pc = [t \in Threads |-> "user"]
  /\ left = [t \in Threads |-> MaxRequests]

\* the steps a thread takes by itself once it is in the driver
Step(t) == Get(t) \/ Wait(t) \/ Schedule(t) \/ Retry(t) \/ Release(t)

Next == \E t \in Threads : Call(t) \/ CallShutdown(t) \/ Step(t)

Spec == Init /\ [][Next]_vars

-----------------------------------------------------------------------------

Places == {"user", "get", "schedule", "remove", "core", "down"}

(* The type invariant of the lock and of the threads that use it; a thread is
   on the wait queue at most once, as its entry is one struct on its stack.  *)
TypeOK ==
  /\ state \in {FL_READY, FL_BUSY, FL_PM_SUSPENDED}
  /\ wq \in [Threads -> {0, 1}] /\ asleep \subseteq Threads
  /\ want \in [Threads -> {FL_BUSY, FL_PM_SUSPENDED}]
  /\ pc \in [Threads -> Places]
  /\ left \in [Threads -> 0 .. MaxRequests]

Inside == {t \in Threads : pc[t] = "core"}

(* A thread that sleeps in nmbm_get_device will be woken: it is on the wait
   queue, and somebody else holds the device, who wakes the queue when
   releasing it, or has shut it down.  No wakeup is lost between the test of
   nm->state and schedule().                                                *)
NoLostWakeup ==
  \A t \in asleep : wq[t] = 1 /\ pc[t] = "schedule" /\ state # FL_READY

(* The state word tells the truth: the device is busy exactly while one
   thread is inside the core, and ready or suspended while none is.         *)
StateTells ==
  /\ state = FL_BUSY <=> Inside # {}
  /\ \A s, t \in Inside : s = t
  /\ (\E t \in Threads : pc[t] = "down") => state = FL_PM_SUSPENDED

(* Together with the places where a thread is on the wait queue, the above is
   inductive (see NmbmMtdProofs).                                           *)
Queued ==
  \A t \in Threads : wq[t] = IF pc[t] \in {"schedule", "remove"} THEN 1 ELSE 0
LockInv == TypeOK /\ NoLostWakeup /\ StateTells /\ Queued

Device == INSTANCE OneAtATime WITH
  user <- Inside, closed <- state = FL_PM_SUSPENDED

(* nmbm-core.c sees one request at a time and none after a shutdown.       *)
ImplementsOneAtATime == Device!Spec

(* Each thread of a fair scheduler gets on when it can.                    *)
FairSpec == Spec /\ \A t \in Threads : WF_vars(Step(t))

(* Whoever asks for the device gets it, unless it is shut down before: the
   retry loop of nmbm_get_device ends when the others do not ask for ever.  *)
Served ==
  \A t \in Threads :
    pc[t] = "get" ~> pc[t] \in {"core", "down"} \/ state = FL_PM_SUSPENDED
=============================================================================
