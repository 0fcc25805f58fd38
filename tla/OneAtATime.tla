----------------------------- MODULE OneAtATime -----------------------------
(***************************************************************************)
(* What the device lock of nmbm-mtd.c promises to the core, and what Nmbm  *)
(* takes for granted: requests run one at a time, from the call into       *)
(* nmbm-core.c to its return, and once a shutdown has been let in no       *)
(* request ever is again.                                                  *)
(***************************************************************************)
CONSTANT Threads

VARIABLES
  user,    \* the threads inside the core: none or one
  closed   \* the device is shut down

ovars == <<user, closed>>

Init == user = {} /\ closed = FALSE

Enter(t) == user = {} /\ ~closed /\ user' = {t} /\ UNCHANGED closed
Leave == user # {} /\ user' = {} /\ UNCHANGED closed
Close == user = {} /\ closed' = TRUE /\ UNCHANGED user

Next == (\E t \in Threads : Enter(t)) \/ Leave \/ Close

Spec == Init /\ [][Next]_ovars
=============================================================================
