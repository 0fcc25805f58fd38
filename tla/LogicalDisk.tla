---------------------------- MODULE LogicalDisk -----------------------------
(***************************************************************************)
(* What NMBM promises: a disk of logical blocks without bad blocks.  An    *)
(* erase or a write of a block makes its content unknown until the request *)
(* is answered; nothing else, a power cut, an attach or a remapping of     *)
(* another block, changes what a block holds.  A panic of the kernel ends  *)
(* the request and may write a block of its own; at worst it loses all.    *)
(***************************************************************************)
EXTENDS Integers

CONSTANTS
  LBs,       \* logical blocks
  Contents   \* what a block may be known to hold

NoRequest == -1

VARIABLES
  disk,   \* the content of each block
  req,    \* the block of the request being served
  dead    \* the kernel has panicked

dvars == <<disk, req, dead>>

Init == disk = [l \in LBs |-> "unknown"] /\ req = NoRequest /\ dead = FALSE

Begin(l) ==
  /\ ~dead /\ req = NoRequest /\ req' = l
  /\ disk' = [disk EXCEPT ![l] = "unknown"]
  /\ UNCHANGED dead

Done ==
  /\ req # NoRequest /\ req' = NoRequest
  /\ \E c \in Contents : disk' = [disk EXCEPT ![req] = c]
  /\ UNCHANGED dead

\* the request failed, or the power was cut
Fail == req # NoRequest /\ req' = NoRequest /\ UNCHANGED <<disk, dead>>

Panic ==
  /\ dead' = TRUE /\ req' = NoRequest
  /\ \/ \E l \in LBs, c \in Contents \cup {"unknown"} :
          disk' = [disk EXCEPT ![l] = c]
     \/ disk' = [l \in LBs |-> "unknown"]

Reboot == dead /\ dead' = FALSE /\ UNCHANGED <<disk, req>>

Next == (\E l \in LBs : Begin(l)) \/ Done \/ Fail \/ Panic \/ Reboot

Spec == Init /\ [][Next]_dvars
=============================================================================
