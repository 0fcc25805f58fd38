--------------------------- MODULE AtomicUpgrade ----------------------------
(***************************************************************************)
(* What a dual-boot upgrade promises to the owner of the device: images    *)
(* are offered one after the other, and at any moment the next boot runs   *)
(* one whole image, which changes in one step from the one that runs now   *)
(* to the one offered last.  The promise ends when it is no longer bound,  *)
(* because a condition it is given under is not met.                       *)
(***************************************************************************)
EXTENDS Naturals

VARIABLES
  offered,  \* the number of the image offered last
  system,   \* the number of the image the next boot runs
  bound     \* the promise is in force

avars == <<offered, system, bound>>

Init == offered = 0 /\ system = 0 /\ bound \in BOOLEAN

Offer == bound /\ offered' = offered + 1 /\ UNCHANGED <<system, bound>>

Switch == bound /\ system' = offered /\ UNCHANGED <<offered, bound>>

\* a condition fails, once and for all
Release == ~bound'

Next == Offer \/ Switch \/ Release

Spec == Init /\ [][Next]_avars
=============================================================================
