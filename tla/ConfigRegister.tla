--------------------------- MODULE ConfigRegister ---------------------------
(***************************************************************************)
(* What configuration streaming promises a data plane: its routes are      *)
(* always those of a snapshot the controller published, and only ever move *)
(* to a newer one; a new process starts without any.                       *)
(***************************************************************************)
EXTENDS Naturals

VARIABLES
    published,  \* number of snapshots published so far
    installed   \* the snapshot the data plane routes by, 0 for none

Init == published = 0 /\ installed = 0

Publish == published' = published + 1 /\ UNCHANGED installed

\* Snapshots may be skipped.
Install == installed' \in (installed + 1) .. published /\ UNCHANGED published

Restart == installed' = 0 /\ UNCHANGED published

Next == Publish \/ Install \/ Restart

Spec == Init /\ [][Next]_<<published, installed>>

============================================================================
