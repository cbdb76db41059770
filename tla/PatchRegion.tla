---------------------------- MODULE PatchRegion ----------------------------
(***************************************************************************)
(* What the patch subsystem promises about the one fixed memory region a   *)
(* patch is linked to and executed from (PATCHMAINLOC): code is only ever  *)
(* started from a region that holds one complete patch, and the region is  *)
(* not written while the code in it is alive, that is between its init and *)
(* its dispose.                                                            *)
(***************************************************************************)
CONSTANTS Patches,   \* the patches that can be in the region
          Garbage    \* what the region can hold that is not a patch

VARIABLES region,    \* what the region holds
          alive      \* the code in the region was started and not disposed of

Init == /\ region \in Patches \cup Garbage
        /\ alive = FALSE

\* The region is being filled, or has been filled, by some writer.
Write == /\ ~alive
         /\ region' \in Patches \cup Garbage
         /\ UNCHANGED alive

Start == /\ ~alive
         /\ region \in Patches
         /\ alive' = TRUE
         /\ UNCHANGED region

Dispose == /\ alive
           /\ alive' = FALSE
           /\ UNCHANGED region

Next == Write \/ Start \/ Dispose

Spec == Init /\ [][Next]_<<region, alive>>
=============================================================================
