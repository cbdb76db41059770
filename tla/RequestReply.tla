---------------------------- MODULE RequestReply ----------------------------
(***************************************************************************)
(* What the command queue of the patcher promises: one task at a time, and *)
(* a task is reported done only when the board has carried it out.  A      *)
(* posted task is one that nobody waits for.                               *)
(***************************************************************************)
CONSTANTS Tasks, Posted, None

VARIABLES request,   \* the task at work, or None
          executed   \* the board has carried it out

Init == request = None /\ executed = FALSE

Issue == /\ request = None
         /\ request' \in Tasks
         /\ executed' = FALSE

Execute == /\ request # None /\ ~executed
           /\ executed' = TRUE
           /\ UNCHANGED request

Report == /\ request # None
          /\ executed \/ request \in Posted
          /\ request' = None
          /\ executed' = FALSE

Next == Issue \/ Execute \/ Report

Spec == Init /\ [][Next]_<<request, executed>>
=============================================================================
