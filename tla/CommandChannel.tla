--------------------------- MODULE CommandChannel ---------------------------
(***************************************************************************)
(* What the connection of the patcher to the board promises: the commands  *)
(* that are sent are carried out, all of them, once, in their order and    *)
(* with the bytes they were sent with; after an acknowledged one, an       *)
(* acknowledgement comes back.  Some may wait until one that releases them *)
(* has been sent.                                                          *)
(***************************************************************************)
EXTENDS Naturals, Sequences

CONSTANTS Commands,      \* the commands that can be sent
          Acked(_),      \* those the board acknowledges
          Held(_),       \* those that may wait
          Releases(_)    \* those that nothing sent before them waits for any longer

VARIABLES sent,     \* the commands sent
          carried,  \* the commands carried out
          owed,     \* an acknowledgement is to be sent
          acks      \* how many have been sent

vars == <<sent, carried, owed, acks>>

Init == sent = <<>> /\ carried = <<>> /\ owed = FALSE /\ acks = 0

Send == /\ \E cmd \in Commands : sent' = Append(sent, cmd)
        /\ UNCHANGED <<carried, owed, acks>>

CarryOut == /\ Len(carried) < Len(sent)
            /\ LET cmd == sent[Len(carried) + 1]
               IN  carried' = Append(carried, cmd) /\ owed' = (owed \/ Acked(cmd))
            /\ UNCHANGED <<sent, acks>>

\* A command that has no reason to wait.
CarryOutDue ==
    /\ CarryOut
    /\ LET k == Len(carried) + 1
       IN  ~Held(sent[k]) \/ \E j \in k + 1..Len(sent) : Releases(sent[j])

Acknowledge == owed /\ owed' = FALSE /\ acks' = acks + 1 /\ UNCHANGED <<sent, carried>>

Next == Send \/ CarryOut \/ Acknowledge

Steps == Init /\ [][Next]_vars

Spec == Steps /\ WF_vars(CarryOutDue) /\ WF_vars(Acknowledge)
=============================================================================
