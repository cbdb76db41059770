--------------------------- MODULE HostLinkProofs ---------------------------
(***************************************************************************)
(* TypeOK for all constants; OneByOne when every task is careful with its  *)
(* acknowledgements, these come in time, and nobody disconnects.           *)
(***************************************************************************)
EXTENDS HostLink, SequenceTheorems, TLAPS

USE DEF procVars, txVars, devVars, conn

TaskNames == {"ping", "query", "stop", "flash", "upload", "start", "dial", "preset", "null"}

LEMMA SerialTaskNames == SerialTasks = TaskNames
  BY DEF SerialTasks, Rounds, TaskNames

Round == [clears : BOOLEAN, cmd : AckedCmds \cup {"P"}, waits : BOOLEAN]

LEMMA RoundKinds ==
    /\ \A c \in AckedCmds : Clear(c) \in Round /\ NoClear(c) \in Round /\ Post(c) \in Round
    /\ Post("P") \in Round
  BY DEF Round, Clear, NoClear, Post

\* The rounds of every task.
LEMMA RoundsOf ==
    ASSUME NEW t \in SerialTasks
    PROVE  Len(Rounds[t]) \in 0..2 /\ \A i \in 1..Len(Rounds[t]) : Rounds[t][i] \in Round
<1>1. ASSUME NEW r \in Round, Rounds[t] = <<r>>
      PROVE  Len(Rounds[t]) \in 0..2 /\ \A i \in 1..Len(Rounds[t]) : Rounds[t][i] \in Round
  BY <1>1
<1>2. ASSUME NEW r \in Round, NEW s \in Round, Rounds[t] = <<r, s>>
      PROVE  Len(Rounds[t]) \in 0..2 /\ \A i \in 1..Len(Rounds[t]) : Rounds[t][i] \in Round
  BY <1>2
<1>3. {"p", "V", "S", "F", "W", "U", "s", "R"} \subseteq AckedCmds BY DEF AckedCmds
<1>4. CASE t = "ping"   BY <1>1, <1>3, <1>4, RoundKinds DEF Rounds
<1>5. CASE t = "query"  BY <1>1, <1>3, <1>5, RoundKinds DEF Rounds
<1>6. CASE t = "stop"   BY <1>1, <1>3, <1>6, RoundKinds DEF Rounds
<1>7. CASE t = "flash"  BY <1>1, <1>3, <1>7, RoundKinds DEF Rounds
<1>8. CASE t = "upload" BY <1>2, <1>3, <1>8, RoundKinds DEF Rounds
<1>9. CASE t = "start"  BY <1>2, <1>3, <1>9, RoundKinds DEF Rounds
<1>10. CASE t = "dial"   BY <1>1, <1>10, RoundKinds DEF Rounds
<1>11. CASE t = "preset" BY <1>1, <1>3, <1>11, RoundKinds DEF Rounds
<1>12. CASE t = "null"   BY <1>12 DEF Rounds
<1>13. QED
  BY <1>4, <1>5, <1>6, <1>7, <1>8, <1>9, <1>10, <1>11, <1>12, SerialTaskNames
  DEF TaskNames

LEMMA Constants ==
    /\ QueueCap \in Nat \ {0} /\ MaxTasks \in Nat /\ MaxCalls \in Nat
    /\ Asked \subseteq SerialTasks \cup {GUITask}
    /\ {"null", "query"} \subseteq SerialTasks
  BY HostLinkAssumption, SerialTaskNames DEF HostLinkAssumption, TaskNames
-----------------------------------------------------------------------------
\* While the Transmitter is within a round, the task has that round; only tasks
\* for the Transmitter are handed to it.
Within == /\ tx \in {"clear", "write", "wait"} => round <= Len(Rounds[txTask])
          /\ proc \in {"check", "append"} => task \in SerialTasks

TypeInv == TypeOK /\ Within

LEMMA TypeInit == Init => TypeInv
<1> SUFFICES ASSUME Init PROVE TypeInv
  OBVIOUS
<1>1. connected \in BOOLEAN /\ stopReq \in BOOLEAN /\ posted \in BOOLEAN /\ rx \in BOOLEAN
      /\ acked \in BOOLEAN /\ ackPending \in BOOLEAN
  BY Zenon DEF Init
<1>2. QED BY <1>1, Constants DEF Init, TypeInv, TypeOK, Within

LEMMA AskType ==
    ASSUME TypeInv, Ask
    PROVE  TypeInv'
  BY Constants DEF TypeInv, TypeOK, Within, Ask

LEMMA ProcType ==
    ASSUME TypeInv, ProcStep
    PROVE  TypeInv'
<1> USE Constants DEF TypeInv, TypeOK, Within
<1>1. CASE ProcClear    BY <1>1 DEF ProcClear
<1>2. CASE ProcTake     BY <1>2 DEF ProcTake
<1>3. CASE ProcCheck    BY <1>3 DEF ProcCheck
<1>4. CASE ProcAppend   BY <1>4 DEF ProcAppend
<1>5. CASE ProcResponse
  <2>1. Tail(respQ) \in Seq({"done", "disconnect"}) BY <1>5 DEF ProcResponse
  <2>2. queue' \in Seq(SerialTasks \cup {GUITask}) /\ Len(queue') <= QueueCap
    <3>1. queue' \in {<<>>, queue} BY <1>5 DEF ProcResponse
    <3>2. CASE queue' = <<>> BY <3>2
    <3>3. CASE queue' = queue BY <3>3
    <3>4. QED BY <3>1, <3>2, <3>3
  <2>3. posted' \in BOOLEAN BY <1>5, Zenon DEF ProcResponse
  <2>4. /\ proc' = "clear" /\ respQ' = Tail(respQ)
        /\ UNCHANGED <<task, serialQ, txVars, rx, acked, devVars, connected, stopReq,
                       call, calls, asked>>
    BY <1>5 DEF ProcResponse
  <2>5. QED BY <2>1, <2>2, <2>3, <2>4
<1>6. QED BY <1>1, <1>2, <1>3, <1>4, <1>5 DEF ProcStep

\* Where a task continues.
LEMMA BeginRound ==
    ASSUME NEW t \in SerialTasks, NEW i \in 1..3
    PROVE  /\ Begin(t, i) \in {"reply", "clear", "write"}
           /\ Begin(t, i) \in {"clear", "write"} => i <= Len(Rounds[t]) /\ i \in 1..2
  BY RoundsOf DEF Begin

LEMMA NextRoundType ==
    ASSUME TypeInv, tx \in {"write", "wait"}, NextRound, UNCHANGED <<txTask, proc, task>>
    PROVE  Within' /\ tx' \in {"reply", "clear", "write"} /\ round' \in 1..2
<1>1. Len(Rounds[txTask]) \in 0..2 BY RoundsOf DEF TypeInv, TypeOK
<1>2. round + 1 \in 1..3 BY DEF TypeInv, TypeOK
<1>3. round' \in 1..2
  <2>1. round \in 1..2 BY DEF TypeInv, TypeOK
  <2>2. round' = IF round < Len(Rounds[txTask]) THEN round + 1 ELSE round
    BY DEF NextRound
  <2>3. CASE round < Len(Rounds[txTask])
    <3>1. PICK n \in 0..2 : n = Len(Rounds[txTask]) BY <1>1
    <3>2. round < n BY <2>3, <3>1
    <3>3. round = 1 BY <2>1, <3>2
    <3>4. round' = round + 1 BY <2>2, <2>3
    <3>5. QED BY <3>3, <3>4
  <2>4. CASE ~(round < Len(Rounds[txTask]))
    <3>1. round' = round BY <2>2, <2>4
    <3>2. QED BY <3>1, <2>1
  <2>5. QED BY <2>3, <2>4
<1>4. tx' \in {"reply", "clear", "write"}
  BY <1>2, BeginRound DEF NextRound, TypeInv, TypeOK
<1>5. ASSUME tx' \in {"clear", "write"} PROVE round' <= Len(Rounds[txTask])
  <2>1. round + 1 <= Len(Rounds[txTask])
    BY <1>2, <1>5, BeginRound DEF NextRound, TypeInv, TypeOK
  <2>2. round < Len(Rounds[txTask]) BY <2>1, <1>1 DEF TypeInv, TypeOK
  <2>3. QED BY <2>1, <2>2 DEF NextRound
<1>6. QED BY <1>3, <1>4, <1>5 DEF TypeInv, Within

LEMMA TxType ==
    ASSUME TypeInv, TxStep
    PROVE  TypeInv'
<1> USE Constants DEF TypeInv, TypeOK
<1>1. CASE TxTake
  <2>1. Head(serialQ) \in SerialTasks /\ Tail(serialQ) \in Seq(SerialTasks)
    BY <1>1 DEF TxTake
  <2>2. QED BY <1>1, <2>1, BeginRound DEF TxTake, Within
<1>2. CASE TxClear
  <2>1. acked' \in BOOLEAN BY <1>2, Zenon DEF TxClear
  <2>2. QED BY <1>2, <2>1 DEF TxClear, Within
<1>3. CASE TxWrite
  <2>1. Rounds[txTask][round] \in Round
    <3>1. round \in 1..Len(Rounds[txTask]) BY <1>3, RoundsOf DEF TxWrite, Within
    <3>2. QED BY <3>1, RoundsOf
  <2>2. wire' \in Seq(AckedCmds \cup {"P"})
    <3>1. Rounds[txTask][round].cmd \in AckedCmds \cup {"P"} BY <2>1 DEF Round
    <3>2. QED BY <1>3, <3>1 DEF TxWrite
  <2>3. CASE Rounds[txTask][round].waits
    BY <1>3, <2>2, <2>3 DEF TxWrite, Within
  <2>4. CASE ~Rounds[txTask][round].waits
    BY <1>3, <2>2, <2>4, NextRoundType DEF TxWrite
  <2>5. QED BY <2>3, <2>4
<1>4. CASE TxDie     BY <1>4 DEF TxDie, Within
<1>5. CASE TxAcked   BY <1>5, NextRoundType DEF TxAcked
<1>6. CASE TxTimeout
  <2>1. answer' \in {"done", "disconnect", "none"} BY <1>6 DEF TxTimeout
  <2>2. QED BY <1>6, <2>1, NextRoundType DEF TxTimeout
<1>7. CASE TxReply
  <2>1. respQ' \in Seq({"done", "disconnect"}) BY <1>7 DEF TxReply
  <2>2. QED BY <1>7, <2>1 DEF TxReply, Within
<1>8. CASE TxExit    BY <1>8 DEF TxExit, Within
<1>9. QED BY <1>1, <1>2, <1>3, <1>4, <1>5, <1>6, <1>7, <1>8 DEF TxStep

LEMMA RxDevType ==
    ASSUME TypeInv, RxStep \/ DevStep
    PROVE  TypeInv'
<1> USE Constants DEF TypeInv, TypeOK, Within
<1>1. CASE RxAck       BY <1>1 DEF RxAck
<1>2. CASE RxExit
  <2>1. rx' \in BOOLEAN BY <1>2, Zenon DEF RxExit
  <2>2. QED BY <1>2, <2>1 DEF RxExit
<1>3. CASE DevTransmit
  <2>1. ackPending' \in BOOLEAN BY <1>3, Zenon DEF DevTransmit
  <2>2. QED BY <1>3, <2>1 DEF DevTransmit
<1>4. CASE DevExecute
  <2>1. ackPending' \in BOOLEAN BY <1>4, Zenon DEF DevExecute
  <2>2. Tail(wire) \in Seq(AckedCmds \cup {"P"}) BY <1>4 DEF DevExecute
  <2>3. QED BY <1>4, <2>1, <2>2 DEF DevExecute
<1>5. CASE DevReceived BY <1>5 DEF DevReceived
<1>6. QED BY <1>1, <1>2, <1>3, <1>4, <1>5 DEF RxStep, DevStep

LEMMA ConnectionType ==
    ASSUME TypeInv, DisconnectStep \/ ConnectStep
    PROVE  TypeInv'
<1> USE Constants DEF TypeInv, TypeOK, Within
<1>1. CASE Disconnect
  <2>1. posted' \in BOOLEAN /\ stopReq' \in BOOLEAN /\ connected' \in BOOLEAN
    BY <1>1, Zenon DEF Disconnect
  <2>2. /\ calls' \in 0..MaxCalls
        /\ queue' \in Seq(SerialTasks \cup {GUITask}) /\ Len(queue') <= QueueCap
    <3>1. calls' \in 0..MaxCalls BY <1>1 DEF Disconnect
    <3>2. queue' \in {<<>>, queue} BY <1>1 DEF Disconnect
    <3>3. CASE queue' = <<>> BY <3>1, <3>3
    <3>4. CASE queue' = queue BY <3>1, <3>4
    <3>5. QED BY <3>2, <3>3, <3>4
  <2>3. QED BY <1>1, <2>1, <2>2 DEF Disconnect
<1>2. CASE DisconnectNot
  <2>1. posted' \in BOOLEAN BY <1>2, Zenon DEF DisconnectNot
  <2>2. QED BY <1>2, <2>1 DEF DisconnectNot
<1>3. CASE ClearTasks    BY <1>3 DEF ClearTasks
<1>4. CASE AddNulls
  <2>1. serialQ \o <<"null", "null">> \in Seq(SerialTasks) OBVIOUS
  <2>2. QED BY <1>4, <2>1 DEF AddNulls
<1>5. CASE Notify
  <2>1. acked' \in BOOLEAN BY <1>5, Zenon DEF Notify
  <2>2. QED BY <1>5, <2>1 DEF Notify
<1>6. CASE Join          BY <1>6 DEF Join
<1>7. CASE Connect       BY <1>7 DEF Connect
<1>8. CASE SetConnected  BY <1>8 DEF SetConnected
<1>9. CASE ConnectClear
  <2>1. acked' \in BOOLEAN BY <1>9, Zenon DEF ConnectClear
  <2>2. QED BY <1>9, <2>1 DEF ConnectClear
<1>10. CASE ConnectPing  BY <1>10 DEF ConnectPing, AckedCmds
<1>11. CASE ConnectEnd   BY <1>11 DEF ConnectEnd
<1>12. QED
  BY <1>1, <1>2, <1>3, <1>4, <1>5, <1>6, <1>7, <1>8, <1>9, <1>10, <1>11
  DEF DisconnectStep, ConnectStep

LEMMA TypeStep == TypeInv /\ [Next]_vars => TypeInv'
<1> SUFFICES ASSUME TypeInv, [Next]_vars PROVE TypeInv'
  OBVIOUS
<1>1. CASE UNCHANGED vars BY <1>1 DEF TypeInv, TypeOK, Within, vars
<1>2. CASE Next
  BY <1>2, AskType, ProcType, TxType, RxDevType, ConnectionType DEF Next
<1>3. QED BY <1>1, <1>2

\* Every variable of the link keeps its type, however tasks, time-outs,
\* disconnections and connections interleave; in particular the Transmitter never
\* begins a round that its task does not have.
THEOREM TypeCorrect == Spec => []TypeOK
<1>1. TypeInv => TypeOK BY DEF TypeInv
<1>2. QED BY <1>1, TypeInit, TypeStep, PTL DEF Spec
-----------------------------------------------------------------------------
(* One by one: where the acknowledgement is that the Transmitter waits for *)

\* What a user asks for who uploads, stops and turns dials: every task clears
\* the flag before and waits after each acknowledged command.
Polite == Careful \ {"null"}

PoliteAlone ==
    /\ Asked \subseteq Polite \cup {GUITask}
    /\ ~Timeouts /\ MaxCalls = 0

LEMMA PoliteRounds ==
    ASSUME NEW t \in Polite
    PROVE  /\ t \in SerialTasks /\ Len(Rounds[t]) \in 1..2
           /\ \A i \in 1..Len(Rounds[t]) :
                 /\ Rounds[t][i] \in Round /\ Rounds[t][i].clears
                 /\ Rounds[t][i].waits <=> Rounds[t][i].cmd \in AckedCmds
                 /\ ~Rounds[t][i].waits => t = "dial" /\ Rounds[t][i].cmd = "P"
<1>1. t \in SerialTasks /\ t # "null"
  BY DEF Polite, Careful
<1>2. \A i \in 1..Len(Rounds[t]) :
         Rounds[t][i].clears /\ (Rounds[t][i].waits <=> Rounds[t][i].cmd \in AckedCmds)
  <2>1. DOMAIN Rounds[t] = 1..Len(Rounds[t])
    BY <1>1, SerialTaskNames DEF TaskNames, Rounds
  <2> QED
    BY <2>1 DEF Polite, Careful
<1>3. Len(Rounds[t]) # 0
  BY <1>1, SerialTaskNames DEF TaskNames, Rounds
<1>4. \A i \in 1..Len(Rounds[t]) : ~Rounds[t][i].waits => t \in {"dial", "preset"}
  BY <1>1, SerialTaskNames DEF TaskNames, Rounds, Clear, NoClear
<1>5. t # "preset"
  BY <1>2 DEF Rounds, Post, AckedCmds
<1>6. \A i \in 1..Len(Rounds[t]) :
         Rounds[t][i] \in Round /\ (~Rounds[t][i].waits => Rounds[t][i].cmd = "P")
  BY <1>1, <1>2, RoundsOf DEF Round
<1> QED
  BY <1>1, <1>2, <1>3, <1>4, <1>5, <1>6, RoundsOf

OnlyDials == \A i \in 1..Len(wire) : wire[i] = "P"

NoAck == OnlyDials /\ ~ackPending /\ replies = 0

\* The command is on the wire, behind dials, or its acknowledgement is due, on
\* its way, or noted.
AckAhead ==
    \/ /\ wire # <<>> /\ wire[Len(wire)] \in AckedCmds
       /\ \A i \in 1..Len(wire) - 1 : wire[i] = "P"
       /\ ~ackPending /\ replies = 0 /\ ~acked
    \/ wire = <<>> /\ ackPending /\ replies = 0 /\ ~acked
    \/ wire = <<>> /\ ~ackPending /\ replies = 1 /\ ~acked
    \/ wire = <<>> /\ ~ackPending /\ replies = 0 /\ acked

\* Nothing of the task is left on its way, but for the command of a dial.
Finished == NoAck /\ (task # "dial" => wire = <<>>)

Undisturbed ==
    /\ connected /\ ~stopReq /\ call = "idle" /\ ~posted /\ calls = 0
    /\ answer = "done"
    /\ queue \in Seq(Polite \cup {GUITask})
    /\ proc \in {"check", "append", "await"} => task \in Polite

\* No task is with the Transmitter; it has yet to take one, or is at one, or is
\* done with it.
AtRest == tx = "take" /\ serialQ = <<>> /\ respQ = <<>> /\ NoAck
Handed == tx = "take" /\ serialQ = <<task>> /\ respQ = <<>> /\ NoAck
AtWork == /\ serialQ = <<>> /\ respQ = <<>> /\ txTask = task
          /\ \/ tx = "clear" /\ NoAck
             \/ tx = "write" /\ NoAck /\ ~acked
             \/ tx = "wait" /\ AckAhead
             \/ tx = "reply" /\ Finished
Done   == tx = "take" /\ serialQ = <<>> /\ respQ = <<"done">> /\ Finished

Turns == /\ proc # "await" => AtRest
         /\ proc = "await" => Handed \/ AtWork \/ Done

LinkInv == TypeInv /\ Undisturbed /\ Turns

LEMMA LinkInit == Init => LinkInv
<1> SUFFICES ASSUME Init PROVE LinkInv
  OBVIOUS
<1>1. <<>> \in Seq(Polite \cup {GUITask}) /\ Len(<<>>) = 0
  OBVIOUS
<1>2. connected /\ ~stopReq /\ ~posted /\ ~ackPending /\ wire = <<>>
  BY Zenon DEF Init
<1>3. NoAck
  BY <1>1, <1>2 DEF Init, NoAck, OnlyDials
<1> QED
  BY <1>1, <1>2, <1>3, TypeInit DEF Init, LinkInv, Undisturbed, Turns, AtRest

\* What the board, the Receiver and the queue do while nothing is written.
LEMMA BoardSteps ==
    ASSUME LinkInv, PoliteAlone, RxStep \/ DevStep
    PROVE  /\ Turns' /\ Undisturbed'
           /\ UNCHANGED <<proc, task, tx, round, txTask, respQ>>
           /\ UNCHANGED wire \/ (wire # <<>> /\ wire' = Tail(wire))
<1>0. wire \in Seq(AckedCmds \cup {"P"}) /\ replies \in Nat /\ "P" \notin AckedCmds
      /\ ~stopReq
  BY DEF LinkInv, TypeInv, TypeOK, AckedCmds, Undisturbed
<1>1. /\ UNCHANGED <<queue, respQ, proc, task, serialQ, tx, txTask, round, answer, connected,
                     stopReq, call, posted, calls>>
      /\ UNCHANGED wire \/ (wire # <<>> /\ wire' = Tail(wire))
  BY <1>0 DEF RxStep, DevStep, RxAck, RxExit, DevTransmit, DevExecute, DevReceived
<1>2. NoAck => NoAck' /\ UNCHANGED acked
  <2> SUFFICES ASSUME NoAck PROVE NoAck' /\ UNCHANGED acked
    OBVIOUS
  <2>1. CASE RxStep
    BY <1>0, <2>1 DEF RxStep, RxAck, RxExit, NoAck
  <2>2. CASE DevTransmit \/ DevReceived
    BY <2>2 DEF DevTransmit, DevReceived, NoAck, OnlyDials
  <2>3. CASE DevExecute
    <3>1. wire # <<>> /\ wire' = Tail(wire) /\ UNCHANGED <<replies, acked>>
          /\ ackPending' = (ackPending \/ Head(wire) \in AckedCmds)
      BY <2>3 DEF DevExecute
    <3>2. Head(wire) = "P" /\ \A i \in 1..Len(Tail(wire)) : Tail(wire)[i] = "P"
      BY <1>0, <3>1, HeadTailProperties DEF NoAck, OnlyDials
    <3> QED
      BY <1>0, <3>1, <3>2 DEF NoAck, OnlyDials
  <2> QED
    BY <2>1, <2>2, <2>3 DEF DevStep
<1>3. AckAhead => AckAhead'
  <2> SUFFICES ASSUME AckAhead PROVE AckAhead'
    OBVIOUS
  <2>1. CASE RxAck
    BY <1>0, <2>1 DEF RxAck, AckAhead
  <2>2. CASE RxExit
    BY <1>0, <2>2 DEF RxExit
  <2>3. CASE DevTransmit
    BY <1>0, <2>3 DEF DevTransmit, AckAhead
  <2>4. CASE DevReceived
    BY <2>4 DEF DevReceived, AckAhead
  <2>5. CASE DevExecute
    <3>1. /\ wire # <<>> /\ wire' = Tail(wire) /\ UNCHANGED <<replies, acked>>
          /\ ackPending' = (ackPending \/ Head(wire) \in AckedCmds)
          /\ wire[Len(wire)] \in AckedCmds /\ (\A i \in 1..Len(wire) - 1 : wire[i] = "P")
          /\ ~ackPending /\ replies = 0 /\ ~acked
      BY <2>5 DEF DevExecute, AckAhead
    <3>2. Len(wire) \in Nat /\ Len(wire) > 0 /\ Len(Tail(wire)) = Len(wire) - 1
          /\ Head(wire) = wire[1]
          /\ \A i \in 1..Len(wire) - 1 : Tail(wire)[i] = wire[i + 1]
      BY <1>0, <3>1, HeadTailProperties
    <3>3. CASE Len(wire) = 1
      <4>1. Head(wire) \in AckedCmds
        BY <3>1, <3>2, <3>3
      <4>2. wire' = <<>>
        <5>1. Tail(wire) \in Seq(AckedCmds \cup {"P"}) /\ Len(Tail(wire)) = 0
          BY <1>0, <3>1, <3>2, <3>3, HeadTailProperties
        <5> QED
          BY <3>1, <5>1, EmptySeq
      <4> QED
        BY <3>1, <4>1, <4>2 DEF AckAhead
    <3>4. CASE Len(wire) > 1
      <4>1. Head(wire) = "P" /\ ~ackPending'
        <5>1. 1 \in 1..Len(wire) - 1
          BY <3>2, <3>4
        <5>2. wire[1] = "P"
          BY <3>1, <5>1
        <5> QED
          BY <1>0, <3>1, <3>2, <5>2, Zenon
      <4>2. /\ wire' # <<>> /\ wire'[Len(wire')] \in AckedCmds
            /\ \A i \in 1..Len(wire') - 1 : wire'[i] = "P"
        <5> DEFINE w == Tail(wire)
                   n == Len(wire)
        <5>1. n \in Nat /\ n > 1 /\ Len(w) = n - 1 /\ \A i \in 1..n - 1 : w[i] = wire[i + 1]
          BY <3>2, <3>4
        <5>2. wire[n] \in AckedCmds /\ \A i \in 1..n - 1 : wire[i] = "P"
          BY <3>1
        <5> HIDE DEF w, n
        <5>3. n - 1 \in 1..n - 1 /\ n - 1 + 1 = n
          BY <5>1
        <5>4. w[Len(w)] \in AckedCmds
          BY <5>1, <5>2, <5>3
        <5>5. \A i \in 1..Len(w) - 1 : w[i] = "P"
          <6> TAKE i \in 1..Len(w) - 1
          <6>1. i \in 1..n - 1 /\ i + 1 \in 1..n - 1
            BY <5>1
          <6> QED
            BY <5>1, <5>2, <6>1
        <5>6. w # <<>>
          BY <5>1
        <5> QED
          BY <3>1, <5>4, <5>5, <5>6 DEF w
      <4> QED
        BY <3>1, <4>1, <4>2 DEF AckAhead
    <3>5. Len(wire) = 1 \/ Len(wire) > 1
      <4> DEFINE n == Len(wire)
      <4>1. n \in Nat /\ n > 0
        BY <3>2
      <4> HIDE DEF n
      <4>2. n = 1 \/ n > 1
        BY <4>1
      <4> QED
        BY <4>2 DEF n
    <3> QED
      BY <3>3, <3>4, <3>5
  <2> QED
    BY <2>1, <2>2, <2>3, <2>4, <2>5 DEF RxStep, DevStep
<1>4. wire = <<>> => wire' = <<>>
  BY <1>1
<1>5. Finished => Finished'
  BY <1>1, <1>2, <1>4 DEF Finished
<1>6. Undisturbed'
  BY <1>1 DEF LinkInv, Undisturbed
<1>7. (AtRest => AtRest') /\ (Handed => Handed') /\ (Done => Done')
  BY <1>1, <1>2, <1>5 DEF AtRest, Handed, Done
<1>8. AtWork => AtWork'
  BY <1>1, <1>2, <1>3, <1>5 DEF AtWork
<1> QED
  BY <1>1, <1>6, <1>7, <1>8 DEF LinkInv, Turns

\* Where a polite task continues, and with which round.
LEMMA PoliteBegin ==
    ASSUME NEW t \in Polite, NEW i \in 1..3
    PROVE  /\ Begin(t, i) \in {"clear", "reply"}
           /\ Begin(t, i) = "reply" <=> i > Len(Rounds[t])
BY PoliteRounds DEF Begin

LEMMA QuietUnchanged ==
    ASSUME UNCHANGED <<wire, ackPending, replies>>
    PROVE  (NoAck => NoAck') /\ (Finished /\ UNCHANGED task => Finished')
BY DEF NoAck, OnlyDials, Finished

\* Tasks are asked for, taken and handed to the Transmitter, and answered.
LEMMA ProcSteps ==
    ASSUME LinkInv, PoliteAlone, Ask \/ ProcStep
    PROVE  Turns' /\ Undisturbed'
<1>0. /\ connected /\ ~stopReq /\ call = "idle" /\ ~posted /\ calls = 0 /\ answer = "done"
      /\ queue \in Seq(Polite \cup {GUITask})
      /\ proc \in {"check", "append", "await"} => task \in Polite
      /\ proc # "await" => AtRest
      /\ proc = "await" => Handed \/ AtWork \/ Done
      /\ GUITask \notin Polite
      /\ Asked \subseteq Polite \cup {GUITask}
  BY SerialTaskNames DEF LinkInv, Undisturbed, Turns, PoliteAlone, Polite, Careful, TaskNames,
                         GUITask
<1>1. CASE Ask
  <2>1. /\ UNCHANGED <<respQ, procVars, serialQ, txVars, rx, acked, devVars, conn>>
        /\ queue' \in Seq(Polite \cup {GUITask})
    BY <1>0, <1>1 DEF Ask
  <2>2. (AtRest => AtRest') /\ (Handed => Handed') /\ (Done => Done') /\ (AtWork => AtWork')
    BY <2>1 DEF AtRest, Handed, Done, AtWork, NoAck, OnlyDials, Finished, AckAhead
  <2> QED
    BY <1>0, <2>1, <2>2 DEF Undisturbed, Turns
<1>2. CASE ProcClear
  <2>1. /\ proc = "clear" /\ proc' = "take" /\ respQ' = <<>>
        /\ UNCHANGED <<queue, task, serialQ, txVars, rx, acked, devVars, conn>>
    BY <1>2 DEF ProcClear
  <2>2. AtRest'
    BY <1>0, <2>1 DEF AtRest, NoAck, OnlyDials
  <2> QED
    BY <1>0, <2>1, <2>2 DEF Undisturbed, Turns
<1>3. CASE ProcTake
  <2>1. /\ proc = "take" /\ queue # <<>>
        /\ proc' = (IF Head(queue) = GUITask THEN "clear" ELSE "check")
        /\ task' = Head(queue) /\ queue' = Tail(queue)
        /\ UNCHANGED <<respQ, serialQ, txVars, rx, acked, devVars, conn>>
    BY <1>3 DEF ProcTake
  <2>2. AtRest'
    BY <1>0, <2>1 DEF AtRest, NoAck, OnlyDials
  <2>3. Head(queue) \in Polite \cup {GUITask} /\ queue' \in Seq(Polite \cup {GUITask})
    BY <1>0, <2>1, HeadTailProperties
  <2> QED
    BY <1>0, <2>1, <2>2, <2>3 DEF Undisturbed, Turns
<1>4. CASE ProcCheck
  <2>1. /\ proc = "check" /\ proc' \in {"append", "clear"}
        /\ UNCHANGED <<queue, respQ, task, serialQ, txVars, rx, acked, devVars, conn>>
    BY <1>4 DEF ProcCheck
  <2>2. AtRest'
    BY <1>0, <2>1 DEF AtRest, NoAck, OnlyDials
  <2> QED
    BY <1>0, <2>1, <2>2 DEF Undisturbed, Turns
<1>5. CASE ProcAppend
  <2>1. /\ proc = "append" /\ proc' = "await" /\ serialQ' = Append(serialQ, task)
        /\ UNCHANGED <<queue, respQ, task, txVars, rx, acked, devVars, conn>>
    BY <1>5 DEF ProcAppend
  <2>2. AtRest
    BY <1>0, <2>1
  <2>3. serialQ' = <<task'>>
    BY <2>1, <2>2 DEF AtRest
  <2>4. Handed'
    BY <2>1, <2>2, <2>3 DEF AtRest, Handed, NoAck, OnlyDials
  <2> QED
    BY <1>0, <2>1, <2>4 DEF Undisturbed, Turns
<1>6. CASE ProcResponse
  <2>1. proc = "await" /\ respQ # <<>> /\ proc' = "clear" /\ respQ' = Tail(respQ)
        /\ UNCHANGED <<task, serialQ, txVars, acked, devVars, connected, stopReq, call, calls>>
        /\ IF Head(respQ) = "disconnect"
             THEN queue' = <<>> /\ posted' = TRUE ELSE UNCHANGED <<queue, posted>>
    BY <1>6 DEF ProcResponse
  <2>2. Done
    BY <1>0, <2>1 DEF Handed, AtWork
  <2>3. respQ' = <<>> /\ Head(respQ) = "done"
    BY <2>1, <2>2 DEF Done
  <2>4. AtRest'
    BY <2>1, <2>2, <2>3 DEF Done, AtRest, Finished, NoAck, OnlyDials
  <2> QED
    BY <1>0, <2>1, <2>3, <2>4 DEF Undisturbed, Turns
<1> QED
  BY <1>1, <1>2, <1>3, <1>4, <1>5, <1>6 DEF ProcStep

\* The Transmitter carries out a task.
LEMMA TxSteps ==
    ASSUME LinkInv, PoliteAlone, TxStep
    PROVE  Turns' /\ Undisturbed'
<1>0. /\ connected /\ ~stopReq /\ call = "idle" /\ ~posted /\ calls = 0 /\ answer = "done"
      /\ queue \in Seq(Polite \cup {GUITask})
      /\ proc \in {"check", "append", "await"} => task \in Polite
      /\ proc # "await" => AtRest
      /\ proc = "await" => Handed \/ AtWork \/ Done
      /\ round \in 1..2 /\ wire \in Seq(AckedCmds \cup {"P"})
      /\ tx \in {"clear", "write", "wait"} => round <= Len(Rounds[txTask])
      /\ ~Timeouts /\ "P" \notin AckedCmds
  BY DEF LinkInv, Undisturbed, Turns, TypeInv, TypeOK, Within, PoliteAlone, AckedCmds
<1>1. CASE TxTake
  <2>1. /\ tx = "take" /\ serialQ # <<>> /\ txTask' = Head(serialQ) /\ serialQ' = Tail(serialQ)
        /\ tx' = Begin(Head(serialQ), 1) /\ answer' = "done"
        /\ UNCHANGED <<queue, respQ, procVars, rx, acked, devVars, conn>>
    BY <1>1 DEF TxTake
  <2>2. proc = "await" /\ Handed
    BY <1>0, <2>1 DEF AtRest, AtWork, Done
  <2>3. txTask' = task /\ serialQ' = <<>> /\ tx' = Begin(task, 1) /\ task \in Polite
    BY <1>0, <2>1, <2>2 DEF Handed
  <2>4. tx' = "clear"
    BY <2>3, PoliteBegin, PoliteRounds
  <2>5. AtWork'
    BY <2>1, <2>2, <2>3, <2>4 DEF Handed, AtWork, NoAck, OnlyDials
  <2> QED
    BY <1>0, <2>1, <2>2, <2>5 DEF Undisturbed, Turns
<1>a. TxTake \/ tx # "take"
  BY DEF TxStep, TxClear, TxWrite, TxDie, TxAcked, TxTimeout, TxReply, TxExit
<1> SUFFICES ASSUME tx # "take" PROVE Turns' /\ Undisturbed'
  BY <1>1, <1>a
<1>2. proc = "await" /\ AtWork /\ task \in Polite /\ txTask = task
      /\ serialQ = <<>> /\ respQ = <<>>
  BY <1>0 DEF AtRest, Handed, Done, AtWork
<1>3. CASE TxClear
  <2>1. /\ tx = "clear" /\ tx' = "write" /\ acked' = FALSE
        /\ UNCHANGED <<queue, respQ, procVars, serialQ, txTask, round, answer, devVars, conn>>
    BY <1>3 DEF TxClear
  <2>2. AtWork'
    BY <1>2, <2>1 DEF AtWork, NoAck, OnlyDials
  <2> QED
    BY <1>0, <1>2, <2>1, <2>2 DEF Undisturbed, Turns
<1>4. CASE TxWrite
  <2> DEFINE r == Rounds[txTask][round]
  <2>1. /\ tx = "write" /\ wire' = Append(wire, r.cmd)
        /\ IF r.waits THEN tx' = "wait" ELSE tx' = Begin(txTask, round + 1)
        /\ UNCHANGED <<queue, respQ, procVars, serialQ, txTask, answer, acked, ackPending,
                       replies, conn>>
    BY <1>0, <1>4 DEF TxWrite, NextRound, Closed
  <2>2. NoAck /\ ~acked /\ round \in 1..Len(Rounds[txTask])
    BY <1>0, <1>2, <2>1 DEF AtWork
  <2>3. /\ r \in Round /\ (r.waits <=> r.cmd \in AckedCmds)
        /\ ~r.waits => task = "dial" /\ r.cmd = "P"
    BY <1>2, <2>2, PoliteRounds
  <2> HIDE DEF r
  <2>4. r.cmd \in AckedCmds \cup {"P"}
    BY <2>3
  <2> DEFINE c == r.cmd
  <2> HIDE DEF c
  <2>5. /\ Len(wire') = Len(wire) + 1 /\ wire'[Len(wire')] = c /\ wire' # <<>>
        /\ \A i \in 1..Len(wire) : wire'[i] = "P"
    <3>1. wire' = Append(wire, c) /\ c \in AckedCmds \cup {"P"}
      BY <2>1, <2>4 DEF c
    <3>2. Len(wire') = Len(wire) + 1 /\ wire'[Len(wire) + 1] = c
          /\ \A i \in 1..Len(wire) : wire'[i] = wire[i]
      BY <1>0, <3>1, AppendProperties
    <3>3. Len(wire) \in Nat
      BY <1>0
    <3>4. wire' # <<>>
      BY <3>2, <3>3
    <3> QED
      BY <2>2, <3>2, <3>4 DEF NoAck, OnlyDials
  <2>6. CASE r.waits
    <3>1. \A i \in 1..Len(wire') - 1 : wire'[i] = "P"
      <4>1. Len(wire') - 1 = Len(wire)
        BY <1>0, <2>5
      <4> QED
        BY <2>5, <4>1
    <3>2. AckAhead'
      BY <2>1, <2>2, <2>3, <2>5, <2>6, <3>1 DEF AckAhead, NoAck, c
    <3>3. AtWork'
      BY <1>2, <2>1, <2>6, <3>2 DEF AtWork
    <3> QED
      BY <1>0, <1>2, <2>1, <3>3 DEF Undisturbed, Turns
  <2>7. CASE ~r.waits
    <3>1. NoAck'
      <4>1. \A i \in 1..Len(wire') : wire'[i] = "P"
        <5> TAKE i \in 1..Len(wire')
        <5>1. CASE i = Len(wire')
          BY <2>3, <2>5, <2>7, <5>1 DEF c
        <5>2. CASE i # Len(wire')
          <6>1. i \in 1..Len(wire)
            BY <1>0, <2>5, <5>2
          <6> QED
            BY <2>5, <6>1
        <5> QED
          BY <5>1, <5>2
      <4> QED
        BY <2>1, <2>2, <4>1 DEF NoAck, OnlyDials
    <3>2. tx' \in {"clear", "reply"}
      <4>1. round + 1 \in 1..3 /\ tx' = Begin(task, round + 1)
        BY <1>0, <1>2, <2>1, <2>7
      <4> QED
        BY <1>2, <4>1, PoliteBegin
    <3>3. AtWork'
      BY <1>2, <2>1, <2>3, <2>7, <3>1, <3>2 DEF AtWork, Finished
    <3> QED
      BY <1>0, <1>2, <2>1, <3>3 DEF Undisturbed, Turns
  <2> QED
    BY <2>6, <2>7
<1>5. CASE TxAcked
  <2>1. /\ tx = "wait" /\ acked /\ tx' = Begin(txTask, round + 1)
        /\ UNCHANGED <<queue, respQ, procVars, serialQ, txTask, answer, acked, devVars, conn>>
    BY <1>5 DEF TxAcked, NextRound
  <2>2. wire = <<>> /\ ~ackPending /\ replies = 0
    BY <1>2, <2>1 DEF AtWork, AckAhead
  <2>3. tx' \in {"clear", "reply"}
    <3>1. round + 1 \in 1..3 /\ tx' = Begin(task, round + 1)
      BY <1>0, <1>2, <2>1
    <3> QED
      BY <1>2, <3>1, PoliteBegin
  <2>4. AtWork'
    BY <1>2, <2>1, <2>2, <2>3 DEF AtWork, Finished, NoAck, OnlyDials
  <2> QED
    BY <1>0, <1>2, <2>1, <2>4 DEF Undisturbed, Turns
<1>6. CASE TxReply
  <2>1. /\ tx = "reply" /\ tx' = "take" /\ respQ' = <<"done">>
        /\ UNCHANGED <<queue, procVars, serialQ, txTask, answer, acked, devVars, conn>>
    BY <1>0, <1>2, <1>6 DEF TxReply
  <2>2. Done'
    BY <1>2, <2>1 DEF AtWork, Done, Finished, NoAck, OnlyDials
  <2> QED
    BY <1>0, <1>2, <2>1, <2>2 DEF Undisturbed, Turns
<1>7. ~TxDie /\ ~TxTimeout /\ ~TxExit
  BY <1>0, <1>2 DEF TxDie, Closed, TxTimeout, TxExit, AtWork
<1> QED
  BY <1>3, <1>4, <1>5, <1>6, <1>7 DEF TxStep, TxTake

LEMMA LinkStep == PoliteAlone /\ LinkInv /\ [Next]_vars => LinkInv'
<1> SUFFICES ASSUME PoliteAlone, LinkInv, [Next]_vars PROVE LinkInv'
  OBVIOUS
<1>1. TypeInv'
  BY TypeStep DEF LinkInv
<1>2. CASE Ask \/ ProcStep
  BY <1>1, <1>2, ProcSteps DEF LinkInv
<1>3. CASE TxStep
  BY <1>1, <1>3, TxSteps DEF LinkInv
<1>4. CASE RxStep \/ DevStep
  BY <1>1, <1>4, BoardSteps DEF LinkInv
<1>5. ~DisconnectStep /\ ~ConnectStep
  BY DEF LinkInv, Undisturbed, PoliteAlone, DisconnectStep, ConnectStep, Disconnect,
         DisconnectNot, ClearTasks, AddNulls, Notify, Join, Connect, SetConnected,
         ConnectClear, ConnectPing, ConnectEnd
<1>6. CASE UNCHANGED vars
  BY <1>1, <1>6 DEF vars, LinkInv, Undisturbed, Turns, AtRest, Handed, AtWork, Done, Finished,
                    NoAck, OnlyDials, AckAhead
<1> QED
  BY <1>2, <1>3, <1>4, <1>5, <1>6 DEF Next

\* A task that is answered has been carried out, unless it is a dial.
LEMMA LinkRefines ==
    ASSUME PoliteAlone, LinkInv, [Next]_vars
    PROVE  [Abstract!Next]_<<Request, Executed>>
<1>0. /\ TypeInv /\ Turns /\ Undisturbed /\ Turns' /\ TypeInv' /\ GUITask \notin SerialTasks
  BY LinkStep, SerialTaskNames DEF LinkInv, TaskNames, GUITask
<1>a. proc = "await" => task \in SerialTasks
  BY <1>0 DEF Undisturbed, Polite, Careful
<1>1. CASE UNCHANGED vars
  BY <1>1 DEF vars, Request, Executed
<1>2. CASE Ask
  BY <1>2 DEF Ask, Request, Executed
<1>3. CASE ProcStep
  <2>1. CASE ~ProcAppend /\ ~ProcResponse
    BY <1>3, <2>1 DEF ProcStep, ProcClear, ProcTake, ProcCheck, Request, Executed
  <2>2. CASE ProcAppend
    <3>1. proc = "append" /\ proc' = "await" /\ task \in SerialTasks /\ task' = task
      BY <1>0, <2>2 DEF ProcAppend, TypeInv, Within
    <3>2. tx' = "take" /\ respQ' = <<>>
      BY <1>0, <2>2, <3>1 DEF ProcAppend, Turns, AtRest
    <3>3. Request = GUITask /\ Request' \in SerialTasks /\ Executed' = FALSE
      BY <3>1, <3>2, Zenon DEF Request, Executed
    <3> QED
      BY <3>3 DEF Abstract!Next, Abstract!Issue
  <2>3. CASE ProcResponse
    <3>1. proc = "await" /\ proc' = "clear" /\ respQ # <<>> /\ task \in SerialTasks
      BY <1>a, <2>3 DEF ProcResponse
    <3>2. tx = "take" /\ (task # "dial" => wire = <<>>)
      BY <1>0, <3>1 DEF Turns, Handed, AtWork, Done, Finished
    <3>3. /\ Request = task /\ task # GUITask /\ Request' = GUITask
          /\ Executed \/ task \in {"dial"}
      BY <1>0, <3>1, <3>2 DEF Request, Executed
    <3>4. Executed' = FALSE
      BY <3>1, Zenon DEF Executed
    <3> QED
      BY <3>3, <3>4 DEF Abstract!Next, Abstract!Report
  <2> QED
    BY <2>1, <2>2, <2>3
<1>4. CASE RxStep \/ DevStep \/ TxStep
  <2>1. UNCHANGED <<proc, task>>
    BY <1>4 DEF RxStep, DevStep, RxAck, RxExit, DevTransmit, DevExecute, DevReceived, TxStep,
                TxTake, TxClear, TxWrite, TxDie, TxAcked, TxTimeout, TxReply, TxExit
  <2>2. Executed => Executed'
    <3> SUFFICES ASSUME Executed PROVE Executed'
      OBVIOUS
    <3>1. /\ proc = "await" /\ wire = <<>>
          /\ \/ tx = "wait" /\ round = Len(Rounds[txTask])
             \/ tx = "reply"
             \/ tx = "take" /\ respQ # <<>>
      BY DEF Executed
    <3>2. CASE RxStep \/ DevStep
      <4>1. UNCHANGED <<tx, round, txTask, respQ>> /\ wire' = <<>>
        BY <3>1, <3>2, BoardSteps
      <4> QED
        BY <2>1, <3>1, <4>1 DEF Executed
    <3>3. CASE TxStep
      <4>1. TxAcked \/ TxReply
        <5>1. ~stopReq /\ (tx = "take" => serialQ = <<>>) /\ ~Timeouts
          BY <1>0, <3>1 DEF Undisturbed, Turns, Handed, AtWork, Done, PoliteAlone
        <5> QED
          BY <3>1, <3>3, <5>1 DEF TxStep, TxTake, TxClear, TxWrite, TxDie, TxTimeout, TxExit
      <4>2. CASE TxAcked
        <5>1. tx = "wait" /\ round = Len(Rounds[txTask]) /\ tx' = Begin(txTask, round + 1)
              /\ UNCHANGED wire
          BY <3>1, <4>2 DEF TxAcked, NextRound
        <5>2. tx' = "reply"
          <6>1. round \in 1..2
            BY <1>0 DEF TypeInv, TypeOK
          <6> QED
            BY <5>1, <6>1 DEF Begin
        <5> QED
          BY <2>1, <3>1, <5>1, <5>2 DEF Executed
      <4>3. CASE TxReply
        <5>1. tx' = "take" /\ respQ' = Append(respQ, "done") /\ UNCHANGED wire
          BY <1>0, <4>3 DEF TxReply, Undisturbed
        <5>2. respQ' # <<>>
          <6>1. respQ \in Seq({"done", "disconnect"})
            BY <1>0 DEF TypeInv, TypeOK
          <6>2. Len(respQ') = Len(respQ) + 1 /\ Len(respQ) \in Nat
            BY <5>1, <6>1, AppendProperties
          <6> QED
            BY <6>2
        <5> QED
          BY <2>1, <3>1, <5>1, <5>2 DEF Executed
      <4> QED
        BY <4>1, <4>2, <4>3
    <3> QED
      BY <1>4, <3>2, <3>3
  <2>3. Request' = Request
    BY <2>1 DEF Request
  <2>4. ~Executed /\ Executed' => Request # GUITask
    <3>1. Executed' => proc = "await"
      BY <2>1 DEF Executed
    <3>2. proc = "await" => Request # GUITask
      BY <1>0, <1>a DEF Request
    <3> QED
      BY <3>1, <3>2
  <2>5. Executed \in BOOLEAN /\ Executed' \in BOOLEAN
    BY Zenon DEF Executed
  <2>6. CASE Executed' = Executed
    BY <2>3, <2>6
  <2>7. CASE ~Executed /\ Executed'
    BY <2>3, <2>4, <2>5, <2>7 DEF Abstract!Next, Abstract!Execute
  <2> QED
    BY <2>2, <2>5, <2>6, <2>7
<1>5. ~DisconnectStep /\ ~ConnectStep
  BY <1>0 DEF Undisturbed, PoliteAlone, DisconnectStep, ConnectStep, Disconnect,
         DisconnectNot, ClearTasks, AddNulls, Notify, Join, Connect, SetConnected,
         ConnectClear, ConnectPing, ConnectEnd
<1> QED
  BY <1>1, <1>2, <1>3, <1>4, <1>5 DEF Next

\* With polite tasks, acknowledgements in time and nobody who disconnects, a task
\* is reported done (QCmdProcessor.java:327) only when the board has carried it
\* out, although acknowledgements carry no number; only dials are not waited for.
THEOREM TasksOneByOne == ASSUME PoliteAlone PROVE Spec => OneByOne
<1>1. Init => Abstract!Init
  <2> SUFFICES ASSUME Init PROVE Request = GUITask /\ Executed = FALSE
    BY DEF Abstract!Init
  <2>1. proc = "clear"
    BY DEF Init
  <2> QED
    BY <2>1, Zenon DEF Request, Executed
<1>2. LinkInv /\ [Next]_vars => [Abstract!Next]_<<Request, Executed>>
  BY LinkRefines
<1>3. LinkInv /\ [Next]_vars => LinkInv'
  BY LinkStep
<1> QED
  BY <1>1, <1>2, <1>3, LinkInit, PTL DEF Spec, OneByOne, Abstract!Spec
=============================================================================
