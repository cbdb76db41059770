------------------------------ MODULE HostLink ------------------------------
(***************************************************************************)
(* How the patcher has the board carry out a task: QCmdProcessor takes it  *)
(* from its queue and hands it to the Transmitter thread, which writes one *)
(* command after another to USB and waits for acknowledgements (WaitSync); *)
(* the Receiver thread notes them; on the board, ThreadUI carries out what *)
(* has arrived (PExReceive) and then acknowledges (PExTransmit).  The      *)
(* acknowledgements carry no number.                                       *)
(***************************************************************************)
EXTENDS Naturals, Sequences

CONSTANTS Asked,      \* the tasks the user asks for
          QueueCap,   \* capacity of the queue of QCmdProcessor
          Timeouts,   \* an acknowledgement may take longer than WaitSync waits
          MaxTasks,   \* bound: how many tasks the user asks for
          MaxCalls    \* bound: how often the user disconnects and connects

\* A round of a task: clear the flag of the last acknowledgement, write a
\* command, wait for the acknowledgement.
Clear(cmd)    == [clears |-> TRUE, cmd |-> cmd, waits |-> TRUE]
NoClear(cmd)  == [clears |-> FALSE, cmd |-> cmd, waits |-> TRUE]
Post(cmd)     == [clears |-> TRUE, cmd |-> cmd, waits |-> FALSE]

\* What Do of each task does with the connection.  The other tasks that read
\* something are like "query", the tasks on files like "upload".
Rounds == [ping   |-> <<Clear("p")>>,
           query  |-> <<Clear("V")>>,
           stop   |-> <<Clear("S")>>,
           flash  |-> <<Clear("F")>>,
           upload |-> <<Clear("W"), Clear("W")>>,
           start  |-> <<Clear("U"), NoClear("s")>>,
           dial   |-> <<Post("P")>>,
           preset |-> <<Post("R")>>,
           null   |-> <<>>]

SerialTasks == DOMAIN Rounds
GUITask == "gui"   \* a task that only the graphical interface carries out

\* The commands the board acknowledges.
AckedCmds == {"p", "V", "S", "F", "W", "U", "s", "R"}

\* The tasks that disconnect when their last acknowledgement does not come.
Quitting == {"ping", "stop", "flash", "start"}

\* The tasks that clear the flag before, and wait after, each command that is
\* acknowledged.
Careful == {t \in SerialTasks : \A i \in DOMAIN Rounds[t] :
               LET r == Rounds[t][i]
               IN  r.clears /\ r.waits = (r.cmd \in AckedCmds)}

ASSUME HostLinkAssumption ==
    /\ Asked \subseteq SerialTasks \cup {GUITask}
    /\ QueueCap \in Nat \ {0}
    /\ Timeouts \in BOOLEAN
    /\ MaxTasks \in Nat /\ MaxCalls \in Nat

VARIABLES
    queue,      \* tasks QCmdProcessor has not taken
    respQ,      \* queueResponse
    proc, task, \* where QCmdProcessor is, and with which task
    serialQ,    \* queueSerialTask
    tx,         \* where the Transmitter is
    txTask, round, answer,
    rx,         \* the Receiver
    acked,      \* sync.Acked
    wire,       \* commands written to USB and not carried out
    ackPending, \* AckPending
    dev,        \* where ThreadUI is
    replies,    \* acknowledgements sent and not received
    connected, stopReq,   \* connected, disconnectRequested
    call,       \* where connect() or disconnect() is
    posted,     \* a QCmdDisconnect waits for the graphical interface
    asked, calls

procVars == <<proc, task>>
txVars   == <<tx, txTask, round, answer>>
devVars  == <<wire, ackPending, dev, replies>>
conn     == <<connected, stopReq, call, posted, calls>>
vars     == <<queue, respQ, procVars, serialQ, txVars, rx, acked, devVars, conn, asked>>

TypeOK ==
    /\ queue \in Seq(SerialTasks \cup {GUITask}) /\ Len(queue) <= QueueCap
    /\ respQ \in Seq({"done", "disconnect"})
    /\ proc \in {"clear", "take", "check", "append", "await"}
    /\ task \in SerialTasks \cup {GUITask}
    /\ serialQ \in Seq(SerialTasks)
    /\ tx \in {"take", "clear", "write", "wait", "reply", "exit", "gone"}
    /\ txTask \in SerialTasks
    /\ round \in 1..2
    /\ answer \in {"done", "disconnect", "none"}
    /\ rx \in BOOLEAN
    /\ acked \in BOOLEAN
    /\ wire \in Seq(AckedCmds \cup {"P"})
    /\ ackPending \in BOOLEAN
    /\ dev \in {"transmit", "receive"}
    /\ replies \in Nat
    /\ connected \in BOOLEAN /\ stopReq \in BOOLEAN
    /\ call \in {"idle", "clear", "nulls", "notify", "join",
                 "connected", "clearSync", "ping", "wait"}
    /\ posted \in BOOLEAN
    /\ asked \in 0..MaxTasks
    /\ calls \in 0..MaxCalls

\* Connected, and nothing to do.
Init ==
    /\ queue = <<>> /\ respQ = <<>> /\ serialQ = <<>>
    /\ proc = "clear" /\ task = "null"
    /\ tx = "take" /\ txTask = "null" /\ round = 1 /\ answer = "done"
    /\ rx = TRUE
    /\ acked = FALSE
    /\ wire = <<>> /\ ackPending = FALSE /\ dev = "transmit" /\ replies = 0
    /\ connected = TRUE /\ stopReq = FALSE /\ call = "idle" /\ posted = FALSE
    /\ asked = 0 /\ calls = 0
-----------------------------------------------------------------------------
(* QCmdProcessor *)

\* A task is added to the queue by the user, by the pinger or by the dial
\* transmitter; into a full queue, it is not.
Ask ==
    /\ asked < MaxTasks
    /\ Len(queue) < QueueCap
    /\ \E t \in Asked : queue' = Append(queue, t)
    /\ asked' = asked + 1
    /\ UNCHANGED <<respQ, procVars, serialQ, txVars, rx, acked, devVars, conn>>

\* Leftover responses are thrown away before the next task is taken.
ProcClear ==
    /\ proc = "clear"
    /\ proc' = "take"
    /\ respQ' = <<>>
    /\ UNCHANGED <<queue, task, serialQ, txVars, rx, acked, devVars, conn, asked>>

ProcTake ==
    /\ proc = "take" /\ queue # <<>>
    /\ proc' = IF Head(queue) = GUITask THEN "clear" ELSE "check"
    /\ task' = Head(queue)
    /\ queue' = Tail(queue)
    /\ UNCHANGED <<respQ, serialQ, txVars, rx, acked, devVars, conn, asked>>

\* Without a connection the task is dropped.
ProcCheck ==
    /\ proc = "check"
    /\ proc' = IF connected /\ ~stopReq THEN "append" ELSE "clear"
    /\ UNCHANGED <<queue, respQ, task, serialQ, txVars, rx, acked, devVars, conn, asked>>

ProcAppend ==
    /\ proc = "append"
    /\ proc' = "await"
    /\ serialQ' = Append(serialQ, task)
    /\ UNCHANGED <<queue, respQ, task, txVars, rx, acked, devVars, conn, asked>>

ProcResponse ==
    /\ proc = "await" /\ respQ # <<>>
    /\ proc' = "clear"
    /\ respQ' = Tail(respQ)
    /\ IF Head(respQ) = "disconnect"
         THEN queue' = <<>> /\ posted' = TRUE
         ELSE UNCHANGED <<queue, posted>>
    /\ UNCHANGED <<task, serialQ, txVars, rx, acked, devVars, connected, stopReq,
                   call, calls, asked>>

ProcStep == ProcClear \/ ProcTake \/ ProcCheck \/ ProcAppend \/ ProcResponse
-----------------------------------------------------------------------------
(* The Transmitter *)

\* Where a task with n rounds continues when it is about to begin round i.
Begin(t, i) == IF i > Len(Rounds[t]) THEN "reply"
               ELSE IF Rounds[t][i].clears THEN "clear" ELSE "write"

\* Mutant: the rounds are counted too far.
NextRoundOver ==
    /\ tx' = Begin(txTask, round + 1)
    /\ round' = round + 1

NextRound ==
    /\ tx' = Begin(txTask, round + 1)
    /\ round' = IF round < Len(Rounds[txTask]) THEN round + 1 ELSE round

TxTake ==
    /\ tx = "take" /\ serialQ # <<>>
    /\ txTask' = Head(serialQ)
    /\ serialQ' = Tail(serialQ)
    /\ round' = 1
    /\ tx' = Begin(Head(serialQ), 1)
    /\ answer' = "done"
    /\ UNCHANGED <<queue, respQ, procVars, rx, acked, devVars, conn, asked>>

\* Mutant: the flag of the last acknowledgement is not cleared.
TxClearNot ==
    /\ tx = "clear"
    /\ tx' = "write"
    /\ UNCHANGED <<queue, respQ, procVars, serialQ, txTask, round, answer, rx, acked,
                   devVars, conn, asked>>

TxClear ==
    /\ tx = "clear"
    /\ tx' = "write"
    /\ acked' = FALSE
    /\ UNCHANGED <<queue, respQ, procVars, serialQ, txTask, round, answer, rx, devVars,
                   conn, asked>>

\* disconnect() has closed the handle.
Closed == stopReq /\ call = "idle"

TxWrite ==
    /\ tx = "write"
    /\ wire' = IF Closed THEN wire ELSE Append(wire, Rounds[txTask][round].cmd)
    /\ IF Rounds[txTask][round].waits THEN tx' = "wait" /\ UNCHANGED round ELSE NextRound
    /\ UNCHANGED <<queue, respQ, procVars, serialQ, txTask, answer, rx, acked, ackPending,
                   dev, replies, conn, asked>>

\* Writing without a handle ends the thread with an exception.
TxDie ==
    /\ tx = "write" /\ Closed
    /\ tx' = "gone"
    /\ UNCHANGED <<queue, respQ, procVars, serialQ, txTask, round, answer, rx, acked,
                   devVars, conn, asked>>

\* WaitSync returns TRUE.
TxAcked ==
    /\ tx = "wait" /\ acked
    /\ NextRound
    /\ UNCHANGED <<queue, respQ, procVars, serialQ, txTask, answer, rx, acked, devVars,
                   conn, asked>>

\* WaitSync returns FALSE, after its time or because disconnect() woke it up.
TxTimeout ==
    /\ tx = "wait" /\ ~acked
    /\ Timeouts \/ stopReq
    /\ NextRound
    /\ answer' = CASE txTask = "ping" /\ (~connected \/ stopReq)       -> "none"
                   [] txTask \in Quitting /\ round = Len(Rounds[txTask]) -> "disconnect"
                   [] OTHER                                               -> answer
    /\ UNCHANGED <<queue, respQ, procVars, serialQ, txTask, rx, acked, devVars, conn, asked>>

TxReply ==
    /\ tx = "reply"
    /\ tx' = IF stopReq THEN "exit" ELSE "take"
    /\ respQ' = IF answer = "none" THEN respQ ELSE Append(respQ, answer)
    /\ UNCHANGED <<queue, procVars, serialQ, txTask, round, answer, rx, acked, devVars,
                   conn, asked>>

\* Abort(), and a task that shows the disconnection.
TxExit ==
    /\ tx = "exit"
    /\ tx' = "gone"
    /\ queue' = <<GUITask>> /\ respQ' = <<>>
    /\ UNCHANGED <<procVars, serialQ, txTask, round, answer, rx, acked, devVars, conn, asked>>

TxStep == \/ TxTake \/ TxClear \/ TxWrite \/ TxDie \/ TxAcked \/ TxTimeout
          \/ TxReply \/ TxExit
-----------------------------------------------------------------------------
(* The Receiver *)

RxAck ==
    /\ rx /\ replies > 0
    /\ replies' = replies - 1
    /\ acked' = TRUE
    /\ UNCHANGED <<queue, respQ, procVars, serialQ, txVars, rx, wire, ackPending, dev,
                   conn, asked>>

RxExit ==
    /\ rx /\ stopReq
    /\ rx' = FALSE
    /\ queue' = <<GUITask>> /\ respQ' = <<>>
    /\ UNCHANGED <<procVars, serialQ, txVars, acked, devVars, conn, asked>>

RxStep == RxAck \/ RxExit
-----------------------------------------------------------------------------
(* The board: PExTransmit and PExReceive, in turn *)

DevTransmit ==
    /\ dev = "transmit"
    /\ dev' = "receive"
    /\ replies' = IF ackPending THEN replies + 1 ELSE replies
    /\ ackPending' = FALSE
    /\ UNCHANGED <<queue, respQ, procVars, serialQ, txVars, rx, acked, wire, conn, asked>>

\* Mutant: the command is not acknowledged.
DevExecuteSilent ==
    /\ dev = "receive" /\ wire # <<>>
    /\ wire' = Tail(wire)
    /\ UNCHANGED <<queue, respQ, procVars, serialQ, txVars, rx, acked, ackPending, dev,
                   replies, conn, asked>>

\* One more of the commands that have arrived.
DevExecute ==
    /\ dev = "receive" /\ wire # <<>>
    /\ wire' = Tail(wire)
    /\ ackPending' = (ackPending \/ Head(wire) \in AckedCmds)
    /\ UNCHANGED <<queue, respQ, procVars, serialQ, txVars, rx, acked, dev, replies, conn,
                   asked>>

DevReceived ==
    /\ dev = "receive" /\ wire = <<>>
    /\ dev' = "transmit"
    /\ UNCHANGED <<queue, respQ, procVars, serialQ, txVars, rx, acked, wire, ackPending,
                   replies, conn, asked>>

DevStep == DevTransmit \/ DevExecute \/ DevReceived
-----------------------------------------------------------------------------
(* connect() and disconnect() *)

\* The user disconnects, or the answer to a task does.
Disconnect ==
    /\ call = "idle"
    /\ \/ posted /\ posted' = FALSE /\ queue' = <<>> /\ UNCHANGED calls
       \/ calls < MaxCalls /\ calls' = calls + 1 /\ UNCHANGED <<posted, queue>>
    /\ connected
    /\ stopReq' = TRUE /\ connected' = FALSE
    /\ call' = "clear"
    /\ UNCHANGED <<respQ, procVars, serialQ, txVars, rx, acked, devVars, asked>>

\* Disconnected already.
DisconnectNot ==
    /\ call = "idle" /\ posted /\ ~connected
    /\ posted' = FALSE /\ queue' = <<>>
    /\ UNCHANGED <<respQ, procVars, serialQ, txVars, rx, acked, devVars, connected, stopReq,
                   call, calls, asked>>

ClearTasks ==
    /\ call = "clear" /\ call' = "nulls"
    /\ serialQ' = <<>>
    /\ UNCHANGED <<queue, respQ, procVars, txVars, rx, acked, devVars, connected, stopReq,
                   posted, calls, asked>>

\* Mutants: no task, or only one, to wake up the Transmitter.
AddNoNull ==
    /\ call = "nulls" /\ call' = "notify"
    /\ UNCHANGED <<queue, respQ, procVars, serialQ, txVars, rx, acked, devVars, connected,
                   stopReq, posted, calls, asked>>

AddOneNull ==
    /\ call = "nulls" /\ call' = "notify"
    /\ serialQ' = Append(serialQ, "null")
    /\ UNCHANGED <<queue, respQ, procVars, txVars, rx, acked, devVars, connected, stopReq,
                   posted, calls, asked>>

\* Two tasks to wake up the Transmitter.
AddNulls ==
    /\ call = "nulls" /\ call' = "notify"
    /\ serialQ' = serialQ \o <<"null", "null">>
    /\ UNCHANGED <<queue, respQ, procVars, txVars, rx, acked, devVars, connected, stopReq,
                   posted, calls, asked>>

Notify ==
    /\ call = "notify" /\ call' = "join"
    /\ acked' = FALSE
    /\ UNCHANGED <<queue, respQ, procVars, serialQ, txVars, rx, devVars, connected, stopReq,
                   posted, calls, asked>>

Join ==
    /\ call = "join" /\ ~rx /\ call' = "idle"
    /\ UNCHANGED <<queue, respQ, procVars, serialQ, txVars, rx, acked, devVars, connected,
                   stopReq, posted, calls, asked>>

\* The user connects again, not before the Transmitter has ended.
Connect ==
    /\ call = "idle" /\ ~connected /\ ~posted /\ tx = "gone"
    /\ call' = "connected"
    /\ stopReq' = FALSE /\ acked' = TRUE
    /\ tx' = "take" /\ rx' = TRUE
    /\ UNCHANGED <<queue, respQ, procVars, serialQ, txTask, round, answer, devVars,
                   connected, posted, calls, asked>>

SetConnected ==
    /\ call = "connected" /\ call' = "clearSync"
    /\ connected' = TRUE
    /\ UNCHANGED <<queue, respQ, procVars, serialQ, txVars, rx, acked, devVars, stopReq,
                   posted, calls, asked>>

ConnectClear ==
    /\ call = "clearSync" /\ call' = "ping"
    /\ acked' = FALSE
    /\ UNCHANGED <<queue, respQ, procVars, serialQ, txVars, rx, devVars, connected, stopReq,
                   posted, calls, asked>>

ConnectPing ==
    /\ call = "ping" /\ call' = "wait"
    /\ wire' = Append(wire, "p")
    /\ UNCHANGED <<queue, respQ, procVars, serialQ, txVars, rx, acked, ackPending, dev,
                   replies, connected, stopReq, posted, calls, asked>>

\* Connected: ask for the version of the firmware first.
ConnectEnd ==
    /\ call = "wait" /\ (acked \/ Timeouts)
    /\ call' = "idle"
    /\ queue' = IF Len(queue) < QueueCap THEN Append(queue, "query") ELSE queue
    /\ UNCHANGED <<respQ, procVars, serialQ, txVars, rx, acked, devVars, connected, stopReq,
                   posted, calls, asked>>

DisconnectStep == Disconnect \/ DisconnectNot \/ ClearTasks \/ AddNulls \/ Notify \/ Join
ConnectStep == Connect \/ SetConnected \/ ConnectClear \/ ConnectPing \/ ConnectEnd
-----------------------------------------------------------------------------
Next == Ask \/ ProcStep \/ TxStep \/ RxStep \/ DevStep \/ DisconnectStep \/ ConnectStep

Spec == Init /\ [][Next]_vars

(***************************************************************************)
(* Every thread that can go on does.  The user connects again.             *)
(***************************************************************************)
Fairness == /\ WF_vars(ProcStep) /\ WF_vars(TxStep) /\ WF_vars(RxStep) /\ WF_vars(DevStep)
            /\ WF_vars(ClearTasks \/ AddNulls \/ Notify \/ Join)
            /\ WF_vars(posted /\ (Disconnect \/ DisconnectNot)) /\ WF_vars(ConnectStep)

FairSpec == Spec /\ Fairness
-----------------------------------------------------------------------------
(* Properties *)

\* The request at work, and whether the board has carried out its last command.
Request == IF proc = "await" THEN task ELSE GUITask
Executed == /\ proc = "await" /\ wire = <<>>
            /\ \/ tx = "wait" /\ round = Len(Rounds[txTask])
               \/ tx = "reply"
               \/ tx = "take" /\ respQ # <<>>

\* A task is reported done only when the board has carried it out, and before
\* the next one is handed out; only dial changes are not waited for.
Abstract == INSTANCE RequestReply WITH Tasks <- SerialTasks, Posted <- {"dial"},
                                       None <- GUITask, request <- Request,
                                       executed <- Executed
OneByOne == Abstract!Spec

\* QCmdProcessor gets an answer to every task it hands out.  When disconnect()
\* took the answer away, one comes from a null task left over in the queue of the
\* Transmitter, once it runs again.
TasksReturn == proc = "await" ~> proc # "await"

\* disconnect() ends the Transmitter and the Receiver, whatever they wait for.
DisconnectEnds == stopReq ~> tx = "gone" /\ ~rx
=============================================================================
