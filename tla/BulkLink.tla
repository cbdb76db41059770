------------------------------ MODULE BulkLink ------------------------------
(***************************************************************************)
(* The bytes under the commands of HostLink: the Transmitter and the       *)
(* graphical interface of the patcher write packets, the endpoint of the   *)
(* board takes them (UsbReceive), and ThreadUI reads them, takes them      *)
(* apart (CommandDecoder), carries the commands out and acknowledges them. *)
(***************************************************************************)
EXTENDS CommandDecoder

CONSTANTS PacketSize, QueueSize,
          Asked,        \* the commands the Transmitter is given
          Played,       \* the MIDI commands of the graphical interface
          Torn,         \* it may write one between the packets of another command
          MaxCommands   \* bound: how many commands are sent

\* A command that fits the format of its letter.
WellFormed(cmd) ==
    /\ cmd.letter \in Letters
    /\ cmd.args \in Seq(Byte) /\ cmd.data \in Seq(Byte)
    /\ IF cmd.letter \in WithData
         THEN Len(cmd.args) = Fields[cmd.letter] - 4
         ELSE cmd.data = <<>> /\ (cmd.letter # Named => Len(cmd.args) = Fields[cmd.letter])

\* A name ends with its first zero, unless it starts with one: then five bytes of
\* attributes come before.
NameEnds(args) ==
    /\ Len(args) > 5
    /\ \A n \in 6..Len(args) : (args[n] = 0 /\ (args[5] = 0 => n > 10)) <=> n = Len(args)

\* More than 0, and what the board's "int value" can hold.
Lengths == {n \in Nat \ {0} : n \div 16777216 < 128}

\* One that the board has carried out with its last byte.
Complete(cmd) ==
    /\ WellFormed(cmd)
    /\ cmd = Command(cmd.letter, cmd.args, cmd.data)
    /\ cmd.letter \in WithData => Len(cmd.data) \in Lengths
    /\ cmd.letter = Named => NameEnds(cmd.args)

ASSUME BulkLinkAssumption ==
    /\ \A cmd \in Asked \cup Played : WellFormed(cmd)
    /\ \A cmd \in Played : cmd.letter = "M"
    /\ Torn \in BOOLEAN /\ MaxCommands \in Nat

VARIABLES
    sending, wire, receiving, pktcnt, rx, iqueue,
    txPc,        \* the Transmitter: "idle", "data", "wait"
    txAt,        \* the position of its command in sent
    sent,        \* history: the commands whose packets have been written
    acked,       \* sync.Acked
    uploaded,    \* history: the blocks reported uploaded, as positions in sent
    uiPc,        \* ThreadUI: in "transmit" or in "receive"
    dec,         \* the state of PExReceiveByte
    ackPending,
    carried,     \* history: the commands carried out
    replies,     \* acknowledgements on their way to the patcher
    acks         \* history: how many have been sent

\* The board stays connected.
USB == INSTANCE UsbReceive WITH active <- TRUE

ASSUME EndpointAssumption == USB!Parameters

endpoint == <<sending, wire, receiving, pktcnt, rx, iqueue>>
patcher  == <<txPc, txAt, sent, acked, uploaded>>
board    == <<uiPc, dec, ackPending, carried>>
vars     == <<endpoint, patcher, board, replies, acks>>

TypeOK ==
    /\ USB!TypeOK(Byte)
    /\ txPc \in {"idle", "data", "wait"}
    /\ sent \in Seq(Asked \cup Played) /\ txAt \in 0..Len(sent)
    /\ acked \in BOOLEAN
    /\ uploaded \subseteq DOMAIN sent
    /\ uiPc \in {"transmit", "receive"}
    /\ dec \in [header : Letters \cup {"", "?"}, state : 0..3, buf : Seq(Byte),
                data : Seq(Byte)]
    /\ ackPending \in BOOLEAN
    /\ \A i \in DOMAIN carried : carried[i].letter \in Letters
    /\ replies \in Nat /\ acks \in Nat

Init ==
    /\ USB!Init
    /\ txPc = "idle" /\ txAt = 0 /\ sent = <<>> /\ acked = FALSE /\ uploaded = {}
    /\ uiPc = "transmit" /\ dec = Idle /\ ackPending = FALSE /\ carried = <<>>
    /\ replies = 0 /\ acks = 0

\* The commands after which the Transmitter waits: not a parameter, whose
\* message is not acknowledged, nor a preset, whose acknowledgement nobody waits
\* for.
Waits(cmd) == cmd.letter \notin {"P", "R", "B", "D", "d"}

Current == sent[txAt]   \* of the Transmitter, unless it is idle

IsBlock(cmd) == cmd.letter = "W"
-----------------------------------------------------------------------------
(* The patcher *)

Written(cmd) == IF Waits(cmd) THEN "wait" ELSE "idle"

\* Mutant: without ClearSync.
TxHeaderStale ==
    /\ txPc = "idle"
    /\ Len(sent) < MaxCommands
    /\ \E cmd \in Asked :
          /\ USB!Write(HeaderOf(cmd))
          /\ sent' = Append(sent, cmd) /\ txAt' = Len(sent) + 1
          /\ txPc' = IF cmd.letter \in WithData THEN "data" ELSE Written(cmd)
    /\ UNCHANGED <<acked, uploaded, board, replies, acks>>

\* ClearSync, then the packet with the letter and the fields.
TxHeader ==
    /\ txPc = "idle"
    /\ Len(sent) < MaxCommands
    /\ \E cmd \in Asked :
          /\ USB!Write(HeaderOf(cmd))
          /\ sent' = Append(sent, cmd) /\ txAt' = Len(sent) + 1
          /\ txPc' = IF cmd.letter \in WithData THEN "data" ELSE Written(cmd)
    /\ acked' = FALSE
    /\ UNCHANGED <<uploaded, board, replies, acks>>

TxData ==
    /\ txPc = "data"
    /\ USB!Write(Current.data)
    /\ txPc' = Written(Current)
    /\ UNCHANGED <<txAt, sent, acked, uploaded, board, replies, acks>>

\* Nothing is left to be done: the acknowledgement is not going to come.
Quiet ==
    /\ ~sending /\ receiving /\ pktcnt > 0 /\ iqueue = <<>>
    /\ ~ackPending /\ replies = 0

\* Mutant: the block after the one that was sent.
WaitSyncNext ==
    /\ txPc = "wait" /\ ~sending
    /\ acked \/ Quiet
    /\ txPc' = "idle"
    /\ uploaded' = IF IsBlock(Current) THEN uploaded \cup {txAt + 1} ELSE uploaded
    /\ UNCHANGED <<endpoint, txAt, sent, acked, board, replies, acks>>

\* Three seconds are longer than the board takes for a command.  Whatever
\* WaitSync returns, UploadFragment reports the block.
WaitSync ==
    /\ txPc = "wait" /\ ~sending
    /\ acked \/ Quiet
    /\ txPc' = "idle"
    /\ uploaded' = IF IsBlock(Current) THEN uploaded \cup {txAt} ELSE uploaded
    /\ UNCHANGED <<endpoint, txAt, sent, acked, board, replies, acks>>

\* SendMidi, on the thread of the graphical interface.
SendMidi ==
    /\ txPc # "data" \/ Torn
    /\ Len(sent) < MaxCommands
    /\ \E cmd \in Played : USB!Write(HeaderOf(cmd)) /\ sent' = Append(sent, cmd)
    /\ UNCHANGED <<txPc, txAt, acked, uploaded, board, replies, acks>>

Acknowledge ==
    /\ replies > 0
    /\ replies' = replies - 1
    /\ acked' = TRUE
    /\ UNCHANGED <<endpoint, txPc, txAt, sent, uploaded, board, acks>>

PatcherStep == TxHeader \/ TxData \/ WaitSync \/ SendMidi \/ Acknowledge
-----------------------------------------------------------------------------
(* The board *)

\* The controller and its interrupt.
Endpoint ==
    /\ USB!Packet \/ USB!DataReceived
    /\ UNCHANGED <<patcher, board, replies, acks>>

PExTransmit ==
    /\ uiPc = "transmit"
    /\ uiPc' = "receive"
    /\ IF ackPending THEN replies' = replies + 1 /\ acks' = acks + 1
       ELSE UNCHANGED <<replies, acks>>
    /\ ackPending' = FALSE
    /\ UNCHANGED <<endpoint, patcher, dec, carried>>

\* One turn of the loop of PExReceive, which goes on until the queue is empty.
ReceiveByte ==
    /\ uiPc = "receive"
    /\ USB!ReadByte
    /\ LET r == PExReceiveByte(dec, Head(iqueue))
       IN  /\ dec' = r.dec
           /\ carried' = carried \o r.done
           /\ ackPending' = (ackPending \/ r.ack)
    /\ UNCHANGED <<patcher, uiPc, replies, acks>>

ReceiveEnd ==
    /\ uiPc = "receive"
    /\ USB!ReadNothing
    /\ uiPc' = "transmit"
    /\ UNCHANGED <<patcher, dec, ackPending, carried, replies, acks>>

UIStep == PExTransmit \/ ReceiveByte \/ ReceiveEnd
-----------------------------------------------------------------------------
Next == PatcherStep \/ Endpoint \/ UIStep

Spec == Init /\ [][Next]_vars

\* ThreadUI keeps going round, the host controller retries a packet until it is
\* taken, and the Transmitter goes on with the command it has begun.
Fairness ==
    /\ WF_vars(UIStep) /\ WF_vars(Endpoint)
    /\ WF_vars(TxData) /\ WF_vars(WaitSync) /\ WF_vars(Acknowledge)

FairSpec == Spec /\ Fairness
-----------------------------------------------------------------------------
(* Properties *)

NothingDropped == USB!NothingDropped

\* pconnection.c:351-372 lists the format of the commands; what the board
\* carries out is what was sent, byte for byte, in order, all of it, and each
\* acknowledgement follows a command carried out since the last one.  A command whose
\* end fills a packet may stay with the USB driver until a shorter packet has come
\* (bulk_usb.c:467).
Full(bytes) == Len(bytes) % PacketSize = 0

FillsPackets(cmd) == Full(IF cmd.data = <<>> THEN HeaderOf(cmd) ELSE cmd.data)
HasShort(cmd)     == ~Full(HeaderOf(cmd)) \/ ~FillsPackets(cmd)

Channel == INSTANCE CommandChannel
    WITH Commands <- Asked \cup Played, Acked <- LAMBDA cmd : cmd.letter \in Acknowledged,
         Held <- FillsPackets, Releases <- HasShort, owed <- ackPending

CarriedOutAsSent == Channel!Spec

\* Commands that are acknowledged in time and waited for: not those that stay with
\* the driver, nor an update of the presets, for whose acknowledgement nobody waits.
Prompt == \A j \in DOMAIN sent : ~FillsPackets(sent[j]) /\ sent[j].letter # "R"

\* USBBulkConnection.java:774 reports "Block uploaded": the block is then in the
\* memory of the board.  Not once a late acknowledgement is taken for that of the
\* block.
BlockUploaded == Prompt => \A i \in uploaded : i <= Len(carried) /\ carried[i] = sent[i]
=============================================================================
