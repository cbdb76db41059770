------------------------------ MODULE MidiThru ------------------------------
(***************************************************************************)
(* MIDI through the board: two threads take messages from an input, the    *)
(* serial one (ThreadMidi, SerialMidi) and the USB one (ThreadUSBDMidi,    *)
(* UsbReceive), and hand them to the running patch, which sends them on to *)
(* the host (UsbTransmit) in the thread that calls it.                     *)
(***************************************************************************)
EXTENDS SerialMidi

CONSTANTS QueueSize,               \* of the queues of midi_usb.c and of a packet
          SerialInputs,            \* what may arrive on the serial input
          HostEvents,              \* what the host may send
          HostTransfers,           \* and which of it in one transfer
          SentOn,                  \* the messages that the patch sends on
          MaxEvents,               \* bound: how much of what the host sends
          Early,                   \* bound: troubles come up to that many messages
          MaxTroubles              \* bound of UsbTransmit

ASSUME MidiThruAssumption ==
    /\ SerialInputs \subseteq Seq(Byte)
    /\ HostEvents \subseteq Byte \X Byte \X Byte \X Byte
    /\ HostTransfers \subseteq Seq(HostEvents) \ {<<>>}
    /\ MaxEvents \in Nat

Threads == {"midi", "usbdmidi"}

Items == Threads \X Byte   \* a byte, with the thread that sends it

VARIABLES
    line,     \* what has yet to arrive on the serial input
    parser,   \* the state of the serial parser
    heard,    \* history: the bytes ThreadMidi has read,
    told,     \* and the messages it has handed on
    events,   \* history: the events the host has sent
    r, count, \* the buffer of ThreadUSBDMidi, and how much of it is read
    woken,    \* its read has been ended by a new configuration
    played,   \* history: the messages ThreadUSBDMidi has handed on
    sending, wire, receiving, pktcnt, rx, iqueue,
    usb, transmitting, tx, oqueue, left, unseen, suspends, resets

In  == INSTANCE UsbReceive WITH PacketSize <- QueueSize, active <- usb = "active"
Out == INSTANCE UsbTransmit WITH Writers <- Threads

ASSUME QueueAssumption == In!Parameters /\ Out!Parameters

endpoint == <<sending, wire, receiving, pktcnt, rx, iqueue>>
output   == <<usb, transmitting, tx, oqueue, left, unseen, suspends, resets>>
serial   == <<line, parser, heard, told>>
usbdmidi == <<events, r, count, woken, played>>
vars     == <<serial, usbdmidi, endpoint, output>>

TypeOK ==
    /\ parser \in [byte0 : Byte, byte1 : Byte, cur : 0..1, num : Byte]
    /\ line \in Seq(Byte) /\ heard \o line \in SerialInputs
    /\ events \in Seq(HostEvents) /\ Len(events) <= MaxEvents
    /\ told \in Seq(Byte \X Byte \X Byte)
    /\ r \in Seq(Byte) /\ Len(r) = 4 /\ count \in 0..3 /\ woken \in BOOLEAN
    /\ played \in Seq(Byte \X Byte \X Byte)
    /\ In!TypeOK(Byte)
    /\ Out!TypeOK

Init ==
    /\ line \in SerialInputs /\ parser = ParserInit /\ heard = <<>> /\ told = <<>>
    /\ events = <<>> /\ r = <<0, 0, 0, 0>> /\ count = 0 /\ woken = FALSE /\ played = <<>>
    /\ In!Init /\ Out!Init

\* midi_usb_MidiSend*, for port 1: the first byte tells the kind of the event.
Event(m) == <<m[1] \div 16, m[1], m[2], m[3]>>

\* The handler of the patch sends a message on, or does not, in the thread that
\* calls it.
Sent(t, m) ==
    IF m \in SentOn THEN [left EXCEPT ![t] = [i \in 1..4 |-> <<t, Event(m)[i]>>]]
    ELSE left

Free(t) == left[t] = <<>>

EarlyOn == Len(told) + Len(played) <= Early
-----------------------------------------------------------------------------
(* ThreadMidi *)

\* Mutant: the parser starts again after each message.
SerialByteAnew ==
    /\ Free("midi") /\ line # <<>>
    /\ LET p == InByte(parser, Head(line))
       IN  /\ parser' = IF p.messages = <<>> THEN p.parser ELSE ParserInit
           /\ told' = told \o p.messages
           /\ left' = IF p.messages = <<>> THEN left ELSE Sent("midi", p.messages[1])
    /\ heard' = Append(heard, Head(line)) /\ line' = Tail(line)
    /\ UNCHANGED <<usbdmidi, endpoint, usb, transmitting, tx, oqueue, unseen,
                   suspends, resets>>

SerialByte ==
    /\ Free("midi") /\ line # <<>>
    /\ LET p == InByte(parser, Head(line))
       IN  /\ parser' = p.parser
           /\ told' = told \o p.messages
           /\ left' = IF p.messages = <<>> THEN left ELSE Sent("midi", p.messages[1])
    /\ heard' = Append(heard, Head(line)) /\ line' = Tail(line)
    /\ UNCHANGED <<usbdmidi, endpoint, usb, transmitting, tx, oqueue, unseen,
                   suspends, resets>>
-----------------------------------------------------------------------------
(* The host sends, and ThreadUSBDMidi reads four bytes at a time *)

Bytes(es) == [i \in 1..4 * Len(es) |-> es[((i - 1) \div 4) + 1][((i - 1) % 4) + 1]]

\* A transfer has as many events as the host has at hand: they share its packets.
HostSend ==
    /\ usb = "active"
    /\ \E es \in HostTransfers :
          /\ Len(events) + Len(es) <= MaxEvents
          /\ In!Write(Bytes(es)) /\ events' = events \o es
    /\ UNCHANGED <<serial, r, count, woken, played, output>>

\* Mutant: the fourth byte begins the next event.
ReadShort ==
    /\ Free("usbdmidi") /\ ~woken
    /\ In!ReadByte
    /\ r' = [r EXCEPT ![count + 1] = Head(iqueue)]
    /\ count' = (count + 1) % 3
    /\ IF count = 2
         THEN /\ played' = Append(played, Message(r'[2], r'[3], r'[4]))
              /\ left' = Sent("usbdmidi", Message(r'[2], r'[3], r'[4]))
         ELSE UNCHANGED <<played, left>>
    /\ UNCHANGED <<serial, events, woken, usb, transmitting, tx, oqueue, unseen, suspends,
                   resets>>

\* chnReadTimeout(&MDU1, r, 4, TIME_INFINITE), then MidiInMsgHandler.
ReadFour ==
    /\ Free("usbdmidi") /\ ~woken
    /\ In!ReadByte
    /\ r' = [r EXCEPT ![count + 1] = Head(iqueue)]
    /\ count' = (count + 1) % 4
    /\ IF count = 3
         THEN /\ played' = Append(played, Message(r'[2], r'[3], r'[4]))
              /\ left' = Sent("usbdmidi", Message(r'[2], r'[3], r'[4]))
         ELSE UNCHANGED <<played, left>>
    /\ UNCHANGED <<serial, events, woken, usb, transmitting, tx, oqueue, unseen, suspends,
                   resets>>

\* Before it waits for the queue to fill.
ReadWaits ==
    /\ Free("usbdmidi") /\ ~woken /\ ~receiving
    /\ In!ReadNothing
    /\ UNCHANGED <<serial, usbdmidi, output>>

\* The result of the read is not looked at.
ReadReset ==
    /\ woken
    /\ woken' = FALSE /\ count' = 0
    /\ played' = Append(played, Message(r[2], r[3], r[4]))
    /\ left' = Sent("usbdmidi", Message(r[2], r[3], r[4]))
    /\ UNCHANGED <<serial, events, r, endpoint, usb, transmitting, tx, oqueue, unseen,
                   suspends, resets>>
-----------------------------------------------------------------------------
(* The controller and its interrupts *)

Receive ==
    /\ In!Packet \/ In!DataReceived
    /\ UNCHANGED <<serial, usbdmidi, output>>

Transmit ==
    /\ \/ Out!DataTransmitted \/ Out!Wakeup
       \/ EarlyOn /\ Out!Suspend
       \/ \E t \in Threads : Out!PutByte(t)
    /\ UNCHANGED <<serial, usbdmidi, endpoint>>

Reset ==
    /\ EarlyOn
    /\ Out!Reset /\ In!Reset
    /\ UNCHANGED <<serial, usbdmidi>>

\* If ThreadUSBDMidi waits for a byte, its read returns without the rest.
Configured ==
    /\ In!Configured /\ Out!Configured
    /\ woken' \in {FALSE, Free("usbdmidi") /\ iqueue = <<>>}
    /\ UNCHANGED <<serial, events, r, count, played>>
-----------------------------------------------------------------------------
Next == SerialByte \/ HostSend \/ ReadFour \/ ReadWaits \/ ReadReset
        \/ Receive \/ Transmit \/ Reset \/ Configured

Spec == Init /\ [][Next]_vars

\* The threads, the interrupts and the host go on; whether the host resets,
\* suspends or resumes the bus, plays or configures is left open.
Fairness ==
    /\ \A t \in Threads : WF_vars(Out!PutByte(t) /\ UNCHANGED <<serial, usbdmidi, endpoint>>)
    /\ WF_vars(Out!DataTransmitted /\ UNCHANGED <<serial, usbdmidi, endpoint>>)
    /\ WF_vars(ReadFour \/ ReadWaits \/ ReadReset)
    /\ WF_vars(Receive)

FairSpec == Spec /\ Fairness
-----------------------------------------------------------------------------
(* Properties *)

Fifo == Out!Fifo

TailIsShort == Out!TailIsShort

WritesReturn == Out!WritesReturn

NothingDropped == In!NothingDropped

\* Whatever comes in between, ThreadMidi hands on (serial_midi.c:75) just the
\* messages that are in the bytes of the serial input, with running status and
\* with real-time messages within others.
SerialHeard == told = MessagesIn(heard)

\* ThreadUSBDMidi (pconnection.c:74) plays the events of the host once each and
\* in order, although they share packets and the queue, unless the device is
\* reset: then it repeats a message (pconnection.c:86).
PlayedOnce ==
    resets = 0 =>
        /\ Len(played) <= Len(events)
        /\ \A n \in DOMAIN played : played[n] = Tail(events[n])

\* As long as the bus stays in use, every event of the host is played, although
\* the endpoint stops when the queue is full (midi_usb.c:443).
EventsPlayed ==
    [](usb = "active") => <>[](Len(played) = Len(events))
=============================================================================
