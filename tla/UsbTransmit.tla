---------------------------- MODULE UsbTransmit ----------------------------
(***************************************************************************)
(* From threads of the board to the host: the output queue and the IN      *)
(* endpoint of midi_usb.c.  A thread puts the bytes of a MIDI event into   *)
(* the queue one by one and may be interrupted after each; it waits,       *)
(* without a time limit, when the queue is full.  A packet is started by   *)
(* whoever puts a byte that completes an event, or by the end of the       *)
(* packet before.                                                          *)
(***************************************************************************)
EXTENDS Integers, Sequences

CONSTANTS Writers,      \* the threads that send
          Items,        \* what they send, byte by byte
          QueueSize,    \* of the queue; a packet takes all of it
          MaxTroubles   \* bound: how often the bus is suspended or the device reset

\* What is assumed of them; MidiThru assumes it.
Parameters ==
    QueueSize \in Nat \ {0} /\ MaxTroubles \in Nat

VARIABLES
    usb,           \* the driver's state: "active", "suspended" or "reset"
    transmitting,  \* the bit of the endpoint in usbp->transmitting
    tx,            \* the transmit buffer, of in_state->txsize bytes
    oqueue,
    left,          \* what each writer has yet to put into the queue
    unseen,        \* history: what has been put into the queue since the device
                   \* was configured, up to what the host has received
    suspends, resets

tvars == <<usb, transmitting, tx, oqueue, left, unseen, suspends, resets>>

TypeOK ==
    /\ usb \in {"active", "suspended", "reset"}
    /\ transmitting \in BOOLEAN
    /\ tx \in Seq(Items) /\ oqueue \in Seq(Items) /\ Len(oqueue) <= QueueSize
    /\ left \in [Writers -> Seq(Items)]
    /\ unseen \in Seq(Items)
    /\ suspends \in Nat /\ resets \in Nat

Init ==
    /\ usb = "active" /\ transmitting = FALSE
    /\ tx = <<>> /\ oqueue = <<>>
    /\ left = [w \in Writers |-> <<>>]
    /\ unseen = <<>>
    /\ suspends = 0 /\ resets = 0

Writing(w) == left[w] # <<>>
-----------------------------------------------------------------------------
(* The threads *)

\* What onotify does with the queue q that a byte has been put into.
Onotify(q) ==
    IF usb = "active" /\ ~transmitting /\ Len(q) % 4 = 0
      THEN transmitting' = TRUE /\ tx' = q /\ oqueue' = <<>>
      ELSE oqueue' = q /\ UNCHANGED <<transmitting, tx>>

\* Mutant: without waiting for room.
PutByteOver(w) ==
    /\ Writing(w)
    /\ Onotify(Append(oqueue, Head(left[w])))
    /\ unseen' = Append(unseen, Head(left[w]))
    /\ left' = [left EXCEPT ![w] = Tail(@)]
    /\ UNCHANGED <<usb, suspends, resets>>

PutByte(w) ==
    /\ Writing(w) /\ Len(oqueue) < QueueSize
    /\ Onotify(Append(oqueue, Head(left[w])))
    /\ unseen' = Append(unseen, Head(left[w]))
    /\ left' = [left EXCEPT ![w] = Tail(@)]
    /\ UNCHANGED <<usb, suspends, resets>>
-----------------------------------------------------------------------------
(* The controller and its interrupt *)

\* Mutant: nothing more after a packet.
DataTransmittedOnce ==
    /\ usb = "active" /\ transmitting
    /\ unseen' = SubSeq(unseen, Len(tx) + 1, Len(unseen))
    /\ transmitting' = FALSE
    /\ UNCHANGED <<usb, tx, oqueue, left, suspends, resets>>

\* The host has taken the packet.  A full one is followed by what has been
\* queued meanwhile, whole events or not, or else by an empty one.
DataTransmitted ==
    /\ usb = "active" /\ transmitting
    /\ unseen' = SubSeq(unseen, Len(tx) + 1, Len(unseen))
    /\ IF oqueue # <<>> THEN tx' = oqueue /\ oqueue' = <<>> /\ UNCHANGED transmitting
       ELSE IF Len(tx) = QueueSize THEN tx' = <<>> /\ UNCHANGED <<transmitting, oqueue>>
       ELSE transmitting' = FALSE /\ UNCHANGED <<tx, oqueue>>
    /\ UNCHANGED <<usb, left, suspends, resets>>

Suspend ==
    /\ usb = "active" /\ suspends + resets < MaxTroubles
    /\ usb' = "suspended" /\ suspends' = suspends + 1
    /\ UNCHANGED <<transmitting, tx, oqueue, left, unseen, resets>>

Wakeup ==
    /\ usb = "suspended"
    /\ usb' = "active"
    /\ UNCHANGED <<transmitting, tx, oqueue, left, unseen, suspends, resets>>

Reset ==
    /\ suspends + resets < MaxTroubles
    /\ usb' = "reset" /\ resets' = resets + 1
    /\ transmitting' = FALSE
    /\ UNCHANGED <<tx, oqueue, left, unseen, suspends>>

\* Mutant: what was queued for the host before is sent to the new one.
ConfiguredKeep ==
    /\ usb = "reset"
    /\ usb' = "active"
    /\ unseen' = <<>>
    /\ UNCHANGED <<transmitting, tx, oqueue, left, suspends, resets>>

\* mduConfigureHookI empties the queue and wakes up who waits for room: the
\* write returns before its end.
Configured ==
    /\ usb = "reset"
    /\ usb' = "active"
    /\ oqueue' = <<>> /\ unseen' = <<>>
    /\ \E W \in SUBSET {w \in Writers : Writing(w) /\ Len(oqueue) = QueueSize} :
          left' = [w \in Writers |-> IF w \in W THEN <<>> ELSE left[w]]
    /\ UNCHANGED <<transmitting, tx, suspends, resets>>
-----------------------------------------------------------------------------
\* The queue, the buffer and the packets neither lose nor repeat nor reorder a
\* byte that was put into the queue, unless the device is reset.
Fifo == usb # "reset" => unseen = (IF transmitting THEN tx ELSE <<>>) \o oqueue

\* midi_usb.c:198: "if there is not an ongoing transaction and the output queue
\* contains data then a new transaction is started".  The code starts one for
\* whole events only; what waits without a transaction is less than an event.
TailIsShort ==
    usb = "active" /\ suspends = 0 /\ ~transmitting => Len(oqueue) < 4

\* As long as there is a host and the bus is not suspended, no thread waits for
\* ever.
WritesReturn ==
    []<>(usb = "active") /\ [](usb # "suspended")
        => \A w \in Writers : []<>~Writing(w)
=============================================================================
