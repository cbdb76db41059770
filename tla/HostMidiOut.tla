----------------------------- MODULE HostMidiOut -----------------------------
(***************************************************************************)
(* MIDI to a device on the host port (usbh_midi_core.c): a thread puts     *)
(* messages into a ring buffer, and the thread of the USB host moves them  *)
(* to a transfer buffer and has the controller send that.  They share the  *)
(* two pointers of the ring and no lock.                                   *)
(***************************************************************************)
EXTENDS Integers, Sequences

CONSTANTS RingSize,     \* RING_BUFFER_SIZE
          PerTransfer,  \* how many events a transfer takes
          Messages,     \* what is sent, each a sequence of events
          Absent,       \* what a slot holds at first
          MaxErrors     \* bound: how many transfers fail

Events == UNION {{m[i] : i \in DOMAIN m} : m \in Messages}

ASSUME HostMidiAssumption ==
    /\ RingSize \in Nat /\ RingSize > 1
    /\ PerTransfer \in Nat \ {0}
    /\ \A m \in Messages : m \in Seq(Events) /\ m # <<>>
    /\ MaxErrors \in Nat

Slots == 0..RingSize - 1

VARIABLES
    event,            \* the slots of the ring
    read_ptr,         \* the slot that was read last
    write_ptr,        \* the slot that was written last; -1: there is no device
    senderPc,         \* the sender: "idle", "fill", "publish"
    msg, filled,      \* its message, and how much of it is in the ring
    next,             \* the slot it has filled last
    device,           \* "none", "enumerating", "midi" or "input", without an output
    state_out,        \* "init", "send", "poll", "retry"
    hostPc,           \* in USBH_MIDI_ProcessOutput: "wait", "next", "copy"
    buff_out,
    urb,              \* the state of the transfer
    signal,           \* an event of the host thread
    pending,          \* history: the events in the ring
    untaken,          \* history: the events out of the ring not yet at the device
    errors            \* how many transfers have failed

ring   == <<event, read_ptr, write_ptr>>
sender == <<senderPc, msg, filled, next>>
hvars  == <<ring, sender, device, state_out, hostPc, buff_out, urb, signal, pending,
            untaken, errors>>

HostTypeOK ==
    /\ event \in [Slots -> Events \cup {Absent}]
    /\ read_ptr \in Slots /\ write_ptr \in Slots \cup {-1}
    /\ senderPc \in {"idle", "fill", "publish"}
    /\ msg \in Messages \cup {<<>>} /\ filled \in 0..Len(msg)
    /\ next \in Slots
    /\ device \in {"none", "enumerating", "midi", "input"}
    /\ state_out \in {"init", "send", "poll", "retry"}
    /\ hostPc \in {"wait", "next", "copy"}
    /\ buff_out \in Seq(Events) /\ Len(buff_out) <= PerTransfer
    /\ urb \in {"idle", "done", "notready", "error"}
    /\ signal \in BOOLEAN
    /\ pending \in Seq(Events) /\ untaken \in Seq(Events)
    /\ errors \in 0..MaxErrors

\* usbh_midi_init
HostInit ==
    /\ event = [s \in Slots |-> Absent] /\ read_ptr = 0 /\ write_ptr = -1
    /\ senderPc = "idle" /\ msg = <<>> /\ filled = 0 /\ next = 0
    /\ device = "none" /\ state_out = "init" /\ hostPc = "wait"
    /\ buff_out = <<>> /\ urb = "idle" /\ signal = FALSE
    /\ pending = <<>> /\ untaken = <<>> /\ errors = 0

\* After a reset of the board; how many transfers have failed is a bound.
HostRestart ==
    /\ event' = [s \in Slots |-> Absent] /\ read_ptr' = 0 /\ write_ptr' = -1
    /\ senderPc' = "idle" /\ msg' = <<>> /\ filled' = 0 /\ next' = 0
    /\ device' = "none" /\ state_out' = "init" /\ hostPc' = "wait"
    /\ buff_out' = <<>> /\ urb' = "idle" /\ signal' = FALSE
    /\ pending' = <<>> /\ untaken' = <<>>
    /\ UNCHANGED errors

\* Mutant: the ring does not wrap around.
AfterUnwrapped(s) == s + 1

After(s) == (s + 1) % RingSize
-----------------------------------------------------------------------------
(* The sender: usbh_MidiSend1, 2 and 3 with one event, usbh_MidiSendSysEx *)

Send(m) ==
    /\ senderPc = "idle" /\ write_ptr # -1
    /\ senderPc' = "fill" /\ msg' = m /\ filled' = 0 /\ next' = write_ptr
    /\ UNCHANGED <<ring, device, state_out, hostPc, buff_out, urb, signal, pending,
                   untaken, errors>>

\* Mutant: the ring may hold as many events as it has slots.
FillOver ==
    /\ senderPc = "fill"
    /\ next' = After(next)
    /\ event' = [event EXCEPT ![next'] = msg[filled + 1]]
    /\ filled' = filled + 1
    /\ senderPc' = IF filled' = Len(msg) THEN "publish" ELSE "fill"
    /\ UNCHANGED <<msg, read_ptr, write_ptr, device, state_out, hostPc, buff_out, urb,
                   signal, pending, untaken, errors>>

\* When the ring is full, the whole message is given up.
Fill ==
    /\ senderPc = "fill"
    /\ IF After(next) = read_ptr
         THEN senderPc' = "idle" /\ UNCHANGED <<event, next, filled>>
         ELSE /\ next' = After(next)
              /\ event' = [event EXCEPT ![next'] = msg[filled + 1]]
              /\ filled' = filled + 1
              /\ senderPc' = IF filled' = Len(msg) THEN "publish" ELSE "fill"
    /\ UNCHANGED <<msg, read_ptr, write_ptr, device, state_out, hostPc, buff_out, urb,
                   signal, pending, untaken, errors>>

Publish ==
    /\ senderPc = "publish"
    /\ senderPc' = "idle"
    /\ write_ptr' = next
    /\ pending' = IF device = "midi" THEN pending \o msg ELSE pending
    /\ UNCHANGED <<event, read_ptr, msg, filled, next, device, state_out, hostPc,
                   buff_out, urb, signal, untaken, errors>>
-----------------------------------------------------------------------------
(* The device *)

\* USBH_MIDI_InterfaceInit: the ring is full until an output is found.  The
\* enumeration takes so long that a message begun before is out of the way.
Plug ==
    /\ device = "none" /\ senderPc = "idle"
    /\ device' = "enumerating"
    /\ read_ptr' = 0 /\ write_ptr' = RingSize - 1
    /\ UNCHANGED <<event, sender, state_out, hostPc, buff_out, urb, signal, pending,
                   untaken, errors>>

Found ==
    /\ device = "enumerating"
    /\ \/ device' = "midi" /\ read_ptr' = 0 /\ write_ptr' = 0
       \/ device' = "input" /\ UNCHANGED <<read_ptr, write_ptr>>
    /\ state_out' = "init" /\ urb' = "idle" /\ signal' = TRUE
    /\ UNCHANGED <<event, sender, hostPc, buff_out, pending, untaken, errors>>

\* USBH_MIDI_InterfaceDeInit, which the host thread calls.
Unplug ==
    /\ device \in {"midi", "input"} /\ hostPc = "wait"
    /\ device' = "none"
    /\ read_ptr' = 0 /\ write_ptr' = -1
    /\ pending' = <<>> /\ untaken' = <<>>
    /\ UNCHANGED <<event, sender, state_out, hostPc, buff_out, urb, signal, errors>>
-----------------------------------------------------------------------------
(* The thread of the host: USBH_MIDI_ProcessOutput *)

Submit(data) ==
    /\ buff_out' = data
    /\ urb' = "idle"
    /\ state_out' = "poll"

\* What is to be sent, if anything, goes into an empty buffer.
Start ==
    /\ state_out' = "send"
    /\ IF read_ptr # write_ptr
         THEN hostPc' = "next" /\ buff_out' = <<>>
         ELSE UNCHANGED <<hostPc, buff_out>>
    /\ UNCHANGED urb

\* Mutant: a transfer that is under way is taken for sent.
PollHasty ==
    CASE urb = "done"     -> Start /\ UNCHANGED untaken
      [] urb = "notready" -> Submit(buff_out) /\ UNCHANGED <<hostPc, untaken>>
      [] urb = "idle"     -> /\ state_out' = "send"
                             /\ UNCHANGED <<hostPc, buff_out, urb, untaken>>
      [] urb = "error"    -> /\ state_out' = "send" /\ untaken' = <<>>
                             /\ UNCHANGED <<hostPc, buff_out, urb>>

\* A failed transfer is given up.
Poll ==
    CASE urb = "done"     -> Start /\ UNCHANGED untaken
      [] urb = "notready" -> Submit(buff_out) /\ UNCHANGED <<hostPc, untaken>>
      [] urb = "idle"     -> /\ state_out' = "retry"
                             /\ UNCHANGED <<hostPc, buff_out, urb, untaken>>
      [] urb = "error"    -> /\ state_out' = "send" /\ untaken' = <<>>
                             /\ UNCHANGED <<hostPc, buff_out, urb>>

ProcessOutput ==
    /\ signal /\ device = "midi" /\ hostPc = "wait"
    /\ signal' = FALSE
    /\ \/ /\ state_out = "init" /\ state_out' = "send"
          /\ UNCHANGED <<hostPc, buff_out, urb, untaken>>
       \/ state_out = "poll" /\ Poll
       \/ state_out = "send" /\ Start /\ UNCHANGED untaken
       \/ state_out = "retry" /\ Submit(buff_out) /\ UNCHANGED <<hostPc, untaken>>
    /\ UNCHANGED <<ring, sender, device, pending, errors>>

\* The loop that empties the ring: the pointer is moved before the slot is read.
Advance ==
    /\ hostPc = "next"
    /\ IF read_ptr # write_ptr /\ Len(buff_out) < PerTransfer
         THEN /\ read_ptr' = After(read_ptr)
              /\ hostPc' = "copy"
              /\ untaken' = Append(untaken, Head(pending)) /\ pending' = Tail(pending)
              /\ UNCHANGED <<buff_out, urb, state_out>>
         ELSE /\ Submit(buff_out)
              /\ hostPc' = "wait"
              /\ UNCHANGED <<read_ptr, pending, untaken>>
    /\ UNCHANGED <<event, write_ptr, sender, device, signal, errors>>

Copy ==
    /\ hostPc = "copy"
    /\ buff_out' = Append(buff_out, event[read_ptr])
    /\ hostPc' = "next"
    /\ UNCHANGED <<ring, sender, device, state_out, urb, signal, pending, untaken, errors>>
-----------------------------------------------------------------------------
(* The controller *)

Completed ==
    /\ device = "midi" /\ urb = "idle" /\ hostPc = "wait"
    /\ state_out \in {"poll", "retry"}
    /\ signal' = TRUE
    /\ UNCHANGED <<ring, sender, device, state_out, hostPc, buff_out, pending>>

Taken == Completed /\ urb' = "done" /\ untaken' = <<>> /\ UNCHANGED errors

NotReady == Completed /\ urb' = "notready" /\ UNCHANGED <<untaken, errors>>

Failed ==
    /\ errors < MaxErrors
    /\ Completed /\ urb' = "error" /\ errors' = errors + 1 /\ UNCHANGED untaken

\* Mutant: data wait for something else to signal.
SOFOnlyRetry ==
    /\ device = "midi"
    /\ state_out = "retry"
    /\ signal' = TRUE
    /\ UNCHANGED <<ring, sender, device, state_out, hostPc, buff_out, urb, pending,
                   untaken, errors>>

\* Every millisecond
SOFProcess ==
    /\ device = "midi"
    /\ \/ state_out = "send" /\ read_ptr # write_ptr
       \/ state_out = "retry"
    /\ signal' = TRUE
    /\ UNCHANGED <<ring, sender, device, state_out, hostPc, buff_out, urb, pending,
                   untaken, errors>>

\* The input of the device signals the same thread.
OtherSignal ==
    /\ device = "midi" /\ ~signal
    /\ signal' = TRUE
    /\ UNCHANGED <<ring, sender, device, state_out, hostPc, buff_out, urb, pending,
                   untaken, errors>>
-----------------------------------------------------------------------------
\* What the slots hold from the one after read_ptr to write_ptr.
Content ==
    [i \in 1..(write_ptr - read_ptr) % RingSize |-> event[(read_ptr + i) % RingSize]]

\* The ring hands the messages on whole, unchanged and in order, although its
\* sender and its reader interleave anywhere and a slot is read after the
\* pointer has left it (usbh_midi_core.c:614).
RingInOrder ==
    device = "midi" =>
        /\ pending = Content
        /\ hostPc = "next" => untaken = buff_out
        /\ hostPc = "copy" => untaken = Append(buff_out, event[read_ptr])

\* No event is skipped: before the next buffer is filled, the device has taken
\* what was sent, unless the transfer has failed (usbh_midi_core.c:551).
NoneSkipped == device = "midi" /\ state_out = "send" /\ hostPc = "wait" => untaken = <<>>
=============================================================================
