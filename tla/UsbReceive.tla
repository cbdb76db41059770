----------------------------- MODULE UsbReceive -----------------------------
(***************************************************************************)
(* From a transfer of the host to a thread of the board: the OUT endpoint, *)
(* its callback and the input queue of bulk_usb.c and midi_usb.c.  The     *)
(* endpoint takes packets into a buffer until the packets asked for are    *)
(* there, or a short one; the callback then copies the buffer to the queue *)
(* and asks for as many packets as still fit.  When none fits, it is left  *)
(* to the thread that empties the queue to ask again (inotify).            *)
(***************************************************************************)
EXTENDS Integers, Sequences

CONSTANTS PacketSize,  \* out_maxsize of the endpoint
          QueueSize    \* of the queue and of the buffer

\* What is assumed of them; the modules that instantiate this one assume it.
Parameters ==
    PacketSize \in Nat \ {0} /\ QueueSize \in Nat /\ QueueSize >= PacketSize

VARIABLES
    active,     \* the driver of the device is in the state USB_ACTIVE
    sending,    \* a transfer of the host is under way
    wire,       \* what it has yet to send
    receiving,  \* the bit of the endpoint in usbp->receiving
    pktcnt,     \* the packets the endpoint may still take
    rx,         \* the receive buffer
    iqueue      \* the input queue

endpoint == <<sending, wire, receiving, pktcnt, rx, iqueue>>

TypeOK(Byte) ==
    /\ sending \in BOOLEAN /\ wire \in Seq(Byte)
    /\ receiving \in BOOLEAN /\ pktcnt \in Nat
    /\ rx \in Seq(Byte) /\ iqueue \in Seq(Byte)

\* The device has been configured, which starts the first transfer.
Init ==
    /\ sending = FALSE /\ wire = <<>>
    /\ receiving = TRUE /\ pktcnt = 1 /\ rx = <<>>
    /\ iqueue = <<>>

Room == QueueSize - Len(iqueue)

Pending == receiving /\ pktcnt = 0   \* the transfer is complete
-----------------------------------------------------------------------------
(* The host *)

\* A bulk transfer returns when the board has taken all of it; another one can
\* only follow.
Write(data) ==
    /\ ~sending
    /\ sending' = TRUE /\ wire' = data
    /\ UNCHANGED <<receiving, pktcnt, rx, iqueue>>

\* The controller of the host ends a transfer with its last byte: no empty
\* packet follows a full one.
Packet ==
    /\ active /\ sending /\ receiving /\ pktcnt > 0
    /\ LET n == IF Len(wire) < PacketSize THEN Len(wire) ELSE PacketSize
       IN  /\ rx' = rx \o SubSeq(wire, 1, n)
           /\ wire' = SubSeq(wire, n + 1, Len(wire))
           /\ sending' = (n < Len(wire))
           /\ pktcnt' = IF n < PacketSize THEN 0 ELSE pktcnt - 1
    /\ UNCHANGED <<receiving, iqueue>>
-----------------------------------------------------------------------------
(* The driver *)

StartReceive(n) ==
    /\ receiving' = TRUE
    /\ pktcnt' = (n + PacketSize - 1) \div PacketSize
    /\ rx' = <<>>

\* Mutant: ask for a packet more than fits.
DataReceivedOver ==
    /\ Pending
    /\ LET n == IF Len(rx) < Room THEN Len(rx) ELSE Room
       IN  /\ iqueue' = iqueue \o SubSeq(rx, 1, n)
           /\ StartReceive(Room - n + PacketSize)
    /\ UNCHANGED <<sending, wire>>

\* bduDataReceived: what does not fit is dropped.
DataReceived ==
    /\ Pending
    /\ LET n     == IF Len(rx) < Room THEN Len(rx) ELSE Room
           whole == ((Room - n) \div PacketSize) * PacketSize
       IN  /\ iqueue' = iqueue \o SubSeq(rx, 1, n)
           /\ IF whole # 0 THEN StartReceive(whole)
              ELSE receiving' = FALSE /\ UNCHANGED <<pktcnt, rx>>
    /\ UNCHANGED <<sending, wire>>

\* Mutant: nobody asks again.
InotifyNever == UNCHANGED <<receiving, pktcnt, rx>>

\* Called before each byte that is read, and before it is found that there is
\* none.
Inotify ==
    IF active /\ ~receiving /\ Room >= PacketSize
      THEN StartReceive((Room \div PacketSize) * PacketSize)
      ELSE UNCHANGED <<receiving, pktcnt, rx>>

ReadByte ==
    /\ iqueue # <<>>
    /\ Inotify
    /\ iqueue' = Tail(iqueue)
    /\ UNCHANGED <<sending, wire>>

ReadNothing ==
    /\ iqueue = <<>>
    /\ Inotify
    /\ UNCHANGED <<sending, wire, iqueue>>

\* A reset of the device ends the transfer of the host and that of the endpoint.
Reset ==
    /\ sending' = FALSE /\ wire' = <<>> /\ receiving' = FALSE
    /\ UNCHANGED <<pktcnt, rx, iqueue>>

\* bduConfigureHookI
Configured ==
    /\ iqueue' = <<>>
    /\ StartReceive(PacketSize)
    /\ UNCHANGED <<sending, wire>>
-----------------------------------------------------------------------------
\* bulk_usb.c:455 calls it "very bad" when more has been received than fits in
\* the queue; DataReceived would drop the rest.  The transfer asked for never
\* exceeds the room there is when it completes.
NothingDropped == receiving => Len(rx) + pktcnt * PacketSize <= Room
=============================================================================
