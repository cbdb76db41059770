--------------------------- MODULE MidiThruProofs ---------------------------
(***************************************************************************)
(* Proofs about MidiThru: what the queues, packets and transfers do to the *)
(* bytes, for every size of the queues and whatever arrives.               *)
(***************************************************************************)
EXTENDS MidiThru, SequenceTheorems, FiniteSetTheorems, WellFoundedInduction, TLAPS

InP == INSTANCE UsbReceiveProofs WITH PacketSize <- QueueSize, active <- usb = "active"

(* The output *)

OutputInv ==
    /\ usb \in {"active", "suspended", "reset"} /\ transmitting \in BOOLEAN
    /\ tx \in Seq(Items) /\ oqueue \in Seq(Items) /\ unseen \in Seq(Items)
    /\ left \in [Threads -> Seq(Items)]
    /\ suspends \in Nat
    /\ usb = "reset" => ~transmitting
    /\ usb = "suspended" => suspends > 0
    /\ Fifo
    /\ TailIsShort

LEMMA TailOfConcat ==
    ASSUME NEW S, NEW s \in Seq(S), NEW t \in Seq(S)
    PROVE  SubSeq(s \o t, Len(s) + 1, Len(s \o t)) = t
<1> DEFINE u == s \o t
           v == SubSeq(u, Len(s) + 1, Len(u))
<1>1. /\ u \in Seq(S) /\ Len(u) = Len(s) + Len(t)
      /\ \A i \in 1..Len(s) + Len(t) : u[i] = IF i <= Len(s) THEN s[i] ELSE t[i - Len(s)]
  BY ConcatProperties
<1>2. Len(s) \in Nat /\ Len(t) \in Nat
  OBVIOUS
<1> HIDE DEF u
<1>3. v \in Seq(S) /\ Len(v) = Len(t)
  BY <1>1, <1>2
<1>4. \A i \in 1..Len(t) : v[i] = t[i]
  BY <1>1, <1>2, <1>3
<1> HIDE DEF v
<1>5. v = t
  BY <1>3, <1>4, SeqEqual
<1> QED
  BY <1>5 DEF v, u

LEMMA AppendToConcat ==
    ASSUME NEW s \in Seq(Items), NEW t \in Seq(Items), NEW e \in Items
    PROVE  Append(s \o t, e) = s \o Append(t, e)
<1>1. /\ s \o t \in Seq(Items) /\ Len(s \o t) = Len(s) + Len(t)
      /\ \A i \in 1..Len(s) + Len(t) :
            (s \o t)[i] = IF i <= Len(s) THEN s[i] ELSE t[i - Len(s)]
  BY ConcatProperties
<1>2. Append(t, e) \in Seq(Items) /\ Len(Append(t, e)) = Len(t) + 1
      /\ (\A i \in 1..Len(t) : Append(t, e)[i] = t[i]) /\ Append(t, e)[Len(t) + 1] = e
  BY AppendProperties
<1> DEFINE a == Append(s \o t, e)
           b == s \o Append(t, e)
<1>3. /\ b \in Seq(Items) /\ Len(b) = Len(s) + (Len(t) + 1)
      /\ \A i \in 1..Len(s) + (Len(t) + 1) :
            b[i] = IF i <= Len(s) THEN s[i] ELSE Append(t, e)[i - Len(s)]
  BY <1>2, ConcatProperties
<1>4. /\ a \in Seq(Items) /\ Len(a) = Len(s) + Len(t) + 1
      /\ \A i \in 1..Len(s) + Len(t) : a[i] = (s \o t)[i]
      /\ a[Len(s) + Len(t) + 1] = e
  BY <1>1, AppendProperties
<1>5. Len(s) \in Nat /\ Len(t) \in Nat
  OBVIOUS
<1> HIDE DEF a, b
<1>6. Len(a) = Len(b)
  BY <1>3, <1>4, <1>5
<1>7. \A i \in 1..Len(a) : a[i] = b[i]
  <2>1. TAKE i \in 1..Len(a)
  <2>2. CASE i = Len(s) + Len(t) + 1
    <3>1. b[i] = Append(t, e)[i - Len(s)] /\ i - Len(s) = Len(t) + 1
      BY <1>3, <1>5, <2>2
    <3> QED
      BY <1>2, <1>4, <2>2, <3>1
  <2>3. CASE i # Len(s) + Len(t) + 1 /\ i <= Len(s)
    <3>1. i \in 1..Len(s) + Len(t) /\ i \in 1..Len(s) + (Len(t) + 1)
      BY <1>5, <2>3
    <3>2. a[i] = s[i]
      BY <1>1, <1>4, <2>3, <3>1
    <3>3. b[i] = s[i]
      BY <1>3, <2>3, <3>1
    <3> QED
      BY <3>2, <3>3
  <2>4. CASE i # Len(s) + Len(t) + 1 /\ i > Len(s)
    <3>1. i - Len(s) \in 1..Len(t) /\ i \in 1..Len(s) + Len(t)
      BY <1>4, <1>5, <2>4
    <3>2. (s \o t)[i] = t[i - Len(s)] /\ a[i] = (s \o t)[i]
      BY <1>1, <1>4, <1>5, <2>4, <3>1
    <3>3. b[i] = Append(t, e)[i - Len(s)] /\ Append(t, e)[i - Len(s)] = t[i - Len(s)]
      BY <1>2, <1>3, <1>4, <1>5, <2>4, <3>1
    <3> QED
      BY <3>2, <3>3
  <2> QED
    BY <2>2, <2>3, <2>4, <1>4, <1>5
<1>8. a = b
  BY <1>3, <1>4, <1>6, <1>7, SeqEqual
<1> QED
  BY <1>8 DEF a, b

LEMMA PutByteKeeps ==
    ASSUME OutputInv, NEW t \in Threads, Out!PutByte(t)
    PROVE  OutputInv'
<1> DEFINE e == Head(left[t])
           q == Append(oqueue, e)
           sending_ == IF transmitting THEN tx ELSE <<>>
<1>1. /\ left[t] \in Seq(Items) /\ left[t] # <<>>
      /\ Out!Onotify(q) /\ unseen' = Append(unseen, e)
      /\ left' = [left EXCEPT ![t] = Tail(@)] /\ UNCHANGED <<usb, suspends, resets>>
  BY DEF OutputInv, Out!PutByte, Out!Writing
<1>2. e \in Items /\ Tail(left[t]) \in Seq(Items)
  BY <1>1, HeadTailProperties
<1>3. left' \in [Threads -> Seq(Items)]
  BY <1>1, <1>2 DEF OutputInv
<1> HIDE DEF e
<1>4. q \in Seq(Items) /\ Len(q) = Len(oqueue) + 1 /\ unseen' \in Seq(Items)
      /\ Len(oqueue) \in Nat
  BY <1>1, <1>2, AppendProperties DEF OutputInv
<1>5. sending_ \in Seq(Items) /\ <<>> \in Seq(Items)
  BY DEF OutputInv
<1>6. usb # "reset" => unseen' = sending_ \o q
  <2>1. usb # "reset" => unseen = sending_ \o oqueue
    BY DEF OutputInv, Fifo, Out!Fifo
  <2>2. Append(sending_ \o oqueue, e) = sending_ \o Append(oqueue, e)
    <3>1. oqueue \in Seq(Items)
      BY DEF OutputInv
    <3> HIDE DEF sending_
    <3> QED
      BY <1>2, <1>5, <3>1, AppendToConcat
  <2> QED
    BY <1>1, <2>1, <2>2
<1> HIDE DEF q, sending_
<1>7. CASE usb = "active" /\ ~transmitting /\ Len(q) % 4 = 0
  <2>1. transmitting' = TRUE /\ tx' = q /\ oqueue' = <<>>
    BY <1>1, <1>7 DEF Out!Onotify
  <2>2. <<>> \o q = q /\ q \o <<>> = q
    BY <1>4, ConcatEmptySeq
  <2>3. Fifo'
    BY <1>1, <1>6, <1>7, <2>1, <2>2 DEF Fifo, Out!Fifo, sending_
  <2> QED
    BY <1>1, <1>3, <1>4, <1>5, <1>7, <2>1, <2>3 DEF OutputInv, TailIsShort, Out!TailIsShort
<1>8. CASE ~(usb = "active" /\ ~transmitting /\ Len(q) % 4 = 0)
  <2>1. oqueue' = q /\ UNCHANGED <<transmitting, tx>>
    BY <1>1, <1>8 DEF Out!Onotify
  <2>2. Fifo'
    BY <1>1, <1>6, <2>1 DEF Fifo, Out!Fifo, sending_
  <2>3. TailIsShort'
    <3> SUFFICES ASSUME usb = "active", suspends = 0, ~transmitting PROVE Len(q) < 4
      BY <1>1, <2>1 DEF TailIsShort, Out!TailIsShort
    <3>1. Len(oqueue) < 4 /\ Len(q) % 4 # 0
      BY <1>8 DEF OutputInv, TailIsShort, Out!TailIsShort
    <3> QED
      BY <1>4, <3>1
  <2> QED
    BY <1>1, <1>3, <1>4, <2>1, <2>2, <2>3 DEF OutputInv
<1> QED
  BY <1>7, <1>8

LEMMA DataTransmittedKeeps ==
    ASSUME OutputInv, Out!DataTransmitted
    PROVE  OutputInv'
<1>1. /\ usb = "active" /\ transmitting
      /\ unseen' = SubSeq(unseen, Len(tx) + 1, Len(unseen))
      /\ UNCHANGED <<usb, left, suspends, resets>>
      /\ \/ /\ tx' = oqueue /\ oqueue' = <<>> /\ UNCHANGED transmitting
         \/ /\ oqueue = <<>> /\ tx' = <<>> /\ UNCHANGED <<transmitting, oqueue>>
         \/ /\ oqueue = <<>> /\ transmitting' = FALSE /\ UNCHANGED <<tx, oqueue>>
  BY DEF Out!DataTransmitted
<1>2. unseen' = oqueue
  <2>1. unseen = tx \o oqueue
    BY <1>1 DEF OutputInv, Fifo, Out!Fifo
  <2> QED
    BY <1>1, <2>1, TailOfConcat DEF OutputInv
<1>3. oqueue \in Seq(Items) /\ tx \in Seq(Items) /\ <<>> \in Seq(Items)
  BY DEF OutputInv
<1>4. oqueue \o <<>> = oqueue /\ <<>> \o oqueue = oqueue /\ <<>> \o <<>> = <<>>
  BY <1>3, ConcatEmptySeq
<1>5. Fifo'
  BY <1>1, <1>2, <1>4 DEF Fifo, Out!Fifo
<1>6. TailIsShort'
  <2>1. oqueue' = <<>>
    BY <1>1
  <2>2. Len(oqueue') = 0
    BY <2>1
  <2> QED
    BY <2>2 DEF TailIsShort, Out!TailIsShort
<1> QED
  BY <1>1, <1>2, <1>3, <1>5, <1>6 DEF OutputInv

LEMMA TroubleKeeps ==
    ASSUME OutputInv, Out!Suspend \/ Out!Wakeup \/ Out!Reset
    PROVE  OutputInv'
<1>1. CASE Out!Suspend
  BY <1>1 DEF OutputInv, Out!Suspend, Fifo, Out!Fifo, TailIsShort, Out!TailIsShort
<1>2. CASE Out!Wakeup
  BY <1>2 DEF OutputInv, Out!Wakeup, Fifo, Out!Fifo, TailIsShort, Out!TailIsShort
<1>3. CASE Out!Reset
  BY <1>3 DEF OutputInv, Out!Reset, Fifo, Out!Fifo, TailIsShort, Out!TailIsShort
<1> QED
  BY <1>1, <1>2, <1>3

LEMMA ConfiguredKeeps ==
    ASSUME OutputInv, Out!Configured
    PROVE  OutputInv'
<1>1. /\ usb = "reset" /\ usb' = "active" /\ ~transmitting
      /\ oqueue' = <<>> /\ unseen' = <<>> /\ UNCHANGED <<transmitting, tx, suspends, resets>>
  BY DEF OutputInv, Out!Configured
<1>2. <<>> \in Seq(Items) /\ Len(<<>>) = 0
  OBVIOUS
<1>3. left' \in [Threads -> Seq(Items)]
  BY <1>2 DEF OutputInv, Out!Configured
<1>4. <<>> \o <<>> = <<>>
  BY <1>2, ConcatEmptySeq
<1>5. Fifo' /\ TailIsShort'
  BY <1>1, <1>2, <1>4 DEF Fifo, Out!Fifo, TailIsShort, Out!TailIsShort
<1> QED
  BY <1>1, <1>2, <1>3, <1>5 DEF OutputInv

\* A message is given to a thread that has none to write.
LEMMA SentKeeps ==
    ASSUME OutputInv, NEW t \in Threads, NEW a \in Byte, NEW b \in Byte, NEW c \in Byte,
           left' = Sent(t, Message(a, b, c)),
           UNCHANGED <<usb, transmitting, tx, oqueue, unseen, suspends, resets>>
    PROVE  OutputInv'
<1>1. a \div 16 \in Byte
  BY DEF Byte
<1> DEFINE s == [i \in 1..4 |-> <<t, Event(Message(a, b, c))[i]>>]
<1>2. \A i \in 1..4 : Event(Message(a, b, c))[i] \in Byte
  BY <1>1 DEF Event, Message
<1>3. s \in Seq(Items)
  BY <1>2 DEF Items
<1> HIDE DEF s
<1>4. left' = left \/ left' = [left EXCEPT ![t] = s]
  BY DEF Sent, s
<1>5. left' \in [Threads -> Seq(Items)]
  BY <1>3, <1>4 DEF OutputInv
<1> QED
  BY <1>5 DEF OutputInv, Fifo, Out!Fifo, TailIsShort, Out!TailIsShort
-----------------------------------------------------------------------------
(* The input *)

\* What the parser keeps and the messages it hands on are bytes.
Parser == [byte0 : Byte, byte1 : Byte, cur : 0..1, num : Byte]

LEMMA InByteKeeps ==
    ASSUME NEW p \in Parser, NEW b \in Byte
    PROVE  /\ InByte(p, b).parser \in Parser
           /\ \/ InByte(p, b).messages = <<>>
              \/ \E a, c, d \in Byte : InByte(p, b).messages = <<Message(a, c, d)>>
<1>1. 0 \in Byte
  BY DEF Byte
<1>2. (StatusLength(b) - 1) % 256 \in Byte
  BY DEF StatusLength, Byte
<1>3. NewStatus(p, b) \in Parser
  <2> DEFINE n == (StatusLength(b) - 1) % 256
  <2>1. n \in Byte /\ 0 \in 0..1
    BY <1>2
  <2> HIDE DEF n
  <2>2. [p EXCEPT !.byte0 = b, !.num = n, !.cur = 0] \in Parser
    BY <2>1 DEF Parser
  <2> QED
    BY <2>2 DEF NewStatus, n
<1>4. /\ [p EXCEPT !.byte1 = b] \in Parser
      /\ [p EXCEPT !.cur = 0] \in Parser
      /\ [p EXCEPT !.byte1 = b, !.cur = 1] \in Parser
  <2>1. 0 \in 0..1 /\ 1 \in 0..1
    OBVIOUS
  <2>2. [p EXCEPT !.byte1 = b] \in Parser
    BY DEF Parser
  <2>3. [p EXCEPT !.cur = 0] \in Parser
    BY <2>1 DEF Parser
  <2>4. [p EXCEPT !.byte1 = b, !.cur = 1] \in Parser
    BY <2>1 DEF Parser
  <2> QED
    BY <2>2, <2>3, <2>4
<1>5. p.byte0 \in Byte /\ p.byte1 \in Byte
  BY DEF Parser
<1> QED
  BY <1>1, <1>3, <1>4, <1>5 DEF InByte, Parsed

InputInv ==
    /\ parser \in Parser /\ line \in Seq(Byte)
    /\ r \in [1..4 -> Byte] /\ count \in 0..3
    /\ InP!Received(Byte)

\* UsbReceive is used twice, as the model and with its proofs.
LEMMA ReceiveSteps ==
    /\ In!Parameters <=> InP!Parameters
    /\ In!Init <=> InP!Init
    /\ In!Packet <=> InP!Packet
    /\ In!DataReceived <=> InP!DataReceived
    /\ In!ReadByte <=> InP!ReadByte
    /\ In!ReadNothing <=> InP!ReadNothing
    /\ In!Reset <=> InP!Reset
    /\ In!Configured <=> InP!Configured
    /\ \A data : In!Write(data) <=> InP!Write(data)
    /\ In!NothingDropped <=> InP!NothingDropped
<1>1. In!Parameters <=> InP!Parameters
  BY DEF In!Parameters, InP!Parameters
<1>2. In!Init <=> InP!Init
  BY DEF In!Init, InP!Init
<1>3. In!Packet <=> InP!Packet
  BY DEF In!Packet, InP!Packet
<1>4. In!DataReceived <=> InP!DataReceived
  BY DEF In!DataReceived, InP!DataReceived, In!Pending, InP!Pending, In!Room, InP!Room,
         In!StartReceive, InP!StartReceive
<1>5. In!Inotify <=> InP!Inotify
  BY DEF In!Inotify, InP!Inotify, In!Room, InP!Room, In!StartReceive, InP!StartReceive
<1>6. In!ReadByte <=> InP!ReadByte
  BY <1>5 DEF In!ReadByte, InP!ReadByte
<1>7. In!ReadNothing <=> InP!ReadNothing
  BY <1>5 DEF In!ReadNothing, InP!ReadNothing
<1>8. In!Reset <=> InP!Reset
  BY DEF In!Reset, InP!Reset
<1>9. In!Configured <=> InP!Configured
  BY DEF In!Configured, InP!Configured, In!StartReceive, InP!StartReceive
<1>10. \A data : In!Write(data) <=> InP!Write(data)
  BY DEF In!Write, InP!Write
<1>11. In!NothingDropped <=> InP!NothingDropped
  BY DEF In!NothingDropped, InP!NothingDropped, In!Room, InP!Room
<1> QED
  BY <1>1, <1>2, <1>3, <1>4, <1>6, <1>7, <1>8, <1>9, <1>10, <1>11

MidiInv == OutputInv /\ InputInv

LEMMA MidiInit == Init => MidiInv
<1> SUFFICES ASSUME Init PROVE MidiInv
  OBVIOUS
<1>1. <<>> \in Seq(Items) /\ Len(<<>>) = 0
  OBVIOUS
<1>2. <<>> \o <<>> = <<>>
  BY <1>1, ConcatEmptySeq
<1>3. OutputInv
  <2>1. left \in [Threads -> Seq(Items)]
    BY <1>1 DEF Init, Out!Init
  <2>2. Fifo /\ TailIsShort
    BY <1>1, <1>2 DEF Init, Out!Init, Fifo, Out!Fifo, TailIsShort, Out!TailIsShort
  <2> QED
    BY <1>1, <2>1, <2>2 DEF Init, Out!Init, OutputInv
<1>4. InP!Received(Byte)
  BY QueueAssumption, ReceiveSteps, InP!InitReceived DEF Init
<1>5. 0 \in Byte
  BY DEF Byte
<1>6. parser \in Parser /\ line \in Seq(Byte) /\ r \in [1..4 -> Byte] /\ count \in 0..3
  BY <1>5, MidiThruAssumption DEF Init, ParserInit, Parser
<1> QED
  BY <1>3, <1>4, <1>6 DEF MidiInv, InputInv

LEMMA EndpointUnchanged ==
    ASSUME InP!Received(Byte), UNCHANGED endpoint
    PROVE  InP!Received(Byte)'
BY DEF endpoint, InP!Received, InP!TypeOK, InP!NothingDropped, InP!Room

LEMMA OutputUnchanged ==
    ASSUME OutputInv, UNCHANGED <<usb, transmitting, tx, oqueue, left, unseen, suspends>>
    PROVE  OutputInv'
BY DEF OutputInv, Fifo, Out!Fifo, TailIsShort, Out!TailIsShort

\* ThreadMidi takes a byte.
LEMMA SerialByteKeeps ==
    ASSUME MidiInv, SerialByte
    PROVE  MidiInv'
<1> DEFINE b == Head(line)
           m == InByte(parser, b).messages
<1>1. line \in Seq(Byte) /\ line # <<>> /\ parser \in Parser /\ OutputInv /\ "midi" \in Threads
  BY DEF MidiInv, InputInv, SerialByte, Threads
<1>2. b \in Byte /\ Tail(line) \in Seq(Byte)
  BY <1>1, HeadTailProperties
<1>3. /\ parser' = InByte(parser, b).parser /\ line' = Tail(line)
      /\ left' = IF m = <<>> THEN left ELSE Sent("midi", m[1])
      /\ UNCHANGED <<r, count, endpoint, usb, transmitting, tx, oqueue, unseen,
                     suspends, resets>>
  BY DEF SerialByte, usbdmidi
<1> HIDE DEF b
<1>4. /\ parser' \in Parser
      /\ m = <<>> \/ \E a, c, d \in Byte : m = <<Message(a, c, d)>>
  BY <1>1, <1>2, <1>3, InByteKeeps
<1> HIDE DEF m
<1>5. OutputInv'
  <2>1. CASE m = <<>>
    BY <1>1, <1>3, <2>1, OutputUnchanged
  <2>2. CASE m # <<>> /\ \E a, c, d \in Byte : m = <<Message(a, c, d)>>
    <3>1. PICK a, c, d \in Byte : m = <<Message(a, c, d)>>
      BY <2>2
    <3>2. left' = Sent("midi", Message(a, c, d))
      BY <1>3, <2>2, <3>1
    <3> QED
      BY <1>1, <1>3, <3>2, SentKeeps
  <2> QED
    BY <1>4, <2>1, <2>2
<1>6. InP!Received(Byte)'
  BY <1>3, EndpointUnchanged DEF MidiInv, InputInv
<1> QED
  BY <1>2, <1>3, <1>4, <1>5, <1>6 DEF MidiInv, InputInv

\* ThreadUSBDMidi takes a byte, or its read returns at once.
LEMMA ReadKeeps ==
    ASSUME MidiInv, ReadFour \/ ReadWaits \/ ReadReset
    PROVE  MidiInv'
<1>1. /\ OutputInv /\ parser \in Parser /\ line \in Seq(Byte)
      /\ r \in [1..4 -> Byte] /\ count \in 0..3
      /\ InP!Received(Byte) /\ "usbdmidi" \in Threads
  BY DEF MidiInv, InputInv, Threads
<1>2. UNCHANGED <<line, parser>>
  BY DEF ReadFour, ReadWaits, ReadReset, serial
<1>3. CASE ReadFour
  <2>1. InP!Received(Byte)'
    BY <1>1, <1>3, QueueAssumption, ReceiveSteps, InP!ReadKeeps DEF ReadFour
  <2>2. iqueue \in Seq(Byte) /\ iqueue # <<>>
    BY <1>1, <1>3 DEF ReadFour, In!ReadByte, InP!Received, InP!TypeOK
  <2>3. Head(iqueue) \in Byte
    BY <2>2, HeadTailProperties
  <2>4. r' = [r EXCEPT ![count + 1] = Head(iqueue)] /\ count' = (count + 1) % 4
        /\ UNCHANGED <<usb, transmitting, tx, oqueue, unseen, suspends, resets>>
        /\ left' = IF count = 3 THEN Sent("usbdmidi", Message(r'[2], r'[3], r'[4])) ELSE left
    BY <1>3 DEF ReadFour
  <2>5. r' \in [1..4 -> Byte] /\ count' \in 0..3
    BY <1>1, <2>3, <2>4
  <2>6. r'[2] \in Byte /\ r'[3] \in Byte /\ r'[4] \in Byte
    BY <2>5
  <2>7. OutputInv'
    <3>1. CASE count = 3
      <4>1. left' = Sent("usbdmidi", Message(r'[2], r'[3], r'[4]))
        BY <2>4, <3>1
      <4> QED
        BY <1>1, <2>4, <2>6, <4>1, SentKeeps
    <3>2. CASE count # 3
      BY <1>1, <2>4, <3>2, OutputUnchanged
    <3> QED
      BY <3>1, <3>2
  <2> QED
    BY <1>1, <1>2, <2>1, <2>5, <2>7 DEF MidiInv, InputInv
<1>4. CASE ReadWaits
  <2>1. InP!Received(Byte)'
    BY <1>1, <1>4, QueueAssumption, ReceiveSteps, InP!ReadKeeps DEF ReadWaits
  <2>2. OutputInv'
    BY <1>1, <1>4, OutputUnchanged DEF ReadWaits, output
  <2>3. UNCHANGED <<r, count>>
    BY <1>4 DEF ReadWaits, usbdmidi
  <2> QED
    BY <1>1, <1>2, <2>1, <2>2, <2>3 DEF MidiInv, InputInv
<1>5. CASE ReadReset
  <2>1. /\ count' = 0 /\ left' = Sent("usbdmidi", Message(r[2], r[3], r[4]))
        /\ UNCHANGED <<r, endpoint, usb, transmitting, tx, oqueue, unseen, suspends, resets>>
    BY <1>5 DEF ReadReset
  <2>2. r[2] \in Byte /\ r[3] \in Byte /\ r[4] \in Byte
    BY <1>1
  <2>3. OutputInv'
    BY <1>1, <2>1, <2>2, SentKeeps
  <2>4. InP!Received(Byte)'
    BY <1>1, <2>1, EndpointUnchanged
  <2> QED
    BY <1>1, <1>2, <2>1, <2>3, <2>4 DEF MidiInv, InputInv
<1> QED
  BY <1>3, <1>4, <1>5

\* A transfer has the bytes of its events, four of each.
LEMMA BytesOfEvents ==
    ASSUME NEW es \in Seq(HostEvents)
    PROVE  Bytes(es) \in Seq(Byte) /\ Len(Bytes(es)) = 4 * Len(es)
<1>1. 4 * Len(es) \in Nat
  OBVIOUS
<1>2. \A i \in 1..4 * Len(es) : es[((i - 1) \div 4) + 1][((i - 1) % 4) + 1] \in Byte
  <2> TAKE i \in 1..4 * Len(es)
  <2>1. ((i - 1) \div 4) + 1 \in 1..Len(es) /\ ((i - 1) % 4) + 1 \in 1..4
    OBVIOUS
  <2>2. PICK e \in HostEvents : e = es[((i - 1) \div 4) + 1]
    BY <2>1
  <2>3. \A j \in 1..4 : e[j] \in Byte
    BY MidiThruAssumption
  <2> QED
    BY <2>1, <2>2, <2>3
<1>3. Bytes(es) \in [1..4 * Len(es) -> Byte]
  BY <1>2 DEF Bytes
<1> QED
  BY <1>1, <1>3, SeqDef, LenProperties

\* The host, the controller and its interrupts.
LEMMA ControllerKeeps ==
    ASSUME MidiInv, HostSend \/ Receive \/ Transmit \/ Reset \/ Configured
    PROVE  MidiInv'
<1>1. OutputInv /\ InP!Received(Byte) /\ InP!Parameters
  BY QueueAssumption, ReceiveSteps DEF MidiInv, InputInv
<1>2. UNCHANGED <<line, parser, r, count>>
  BY DEF HostSend, Receive, Transmit, Reset, Configured, serial, usbdmidi
<1>3. CASE HostSend
  <2>1. PICK es \in HostTransfers : In!Write(Bytes(es))
    BY <1>3 DEF HostSend
  <2>2. Bytes(es) \in Seq(Byte)
    BY MidiThruAssumption, BytesOfEvents
  <2>3. InP!Received(Byte)'
    BY <1>1, <2>1, <2>2, ReceiveSteps, InP!HostKeeps
  <2>4. OutputInv'
    BY <1>1, <1>3, OutputUnchanged DEF HostSend, output
  <2> QED
    BY <1>2, <2>3, <2>4 DEF MidiInv, InputInv
<1>4. CASE Receive
  <2>1. InP!Received(Byte)'
    BY <1>1, <1>4, ReceiveSteps, InP!PacketKeeps, InP!DataReceivedKeeps DEF Receive
  <2>2. OutputInv'
    BY <1>1, <1>4, OutputUnchanged DEF Receive, output
  <2> QED
    BY <1>2, <2>1, <2>2 DEF MidiInv, InputInv
<1>5. CASE Transmit
  <2>1. OutputInv'
    BY <1>1, <1>5, DataTransmittedKeeps, TroubleKeeps, PutByteKeeps DEF Transmit
  <2>2. InP!Received(Byte)'
    BY <1>1, <1>5, EndpointUnchanged DEF Transmit
  <2> QED
    BY <1>2, <2>1, <2>2 DEF MidiInv, InputInv
<1>6. CASE Reset \/ Configured
  <2>0. (In!Reset /\ Out!Reset) \/ (In!Configured /\ Out!Configured)
    BY <1>6 DEF Reset, Configured
  <2>1. OutputInv'
    BY <1>1, <2>0, TroubleKeeps, ConfiguredKeeps
  <2>2. <<>> \in Seq(Byte)
    OBVIOUS
  <2>3. InP!Received(Byte)'
    BY <1>1, <2>0, <2>2, ReceiveSteps, InP!HostKeeps
  <2> QED
    BY <1>2, <2>1, <2>3 DEF MidiInv, InputInv
<1> QED
  BY <1>3, <1>4, <1>5, <1>6

LEMMA MidiStep == MidiInv /\ [Next]_vars => MidiInv'
<1> SUFFICES ASSUME MidiInv, [Next]_vars PROVE MidiInv'
  OBVIOUS
<1>1. CASE Next
  BY <1>1, SerialByteKeeps, ReadKeeps, ControllerKeeps DEF Next
<1>2. CASE UNCHANGED vars
  <2>1. OutputInv'
    BY <1>2, OutputUnchanged DEF vars, output, MidiInv
  <2>2. InP!Received(Byte)'
    BY <1>2, EndpointUnchanged DEF vars, MidiInv, InputInv
  <2> QED
    BY <1>2, <2>1, <2>2 DEF vars, serial, usbdmidi, MidiInv, InputInv
<1> QED
  BY <1>1, <1>2

\* What threads put into the output queue of midi_usb.c goes to the host in
\* that order, without loss or repetition, whoever starts the packets.
THEOREM BytesStayInOrder == Spec => []Fifo
<1>1. MidiInv => Fifo
  BY DEF MidiInv, OutputInv
<1> QED
  BY <1>1, MidiInit, MidiStep, PTL DEF Spec

\* Without a packet under way, less than an event waits in the output queue.
THEOREM EventsAreStarted == Spec => []TailIsShort
<1>1. MidiInv => TailIsShort
  BY DEF MidiInv, OutputInv
<1> QED
  BY <1>1, MidiInit, MidiStep, PTL DEF Spec

\* mduDataReceived never has more bytes than the input queue takes.
THEOREM TransfersFit == Spec => []NothingDropped
<1>1. MidiInv => NothingDropped
  BY ReceiveSteps DEF MidiInv, InputInv, InP!Received, NothingDropped
<1> QED
  BY <1>1, MidiInit, MidiStep, PTL DEF Spec
-----------------------------------------------------------------------------
(* The events of the host, byte by byte *)

\* Byte k of the events.
StreamByte(e, k) == e[((k - 1) \div 4) + 1][((k - 1) % 4) + 1]

\* The bytes of s follow the first n of the events.
Follows(s, n) == \A i \in 1..Len(s) : s[i] = StreamByte(events, n + i)

Read  == 4 * Len(played) + count
Taken == Read + Len(iqueue) + (IF receiving THEN Len(rx) ELSE 0)

\* The events go through the stages in order: the buffer of the thread, the
\* queue, the receive buffer and what the host has yet to send.
Stages ==
    /\ ~woken
    /\ ~sending => wire = <<>>
    /\ \A n \in 1..Len(played) : n <= Len(events) /\ played[n] = Tail(events[n])
    /\ \A i \in 1..count : r[i] = StreamByte(events, 4 * Len(played) + i)
    /\ Follows(iqueue, Read)
    /\ receiving => Follows(rx, Read + Len(iqueue))
    /\ Follows(wire, Taken)
    /\ Taken + Len(wire) = 4 * Len(events)

StreamInv ==
    /\ events \in Seq(HostEvents) /\ played \in Seq(Byte \X Byte \X Byte)
    /\ resets \in Nat
    /\ usb = "reset" => resets > 0
    /\ resets = 0 => Stages

LEMMA ByteOfEvent ==
    ASSUME NEW e, NEW n \in Nat, NEW i \in 1..4
    PROVE  StreamByte(e, 4 * n + i) = e[n + 1][i]
<1>1. (4 * n + i - 1) \div 4 = n /\ (4 * n + i - 1) % 4 = i - 1
  OBVIOUS
<1> QED
  BY <1>1 DEF StreamByte

\* What is sent later does not change the stream so far.
LEMMA StreamGrows ==
    ASSUME NEW s \in Seq(HostEvents), NEW es \in Seq(HostEvents), NEW k \in 1..4 * Len(s)
    PROVE  StreamByte(s \o es, k) = StreamByte(s, k)
<1>1. ((k - 1) \div 4) + 1 \in 1..Len(s)
  OBVIOUS
<1>2. \A n \in 1..Len(s) : (s \o es)[n] = s[n]
  BY ConcatProperties
<1> QED
  BY <1>1, <1>2 DEF StreamByte

\* And it goes on with the bytes of the transfer.
LEMMA StreamGoesOn ==
    ASSUME NEW s \in Seq(HostEvents), NEW es \in Seq(HostEvents), NEW i \in 1..4 * Len(es)
    PROVE  StreamByte(s \o es, 4 * Len(s) + i) = Bytes(es)[i]
<1> DEFINE k == (i - 1) \div 4
           j == ((i - 1) % 4) + 1
<1>1. k + 1 \in 1..Len(es) /\ k \in Nat
  OBVIOUS
<1>2. /\ (4 * Len(s) + i - 1) \div 4 = Len(s) + k
      /\ ((4 * Len(s) + i - 1) % 4) + 1 = j
  OBVIOUS
<1>3. Bytes(es)[i] = es[k + 1][j]
  BY DEF Bytes
<1> HIDE DEF k, j
<1>4. \A n \in 1..Len(es) : (s \o es)[Len(s) + n] = es[n]
  <2> TAKE n \in 1..Len(es)
  <2>1. /\ Len(s) + n \in 1..Len(s) + Len(es)
        /\ ~(Len(s) + n <= Len(s)) /\ Len(s) + n - Len(s) = n
    OBVIOUS
  <2> QED
    BY <2>1, ConcatProperties
<1>5. (s \o es)[Len(s) + k + 1] = es[k + 1]
  <2>1. Len(s) + k + 1 = Len(s) + (k + 1)
    BY <1>1
  <2> QED
    BY <1>1, <1>4, <2>1
<1> QED
  BY <1>2, <1>3, <1>5 DEF StreamByte

LEMMA FollowsConcat ==
    ASSUME NEW s \in Seq(Byte), NEW t \in Seq(Byte), NEW n \in Nat,
           Follows(s, n), Follows(t, n + Len(s))
    PROVE  Follows(s \o t, n)
<1>1. /\ s \o t \in Seq(Byte) /\ Len(s \o t) = Len(s) + Len(t)
      /\ \A i \in 1..Len(s) + Len(t) :
            (s \o t)[i] = IF i <= Len(s) THEN s[i] ELSE t[i - Len(s)]
  BY ConcatProperties
<1>2. Len(s) \in Nat /\ Len(t) \in Nat
  OBVIOUS
<1> SUFFICES ASSUME NEW i \in 1..Len(s) + Len(t)
             PROVE  (s \o t)[i] = StreamByte(events, n + i)
  BY <1>1 DEF Follows
<1>3. CASE i <= Len(s)
  BY <1>1, <1>2, <1>3 DEF Follows
<1>4. CASE i > Len(s)
  <2>1. i - Len(s) \in 1..Len(t) /\ n + Len(s) + (i - Len(s)) = n + i
    BY <1>2, <1>4
  <2>2. t[i - Len(s)] = StreamByte(events, n + Len(s) + (i - Len(s)))
    BY <2>1 DEF Follows
  <2> QED
    BY <1>1, <1>2, <1>4, <2>1, <2>2
<1> QED
  BY <1>2, <1>3, <1>4

LEMMA FollowsSplit ==
    ASSUME NEW s \in Seq(Byte), NEW k \in 0..Len(s), NEW n \in Nat, Follows(s, n)
    PROVE  /\ Follows(SubSeq(s, 1, k), n)
           /\ Follows(SubSeq(s, k + 1, Len(s)), n + k)
<1>1. Follows(SubSeq(s, 1, k), n)
  <2>1. Len(SubSeq(s, 1, k)) = k /\ \A i \in 1..k : SubSeq(s, 1, k)[i] = s[i]
    OBVIOUS
  <2> QED
    BY <2>1 DEF Follows
<1>2. Follows(SubSeq(s, k + 1, Len(s)), n + k)
  <2> DEFINE t == SubSeq(s, k + 1, Len(s))
  <2>1. Len(t) = Len(s) - k /\ \A i \in 1..Len(s) - k : t[i] = s[k + i]
    OBVIOUS
  <2> HIDE DEF t
  <2> SUFFICES ASSUME NEW i \in 1..Len(s) - k PROVE t[i] = StreamByte(events, n + k + i)
    BY <2>1 DEF Follows, t
  <2>2. k + i \in 1..Len(s) /\ n + (k + i) = n + k + i
    OBVIOUS
  <2>3. s[k + i] = StreamByte(events, n + (k + i))
    BY <2>2 DEF Follows
  <2> QED
    BY <2>1, <2>2, <2>3
<1> QED
  BY <1>1, <1>2

LEMMA StagesUnchanged ==
    ASSUME Stages, UNCHANGED <<events, r, count, woken, played, sending, wire, receiving, rx,
                               iqueue>>
    PROVE  Stages'
BY DEF Stages, Follows, Read, Taken

StageTypes ==
    /\ wire \in Seq(Byte) /\ rx \in Seq(Byte) /\ iqueue \in Seq(Byte)
    /\ receiving \in BOOLEAN /\ sending \in BOOLEAN
    /\ events \in Seq(HostEvents) /\ played \in Seq(Byte \X Byte \X Byte)
    /\ r \in [1..4 -> Byte] /\ count \in 0..3
    /\ Read \in Nat /\ Len(events) \in Nat /\ Len(played) \in Nat
    /\ Len(wire) \in Nat /\ Len(rx) \in Nat /\ Len(iqueue) \in Nat

LEMMA TypesOfStages ==
    ASSUME MidiInv, StreamInv
    PROVE  StageTypes
BY DEF MidiInv, InputInv, InP!Received, InP!TypeOK, StreamInv, StageTypes, Read

\* HostSend appends events to the stream and puts their bytes on the wire.
LEMMA HostSendStages ==
    ASSUME StageTypes, Stages, HostSend
    PROVE  Stages'
<1>1. PICK es \in HostTransfers : In!Write(Bytes(es)) /\ events' = events \o es
  BY DEF HostSend
<1>2. /\ ~sending /\ wire' = Bytes(es) /\ sending' = TRUE
      /\ UNCHANGED <<receiving, rx, iqueue, r, count, woken, played>>
  BY <1>1 DEF In!Write, HostSend
<1>3. /\ es \in Seq(HostEvents) /\ Len(es) \in Nat
      /\ Bytes(es) \in Seq(Byte) /\ Len(Bytes(es)) = 4 * Len(es)
  BY MidiThruAssumption, BytesOfEvents
<1>4. wire = <<>> /\ Len(wire) = 0
  BY <1>2 DEF Stages
<1>5. /\ Len(events') = Len(events) + Len(es)
      /\ \A n \in 1..Len(events) : events'[n] = events[n]
  BY <1>1, <1>3, ConcatProperties DEF StageTypes
<1>6. \A k \in 1..4 * Len(events) : StreamByte(events', k) = StreamByte(events, k)
  BY <1>1, <1>3, StreamGrows DEF StageTypes
<1>7. \A n \in 1..Len(played) : n <= Len(events') /\ played[n] = Tail(events'[n])
  <2> TAKE n \in 1..Len(played)
  <2>1. n \in 1..Len(events) /\ played[n] = Tail(events[n])
    BY DEF Stages, StageTypes
  <2>2. Len(events) \in Nat /\ n <= Len(events) + Len(es)
    BY <1>3, <2>1 DEF StageTypes
  <2> QED
    BY <1>5, <2>1, <2>2
<1>8. /\ Read' = Read /\ Taken' = Taken /\ Taken = 4 * Len(events)
      /\ Read = 4 * Len(played) + count
      /\ Read + Len(iqueue) <= Taken
      /\ receiving => Taken = Read + Len(iqueue) + Len(rx)
  <2>1. Read' = Read /\ Taken' = Taken
    BY <1>2 DEF Read, Taken
  <2>2. Taken + Len(wire) = 4 * Len(events)
    BY DEF Stages
  <2>3. /\ Read \in Nat /\ Len(iqueue) \in Nat /\ Len(rx) \in Nat
        /\ Len(events) \in Nat /\ receiving \in BOOLEAN
    BY DEF StageTypes
  <2>4. Taken \in Nat /\ Read + Len(iqueue) <= Taken
    <3>1. CASE receiving
      BY <2>3, <3>1 DEF Taken
    <3>2. CASE ~receiving
      BY <2>3, <3>2 DEF Taken
    <3> QED
      BY <3>1, <3>2
  <2>5. receiving => Taken = Read + Len(iqueue) + Len(rx)
    BY DEF Taken
  <2>6. Taken = 4 * Len(events)
    BY <1>4, <2>2, <2>3, <2>4
  <2> QED
    BY <2>1, <2>4, <2>5, <2>6 DEF Read
<1>9. \A i \in 1..count : r[i] = StreamByte(events', 4 * Len(played) + i)
  <2> TAKE i \in 1..count
  <2>1. 4 * Len(played) + i \in 1..4 * Len(events)
    BY <1>8 DEF StageTypes
  <2> QED
    BY <1>6, <2>1 DEF Stages
<1>10. \A i \in 1..Len(iqueue) : iqueue[i] = StreamByte(events', Read + i)
  <2> TAKE i \in 1..Len(iqueue)
  <2>1. Read + i \in 1..4 * Len(events)
    BY <1>8 DEF StageTypes
  <2> QED
    BY <1>6, <2>1 DEF Stages, Follows
<1>11. receiving => \A i \in 1..Len(rx) : rx[i] = StreamByte(events', Read + Len(iqueue) + i)
  <2> SUFFICES ASSUME receiving, NEW i \in 1..Len(rx)
               PROVE  rx[i] = StreamByte(events', Read + Len(iqueue) + i)
    OBVIOUS
  <2>1. Read + Len(iqueue) + i \in 1..4 * Len(events)
    BY <1>8 DEF StageTypes
  <2> QED
    BY <1>6, <2>1 DEF Stages, Follows
<1>12. \A i \in 1..Len(wire') : wire'[i] = StreamByte(events', 4 * Len(events) + i)
  BY <1>1, <1>2, <1>3, StreamGoesOn DEF StageTypes
<1>13. Taken' + Len(wire') = 4 * Len(events')
  BY <1>2, <1>3, <1>5, <1>8 DEF StageTypes
<1> QED
  BY <1>2, <1>4, <1>7, <1>8, <1>9, <1>10, <1>11, <1>12, <1>13 DEF Stages, Follows

\* A packet takes bytes from the wire to the receive buffer.
LEMMA PacketStages ==
    ASSUME StageTypes, Stages, In!Packet, UNCHANGED <<events, r, count, woken, played>>,
           QueueSize \in Nat
    PROVE  Stages'
<1> DEFINE n == IF Len(wire) < QueueSize THEN Len(wire) ELSE QueueSize
<1>1. /\ receiving /\ rx' = rx \o SubSeq(wire, 1, n)
      /\ wire' = SubSeq(wire, n + 1, Len(wire)) /\ sending' = (n < Len(wire))
      /\ UNCHANGED <<receiving, iqueue>>
  BY DEF In!Packet
<1>2. n \in 0..Len(wire)
  BY DEF StageTypes
<1> HIDE DEF n
<1>3. /\ SubSeq(wire, 1, n) \in Seq(Byte) /\ Len(SubSeq(wire, 1, n)) = n
      /\ Len(wire') = Len(wire) - n /\ wire' \in Seq(Byte)
  BY <1>1, <1>2 DEF StageTypes
<1>4. Len(rx') = Len(rx) + n
  BY <1>1, <1>3, ConcatProperties DEF StageTypes
<1>5. Taken \in Nat /\ Taken = Read + Len(iqueue) + Len(rx) /\ Follows(wire, Taken)
  BY <1>1 DEF Taken, Stages, StageTypes
<1>6. Follows(SubSeq(wire, 1, n), Taken) /\ Follows(SubSeq(wire, n + 1, Len(wire)), Taken + n)
  BY <1>2, <1>5, FollowsSplit DEF StageTypes
<1>7. Follows(rx \o SubSeq(wire, 1, n), Read + Len(iqueue))
  <2>1. Read + Len(iqueue) \in Nat /\ Follows(rx, Read + Len(iqueue))
    BY <1>1 DEF Stages, StageTypes
  <2>2. Follows(SubSeq(wire, 1, n), Read + Len(iqueue) + Len(rx))
    BY <1>5, <1>6
  <2> QED
    BY <1>3, <2>1, <2>2, FollowsConcat DEF StageTypes
<1>8. Read' = Read /\ Taken' = Taken + n
  <2>1. Read' = Read
    BY DEF Read
  <2>2. Taken' = Read + Len(iqueue) + Len(rx')
    BY <1>1, <2>1 DEF Taken
  <2>3. n \in Nat /\ Read \in Nat /\ Len(iqueue) \in Nat /\ Len(rx) \in Nat
    BY <1>2 DEF StageTypes
  <2> QED
    BY <1>4, <1>5, <2>1, <2>2, <2>3
<1>9. ~sending' => wire' = <<>>
  <2> SUFFICES ASSUME ~sending' PROVE wire' = <<>>
    OBVIOUS
  <2>1. Len(wire) \in Nat /\ ~(n < Len(wire))
    BY <1>1 DEF StageTypes
  <2>2. Len(wire') = 0
    BY <1>2, <1>3, <2>1
  <2> QED
    BY <1>3, <2>2, EmptySeq
<1>10. Taken' + Len(wire') = 4 * Len(events')
  <2>1. Taken + Len(wire) = 4 * Len(events) /\ Len(events') = Len(events)
    BY DEF Stages
  <2>2. Len(wire) \in Nat /\ Len(events) \in Nat
    BY DEF StageTypes
  <2> QED
    BY <1>2, <1>3, <1>5, <1>8, <2>1, <2>2
<1>11. Follows(rx, Read + Len(iqueue))' /\ Follows(wire, Taken)' /\ Follows(iqueue, Read)'
  BY <1>1, <1>6, <1>7, <1>8 DEF Follows, Stages
<1> QED
  BY <1>1, <1>8, <1>9, <1>10, <1>11 DEF Stages

\* The callback of the endpoint moves the receive buffer to the queue.
LEMMA DataReceivedStages ==
    ASSUME StageTypes, Stages, InP!Parameters, InP!Received(Byte), In!DataReceived,
           UNCHANGED <<events, r, count, woken, played>>
    PROVE  Stages'
<1>1. receiving /\ UNCHANGED <<sending, wire>>
  BY DEF In!DataReceived, In!Pending
<1>2. iqueue' = iqueue \o rx /\ (receiving' => rx' = <<>>) /\ receiving' \in BOOLEAN
  BY ReceiveSteps, InP!DataReceivedKeeps DEF InP!Received, InP!TypeOK
<1>3. Len(iqueue') = Len(iqueue) + Len(rx)
  BY <1>2, ConcatProperties DEF StageTypes
<1>4. Read' = Read /\ Taken = Read + Len(iqueue) + Len(rx)
  BY <1>1 DEF Read, Taken
<1>5. Len(rx) \in Nat /\ Len(iqueue) \in Nat /\ Read \in Nat
  BY DEF StageTypes
<1>6. Taken' = Taken
  <2>1. Taken' = Read + Len(iqueue') + (IF receiving' THEN Len(rx') ELSE 0)
    BY <1>4 DEF Taken
  <2>2. (IF receiving' THEN Len(rx') ELSE 0) = 0
    BY <1>2
  <2>3. Taken' = Read + Len(iqueue') + 0
    BY <2>1, <2>2
  <2> QED
    BY <1>3, <1>4, <1>5, <2>3
<1>7. Follows(iqueue \o rx, Read)
  BY <1>1, FollowsConcat DEF Stages, StageTypes
<1>8. receiving' => Len(rx') = 0
  BY <1>2
<1>9. Follows(iqueue, Read)' /\ (receiving' => Follows(rx, Read + Len(iqueue))')
  BY <1>2, <1>4, <1>7, <1>8 DEF Follows
<1>10. Follows(wire, Taken)' /\ (Taken + Len(wire) = 4 * Len(events))'
  BY <1>1, <1>6 DEF Follows, Stages
<1> QED
  BY <1>1, <1>4, <1>9, <1>10 DEF Stages

\* inotify starts with an empty receive buffer.
LEMMA InotifyStages ==
    ASSUME StageTypes, InP!Parameters, InP!Received(Byte), In!ReadByte \/ In!ReadNothing
    PROVE  /\ (IF receiving' THEN Len(rx') ELSE 0) = (IF receiving THEN Len(rx) ELSE 0)
           /\ (IF receiving THEN Len(rx) ELSE 0) \in Nat
           /\ receiving' => (receiving /\ rx' = rx) \/ rx' = <<>>
           /\ UNCHANGED <<sending, wire>>
<1>1. UNCHANGED <<receiving, rx>> \/ (~receiving /\ rx' = <<>>)
  <2>1. InP!Inotify
    BY ReceiveSteps DEF InP!ReadByte, InP!ReadNothing
  <2> QED
    BY <2>1, InP!InotifyKeeps
<1>2. receiving \in BOOLEAN /\ receiving' \in BOOLEAN /\ Len(rx) \in Nat
  <2>1. InP!Received(Byte)'
    BY ReceiveSteps, InP!ReadKeeps
  <2> QED
    BY <2>1 DEF InP!Received, InP!TypeOK, StageTypes
<1>3. UNCHANGED <<sending, wire>>
  BY DEF In!ReadByte, In!ReadNothing
<1>4. CASE UNCHANGED <<receiving, rx>>
  BY <1>2, <1>3, <1>4
<1>5. CASE ~receiving /\ rx' = <<>>
  <2>1. Len(rx') = 0
    BY <1>5
  <2> QED
    BY <1>2, <1>3, <1>5, <2>1
<1> QED
  BY <1>1, <1>4, <1>5

\* ThreadUSBDMidi takes the first byte of the queue, and plays every fourth.
LEMMA ReadFourStages ==
    ASSUME StageTypes, Stages, InP!Parameters, InP!Received(Byte), ReadFour
    PROVE  Stages'
<1>1. /\ In!ReadByte /\ iqueue # <<>> /\ iqueue' = Tail(iqueue)
      /\ r' = [r EXCEPT ![count + 1] = Head(iqueue)]
      /\ count' = (count + 1) % 4
      /\ IF count = 3 THEN played' = Append(played, Message(r'[2], r'[3], r'[4]))
                      ELSE UNCHANGED played
      /\ UNCHANGED <<events, woken>>
  BY DEF ReadFour, In!ReadByte
<1>2. /\ Len(iqueue) > 0 /\ Len(iqueue') = Len(iqueue) - 1
      /\ Head(iqueue) = iqueue[1] /\ Head(iqueue) \in Byte
      /\ \A i \in 1..Len(iqueue) - 1 : iqueue'[i] = iqueue[i + 1]
  BY <1>1, HeadTailProperties DEF StageTypes
<1>3. /\ count \in 0..3 /\ Len(played) \in Nat /\ Len(iqueue) \in Nat
      /\ Len(events) \in Nat /\ Len(wire) \in Nat /\ Read = 4 * Len(played) + count
  BY DEF StageTypes, Read
<1>4. r \in [1..4 -> Byte] /\ r' \in [1..4 -> Byte] /\ r'[count + 1] = iqueue[1]
      /\ \A i \in 1..count : r'[i] = r[i]
  BY <1>1, <1>2 DEF StageTypes
<1>5. iqueue[1] = StreamByte(events, 4 * Len(played) + (count + 1))
  <2>1. iqueue[1] = StreamByte(events, Read + 1)
    BY <1>2, <1>3 DEF Stages, Follows
  <2>2. Read + 1 = 4 * Len(played) + (count + 1)
    BY <1>3
  <2> QED
    BY <2>1, <2>2
<1>6. \A i \in 1..count + 1 : r'[i] = StreamByte(events, 4 * Len(played) + i)
  <2> TAKE i \in 1..count + 1
  <2>1. CASE i = count + 1
    BY <1>4, <1>5, <2>1
  <2>2. CASE i # count + 1
    <3>1. i \in 1..count
      BY <1>3, <2>2
    <3> QED
      BY <1>4, <3>1 DEF Stages
  <2> QED
    BY <2>1, <2>2
<1>7. /\ Read' = Read + 1
      /\ \A i \in 1..count' : r'[i] = StreamByte(events, 4 * Len(played') + i)
      /\ \A n \in 1..Len(played') : n <= Len(events) /\ played'[n] = Tail(events[n])
  <2>1. CASE count # 3
    <3>1. count' = count + 1 /\ played' = played
      BY <1>1, <1>3, <2>1
    <3>2. Read' = 4 * Len(played) + (count + 1)
      BY <3>1 DEF Read
    <3> QED
      BY <1>3, <1>6, <3>1, <3>2 DEF Stages
  <2>2. CASE count = 3
    <3> DEFINE m == Message(r'[2], r'[3], r'[4])
               k == Len(played) + 1
    <3>1. count' = 0 /\ played' = Append(played, m)
      BY <1>1, <2>2
    <3>2. m \in Byte \X Byte \X Byte
      BY <1>4 DEF Message
    <3>3. Len(played') = k /\ played'[k] = m /\ \A n \in 1..Len(played) : played'[n] = played[n]
      BY <3>1, <3>2, AppendProperties DEF StageTypes
    <3>4. Read' = Read + 1
      BY <1>3, <2>2, <3>1, <3>3 DEF Read
    <3>5. k <= Len(events)
      <4>1. Taken + Len(wire) = 4 * Len(events)
        BY DEF Stages
      <4>2. Taken \in Nat /\ Taken >= Read + 1
        <5>1. (IF receiving THEN Len(rx) ELSE 0) \in Nat
          BY <1>1, InotifyStages
        <5> DEFINE x == IF receiving THEN Len(rx) ELSE 0
        <5> HIDE DEF x
        <5>2. Taken = Read + Len(iqueue) + x /\ x \in Nat /\ Read \in Nat
          BY <5>1 DEF Taken, x, StageTypes
        <5> QED
          BY <1>2, <1>3, <5>2
      <4> QED
        BY <1>3, <2>2, <4>1, <4>2
    <3>6. m = Tail(events[k])
      <4>1. PICK a, b, c, d \in Byte : events[k] = <<a, b, c, d>>
        <5>1. events[k] \in HostEvents
          BY <1>3, <3>5, ElementOfSeq DEF StageTypes
        <5> QED
          BY <5>1, MidiThruAssumption
      <4>2. \A i \in 1..4 : r'[i] = events[k][i]
        BY <1>3, <1>6, <2>2, ByteOfEvent
      <4>3. r'[2] = b /\ r'[3] = c /\ r'[4] = d
        BY <4>1, <4>2
      <4>4. Tail(events[k]) = <<b, c, d>>
        BY <4>1
      <4> QED
        BY <4>3, <4>4 DEF Message
    <3>7. \A n \in 1..k : n <= Len(events) /\ played'[n] = Tail(events[n])
      <4> TAKE n \in 1..k
      <4>1. CASE n = k
        BY <3>3, <3>5, <3>6, <4>1
      <4>2. CASE n # k
        <5>1. n \in 1..Len(played)
          BY <1>3, <4>2
        <5> QED
          BY <3>3, <5>1 DEF Stages
      <4> QED
        BY <4>1, <4>2
    <3> HIDE DEF m
    <3> QED
      BY <3>1, <3>3, <3>4, <3>7
  <2> QED
    BY <2>1, <2>2
<1>8. Follows(iqueue, Read)'
  <2> SUFFICES ASSUME NEW i \in 1..Len(iqueue) - 1
               PROVE  iqueue'[i] = StreamByte(events, Read' + i)
    BY <1>1, <1>2 DEF Follows
  <2>1. i + 1 \in 1..Len(iqueue) /\ Read' + i = Read + (i + 1)
    BY <1>3, <1>7
  <2>2. iqueue[i + 1] = StreamByte(events, Read + (i + 1))
    BY <2>1 DEF Stages, Follows
  <2> QED
    BY <1>2, <2>1, <2>2
<1>9. Read' + Len(iqueue') = Read + Len(iqueue)
  BY <1>2, <1>3, <1>7
<1>10. UNCHANGED <<sending, wire>> /\ Taken' = Taken
  BY <1>1, <1>9, InotifyStages DEF Taken
<1>11. receiving' => Follows(rx, Read + Len(iqueue))'
  <2>1. receiving' => (receiving /\ rx' = rx) \/ Len(rx') = 0
    BY <1>1, InotifyStages
  <2> QED
    BY <1>1, <1>9, <2>1 DEF Stages, Follows
<1>12. Follows(wire, Taken)' /\ (Taken + Len(wire) = 4 * Len(events))'
  BY <1>1, <1>10 DEF Stages, Follows
<1> QED
  BY <1>1, <1>7, <1>8, <1>10, <1>11, <1>12 DEF Stages

LEMMA ReadWaitsStages ==
    ASSUME StageTypes, Stages, InP!Parameters, InP!Received(Byte), ReadWaits
    PROVE  Stages'
<1>1. In!ReadNothing /\ UNCHANGED <<events, r, count, woken, played>> /\ UNCHANGED iqueue
  BY DEF ReadWaits, usbdmidi, In!ReadNothing
<1>2. Read' = Read /\ Taken' = Taken
  BY <1>1, InotifyStages DEF Read, Taken
<1>3. receiving' => (receiving /\ rx' = rx) \/ Len(rx') = 0
  BY <1>1, InotifyStages
<1>4. UNCHANGED <<sending, wire>>
  BY <1>1, InotifyStages
<1> QED
  BY <1>1, <1>2, <1>3, <1>4 DEF Stages, Follows

LEMMA StreamInit == Init => StreamInv
<1> SUFFICES ASSUME Init PROVE StreamInv
  OBVIOUS
<1>1. /\ events = <<>> /\ played = <<>> /\ resets = 0 /\ usb = "active" /\ count = 0
      /\ woken = FALSE /\ wire = <<>> /\ rx = <<>> /\ iqueue = <<>> /\ receiving = TRUE
  BY DEF Init, In!Init, Out!Init
<1>2. /\ <<>> \in Seq(HostEvents) /\ <<>> \in Seq(Byte \X Byte \X Byte) /\ Len(<<>>) = 0
  OBVIOUS
<1>3. Taken = 0
  BY <1>1, <1>2 DEF Taken, Read
<1>4. Stages
  BY <1>1, <1>2, <1>3 DEF Stages, Follows
<1> QED
  BY <1>1, <1>2, <1>4 DEF StreamInv

LEMMA StreamStep ==
    ASSUME MidiInv, StreamInv, [Next]_vars
    PROVE  StreamInv'
<1>1. StageTypes /\ InP!Parameters /\ InP!Received(Byte) /\ QueueSize \in Nat
  BY QueueAssumption, ReceiveSteps, TypesOfStages DEF MidiInv, InputInv, InP!Parameters
<1>2. /\ events \in Seq(HostEvents) /\ played \in Seq(Byte \X Byte \X Byte)
      /\ resets \in Nat /\ (usb = "reset" => resets > 0) /\ (resets = 0 => Stages)
  BY DEF StreamInv
<1>3. CASE SerialByte \/ Transmit \/ UNCHANGED vars
  <2>1. UNCHANGED <<events, r, count, woken, played, sending, wire, receiving, rx, iqueue>>
    BY <1>3 DEF SerialByte, Transmit, usbdmidi, endpoint, vars
  <2>2. resets' = resets /\ (usb' = "reset" => usb = "reset")
    BY <1>3 DEF SerialByte, Transmit, vars, output, Out!DataTransmitted, Out!Wakeup,
                Out!Suspend, Out!PutByte
  <2>3. resets = 0 => Stages'
    BY <1>2, <2>1, StagesUnchanged
  <2> QED
    BY <1>2, <2>1, <2>2, <2>3 DEF StreamInv
<1>4. CASE HostSend
  <2>1. UNCHANGED <<played, resets, usb>>
        /\ \E es \in HostTransfers : events' = events \o es
    BY <1>4 DEF HostSend, output
  <2>3. events' \in Seq(HostEvents)
    BY <1>2, <2>1, MidiThruAssumption, ConcatProperties
  <2>2. resets = 0 => Stages'
    BY <1>1, <1>2, <1>4, HostSendStages
  <2> QED
    BY <1>2, <2>1, <2>2, <2>3 DEF StreamInv
<1>5. CASE Receive
  <2>1. /\ UNCHANGED <<events, r, count, woken, played, resets, usb>>
        /\ In!Packet \/ In!DataReceived
    BY <1>5 DEF Receive, usbdmidi, output
  <2>2. resets = 0 => Stages'
    BY <1>1, <1>2, <2>1, PacketStages, DataReceivedStages
  <2> QED
    BY <1>2, <2>1, <2>2 DEF StreamInv
<1>6. CASE ReadFour \/ ReadWaits \/ ReadReset
  <2>1. UNCHANGED <<events, resets, usb>>
    BY <1>6 DEF ReadFour, ReadWaits, ReadReset, usbdmidi, output
  <2>2. played' \in Seq(Byte \X Byte \X Byte)
    <3>1. MidiInv'
      BY <1>6, ReadKeeps
    <3>2. r' \in [1..4 -> Byte] /\ (ReadReset => r' = r)
      BY <3>1 DEF MidiInv, InputInv, ReadReset
    <3>3. Message(r'[2], r'[3], r'[4]) \in Byte \X Byte \X Byte
      BY <3>2 DEF Message
    <3>4. UNCHANGED played \/ played' = Append(played, Message(r'[2], r'[3], r'[4]))
      BY <1>6, <3>2 DEF ReadFour, ReadWaits, ReadReset, usbdmidi
    <3> DEFINE m == Message(r'[2], r'[3], r'[4])
    <3>5. m \in Byte \X Byte \X Byte /\ (UNCHANGED played \/ played' = Append(played, m))
      BY <3>3, <3>4
    <3> HIDE DEF m
    <3> QED
      BY <1>2, <3>5, AppendProperties
  <2>3. resets = 0 => Stages'
    <3>1. resets = 0 => ~ReadReset
      BY <1>2 DEF Stages, ReadReset
    <3> QED
      BY <1>1, <1>2, <1>6, <3>1, ReadFourStages, ReadWaitsStages
  <2> QED
    BY <1>2, <2>1, <2>2, <2>3 DEF StreamInv
<1>7. CASE Reset \/ Configured
  <2>1. /\ UNCHANGED <<events, played>>
        /\ resets' = resets + 1 \/ (usb = "reset" /\ resets' = resets)
    BY <1>7 DEF Reset, Configured, Out!Reset, Out!Configured, usbdmidi
  <2>2. resets' \in Nat /\ resets' > 0
    BY <1>2, <2>1
  <2> QED
    BY <1>2, <2>1, <2>2 DEF StreamInv
<1> QED
  BY <1>3, <1>4, <1>5, <1>6, <1>7 DEF Next

\* Unless the device is reset, ThreadUSBDMidi plays the events of the host once
\* each and in order.
THEOREM EventsPlayedOnce == Spec => []PlayedOnce
<1>1. StreamInv => PlayedOnce
  <2> SUFFICES ASSUME StreamInv, resets = 0 PROVE PlayedOnce
    BY DEF PlayedOnce
  <2>1. \A n \in 1..Len(played) : n <= Len(events) /\ played[n] = Tail(events[n])
    BY DEF StreamInv, Stages
  <2>2. Len(played) \in Nat /\ Len(events) \in Nat /\ DOMAIN played = 1..Len(played)
    BY DEF StreamInv
  <2>3. Len(played) <= Len(events)
    BY <2>1, <2>2
  <2> QED
    BY <2>1, <2>2, <2>3 DEF PlayedOnce
<1>2. MidiInv /\ StreamInv /\ [Next]_vars => MidiInv' /\ StreamInv'
  BY MidiStep, StreamStep
<1> QED
  BY <1>1, <1>2, MidiInit, StreamInit, PTL DEF Spec
-----------------------------------------------------------------------------
(* Types: what the invariants above leave *)

TypeRest ==
    /\ heard \in Seq(Byte) /\ heard \o line \in SerialInputs
    /\ Len(events) <= MaxEvents
    /\ told \in Seq(Byte \X Byte \X Byte)
    /\ woken \in BOOLEAN
    /\ Len(oqueue) <= QueueSize

LEMMA MoveHead ==
    ASSUME NEW s \in Seq(Byte), NEW t \in Seq(Byte), t # <<>>
    PROVE  Append(s, Head(t)) \o Tail(t) = s \o t
<1> DEFINE b == Head(t)
           u == Append(s, b)
           v == Tail(t)
<1>1. /\ b \in Byte /\ b = t[1] /\ v \in Seq(Byte) /\ Len(v) = Len(t) - 1
      /\ \A i \in 1..Len(v) : v[i] = t[i + 1]
  BY HeadTailProperties
<1>2. Len(s) \in Nat /\ Len(t) \in Nat /\ Len(t) > 0 /\ Len(v) \in Nat
  BY <1>1
<1> HIDE DEF b, v
<1>3. /\ u \in Seq(Byte) /\ Len(u) = Len(s) + 1 /\ u[Len(s) + 1] = b
      /\ \A i \in 1..Len(s) : u[i] = s[i]
  BY <1>1, AppendProperties
<1> HIDE DEF u
<1>4. /\ u \o v \in Seq(Byte) /\ Len(u \o v) = Len(u) + Len(v)
      /\ \A i \in 1..Len(u) + Len(v) : (u \o v)[i] = IF i <= Len(u) THEN u[i] ELSE v[i - Len(u)]
  BY <1>1, <1>3, ConcatProperties
<1>5. /\ s \o t \in Seq(Byte) /\ Len(s \o t) = Len(s) + Len(t)
      /\ \A i \in 1..Len(s) + Len(t) : (s \o t)[i] = IF i <= Len(s) THEN s[i] ELSE t[i - Len(s)]
  BY ConcatProperties
<1> DEFINE x == u \o v
           y == s \o t
           n == Len(s) + Len(t)
<1> HIDE DEF x, y
<1>6. x \in Seq(Byte) /\ y \in Seq(Byte) /\ Len(x) = n /\ Len(y) = n
  BY <1>1, <1>2, <1>3, <1>4, <1>5 DEF x, y
<1>7. \A i \in 1..n : x[i] = y[i]
  <2> TAKE i \in 1..n
  <2>1. i \in 1..Len(u) + Len(v)
    BY <1>1, <1>2, <1>3
  <2>2. CASE i <= Len(s)
    <3>1. i \in 1..Len(s) /\ i <= Len(u)
      BY <1>2, <1>3, <2>2
    <3> QED
      BY <1>3, <1>4, <1>5, <2>1, <2>2, <3>1 DEF x, y
  <2>3. CASE i = Len(s) + 1
    <3>1. i <= Len(u) /\ ~(i <= Len(s)) /\ i - Len(s) = 1
      BY <1>2, <1>3, <2>3
    <3>2. x[i] = u[i] /\ y[i] = t[i - Len(s)]
      BY <1>4, <1>5, <2>1, <3>1 DEF x, y
    <3> QED
      BY <1>1, <1>3, <2>3, <3>1, <3>2
  <2>4. CASE i > Len(s) + 1
    <3>1. /\ ~(i <= Len(u)) /\ ~(i <= Len(s)) /\ i - Len(u) \in 1..Len(v)
          /\ i - Len(u) + 1 = i - Len(s)
      BY <1>1, <1>2, <1>3, <2>4
    <3>2. x[i] = v[i - Len(u)] /\ y[i] = t[i - Len(s)]
      BY <1>4, <1>5, <2>1, <3>1 DEF x, y
    <3>3. v[i - Len(u)] = t[i - Len(u) + 1]
      BY <1>1, <3>1
    <3> QED
      BY <3>1, <3>2, <3>3
  <2> QED
    BY <1>2, <2>2, <2>3, <2>4
<1>8. x = y
  BY <1>6, <1>7, SeqEqual
<1> QED
  BY <1>8 DEF x, y, u, v, b

LEMMA TypeRestInit == Init => TypeRest
<1> SUFFICES ASSUME Init PROVE TypeRest
  OBVIOUS
<1>1. /\ <<>> \in Seq(Byte) /\ <<>> \in Seq(Byte \X Byte \X Byte) /\ Len(<<>>) = 0
  OBVIOUS
<1>2. line \in SerialInputs /\ line \in Seq(Byte)
  BY MidiThruAssumption DEF Init
<1>3. <<>> \o line = line
  BY <1>2, ConcatEmptySeq
<1>4. QueueSize \in Nat /\ MaxEvents \in Nat
  BY MidiThruAssumption, QueueAssumption DEF Out!Parameters
<1>5. /\ heard = <<>> /\ told = <<>> /\ events = <<>> /\ oqueue = <<>>
      /\ heard \o line = <<>> \o line
  BY DEF Init, Out!Init
<1>6. woken \in BOOLEAN
  BY Zenon DEF Init
<1>7. Len(events) <= MaxEvents /\ Len(oqueue) <= QueueSize
  BY <1>1, <1>4, <1>5
<1>8. heard \o line \in SerialInputs
  BY <1>2, <1>3, <1>5, Zenon
<1> QED
  BY <1>1, <1>5, <1>6, <1>7, <1>8 DEF TypeRest

LEMMA TypeRestStep == MidiInv /\ StreamInv /\ TypeRest /\ [Next]_vars => TypeRest'
<1> SUFFICES ASSUME MidiInv, StreamInv, TypeRest, [Next]_vars PROVE TypeRest'
  OBVIOUS
<1>0. /\ QueueSize \in Nat /\ MaxEvents \in Nat /\ line \in Seq(Byte) /\ parser \in Parser
      /\ oqueue \in Seq(Items) /\ events \in Seq(HostEvents) /\ Len(oqueue) \in Nat
      /\ left \in [Threads -> Seq(Items)]
  BY MidiThruAssumption, QueueAssumption
  DEF Out!Parameters, MidiInv, InputInv, OutputInv, StreamInv
<1>1. CASE SerialByte
  <2> DEFINE b == Head(line)
             m == InByte(parser, b).messages
  <2>1. /\ line # <<>> /\ heard' = Append(heard, b) /\ line' = Tail(line) /\ told' = told \o m
        /\ UNCHANGED <<events, woken, oqueue>>
    BY <1>1 DEF SerialByte, usbdmidi
  <2>2. heard' \o line' = heard \o line
    BY <1>0, <2>1, MoveHead DEF TypeRest
  <2>3. b \in Byte
    BY <1>0, <2>1, HeadTailProperties
  <2> HIDE DEF b
  <2>4. m = <<>> \/ \E a, c, d \in Byte : m = <<Message(a, c, d)>>
    BY <1>0, <2>3, InByteKeeps
  <2> HIDE DEF m
  <2>5. m \in Seq(Byte \X Byte \X Byte)
    <3>1. CASE m = <<>>
      BY <3>1
    <3>2. CASE \E a, c, d \in Byte : m = <<Message(a, c, d)>>
      <4>1. PICK a, c, d \in Byte : m = <<Message(a, c, d)>>
        BY <3>2
      <4>2. Message(a, c, d) \in Byte \X Byte \X Byte
        BY DEF Message
      <4> QED
        BY <4>1, <4>2
    <3> QED
      BY <2>4, <3>1, <3>2
  <2>6. told' \in Seq(Byte \X Byte \X Byte)
    BY <2>1, <2>5, ConcatProperties DEF TypeRest
  <2>7. heard' \in Seq(Byte)
    BY <2>1, <2>3, AppendProperties DEF TypeRest
  <2> QED
    BY <2>1, <2>2, <2>6, <2>7 DEF TypeRest
<1>2. CASE HostSend
  <2>1. /\ UNCHANGED <<heard, line, told, woken, oqueue>>
        /\ \E es \in HostTransfers : Len(events) + Len(es) <= MaxEvents /\ events' = events \o es
    BY <1>2 DEF HostSend, serial, output
  <2>2. Len(events') <= MaxEvents
    BY <1>0, <2>1, MidiThruAssumption, ConcatProperties
  <2> QED
    BY <1>0, <2>1, <2>2 DEF TypeRest
<1>3. CASE ReadFour \/ ReadWaits \/ ReadReset \/ Receive \/ UNCHANGED vars
  <2>1. UNCHANGED <<heard, line, told, events, oqueue>> /\ woken' \in {FALSE, woken}
    BY <1>3 DEF ReadFour, ReadWaits, ReadReset, Receive, vars, serial, usbdmidi, output
  <2>2. woken' \in BOOLEAN
    BY <2>1 DEF TypeRest
  <2> QED
    BY <2>1, <2>2 DEF TypeRest
<1>4. CASE Transmit
  <2>1. UNCHANGED <<heard, line, told, events, woken>>
    BY <1>4 DEF Transmit, serial, usbdmidi
  <2>2. Len(oqueue') <= QueueSize
    <3>1. CASE Out!DataTransmitted \/ Out!Wakeup \/ Out!Suspend
      <4>1. oqueue' = oqueue \/ oqueue' = <<>>
        BY <3>1 DEF Out!DataTransmitted, Out!Wakeup, Out!Suspend
      <4>2. Len(<<>>) = 0
        OBVIOUS
      <4> QED
        BY <1>0, <4>1, <4>2 DEF TypeRest
    <3>2. CASE \E t \in Threads : Out!PutByte(t)
      <4>1. PICK t \in Threads : Out!PutByte(t)
        BY <3>2
      <4> DEFINE e == Head(left[t])
      <4>2. Len(oqueue) < QueueSize /\ (oqueue' = <<>> \/ oqueue' = Append(oqueue, e))
        BY <4>1 DEF Out!PutByte, Out!Onotify
      <4>3. e \in Items
        BY <1>0, <4>1, HeadTailProperties DEF Out!PutByte, Out!Writing
      <4> HIDE DEF e
      <4>4. Len(Append(oqueue, e)) = Len(oqueue) + 1 /\ Len(<<>>) = 0
        BY <1>0, <4>3, AppendProperties
      <4> QED
        BY <1>0, <4>2, <4>4
    <3> QED
      BY <1>4, <3>1, <3>2 DEF Transmit
  <2> QED
    BY <2>1, <2>2 DEF TypeRest
<1>5. CASE Reset \/ Configured
  <2>1. /\ UNCHANGED <<heard, line, told, events>> /\ (oqueue' = oqueue \/ oqueue' = <<>>)
        /\ woken' \in {FALSE, woken, Free("usbdmidi") /\ iqueue = <<>>}
    BY <1>5 DEF Reset, Configured, Out!Reset, Out!Configured, serial, usbdmidi
  <2>2. woken' \in BOOLEAN
    <3>1. (Free("usbdmidi") /\ iqueue = <<>>) \in BOOLEAN
      BY Zenon DEF Free
    <3> QED
      BY <2>1, <3>1, Zenon DEF TypeRest
  <2>3. Len(<<>>) = 0
    OBVIOUS
  <2> QED
    BY <1>0, <2>1, <2>2, <2>3 DEF TypeRest
<1> QED
  BY <1>1, <1>2, <1>3, <1>4, <1>5 DEF Next

\* Every variable keeps its type: in particular a thread that puts a byte never
\* overfills the output queue, and nothing is lost between the serial line and
\* the parser.
THEOREM TypeCorrect == Spec => []TypeOK
<1>1. MidiInv /\ StreamInv /\ TypeRest => TypeOK
  <2> SUFFICES ASSUME MidiInv, StreamInv, TypeRest PROVE TypeOK
    OBVIOUS
  <2>1. In!TypeOK(Byte)
    BY DEF MidiInv, InputInv, InP!Received, InP!TypeOK, In!TypeOK
  <2>2. Out!TypeOK
    BY DEF MidiInv, OutputInv, StreamInv, TypeRest, Out!TypeOK
  <2>3. r \in Seq(Byte) /\ Len(r) = 4
    <3>1. r \in [1..4 -> Byte] /\ 4 \in Nat
      BY DEF MidiInv, InputInv
    <3>2. r \in Seq(Byte)
      BY <3>1, SeqDef
    <3> QED
      BY <3>1, <3>2, LenProperties
  <2> QED
    BY <2>1, <2>2, <2>3 DEF MidiInv, InputInv, StreamInv, TypeRest, TypeOK, Parser
<1>2. MidiInv /\ StreamInv /\ TypeRest /\ [Next]_vars => MidiInv' /\ StreamInv' /\ TypeRest'
  BY MidiStep, StreamStep, TypeRestStep
<1> QED
  BY <1>1, <1>2, MidiInit, StreamInit, TypeRestInit, PTL DEF Spec
-----------------------------------------------------------------------------
(* The serial parser.  MessagesIn adds up what ends with each byte, and the *)
(* parser needs to know of the bytes so far the last status byte, whether   *)
(* it has an odd number of data, and the last of these.  Each byte takes    *)
(* the one to what ends with it and the other to what it knows next.        *)

\* A set of numbers that is not empty has a least, and a bounded one a greatest.
LEMMA Least ==
    ASSUME NEW T, T \subseteq Nat, T # {}
    PROVE  \E n \in T : \A m \in T : n <= m
<1> DEFINE R == OpToRel(<, Nat)
<1>1. IsWellFoundedOn(R, Nat)
  BY NatLessThanWellFounded
<1>2. \A m, n \in Nat : <<m, n>> \in R <=> m < n
  BY DEF OpToRel
<1> HIDE DEF R
<1>3. \E n \in T : \A m \in T : ~ (<<m, n>> \in R)
  BY <1>1, WFMin
<1>4. PICK n \in T : \A m \in T : ~ (<<m, n>> \in R)
  BY <1>3
<1>5. ASSUME NEW m \in T PROVE n <= m
  <2>1. m \in Nat /\ n \in Nat /\ <<m, n>> \notin R
    BY <1>4
  <2>2. ~(m < n)
    BY <1>2, <2>1
  <2> QED
    BY <2>1, <2>2
<1> QED
  BY <1>5

LEMMA Greatest ==
    ASSUME NEW S, NEW n \in Nat, S \subseteq 1..n, S # {}
    PROVE  \E i \in S : \A k \in S : k <= i
<1> DEFINE T == {n - i : i \in S}
<1>1. T \subseteq Nat /\ T # {}
  <2>1. \A i \in S : n - i \in Nat
    OBVIOUS
  <2> QED
    BY <2>1
<1>2. PICK m \in T : \A k \in T : m <= k
  BY <1>1, Least
<1>3. PICK i \in S : m = n - i
  BY <1>2
<1>4. \A k \in S : n - k \in T
  OBVIOUS
<1>5. \A k \in S : n - i <= n - k
  BY <1>2, <1>3, <1>4
<1>6. \A k \in S : k <= i
  BY <1>5
<1> QED
  BY <1>6

\* A list of the messages that end with each byte, as MessagesIn makes it.
Lists(f, bytes) ==
    f = [n \in 0..Len(bytes) |-> IF n = 0 THEN <<>> ELSE f[n - 1] \o EndingAt(bytes, n)]

\* Whatever such a list there is, and there is one, it ends with these messages.
Told(bytes, messages) ==
    /\ \E f : Lists(f, bytes)
    /\ \A f : Lists(f, bytes) => f[Len(bytes)] = messages

LEMMA ToldAll ==
    ASSUME NEW bytes, NEW messages, Told(bytes, messages)
    PROVE  MessagesIn(bytes) = messages
<1> DEFINE f == CHOOSE f : Lists(f, bytes)
<1>1. Lists(f, bytes)
  BY DEF Told
<1>2. MessagesIn(bytes) = f[Len(bytes)]
  BY DEF MessagesIn, Lists
<1> HIDE DEF f
<1> QED
  BY <1>1, <1>2 DEF Told

LEMMA ByteAdded ==
    ASSUME NEW bytes \in Seq(Byte), NEW b \in Byte
    PROVE  /\ Append(bytes, b) \in Seq(Byte) /\ Len(Append(bytes, b)) = Len(bytes) + 1
           /\ Len(bytes) \in Nat
           /\ \A n \in 1..Len(bytes) : Append(bytes, b)[n] = bytes[n] /\ bytes[n] \in Byte
           /\ Append(bytes, b)[Len(bytes) + 1] = b
BY AppendProperties, ElementOfSeq


LEMMA StatusFound ==
    ASSUME NEW bytes, NEW n \in Nat
    PROVE  LET i == StatusBefore(bytes, n + 1)
           IN  i = 0 \/ (i \in 1..n /\ IsStatus(bytes[i]) /\ ~IsSingle(bytes[i]))
<1> DEFINE before == {i \in 1..n : IsStatus(bytes[i]) /\ ~IsSingle(bytes[i])}
           last == CHOOSE i \in before : \A k \in before : k <= i
<1>1. (n + 1) - 1 = n
  OBVIOUS
<1>2. StatusBefore(bytes, n + 1) = IF before = {} THEN 0 ELSE last
  BY <1>1 DEF StatusBefore
<1>3. before # {} => last \in before
  BY Greatest
<1> QED
  BY <1>2, <1>3

\* The message that ends with a byte b, which is data of the status byte at i.
Ending(b, i, status, data, first) ==
    IF IsSingle(b) THEN <<Message(b, 0, 0)>>
    ELSE IF IsStatus(b) \/ i = 0 THEN <<>>
    ELSE CASE StatusLength(status) = 2 -> <<Message(status, b, 0)>>
           [] StatusLength(status) = 3 /\ Cardinality(data) % 2 = 0
                  -> <<Message(status, first, b)>>
           [] OTHER -> <<>>

LEMMA EndingIs ==
    ASSUME NEW w, NEW n
    PROVE  LET i == StatusBefore(w, n)
               data == DataBetween(w, i, n)
           IN  EndingAt(w, n) = Ending(w[n], i, w[i], data, w[Latest(data \ {n})])
BY DEF EndingAt, Ending

LEMMA EndingAlone ==
    ASSUME NEW b, NEW status, NEW data, NEW first
    PROVE  Ending(b, 0, status, data, first)
             = IF IsSingle(b) THEN <<Message(b, 0, 0)>> ELSE <<>>
BY DEF Ending

\* A byte before the one at n is needed only where there is one.
LEMMA EndingNeeds ==
    ASSUME NEW b, NEW i, NEW status, NEW data, NEW n, NEW m1, NEW m2,
           ~IsStatus(b) => n \in data, data \ {n} = {} \/ m1 = m2
    PROVE  Ending(b, i, status, data, m1) = Ending(b, i, status, data, m2)
<1>1. CASE m1 = m2
  BY <1>1
<1>2. CASE data \ {n} = {} /\ IsStatus(b)
  BY <1>2 DEF Ending
<1>3. CASE data = {n}
  <2>1. Cardinality(data) % 2 = 1
    BY <1>3, FS_Singleton
  <2> QED
    BY <2>1 DEF Ending
<1> QED
  BY <1>1, <1>2, <1>3

\* What ends with a byte does not depend on what comes after it.
LEMMA EndsTheSame ==
    ASSUME NEW bytes \in Seq(Byte), NEW b \in Byte, NEW n \in 1..Len(bytes)
    PROVE  EndingAt(Append(bytes, b), n) = EndingAt(bytes, n)
<1> DEFINE more == Append(bytes, b)
<1>1. Len(bytes) \in Nat /\ \A k \in 1..Len(bytes) : more[k] = bytes[k]
  BY ByteAdded
<1> HIDE DEF more
<1>2. StatusBefore(more, n) = StatusBefore(bytes, n)
  <2> DEFINE S(w) == {i \in 1..n - 1 : IsStatus(w[i]) /\ ~IsSingle(w[i])}
  <2>1. \A i \in 1..n - 1 : more[i] = bytes[i]
    BY <1>1
  <2>2. S(more) = S(bytes)
    BY <2>1
  <2>3. \A w : StatusBefore(w, n) = IF S(w) = {} THEN 0 ELSE Latest(S(w))
    BY DEF StatusBefore, Latest
  <2> HIDE DEF S
  <2> QED
    BY <2>2, <2>3
<1> DEFINE i == StatusBefore(bytes, n)
           data == DataBetween(bytes, i, n)
           k == Latest(data \ {n})
<1>3. i = 0 \/ i \in 1..n - 1
  <2>1. n - 1 \in Nat /\ (n - 1) + 1 = n
    BY <1>1
  <2> QED
    BY <2>1, StatusFound
<1>4. more[n] = bytes[n]
  BY <1>1
<1>5. EndingAt(bytes, n) = Ending(bytes[n], i, bytes[i], data, bytes[k])
  BY EndingIs
<1>6. EndingAt(more, n) = Ending(more[n], i, more[i], DataBetween(more, i, n),
                                 more[Latest(DataBetween(more, i, n) \ {n})])
  BY <1>2, EndingIs
<1> HIDE DEF i
<1>7. CASE i = 0
  <2> DEFINE d == DataBetween(more, i, n)
             f == more[Latest(DataBetween(more, i, n) \ {n})]
  <2>1. EndingAt(more, n) = Ending(more[n], i, more[i], d, f)
    BY <1>6
  <2> HIDE DEF data, k, d, f
  <2>2. EndingAt(more, n) = IF IsSingle(more[n]) THEN <<Message(more[n], 0, 0)>> ELSE <<>>
    BY <1>7, <2>1, EndingAlone
  <2>3. EndingAt(bytes, n) = IF IsSingle(bytes[n]) THEN <<Message(bytes[n], 0, 0)>> ELSE <<>>
    BY <1>5, <1>7, EndingAlone
  <2> QED
    BY <1>4, <2>2, <2>3 DEF more
<1>8. CASE i \in 1..n - 1
  <2>1. DataBetween(more, i, n) = data
    BY <1>1, <1>8 DEF DataBetween
  <2>2. more[i] = bytes[i]
    BY <1>1, <1>8
  <2>3. data \subseteq 1..n /\ (~IsStatus(bytes[n]) => n \in data)
    BY <1>1, <1>8 DEF DataBetween
  <2> HIDE DEF data
  <2>4. data \ {n} = {} \/ more[k] = bytes[k]
    <3>1. ASSUME data \ {n} # {} PROVE k \in data \ {n}
      <4>1. data \ {n} \subseteq 1..n
        BY <2>3
      <4>2. n \in Nat
        BY <1>1
      <4>3. \E j \in data \ {n} : \A m \in data \ {n} : m <= j
        BY <3>1, <4>1, <4>2, Greatest
      <4> QED
        BY <4>3, Zenon DEF Latest
    <3> HIDE DEF k
    <3>2. \A j \in data \ {n} : j \in 1..Len(bytes)
      BY <1>1, <2>3
    <3> QED
      BY <1>1, <3>1, <3>2
  <2>5. EndingAt(more, n) = Ending(bytes[n], i, bytes[i], data, more[k])
    BY <1>4, <1>6, <2>1, <2>2
  <2> HIDE DEF k
  <2>6. Ending(bytes[n], i, bytes[i], data, more[k]) = Ending(bytes[n], i, bytes[i], data, bytes[k])
    BY <2>3, <2>4, EndingNeeds
  <2>7. EndingAt(bytes, n) = Ending(bytes[n], i, bytes[i], data, bytes[k])
    BY <1>5 DEF k, data
  <2> QED
    BY <2>5, <2>6, <2>7, Zenon DEF more
<1> QED
  BY <1>3, <1>7, <1>8

\* A byte more gives the messages that end with it.
LEMMA ToldMore ==
    ASSUME NEW bytes \in Seq(Byte), NEW b \in Byte, NEW messages, Told(bytes, messages)
    PROVE  LET more == Append(bytes, b)
           IN  Told(more, messages \o EndingAt(more, Len(bytes) + 1))
<1> DEFINE more == Append(bytes, b)
           n == Len(bytes)
           last == EndingAt(more, n + 1)
<1>1. n \in Nat /\ Len(more) = n + 1
  BY ByteAdded
<1>2. \A m \in 1..n : EndingAt(more, m) = EndingAt(bytes, m)
  BY EndsTheSame
<1> HIDE DEF more, n
<1>3. \A f : Lists(f, bytes)
        <=> f = [m \in 0..n |-> IF m = 0 THEN <<>> ELSE f[m - 1] \o EndingAt(bytes, m)]
  BY DEF Lists, n
<1>4. \A f : Lists(f, more)
        <=> f = [m \in 0..n + 1 |-> IF m = 0 THEN <<>> ELSE f[m - 1] \o EndingAt(more, m)]
  BY <1>1 DEF Lists
<1>5. \E f : Lists(f, more)
  <2>1. PICK g : Lists(g, bytes)
    BY DEF Told
  <2> DEFINE f == [m \in 0..n + 1 |-> IF m = n + 1 THEN g[n] \o last ELSE g[m]]
  <2>2. \A m \in 0..n : g[m] = IF m = 0 THEN <<>> ELSE g[m - 1] \o EndingAt(bytes, m)
    BY <1>3, <2>1
  <2>3. ASSUME NEW m \in 0..n + 1
        PROVE  f[m] = IF m = 0 THEN <<>> ELSE f[m - 1] \o EndingAt(more, m)
    <3>1. CASE m = 0
      BY <1>1, <2>2, <3>1
    <3>2. CASE m \in 1..n
      <4>1. f[m] = g[m] /\ f[m - 1] = g[m - 1]
        BY <1>1, <3>2
      <4>0. m \in 0..n /\ m # 0
        BY <1>1, <3>2
      <4>2. g[m] = g[m - 1] \o EndingAt(bytes, m)
        BY <2>2, <4>0, Zenon
      <4>3. EndingAt(more, m) = EndingAt(bytes, m)
        BY <1>2, <3>2
      <4> HIDE DEF f
      <4> QED
        BY <1>1, <3>2, <4>1, <4>2, <4>3
    <3>3. CASE m = n + 1
      <4>1. f[m] = g[n] \o last /\ f[m - 1] = g[n]
        BY <1>1, <3>3
      <4> HIDE DEF f
      <4>2. m # 0
        BY <1>1, <3>3
      <4> QED
        BY <3>3, <4>1, <4>2, Zenon
    <3> QED
      BY <1>1, <3>1, <3>2, <3>3
  <2>4. f = [m \in 0..n + 1 |-> f[m]]
    OBVIOUS
  <2> HIDE DEF f
  <2>5. f = [m \in 0..n + 1 |-> IF m = 0 THEN <<>> ELSE f[m - 1] \o EndingAt(more, m)]
    BY <2>3, <2>4
  <2> QED
    BY <1>4, <2>5
<1>6. ASSUME NEW f, Lists(f, more)
      PROVE  f[n + 1] = messages \o last
  <2> DEFINE g == [m \in 0..n |-> f[m]]
  <2>1. \A m \in 0..n + 1 : f[m] = IF m = 0 THEN <<>> ELSE f[m - 1] \o EndingAt(more, m)
    BY <1>4, <1>6
  <2>2. ASSUME NEW m \in 0..n
        PROVE  g[m] = IF m = 0 THEN <<>> ELSE g[m - 1] \o EndingAt(bytes, m)
    <3>1. CASE m = 0
      BY <1>1, <2>1, <3>1
    <3>2. CASE m \in 1..n
      <4>1. g[m] = f[m] /\ g[m - 1] = f[m - 1] /\ m \in 0..n + 1 /\ m # 0
        BY <1>1, <3>2
      <4>2. EndingAt(more, m) = EndingAt(bytes, m)
        BY <1>2, <3>2
      <4> HIDE DEF g
      <4> QED
        BY <2>1, <4>1, <4>2
    <3> QED
      BY <1>1, <3>1, <3>2
  <2>3. g = [m \in 0..n |-> g[m]] /\ g[n] = f[n]
    BY <1>1
  <2> HIDE DEF g
  <2>4. g = [m \in 0..n |-> IF m = 0 THEN <<>> ELSE g[m - 1] \o EndingAt(bytes, m)]
    BY <2>2, <2>3
  <2>5. g[n] = messages
    BY <1>3, <2>4 DEF Told, n
  <2>6. f[n + 1] = f[(n + 1) - 1] \o EndingAt(more, n + 1) /\ (n + 1) - 1 = n
    <3>1. n + 1 \in 0..n + 1 /\ n + 1 # 0 /\ (n + 1) - 1 = n
      BY <1>1
    <3> QED
      BY <2>1, <3>1, Zenon
  <2> QED
    BY <2>3, <2>5, <2>6
<1> QED
  BY <1>1, <1>5, <1>6 DEF Told, more, n

\* The status byte that data would belong to now, and the data it has.
LastStatus(bytes) == StatusBefore(bytes, Len(bytes) + 1)
Data(bytes)       == DataBetween(bytes, LastStatus(bytes), Len(bytes))

LEMMA StatusGrows ==
    ASSUME NEW bytes \in Seq(Byte), NEW b \in Byte
    PROVE  /\ StatusBefore(Append(bytes, b), Len(bytes) + 1) = LastStatus(bytes)
           /\ LastStatus(Append(bytes, b)) = IF IsStatus(b) /\ ~IsSingle(b)
                                             THEN Len(bytes) + 1 ELSE LastStatus(bytes)
<1> DEFINE more == Append(bytes, b)
           n == Len(bytes)
           S(w, m) == {i \in 1..m : IsStatus(w[i]) /\ ~IsSingle(w[i])}
<1>1. /\ n \in Nat /\ Len(more) = n + 1 /\ more[n + 1] = b
      /\ \A i \in 1..n : more[i] = bytes[i]
  BY ByteAdded
<1> HIDE DEF more, n
<1>2. \A w, m : m \in Nat => StatusBefore(w, m + 1) = IF S(w, m) = {} THEN 0 ELSE Latest(S(w, m))
  <2>1. \A m : m \in Nat => (m + 1) - 1 = m
    OBVIOUS
  <2>2. \A w, m : StatusBefore(w, m + 1)
                    = IF S(w, (m + 1) - 1) = {} THEN 0 ELSE Latest(S(w, (m + 1) - 1))
    BY DEF StatusBefore, Latest
  <2> HIDE DEF S
  <2> QED
    BY <2>1, <2>2
<1>3. S(more, n) = S(bytes, n)
  BY <1>1
<1>4. S(more, n + 1) = IF IsStatus(b) /\ ~IsSingle(b) THEN S(bytes, n) \cup {n + 1}
                                                      ELSE S(bytes, n)
  <2>1. \A i : i \in 1..n + 1 <=> i \in 1..n \/ i = n + 1
    BY <1>1
  <2>2. ASSUME NEW i PROVE i \in S(more, n + 1) <=> \/ i \in S(bytes, n)
                                                    \/ i = n + 1 /\ IsStatus(b) /\ ~IsSingle(b)
    BY <1>1, <2>1
  <2> HIDE DEF S
  <2> QED
    BY <2>2
<1>5. S(bytes, n) \subseteq 1..n
  OBVIOUS
<1> HIDE DEF S
<1>6. CASE IsStatus(b) /\ ~IsSingle(b)
  <2> DEFINE T == S(bytes, n) \cup {n + 1}
  <2>1. n + 1 \in T /\ (\A k \in T : k <= n + 1) /\ T \subseteq Nat
    BY <1>1, <1>5
  <2> HIDE DEF T
  <2>2. Latest(T) = n + 1
    <3>1. Latest(T) \in T /\ \A k \in T : k <= Latest(T)
      BY <2>1 DEF Latest
    <3>2. Latest(T) \in Nat /\ n + 1 \in Nat
      BY <2>1, <3>1
    <3> QED
      BY <2>1, <3>1, <3>2
  <2>3. S(more, n + 1) = T /\ T # {}
    BY <1>4, <1>6, <2>1 DEF T
  <2>4. StatusBefore(more, (n + 1) + 1) = n + 1
    BY <1>1, <1>2, <2>2, <2>3
  <2> QED
    BY <1>1, <1>2, <1>3, <1>6, <2>4 DEF LastStatus, more, n
<1>7. CASE ~(IsStatus(b) /\ ~IsSingle(b))
  <2>1. StatusBefore(more, (n + 1) + 1) = StatusBefore(bytes, n + 1)
    BY <1>1, <1>2, <1>4, <1>7
  <2> QED
    BY <1>1, <1>2, <1>3, <1>7, <2>1 DEF LastStatus, more, n
<1> QED
  BY <1>6, <1>7

LEMMA DataGrows ==
    ASSUME NEW bytes \in Seq(Byte), NEW b \in Byte
    PROVE  LET more == Append(bytes, b)
           IN  /\ IsStatus(b) /\ ~IsSingle(b) => Data(more) = {}
               /\ IsStatus(b) /\ IsSingle(b) => Data(more) = Data(bytes)
               /\ ~IsStatus(b) => Data(more) = Data(bytes) \cup {Len(bytes) + 1}
               /\ Data(bytes) \subseteq 1..Len(bytes)
<1> DEFINE more == Append(bytes, b)
           n == Len(bytes)
           i == LastStatus(bytes)
<1>1. /\ n \in Nat /\ Len(more) = n + 1 /\ more[n + 1] = b
      /\ \A k \in 1..n : more[k] = bytes[k]
  BY ByteAdded
<1>2. LastStatus(more) = IF IsStatus(b) /\ ~IsSingle(b) THEN n + 1 ELSE i
  BY StatusGrows
<1>3. i \in 0..n
  BY <1>1, StatusFound DEF LastStatus
<1> HIDE DEF more, i
<1>4. Data(bytes) = DataBetween(bytes, i, n) /\ Data(more) = DataBetween(more, LastStatus(more), n + 1)
  BY <1>1 DEF Data, i
<1> HIDE DEF n
<1>5. Data(bytes) \subseteq 1..n
  BY <1>1, <1>3, <1>4 DEF DataBetween
<1>6. CASE IsStatus(b) /\ ~IsSingle(b)
  <2>1. DataBetween(more, n + 1, n + 1) = {}
    BY <1>1 DEF DataBetween
  <2> QED
    BY <1>2, <1>4, <1>5, <1>6, <2>1 DEF more, n
<1>7. CASE ~(IsStatus(b) /\ ~IsSingle(b))
  <2>1. DataBetween(more, i, n + 1) = DataBetween(bytes, i, n) \cup (IF IsStatus(b) THEN {} ELSE {n + 1})
    <3>1. \A k : k \in i + 1..n + 1 <=> k \in i + 1..n \/ k = n + 1
      BY <1>1, <1>3
    <3>2. \A k \in i + 1..n : more[k] = bytes[k]
      BY <1>1, <1>3
    <3> QED
      BY <1>1, <3>1, <3>2 DEF DataBetween
  <2>2. Data(more) = Data(bytes) \cup (IF IsStatus(b) THEN {} ELSE {n + 1})
    BY <1>2, <1>4, <1>7, <2>1
  <2> QED
    BY <1>5, <1>7, <2>2 DEF more, n
<1> QED
  BY <1>6, <1>7

LEMMA Lengths ==
    ASSUME NEW b \in Byte, IsStatus(b), ~IsSingle(b)
    PROVE  \/ StatusLength(b) = 2 /\ (StatusLength(b) - 1) % 256 = 1
           \/ StatusLength(b) = 3 /\ (StatusLength(b) - 1) % 256 = 2
           \/ StatusLength(b) = -1 /\ (StatusLength(b) - 1) % 256 = 254
<1>1. StatusLength(b) \in {2, 3, -1}
  <2>1. StatusLength(b) \in {1, 2, 3, -1}
    BY DEF StatusLength
  <2> QED
    BY <2>1 DEF IsSingle
<1> QED
  BY <1>1

\* What the parser knows of the bytes it has had.
Knows(p, bytes) ==
    LET status == bytes[LastStatus(bytes)]
    IN  IF LastStatus(bytes) = 0 THEN p.num = 0
        ELSE /\ p.byte0 = status /\ p.num = (StatusLength(status) - 1) % 256
             /\ StatusLength(status) = 2 => p.cur = 0
             /\ StatusLength(status) = 3 =>
                    /\ p.cur = Cardinality(Data(bytes)) % 2
                    /\ p.cur = 1 => p.byte1 = bytes[Latest(Data(bytes))]

LEMMA KnowsMore ==
    ASSUME NEW bytes \in Seq(Byte), NEW b \in Byte, NEW p \in Parser, Knows(p, bytes)
    PROVE  LET more == Append(bytes, b)
           IN  /\ Knows(InByte(p, b).parser, more)
               /\ InByte(p, b).messages = EndingAt(more, Len(bytes) + 1)
<1> DEFINE more == Append(bytes, b)
           n == Len(bytes)
           i == LastStatus(bytes)
           status == bytes[i]
           data == Data(bytes)
           old == bytes[Latest(data)]
<1>1. /\ n \in Nat /\ Len(more) = n + 1 /\ more[n + 1] = b
      /\ \A k \in 1..n : more[k] = bytes[k] /\ bytes[k] \in Byte
  BY ByteAdded
<1>2. /\ StatusBefore(more, n + 1) = i
      /\ LastStatus(more) = IF IsStatus(b) /\ ~IsSingle(b) THEN n + 1 ELSE i
  BY StatusGrows
<1>3. /\ IsStatus(b) /\ ~IsSingle(b) => Data(more) = {}
      /\ IsStatus(b) /\ IsSingle(b) => Data(more) = data
      /\ ~IsStatus(b) => Data(more) = data \cup {n + 1}
      /\ data \subseteq 1..n
  BY DataGrows
<1>4. i = 0 \/ (i \in 1..n /\ IsStatus(status) /\ ~IsSingle(status) /\ more[i] = status
                /\ status \in Byte)
  BY <1>1, StatusFound DEF LastStatus
<1>5. EndingAt(more, n + 1) = Ending(b, i, more[i], DataBetween(more, i, n + 1),
                                     more[Latest(DataBetween(more, i, n + 1) \ {n + 1})])
  BY <1>1, <1>2, EndingIs
<1>6. ~IsStatus(b) => DataBetween(more, i, n + 1) = data \cup {n + 1}
  BY <1>1, <1>2, <1>3 DEF Data, IsSingle
<1>7. /\ IsFiniteSet(data) /\ Cardinality(data) \in Nat
      /\ Cardinality(data \cup {n + 1}) = Cardinality(data) + 1
  <2>1. IsFiniteSet(1..n) /\ n + 1 \notin 1..n
    BY <1>1, FS_Interval
  <2>2. IsFiniteSet(data) /\ n + 1 \notin data
    BY <1>3, <2>1, FS_Subset
  <2> QED
    BY <2>2, FS_AddElement, FS_CardinalityType
<1>8. /\ p.cur \in 0..1 /\ p.byte0 \in Byte /\ p.byte1 \in Byte /\ p.num \in Byte
      /\ p = [byte0 |-> p.byte0, byte1 |-> p.byte1, cur |-> p.cur, num |-> p.num]
  BY DEF Parser
<1>9. Cardinality({}) = 0 /\ 0 % 2 # 1
  BY FS_EmptySet
<1>10. data # {} => more[Latest(data)] = old
  <2>1. ASSUME data # {} PROVE Latest(data) \in data
    <3>1. \E k \in data : \A m \in data : m <= k
      BY <1>1, <1>3, <2>1, Greatest
    <3> QED
      BY <3>1, Zenon DEF Latest
  <2> QED
    BY <1>1, <1>3, <2>1
<1>11. IF i = 0 THEN p.num = 0
       ELSE /\ p.byte0 = status /\ p.num = (StatusLength(status) - 1) % 256
            /\ StatusLength(status) = 2 => p.cur = 0
            /\ StatusLength(status) = 3 => p.cur = Cardinality(data) % 2 /\ (p.cur = 1 => p.byte1 = old)
  BY DEF Knows
<1> HIDE DEF more, n, i, status, data, old
<1>12. CASE IsSingle(b)
  <2>1. InByte(p, b).parser = p /\ InByte(p, b).messages = <<Message(b, 0, 0)>>
    BY <1>12 DEF InByte, Parsed
  <2>2. EndingAt(more, n + 1) = <<Message(b, 0, 0)>>
    BY <1>5, <1>12 DEF Ending
  <2>3. LastStatus(more) = i /\ Data(more) = data
    BY <1>2, <1>3, <1>12 DEF IsSingle
  <2>4. CASE i = 0
    BY <1>11, <2>1, <2>2, <2>3, <2>4 DEF Knows, more, n
  <2>5. CASE i # 0
    <3>1. more[LastStatus(more)] = status
      BY <1>4, <2>3, <2>5
    <3>2. StatusLength(status) = 3 /\ p.cur = 1 => p.byte1 = more[Latest(Data(more))]
      <4>1. StatusLength(status) = 3 /\ p.cur = 1 => Cardinality(data) % 2 = 1 /\ p.byte1 = old
        BY <1>11, <2>5
      <4>2. Cardinality(data) % 2 = 1 => data # {}
        BY <1>9, Zenon
      <4> QED
        BY <1>10, <2>3, <4>1, <4>2
    <3>3. Knows(p, more)
      BY <1>11, <2>3, <2>5, <3>1, <3>2 DEF Knows
    <3> QED
      BY <2>1, <2>2, <3>3 DEF more, n
  <2> QED
    BY <2>4, <2>5
<1>13. CASE IsStatus(b) /\ ~IsSingle(b)
  <2> DEFINE q == InByte(p, b).parser
  <2>1. q = NewStatus(p, b) /\ InByte(p, b).messages = <<>>
    BY <1>13 DEF InByte, Parsed
  <2>2. q.byte0 = b /\ q.num = (StatusLength(b) - 1) % 256 /\ q.cur = 0
    BY <1>8, <2>1 DEF NewStatus, Parser
  <2>3. EndingAt(more, n + 1) = <<>>
    BY <1>5, <1>13 DEF Ending
  <2>4. LastStatus(more) = n + 1 /\ Data(more) = {} /\ more[LastStatus(more)] = b /\ n + 1 # 0
    BY <1>1, <1>2, <1>3, <1>13
  <2> HIDE DEF q
  <2>5. Knows(q, more)
    BY <1>9, <2>2, <2>4 DEF Knows
  <2> QED
    BY <2>1, <2>3, <2>5 DEF q, more, n
<1>14. CASE ~IsStatus(b)
  <2> DEFINE q == InByte(p, b).parser
             m == InByte(p, b).messages
             all == data \cup {n + 1}
  <2>1. ~IsSingle(b) /\ LastStatus(more) = i /\ Data(more) = all
    BY <1>2, <1>3, <1>14 DEF IsSingle
  <2>2. all \ {n + 1} = data
    BY <1>1, <1>3
  <2>3. EndingAt(more, n + 1) = Ending(b, i, more[i], all, more[Latest(data)])
    BY <1>5, <1>6, <1>14, <2>2
  <2>4. Latest(all) = n + 1
    <3>1. n + 1 \in all /\ (\A k \in all : k <= n + 1) /\ all \subseteq Nat
      BY <1>1, <1>3
    <3> HIDE DEF all
    <3>2. Latest(all) \in all /\ \A k \in all : k <= Latest(all)
      BY <3>1 DEF Latest
    <3>3. Latest(all) \in Nat /\ n + 1 \in Nat
      BY <3>1, <3>2
    <3> QED
      BY <3>1, <3>2, <3>3
  <2>5. /\ q.byte0 = p.byte0 /\ q.num = p.num
        /\ q.cur = (IF p.cur = 0 THEN (IF p.num = 1 THEN 0 ELSE 1)
                    ELSE IF p.num = 2 THEN 0 ELSE p.cur)
        /\ q.byte1 = IF p.cur = 0 THEN b ELSE p.byte1
        /\ m = (IF p.cur = 0 THEN (IF p.num = 1 THEN <<Message(p.byte0, b, 0)>> ELSE <<>>)
                ELSE IF p.num = 2 THEN <<Message(p.byte0, p.byte1, b)>> ELSE <<>>)
    BY <1>8, <1>14, <2>1 DEF InByte, Parsed, Parser
  <2>6. Cardinality(all) = Cardinality(data) + 1 /\ Cardinality(data) \in Nat
    BY <1>7
  <2> HIDE DEF q, m, all
  <2>7. Knows(q, more) /\ m = EndingAt(more, n + 1)
    <3>1. CASE i = 0
      <4>1. p.num = 0 /\ q.num = 0 /\ m = <<>>
        BY <1>11, <2>5, <3>1
      <4>2. EndingAt(more, n + 1) = <<>>
        BY <2>1, <2>3, <3>1, EndingAlone
      <4> QED
        BY <2>1, <3>1, <4>1, <4>2 DEF Knows
    <3>2. CASE i # 0
      <4>1. /\ more[i] = status /\ status \in Byte /\ IsStatus(status) /\ ~IsSingle(status)
            /\ p.byte0 = status /\ p.num = (StatusLength(status) - 1) % 256
        BY <1>4, <1>11, <3>2
      <4>2. EndingAt(more, n + 1)
              = IF StatusLength(status) = 2 THEN <<Message(status, b, 0)>>
                ELSE IF StatusLength(status) = 3 /\ Cardinality(all) % 2 = 0
                     THEN <<Message(status, more[Latest(data)], b)>> ELSE <<>>
        BY <1>14, <2>1, <2>3, <3>2, <4>1 DEF Ending
      <4>3. CASE StatusLength(status) = 2
        <5>1. p.num = 1 /\ p.cur = 0
          BY <1>11, <3>2, <4>1, <4>3
        <5> QED
          BY <2>1, <2>5, <3>2, <4>1, <4>2, <4>3, <5>1 DEF Knows
      <4>4. CASE StatusLength(status) = 3 /\ p.cur = 0
        <5>1. p.num = 2 /\ Cardinality(data) % 2 = 0
          BY <1>11, <3>2, <4>1, <4>4
        <5>2. Cardinality(all) % 2 = 1
          BY <2>6, <5>1
        <5>3. q.cur = 1 /\ q.byte1 = b /\ m = <<>>
          BY <2>5, <4>4, <5>1
        <5>4. more[Latest(Data(more))] = b
          BY <1>1, <2>1, <2>4
        <5> QED
          BY <2>1, <2>5, <3>2, <4>1, <4>2, <4>4, <5>2, <5>3, <5>4 DEF Knows
      <4>5. CASE StatusLength(status) = 3 /\ p.cur = 1
        <5>1. p.num = 2 /\ Cardinality(data) % 2 = 1 /\ p.byte1 = old
          BY <1>11, <3>2, <4>1, <4>5
        <5>2. Cardinality(all) % 2 = 0
          BY <2>6, <5>1
        <5>3. more[Latest(data)] = old
          <6>1. data # {}
            BY <1>9, <5>1, Zenon
          <6> QED
            BY <1>10, <6>1
        <5>4. q.cur = 0 /\ m = <<Message(status, old, b)>>
          BY <2>5, <4>1, <4>5, <5>1
        <5> QED
          BY <2>1, <2>5, <3>2, <4>1, <4>2, <4>5, <5>2, <5>3, <5>4 DEF Knows
      <4>6. CASE StatusLength(status) = -1
        <5>1. p.num = 254
          <6>1. /\ StatusLength(status) # 2 /\ StatusLength(status) # 3
                /\ status \in Byte /\ IsStatus(status) /\ ~IsSingle(status)
            BY <4>1, <4>6
          <6>2. (StatusLength(status) - 1) % 256 = 254
            BY <6>1, Lengths, Zenon
          <6> QED
            BY <4>1, <6>2
        <5>2. m = <<>>
          BY <2>5, <5>1
        <5> QED
          BY <2>1, <2>5, <3>2, <4>1, <4>2, <4>6, <5>2 DEF Knows
      <4> QED
        BY <1>8, <4>1, <4>3, <4>4, <4>5, <4>6, Lengths
    <3> QED
      BY <3>1, <3>2
  <2> QED
    BY <2>7 DEF q, m, more, n
<1> QED
  BY <1>12, <1>13, <1>14

HeardInv == Knows(parser, heard) /\ Told(heard, told)

LEMMA HeardInit == Init => HeardInv
<1> SUFFICES ASSUME Init PROVE HeardInv
  OBVIOUS
<1>1. heard = <<>> /\ told = <<>> /\ parser.num = 0 /\ Len(heard) = 0
  BY DEF Init, ParserInit
<1>2. LastStatus(heard) = 0
  <2>1. StatusBefore(heard, 0 + 1) = 0
    BY StatusFound
  <2> QED
    BY <1>1, <2>1 DEF LastStatus
<1>3. Told(heard, told)
  <2>1. \A f : Lists(f, heard)
          <=> f = [n \in 0..0 |-> IF n = 0 THEN <<>> ELSE f[n - 1] \o EndingAt(heard, n)]
    BY <1>1, Zenon DEF Lists
  <2> DEFINE g == [n \in 0..0 |-> <<>>]
  <2>2. g = [n \in 0..0 |-> IF n = 0 THEN <<>> ELSE g[n - 1] \o EndingAt(heard, n)]
    OBVIOUS
  <2>3. \E f : Lists(f, heard)
    BY <2>1, <2>2
  <2>4. ASSUME NEW f, Lists(f, heard) PROVE f[0] = <<>>
    <3>1. f = [n \in 0..0 |-> IF n = 0 THEN <<>> ELSE f[n - 1] \o EndingAt(heard, n)]
      BY <2>1, <2>4
    <3> QED
      BY <3>1
  <2> QED
    BY <1>1, <2>3, <2>4 DEF Told
<1> QED
  BY <1>1, <1>2, <1>3 DEF HeardInv, Knows

LEMMA HeardStep == MidiInv /\ TypeRest /\ HeardInv /\ [Next]_vars => HeardInv'
<1> SUFFICES ASSUME MidiInv, TypeRest, HeardInv, [Next]_vars PROVE HeardInv'
  OBVIOUS
<1>1. CASE SerialByte
  <2> DEFINE b == Head(line)
             more == Append(heard, b)
  <2>1. /\ heard' = more /\ parser' = InByte(parser, b).parser
        /\ told' = told \o InByte(parser, b).messages /\ line # <<>>
    BY <1>1 DEF SerialByte
  <2>2. b \in Byte /\ heard \in Seq(Byte) /\ parser \in Parser
    BY <2>1, HeadTailProperties DEF MidiInv, InputInv, TypeRest
  <2> HIDE DEF b
  <2>3. /\ Knows(InByte(parser, b).parser, more)
        /\ InByte(parser, b).messages = EndingAt(more, Len(heard) + 1)
    BY <2>2, KnowsMore DEF HeardInv
  <2>4. Told(more, told \o EndingAt(more, Len(heard) + 1))
    BY <2>2, ToldMore DEF HeardInv
  <2> HIDE DEF more
  <2> QED
    BY <2>1, <2>3, <2>4 DEF HeardInv
<1>2. CASE ~SerialByte
  <2>1. UNCHANGED <<parser, heard, told>>
    BY <1>2 DEF Next, vars, serial, HostSend, ReadFour, ReadWaits, ReadReset, Receive, Transmit,
                Reset, Configured
  <2> QED
    BY <2>1 DEF HeardInv
<1> QED
  BY <1>1, <1>2

(* Whatever bytes arrive on the serial line, in whatever state the patch    *)
(* and the output are: ThreadMidi hands on the messages that are in them,   *)
(* each once and in order, with running status and with real-time messages  *)
(* within others (serial_midi.c:75-123).                                    *)
THEOREM SerialIsHeard == Spec => []SerialHeard
<1>1. HeardInv => SerialHeard
  BY ToldAll DEF HeardInv, SerialHeard
<1>2. MidiInv /\ StreamInv /\ TypeRest /\ HeardInv /\ [Next]_vars
        => MidiInv' /\ StreamInv' /\ TypeRest' /\ HeardInv'
  BY MidiStep, StreamStep, TypeRestStep, HeardStep
<1> QED
  BY <1>1, <1>2, MidiInit, StreamInit, TypeRestInit, HeardInit, PTL DEF Spec
=============================================================================
