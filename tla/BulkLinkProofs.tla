--------------------------- MODULE BulkLinkProofs ---------------------------
(***************************************************************************)
(* The bytes under the commands, for every size of packets and of the      *)
(* queue and whatever commands are sent.  No byte of a packet is dropped;  *)
(* the decoder keeps its state in its type.  While the packets of a        *)
(* command stay together the decoder completes just the commands sent, in  *)
(* order: the link takes the steps of CommandChannel; and the blocks that  *)
(* are reported uploaded have been carried out.                            *)
(***************************************************************************)
EXTENDS BulkLink, SequenceTheorems, TLAPS

Proofs == INSTANCE UsbReceiveProofs WITH active <- TRUE

LEMMA CodesAreBytes == \A l \in Letters : Code[l] \in Byte
BY DEF Letters, Code, Byte

LEMMA LengthsAreBytes ==
    ASSUME NEW n \in Nat
    PROVE  Bytes4(n) \in Seq(Byte)
<1>1. n % 256 \in Byte
  BY DEF Byte
<1>2. (n \div 256) % 256 \in Byte
  BY DEF Byte
<1>3. (n \div 65536) % 256 \in Byte
  BY DEF Byte
<1>4. (n \div 16777216) % 256 \in Byte
  BY DEF Byte
<1> DEFINE a == n % 256
           b == (n \div 256) % 256
           c == (n \div 65536) % 256
           d == (n \div 16777216) % 256
<1> HIDE DEF a, b, c, d
<1>5. <<a, b, c, d>> \in Seq(Byte)
  BY <1>1, <1>2, <1>3, <1>4 DEF a, b, c, d
<1> QED
  BY <1>5 DEF Bytes4, a, b, c, d

LEMMA HeadersAreBytes ==
    ASSUME NEW cmd \in Asked \cup Played
    PROVE  HeaderOf(cmd) \in Seq(Byte) /\ cmd.data \in Seq(Byte)
<1>1. /\ cmd.letter \in Letters /\ cmd.args \in Seq(Byte) /\ cmd.data \in Seq(Byte)
      /\ cmd.letter \in WithData => Len(cmd.args) = Fields[cmd.letter] - 4
  BY BulkLinkAssumption DEF WellFormed
<1> DEFINE k == Code[cmd.letter]
           p == LengthAt[cmd.letter]
           q == IF cmd.letter \in WithData
                  THEN SubSeq(cmd.args, 1, p - 1) \o Bytes4(Len(cmd.data))
                         \o SubSeq(cmd.args, p, Len(cmd.args))
                  ELSE cmd.args
<1>2. k \in Byte
  BY <1>1, CodesAreBytes
<1>3. q \in Seq(Byte)
  <2>1. CASE cmd.letter \in WithData
    <3>1. p \in {1, 5} /\ p - 1 <= Len(cmd.args)
      BY <1>1, <2>1 DEF WithData, LengthAt, Fields, Letters, Code
    <3> HIDE DEF p
    <3>2. SubSeq(cmd.args, 1, p - 1) \in Seq(Byte)
          /\ SubSeq(cmd.args, p, Len(cmd.args)) \in Seq(Byte)
      BY <1>1, <3>1
    <3>3. Bytes4(Len(cmd.data)) \in Seq(Byte)
      BY <1>1, LengthsAreBytes
    <3>4. SubSeq(cmd.args, 1, p - 1) \o Bytes4(Len(cmd.data))
            \o SubSeq(cmd.args, p, Len(cmd.args)) \in Seq(Byte)
      BY <3>2, <3>3
    <3> QED
      BY <2>1, <3>4
  <2>2. CASE cmd.letter \notin WithData
    BY <1>1, <2>2
  <2> QED
    BY <2>1, <2>2
<1> HIDE DEF k, q
<1>4. Axo \in Seq(Byte) /\ <<k>> \in Seq(Byte)
  BY <1>2 DEF Axo, Byte
<1>5. Axo \o <<k>> \o q \in Seq(Byte)
  BY <1>3, <1>4
<1> QED
  BY <1>1, <1>5 DEF HeaderOf, k, q, p

LinkInv ==
    /\ Proofs!Received(Byte)
    /\ sent \in Seq(Asked \cup Played)
    /\ txAt \in 0..Len(sent)
    /\ txPc # "idle" => txAt # 0

\* UsbReceive is used twice, as the model and with its proofs.
LEMMA ReceiveSteps ==
    /\ USB!Parameters <=> Proofs!Parameters
    /\ USB!Init <=> Proofs!Init
    /\ USB!Packet <=> Proofs!Packet
    /\ USB!DataReceived <=> Proofs!DataReceived
    /\ USB!ReadByte <=> Proofs!ReadByte
    /\ USB!ReadNothing <=> Proofs!ReadNothing
    /\ \A data : USB!Write(data) <=> Proofs!Write(data)
    /\ USB!NothingDropped <=> Proofs!NothingDropped
<1>1. USB!Parameters <=> Proofs!Parameters
  BY DEF USB!Parameters, Proofs!Parameters
<1>2. USB!Init <=> Proofs!Init
  BY DEF USB!Init, Proofs!Init
<1>3. USB!Packet <=> Proofs!Packet
  BY DEF USB!Packet, Proofs!Packet
<1>4. USB!DataReceived <=> Proofs!DataReceived
  BY DEF USB!DataReceived, Proofs!DataReceived, USB!Pending, Proofs!Pending, USB!Room,
         Proofs!Room, USB!StartReceive, Proofs!StartReceive
<1>5. USB!Inotify <=> Proofs!Inotify
  BY DEF USB!Inotify, Proofs!Inotify, USB!Room, Proofs!Room, USB!StartReceive,
         Proofs!StartReceive
<1>6. (USB!ReadByte <=> Proofs!ReadByte) /\ (USB!ReadNothing <=> Proofs!ReadNothing)
  BY <1>5 DEF USB!ReadByte, Proofs!ReadByte, USB!ReadNothing, Proofs!ReadNothing
<1>7. \A data : USB!Write(data) <=> Proofs!Write(data)
  BY DEF USB!Write, Proofs!Write
<1>8. USB!NothingDropped <=> Proofs!NothingDropped
  BY DEF USB!NothingDropped, Proofs!NothingDropped, USB!Room, Proofs!Room
<1> QED
  BY <1>1, <1>2, <1>3, <1>4, <1>6, <1>7, <1>8

LEMMA EndpointUnchanged ==
    ASSUME Proofs!Received(Byte), UNCHANGED endpoint
    PROVE  Proofs!Received(Byte)'
BY DEF endpoint, Proofs!Received, Proofs!TypeOK, Proofs!NothingDropped, Proofs!Room

LEMMA LinkInit == Init => LinkInv
<1> SUFFICES ASSUME Init PROVE LinkInv
  OBVIOUS
<1>1. Proofs!Received(Byte)
  BY EndpointAssumption, ReceiveSteps, Proofs!InitReceived DEF Init
<1>2. <<>> \in Seq(Asked \cup Played) /\ Len(<<>>) = 0
  OBVIOUS
<1> QED
  BY <1>1, <1>2 DEF Init, LinkInv

LEMMA LinkStep == LinkInv /\ [Next]_vars => LinkInv'
<1> SUFFICES ASSUME LinkInv, [Next]_vars PROVE LinkInv'
  OBVIOUS
<1>1. /\ Proofs!Received(Byte) /\ Proofs!Parameters
      /\ sent \in Seq(Asked \cup Played) /\ txAt \in 0..Len(sent) /\ (txPc # "idle" => txAt # 0)
  BY EndpointAssumption, ReceiveSteps DEF LinkInv
<1>2. CASE TxHeader
  <2>1. PICK cmd \in Asked : /\ USB!Write(HeaderOf(cmd))
                             /\ sent' = Append(sent, cmd) /\ txAt' = Len(sent) + 1
    BY <1>2 DEF TxHeader
  <2>2. Proofs!Received(Byte)'
    BY <1>1, <2>1, HeadersAreBytes, ReceiveSteps, Proofs!HostKeeps
  <2>3. sent' \in Seq(Asked \cup Played) /\ Len(sent') = Len(sent) + 1
    BY <1>1, <2>1, AppendProperties
  <2> QED
    BY <1>1, <2>1, <2>2, <2>3 DEF LinkInv
<1>3. CASE TxData
  <2>1. USB!Write(Current.data) /\ txAt \in 1..Len(sent) /\ UNCHANGED <<txAt, sent>>
    BY <1>1, <1>3 DEF TxData
  <2>2. Current \in Asked \cup Played
    BY <1>1, <2>1, ElementOfSeq DEF Current
  <2>3. Proofs!Received(Byte)'
    BY <1>1, <2>1, <2>2, HeadersAreBytes, ReceiveSteps, Proofs!HostKeeps
  <2> QED
    BY <1>1, <2>1, <2>3 DEF LinkInv
<1>4. CASE WaitSync
  BY <1>1, <1>4, EndpointUnchanged DEF WaitSync, LinkInv
<1>5. CASE SendMidi
  <2>1. PICK cmd \in Played : USB!Write(HeaderOf(cmd)) /\ sent' = Append(sent, cmd)
    BY <1>5 DEF SendMidi
  <2>2. Proofs!Received(Byte)'
    BY <1>1, <2>1, HeadersAreBytes, ReceiveSteps, Proofs!HostKeeps
  <2>3. sent' \in Seq(Asked \cup Played) /\ Len(sent') = Len(sent) + 1
    BY <1>1, <2>1, AppendProperties
  <2>4. UNCHANGED <<txPc, txAt>>
    BY <1>5 DEF SendMidi
  <2> QED
    BY <1>1, <2>2, <2>3, <2>4 DEF LinkInv
<1>6. CASE Acknowledge \/ PExTransmit
  BY <1>1, <1>6, EndpointUnchanged DEF Acknowledge, PExTransmit, patcher, LinkInv
<1>7. CASE Endpoint
  <2>1. Proofs!Received(Byte)'
    BY <1>1, <1>7, ReceiveSteps, Proofs!PacketKeeps, Proofs!DataReceivedKeeps DEF Endpoint
  <2> QED
    BY <1>1, <1>7, <2>1 DEF Endpoint, patcher, LinkInv
<1>8. CASE ReceiveByte \/ ReceiveEnd
  <2>1. (USB!ReadByte \/ USB!ReadNothing) /\ UNCHANGED patcher
    BY <1>8 DEF ReceiveByte, ReceiveEnd
  <2>2. Proofs!Received(Byte)'
    BY <1>1, <2>1, ReceiveSteps, Proofs!ReadKeeps
  <2> QED
    BY <1>1, <2>1, <2>2 DEF patcher, LinkInv
<1>9. CASE UNCHANGED vars
  BY <1>1, <1>9, EndpointUnchanged DEF vars, patcher, LinkInv
<1> QED
  BY <1>2, <1>3, <1>4, <1>5, <1>6, <1>7, <1>8, <1>9 DEF Next, PatcherStep, UIStep

\* bduDataReceived never has more bytes than the queue takes, the case that
\* bulk_usb.c:455 calls "very bad".
THEOREM PacketsFit == Spec => []NothingDropped
<1>1. LinkInv => NothingDropped
  BY ReceiveSteps DEF LinkInv, Proofs!Received, NothingDropped
<1> QED
  BY <1>1, LinkInit, LinkStep, PTL DEF Spec
-----------------------------------------------------------------------------
(* Types *)

Decoder == [header : Letters \cup {"", "?"}, state : 0..3, buf : Seq(Byte), data : Seq(Byte)]

\* What a byte of a command does to the decoder.
Outcome(r) ==
    /\ r.dec \in Decoder
    /\ r.done = <<>> \/ \E c : r.done = <<c>> /\ c.letter \in Letters
    /\ r.ack \in BOOLEAN

LEMMA IdleIsDecoder == Idle \in Decoder
<1>1. <<>> \in Seq(Byte) /\ 0 \in 0..3
  OBVIOUS
<1> QED
  BY <1>1 DEF Idle, Decoder

LEMMA OnKeeps ==
    ASSUME NEW d \in Decoder
    PROVE  Outcome(On(d))
BY DEF On, Outcome

LEMMA CompletedKeeps ==
    ASSUME NEW l \in Letters, NEW a, NEW d
    PROVE  Outcome(Completed(l, a, d))
<1>1. Command(l, a, d).letter \in Letters
  BY DEF Command
<1>2. (l \in Acknowledged) \in BOOLEAN
  OBVIOUS
<1> QED
  BY <1>1, <1>2, IdleIsDecoder DEF Completed, Outcome

LEMMA MatchKeeps ==
    ASSUME NEW d \in Decoder, NEW b \in Byte
    PROVE  Outcome(Match(d, b))
<1>1. CASE d.state < 3
  <2> DEFINE n == IF b = Axo[d.state + 1] THEN d.state + 1 ELSE 0
  <2>1. n \in 0..3
    <3>1. d.state \in 0..3
      BY DEF Decoder
    <3>2. n = d.state + 1 \/ n = 0
      OBVIOUS
    <3> HIDE DEF n
    <3> QED
      BY <1>1, <3>1, <3>2
  <2>2. Match(d, b) = On([d EXCEPT !.state = n])
    BY <1>1 DEF Match
  <2> HIDE DEF n
  <2>3. [d EXCEPT !.state = n] \in Decoder
    BY <2>1 DEF Decoder
  <2> QED
    BY <2>2, <2>3, OnKeeps
<1>2. CASE ~(d.state < 3) /\ ~Known(b)
  <2>1. [Idle EXCEPT !.header = "?"] \in Decoder
    BY IdleIsDecoder DEF Decoder
  <2> QED
    BY <1>2, <2>1, IdleIsDecoder, OnKeeps DEF Match
<1>3. CASE ~(d.state < 3) /\ Known(b)
  <2>1. LetterOf(b) \in Letters
    BY <1>3 DEF Known, LetterOf
  <2> DEFINE l == LetterOf(b)
  <2> HIDE DEF l
  <2>2. [Idle EXCEPT !.header = l] \in Decoder
    BY <2>1, IdleIsDecoder DEF Decoder, l
  <2>3. \/ Match(d, b) = Completed(l, <<>>, <<>>)
        \/ Match(d, b) = On([Idle EXCEPT !.header = l])
    BY <1>3 DEF Match, l
  <2> QED
    BY <2>1, <2>2, <2>3, CompletedKeeps, OnKeeps DEF l
<1> QED
  BY <1>1, <1>2, <1>3

LEMMA DecoderKeeps ==
    ASSUME NEW d \in Decoder, NEW b \in Byte
    PROVE  Outcome(PExReceiveByte(d, b))
<1>1. CASE d.header = ""
  BY <1>1, MatchKeeps DEF PExReceiveByte
<1>2. CASE d.header = "?"
  BY <1>2, IdleIsDecoder, OnKeeps DEF PExReceiveByte
<1>3. CASE d.header \in Letters
  <2> DEFINE l == d.header
             buf == Append(d.buf, b)
             data == Append(d.data, b)
  <2>1. buf \in Seq(Byte) /\ data \in Seq(Byte)
    BY AppendProperties DEF Decoder
  <2> HIDE DEF buf, data
  <2>2. [d EXCEPT !.buf = buf] \in Decoder /\ [d EXCEPT !.data = data] \in Decoder
    <3>1. [d EXCEPT !.buf = buf] \in Decoder
      BY <2>1 DEF Decoder
    <3>2. [d EXCEPT !.data = data] \in Decoder
      BY <2>1 DEF Decoder
    <3> QED
      BY <3>1, <3>2
  <2>3. Outcome(On([d EXCEPT !.buf = buf])) /\ Outcome(On([d EXCEPT !.data = data]))
    BY <2>2, OnKeeps
  <2>4. Outcome(Field(d, b))
    <3>1. Field(d, b) = Completed(l, buf, <<>>) \/ Field(d, b) = On([d EXCEPT !.buf = buf])
      BY DEF Field, buf
    <3> QED
      BY <1>3, <2>3, <3>1, CompletedKeeps
  <2>5. Outcome(NameByte(d, b))
    <3>1. \/ NameByte(d, b) = Completed(Named, buf, <<>>)
          \/ NameByte(d, b) = On([d EXCEPT !.buf = buf])
      BY DEF NameByte, buf
    <3>2. Named \in Letters
      BY DEF Named, Letters, Code
    <3> QED
      BY <2>3, <3>1, <3>2, CompletedKeeps
  <2>6. Outcome(Datum(d, b))
    <3>1. \/ Datum(d, b) = Emptied(l)
          \/ Datum(d, b) = Completed(l, WithoutLength(l, d.buf), data)
          \/ Datum(d, b) = On([d EXCEPT !.data = data])
      BY DEF Datum, data
    <3>2. (l \in {"W", "R"}) \in BOOLEAN
      OBVIOUS
    <3>3. Outcome(Emptied(l))
      BY <3>2, IdleIsDecoder DEF Emptied, Outcome
    <3> QED
      BY <1>3, <2>3, <3>1, <3>3, CompletedKeeps
  <2>7. d.header # "" /\ d.header # "?"
    BY <1>3 DEF Letters, Code
  <2> QED
    BY <2>4, <2>5, <2>6, <2>7 DEF PExReceiveByte
<1> QED
  BY <1>1, <1>2, <1>3 DEF Decoder

TypeRest ==
    /\ txPc \in {"idle", "data", "wait"} /\ acked \in BOOLEAN
    /\ uploaded \subseteq DOMAIN sent
    /\ uiPc \in {"transmit", "receive"} /\ ackPending \in BOOLEAN
    /\ dec \in Decoder
    /\ \E C : carried \in Seq(C) /\ \A c \in C : c.letter \in Letters
    /\ replies \in Nat /\ acks \in Nat

LEMMA TypeRestInit == Init => TypeRest
<1> SUFFICES ASSUME Init PROVE TypeRest
  OBVIOUS
<1>1. carried \in Seq({}) /\ \A c \in {} : c.letter \in Letters
  BY DEF Init
<1>2. acked \in BOOLEAN /\ ackPending \in BOOLEAN
  BY Zenon DEF Init
<1> QED
  BY <1>1, <1>2, IdleIsDecoder DEF Init, TypeRest

LEMMA TypeRestStep == LinkInv /\ TypeRest /\ [Next]_vars => TypeRest'
<1> SUFFICES ASSUME LinkInv, TypeRest, [Next]_vars PROVE TypeRest'
  OBVIOUS
<1>0. /\ sent \in Seq(Asked \cup Played) /\ txAt \in 0..Len(sent) /\ (txPc # "idle" => txAt # 0)
      /\ DOMAIN sent = 1..Len(sent) /\ Len(sent) \in Nat
      /\ Proofs!Received(Byte)
  BY DEF LinkInv
<1>1. CASE TxHeader \/ SendMidi
  <2>1. PICK cmd \in Asked \cup Played : sent' = Append(sent, cmd)
    BY <1>1 DEF TxHeader, SendMidi
  <2>2. sent' \in Seq(Asked \cup Played) /\ Len(sent') = Len(sent) + 1
    BY <1>0, <2>1, AppendProperties
  <2>3. uploaded \subseteq DOMAIN sent'
    <3>1. DOMAIN sent' = 1..Len(sent) + 1
      BY <2>2
    <3> QED
      BY <1>0, <3>1 DEF TypeRest
  <2>4. /\ txPc' \in {"idle", "data", "wait"} /\ acked' \in {FALSE, acked}
        /\ UNCHANGED <<uploaded, board, replies, acks>>
    BY <1>1 DEF TxHeader, SendMidi, Written, TypeRest
  <2>5. acked' \in BOOLEAN
    BY <2>4 DEF TypeRest
  <2> QED
    BY <2>3, <2>4, <2>5 DEF board, TypeRest
<1>2. CASE TxData
  BY <1>2 DEF TxData, Written, board, TypeRest
<1>3. CASE WaitSync
  <2>1. txAt \in DOMAIN sent
    BY <1>0, <1>3 DEF WaitSync
  <2>2. uploaded' \subseteq DOMAIN sent /\ txPc' = "idle"
        /\ UNCHANGED <<sent, acked, board, replies, acks>>
    BY <1>3, <2>1 DEF WaitSync, TypeRest
  <2> QED
    BY <2>2 DEF board, TypeRest
<1>4. CASE Acknowledge
  <2>1. replies' \in Nat /\ acked' = TRUE
    BY <1>4 DEF Acknowledge, TypeRest
  <2>2. UNCHANGED <<txPc, sent, uploaded, board, acks>>
    BY <1>4 DEF Acknowledge
  <2> QED
    BY <2>1, <2>2 DEF board, TypeRest
<1>5. CASE PExTransmit
  <2>1. /\ uiPc' = "receive" /\ ackPending' = FALSE /\ replies' \in {replies, replies + 1}
        /\ acks' \in {acks, acks + 1} /\ UNCHANGED <<patcher, dec, carried>>
    BY <1>5 DEF PExTransmit
  <2>2. ackPending' \in BOOLEAN
    BY <2>1
  <2>3. replies' \in Nat /\ acks' \in Nat
    BY <2>1 DEF TypeRest
  <2> QED
    BY <2>1, <2>2, <2>3 DEF patcher, TypeRest
<1>6. CASE ReceiveByte
  <2> DEFINE r == PExReceiveByte(dec, Head(iqueue))
  <2>1. /\ iqueue # <<>> /\ dec' = r.dec /\ carried' = carried \o r.done
        /\ ackPending' = (ackPending \/ r.ack) /\ UNCHANGED <<patcher, uiPc, replies, acks>>
    BY <1>6 DEF ReceiveByte, USB!ReadByte
  <2>2. Head(iqueue) \in Byte
    BY <1>0, <2>1, HeadTailProperties DEF Proofs!Received, Proofs!TypeOK
  <2>3. Outcome(r)
    BY <2>2, DecoderKeeps DEF TypeRest
  <2> HIDE DEF r
  <2>4. dec' \in Decoder
    BY <2>1, <2>3 DEF Outcome
  <2>5. ackPending' \in BOOLEAN
    BY <2>1, <2>3 DEF Outcome, TypeRest
  <2>6. PICK C : carried \in Seq(C) /\ \A c \in C : c.letter \in Letters
    BY DEF TypeRest
  <2>7. \E D : carried' \in Seq(D) /\ \A c \in D : c.letter \in Letters
    <3>1. CASE r.done = <<>>
      <4>1. carried \o <<>> = carried
        BY <2>6, ConcatEmptySeq
      <4> QED
        BY <2>1, <2>6, <3>1, <4>1
    <3>2. CASE \E c : r.done = <<c>> /\ c.letter \in Letters
      <4>1. PICK c : r.done = <<c>> /\ c.letter \in Letters
        BY <3>2
      <4> DEFINE D == C \cup {c}
      <4>2. carried \in Seq(D)
        BY <2>6, SeqMonotonic
      <4>3. <<c>> \in Seq(D)
        OBVIOUS
      <4>4. \A d \in D : d.letter \in Letters
        BY <2>6, <4>1
      <4> HIDE DEF D
      <4>5. carried' \in Seq(D)
        BY <2>1, <4>1, <4>2, <4>3, ConcatProperties
      <4> QED
        BY <4>4, <4>5
    <3> QED
      BY <2>3, <3>1, <3>2 DEF Outcome
  <2> QED
    BY <2>1, <2>4, <2>5, <2>7 DEF patcher, TypeRest
<1>7. CASE ReceiveEnd
  BY <1>7 DEF ReceiveEnd, patcher, TypeRest
<1>8. CASE Endpoint \/ UNCHANGED vars
  BY <1>8 DEF Endpoint, vars, patcher, board, TypeRest
<1> QED
  BY <1>1, <1>2, <1>3, <1>4, <1>5, <1>6, <1>7, <1>8 DEF Next, PatcherStep, UIStep

\* Every variable keeps its type: whatever bytes arrive, the decoder counts no
\* further than "Axo", names a command it knows and carries out no other, and a
\* block reported uploaded is one that was sent.
THEOREM TypeCorrect == Spec => []TypeOK
<1>1. LinkInv /\ TypeRest => TypeOK
  <2> SUFFICES ASSUME LinkInv, TypeRest PROVE TypeOK
    OBVIOUS
  <2>1. USB!TypeOK(Byte)
    BY DEF LinkInv, Proofs!Received, Proofs!TypeOK, USB!TypeOK
  <2>2. \A i \in DOMAIN carried : carried[i].letter \in Letters
    <3>1. PICK C : carried \in Seq(C) /\ \A c \in C : c.letter \in Letters
      BY DEF TypeRest
    <3> TAKE i \in DOMAIN carried
    <3>2. i \in 1..Len(carried)
      BY <3>1, LenProperties
    <3>3. carried[i] \in C
      BY <3>1, <3>2, ElementOfSeq
    <3> QED
      BY <3>1, <3>3
  <2> QED
    BY <2>1, <2>2 DEF LinkInv, TypeRest, TypeOK, Decoder
<1>2. LinkInv /\ TypeRest /\ [Next]_vars => LinkInv' /\ TypeRest'
  BY LinkStep, TypeRestStep
<1> QED
  BY <1>1, <1>2, LinkInit, TypeRestInit, PTL DEF Spec
-----------------------------------------------------------------------------
(* The decoder, and the bytes of a command *)

\* The fields as they are sent.
FieldsOf(cmd) ==
    IF cmd.letter \in WithData
      THEN SubSeq(cmd.args, 1, LengthAt[cmd.letter] - 1) \o Bytes4(Len(cmd.data))
             \o SubSeq(cmd.args, LengthAt[cmd.letter], Len(cmd.args))
      ELSE cmd.args

Encoding(cmd) == HeaderOf(cmd) \o cmd.data

LEMMA OneLetter ==
    ASSUME NEW l \in Letters
    PROVE  Known(Code[l]) /\ LetterOf(Code[l]) = l
<1>1. \A m \in Letters : Code[m] = Code[l] => m = l
  BY DEF Letters, Code
<1>2. LetterOf(Code[l]) \in Letters /\ Code[LetterOf(Code[l])] = Code[l]
  BY DEF LetterOf
<1> QED
  BY <1>1, <1>2 DEF Known

\* The length of the data is what the board reads.
LEMMA LengthIsRead ==
    ASSUME NEW n \in Lengths
    PROVE  Int4(Bytes4(n)) = n
<1> DEFINE n1 == n \div 256
           n2 == n \div 65536
           n3 == n \div 16777216
<1>0. n \in Nat
  BY SMT DEF Lengths
<1>1. /\ n = 256 * n1 + (n % 256)
      /\ n1 = 256 * n2 + (n1 % 256)
      /\ n2 = 256 * n3 + (n2 % 256)
  BY <1>0, SMT
<1>2. n3 \in 0..255
  BY SMT DEF Lengths
<1>3. n3 % 256 = n3
  BY <1>2, SMT
<1>4. Bytes4(n) = <<n % 256, n1 % 256, n2 % 256, n3>>
  BY <1>3, SMT DEF Bytes4
<1>5. n1 \in Nat /\ n2 \in Nat /\ n % 256 \in Nat /\ n1 % 256 \in Nat /\ n2 % 256 \in Nat
  BY <1>0, SMT
<1> DEFINE a == n % 256
           b == n1 % 256
           c == n2 % 256
<1>6. a \in Nat /\ b \in Nat /\ c \in Nat
  BY <1>5
<1>7. n = 256 * n1 + a /\ n1 = 256 * n2 + b /\ n2 = 256 * n3 + c
  BY <1>1
<1>8. Bytes4(n) = <<a, b, c, n3>>
  BY <1>4
<1> HIDE DEF a, b, c, n1, n2, n3
<1>9. Int4(<<a, b, c, n3>>) = a + 256 * (b + 256 * (c + 256 * n3))
  BY DEF Int4
<1> QED
  BY <1>0, <1>2, <1>5, <1>6, <1>7, <1>8, <1>9

\* What stands between two others.
LEMMA Inserted ==
    ASSUME NEW a \in Seq(Byte), NEW t \in Seq(Byte), Len(t) = 4, NEW p \in 1..Len(a) + 1
    PROVE  LET q == SubSeq(a, 1, p - 1) \o t \o SubSeq(a, p, Len(a))
           IN  /\ q \in Seq(Byte) /\ Len(q) = Len(a) + 4
               /\ SubSeq(q, p, p + 3) = t
               /\ SubSeq(q, 1, p - 1) \o SubSeq(q, p + 4, Len(q)) = a
<1> DEFINE b == SubSeq(a, 1, p - 1)
           c == SubSeq(a, p, Len(a))
           q == b \o t \o c
<1>1. b \in Seq(Byte) /\ Len(b) = p - 1 /\ \A i \in 1..p - 1 : b[i] = a[i]
  <2>1. \A i \in 1..p - 1 : a[i] \in Byte
    BY ElementOfSeq
  <2> QED
    BY <2>1, SubSeqProperties
<1>2. c \in Seq(Byte) /\ Len(c) = Len(a) - p + 1 /\ \A i \in 1..Len(a) - p + 1 : c[i] = a[p + i - 1]
  <2>1. \A i \in p..Len(a) : a[i] \in Byte
    BY ElementOfSeq
  <2> QED
    BY <2>1, SubSeqProperties
<1>0. Len(a) \in Nat /\ p \in Nat /\ p >= 1 /\ p <= Len(a) + 1
  OBVIOUS
<1> HIDE DEF b, c
<1> DEFINE bt == b \o t
<1>3. bt \in Seq(Byte) /\ Len(bt) = p + 3
      /\ \A i \in 1..p + 3 : bt[i] = IF i <= p - 1 THEN a[i] ELSE t[i - (p - 1)]
  <2>1. bt \in Seq(Byte) /\ Len(bt) = Len(b) + Len(t)
        /\ \A i \in 1..Len(b) + Len(t) : bt[i] = IF i <= Len(b) THEN b[i] ELSE t[i - Len(b)]
    BY <1>1, ConcatProperties
  <2>2. Len(b) + Len(t) = p + 3
    BY <1>0, <1>1
  <2>3. ASSUME NEW i \in 1..p + 3 PROVE bt[i] = IF i <= p - 1 THEN a[i] ELSE t[i - (p - 1)]
    <3>1. bt[i] = IF i <= p - 1 THEN b[i] ELSE t[i - (p - 1)]
      BY <1>1, <2>1, <2>2
    <3> QED
      BY <1>0, <1>1, <3>1
  <2> QED
    BY <2>1, <2>2, <2>3
<1> HIDE DEF bt
<1>4. q \in Seq(Byte) /\ Len(q) = Len(a) + 4
      /\ \A i \in 1..Len(a) + 4 : q[i] = IF i <= p + 3 THEN bt[i] ELSE c[i - (p + 3)]
  <2>1. q = bt \o c
    BY DEF bt
  <2>2. q \in Seq(Byte) /\ Len(q) = Len(bt) + Len(c)
        /\ \A i \in 1..Len(bt) + Len(c) : q[i] = IF i <= Len(bt) THEN bt[i] ELSE c[i - Len(bt)]
    <3>1. bt \o c \in Seq(Byte) /\ Len(bt \o c) = Len(bt) + Len(c)
          /\ \A i \in 1..Len(bt) + Len(c) :
                 (bt \o c)[i] = IF i <= Len(bt) THEN bt[i] ELSE c[i - Len(bt)]
      BY <1>2, <1>3, ConcatProperties
    <3> HIDE DEF q
    <3> QED
      BY <2>1, <3>1
  <2>3. Len(bt) + Len(c) = Len(a) + 4 /\ Len(bt) = p + 3
    BY <1>0, <1>2, <1>3
  <2> QED
    BY <2>2, <2>3
<1> HIDE DEF q
<1>5. \A i \in 1..Len(a) + 4 : q[i] \in Byte
  BY <1>4, ElementOfSeq
<1>6. SubSeq(q, p, p + 3) = t
  <2> DEFINE u == SubSeq(q, p, p + 3)
  <2>1. u \in Seq(Byte) /\ Len(u) = 4 /\ \A i \in 1..4 : u[i] = q[p + i - 1]
    <3>1. \A i \in p..p + 3 : q[i] \in Byte
      BY <1>5
    <3> QED
      BY <3>1, SubSeqProperties
  <2> HIDE DEF u
  <2>2. ASSUME NEW i \in 1..4 PROVE u[i] = t[i]
    <3> DEFINE j == p + i - 1
    <3>1. /\ j \in 1..Len(a) + 4 /\ j \in 1..p + 3 /\ j <= p + 3 /\ ~(j <= p - 1)
          /\ j - (p - 1) = i
      BY <1>0
    <3>2. u[i] = q[j]
      BY <2>1
    <3> HIDE DEF j
    <3>3. q[j] = bt[j]
      BY <1>4, <3>1
    <3>4. bt[j] = t[j - (p - 1)]
      BY <1>3, <3>1
    <3> QED
      BY <3>1, <3>2, <3>3, <3>4
  <2> QED
    BY <2>1, <2>2, SeqEqual DEF u
<1>7. SubSeq(q, 1, p - 1) \o SubSeq(q, p + 4, Len(q)) = a
  <2> DEFINE u == SubSeq(q, 1, p - 1)
             v == SubSeq(q, p + 4, Len(q))
  <2>1. u \in Seq(Byte) /\ Len(u) = p - 1 /\ \A i \in 1..p - 1 : u[i] = q[i]
    <3>1. \A i \in 1..p - 1 : q[i] \in Byte
      BY <1>5
    <3> QED
      BY <3>1, SubSeqProperties
  <2>2. v \in Seq(Byte) /\ Len(v) = Len(a) - p + 1 /\ \A i \in 1..Len(a) - p + 1 : v[i] = q[p + 4 + i - 1]
    <3>1. \A i \in p + 4..Len(q) : q[i] \in Byte
      BY <1>4, <1>5
    <3> QED
      BY <1>4, <3>1, SubSeqProperties
  <2> HIDE DEF u, v
  <2>3. u \o v \in Seq(Byte) /\ Len(u \o v) = Len(a)
        /\ \A i \in 1..Len(a) : (u \o v)[i] = IF i <= p - 1 THEN u[i] ELSE v[i - (p - 1)]
    BY <2>1, <2>2, ConcatProperties
  <2>4. ASSUME NEW i \in 1..Len(a) PROVE (u \o v)[i] = a[i]
    <3>1. CASE i <= p - 1
      BY <1>3, <1>4, <2>1, <2>3, <3>1
    <3>2. CASE i > p - 1
      <4>1. v[i - (p - 1)] = q[i + 4]
        BY <2>2, <3>2
      <4>2. q[i + 4] = c[i - (p - 1)]
        BY <1>4, <3>2
      <4>3. c[i - (p - 1)] = a[i]
        BY <1>2, <3>2
      <4> QED
        BY <2>3, <3>2, <4>1, <4>2, <4>3
    <3>3. i <= p - 1 \/ i > p - 1
      BY <1>0
    <3> QED
      BY <3>1, <3>2, <3>3
  <2> QED
    BY <2>3, <2>4, SeqEqual DEF u, v
<1> QED
  BY <1>4, <1>6, <1>7 DEF q, b, c

LEMMA FieldFacts ==
    ASSUME NEW cmd, Complete(cmd)
    PROVE  /\ FieldsOf(cmd) \in Seq(Byte) /\ cmd.data \in Seq(Byte) /\ cmd.letter \in Letters
           /\ HeaderOf(cmd) = Axo \o <<Code[cmd.letter]>> \o FieldsOf(cmd)
           /\ cmd.letter \in WithData =>
                /\ Len(FieldsOf(cmd)) = Fields[cmd.letter]
                /\ DataLength(cmd.letter, FieldsOf(cmd)) = Len(cmd.data)
                /\ Len(cmd.data) \in Nat \ {0}
                /\ cmd = Command(cmd.letter, WithoutLength(cmd.letter, FieldsOf(cmd)), cmd.data)
           /\ cmd.letter \notin WithData =>
                /\ cmd.data = <<>> /\ cmd = Command(cmd.letter, FieldsOf(cmd), <<>>)
                /\ cmd.letter # Named => Len(FieldsOf(cmd)) = Fields[cmd.letter]
           /\ cmd.letter = Named => NameEnds(FieldsOf(cmd)) /\ cmd.letter \notin WithData
<1> DEFINE l == cmd.letter
           a == cmd.args
           d == cmd.data
<1>1. /\ l \in Letters /\ a \in Seq(Byte) /\ d \in Seq(Byte)
      /\ l \in WithData => Len(a) = Fields[l] - 4 /\ Len(d) \in Lengths
      /\ l \notin WithData => d = <<>> /\ (l # Named => Len(a) = Fields[l])
      /\ l = Named => NameEnds(a)
      /\ cmd = Command(l, a, d)
  BY DEF Complete, WellFormed
<1>2. HeaderOf(cmd) = Axo \o <<Code[l]>> \o FieldsOf(cmd)
  BY DEF HeaderOf, FieldsOf
<1>3. l = Named => l \notin WithData
  BY DEF Named, WithData
<1>4. CASE l \notin WithData
  <2>1. FieldsOf(cmd) = a
    BY <1>4 DEF FieldsOf
  <2> QED
    BY <1>1, <1>2, <1>3, <1>4, <2>1
<1>5. CASE l \in WithData
  <2> DEFINE p == LengthAt[l]
             t == Bytes4(Len(d))
             q == SubSeq(a, 1, p - 1) \o t \o SubSeq(a, p, Len(a))
  <2>1. p \in {1, 5} /\ Fields[l] \in Nat /\ p <= Fields[l] - 3
    BY <1>1, <1>5 DEF WithData, LengthAt, Fields, Letters, Code
  <2>2. Len(d) \in Nat \ {0}
    BY <1>1, <1>5 DEF Lengths
  <2>3. t \in Seq(Byte) /\ Len(t) = 4
    <3>1. t \in Seq(Byte)
      BY <2>2, LengthsAreBytes
    <3>2. Len(t) = 4
      BY DEF Bytes4
    <3> QED
      BY <3>1, <3>2
  <2>4. Int4(t) = Len(d)
    BY <1>1, <1>5, LengthIsRead
  <2>5. FieldsOf(cmd) = q
    BY <1>5 DEF FieldsOf
  <2> HIDE DEF p, t
  <2>6. p \in 1..Len(a) + 1 /\ Len(a) + 4 = Fields[l]
    BY <1>1, <1>5, <2>1
  <2>7. /\ q \in Seq(Byte) /\ Len(q) = Fields[l] /\ SubSeq(q, p, p + 3) = t
        /\ SubSeq(q, 1, p - 1) \o SubSeq(q, p + 4, Len(q)) = a
    <3>1. /\ q \in Seq(Byte) /\ Len(q) = Len(a) + 4 /\ SubSeq(q, p, p + 3) = t
          /\ SubSeq(q, 1, p - 1) \o SubSeq(q, p + 4, Len(q)) = a
      <4> HIDE DEF a
      <4> QED
        BY <1>1, <2>3, <2>6, Inserted, Zenon
    <3> QED
      BY <2>6, <3>1
  <2> HIDE DEF q
  <2>8. DataLength(l, q) = Len(d) /\ WithoutLength(l, q) = a
    BY <2>4, <2>7 DEF DataLength, WithoutLength, p
  <2> QED
    BY <1>1, <1>2, <1>3, <1>5, <2>2, <2>5, <2>7, <2>8
<1> QED
  BY <1>4, <1>5

LEMMA Joined ==
    ASSUME NEW s \in Seq(Byte), NEW t \in Seq(Byte), NEW n, Len(s) = n
    PROVE  /\ s \o t \in Seq(Byte) /\ Len(s \o t) = n + Len(t)
           /\ \A i \in 1..n + Len(t) : (s \o t)[i] = IF i <= n THEN s[i] ELSE t[i - n]
BY ConcatProperties

LEMMA EncodingAt ==
    ASSUME NEW cmd, Complete(cmd)
    PROVE  LET q == FieldsOf(cmd)  e == Encoding(cmd)
           IN  /\ e \in Seq(Byte) /\ Len(e) = 4 + Len(q) + Len(cmd.data)
               /\ \A i \in 1..3 : e[i] = Axo[i]
               /\ e[4] = Code[cmd.letter]
               /\ \A i \in 1..Len(q) : e[4 + i] = q[i]
               /\ \A i \in 1..Len(cmd.data) : e[4 + Len(q) + i] = cmd.data[i]
<1> DEFINE q == FieldsOf(cmd)
           d == cmd.data
           k == Code[cmd.letter]
           ak == Axo \o <<k>>
           h == ak \o q
           e == h \o d
<1>1. q \in Seq(Byte) /\ d \in Seq(Byte) /\ k \in Byte /\ Encoding(cmd) = e
  BY FieldFacts, CodesAreBytes DEF Encoding
<1> HIDE DEF q, d, k
<1>2. ak \in Seq(Byte) /\ Len(ak) = 4 /\ (\A i \in 1..3 : ak[i] = Axo[i]) /\ ak[4] = k
  <2>1. Axo \in Seq(Byte) /\ Len(Axo) = 3 /\ <<k>> \in Seq(Byte) /\ Len(<<k>>) = 1
    BY <1>1 DEF Axo, Byte
  <2>2. /\ ak \in Seq(Byte) /\ Len(ak) = 4
        /\ \A i \in 1..4 : ak[i] = IF i <= 3 THEN Axo[i] ELSE <<k>>[i - 3]
    <3>1. /\ ak \in Seq(Byte) /\ Len(ak) = Len(Axo) + Len(<<k>>)
          /\ \A i \in 1..Len(Axo) + Len(<<k>>) :
                 ak[i] = IF i <= Len(Axo) THEN Axo[i] ELSE <<k>>[i - Len(Axo)]
      BY <2>1, ConcatProperties
    <3> HIDE DEF ak
    <3> QED
      BY <2>1, <3>1
  <2> QED
    BY <2>2
<1> HIDE DEF ak
<1>3. Len(q) \in Nat /\ Len(d) \in Nat
  BY <1>1
<1>4. h \in Seq(Byte) /\ Len(h) = 4 + Len(q)
      /\ \A i \in 1..4 + Len(q) : h[i] = IF i <= 4 THEN ak[i] ELSE q[i - 4]
  <2> DEFINE s == ak \o q
  <2>1. ak \in Seq(Byte) /\ q \in Seq(Byte) /\ Len(ak) = 4
    BY <1>1, <1>2
  <2>2. s \in Seq(Byte) /\ Len(s) = Len(ak) + Len(q)
        /\ \A i \in 1..Len(ak) + Len(q) : s[i] = IF i <= Len(ak) THEN ak[i] ELSE q[i - Len(ak)]
    BY <2>1, ConcatProperties
  <2> HIDE DEF s
  <2>3. s \in Seq(Byte) /\ Len(s) = 4 + Len(q)
        /\ \A i \in 1..4 + Len(q) : s[i] = IF i <= 4 THEN ak[i] ELSE q[i - 4]
    BY <2>1, <2>2
  <2> QED
    BY <2>3 DEF h, s
<1> HIDE DEF h
<1>5. e \in Seq(Byte) /\ Len(e) = 4 + Len(q) + Len(d)
      /\ \A i \in 1..4 + Len(q) + Len(d) :
             e[i] = IF i <= 4 + Len(q) THEN h[i] ELSE d[i - (4 + Len(q))]
  <2> DEFINE n == 4 + Len(q)
             s == h \o d
  <2>1. h \in Seq(Byte) /\ d \in Seq(Byte) /\ Len(h) = n
    BY <1>1, <1>4
  <2> HIDE DEF n
  <2>2. s \in Seq(Byte) /\ Len(s) = n + Len(d)
        /\ \A i \in 1..n + Len(d) : s[i] = IF i <= n THEN h[i] ELSE d[i - n]
    BY <2>1, Joined
  <2> QED
    BY <2>2, Zenon DEF n
<1> HIDE DEF e
<1>6. \A i \in 1..4 : e[i] = ak[i]
  BY <1>3, <1>4, <1>5
<1>7. \A i \in 1..Len(q) : e[4 + i] = q[i]
  <2> TAKE i \in 1..Len(q)
  <2>1. e[4 + i] = h[4 + i]
    BY <1>3, <1>5
  <2>2. h[4 + i] = q[i]
    BY <1>3, <1>4
  <2> QED
    BY <2>1, <2>2
<1>8. \A i \in 1..Len(d) : e[4 + Len(q) + i] = d[i]
  <2> TAKE i \in 1..Len(d)
  <2> DEFINE j == 4 + Len(q) + i
  <2>1. j \in 1..4 + Len(q) + Len(d) /\ ~(j <= 4 + Len(q)) /\ j - (4 + Len(q)) = i
    BY <1>3
  <2> HIDE DEF j
  <2>2. e[j] = d[i]
    BY <1>5, <2>1
  <2> QED
    BY <2>2 DEF j
<1>9. e[4] = k /\ \A i \in 1..3 : e[i] = Axo[i]
  BY <1>2, <1>6
<1> QED
  BY <1>1, <1>5, <1>7, <1>8, <1>9 DEF q, d, k

\* The decoder after so many bytes of a command.
After(cmd, n) ==
    LET q == FieldsOf(cmd)
    IN  IF n < 4 THEN [Idle EXCEPT !.state = n]
        ELSE IF n - 4 <= Len(q)
          THEN [header |-> cmd.letter, state |-> 0, buf |-> SubSeq(q, 1, n - 4), data |-> <<>>]
          ELSE [header |-> cmd.letter, state |-> 0, buf |-> q,
                data |-> SubSeq(cmd.data, 1, n - 4 - Len(q))]

\* The n-th byte brings the decoder a byte further, and the last one completes the
\* command.
Decodes(cmd, n) ==
    LET r == PExReceiveByte(After(cmd, n - 1), Encoding(cmd)[n])
    IN  IF n = Len(Encoding(cmd))
          THEN r = [dec |-> Idle, done |-> <<cmd>>, ack |-> cmd.letter \in Acknowledged]
          ELSE r = On(After(cmd, n))

LEMMA AfterNone == \A cmd : After(cmd, 0) = Idle
<1> TAKE cmd
<1>1. After(cmd, 0) = [Idle EXCEPT !.state = 0]
  BY DEF After
<1> QED
  BY <1>1 DEF Idle

LEMMA Headed ==
    ASSUME NEW l, NEW none, NEW z, NEW empty
    PROVE  [[header |-> none, state |-> z, buf |-> empty, data |-> empty] EXCEPT !.header = l]
             = [header |-> l, state |-> z, buf |-> empty, data |-> empty]
OBVIOUS

LEMMA Grown ==
    ASSUME NEW l, NEW z, NEW x, NEW y, NEW more
    PROVE  /\ [[header |-> l, state |-> z, buf |-> x, data |-> y] EXCEPT !.buf = more]
                = [header |-> l, state |-> z, buf |-> more, data |-> y]
           /\ [[header |-> l, state |-> z, buf |-> x, data |-> y] EXCEPT !.data = more]
                = [header |-> l, state |-> z, buf |-> x, data |-> more]
OBVIOUS

LEMMA LetterDecoded ==
    ASSUME NEW cmd, Complete(cmd), NEW n \in 1..4
    PROVE  Decodes(cmd, n)
<1> DEFINE q == FieldsOf(cmd)
           e == Encoding(cmd)
           l == cmd.letter
           d == cmd.data
<1>1. /\ Len(q) \in Nat /\ Len(d) \in Nat /\ Len(e) = 4 + Len(q) + Len(d)
      /\ (\A i \in 1..3 : e[i] = Axo[i]) /\ e[4] = Code[l]
  <2>1. q \in Seq(Byte) /\ d \in Seq(Byte)
    BY FieldFacts
  <2>2. /\ Len(e) = 4 + Len(q) + Len(d)
        /\ (\A i \in 1..3 : e[i] = Axo[i]) /\ e[4] = Code[l]
    BY EncodingAt, Zenon
  <2> HIDE DEF q, d, e, l
  <2> QED
    BY <2>1, <2>2
<1>2. l \in Letters
  BY FieldFacts
<1> HIDE DEF e, q, l
<1>3. After(cmd, n - 1) = [Idle EXCEPT !.state = n - 1]
  BY DEF After
<1> DEFINE was == [Idle EXCEPT !.state = n - 1]
<1>4. PExReceiveByte(was, e[n]) = Match(was, e[n]) /\ was.state = n - 1
  BY DEF PExReceiveByte, Idle
<1>5. CASE n < 4
  <2>1. Match(was, e[n]) = On([was EXCEPT !.state = IF e[n] = Axo[n - 1 + 1] THEN n - 1 + 1 ELSE 0])
    BY <1>4, <1>5 DEF Match
  <2>2. n - 1 + 1 = n /\ e[n] = Axo[n] /\ n # Len(e)
    <3>1. n \in 1..3 /\ n - 1 + 1 = n
      BY <1>5
    <3>2. e[n] = Axo[n]
      BY <1>1, <3>1
    <3>3. n # Len(e)
      <4> HIDE DEF d
      <4> QED
        BY <1>1, <1>5
    <3> QED
      BY <3>1, <3>2, <3>3
  <2>3. Match(was, e[n]) = On([was EXCEPT !.state = n])
    BY <2>1, <2>2
  <2>4. [was EXCEPT !.state = n] = After(cmd, n)
    BY <1>5 DEF After, Idle
  <2> QED
    BY <1>3, <1>4, <2>2, <2>3, <2>4 DEF Decodes, e
<1>6. CASE n = 4
  <2>1. Known(e[4]) /\ LetterOf(e[4]) = l
    BY <1>1, <1>2, OneLetter
  <2>2. Match(was, e[n]) = IF Fields[l] = 0 THEN Completed(l, <<>>, <<>>)
                                            ELSE On([Idle EXCEPT !.header = l])
    BY <1>4, <1>6, <2>1 DEF Match
  <2>3. CASE Fields[l] = 0
    <3>1. l \notin WithData /\ l # Named
      BY <2>3 DEF Fields, WithData, Named, Letters, Code
    <3>2. d = <<>> /\ cmd = Command(l, q, <<>>) /\ Len(q) = 0 /\ q \in Seq(Byte)
      BY <2>3, <3>1, FieldFacts DEF q, l
    <3>3. q = <<>> /\ n = Len(e)
      BY <1>1, <1>6, <3>2
    <3>4. Completed(l, <<>>, <<>>) = [dec |-> Idle, done |-> <<cmd>>, ack |-> l \in Acknowledged]
      BY <3>2, <3>3 DEF Completed
    <3> QED
      BY <1>3, <1>4, <2>2, <2>3, <3>3, <3>4 DEF Decodes, e, l
  <2>4. CASE Fields[l] # 0
    <3>1. Len(q) # 0
      <4>1. CASE l = Named
        <5>1. NameEnds(q)
          BY <4>1, FieldFacts DEF q, l
        <5> QED
          BY <1>1, <5>1 DEF NameEnds
      <4>2. CASE l # Named
        BY <2>4, <4>2, FieldFacts DEF q, l
      <4> QED
        BY <4>1, <4>2
    <3>2. n # Len(e)
      <4> HIDE DEF d
      <4> QED
        BY <1>1, <1>6, <3>1
    <3>3. SubSeq(q, 1, 0) = <<>>
      BY SubSeqEmpty
    <3>4. After(cmd, 4) = [header |-> l, state |-> 0, buf |-> <<>>, data |-> <<>>]
      BY <1>1, <3>3 DEF After, q, l
    <3>5. [Idle EXCEPT !.header = l] = After(cmd, 4)
      <4>1. [Idle EXCEPT !.header = l] = [header |-> l, state |-> 0, buf |-> <<>>, data |-> <<>>]
        <5> DEFINE none == ""
                   z == 0
                   empty == <<>>
        <5>1. Idle = [header |-> none, state |-> z, buf |-> empty, data |-> empty]
          BY DEF Idle
        <5> HIDE DEF none, z, empty
        <5>2. [Idle EXCEPT !.header = l]
                = [header |-> l, state |-> z, buf |-> empty, data |-> empty]
          BY <5>1, Headed
        <5> QED
          BY <5>2 DEF z, empty
      <4> QED
        BY <3>4, <4>1
    <3> QED
      BY <1>3, <1>4, <1>6, <2>2, <2>4, <3>2, <3>5 DEF Decodes, e
  <2> QED
    BY <2>3, <2>4
<1> QED
  BY <1>5, <1>6

LEMMA Prefixes ==
    ASSUME NEW s \in Seq(Byte), NEW m \in 1..Len(s)
    PROVE  /\ SubSeq(s, 1, m - 1) \in Seq(Byte) /\ Len(SubSeq(s, 1, m - 1)) = m - 1
           /\ Append(SubSeq(s, 1, m - 1), s[m]) = SubSeq(s, 1, m) /\ Len(SubSeq(s, 1, m)) = m
<1>1. \A i \in 1..m : s[i] \in Byte
  BY ElementOfSeq
<1> DEFINE t == SubSeq(s, 1, m - 1)
           u == SubSeq(s, 1, m)
<1>2. t \in Seq(Byte) /\ Len(t) = m - 1 /\ \A i \in 1..m - 1 : t[i] = s[i]
  <2>1. \A i \in 1..m - 1 : s[i] \in Byte
    BY <1>1
  <2> QED
    BY <2>1, SubSeqProperties
<1>3. u \in Seq(Byte) /\ Len(u) = m /\ \A i \in 1..m : u[i] = s[i]
  BY <1>1, SubSeqProperties
<1> HIDE DEF t, u
<1>4. s[m] \in Byte
  BY <1>1
<1>5. Append(t, s[m]) \in Seq(Byte) /\ Len(Append(t, s[m])) = m
      /\ \A i \in 1..m : Append(t, s[m])[i] = u[i]
  BY <1>2, <1>3, <1>4, AppendProperties
<1>6. Append(t, s[m]) = u
  BY <1>3, <1>5, SeqEqual
<1> QED
  BY <1>2, <1>3, <1>6 DEF t, u

LEMMA BytesDecoded ==
    ASSUME NEW cmd, Complete(cmd), NEW n \in 5..Len(Encoding(cmd))
    PROVE  Decodes(cmd, n)
<1> DEFINE q == FieldsOf(cmd)
           e == Encoding(cmd)
           l == cmd.letter
           d == cmd.data
           m == n - 4
           b == e[n]
           was == After(cmd, n - 1)
<1>1. q \in Seq(Byte) /\ d \in Seq(Byte) /\ l \in Letters /\ Fields[l] \in Nat
  <2>1. l \in Letters
    BY FieldFacts
  <2>2. Fields[l] \in Nat
    BY <2>1 DEF Fields, Letters, Code
  <2> QED
    BY <2>1, <2>2, FieldFacts
<1>2. Len(e) = 4 + Len(q) + Len(d) /\ e \in Seq(Byte)
      /\ (\A i \in 1..Len(q) : e[4 + i] = q[i]) /\ (\A i \in 1..Len(d) : e[4 + Len(q) + i] = d[i])
  BY EncodingAt, Zenon
<1>3. /\ l \in WithData => Len(q) = Fields[l] /\ DataLength(l, q) = Len(d) /\ Len(d) \in Nat \ {0}
                           /\ cmd = Command(l, WithoutLength(l, q), d)
      /\ l \notin WithData => d = <<>> /\ cmd = Command(l, q, <<>>)
                              /\ (l # Named => Len(q) = Fields[l])
      /\ l = Named => NameEnds(q) /\ l \notin WithData
  BY FieldFacts, Zenon
<1>4. l # "" /\ l # "?"
  BY <1>1 DEF Letters, Code
<1> DEFINE Done == [dec |-> Idle, done |-> <<cmd>>, ack |-> l \in Acknowledged]
<1>5. SUFFICES PExReceiveByte(was, b) = IF n = Len(e) THEN Done ELSE On(After(cmd, n))
  BY Zenon DEF Decodes
<1> HIDE DEF e, q, l, d
<1>6. Len(q) \in Nat /\ Len(d) \in Nat /\ m \in 1..Len(q) + Len(d) /\ n = 4 + m
      /\ (n = Len(e) <=> m = Len(q) + Len(d))
  <2>1. Len(q) \in Nat /\ Len(d) \in Nat
    BY <1>1
  <2>2. n \in 5..Len(e)
    BY DEF e
  <2> QED
    BY <1>2, <2>1, <2>2
<1>7. CASE m <= Len(q)
  <2> DEFINE buf == SubSeq(q, 1, m - 1)
  <2>0. m \in 1..Len(q) /\ m - 1 \in Nat
    BY <1>6, <1>7
  <2>1. was = [header |-> l, state |-> 0, buf |-> buf, data |-> <<>>]
    <3>1. ~(n - 1 < 4) /\ n - 1 - 4 = m - 1 /\ m - 1 <= Len(q)
      BY <1>6, <1>7
    <3> HIDE DEF m
    <3> QED
      BY <3>1 DEF After, q, l
  <2>2. b = q[m]
    BY <1>2, <1>6, <1>7
  <2>3. Append(buf, b) = SubSeq(q, 1, m) /\ Len(buf) = m - 1 /\ Len(Append(buf, b)) = m
        /\ buf \in Seq(Byte)
    BY <1>1, <2>0, <2>2, Prefixes
  <2>4. [was EXCEPT !.buf = Append(buf, b)] = After(cmd, n)
    <3>1. ~(n < 4) /\ n - 4 = m /\ m <= Len(q)
      BY <1>6, <1>7
    <3> HIDE DEF m, buf
    <3>2. After(cmd, n) = [header |-> l, state |-> 0, buf |-> SubSeq(q, 1, m), data |-> <<>>]
      BY <3>1 DEF After, q, l
    <3> DEFINE z == 0
               empty == <<>>
               more == Append(buf, b)
    <3>3. was = [header |-> l, state |-> z, buf |-> buf, data |-> empty]
          /\ After(cmd, n) = [header |-> l, state |-> z, buf |-> more, data |-> empty]
      BY <2>1, <2>3, <3>2
    <3> HIDE DEF was, z, empty, more
    <3>4. [was EXCEPT !.buf = more] = After(cmd, n)
      BY <3>3, Grown
    <3> QED
      BY <3>4 DEF more
  <2> HIDE DEF was, buf, b, m
  <2>5. CASE m <= Fields[l]
    <3>1. PExReceiveByte(was, b) = Field(was, b)
      <4>1. Len(was.buf) < Fields[was.header] /\ was.header # "" /\ was.header # "?"
        <5>1. was.buf = buf /\ was.header = l
          BY <2>1
        <5>2. m - 1 < Fields[l]
          BY <1>1, <2>0, <2>5
        <5>3. Len(was.buf) = m - 1
          BY <2>3, <5>1
        <5> QED
          BY <1>4, <5>1, <5>2, <5>3, Zenon
      <4> QED
        BY <4>1, Zenon DEF PExReceiveByte
    <3>2. Field(was, b) = IF m = Fields[l] /\ l \notin WithData \cup {Named}
                            THEN Completed(l, SubSeq(q, 1, m), <<>>)
                            ELSE On([was EXCEPT !.buf = Append(buf, b)])
      BY <2>1, <2>3 DEF Field
    <3>3. CASE m = Fields[l] /\ l \notin WithData \cup {Named}
      <4>1. m = Len(q) /\ d = <<>> /\ cmd = Command(l, q, <<>>)
        BY <1>3, <3>3
      <4>2. n = Len(e) /\ SubSeq(q, 1, m) = q
        BY <1>1, <1>6, <4>1, SubSeqFull
      <4> QED
        BY <3>1, <3>2, <3>3, <4>1, <4>2 DEF Completed
    <3>4. CASE ~(m = Fields[l] /\ l \notin WithData \cup {Named})
      <4>1. n # Len(e)
        <5>1. m # Len(q) + Len(d)
          <6>1. CASE l \in WithData
            BY <1>3, <1>6, <1>7, <6>1
          <6>2. CASE l = Named
            <7>1. Len(q) > 5 /\ Fields[l] = 5
              BY <1>1, <1>3, <6>2 DEF NameEnds, Fields, Named, Letters, Code
            <7> QED
              BY <1>6, <2>5, <7>1
          <6>3. CASE l \notin WithData \cup {Named}
            <7>1. Len(q) = Fields[l] /\ Len(d) = 0
              BY <1>3, <6>3
            <7> QED
              BY <1>6, <3>4, <6>3, <7>1
          <6> QED
            BY <6>1, <6>2, <6>3
        <5> QED
          BY <1>6, <5>1
      <4> QED
        BY <1>7, <2>4, <3>1, <3>2, <3>4, <4>1
    <3> QED
      BY <3>3, <3>4
  <2>6. CASE m > Fields[l]
    <3>1. l = Named /\ Fields[l] = 5
      <4>1. l = Named
        BY <1>1, <1>3, <1>6, <1>7, <2>6
      <4> QED
        BY <4>1 DEF Fields, Named, Letters, Code
    <3>2. PExReceiveByte(was, b) = NameByte(was, b)
      <4>1. ~(Len(was.buf) < Fields[was.header]) /\ was.header = l
        BY <1>1, <2>0, <2>1, <2>3, <2>6
      <4> QED
        BY <1>4, <3>1, <4>1, Zenon DEF PExReceiveByte
    <3>3. NameEnds(q) /\ l \notin WithData /\ d = <<>> /\ cmd = Command(l, q, <<>>)
      BY <1>3, <3>1
    <3>4. buf[5] = q[5]
      BY <1>1, <2>0, <2>6, <3>1, SubSeqProperties, ElementOfSeq DEF buf
    <3>5. NameByte(was, b) = IF q[m] # 0 \/ (q[5] = 0 /\ m - 1 < 10)
                               THEN On([was EXCEPT !.buf = Append(buf, b)])
                               ELSE Completed(Named, SubSeq(q, 1, m), <<>>)
      BY <2>1, <2>2, <2>3, <3>4 DEF NameByte
    <3>6. (q[m] # 0 \/ (q[5] = 0 /\ m - 1 < 10)) <=> m # Len(q)
      BY <2>0, <2>6, <3>1, <3>3 DEF NameEnds
    <3>7. n = Len(e) <=> m = Len(q)
      BY <1>6, <3>3
    <3>8. CASE m = Len(q)
      <4>1. SubSeq(q, 1, m) = q
        BY <1>1, <3>8, SubSeqFull
      <4> QED
        BY <3>1, <3>2, <3>3, <3>5, <3>6, <3>7, <3>8, <4>1 DEF Completed
    <3>9. CASE m # Len(q)
      BY <1>7, <2>4, <3>2, <3>5, <3>6, <3>7, <3>9
    <3> QED
      BY <3>8, <3>9
  <2> QED
    BY <1>1, <2>0, <2>5, <2>6
<1>8. CASE m > Len(q)
  <2> DEFINE x == m - Len(q)
             data == SubSeq(d, 1, x - 1)
  <2>0. x \in 1..Len(d) /\ x - 1 \in Nat /\ n = 4 + Len(q) + x
    BY <1>6, <1>8
  <2>1. l \in WithData
    BY <1>3, <2>0
  <2>2. was = [header |-> l, state |-> 0, buf |-> q, data |-> data]
    <3>1. ~(n - 1 < 4) /\ n - 1 - 4 - Len(q) = x - 1 /\ (n - 1 - 4 <= Len(q) <=> x - 1 = 0)
          /\ (x - 1 = 0 => n - 1 - 4 = Len(q))
      BY <1>6, <2>0
    <3> HIDE DEF x
    <3>2. CASE x - 1 = 0
      <4>1. SubSeq(q, 1, Len(q)) = q /\ SubSeq(d, 1, 0) = <<>>
        BY <1>1, SubSeqFull, SubSeqEmpty
      <4> QED
        BY <3>1, <3>2, <4>1 DEF After, q, l
    <3>3. CASE x - 1 # 0
      BY <3>1, <3>3 DEF After, q, l, d
    <3> QED
      BY <3>2, <3>3
  <2>3. b = d[x]
    BY <1>2, <1>6, <2>0
  <2>4. Append(data, b) = SubSeq(d, 1, x) /\ Len(Append(data, b)) = x
    BY <1>1, <2>0, <2>3, Prefixes
  <2>5. [was EXCEPT !.data = Append(data, b)] = After(cmd, n)
    <3>1. ~(n < 4) /\ n - 4 - Len(q) = x /\ ~(n - 4 <= Len(q))
      BY <1>6, <2>0
    <3> HIDE DEF x, data, was
    <3>2. After(cmd, n) = [header |-> l, state |-> 0, buf |-> q, data |-> SubSeq(d, 1, x)]
      BY <3>1 DEF After, q, l, d
    <3> DEFINE z == 0
               more == Append(data, b)
    <3>3. was = [header |-> l, state |-> z, buf |-> q, data |-> data]
          /\ After(cmd, n) = [header |-> l, state |-> z, buf |-> q, data |-> more]
      BY <2>2, <2>4, <3>2
    <3> HIDE DEF z, more
    <3>4. [was EXCEPT !.data = more] = After(cmd, n)
      BY <3>3, Grown
    <3> QED
      BY <3>4 DEF more
  <2> HIDE DEF was, data, b, x
  <2>6. PExReceiveByte(was, b) = Datum(was, b)
    <3>1. ~(Len(was.buf) < Fields[was.header]) /\ was.header = l /\ l # Named
      BY <1>3, <1>6, <2>1, <2>2
    <3> QED
      BY <1>4, <3>1, Zenon DEF PExReceiveByte
  <2>7. Datum(was, b) = IF x = Len(d) THEN Completed(l, WithoutLength(l, q), SubSeq(d, 1, x))
                        ELSE On([was EXCEPT !.data = Append(data, b)])
    BY <1>3, <2>1, <2>2, <2>4 DEF Datum
  <2>8. n = Len(e) <=> x = Len(d)
    BY <1>2, <1>6, <2>0
  <2>9. CASE x = Len(d)
    <3>1. SubSeq(d, 1, x) = d
      BY <1>1, <2>9, SubSeqFull
    <3> QED
      BY <1>3, <2>1, <2>6, <2>7, <2>8, <2>9, <3>1 DEF Completed
  <2>10. CASE x # Len(d)
    BY <2>5, <2>6, <2>7, <2>8, <2>10
  <2> QED
    BY <2>9, <2>10
<1> QED
  BY <1>1, <1>6, <1>7, <1>8

LEMMA Decoded ==
    ASSUME NEW cmd, Complete(cmd), NEW n \in 1..Len(Encoding(cmd))
    PROVE  Decodes(cmd, n)
<1>1. Len(Encoding(cmd)) \in Nat
  BY EncodingAt, Zenon, LenProperties
<1>2. n \in 1..4 \/ n \in 5..Len(Encoding(cmd))
  BY <1>1
<1> QED
  BY <1>2, LetterDecoded, BytesDecoded

-----------------------------------------------------------------------------
(* What is on its way is what has been sent and not been carried out. *)

Piece(bytes, from, to, cmd) ==
    /\ to = from + Len(Encoding(cmd))
    /\ \A m \in 1..Len(Encoding(cmd)) : bytes[from + m] = Encoding(cmd)[m]

\* Where the commands after the k-th end in the bytes.
Ends(at, bytes, cmds, k) ==
    /\ at \in [k..Len(cmds) -> 0..Len(bytes)]
    /\ at[k] = 0 /\ at[Len(cmds)] = Len(bytes)
    /\ \A i, j \in k..Len(cmds) : i <= j => at[i] <= at[j]
    /\ \A i \in k + 1..Len(cmds) : Piece(bytes, at[i - 1], at[i], cmds[i])

\* The bytes are those of the commands after the k-th.
Spells(bytes, cmds, k) == \E at : Ends(at, bytes, cmds, k)

LEMMA SpellsNone ==
    ASSUME NEW C, NEW cmds \in Seq(C)
    PROVE  Spells(<<>>, cmds, Len(cmds))
<1> DEFINE n == Len(cmds)
           at == [i \in n..n |-> 0]
<1>1. n \in Nat /\ Len(<<>>) = 0
  OBVIOUS
<1> HIDE DEF n
<1>2. at \in [n..n -> 0..0] /\ at[n] = 0
  BY <1>1
<1>3. /\ \A i, j \in n..n : i <= j => at[i] <= at[j]
      /\ \A i \in n + 1..n : Piece(<<>>, at[i - 1], at[i], cmds[i])
  BY <1>1
<1>4. Ends(at, <<>>, cmds, n)
  <2> HIDE DEF at
  <2> QED
    BY <1>1, <1>2, <1>3 DEF Ends, n
<1> QED
  BY <1>4 DEF Spells, n

\* A command is sent.
LEMMA SpellsMore ==
    ASSUME NEW C, NEW cmds \in Seq(C), NEW k \in 0..Len(cmds), NEW cmd \in C,
           NEW bytes \in Seq(Byte), Encoding(cmd) \in Seq(Byte), Spells(bytes, cmds, k)
    PROVE  Spells(bytes \o Encoding(cmd), Append(cmds, cmd), k)
<1> DEFINE n == Len(cmds)
           e == Encoding(cmd)
           b == Len(bytes)
           more == bytes \o e
           next == Append(cmds, cmd)
<1>1. PICK at : Ends(at, bytes, cmds, k)
  BY DEF Spells
<1>2. n \in Nat /\ b \in Nat /\ Len(e) \in Nat /\ k \in 0..n /\ k \in Nat /\ k <= n
  OBVIOUS
<1>3. /\ Len(more) = b + Len(e)
      /\ \A i \in 1..b : more[i] = bytes[i]
      /\ \A i \in 1..Len(e) : more[b + i] = e[i]
  <2> DEFINE x == bytes \o e
  <2>1. /\ Len(x) = b + Len(e)
        /\ \A i \in 1..b + Len(e) : x[i] = IF i <= b THEN bytes[i] ELSE e[i - b]
    BY ConcatProperties
  <2> HIDE DEF x, b, e
  <2>2. \A i \in 1..b : x[i] = bytes[i]
    BY <1>2, <2>1
  <2>3. ASSUME NEW i \in 1..Len(e) PROVE x[b + i] = e[i]
    <3> DEFINE j == b + i
    <3>1. j \in 1..b + Len(e) /\ ~(j <= b) /\ j - b = i
      BY <1>2
    <3> HIDE DEF j
    <3>2. x[j] = e[i]
      BY <2>1, <3>1
    <3> QED
      BY <3>2 DEF j
  <2> QED
    BY <2>1, <2>2, <2>3 DEF x, e
<1>4. Len(next) = n + 1 /\ (\A i \in 1..n : next[i] = cmds[i]) /\ next[n + 1] = cmd
  BY AppendProperties
<1>5. /\ at \in [k..n -> 0..b] /\ at[k] = 0 /\ at[n] = b
      /\ \A i, j \in k..n : i <= j => at[i] <= at[j]
      /\ \A i \in k + 1..n : Piece(bytes, at[i - 1], at[i], cmds[i])
  BY <1>1 DEF Ends
<1> HIDE DEF n, e, b, more, next
<1> DEFINE to == [i \in k..n + 1 |-> IF i <= n THEN at[i] ELSE b + Len(e)]
<1>6. (\A i \in k..n : to[i] = at[i]) /\ to[n + 1] = b + Len(e)
  BY <1>2
<1>7. \A i \in k..n : at[i] \in 0..b
  BY <1>5
<1>8. to \in [k..n + 1 -> 0..b + Len(e)]
  BY <1>2, <1>7
<1> HIDE DEF to
<1>9. \A i, j \in k..n + 1 : i <= j => to[i] <= to[j]
  <2> SUFFICES ASSUME NEW i \in k..n + 1, NEW j \in k..n + 1, i <= j PROVE to[i] <= to[j]
    OBVIOUS
  <2>1. CASE j <= n
    <3>1. i \in k..n /\ j \in k..n
      BY <1>2, <2>1
    <3> QED
      BY <1>5, <1>6, <3>1
  <2>2. CASE j = n + 1
    <3>1. to[i] \in 0..b + Len(e)
      BY <1>8
    <3> QED
      BY <1>2, <1>6, <2>2, <3>1
  <2> QED
    BY <1>2, <2>1, <2>2
<1>10. ASSUME NEW i \in k + 1..n + 1 PROVE Piece(more, to[i - 1], to[i], next[i])
  <2>1. CASE i <= n
    <3>1. i \in k + 1..n /\ i - 1 \in k..n /\ i \in k..n /\ i \in 1..n
      BY <1>2, <2>1
    <3>2. Piece(bytes, at[i - 1], at[i], cmds[i]) /\ at[i - 1] \in 0..b /\ at[i] \in 0..b
      BY <1>5, <1>7, <3>1
    <3>3. to[i - 1] = at[i - 1] /\ to[i] = at[i] /\ next[i] = cmds[i]
      BY <1>4, <1>6, <3>1
    <3> DEFINE f == at[i - 1]
               t == at[i]
               c == Encoding(cmds[i])
    <3>4. t = f + Len(c) /\ (\A m \in 1..Len(c) : bytes[f + m] = c[m]) /\ f \in 0..b /\ t \in 0..b
      BY <3>2 DEF Piece
    <3> HIDE DEF f, t, c
    <3>5. ASSUME NEW m \in 1..Len(c) PROVE more[f + m] = c[m]
      <4>1. f + m \in 1..b
        <5>1. Len(c) = t - f /\ t - f \in Int
          BY <3>4
        <5>2. m <= t - f /\ m >= 1 /\ m \in Int
          BY <5>1
        <5> QED
          BY <1>2, <3>4, <5>2
      <4> QED
        BY <1>3, <3>4, <4>1
    <3>6. Piece(more, f, t, cmds[i])
      BY <3>4, <3>5 DEF Piece, c
    <3> QED
      BY <3>3, <3>6 DEF f, t
  <2>2. CASE i = n + 1
    <3>1. i - 1 = n /\ n \in k..n
      BY <1>2, <2>2
    <3>2. to[i - 1] = b /\ to[i] = b + Len(e) /\ next[i] = cmd
      BY <1>4, <1>5, <1>6, <2>2, <3>1
    <3>3. Piece(more, b, b + Len(e), cmd)
      BY <1>3 DEF Piece, e
    <3> QED
      BY <3>2, <3>3
  <2> QED
    BY <1>2, <2>1, <2>2
<1>11. to[k] = 0 /\ k \in k..n
  BY <1>2, <1>5, <1>6
<1>12. Ends(to, more, next, k)
  BY <1>3, <1>4, <1>6, <1>8, <1>9, <1>10, <1>11, Zenon DEF Ends
<1> QED
  BY <1>12 DEF Spells, more, next, e

\* The bytes begin with those of the first command.
LEMMA SpellsHead ==
    ASSUME NEW C, NEW cmds \in Seq(C), NEW k \in 0..Len(cmds) - 1,
           NEW bytes \in Seq(Byte), Spells(bytes, cmds, k),
           Encoding(cmds[k + 1]) \in Seq(Byte)
    PROVE  LET e == Encoding(cmds[k + 1])
           IN  Len(e) <= Len(bytes) /\ \A m \in 1..Len(e) : bytes[m] = e[m]
<1> DEFINE n == Len(cmds)
           e == Encoding(cmds[k + 1])
           b == Len(bytes)
<1>1. PICK at : Ends(at, bytes, cmds, k)
  BY DEF Spells
<1>2. n \in Nat /\ b \in Nat /\ Len(e) \in Nat /\ k \in 0..n - 1
  OBVIOUS
<1>3. /\ at \in [k..n -> 0..b] /\ at[k] = 0
      /\ \A i \in k + 1..n : Piece(bytes, at[i - 1], at[i], cmds[i])
  BY <1>1 DEF Ends
<1> HIDE DEF n, b
<1>4. k + 1 \in k + 1..n /\ k + 1 - 1 = k /\ k + 1 \in k..n
  BY <1>2
<1>5. Piece(bytes, 0, at[k + 1], cmds[k + 1]) /\ at[k + 1] \in 0..b
  <2>1. Piece(bytes, at[k + 1 - 1], at[k + 1], cmds[k + 1])
    BY <1>3, <1>4
  <2> QED
    BY <1>3, <1>4, <2>1
<1>6. at[k + 1] = 0 + Len(e) /\ \A m \in 1..Len(e) : bytes[0 + m] = e[m]
  BY <1>5 DEF Piece
<1> HIDE DEF e
<1>7. \A m \in 1..Len(e) : 0 + m = m
  OBVIOUS
<1> QED
  BY <1>2, <1>5, <1>6, <1>7 DEF e, b

\* All of the first command is gone.
LEMMA SpellsTail ==
    ASSUME NEW C, NEW cmds \in Seq(C), NEW k \in 0..Len(cmds) - 1,
           NEW x \in Seq(Byte), NEW y \in Seq(Byte), Spells(x \o y, cmds, k),
           Encoding(cmds[k + 1]) \in Seq(Byte), Len(x) = Len(Encoding(cmds[k + 1]))
    PROVE  Spells(y, cmds, k + 1)
<1> DEFINE n == Len(cmds)
           bytes == x \o y
           b == Len(bytes)
           l == Len(x)
<1>1. PICK at : Ends(at, bytes, cmds, k)
  BY DEF Spells
<1>2. n \in Nat /\ l \in Nat /\ Len(y) \in Nat /\ k \in 0..n - 1
  OBVIOUS
<1>3. b = l + Len(y) /\ \A i \in 1..Len(y) : bytes[l + i] = y[i]
  <2>1. /\ Len(bytes) = l + Len(y)
        /\ \A i \in 1..l + Len(y) : bytes[i] = IF i <= l THEN x[i] ELSE y[i - l]
    BY ConcatProperties
  <2> HIDE DEF bytes, l
  <2>2. ASSUME NEW i \in 1..Len(y) PROVE bytes[l + i] = y[i]
    <3> DEFINE j == l + i
    <3>1. j \in 1..l + Len(y) /\ ~(j <= l) /\ j - l = i
      BY <1>2
    <3> HIDE DEF j
    <3>2. bytes[j] = y[i]
      BY <2>1, <3>1
    <3> QED
      BY <3>2 DEF j
  <2> QED
    BY <2>1, <2>2
<1>4. /\ at \in [k..n -> 0..b] /\ at[k] = 0 /\ at[n] = b
      /\ \A i, j \in k..n : i <= j => at[i] <= at[j]
      /\ \A i \in k + 1..n : Piece(bytes, at[i - 1], at[i], cmds[i])
  BY <1>1 DEF Ends
<1>5. at[k + 1] = l
  <2> HIDE DEF n, b, bytes
  <2>1. k + 1 \in k + 1..n /\ k + 1 - 1 = k
    BY <1>2
  <2>2. Piece(bytes, at[k + 1 - 1], at[k + 1], cmds[k + 1])
    BY <1>4, <2>1
  <2>3. at[k + 1] = 0 + Len(Encoding(cmds[k + 1]))
    BY <1>4, <2>1, <2>2 DEF Piece
  <2> HIDE DEF l
  <2> QED
    BY <1>2, <2>3 DEF l
<1> HIDE DEF n, b, bytes, l
<1> DEFINE to == [i \in k + 1..n |-> at[i] - l]
<1>6. \A i \in k + 1..n : at[i] \in l..b
  <2> TAKE i \in k + 1..n
  <2>1. k + 1 \in k..n /\ i \in k..n /\ k + 1 <= i
    BY <1>2
  <2>2. at[k + 1] <= at[i] /\ at[i] \in 0..b
    BY <1>4, <2>1
  <2> QED
    BY <1>2, <1>3, <1>5, <2>2
<1>7. \A i \in k + 1..n : to[i] = at[i] - l /\ to[i] \in 0..Len(y)
  BY <1>2, <1>3, <1>6
<1>8. to \in [k + 1..n -> 0..Len(y)]
  BY <1>7
<1> HIDE DEF to
<1>9. \A i, j \in k + 1..n : i <= j => to[i] <= to[j]
  <2> SUFFICES ASSUME NEW i \in k + 1..n, NEW j \in k + 1..n, i <= j PROVE to[i] <= to[j]
    OBVIOUS
  <2>1. i \in k..n /\ j \in k..n
    BY <1>2
  <2>2. at[i] <= at[j] /\ at[i] \in l..b /\ at[j] \in l..b
    BY <1>4, <1>6, <2>1
  <2>3. to[i] = at[i] - l /\ to[j] = at[j] - l
    BY <1>7
  <2> QED
    BY <1>2, <1>3, <2>2, <2>3
<1>10. ASSUME NEW i \in k + 2..n PROVE Piece(y, to[i - 1], to[i], cmds[i])
  <2>1. i \in k + 1..n /\ i - 1 \in k + 1..n
    BY <1>2
  <2> DEFINE f == at[i - 1]
             t == at[i]
             c == Encoding(cmds[i])
  <2>2. Piece(bytes, f, t, cmds[i])
    BY <1>4, <2>1
  <2>3. t = f + Len(c) /\ \A m \in 1..Len(c) : bytes[f + m] = c[m]
    BY <2>2 DEF Piece
  <2>4. f \in l..b /\ t \in l..b /\ to[i - 1] = f - l /\ to[i] = t - l
    BY <1>6, <1>7, <2>1
  <2> HIDE DEF f, t, c
  <2>5. f \in Nat /\ t \in Nat /\ f >= l /\ t <= l + Len(y) /\ Len(c) = t - f
    BY <1>2, <1>3, <2>3, <2>4
  <2>6. ASSUME NEW m \in 1..Len(c) PROVE y[f - l + m] = c[m]
    <3>1. m \in 1..t - f
      BY <2>5
    <3>2. f - l + m \in 1..Len(y) /\ l + (f - l + m) = f + m
      BY <1>2, <2>5, <3>1
    <3>3. y[f - l + m] = bytes[l + (f - l + m)]
      BY <1>3, <3>2
    <3> QED
      BY <2>3, <3>2, <3>3
  <2>7. t - l = f - l + Len(c)
    BY <1>2, <2>5
  <2>8. Piece(y, f - l, t - l, cmds[i])
    BY <2>6, <2>7 DEF Piece, c
  <2> QED
    BY <2>4, <2>8
<1>11. to[k + 1] = 0 /\ to[n] = Len(y)
  <2>1. k + 1 \in k + 1..n /\ n \in k + 1..n
    BY <1>2
  <2>2. to[k + 1] = l - l /\ to[n] = b - l
    BY <1>4, <1>5, <1>7, <2>1
  <2> QED
    BY <1>2, <1>3, <2>2
<1>12. k + 1 + 1 = k + 2
  BY <1>2
<1>13. Ends(to, y, cmds, k + 1)
  BY <1>8, <1>9, <1>10, <1>11, <1>12, Zenon DEF Ends, n
<1> QED
  BY <1>13 DEF Spells

\* Nothing is left but what is spelled.
LEMMA SpellsEnd ==
    ASSUME NEW C, NEW cmds \in Seq(C), NEW bytes \in Seq(Byte),
           Spells(bytes, cmds, Len(cmds))
    PROVE  bytes = <<>>
<1>1. PICK at : Ends(at, bytes, cmds, Len(cmds))
  BY DEF Spells
<1>2. at[Len(cmds)] = 0 /\ at[Len(cmds)] = Len(bytes)
  BY <1>1 DEF Ends
<1>3. Len(bytes) = 0
  BY <1>2
<1> QED
  BY <1>3

-----------------------------------------------------------------------------
(* Carried out as sent *)

\* What the decoder has yet to see.
Pending == IF txPc = "data" THEN Current.data ELSE <<>>
Ahead   == Proofs!OnTheWay \o Pending

\* The decoder has seen the first bytes of the command that is next.
Partway(eaten) ==
    /\ Spells(eaten \o Ahead, sent, Len(carried))
    /\ IF Len(carried) = Len(sent) THEN eaten = <<>> /\ dec = Idle
       ELSE LET cmd == sent[Len(carried) + 1]
            IN  Len(eaten) < Len(Encoding(cmd)) /\ dec = After(cmd, Len(eaten))

CarriedPrefix ==
    /\ carried \in Seq(Asked \cup Played) /\ Len(carried) \in 0..Len(sent)
    /\ \A i \in 1..Len(carried) : carried[i] = sent[i]

CarryInv ==
    /\ CarriedPrefix
    /\ ~sending => wire = <<>>
    /\ txPc = "data" => Current.letter \in WithData
    /\ \E eaten \in Seq(Byte) : Partway(eaten)

\* The packets of a command stay together, and every command is complete.
AsMade == ~Torn /\ \A cmd \in Asked \cup Played : Complete(cmd)

LEMMA Encoded ==
    ASSUME NEW cmd, Complete(cmd)
    PROVE  /\ Encoding(cmd) \in Seq(Byte) /\ Len(Encoding(cmd)) >= 4
           /\ HeaderOf(cmd) \in Seq(Byte) /\ cmd.data \in Seq(Byte)
           /\ cmd.letter \notin WithData => cmd.data = <<>> /\ Encoding(cmd) = HeaderOf(cmd)
<1>1. FieldsOf(cmd) \in Seq(Byte) /\ cmd.data \in Seq(Byte)
  BY FieldFacts
<1>2. Encoding(cmd) \in Seq(Byte)
      /\ Len(Encoding(cmd)) = 4 + Len(FieldsOf(cmd)) + Len(cmd.data)
  BY EncodingAt, Zenon
<1>3. HeaderOf(cmd) \in Seq(Byte)
  <2>1. HeaderOf(cmd) = Axo \o <<Code[cmd.letter]>> \o FieldsOf(cmd) /\ cmd.letter \in Letters
    BY FieldFacts, Zenon
  <2>2. Axo \in Seq(Byte) /\ <<Code[cmd.letter]>> \in Seq(Byte)
    BY <2>1, CodesAreBytes DEF Axo, Byte
  <2>3. Axo \o <<Code[cmd.letter]>> \in Seq(Byte)
    BY <2>2, ConcatProperties
  <2> QED
    BY <1>1, <2>1, <2>3, ConcatProperties
<1>4. cmd.letter \notin WithData => cmd.data = <<>>
  BY FieldFacts, Zenon
<1>5. HeaderOf(cmd) \o <<>> = HeaderOf(cmd)
  BY <1>3, ConcatEmptySeq
<1>6. Len(Encoding(cmd)) >= 4
  <2> DEFINE a == Len(FieldsOf(cmd))
             b == Len(cmd.data)
  <2>1. a \in Nat /\ b \in Nat
    BY <1>1
  <2>2. Len(Encoding(cmd)) = 4 + a + b
    BY <1>2
  <2> HIDE DEF a, b
  <2> QED
    BY <2>1, <2>2
<1> QED
  BY <1>1, <1>2, <1>3, <1>4, <1>5, <1>6 DEF Encoding

LEMMA AheadIsBytes ==
    ASSUME LinkInv, AsMade
    PROVE  Proofs!OnTheWay \in Seq(Byte) /\ Pending \in Seq(Byte) /\ Ahead \in Seq(Byte)
<1>1. Proofs!OnTheWay \in Seq(Byte)
  BY Proofs!WayIsBytes DEF LinkInv
<1>2. Pending \in Seq(Byte)
  <2>1. CASE txPc = "data"
    <3>1. txAt \in 1..Len(sent)
      BY <2>1 DEF LinkInv
    <3>2. Current \in Asked \cup Played
      BY <3>1, ElementOfSeq DEF Current, LinkInv
    <3> QED
      BY <2>1, <3>2, Encoded DEF Pending, AsMade
  <2>2. CASE txPc # "data"
    BY <2>2 DEF Pending
  <2> QED
    BY <2>1, <2>2
<1> QED
  BY <1>1, <1>2, ConcatProperties DEF Ahead

LEMMA PartwayKept ==
    ASSUME CarryInv, UNCHANGED <<sent, carried, dec>>, Ahead' = Ahead
    PROVE  CarriedPrefix' /\ (\E eaten \in Seq(Byte) : Partway(eaten))'
<1>1. CarriedPrefix'
  BY DEF CarryInv, CarriedPrefix
<1>2. PICK eaten \in Seq(Byte) : Partway(eaten)
  BY DEF CarryInv
<1>3. Partway(eaten)'
  BY <1>2 DEF Partway
<1> QED
  BY <1>1, <1>3

\* A command is sent, the whole of it or its first packet.
LEMMA PartwaySent ==
    ASSUME LinkInv, CarryInv, AsMade, NEW cmd \in Asked \cup Played,
           sent' = Append(sent, cmd), UNCHANGED <<carried, dec>>,
           Ahead' = Ahead \o Encoding(cmd)
    PROVE  CarriedPrefix' /\ (\E eaten \in Seq(Byte) : Partway(eaten))'
<1> DEFINE n == Len(sent)
           k == Len(carried)
<1>0. sent \in Seq(Asked \cup Played) /\ n \in Nat /\ k \in 0..n /\ k \in Nat
  BY DEF LinkInv, CarryInv, CarriedPrefix
<1>1. Len(sent') = n + 1 /\ (\A i \in 1..n : sent'[i] = sent[i]) /\ sent'[n + 1] = cmd
  BY <1>0, AppendProperties
<1>2. CarriedPrefix'
  <2>1. /\ carried \in Seq(Asked \cup Played) /\ k \in 0..n
        /\ \A i \in 1..k : carried[i] = sent[i]
    BY DEF CarryInv, CarriedPrefix
  <2> HIDE DEF n, k
  <2>2. k \in 0..n + 1 /\ \A i \in 1..k : i \in 1..n
    BY <1>0
  <2>3. \A i \in 1..k : carried[i] = sent'[i]
    BY <1>1, <2>1, <2>2
  <2> QED
    BY <1>1, <2>1, <2>2, <2>3 DEF CarriedPrefix, k
<1>3. PICK eaten \in Seq(Byte) : Partway(eaten)
  BY DEF CarryInv
<1>4. Encoding(cmd) \in Seq(Byte) /\ Len(Encoding(cmd)) >= 4 /\ Ahead \in Seq(Byte)
  BY Encoded, AheadIsBytes DEF AsMade
<1>5. Spells(eaten \o Ahead, sent, k) /\ eaten \o Ahead \in Seq(Byte)
  BY <1>3, <1>4, ConcatProperties DEF Partway
<1>6. Spells((eaten \o Ahead) \o Encoding(cmd), sent', k)
  BY <1>0, <1>4, <1>5, SpellsMore
<1>7. (eaten \o Ahead) \o Encoding(cmd) = eaten \o Ahead'
  BY <1>4, ConcatAssociative
<1>8. Partway(eaten)'
  <2>1. CASE k = n
    <3>1. eaten = <<>> /\ dec = Idle
      BY <1>3, <2>1 DEF Partway
    <3>2. sent'[k + 1] = cmd /\ k # n + 1 /\ Len(eaten) = 0
      BY <1>0, <1>1, <2>1, <3>1
    <3>3. Len(eaten) < Len(Encoding(cmd)) /\ dec = After(cmd, Len(eaten))
      <4>1. dec = After(cmd, 0)
        BY <3>1, AfterNone
      <4>2. 0 < Len(Encoding(cmd))
        BY <1>4
      <4> QED
        BY <3>2, <4>1, <4>2, Zenon
    <3> QED
      BY <1>1, <1>6, <1>7, <3>2, <3>3 DEF Partway
  <2>2. CASE k # n
    <3>1. sent'[k + 1] = sent[k + 1] /\ k # n + 1
      BY <1>0, <1>1, <2>2
    <3>2. Len(eaten) < Len(Encoding(sent[k + 1])) /\ dec = After(sent[k + 1], Len(eaten))
      BY <1>3, <2>2 DEF Partway
    <3> QED
      BY <1>1, <1>6, <1>7, <3>1, <3>2 DEF Partway
  <2> QED
    BY <2>1, <2>2
<1> QED
  BY <1>2, <1>8

\* A byte of the command that is next is the one the decoder expects.
LEMMA PartwayRead ==
    ASSUME LinkInv, CarryInv, AsMade, UNCHANGED <<sent, txPc, txAt>>, NEW b \in Byte,
           Ahead' \in Seq(Byte), Ahead = <<b>> \o Ahead',
           LET r == PExReceiveByte(dec, b)
           IN  dec' = r.dec /\ carried' = carried \o r.done
               /\ ackPending' = (ackPending \/ r.ack)
    PROVE  /\ CarriedPrefix' /\ (\E eaten \in Seq(Byte) : Partway(eaten))'
           /\ \/ UNCHANGED carried /\ ackPending' = (ackPending \/ FALSE)
              \/ LET cmd == sent[Len(carried) + 1]
                 IN  /\ Len(carried) < Len(sent) /\ carried' = Append(carried, cmd)
                     /\ ackPending' = (ackPending \/ cmd.letter \in Acknowledged)
<1> DEFINE n == Len(sent)
           k == Len(carried)
           cmd == sent[k + 1]
           e == Encoding(cmd)
           r == PExReceiveByte(dec, b)
           t == Ahead'
<1>0. /\ sent \in Seq(Asked \cup Played) /\ n \in Nat /\ k \in 0..n
      /\ carried \in Seq(Asked \cup Played) /\ \A i \in 1..k : carried[i] = sent[i]
  BY DEF LinkInv, CarryInv, CarriedPrefix
<1>1. PICK eaten \in Seq(Byte) : Partway(eaten)
  BY DEF CarryInv
<1> DEFINE j == Len(eaten)
           x == Append(eaten, b)
<1>2. j \in Nat /\ x \in Seq(Byte) /\ Len(x) = j + 1 /\ x[j + 1] = b
      /\ \A i \in 1..j : x[i] = eaten[i]
  BY AppendProperties
<1>3. eaten \o Ahead = x \o t
  <2>1. <<b>> \in Seq(Byte) /\ eaten \o <<b>> = x
    OBVIOUS
  <2>2. eaten \o (<<b>> \o t) = (eaten \o <<b>>) \o t
    BY <2>1, ConcatAssociative
  <2> QED
    BY <2>1, <2>2
<1>4. x \o t \in Seq(Byte) /\ Len(x \o t) = Len(x) + Len(t) /\ (x \o t)[j + 1] = b
  <2>1. x \o t \in Seq(Byte) /\ Len(x \o t) = Len(x) + Len(t)
        /\ \A i \in 1..Len(x) + Len(t) : (x \o t)[i] = IF i <= Len(x) THEN x[i] ELSE t[i - Len(x)]
    BY <1>2, ConcatProperties
  <2>2. j + 1 \in 1..Len(x) + Len(t) /\ j + 1 <= Len(x)
    <3>1. Len(t) \in Nat
      OBVIOUS
    <3> HIDE DEF x, t
    <3> QED
      BY <1>2, <3>1
  <2> HIDE DEF x, t, j
  <2> QED
    BY <1>2, <2>1, <2>2
<1>5. Spells(x \o t, sent, k)
  BY <1>1, <1>3 DEF Partway
<1>6. k # n
  <2>1. ASSUME k = n PROVE FALSE
    <3>1. x \o t = <<>>
      BY <1>0, <1>4, <1>5, <2>1, SpellsEnd
    <3>2. Len(x \o t) = 0
      BY <3>1
    <3>3. Len(t) \in Nat
      OBVIOUS
    <3> HIDE DEF x, t
    <3> QED
      BY <1>2, <1>4, <3>2, <3>3
  <2> QED
    BY <2>1
<1>7. k \in 0..n - 1 /\ k + 1 \in 1..n /\ k \in Nat
  BY <1>0, <1>6
<1>8. cmd \in Asked \cup Played /\ Complete(cmd)
  BY <1>0, <1>7, ElementOfSeq DEF AsMade
<1>9. e \in Seq(Byte) /\ Len(e) >= 4
  BY <1>8, Encoded
<1>10. j < Len(e) /\ dec = After(cmd, j)
  BY <1>1, <1>6 DEF Partway
<1>11. Len(e) <= Len(x \o t) /\ \A m \in 1..Len(e) : (x \o t)[m] = e[m]
  BY <1>0, <1>4, <1>5, <1>7, <1>9, SpellsHead
<1>12. j + 1 \in 1..Len(e) /\ b = e[j + 1] /\ j + 1 - 1 = j
  <2>1. Len(e) \in Nat
    BY <1>9
  <2>2. j + 1 \in 1..Len(e) /\ j + 1 - 1 = j
    <3> HIDE DEF j, e
    <3> QED
      BY <1>2, <1>10, <2>1
  <2> QED
    BY <1>4, <1>11, <2>2
<1>13. Decodes(cmd, j + 1)
  BY <1>8, <1>12, Decoded
<1>14. IF j + 1 = Len(e) THEN r = [dec |-> Idle, done |-> <<cmd>>, ack |-> cmd.letter \in Acknowledged]
                         ELSE r = On(After(cmd, j + 1))
  <2> DEFINE m == j + 1
  <2>1. m - 1 = j /\ b = e[m] /\ Decodes(cmd, m) /\ dec = After(cmd, j)
    BY <1>10, <1>12, <1>13
  <2> HIDE DEF cmd, j, m
  <2>2. IF m = Len(e) THEN r = [dec |-> Idle, done |-> <<cmd>>, ack |-> cmd.letter \in Acknowledged]
                      ELSE r = On(After(cmd, m))
    BY <2>1, Zenon DEF Decodes
  <2> QED
    BY <2>2 DEF m
<1>15. dec' = r.dec /\ carried' = carried \o r.done /\ ackPending' = (ackPending \/ r.ack)
  OBVIOUS
<1> HIDE DEF r
<1>16. CASE j + 1 = Len(e)
  <2>1. dec' = Idle /\ carried' = carried \o <<cmd>>
        /\ ackPending' = (ackPending \/ cmd.letter \in Acknowledged)
    <3> DEFINE a == cmd.letter \in Acknowledged
    <3>1. r = [dec |-> Idle, done |-> <<cmd>>, ack |-> a]
      BY <1>14, <1>16
    <3> HIDE DEF a, cmd
    <3>2. r.dec = Idle /\ r.done = <<cmd>>
      BY <3>1
    <3>3. r.ack = a
      BY <3>1, Zenon
    <3> QED
      BY <1>15, <3>2, <3>3, Zenon DEF a
  <2>2. carried' = Append(carried, cmd)
    BY <1>0, <1>8, <2>1
  <2>3. carried' \in Seq(Asked \cup Played) /\ Len(carried') = k + 1
        /\ (\A i \in 1..k : carried'[i] = carried[i]) /\ carried'[k + 1] = cmd
    BY <1>0, <1>8, <2>2, AppendProperties
  <2>4. CarriedPrefix'
    <3> HIDE DEF k, n, cmd
    <3>1. k + 1 \in 0..n
      BY <1>7
    <3>2. ASSUME NEW i \in 1..k + 1 PROVE carried'[i] = sent[i]
      <4>1. CASE i \in 1..k
        BY <1>0, <2>3, <4>1
      <4>2. CASE i = k + 1
        BY <2>3, <4>2 DEF cmd
      <4>3. k \in Nat
        BY <1>7
      <4>4. i \in 1..k \/ i = k + 1
        BY <4>3
      <4> QED
        BY <4>1, <4>2, <4>4
    <3> QED
      BY <2>3, <3>1, <3>2 DEF CarriedPrefix, n
  <2>5. Spells(t, sent, k + 1)
    BY <1>0, <1>2, <1>5, <1>7, <1>9, <1>16, SpellsTail
  <2>6. <<>> \o t = t /\ <<>> \in Seq(Byte) /\ Len(<<>>) = 0
    BY ConcatEmptySeq
  <2>7. (\E none \in Seq(Byte) : Partway(none))'
    <3> DEFINE none == <<>>
    <3>1. none \o t = t /\ none \in Seq(Byte) /\ Len(none) = 0
      BY <2>6
    <3>2. dec' = After(sent[k + 2], Len(none))
      BY <2>1, <3>1, AfterNone
    <3>3. k + 1 # n => Len(none) < Len(Encoding(sent[k + 2]))
      <4> SUFFICES ASSUME k + 1 # n PROVE 0 < Len(Encoding(sent[k + 2]))
        BY <3>1
      <4>1. k + 2 \in 1..n
        BY <1>7
      <4>2. Complete(sent[k + 2])
        BY <1>0, <4>1, ElementOfSeq DEF AsMade
      <4>3. Len(Encoding(sent[k + 2])) >= 4 /\ Len(Encoding(sent[k + 2])) \in Nat
        BY <4>2, Encoded
      <4> QED
        BY <4>3
    <3>4. Len(carried') + 1 = k + 2 /\ Len(carried') = k + 1
      BY <1>7, <2>3
    <3> HIDE DEF none, k, n, t
    <3>5. Partway(none)'
      BY <2>1, <2>5, <3>1, <3>2, <3>3, <3>4, Zenon DEF Partway, t, n, none
    <3> QED
      BY <3>1, <3>5
  <2> QED
    BY <1>7, <2>1, <2>2, <2>4, <2>7
<1>17. CASE j + 1 # Len(e)
  <2>1. dec' = After(cmd, j + 1) /\ carried' = carried \o <<>> /\ ackPending' = (ackPending \/ FALSE)
    <3>1. r = On(After(cmd, j + 1))
      BY <1>14, <1>17
    <3> HIDE DEF cmd, j
    <3>2. r.dec = After(cmd, j + 1) /\ r.done = <<>>
      BY <3>1 DEF On
    <3>3. r.ack = FALSE
      BY <3>1, Zenon DEF On
    <3> QED
      BY <1>15, <3>2, <3>3, Zenon
  <2>2. carried' = carried
    BY <1>0, <2>1, ConcatEmptySeq
  <2>3. CarriedPrefix'
    BY <2>2 DEF CarryInv, CarriedPrefix
  <2>4. Len(x) < Len(e)
    <3>1. Len(e) \in Nat
      BY <1>9
    <3> HIDE DEF x, e, j
    <3> QED
      BY <1>2, <1>10, <1>17, <3>1
  <2>5. Partway(x)'
    <3> HIDE DEF x, j
    <3> QED
      BY <1>2, <1>5, <1>6, <2>1, <2>2, <2>4 DEF Partway
  <2> QED
    BY <1>2, <2>1, <2>2, <2>3, <2>5
<1> QED
  BY <1>16, <1>17

LEMMA EndpointKept ==
    ASSUME UNCHANGED endpoint
    PROVE  Proofs!OnTheWay' = Proofs!OnTheWay /\ UNCHANGED <<sending, wire>>
BY DEF endpoint, Proofs!OnTheWay, Proofs!Collected

\* A packet is written when the last one has been taken.
LEMMA Follows ==
    ASSUME LinkInv, CarryInv, NEW data \in Seq(Byte), USB!Write(data)
    PROVE  Proofs!OnTheWay' = Proofs!OnTheWay \o data /\ sending' = TRUE
<1>1. Proofs!Write(data) /\ wire = <<>> /\ sending' = TRUE
  BY ReceiveSteps DEF CarryInv, USB!Write
<1> QED
  BY <1>1, Proofs!WriteMoves DEF LinkInv

LEMMA CarryInit == Init => CarryInv
<1> SUFFICES ASSUME Init PROVE CarryInv
  OBVIOUS
<1>1. /\ sending = FALSE /\ wire = <<>> /\ receiving = TRUE /\ rx = <<>> /\ iqueue = <<>>
      /\ txPc = "idle" /\ sent = <<>> /\ dec = Idle /\ carried = <<>>
  BY DEF Init, USB!Init
<1>2. <<>> \o <<>> = <<>> /\ <<>> \in Seq(Byte) /\ Len(<<>>) = 0
  BY ConcatEmptySeq
<1>3. Ahead = <<>>
  <2> DEFINE none == <<>>
  <2>1. none \o none = none
    BY <1>2
  <2>2. iqueue = none /\ Proofs!Collected = none /\ wire = none /\ Pending = none
    BY <1>1 DEF Proofs!Collected, Pending
  <2> HIDE DEF none
  <2>3. Ahead = none
    BY <2>1, <2>2 DEF Ahead, Proofs!OnTheWay
  <2> QED
    BY <2>3 DEF none
<1>4. CarriedPrefix
  <2>1. carried \in Seq(Asked \cup Played) /\ Len(carried) = 0 /\ Len(sent) = 0
    BY <1>1
  <2> QED
    BY <2>1 DEF CarriedPrefix
<1>5. Partway(<<>>)
  <2>1. sent \in Seq(Asked \cup Played)
    BY <1>1
  <2>2. Spells(<<>>, sent, Len(sent))
    BY <2>1, SpellsNone
  <2> QED
    BY <1>1, <1>2, <1>3, <2>2, Zenon DEF Partway
<1> QED
  BY <1>1, <1>2, <1>4, <1>5 DEF CarryInv

\* A byte is read: it may be the last one of the command that is next.
LEMMA ByteRead ==
    ASSUME LinkInv, CarryInv, AsMade, ReceiveByte
    PROVE  /\ CarryInv' /\ UNCHANGED <<txPc, txAt, sent, acked, uploaded, replies, acks>>
           /\ \/ UNCHANGED carried /\ ackPending' = (ackPending \/ FALSE)
              \/ LET cmd == sent[Len(carried) + 1]
                 IN  /\ Len(carried) < Len(sent) /\ carried' = Append(carried, cmd)
                     /\ ackPending' = (ackPending \/ cmd.letter \in Acknowledged)
<1> DEFINE b == Head(iqueue)
<1>0. /\ Proofs!Received(Byte) /\ Proofs!Parameters /\ Pending \in Seq(Byte)
  BY EndpointAssumption, ReceiveSteps, AheadIsBytes DEF LinkInv
<1>1. /\ Proofs!ReadByte
      /\ UNCHANGED <<txPc, txAt, sent, acked, uploaded, replies, acks, sending, wire>>
      /\ LET r == PExReceiveByte(dec, b)
         IN  dec' = r.dec /\ carried' = carried \o r.done /\ ackPending' = (ackPending \/ r.ack)
  BY ReceiveSteps DEF ReceiveByte, patcher, USB!ReadByte
<1>2. b \in Byte /\ Proofs!OnTheWay' \in Seq(Byte)
      /\ Proofs!OnTheWay = <<b>> \o Proofs!OnTheWay'
  BY <1>0, <1>1, Proofs!ReadByteMoves
<1>3. Current' = Current /\ Pending' = Pending
  BY <1>1 DEF Current, Pending
<1> HIDE DEF b
<1>4. Ahead' \in Seq(Byte) /\ Ahead = <<b>> \o Ahead'
  <2> DEFINE o == Proofs!OnTheWay'
  <2>1. o \in Seq(Byte) /\ <<b>> \in Seq(Byte) /\ Pending \in Seq(Byte)
    BY <1>0, <1>2
  <2>2. Ahead = (<<b>> \o o) \o Pending /\ Ahead' = o \o Pending
    BY <1>2, <1>3 DEF Ahead
  <2> HIDE DEF o
  <2>3. (<<b>> \o o) \o Pending = <<b>> \o (o \o Pending) /\ o \o Pending \in Seq(Byte)
    BY <2>1, ConcatAssociative, ConcatProperties
  <2> QED
    BY <2>2, <2>3
<1>5. /\ CarriedPrefix' /\ (\E eaten \in Seq(Byte) : Partway(eaten))'
      /\ \/ UNCHANGED carried /\ ackPending' = (ackPending \/ FALSE)
         \/ LET cmd == sent[Len(carried) + 1]
            IN  /\ Len(carried) < Len(sent) /\ carried' = Append(carried, cmd)
                /\ ackPending' = (ackPending \/ cmd.letter \in Acknowledged)
  BY <1>1, <1>2, <1>4, PartwayRead
<1> QED
  BY <1>1, <1>3, <1>5 DEF CarryInv

Promised == [Channel!Next]_Channel!vars

LEMMA Silent ==
    ASSUME UNCHANGED <<sent, carried, ackPending, acks>>
    PROVE  Promised
BY DEF Promised, Channel!vars

LEMMA CarryStep ==
    ASSUME LinkInv, TypeRest, CarryInv, AsMade, [Next]_vars
    PROVE  CarryInv' /\ Promised
<1>0. /\ Proofs!Received(Byte) /\ Proofs!Parameters /\ LinkInv'
      /\ sent \in Seq(Asked \cup Played) /\ txAt \in 0..Len(sent) /\ (txPc # "idle" => txAt # 0)
      /\ Proofs!OnTheWay \in Seq(Byte) /\ Pending \in Seq(Byte) /\ Ahead \in Seq(Byte)
  BY EndpointAssumption, ReceiveSteps, LinkStep, AheadIsBytes DEF LinkInv
<1>1. CASE TxHeader
  <2>1. PICK cmd \in Asked :
          /\ USB!Write(HeaderOf(cmd)) /\ sent' = Append(sent, cmd) /\ txAt' = Len(sent) + 1
          /\ txPc' = IF cmd.letter \in WithData THEN "data" ELSE Written(cmd)
    BY <1>1 DEF TxHeader
  <2>2. txPc = "idle" /\ UNCHANGED <<carried, dec, ackPending, acks>>
    BY <1>1 DEF TxHeader, board
  <2>3. Complete(cmd)
    BY DEF AsMade
  <2>4. /\ Encoding(cmd) \in Seq(Byte) /\ HeaderOf(cmd) \in Seq(Byte) /\ cmd.data \in Seq(Byte)
        /\ cmd.letter \notin WithData => cmd.data = <<>>
    BY <2>3, Encoded
  <2>5. Proofs!OnTheWay' = Proofs!OnTheWay \o HeaderOf(cmd) /\ sending' = TRUE
    BY <2>1, <2>4, Follows
  <2>6. Current' = cmd
    BY <1>0, <2>1, AppendProperties DEF Current
  <2>7. txPc' = "data" <=> cmd.letter \in WithData
    BY <2>1 DEF Written
  <2>8. Pending' = cmd.data
    BY <2>4, <2>6, <2>7 DEF Pending
  <2>9. Ahead = Proofs!OnTheWay
    <3>1. Pending = <<>>
      BY <2>2 DEF Pending
    <3> QED
      BY <1>0, <3>1, ConcatEmptySeq DEF Ahead
  <2>10. Ahead' = Ahead \o Encoding(cmd)
    <3> DEFINE o == Proofs!OnTheWay
               h == HeaderOf(cmd)
               d == cmd.data
    <3>0. o \in Seq(Byte) /\ h \in Seq(Byte) /\ d \in Seq(Byte)
      BY <1>0, <2>4
    <3> HIDE DEF o, h, d
    <3>1. (o \o h) \o d = o \o (h \o d)
      BY <3>0, ConcatAssociative
    <3> USE DEF o, h, d
    <3> QED
      BY <2>5, <2>8, <2>9, <3>1 DEF Ahead, Encoding
  <2>11. CarriedPrefix' /\ (\E eaten \in Seq(Byte) : Partway(eaten))'
    BY <2>1, <2>2, <2>10, PartwaySent
  <2>12. Promised
    BY <2>1, <2>2 DEF Promised, Channel!Next, Channel!Send
  <2> QED
    BY <2>5, <2>6, <2>7, <2>11, <2>12 DEF CarryInv
<1>2. CASE TxData
  <2>1. /\ USB!Write(Current.data) /\ txPc = "data" /\ txPc' = Written(Current)
        /\ UNCHANGED <<txAt, sent, carried, dec, ackPending, acks>>
    BY <1>2 DEF TxData, board
  <2>2. Current.data \in Seq(Byte) /\ Pending = Current.data
    BY <1>0, <2>1 DEF Pending
  <2>3. Proofs!OnTheWay' = Ahead /\ sending' = TRUE
    BY <2>1, <2>2, Follows DEF Ahead
  <2>4. txPc' # "data"
    BY <2>1 DEF Written
  <2>5. Ahead' = Ahead
    <3>1. Pending' = <<>>
      BY <2>4 DEF Pending
    <3> QED
      BY <1>0, <2>3, <3>1, ConcatEmptySeq DEF Ahead
  <2>6. CarriedPrefix' /\ (\E eaten \in Seq(Byte) : Partway(eaten))'
    BY <2>1, <2>5, PartwayKept
  <2> QED
    BY <2>1, <2>3, <2>4, <2>6, Silent DEF CarryInv
<1>3. CASE SendMidi
  <2>1. PICK cmd \in Played : USB!Write(HeaderOf(cmd)) /\ sent' = Append(sent, cmd)
    BY <1>3 DEF SendMidi
  <2>2. txPc # "data" /\ UNCHANGED <<txPc, txAt, carried, dec, ackPending, acks>>
    BY <1>3 DEF SendMidi, board, AsMade
  <2>3. Complete(cmd) /\ cmd.letter \notin WithData
    BY BulkLinkAssumption DEF AsMade, WithData
  <2>4. HeaderOf(cmd) \in Seq(Byte) /\ Encoding(cmd) = HeaderOf(cmd)
    BY <2>3, Encoded
  <2>5. Proofs!OnTheWay' = Proofs!OnTheWay \o HeaderOf(cmd) /\ sending' = TRUE
    BY <2>1, <2>4, Follows
  <2>6. Pending = <<>> /\ Pending' = <<>>
    BY <2>2 DEF Pending
  <2>7. Ahead' = Ahead \o Encoding(cmd)
    <3>1. Proofs!OnTheWay \o <<>> = Proofs!OnTheWay
      BY <1>0, ConcatEmptySeq
    <3>2. Proofs!OnTheWay \o HeaderOf(cmd) \in Seq(Byte)
      BY <1>0, <2>4, ConcatProperties
    <3>3. (Proofs!OnTheWay \o HeaderOf(cmd)) \o <<>> = Proofs!OnTheWay \o HeaderOf(cmd)
      BY <3>2, ConcatEmptySeq
    <3> QED
      BY <2>4, <2>5, <2>6, <3>1, <3>3 DEF Ahead
  <2>8. CarriedPrefix' /\ (\E eaten \in Seq(Byte) : Partway(eaten))'
    BY <2>1, <2>2, <2>7, PartwaySent
  <2>9. Promised
    BY <2>1, <2>2 DEF Promised, Channel!Next, Channel!Send
  <2> QED
    BY <2>2, <2>5, <2>8, <2>9 DEF CarryInv
<1>4. CASE WaitSync \/ Acknowledge
  <2>1. /\ UNCHANGED endpoint /\ UNCHANGED <<sent, txAt, carried, dec, ackPending, acks>>
        /\ txPc' = "data" <=> txPc = "data"
    BY <1>4 DEF WaitSync, Acknowledge, board
  <2>2. Proofs!OnTheWay' = Proofs!OnTheWay /\ UNCHANGED <<sending, wire>> /\ Current' = Current
    BY <2>1, EndpointKept DEF Current
  <2>3. Ahead' = Ahead
    BY <2>1, <2>2 DEF Ahead, Pending
  <2>4. CarriedPrefix' /\ (\E eaten \in Seq(Byte) : Partway(eaten))'
    BY <2>1, <2>3, PartwayKept
  <2> QED
    BY <2>1, <2>2, <2>4, Silent DEF CarryInv
<1>5. CASE Endpoint
  <2>1. UNCHANGED <<txPc, txAt, sent, carried, dec, ackPending, acks>>
        /\ (Proofs!Packet \/ Proofs!DataReceived)
    BY <1>5, ReceiveSteps DEF Endpoint, patcher, board
  <2>2. Proofs!OnTheWay' = Proofs!OnTheWay
    BY <1>0, <2>1, Proofs!PacketMoves, Proofs!DataReceivedMoves
  <2>3. ~sending' => wire' = <<>>
    <3>1. CASE Proofs!Packet
      BY <1>0, <3>1, Proofs!PacketEnds
    <3>2. CASE Proofs!DataReceived
      BY <3>2 DEF Proofs!DataReceived, CarryInv
    <3> QED
      BY <2>1, <3>1, <3>2
  <2>4. Ahead' = Ahead /\ Current' = Current
    BY <2>1, <2>2 DEF Ahead, Pending, Current
  <2>5. CarriedPrefix' /\ (\E eaten \in Seq(Byte) : Partway(eaten))'
    BY <2>1, <2>4, PartwayKept
  <2> QED
    BY <2>1, <2>3, <2>4, <2>5, Silent DEF CarryInv
<1>6. CASE PExTransmit
  <2>1. /\ UNCHANGED endpoint /\ UNCHANGED <<txPc, txAt, sent, carried, dec>>
        /\ ackPending' = FALSE
        /\ IF ackPending THEN acks' = acks + 1 ELSE acks' = acks
    BY <1>6 DEF PExTransmit, patcher
  <2>2. Proofs!OnTheWay' = Proofs!OnTheWay /\ UNCHANGED <<sending, wire>> /\ Current' = Current
    BY <2>1, EndpointKept DEF Current
  <2>3. Ahead' = Ahead
    BY <2>1, <2>2 DEF Ahead, Pending
  <2>4. CarriedPrefix' /\ (\E eaten \in Seq(Byte) : Partway(eaten))'
    BY <2>1, <2>3, PartwayKept
  <2>5. Promised
    <3>1. CASE ackPending
      BY <2>1, <3>1 DEF Promised, Channel!Next, Channel!Acknowledge
    <3>2. CASE ~ackPending
      <4>1. ackPending' = ackPending /\ acks' = acks
        BY <2>1, <3>2 DEF TypeRest
      <4> QED
        BY <2>1, <4>1, Silent
    <3> QED
      BY <3>1, <3>2
  <2> QED
    BY <2>1, <2>2, <2>4, <2>5 DEF CarryInv
<1>7. CASE ReceiveByte
  <2>1. /\ CarryInv' /\ UNCHANGED <<sent, acks>>
        /\ \/ UNCHANGED carried /\ ackPending' = (ackPending \/ FALSE)
           \/ LET cmd == sent[Len(carried) + 1]
              IN  /\ Len(carried) < Len(sent) /\ carried' = Append(carried, cmd)
                  /\ ackPending' = (ackPending \/ cmd.letter \in Acknowledged)
    BY <1>7, ByteRead
  <2>2. CASE UNCHANGED carried /\ ackPending' = (ackPending \/ FALSE)
    <3>1. ackPending' = ackPending
      BY <2>2 DEF TypeRest
    <3> QED
      BY <2>1, <2>2, <3>1, Silent
  <2>3. CASE LET cmd == sent[Len(carried) + 1]
             IN  /\ Len(carried) < Len(sent) /\ carried' = Append(carried, cmd)
                 /\ ackPending' = (ackPending \/ cmd.letter \in Acknowledged)
    BY <2>1, <2>3 DEF Promised, Channel!Next, Channel!CarryOut
  <2> QED
    BY <2>1, <2>2, <2>3
<1>8. CASE ReceiveEnd
  <2>1. Proofs!ReadNothing
        /\ UNCHANGED <<txPc, txAt, sent, carried, dec, ackPending, acks, sending, wire>>
    BY <1>8, ReceiveSteps DEF ReceiveEnd, patcher, USB!ReadNothing
  <2>2. Proofs!OnTheWay' = Proofs!OnTheWay
    BY <1>0, <2>1, Proofs!ReadNothingMoves
  <2>3. Ahead' = Ahead /\ Current' = Current
    BY <2>1, <2>2 DEF Ahead, Pending, Current
  <2>4. CarriedPrefix' /\ (\E eaten \in Seq(Byte) : Partway(eaten))'
    BY <2>1, <2>3, PartwayKept
  <2> QED
    BY <2>1, <2>3, <2>4, Silent DEF CarryInv
<1>9. CASE UNCHANGED vars
  <2>1. UNCHANGED endpoint /\ UNCHANGED <<txPc, txAt, sent, carried, dec, ackPending, acks>>
    BY <1>9 DEF vars, patcher, board
  <2>2. Proofs!OnTheWay' = Proofs!OnTheWay /\ UNCHANGED <<sending, wire>>
    BY <2>1, EndpointKept
  <2>3. Ahead' = Ahead /\ Current' = Current
    BY <2>1, <2>2 DEF Ahead, Pending, Current
  <2>4. CarriedPrefix' /\ (\E eaten \in Seq(Byte) : Partway(eaten))'
    BY <2>1, <2>3, PartwayKept
  <2> QED
    BY <2>1, <2>2, <2>3, <2>4, Silent DEF CarryInv
<1> QED
  BY <1>1, <1>2, <1>3, <1>4, <1>5, <1>6, <1>7, <1>8, <1>9 DEF Next, PatcherStep, UIStep

\* pconnection.c:351-372 lists the format of the commands; while the packets of a
\* command stay together and its data are not empty, the board carries out what was
\* sent, byte for byte, in order, and each acknowledgement follows a command carried
\* out since the last one: the steps of CommandChannel, and no others.
THEOREM CarriedOutInOrder ==
    ASSUME ~Torn, \A cmd \in Asked \cup Played : Complete(cmd)
    PROVE  Spec => Channel!Steps
<1>1. AsMade
  BY DEF AsMade
<1>2. Init => Channel!Init
  <2> SUFFICES ASSUME Init PROVE Channel!Init
    OBVIOUS
  <2> QED
    BY DEF Init, Channel!Init
<1>3. LinkInv /\ TypeRest /\ CarryInv /\ [Next]_vars => CarryInv' /\ [Channel!Next]_Channel!vars
  BY <1>1, CarryStep DEF Promised
<1> QED
  BY <1>2, <1>3, LinkInit, LinkStep, TypeRestInit, TypeRestStep, CarryInit, PTL
  DEF Spec, Channel!Steps
-----------------------------------------------------------------------------
(* Blocks *)

\* Between the commands no transfer fills its packets, and an acknowledgement is of
\* the command the Transmitter waits for, once that has been carried out.
Short      == txPc # "data" => Proofs!EndsShort /\ Proofs!Gathered
Unanswered == \A i \in Len(carried) + 1..Len(sent) :
                 txPc = "idle" \/ i # txAt => sent[i].letter \notin Acknowledged
OneAnswer  == IF txPc = "idle" THEN replies = 0 /\ ~ackPending
              ELSE /\ txAt > Len(carried) => ~acked /\ replies = 0 /\ ~ackPending
                   /\ ackPending => replies = 0 /\ ~acked
                   /\ replies > 0 => replies = 1 /\ ~acked
Stored     == \A i \in uploaded : i <= Len(carried)

BlockInv == Prompt => Short /\ Unanswered /\ OneAnswer /\ Stored

LEMMA PromptBefore ==
    ASSUME LinkInv, NEW cmd \in Asked \cup Played, sent' = Append(sent, cmd), Prompt'
    PROVE  Prompt /\ ~FillsPackets(cmd) /\ cmd.letter # "R"
<1>1. /\ sent \in Seq(Asked \cup Played) /\ Len(sent) \in Nat /\ DOMAIN sent = 1..Len(sent)
      /\ DOMAIN sent' = 1..Len(sent) + 1
      /\ (\A i \in 1..Len(sent) : sent'[i] = sent[i]) /\ sent'[Len(sent) + 1] = cmd
  BY AppendProperties DEF LinkInv
<1>2. \A j \in DOMAIN sent' : ~FillsPackets(sent'[j]) /\ sent'[j].letter # "R"
  BY DEF Prompt
<1>3. Len(sent) + 1 \in DOMAIN sent' /\ \A j \in DOMAIN sent : j \in DOMAIN sent'
  BY <1>1
<1>4. ~FillsPackets(cmd) /\ cmd.letter # "R"
  BY <1>1, <1>2, <1>3
<1>5. ASSUME NEW j \in DOMAIN sent PROVE ~FillsPackets(sent[j]) /\ sent[j].letter # "R"
  BY <1>1, <1>2, <1>3
<1> QED
  BY <1>4, <1>5 DEF Prompt

\* What the Transmitter is busy with.
LEMMA CurrentCommand ==
    ASSUME LinkInv, txPc # "idle"
    PROVE  /\ txAt \in 1..Len(sent) /\ Current \in Asked \cup Played
           /\ Prompt => ~FillsPackets(Current) /\ Current.letter # "R"
<1>1. txAt \in 1..Len(sent) /\ sent \in Seq(Asked \cup Played)
  BY DEF LinkInv
<1>2. Current \in Asked \cup Played /\ txAt \in DOMAIN sent
  BY <1>1, ElementOfSeq DEF Current
<1> QED
  BY <1>1, <1>2 DEF Prompt, Current

\* The last packet of a command.
LEMMA LastPacket ==
    ASSUME NEW cmd, Complete(cmd), ~FillsPackets(cmd)
    PROVE  /\ cmd.letter \notin WithData => Len(HeaderOf(cmd)) % PacketSize # 0
           /\ cmd.letter \in WithData => Len(cmd.data) % PacketSize # 0
<1>1. cmd.letter \notin WithData => cmd.data = <<>>
  BY Encoded
<1>2. cmd.letter \in WithData => cmd.data # <<>>
  <2>1. cmd.letter \in WithData => Len(cmd.data) \in Lengths
    BY DEF Complete
  <2>2. 0 \notin Lengths /\ Len(<<>>) = 0
    BY DEF Lengths
  <2> QED
    BY <2>1, <2>2
<1> QED
  BY <1>1, <1>2 DEF FillsPackets, Full

LEMMA PromptKept ==
    ASSUME LinkInv, [Next]_vars, Prompt'
    PROVE  Prompt
<1>1. CASE TxHeader \/ SendMidi
  <2>1. PICK cmd \in Asked \cup Played : sent' = Append(sent, cmd)
    BY <1>1 DEF TxHeader, SendMidi
  <2> QED
    BY <2>1, PromptBefore
<1>2. CASE UNCHANGED sent
  BY <1>2 DEF Prompt
<1>3. TxHeader \/ SendMidi \/ UNCHANGED sent
  BY DEF Next, PatcherStep, UIStep, TxData, WaitSync, Acknowledge, Endpoint, PExTransmit,
         ReceiveByte, ReceiveEnd, patcher, vars
<1> QED
  BY <1>1, <1>2, <1>3

LEMMA ShortStep ==
    ASSUME LinkInv, CarryInv, AsMade, Short, [Next]_vars, Prompt'
    PROVE  Short'
<1>0. Proofs!Received(Byte) /\ Proofs!Parameters
  BY EndpointAssumption, ReceiveSteps DEF LinkInv
<1>1. CASE TxHeader \/ SendMidi
  <2>1. PICK cmd \in Asked \cup Played :
          /\ Proofs!Write(HeaderOf(cmd)) /\ sent' = Append(sent, cmd)
          /\ txPc' # "data" => cmd.letter \notin WithData
    <3>1. CASE TxHeader
      <4>1. PICK cmd \in Asked :
              /\ USB!Write(HeaderOf(cmd)) /\ sent' = Append(sent, cmd)
              /\ txPc' = IF cmd.letter \in WithData THEN "data" ELSE Written(cmd)
        BY <3>1 DEF TxHeader
      <4> QED
        BY <4>1, ReceiveSteps
    <3>2. CASE SendMidi
      <4>1. PICK cmd \in Played : USB!Write(HeaderOf(cmd)) /\ sent' = Append(sent, cmd)
        BY <3>2 DEF SendMidi
      <4>2. cmd.letter \notin WithData
        BY BulkLinkAssumption DEF WithData
      <4> QED
        BY <4>1, <4>2, ReceiveSteps
    <3> QED
      BY <1>1, <3>1, <3>2
  <2>2. Prompt /\ ~FillsPackets(cmd)
    BY <2>1, PromptBefore
  <2>3. txPc' # "data" => Len(HeaderOf(cmd)) % PacketSize # 0
    BY <2>1, <2>2, LastPacket DEF AsMade
  <2> QED
    BY <2>1, <2>2, <2>3, Proofs!WriteGathers DEF Short
<1>2. CASE TxData
  <2>1. Proofs!Write(Current.data) /\ txPc = "data" /\ UNCHANGED sent
    BY <1>2, ReceiveSteps DEF TxData
  <2>2. Prompt
    BY <2>1 DEF Prompt
  <2>3. Current \in Asked \cup Played /\ ~FillsPackets(Current) /\ Current.letter \in WithData
    BY <2>1, <2>2, CurrentCommand DEF CarryInv
  <2>4. Len(Current.data) % PacketSize # 0
    BY <2>3, LastPacket DEF AsMade
  <2> QED
    BY <2>1, <2>2, <2>4, Proofs!WriteGathers DEF Short
<1>3. CASE Endpoint
  <2>1. (Proofs!Packet \/ Proofs!DataReceived) /\ UNCHANGED <<txPc, sent>>
    BY <1>3, ReceiveSteps DEF Endpoint, patcher
  <2>2. Proofs!EndsShort => Proofs!EndsShort' /\ Proofs!Gathered'
    BY <1>0, <2>1, Proofs!PacketGathers, Proofs!DataReceivedGathers
  <2> QED
    BY <2>1, <2>2 DEF Short, Prompt
<1>4. CASE ReceiveByte \/ ReceiveEnd
  <2>1. (Proofs!ReadByte \/ Proofs!ReadNothing) /\ UNCHANGED <<txPc, sent>>
    BY <1>4, ReceiveSteps DEF ReceiveByte, ReceiveEnd, patcher
  <2>2. Proofs!EndsShort /\ Proofs!Gathered => Proofs!EndsShort' /\ Proofs!Gathered'
    BY <2>1, Proofs!ReadGathers
  <2> QED
    BY <2>1, <2>2 DEF Short, Prompt
<1>5. CASE WaitSync \/ Acknowledge \/ PExTransmit \/ UNCHANGED vars
  <2>1. UNCHANGED <<endpoint, sent>> /\ (txPc' # "data" => txPc # "data")
    BY <1>5 DEF WaitSync, Acknowledge, PExTransmit, patcher, vars
  <2> QED
    BY <2>1 DEF Short, Prompt, endpoint, Proofs!EndsShort, Proofs!Gathered
<1> QED
  BY <1>1, <1>2, <1>3, <1>4, <1>5 DEF Next, PatcherStep, UIStep

\* Nothing more is coming from the Transmitter: all has been carried out.
LEMMA AllCarried ==
    ASSUME LinkInv, CarryInv, AsMade, Short, txPc # "data", Quiet
    PROVE  Len(carried) = Len(sent)
<1>1. Proofs!OnTheWay = <<>> /\ Pending = <<>>
  BY Proofs!NothingOnTheWay DEF Quiet, CarryInv, Short, Pending
<1>2. PICK eaten \in Seq(Byte) : Partway(eaten)
  BY DEF CarryInv
<1>3. Ahead = <<>>
  BY <1>1, ConcatEmptySeq DEF Ahead
<1>4. eaten \o Ahead = eaten
  BY <1>3, ConcatEmptySeq
<1>5. Spells(eaten, sent, Len(carried))
  BY <1>2, <1>4 DEF Partway
<1>6. ASSUME Len(carried) # Len(sent) PROVE FALSE
  <2>1. /\ sent \in Seq(Asked \cup Played) /\ Len(carried) \in 0..Len(sent) - 1
        /\ Len(carried) + 1 \in 1..Len(sent)
    BY <1>6 DEF LinkInv, CarryInv, CarriedPrefix
  <2> DEFINE cmd == sent[Len(carried) + 1]
  <2>2. Complete(cmd)
    BY <2>1, ElementOfSeq DEF AsMade
  <2>3. Encoding(cmd) \in Seq(Byte)
    BY <2>2, Encoded
  <2>4. Len(Encoding(cmd)) <= Len(eaten)
    BY <1>5, <2>1, <2>3, SpellsHead
  <2>5. Len(eaten) < Len(Encoding(cmd))
    BY <1>2, <1>6 DEF Partway
  <2> QED
    BY <2>3, <2>4, <2>5
<1> QED
  BY <1>6

LEMMA AnswersKept ==
    ASSUME TypeRest, Unanswered, OneAnswer, Stored,
           UNCHANGED <<sent, txAt, acked, uploaded, carried, ackPending, replies>>,
           txPc' = "idle" <=> txPc = "idle"
    PROVE  Unanswered' /\ OneAnswer' /\ Stored'
BY DEF Unanswered, OneAnswer, Stored

\* Nothing is left to be answered when the Transmitter goes on.
LEMMA WaitSyncAnswered ==
    ASSUME LinkInv, TypeRest, CarryInv, AsMade, Short, Unanswered, OneAnswer, Stored,
           WaitSync
    PROVE  Unanswered' /\ OneAnswer' /\ Stored'
<1>0. /\ sent \in Seq(Asked \cup Played) /\ Len(sent) \in Nat /\ txAt \in 1..Len(sent)
      /\ Len(carried) \in 0..Len(sent)
  BY DEF WaitSync, LinkInv, CarryInv, CarriedPrefix
<1>1. /\ txPc = "wait" /\ txPc' = "idle" /\ (acked \/ Quiet)
      /\ \A i \in uploaded' : i \in uploaded \/ i = txAt
      /\ UNCHANGED <<sent, carried, ackPending, replies>>
  BY DEF WaitSync, board
<1>2. txAt <= Len(carried) /\ replies = 0 /\ ~ackPending
      /\ \A i \in Len(carried) + 1..Len(sent) : i # txAt
  <2>1. CASE acked
    <3>1. ~(txAt > Len(carried)) /\ ~ackPending /\ ~(replies > 0)
      BY <1>1, <2>1 DEF OneAnswer
    <3>2. replies \in Nat
      BY DEF TypeRest
    <3>3. replies = 0
      BY <3>1, <3>2
    <3> QED
      BY <1>0, <3>1, <3>3
  <2>2. CASE Quiet
    <3>1. Len(carried) = Len(sent)
      BY <1>1, <2>2, AllCarried
    <3> QED
      BY <1>0, <2>2, <3>1 DEF Quiet
  <2> QED
    BY <1>1, <2>1, <2>2
<1>3. Unanswered'
  BY <1>1, <1>2 DEF Unanswered
<1>4. OneAnswer'
  BY <1>1, <1>2 DEF OneAnswer
<1>5. Stored'
  BY <1>1, <1>2 DEF Stored
<1> QED
  BY <1>3, <1>4, <1>5

\* A command follows those that are not answered.
LEMMA SentUnanswered ==
    ASSUME LinkInv, CarryInv, Unanswered, NEW cmd \in Asked \cup Played,
           sent' = Append(sent, cmd), UNCHANGED carried,
           txPc = "idle" \/ UNCHANGED <<txAt, txPc>>,
           (txPc' = "idle" \/ txAt' # Len(sent) + 1) => cmd.letter \notin Acknowledged
    PROVE  Unanswered'
<1> DEFINE n == Len(sent)
           k == Len(carried)
<1>1. /\ n \in Nat /\ k \in 0..n /\ Len(sent') = n + 1
      /\ (\A i \in 1..n : sent'[i] = sent[i]) /\ sent'[n + 1] = cmd
  BY AppendProperties DEF LinkInv, CarryInv, CarriedPrefix
<1> HIDE DEF n, k
<1> SUFFICES ASSUME NEW i \in k + 1..n + 1, txPc' = "idle" \/ i # txAt'
             PROVE  sent'[i].letter \notin Acknowledged
  BY <1>1 DEF Unanswered, k
<1>2. CASE i = n + 1
  BY <1>1, <1>2 DEF n
<1>3. CASE i # n + 1
  <2>1. i \in k + 1..n /\ i \in 1..n
    BY <1>1, <1>3
  <2>2. sent[i].letter \notin Acknowledged
    BY <2>1 DEF Unanswered, k, n
  <2> QED
    BY <1>1, <2>1, <2>2
<1> QED
  BY <1>2, <1>3

LEMMA AnswerStep ==
    ASSUME LinkInv, TypeRest, CarryInv, AsMade, Prompt, Prompt', Short,
           Unanswered, OneAnswer, Stored, [Next]_vars
    PROVE  Unanswered' /\ OneAnswer' /\ Stored'
<1>0. /\ sent \in Seq(Asked \cup Played) /\ Len(sent) \in Nat /\ txAt \in 0..Len(sent)
      /\ Len(carried) \in 0..Len(sent) /\ replies \in Nat
  BY DEF LinkInv, CarryInv, CarriedPrefix, TypeRest
<1>1. CASE TxHeader
  <2>1. PICK cmd \in Asked :
          /\ sent' = Append(sent, cmd) /\ txAt' = Len(sent) + 1
          /\ txPc' = IF cmd.letter \in WithData THEN "data" ELSE Written(cmd)
    BY <1>1 DEF TxHeader
  <2>2. txPc = "idle" /\ acked' = FALSE /\ UNCHANGED <<uploaded, carried, ackPending, replies>>
    BY <1>1 DEF TxHeader, board
  <2>3. cmd.letter # "R"
    BY <2>1, PromptBefore
  <2>4. txPc' = "idle" => cmd.letter \notin Acknowledged
    BY <2>1, <2>3 DEF Written, Waits, Acknowledged
  <2>5. Unanswered'
    <3>1. txAt' # Len(sent) + 1 => cmd.letter \notin Acknowledged
      BY <2>1
    <3> QED
      BY <2>1, <2>2, <2>4, <3>1, SentUnanswered
  <2>6. OneAnswer'
    BY <2>2 DEF OneAnswer
  <2> QED
    BY <2>2, <2>5, <2>6 DEF Stored
<1>2. CASE TxData
  <2>1. /\ txPc = "data" /\ txPc' = Written(Current)
        /\ UNCHANGED <<sent, txAt, acked, uploaded, carried, ackPending, replies>>
    BY <1>2 DEF TxData, board
  <2>2. Current.letter \in WithData /\ Current.letter # "R"
    BY <2>1, CurrentCommand DEF CarryInv
  <2>3. txPc' = "wait"
    BY <2>1, <2>2 DEF Written, Waits, WithData
  <2> QED
    BY <2>1, <2>3, AnswersKept
<1>3. CASE WaitSync
  BY <1>3, WaitSyncAnswered
<1>4. CASE SendMidi
  <2>1. PICK cmd \in Played : sent' = Append(sent, cmd)
    BY <1>4 DEF SendMidi
  <2>2. UNCHANGED <<txPc, txAt, acked, uploaded, carried, ackPending, replies>>
    BY <1>4 DEF SendMidi, board
  <2>3. cmd.letter \notin Acknowledged
    BY BulkLinkAssumption DEF Acknowledged
  <2>4. Unanswered'
    BY <2>1, <2>2, <2>3, SentUnanswered
  <2> QED
    BY <2>2, <2>4 DEF OneAnswer, Stored
<1>5. CASE Acknowledge
  <2>1. /\ replies > 0 /\ replies' = replies - 1 /\ acked' = TRUE
        /\ UNCHANGED <<txPc, txAt, sent, uploaded, carried, ackPending>>
    BY <1>5 DEF Acknowledge, board
  <2>2. txPc # "idle" /\ ~(txAt > Len(carried)) /\ replies = 1 /\ ~ackPending
    BY <1>0, <2>1 DEF OneAnswer
  <2>3. OneAnswer'
    BY <2>1, <2>2 DEF OneAnswer
  <2> QED
    BY <2>1, <2>3 DEF Unanswered, Stored
<1>6. CASE PExTransmit
  <2>1. /\ ackPending' = FALSE /\ IF ackPending THEN replies' = replies + 1 ELSE replies' = replies
        /\ UNCHANGED <<txPc, txAt, sent, acked, uploaded, carried>>
    BY <1>6 DEF PExTransmit, patcher
  <2>2. OneAnswer'
    BY <1>0, <2>1 DEF OneAnswer
  <2> QED
    BY <2>1, <2>2 DEF Unanswered, Stored
<1>7. CASE ReceiveByte
  <2>1. /\ UNCHANGED <<txPc, txAt, sent, acked, uploaded, replies>>
        /\ \/ UNCHANGED carried /\ ackPending' = (ackPending \/ FALSE)
           \/ LET cmd == sent[Len(carried) + 1]
              IN  /\ Len(carried) < Len(sent) /\ carried' = Append(carried, cmd)
                  /\ ackPending' = (ackPending \/ cmd.letter \in Acknowledged)
    BY <1>7, ByteRead
  <2>2. CASE UNCHANGED carried /\ ackPending' = (ackPending \/ FALSE)
    <3>1. ackPending' = ackPending
      BY <2>2 DEF TypeRest
    <3> QED
      BY <2>1, <2>2, <3>1, AnswersKept
  <2> DEFINE k == Len(carried)
             cmd == sent[k + 1]
             a == cmd.letter \in Acknowledged
  <2>3. CASE k < Len(sent) /\ carried' = Append(carried, cmd) /\ ackPending' = (ackPending \/ a)
    <3>1. Len(carried') = k + 1 /\ k \in Nat
      BY <2>3, AppendProperties DEF CarryInv, CarriedPrefix
    <3>2. Unanswered'
      <4>1. \A i \in k + 2..Len(sent) : i \in k + 1..Len(sent)
        BY <1>0
      <4>2. k + 1 + 1 = k + 2
        BY <3>1
      <4> QED
        BY <2>1, <3>1, <4>1, <4>2 DEF Unanswered
    <3>3. Stored'
      <4>1. \A i \in uploaded : i <= k + 1
        BY <1>0, <3>1 DEF Stored, TypeRest
      <4> QED
        BY <2>1, <3>1, <4>1 DEF Stored
    <3>4. k + 1 \in k + 1..Len(sent)
      BY <1>0, <2>3
    <3>5. a => txPc # "idle" /\ txAt = k + 1
      BY <3>4 DEF Unanswered
    <3> HIDE DEF a
    <3>6. OneAnswer'
      <4>1. CASE a
        <5>1. txPc # "idle" /\ ~(txAt > k + 1) /\ ~acked /\ replies = 0
          BY <1>0, <3>1, <3>5, <4>1 DEF OneAnswer
        <5> QED
          BY <2>1, <3>1, <5>1 DEF OneAnswer
      <4>2. CASE ~a
        <5>1. ackPending' = ackPending
          BY <2>3, <4>2 DEF TypeRest
        <5>2. txAt > k + 1 => txAt > k
          BY <1>0, <3>1
        <5> QED
          BY <2>1, <3>1, <5>1, <5>2 DEF OneAnswer
      <4> QED
        BY <4>1, <4>2
    <3> QED
      BY <3>2, <3>3, <3>6
  <2> QED
    BY <2>1, <2>2, <2>3
<1>8. CASE Endpoint \/ ReceiveEnd \/ UNCHANGED vars
  <2>1. UNCHANGED <<txPc, sent, txAt, acked, uploaded, carried, ackPending, replies>>
    BY <1>8 DEF Endpoint, ReceiveEnd, vars, patcher, board
  <2> QED
    BY <2>1, AnswersKept
<1> QED
  BY <1>1, <1>2, <1>3, <1>4, <1>5, <1>6, <1>7, <1>8 DEF Next, PatcherStep, UIStep

LEMMA BlockInit == Init => BlockInv
<1> SUFFICES ASSUME Init PROVE BlockInv
  OBVIOUS
<1>1. /\ sending = FALSE /\ rx = <<>> /\ txPc = "idle" /\ sent = <<>> /\ uploaded = {}
      /\ replies = 0 /\ ackPending = FALSE /\ carried = <<>>
  BY DEF Init, USB!Init
<1>2. Short
  BY <1>1 DEF Short, Proofs!EndsShort, Proofs!Gathered
<1>3. Len(sent) = 0 /\ Len(carried) = 0
  BY <1>1
<1>4. Unanswered /\ Stored
  BY <1>1, <1>3 DEF Unanswered, Stored
<1>5. OneAnswer
  BY <1>1 DEF OneAnswer
<1> QED
  BY <1>2, <1>4, <1>5 DEF BlockInv

\* USBBulkConnection.java:774 reports "Block uploaded": unless a command stays with
\* the driver or the acknowledgement of a preset is taken for that of the block, the
\* block is then in the memory of the board, with the bytes it was sent with.
THEOREM BlocksAreThere ==
    ASSUME ~Torn, \A cmd \in Asked \cup Played : Complete(cmd)
    PROVE  Spec => []BlockUploaded
<1>1. AsMade
  BY DEF AsMade
<1>2. LinkInv /\ TypeRest /\ CarryInv /\ BlockInv => BlockUploaded
  <2> SUFFICES ASSUME LinkInv, TypeRest, CarryInv, BlockInv, Prompt, NEW i \in uploaded
               PROVE  i <= Len(carried) /\ carried[i] = sent[i]
    BY DEF BlockUploaded
  <2>1. i <= Len(carried)
    BY DEF BlockInv, Stored
  <2>2. i \in 1..Len(sent)
    BY DEF LinkInv, TypeRest
  <2>3. i \in 1..Len(carried)
    BY <2>1, <2>2 DEF CarryInv, CarriedPrefix
  <2> QED
    BY <2>1, <2>3 DEF CarryInv, CarriedPrefix
<1>3. LinkInv /\ TypeRest /\ CarryInv /\ BlockInv /\ [Next]_vars => CarryInv' /\ BlockInv'
  <2> SUFFICES ASSUME LinkInv, TypeRest, CarryInv, BlockInv, [Next]_vars
               PROVE  CarryInv' /\ BlockInv'
    OBVIOUS
  <2>1. CarryInv'
    BY <1>1, CarryStep
  <2>2. ASSUME Prompt' PROVE Short' /\ Unanswered' /\ OneAnswer' /\ Stored'
    <3>1. Prompt
      BY <2>2, PromptKept
    <3> QED
      BY <1>1, <2>2, <3>1, ShortStep, AnswerStep DEF BlockInv
  <2> QED
    BY <2>1, <2>2 DEF BlockInv
<1> QED
  BY <1>2, <1>3, LinkInit, LinkStep, TypeRestInit, TypeRestStep, CarryInit, BlockInit, PTL
  DEF Spec
=============================================================================
