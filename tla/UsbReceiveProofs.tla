-------------------------- MODULE UsbReceiveProofs --------------------------
(***************************************************************************)
(* Every step of the endpoint, its driver, its reader and the host keeps   *)
(* the types and the room that a transfer needs, for every size of packets *)
(* and of the queue.  The modules that instantiate UsbReceive use this.    *)
(***************************************************************************)
EXTENDS UsbReceive, SequenceTheorems, TLAPS

LEMMA WholePackets ==
    ASSUME NEW p \in Nat \ {0}, NEW room \in Nat
    PROVE  /\ (room \div p) * p \in 0..room
           /\ ((room \div p) * p + p - 1) \div p \in Nat
           /\ (((room \div p) * p + p - 1) \div p) * p = (room \div p) * p
<1> DEFINE k == room \div p
<1>1. k \in Nat /\ k * p \in 0..room
  OBVIOUS
<1> HIDE DEF k
<1>2. (k * p + p - 1) \div p = k
  BY <1>1
<1> QED
  BY <1>1, <1>2 DEF k

LEMMA Product ==
    ASSUME NEW p \in Nat, NEW k \in Nat
    PROVE  k * p \in Nat
OBVIOUS

LEMMA OnePacketLess ==
    ASSUME NEW p \in Nat \ {0}, NEW k \in Nat, k > 0
    PROVE  (k - 1) * p = k * p - p /\ k * p >= p
OBVIOUS

Received(Byte) == TypeOK(Byte) /\ NothingDropped

\* A transfer that is started asks for whole packets that fit.
LEMMA StartFits ==
    ASSUME Parameters, NEW room \in Nat, StartReceive((room \div PacketSize) * PacketSize)
    PROVE  /\ receiving' \in BOOLEAN /\ pktcnt' \in Nat /\ rx' = <<>>
           /\ pktcnt' * PacketSize <= room
<1>1. PacketSize \in Nat \ {0}
  BY DEF Parameters
<1> DEFINE whole == (room \div PacketSize) * PacketSize
<1>2. /\ whole \in 0..room /\ (whole + PacketSize - 1) \div PacketSize \in Nat
      /\ ((whole + PacketSize - 1) \div PacketSize) * PacketSize = whole
  BY <1>1, WholePackets
<1>3. receiving' = TRUE /\ pktcnt' = (whole + PacketSize - 1) \div PacketSize /\ rx' = <<>>
  BY DEF StartReceive
<1> HIDE DEF whole
<1> QED
  BY <1>2, <1>3

LEMMA PacketKeeps ==
    ASSUME Parameters, NEW Byte, Received(Byte), Packet
    PROVE  Received(Byte)'
<1> DEFINE n == IF Len(wire) < PacketSize THEN Len(wire) ELSE PacketSize
<1>0. /\ wire \in Seq(Byte) /\ rx \in Seq(Byte) /\ iqueue \in Seq(Byte)
      /\ pktcnt \in Nat /\ pktcnt > 0 /\ PacketSize \in Nat \ {0}
      /\ QueueSize \in Nat
      /\ Len(rx) + pktcnt * PacketSize <= QueueSize - Len(iqueue)
  BY DEF Received, TypeOK, NothingDropped, Room, Packet, Parameters
<1>1. n \in 0..Len(wire) /\ n \in Nat /\ n <= PacketSize
  BY <1>0
<1>2. /\ rx' = rx \o SubSeq(wire, 1, n) /\ wire' = SubSeq(wire, n + 1, Len(wire))
      /\ sending' = (n < Len(wire))
      /\ pktcnt' = (IF n < PacketSize THEN 0 ELSE pktcnt - 1)
      /\ UNCHANGED <<receiving, iqueue>>
  BY DEF Packet
<1> HIDE DEF n
<1>3. SubSeq(wire, 1, n) \in Seq(Byte) /\ Len(SubSeq(wire, 1, n)) = n
  BY <1>0, <1>1
<1>4. wire' \in Seq(Byte)
  BY <1>0, <1>1, <1>2
<1>5. rx' \in Seq(Byte) /\ Len(rx') = Len(rx) + n
  BY <1>0, <1>2, <1>3, ConcatProperties
<1>6. pktcnt' \in Nat /\ n + pktcnt' * PacketSize <= pktcnt * PacketSize
  <2>1. CASE n < PacketSize
    <3>1. pktcnt' = 0 /\ pktcnt * PacketSize >= PacketSize
      BY <1>0, <1>2, <2>1, OnePacketLess
    <3> QED
      BY <1>0, <1>1, <3>1
  <2>2. CASE ~(n < PacketSize)
    <3>1. pktcnt' = pktcnt - 1 /\ n = PacketSize
      BY <1>0, <1>1, <1>2, <2>2
    <3>2. (pktcnt - 1) * PacketSize = pktcnt * PacketSize - PacketSize
      BY <1>0, OnePacketLess
    <3> DEFINE d == pktcnt * PacketSize
    <3>3. d \in Nat /\ pktcnt' * PacketSize = d - PacketSize
      BY <1>0, <3>1, <3>2
    <3> HIDE DEF d
    <3>4. n + pktcnt' * PacketSize <= d
      BY <1>0, <3>1, <3>3
    <3> QED
      BY <1>0, <3>1, <3>4 DEF d
  <2> QED
    BY <2>1, <2>2
<1>7. TypeOK(Byte)'
  BY <1>2, <1>4, <1>5, <1>6 DEF Received, TypeOK
<1>8. NothingDropped'
  <2>1. Len(rx') + pktcnt' * PacketSize <= QueueSize - Len(iqueue)
    <3> DEFINE d == pktcnt * PacketSize
               e == pktcnt' * PacketSize
    <3>1. d \in Nat /\ e \in Nat /\ n + e <= d
          /\ Len(rx) + d <= QueueSize - Len(iqueue)
      BY <1>0, <1>6, Product
    <3>2. Len(rx) \in Nat /\ Len(iqueue) \in Nat
      BY <1>0
    <3> HIDE DEF d, e
    <3>3. Len(rx') + e <= QueueSize - Len(iqueue)
      BY <1>0, <1>1, <1>5, <3>1, <3>2
    <3> QED
      BY <3>3 DEF e
  <2> QED
    BY <1>2, <2>1 DEF NothingDropped, Room
<1> QED
  BY <1>7, <1>8 DEF Received

LEMMA DataReceivedKeeps ==
    ASSUME Parameters, NEW Byte, Received(Byte), DataReceived
    PROVE  /\ Received(Byte)'
           /\ iqueue' = iqueue \o rx
           /\ receiving' => rx' = <<>>
<1> DEFINE n == IF Len(rx) < Room THEN Len(rx) ELSE Room
<1>0. /\ wire \in Seq(Byte) /\ rx \in Seq(Byte) /\ iqueue \in Seq(Byte)
      /\ receiving \in BOOLEAN /\ pktcnt = 0 /\ PacketSize \in Nat \ {0}
      /\ QueueSize \in Nat /\ Len(rx) <= Room
  BY DEF Received, TypeOK, NothingDropped, Room, DataReceived, Pending, Parameters
<1>1. Room \in Nat /\ n = Len(rx) /\ SubSeq(rx, 1, n) = rx
  BY <1>0 DEF Room
<1> DEFINE room  == Room - Len(rx)
           whole == (room \div PacketSize) * PacketSize
<1>2. /\ iqueue' = iqueue \o rx /\ UNCHANGED <<sending, wire>>
      /\ IF whole # 0 THEN StartReceive(whole) ELSE receiving' = FALSE /\ UNCHANGED <<pktcnt, rx>>
  BY <1>1 DEF DataReceived
<1>3. room \in Nat
  BY <1>0, <1>1
<1>4. iqueue' \in Seq(Byte) /\ Room' = room
  <2>1. iqueue \o rx \in Seq(Byte) /\ Len(iqueue \o rx) = Len(iqueue) + Len(rx)
    BY <1>0, ConcatProperties
  <2> QED
    BY <1>0, <1>2, <2>1 DEF Room
<1> HIDE DEF room
<1>5. CASE whole # 0
  <2>1. StartReceive(whole)
    BY <1>2, <1>5
  <2>2. receiving' \in BOOLEAN /\ pktcnt' \in Nat /\ rx' = <<>> /\ pktcnt' * PacketSize <= room
    BY <1>3, <2>1, StartFits
  <2>3. <<>> \in Seq(Byte) /\ Len(<<>>) = 0
    OBVIOUS
  <2> HIDE DEF whole
  <2>4. TypeOK(Byte)'
    BY <1>2, <1>4, <2>2, <2>3 DEF Received, TypeOK
  <2>5. NothingDropped'
    BY <1>0, <1>4, <2>2, <2>3 DEF NothingDropped
  <2> QED
    BY <1>2, <2>2, <2>4, <2>5 DEF Received
<1>6. CASE whole = 0
  BY <1>2, <1>4, <1>6 DEF Received, TypeOK, NothingDropped
<1> QED
  BY <1>5, <1>6

\* inotify, before a byte is taken from the queue or none is found in it.
LEMMA InotifyKeeps ==
    ASSUME Parameters, NEW Byte, Received(Byte), Inotify
    PROVE  /\ receiving' \in BOOLEAN /\ pktcnt' \in Nat /\ rx' \in Seq(Byte)
           /\ receiving' => Len(rx') + pktcnt' * PacketSize <= Room
           /\ UNCHANGED <<receiving, rx>> \/ (~receiving /\ rx' = <<>>)
<1>1. CASE active /\ ~receiving /\ Room >= PacketSize
  <2>1. Room \in Nat
    BY <1>1 DEF Received, TypeOK, Room, Parameters
  <2>2. StartReceive((Room \div PacketSize) * PacketSize)
    BY <1>1 DEF Inotify
  <2>3. receiving' \in BOOLEAN /\ pktcnt' \in Nat /\ rx' = <<>> /\ pktcnt' * PacketSize <= Room
    BY <2>1, <2>2, StartFits
  <2> DEFINE d == pktcnt' * PacketSize
  <2>4. d \in Nat /\ d <= Room
    BY <2>3, Product DEF Parameters
  <2>5. <<>> \in Seq(Byte) /\ Len(<<>>) = 0
    OBVIOUS
  <2> HIDE DEF d
  <2>6. Len(rx') + d <= Room
    BY <2>1, <2>3, <2>4, <2>5
  <2> QED
    BY <1>1, <2>3, <2>5, <2>6 DEF d
<1>2. CASE ~(active /\ ~receiving /\ Room >= PacketSize)
  <2>1. UNCHANGED <<receiving, pktcnt, rx>>
    BY <1>2 DEF Inotify
  <2>2. /\ receiving \in BOOLEAN /\ pktcnt \in Nat /\ rx \in Seq(Byte)
        /\ receiving => Len(rx) + pktcnt * PacketSize <= Room
    BY DEF Received, TypeOK, NothingDropped
  <2>3. receiving' => Len(rx') + pktcnt' * PacketSize <= Room
    BY <2>1, <2>2
  <2> QED
    BY <2>1, <2>2, <2>3
<1> QED
  BY <1>1, <1>2

LEMMA ReadKeeps ==
    ASSUME Parameters, NEW Byte, Received(Byte), ReadByte \/ ReadNothing
    PROVE  Received(Byte)'
<1>0. Inotify /\ UNCHANGED <<sending, wire>>
  BY DEF ReadByte, ReadNothing
<1>1. /\ receiving' \in BOOLEAN /\ pktcnt' \in Nat /\ rx' \in Seq(Byte)
      /\ receiving' => Len(rx') + pktcnt' * PacketSize <= Room
  BY <1>0, InotifyKeeps
<1>2. iqueue' \in Seq(Byte) /\ Len(iqueue') <= Len(iqueue) /\ Len(iqueue') \in Nat
      /\ Len(iqueue) \in Nat
  <2>1. CASE iqueue # <<>> /\ iqueue' = Tail(iqueue)
    BY <2>1, HeadTailProperties DEF Received, TypeOK
  <2>2. CASE UNCHANGED iqueue
    BY <2>2 DEF Received, TypeOK
  <2> QED
    BY <2>1, <2>2 DEF ReadByte, ReadNothing
<1>3. TypeOK(Byte)'
  BY <1>0, <1>1, <1>2 DEF Received, TypeOK
<1>4. NothingDropped'
  <2> DEFINE d == pktcnt' * PacketSize
  <2>1. d \in Nat
    <3>1. PacketSize \in Nat /\ pktcnt' \in Nat
      BY <1>1 DEF Parameters
    <3> QED
      BY <3>1, Product
  <2>2. receiving' => Len(rx') + d <= QueueSize - Len(iqueue)
    BY <1>1 DEF Room
  <2> HIDE DEF d
  <2>3. receiving' => Len(rx') + d <= QueueSize - Len(iqueue')
    BY <1>1, <1>2, <2>1, <2>2 DEF Parameters
  <2> QED
    BY <2>3 DEF NothingDropped, Room, d
<1> QED
  BY <1>3, <1>4 DEF Received

LEMMA HostKeeps ==
    ASSUME Parameters, NEW Byte, Received(Byte), NEW data \in Seq(Byte),
           Write(data) \/ Reset \/ Configured
    PROVE  Received(Byte)'
<1>e. <<>> \in Seq(Byte) /\ Len(<<>>) = 0
  OBVIOUS
<1>1. CASE Write(data)
  BY <1>1 DEF Write, Received, TypeOK, NothingDropped, Room
<1>2. CASE Reset
  BY <1>2, <1>e DEF Reset, Received, TypeOK, NothingDropped
<1>3. CASE Configured
  <2>1. /\ iqueue' = <<>> /\ receiving' = TRUE /\ rx' = <<>> /\ UNCHANGED <<sending, wire>>
        /\ pktcnt' = (PacketSize + PacketSize - 1) \div PacketSize
    BY <1>3 DEF Configured, StartReceive
  <2>2. pktcnt' = 1
    <3>1. (1 * PacketSize + PacketSize - 1) \div PacketSize = 1
      BY DEF Parameters
    <3> QED
      BY <2>1, <3>1 DEF Parameters
  <2>3. TypeOK(Byte)'
    BY <1>e, <2>1, <2>2 DEF Received, TypeOK
  <2>4. NothingDropped'
    BY <1>e, <2>1, <2>2 DEF NothingDropped, Room, Parameters
  <2> QED
    BY <2>3, <2>4 DEF Received
<1> QED
  BY <1>1, <1>2, <1>3

LEMMA InitReceived ==
    ASSUME Parameters, NEW Byte, Init
    PROVE  Received(Byte)
<1>1. <<>> \in Seq(Byte) /\ Len(<<>>) = 0 /\ 1 * PacketSize = PacketSize
  BY DEF Parameters
<1>2. TypeOK(Byte)
  BY <1>1 DEF Init, TypeOK
<1>3. Len(rx) + pktcnt * PacketSize <= Room
  BY <1>1 DEF Parameters, Init, Room
<1> QED
  BY <1>2, <1>3 DEF Received, NothingDropped
-----------------------------------------------------------------------------
(* The bytes between the host and the thread that reads them *)

Collected == IF receiving THEN rx ELSE <<>>
OnTheWay  == iqueue \o Collected \o wire

LEMMA WayIsBytes ==
    ASSUME NEW Byte, Received(Byte)
    PROVE  /\ iqueue \in Seq(Byte) /\ Collected \in Seq(Byte) /\ wire \in Seq(Byte)
           /\ iqueue \o Collected \in Seq(Byte) /\ OnTheWay \in Seq(Byte)
<1>1. iqueue \in Seq(Byte) /\ Collected \in Seq(Byte) /\ wire \in Seq(Byte)
  BY DEF Received, TypeOK, Collected
<1>2. iqueue \o Collected \in Seq(Byte)
  BY <1>1, ConcatProperties
<1> QED
  BY <1>1, <1>2, ConcatProperties DEF OnTheWay

\* A packet moves bytes from the host to the buffer.
LEMMA PacketMoves ==
    ASSUME Parameters, NEW Byte, Received(Byte), Packet
    PROVE  OnTheWay' = OnTheWay
<1> DEFINE n == IF Len(wire) < PacketSize THEN Len(wire) ELSE PacketSize
           s == SubSeq(wire, 1, n)
           t == SubSeq(wire, n + 1, Len(wire))
<1>1. /\ wire \in Seq(Byte) /\ rx \in Seq(Byte) /\ iqueue \in Seq(Byte)
      /\ receiving = TRUE /\ UNCHANGED <<receiving, iqueue>> /\ rx' = rx \o s /\ wire' = t
  BY DEF Received, TypeOK, Packet
<1>2. n \in 0..Len(wire)
  BY <1>1 DEF Parameters
<1> HIDE DEF n
<1>3. \A i \in 1..Len(wire) : wire[i] \in Byte
  BY <1>1, ElementOfSeq
<1>4. s \in Seq(Byte) /\ t \in Seq(Byte)
  <2>1. (\A i \in 1..n : wire[i] \in Byte) /\ (\A i \in n + 1..Len(wire) : wire[i] \in Byte)
    BY <1>2, <1>3
  <2> QED
    BY <1>2, <2>1, SubSeqProperties
<1>5. s \o t = wire
  <2>1. SubSeq(wire, 1, n) \o SubSeq(wire, n + 1, Len(wire)) = SubSeq(wire, 1, Len(wire))
    <3>1. 1 \in 1..Len(wire) + 1 /\ n \in 1 - 1..Len(wire) /\ Len(wire) \in n..Len(wire)
      BY <1>1, <1>2
    <3> QED
      BY <1>1, <3>1, ConcatAdjacentSubSeq
  <2> QED
    BY <1>1, <2>1, SubSeqFull
<1> HIDE DEF s, t
<1>6. iqueue \o (rx \o s) \o t = iqueue \o rx \o (s \o t)
  <2>1. iqueue \o (rx \o s) = iqueue \o rx \o s
    <3>1. iqueue \in Seq(Byte) /\ rx \in Seq(Byte) /\ s \in Seq(Byte)
      BY <1>1, <1>4
    <3> QED
      BY <3>1, ConcatAssociative
  <2>2. iqueue \o rx \in Seq(Byte)
    BY <1>1, ConcatProperties
  <2>3. iqueue \o rx \o s \o t = iqueue \o rx \o (s \o t)
    BY <1>4, <2>2, ConcatAssociative
  <2> QED
    BY <2>1, <2>3
<1>7. Collected = rx /\ Collected' = rx \o s
  BY <1>1 DEF Collected
<1> QED
  BY <1>1, <1>5, <1>6, <1>7 DEF OnTheWay

\* The callback moves bytes from the buffer to the queue.
LEMMA DataReceivedMoves ==
    ASSUME Parameters, NEW Byte, Received(Byte), DataReceived
    PROVE  OnTheWay' = OnTheWay
<1>1. iqueue' = iqueue \o rx /\ (receiving' => rx' = <<>>)
  BY DataReceivedKeeps
<1>2. receiving = TRUE /\ wire' = wire
  BY DEF DataReceived, Pending, Received, TypeOK
<1>3. Collected = rx /\ Collected' = <<>>
  BY <1>1, <1>2 DEF Collected
<1>4. iqueue \o rx \in Seq(Byte)
  BY WayIsBytes, <1>3
<1>5. (iqueue \o rx) \o <<>> = iqueue \o rx
  BY <1>4, ConcatEmptySeq
<1> QED
  BY <1>1, <1>2, <1>3, <1>5 DEF OnTheWay

LEMMA InotifyMoves ==
    ASSUME Parameters, NEW Byte, Received(Byte), Inotify
    PROVE  Collected' = Collected
<1>1. UNCHANGED <<receiving, rx>> \/ (~receiving /\ rx' = <<>>)
  BY InotifyKeeps
<1> QED
  BY <1>1 DEF Collected

\* The thread takes the byte that was written first.
LEMMA ReadByteMoves ==
    ASSUME Parameters, NEW Byte, Received(Byte), ReadByte
    PROVE  /\ Head(iqueue) \in Byte /\ OnTheWay' \in Seq(Byte)
           /\ OnTheWay = <<Head(iqueue)>> \o OnTheWay'
<1>1. iqueue # <<>> /\ Inotify /\ iqueue' = Tail(iqueue) /\ UNCHANGED wire
  BY DEF ReadByte
<1>2. Collected' = Collected
  BY <1>1, InotifyMoves
<1> DEFINE h == <<Head(iqueue)>>
           t == Tail(iqueue)
           c == Collected
<1>3. /\ iqueue \in Seq(Byte) /\ c \in Seq(Byte) /\ wire \in Seq(Byte)
      /\ Head(iqueue) \in Byte /\ h \in Seq(Byte) /\ t \in Seq(Byte)
  BY <1>1, WayIsBytes, HeadTailProperties
<1>4. iqueue = h \o t
  BY <1>1, <1>3
<1>5. OnTheWay' = t \o c \o wire
  BY <1>1, <1>2 DEF OnTheWay
<1> HIDE DEF h, t, c
<1>6. t \o c \in Seq(Byte) /\ (h \o t) \o c = h \o (t \o c)
  BY <1>3, ConcatProperties, ConcatAssociative
<1>7. (h \o (t \o c)) \o wire = h \o ((t \o c) \o wire) /\ (t \o c) \o wire \in Seq(Byte)
  <2> DEFINE u == t \o c
  <2>1. u \in Seq(Byte) /\ h \in Seq(Byte) /\ wire \in Seq(Byte)
    BY <1>3, <1>6
  <2> HIDE DEF u
  <2>2. (h \o u) \o wire = h \o (u \o wire)
    BY <2>1, ConcatAssociative
  <2>3. u \o wire \in Seq(Byte)
    BY <2>1, ConcatProperties
  <2> QED
    BY <2>2, <2>3 DEF u
<1>8. OnTheWay = (h \o t) \o c \o wire
  BY <1>4 DEF OnTheWay, c
<1> QED
  BY <1>3, <1>5, <1>6, <1>7, <1>8 DEF h

LEMMA ReadNothingMoves ==
    ASSUME Parameters, NEW Byte, Received(Byte), ReadNothing
    PROVE  OnTheWay' = OnTheWay
<1>1. Inotify /\ UNCHANGED <<iqueue, wire>>
  BY DEF ReadNothing
<1> QED
  BY <1>1, InotifyMoves DEF OnTheWay

\* What is written follows what is on its way.
LEMMA WriteMoves ==
    ASSUME NEW Byte, Received(Byte), NEW data \in Seq(Byte), wire = <<>>, Write(data)
    PROVE  OnTheWay' = OnTheWay \o data
<1>1. wire' = data /\ UNCHANGED <<receiving, rx, iqueue>>
  BY DEF Write
<1>2. Collected' = Collected
  BY <1>1 DEF Collected
<1>3. OnTheWay = iqueue \o Collected
  BY WayIsBytes, ConcatEmptySeq DEF OnTheWay
<1> QED
  BY <1>1, <1>2, <1>3 DEF OnTheWay

\* A transfer of the host ends with its last byte.
LEMMA PacketEnds ==
    ASSUME Parameters, NEW Byte, Received(Byte), Packet, ~sending'
    PROVE  wire' = <<>>
<1> DEFINE n == IF Len(wire) < PacketSize THEN Len(wire) ELSE PacketSize
<1>1. Len(wire) \in Nat /\ n \in Nat
  BY DEF Received, TypeOK, Parameters
<1>2. sending' = (n < Len(wire)) /\ wire' = SubSeq(wire, n + 1, Len(wire))
  BY DEF Packet
<1> HIDE DEF n
<1>3. ~(n < Len(wire))
  BY <1>2, Zenon
<1>4. Len(wire) < n + 1
  BY <1>1, <1>3
<1> QED
  BY <1>1, <1>2, <1>4, SubSeqEmpty
-----------------------------------------------------------------------------
(* Transfers whose last packet is short *)

EndsShort == sending => Len(wire) % PacketSize # 0

\* Nothing is left in the buffer once all of such a transfer has been taken.
Gathered == receiving /\ pktcnt > 0 /\ ~sending => rx = <<>>

LEMMA Remainder ==
    ASSUME NEW p \in Nat \ {0}, NEW m \in Nat, NEW q \in Nat, NEW r \in 0..p - 1,
           m = q * p + r
    PROVE  m % p = r
OBVIOUS

LEMMA OneLess ==
    ASSUME NEW p \in Nat \ {0}, NEW n \in Nat, n >= p
    PROVE  (n - p) % p = n % p
<1> DEFINE q == n \div p
           r == n % p
<1>1. n = q * p + r /\ r \in 0..p - 1 /\ q \in Nat
  OBVIOUS
<1> HIDE DEF q, r
<1>2. q >= 1
  BY <1>1
<1>3. q - 1 \in Nat /\ (q - 1) * p = q * p - p /\ q * p \in Nat
  BY <1>1, <1>2, OnePacketLess, Product
<1>4. n - p = (q - 1) * p + r
  <2> DEFINE a == q * p
             b == (q - 1) * p
  <2>1. a \in Nat /\ b = a - p /\ n = a + r
    BY <1>1, <1>3
  <2> HIDE DEF a, b
  <2>2. n - p = b + r
    BY <1>1, <2>1
  <2> QED
    BY <2>2 DEF b
<1>5. n - p \in Nat
  OBVIOUS
<1> QED
  BY <1>1, <1>3, <1>4, <1>5, Remainder DEF r

LEMMA PacketGathers ==
    ASSUME Parameters, NEW Byte, Received(Byte), Packet, EndsShort
    PROVE  EndsShort' /\ Gathered'
<1> DEFINE l == Len(wire)
           p == PacketSize
           n == IF l < p THEN l ELSE p
<1>1. wire \in Seq(Byte) /\ l \in Nat /\ p \in Nat \ {0}
  BY DEF Received, TypeOK, Parameters
<1>2. /\ wire' = SubSeq(wire, n + 1, l) /\ sending' = (n < l)
      /\ pktcnt' = (IF n < p THEN 0 ELSE pktcnt - 1) /\ l % p # 0
  BY DEF Packet, EndsShort
<1> HIDE DEF l, p
<1>3. CASE n < l
  <2>1. n = p /\ l >= p /\ p + 1 \in Nat /\ p + 1 <= l
    BY <1>1, <1>3
  <2>2. Len(wire') = l - p
    <3>1. \A i, j \in Int : Len(SubSeq(wire, i, j)) = IF i <= j THEN j - i + 1 ELSE 0
      BY <1>1
    <3>2. Len(wire') = l - (p + 1) + 1
      BY <1>1, <1>2, <2>1, <3>1
    <3> QED
      BY <1>1, <3>2
  <2>3. Len(wire') % p # 0
    BY <1>1, <1>2, <2>1, <2>2, OneLess
  <2>4. sending'
    BY <1>2, <1>3, Zenon
  <2> QED
    BY <2>3, <2>4 DEF EndsShort, Gathered, p
<1>4. CASE ~(n < l)
  <2>1. n < p
    <3>1. l # p
      BY <1>1, <1>2
    <3> QED
      BY <1>1, <1>4, <3>1
  <2>2. pktcnt' = 0
    BY <1>2, <2>1
  <2>3. ~sending'
    BY <1>2, <1>4, Zenon
  <2> QED
    BY <2>2, <2>3 DEF EndsShort, Gathered
<1> QED
  BY <1>3, <1>4

LEMMA StartGathers ==
    ASSUME NEW n, StartReceive(n), UNCHANGED <<sending, wire>>, EndsShort
    PROVE  EndsShort' /\ Gathered'
BY DEF StartReceive, EndsShort, Gathered

LEMMA DataReceivedGathers ==
    ASSUME DataReceived, EndsShort
    PROVE  EndsShort' /\ Gathered'
<1> DEFINE n     == IF Len(rx) < Room THEN Len(rx) ELSE Room
           whole == ((Room - n) \div PacketSize) * PacketSize
<1>1. /\ UNCHANGED <<sending, wire>>
      /\ StartReceive(whole) \/ receiving' = FALSE
  BY DEF DataReceived
<1> HIDE DEF whole
<1> QED
  BY <1>1, StartGathers DEF EndsShort, Gathered

LEMMA ReadGathers ==
    ASSUME ReadByte \/ ReadNothing, EndsShort, Gathered
    PROVE  EndsShort' /\ Gathered'
<1> DEFINE whole == (Room \div PacketSize) * PacketSize
<1>1. /\ UNCHANGED <<sending, wire>>
      /\ StartReceive(whole) \/ UNCHANGED <<receiving, pktcnt, rx>>
  BY DEF ReadByte, ReadNothing, Inotify
<1> HIDE DEF whole
<1> QED
  BY <1>1, StartGathers DEF EndsShort, Gathered

LEMMA WriteGathers ==
    ASSUME NEW data, Write(data), Len(data) % PacketSize # 0
    PROVE  EndsShort' /\ Gathered'
BY DEF Write, EndsShort, Gathered

\* All of it has been read.
LEMMA NothingOnTheWay ==
    ASSUME Gathered, ~sending, receiving, pktcnt > 0, wire = <<>>, iqueue = <<>>
    PROVE  OnTheWay = <<>>
<1> DEFINE none == <<>>
<1>1. none \o none = none
  BY ConcatEmptySeq
<1>2. iqueue = none /\ Collected = none /\ wire = none
  BY DEF Collected, Gathered
<1> HIDE DEF none
<1>3. OnTheWay = none
  BY <1>1, <1>2 DEF OnTheWay
<1> QED
  BY <1>3 DEF none
=============================================================================
