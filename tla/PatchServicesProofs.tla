------------------------ MODULE PatchServicesProofs ------------------------
(***************************************************************************)
(* Proofs about PatchServices: a patch has its memory to itself, the ring  *)
(* of the host port hands messages on, for every size of both, and the     *)
(* record of a fault lasts until it has been reported.                     *)
(***************************************************************************)
EXTENDS PatchServices, TLAPS, SequenceTheorems

(* The memory *)

BlockSet == [at : Nat, size : Nat]

\* What has been handed out lies below the next block, as long as the total
\* has not become negative; and the total never exceeds what is left.
MemoryInv ==
    /\ current \in 0..SdramSize /\ total \in Int /\ total <= SdramSize - current
    /\ blocks \in Seq(BlockSet)
    /\ total >= 0 =>
         /\ \A i \in DOMAIN blocks : blocks[i].at + blocks[i].size <= current
         /\ \A i, j \in DOMAIN blocks : i # j => Disjoint(blocks[i], blocks[j])

LEMMA RoundUpGrows ==
    ASSUME NEW size \in Nat
    PROVE  RoundUp(size) \in Nat /\ RoundUp(size) >= size
BY DEF RoundUp

LEMMA InitMemory == SdramInit => MemoryInv'
BY SdramAssumption DEF SdramInit, MemoryInv

LEMMA MallocMemory ==
    ASSUME MemoryInv, NEW size \in Nat, Malloc(size)
    PROVE  MemoryInv'
<1> DEFINE n == RoundUp(size)
<1>0. n \in Nat /\ n >= size
  BY RoundUpGrows
<1> HIDE DEF n
<1>m. /\ total' = total - n
      /\ IF current + n > SdramSize
           THEN blocks' = Append(blocks, Block(0, size)) /\ UNCHANGED current
           ELSE blocks' = Append(blocks, Block(current, size)) /\ current' = current + n
  BY DEF Malloc, n
<1>1. CASE current + n > SdramSize
  <2>1. total' < 0
    BY <1>0, <1>m, <1>1, SdramAssumption DEF MemoryInv
  <2>2. blocks' \in Seq(BlockSet)
    <3>1. Block(0, size) \in BlockSet
      BY DEF Block, BlockSet
    <3> QED
      BY <3>1, <1>m, <1>1 DEF MemoryInv
  <2> QED
    BY <1>0, <1>m, <1>1, <2>1, <2>2, SdramAssumption DEF MemoryInv
<1>2. CASE ~(current + n > SdramSize)
  <2> DEFINE b == Block(current, size)
  <2>1. b \in BlockSet /\ b.at = current /\ b.size = size
    BY <1>2, SdramAssumption DEF MemoryInv, Block, BlockSet
  <2>2. blocks' = Append(blocks, b) /\ current' = current + n
    BY <1>m, <1>2
  <2> HIDE DEF b
  <2>3. blocks' \in Seq(BlockSet)
    BY <2>1, <2>2 DEF MemoryInv
  <2>4. DOMAIN blocks' = 1..Len(blocks) + 1 /\ DOMAIN blocks = 1..Len(blocks)
        /\ Len(blocks) \in Nat
        /\ blocks'[Len(blocks) + 1] = b
        /\ \A i \in DOMAIN blocks : blocks'[i] = blocks[i]
    BY <2>1, <2>2 DEF MemoryInv
  <2>5. ASSUME total' >= 0
        PROVE  /\ \A i \in DOMAIN blocks' : blocks'[i].at + blocks'[i].size <= current'
               /\ \A i, j \in DOMAIN blocks' : i # j => Disjoint(blocks'[i], blocks'[j])
    <3>1. total >= 0
      BY <2>5, <1>0, <1>m DEF MemoryInv
    <3>2. \A i \in DOMAIN blocks : /\ blocks[i].at \in Nat /\ blocks[i].size \in Nat
                                   /\ blocks[i].at + blocks[i].size <= current
      <4>1. \A i \in DOMAIN blocks : blocks[i] \in BlockSet
        BY ElementOfSeq DEF MemoryInv
      <4> QED
        BY <4>1, <3>1 DEF MemoryInv, BlockSet
    <3>3. \A i \in DOMAIN blocks' : blocks'[i].at + blocks'[i].size <= current'
      <4>1. current \in Nat
        BY SdramAssumption DEF MemoryInv
      <4> QED
        BY <4>1, <3>2, <2>1, <2>2, <2>4, <1>0
    <3>4. \A i \in DOMAIN blocks : Disjoint(blocks[i], b) /\ Disjoint(b, blocks[i])
      BY <3>2, <2>1 DEF Disjoint, Reaches
    <3>5. \A i, j \in DOMAIN blocks : i # j => Disjoint(blocks[i], blocks[j])
      BY <3>1 DEF MemoryInv
    <3>6. \A i, j \in DOMAIN blocks' : i # j => Disjoint(blocks'[i], blocks'[j])
      BY <3>4, <3>5, <2>4
    <3> QED
      BY <3>3, <3>6
  <2>6. current' \in 0..SdramSize /\ total' \in Int /\ total' <= SdramSize - current'
    BY <1>0, <1>m, <1>2, <2>2, SdramAssumption DEF MemoryInv
  <2> QED
    BY <2>3, <2>5, <2>6 DEF MemoryInv
<1> QED
  BY <1>1, <1>2

\* A patch that runs has not asked for too much.
PatchInv ==
    /\ MemoryInv
    /\ patch \in {"none", "init", "running"}
    /\ patch = "running" => total >= 0

LEMMA PatchInvInvariant == Spec => []PatchInv
<1>1. Init => PatchInv
  BY SdramAssumption DEF Init, PatchInv, MemoryInv
<1>2. PatchInv /\ [Next]_vars => PatchInv'
  <2> SUFFICES ASSUME PatchInv, [Next]_vars PROVE PatchInv'
    OBVIOUS
  <2>1. CASE StartPatch
    BY <2>1, InitMemory DEF StartPatch, PatchInv
  <2>2. CASE Allocate
    BY <2>2, MallocMemory, PatchServicesAssumption DEF Allocate, PatchInv
  <2>3. CASE UNCHANGED <<sdram, patch>>
    BY <2>3 DEF PatchInv, MemoryInv, sdram, Disjoint, Reaches
  <2>4. CASE Started
    BY <2>4 DEF Started, PatchInv, MemoryInv, sdram, Disjoint, Reaches
  <2>5. CASE StopPatch
    BY <2>5 DEF StopPatch, PatchInv, MemoryInv, sdram, Disjoint, Reaches
  <2>6. CASE Mismatch \/ PatchSends \/ PatchFills \/ PatchPublishes \/ PatchReports
    BY <2>6, <2>3 DEF Mismatch, PatchSends, PatchFills, PatchPublishes, PatchReports
  <2>7. CASE Reset
    BY <2>7, InitMemory DEF Reset, PatchInv
  <2>8. CASE UNCHANGED vars
    BY <2>8, <2>3 DEF vars
  <2>9. CASE DspThread
    BY <2>9, <2>1, <2>2, <2>4, <2>5, <2>6 DEF DspThread
  <2>10. CASE Ui \/ HostThread \/ Device
    BY <2>10, <2>3 DEF Ui, HostThread, Device
  <2>11. CASE Next
    BY <2>7, <2>9, <2>10, <2>11 DEF Next
  <2> QED
    BY <2>8, <2>11
<1> QED
  BY <1>1, <1>2, PTL DEF Spec

\* patch.c:279: a patch runs only with all the memory it has asked for, each
\* block to itself, however large the memory and whatever it asks for.
THEOREM PatchRunsInItsMemory == Spec => []RunsInItsMemory
<1>1. PatchInv => RunsInItsMemory
  <2> SUFFICES ASSUME PatchInv, patch = "running" PROVE BlocksFit
    BY DEF RunsInItsMemory
  <2>1. \A i \in DOMAIN blocks : blocks[i] \in BlockSet
    BY ElementOfSeq DEF PatchInv, MemoryInv
  <2>2. \A i \in DOMAIN blocks : blocks[i].at \in Nat /\ blocks[i].size \in Nat
    BY <2>1 DEF BlockSet
  <2> QED
    BY <2>2, SdramAssumption DEF PatchInv, MemoryInv, BlocksFit
<1> QED
  BY <1>1, PatchInvInvariant, PTL
-----------------------------------------------------------------------------
(* The slots of the ring, counted from one of them *)

Slot(s, i) == (s + i) % RingSize

LEMMA SlotIs ==
    ASSUME NEW s \in Slots, NEW i \in 0..RingSize
    PROVE  /\ Slot(s, i) = IF s + i < RingSize THEN s + i ELSE s + i - RingSize
           /\ Slot(s, i) \in Slots
BY HostMidiAssumption DEF Slot, Slots

LEMMA AfterIs ==
    ASSUME NEW s \in Slots
    PROVE  /\ After(s) = IF s = RingSize - 1 THEN 0 ELSE s + 1
           /\ After(s) \in Slots
BY HostMidiAssumption DEF After, Slots

\* The slots from the one after read_ptr to write_ptr.
Distance(s, t) == (t - s) % RingSize

LEMMA DistanceIs ==
    ASSUME NEW s \in Slots, NEW t \in Slots
    PROVE  /\ Distance(s, t) = IF t >= s THEN t - s ELSE t - s + RingSize
           /\ Distance(s, t) \in 0..RingSize - 1
BY HostMidiAssumption DEF Distance, Slots

LEMMA SlotAtDistance ==
    ASSUME NEW s \in Slots, NEW t \in Slots
    PROVE  Slot(s, Distance(s, t)) = t
<1> DEFINE d == Distance(s, t)
<1>1. d = (IF t >= s THEN t - s ELSE t - s + RingSize) /\ d \in 0..RingSize
  BY DistanceIs, HostMidiAssumption DEF Slots
<1> HIDE DEF d
<1>2. Slot(s, d) = IF s + d < RingSize THEN s + d ELSE s + d - RingSize
  BY <1>1, SlotIs
<1> QED
  BY <1>1, <1>2, HostMidiAssumption DEF Slots, d

LEMMA DistanceOfSlot ==
    ASSUME NEW s \in Slots, NEW i \in 0..RingSize - 1
    PROVE  Distance(s, Slot(s, i)) = i
<1> DEFINE t == Slot(s, i)
<1>1. i \in 0..RingSize
  BY HostMidiAssumption
<1>2. t = (IF s + i < RingSize THEN s + i ELSE s + i - RingSize) /\ t \in Slots
  BY <1>1, SlotIs
<1> HIDE DEF t
<1>3. Distance(s, t) = IF t >= s THEN t - s ELSE t - s + RingSize
  BY <1>2, DistanceIs
<1> QED
  BY <1>2, <1>3, HostMidiAssumption DEF Slots, t

LEMMA SlotsDiffer ==
    ASSUME NEW s \in Slots, NEW i \in 0..RingSize - 1, NEW j \in 0..RingSize - 1, i # j
    PROVE  Slot(s, i) # Slot(s, j)
BY DistanceOfSlot

LEMMA AfterSlot ==
    ASSUME NEW s \in Slots, NEW i \in 0..RingSize - 1
    PROVE  /\ After(Slot(s, i)) = Slot(s, i + 1)
           /\ Slot(After(s), i) = Slot(s, i + 1)
<1> DEFINE t == Slot(s, i)
           u == After(s)
<1>1. i \in 0..RingSize /\ i + 1 \in 0..RingSize /\ i \in Int
  BY HostMidiAssumption
<1>2. t = (IF s + i < RingSize THEN s + i ELSE s + i - RingSize) /\ t \in Slots
  BY <1>1, SlotIs
<1>3. Slot(s, i + 1) = IF s + (i + 1) < RingSize THEN s + (i + 1)
                       ELSE s + (i + 1) - RingSize
  BY <1>1, SlotIs
<1>4. u = (IF s = RingSize - 1 THEN 0 ELSE s + 1) /\ u \in Slots
  BY AfterIs
<1> HIDE DEF t, u
<1>5. After(t) = IF t = RingSize - 1 THEN 0 ELSE t + 1
  BY <1>2, AfterIs
<1>6. Slot(u, i) = IF u + i < RingSize THEN u + i ELSE u + i - RingSize
  BY <1>1, <1>4, SlotIs
<1>7. After(t) = Slot(s, i + 1)
  BY <1>1, <1>2, <1>3, <1>5, HostMidiAssumption DEF Slots
<1>8. Slot(u, i) = Slot(s, i + 1)
  BY <1>1, <1>3, <1>4, <1>6, HostMidiAssumption DEF Slots
<1> QED
  BY <1>7, <1>8 DEF t, u

LEMMA DistanceFromAfter ==
    ASSUME NEW s \in Slots, NEW t \in Slots, s # t
    PROVE  Distance(s, t) >= 1 /\ Distance(After(s), t) = Distance(s, t) - 1
<1> DEFINE u == After(s)
<1>1. u = (IF s = RingSize - 1 THEN 0 ELSE s + 1) /\ u \in Slots
  BY AfterIs
<1> HIDE DEF u
<1>2. /\ Distance(s, t) = IF t >= s THEN t - s ELSE t - s + RingSize
      /\ Distance(u, t) = IF t >= u THEN t - u ELSE t - u + RingSize
  BY <1>1, DistanceIs
<1>3. Distance(s, t) >= 1 /\ Distance(u, t) = Distance(s, t) - 1
  BY <1>1, <1>2, HostMidiAssumption DEF Slots
<1> QED
  BY <1>3 DEF u
-----------------------------------------------------------------------------
(* The ring.  Its events are those that are pending, and a message that is *)
(* being put in follows them without reaching read_ptr.  The exception is  *)
(* a message begun while the device was enumerated, when the ring seems    *)
(* full: its sender finds the ring full and gives it up.                   *)

Used == Distance(read_ptr, write_ptr)

HoldsPending ==
    /\ Len(pending) = Used
    /\ \A i \in 1..Used : pending[i] = event[Slot(read_ptr, i)]

Begun ==
    /\ Used + filled <= RingSize - 1
    /\ next = Slot(read_ptr, Used + filled)
    /\ \A i \in 1..filled : event[Slot(read_ptr, Used + i)] = msg[i]

Stale == senderPc = "fill" /\ filled = 0 /\ next = RingSize - 1 /\ read_ptr = 0

SenderInv ==
    /\ senderPc # "idle" => msg \in Messages
    /\ senderPc = "fill" => filled < Len(msg)
    /\ senderPc = "publish" => filled = Len(msg)

AwayInv == device # "midi" => pending = <<>> /\ untaken = <<>> /\ hostPc = "wait"

FullInv ==
    device \in {"enumerating", "input"} =>
        /\ read_ptr = 0 /\ write_ptr = RingSize - 1
        /\ senderPc = "idle" \/ Stale

MidiInv ==
    device = "midi" =>
        /\ write_ptr \in Slots
        /\ HoldsPending
        /\ senderPc = "idle" \/ Begun \/ (Stale /\ write_ptr = 0)

CopyInv ==
    /\ hostPc = "next" => untaken = buff_out
    /\ hostPc = "copy" => /\ untaken = Append(buff_out, event[read_ptr])
                          /\ Len(buff_out) < PerTransfer

SentInv ==
    hostPc = "wait" /\ (urb = "done" \/ state_out \in {"init", "send"}) => untaken = <<>>

RingInv == HostTypeOK /\ SenderInv /\ AwayInv /\ FullInv /\ MidiInv /\ CopyInv /\ SentInv
LEMMA MessageIs ==
    ASSUME NEW m \in Messages
    PROVE  /\ m \in Seq(Events) /\ Len(m) \in Nat \ {0}
           /\ \A i \in 1..Len(m) : m[i] \in Events
<1>1. m \in Seq(Events) /\ m # <<>>
  BY HostMidiAssumption
<1>2. \A i \in 1..Len(m) : m[i] \in Events
  BY <1>1, ElementOfSeq
<1>3. Len(m) \in Nat \ {0}
  BY <1>1, EmptySeq
<1> QED
  BY <1>1, <1>2, <1>3

LEMMA RingInit == HostInit => RingInv
BY HostMidiAssumption
   DEF HostInit, RingInv, HostTypeOK, SenderInv, AwayInv, FullInv, MidiInv, CopyInv, SentInv,
       Slots

\* What a step leaves alone.
LEMMA SameSender ==
    ASSUME RingInv, UNCHANGED sender
    PROVE  SenderInv'
BY DEF RingInv, sender, SenderInv

LEMMA SameRing ==
    ASSUME RingInv, UNCHANGED <<ring, sender, device, pending>>
    PROVE  FullInv' /\ MidiInv'
BY DEF RingInv, ring, sender, FullInv, MidiInv, HoldsPending, Begun, Stale, Used

(* The sender *)

LEMMA SendKeeps ==
    ASSUME RingInv, NEW m \in Messages, Send(m)
    PROVE  RingInv'
<1>0. m \in Seq(Events) /\ Len(m) \in Nat \ {0}
  BY MessageIs
<1>1. HostTypeOK'
  BY <1>0 DEF RingInv, HostTypeOK, Send, ring
<1>2. SenderInv'
  BY <1>0 DEF RingInv, Send, SenderInv
<1>3. AwayInv' /\ CopyInv' /\ SentInv'
  BY DEF RingInv, Send, ring, AwayInv, CopyInv, SentInv
<1>4. FullInv'
  BY DEF RingInv, Send, ring, FullInv, Stale
<1>5. MidiInv'
  <2> SUFFICES ASSUME device = "midi" PROVE MidiInv'
    BY DEF Send, MidiInv
  <2>1. write_ptr \in Slots /\ read_ptr \in Slots /\ HoldsPending
    BY DEF RingInv, MidiInv, HostTypeOK
  <2>2. Used \in 0..RingSize - 1 /\ Slot(read_ptr, Used) = write_ptr
    BY <2>1, DistanceIs, SlotAtDistance DEF Used
  <2>3. Used' = Used /\ HoldsPending'
    BY <2>1 DEF Send, ring, HoldsPending, Used
  <2>4. filled' = 0 /\ next' = write_ptr /\ UNCHANGED <<read_ptr, write_ptr>>
    BY DEF Send, ring
  <2>5. Begun'
    BY <2>2, <2>3, <2>4, HostMidiAssumption DEF Begun
  <2> QED
    BY <2>1, <2>3, <2>4, <2>5 DEF MidiInv
<1> QED
  BY <1>1, <1>2, <1>3, <1>4, <1>5 DEF RingInv

LEMMA FillKeeps ==
    ASSUME RingInv, Fill
    PROVE  RingInv'
<1>0. /\ senderPc = "fill" /\ msg \in Messages /\ filled < Len(msg) /\ filled \in Nat
      /\ next \in Slots /\ read_ptr \in Slots
      /\ UNCHANGED <<msg, read_ptr, write_ptr, device, state_out, hostPc, buff_out, urb,
                     signal, pending, untaken, errors>>
  BY DEF Fill, RingInv, SenderInv, HostTypeOK
<1>0a. /\ Len(msg) \in Nat \ {0}
       /\ \A i \in 1..Len(msg) : msg[i] \in Events
  BY <1>0, MessageIs
<1>0b. AwayInv' /\ SentInv'
  BY <1>0 DEF RingInv, AwayInv, SentInv
<1>1. CASE After(next) = read_ptr
  <2>1. senderPc' = "idle" /\ UNCHANGED <<event, next, filled>>
    BY <1>1 DEF Fill
  <2>2. HostTypeOK' /\ SenderInv' /\ CopyInv' /\ FullInv'
    BY <1>0, <2>1 DEF RingInv, HostTypeOK, SenderInv, CopyInv, FullInv
  <2>3. MidiInv'
    BY <1>0, <2>1 DEF RingInv, MidiInv, HoldsPending, Used
  <2> QED
    BY <1>0b, <2>2, <2>3 DEF RingInv
<1>2. CASE After(next) # read_ptr
  <2>1. /\ next' = After(next) /\ filled' = filled + 1
        /\ event' = [event EXCEPT ![After(next)] = msg[filled + 1]]
        /\ senderPc' = IF filled' = Len(msg) THEN "publish" ELSE "fill"
    BY <1>2 DEF Fill
  <2>2. After(next) \in Slots
    BY <1>0, AfterIs
  <2>3. filled + 1 \in 1..Len(msg)
    BY <1>0, <1>0a
  <2>4. HostTypeOK'
    BY <1>0, <1>0a, <2>1, <2>2, <2>3 DEF RingInv, HostTypeOK
  <2>5. SenderInv'
    BY <1>0, <1>0a, <2>1, <2>3 DEF SenderInv
  <2>6. \A s \in Slots : s # After(next) => event'[s] = event[s]
    BY <2>1 DEF RingInv, HostTypeOK
  <2>7. CopyInv'
    BY <1>0, <1>2, <2>6 DEF RingInv, CopyInv
  <2>8. ~Stale
    BY <1>2, AfterIs, HostMidiAssumption DEF Stale, Slots
  <2>9. FullInv'
    BY <1>0, <2>8 DEF RingInv, FullInv
  <2>10. MidiInv'
    <3> SUFFICES ASSUME device = "midi" PROVE MidiInv'
      BY <1>0 DEF MidiInv
    <3>1. write_ptr \in Slots /\ HoldsPending /\ Begun
      BY <1>0, <2>8 DEF RingInv, MidiInv
    <3> DEFINE n == Used + filled
    <3>2. Used \in Nat /\ n \in 0..RingSize - 1 /\ n \in Nat
      BY <1>0, <3>1, DistanceIs, HostMidiAssumption DEF Begun, Used
    <3>3. next = Slot(read_ptr, n) /\ After(next) = Slot(read_ptr, n + 1)
      BY <1>0, <3>1, <3>2, AfterSlot DEF Begun
    <3>4. n + 1 # RingSize
      <4>1. SUFFICES ASSUME n + 1 = RingSize PROVE FALSE
        OBVIOUS
      <4>2. Slot(read_ptr, n + 1) = read_ptr
        BY <4>1, <1>0, SlotIs, HostMidiAssumption DEF Slots
      <4> QED
        BY <4>2, <3>3, <1>2
    <3>5. n + 1 \in 0..RingSize - 1
      BY <3>2, <3>4, HostMidiAssumption
    <3>6. \A i \in 0..n : event'[Slot(read_ptr, i)] = event[Slot(read_ptr, i)]
      <4>1. TAKE i \in 0..n
      <4>2. i \in 0..RingSize - 1 /\ i # n + 1 /\ i \in 0..RingSize
        BY <3>2, HostMidiAssumption
      <4>3. Slot(read_ptr, i) # Slot(read_ptr, n + 1) /\ Slot(read_ptr, i) \in Slots
        BY <1>0, <3>5, <4>2, SlotsDiffer, SlotIs
      <4> QED
        BY <4>3, <3>3, <2>6
    <3>7. event'[Slot(read_ptr, n + 1)] = msg[filled + 1]
      BY <2>1, <2>2, <3>3 DEF RingInv, HostTypeOK
    <3>8. Used' = Used
      BY <1>0 DEF Used
    <3>9. HoldsPending'
      BY <1>0, <3>1, <3>2, <3>6, <3>8 DEF HoldsPending
    <3>10. Used + filled' <= RingSize - 1 /\ next' = Slot(read_ptr, Used + filled')
      BY <1>0, <2>1, <3>2, <3>3, <3>5
    <3>11. \A i \in 1..filled' : event'[Slot(read_ptr, Used + i)] = msg[i]
      <4>1. TAKE i \in 1..filled'
      <4>2. CASE i = filled + 1
        BY <4>2, <3>7, <1>0, <3>2
      <4>3. CASE i # filled + 1
        <5>1. i \in 1..filled /\ Used + i \in 0..n
          BY <4>3, <1>0, <2>1, <3>2
        <5>2. event[Slot(read_ptr, Used + i)] = msg[i]
          BY <5>1, <3>1 DEF Begun
        <5> QED
          BY <5>1, <5>2, <3>6
      <4> QED
        BY <4>2, <4>3
    <3>12. Begun'
      BY <1>0, <3>8, <3>10, <3>11 DEF Begun
    <3> QED
      BY <1>0, <3>1, <3>9, <3>12 DEF MidiInv
  <2> QED
    BY <1>0b, <2>4, <2>5, <2>7, <2>9, <2>10 DEF RingInv
<1> QED
  BY <1>1, <1>2

LEMMA PublishKeeps ==
    ASSUME RingInv, Publish
    PROVE  RingInv'
<1>0. /\ senderPc = "publish" /\ senderPc' = "idle" /\ write_ptr' = next
      /\ msg \in Messages /\ filled = Len(msg) /\ filled \in Nat
      /\ next \in Slots /\ read_ptr \in Slots
      /\ pending' = IF device = "midi" THEN pending \o msg ELSE pending
      /\ UNCHANGED <<event, read_ptr, msg, filled, next, device, state_out, hostPc,
                     buff_out, urb, signal, untaken, errors>>
  BY DEF Publish, RingInv, SenderInv, HostTypeOK
<1>0a. msg \in Seq(Events)
  BY <1>0, MessageIs
<1>1. HostTypeOK'
  BY <1>0, <1>0a DEF RingInv, HostTypeOK
<1>2. SenderInv' /\ AwayInv' /\ CopyInv' /\ SentInv'
  BY <1>0 DEF RingInv, SenderInv, AwayInv, CopyInv, SentInv
<1>3. FullInv'
  BY <1>0 DEF RingInv, FullInv, Stale
<1>4. MidiInv'
  <2> SUFFICES ASSUME device = "midi" PROVE MidiInv'
    BY <1>0 DEF MidiInv
  <2>1. write_ptr \in Slots /\ HoldsPending /\ Begun
    BY <1>0 DEF RingInv, MidiInv, Stale
  <2>2. Used \in Nat /\ Used + filled \in 0..RingSize - 1
    BY <1>0, <2>1, DistanceIs, HostMidiAssumption DEF Begun, Used
  <2>3. Used' = Used + filled
    BY <1>0, <2>1, <2>2, DistanceOfSlot DEF Begun, Used
  <2>4. /\ pending \in Seq(Events) /\ pending' = pending \o msg
        /\ Len(pending) = Used
    BY <1>0, <2>1 DEF RingInv, HostTypeOK, HoldsPending
  <2>5. Len(pending') = Used + filled
    <3>1. Len(pending \o msg) = Len(pending) + Len(msg)
      BY <1>0a, <2>4, ConcatProperties
    <3> QED
      BY <1>0, <2>4, <3>1
  <2>6. ASSUME NEW i \in 1..Used + filled
        PROVE  pending'[i] = event[Slot(read_ptr, i)]
    <3>1. CASE i <= Used
      <4>1. i \in 1..Used /\ pending'[i] = pending[i]
        BY <3>1, <2>2, <2>4, <1>0, <1>0a
      <4> QED
        BY <4>1, <2>1 DEF HoldsPending
    <3>2. CASE i > Used
      <4> DEFINE j == i - Used
      <4>1. j \in 1..filled /\ i = Used + j /\ pending'[i] = msg[j]
        BY <3>2, <2>2, <2>4, <1>0, <1>0a
      <4> QED
        BY <4>1, <2>1 DEF Begun
    <3> QED
      BY <3>1, <3>2, <2>2
  <2>7. HoldsPending'
    BY <1>0, <2>3, <2>5, <2>6 DEF HoldsPending
  <2> QED
    BY <1>0, <2>7 DEF MidiInv
<1> QED
  BY <1>1, <1>2, <1>3, <1>4 DEF RingInv

(* The device *)

LEMMA PlugKeeps ==
    ASSUME RingInv, Plug
    PROVE  RingInv'
<1>1. HostTypeOK'
  BY HostMidiAssumption DEF RingInv, HostTypeOK, Plug, sender, Slots
<1>2. SenderInv'
  BY SameSender DEF Plug
<1>3. AwayInv' /\ CopyInv' /\ SentInv' /\ FullInv' /\ MidiInv'
  BY DEF RingInv, AwayInv, CopyInv, SentInv, FullInv, MidiInv, Plug, sender
<1> QED
  BY <1>1, <1>2, <1>3 DEF RingInv

LEMMA FoundKeeps ==
    ASSUME RingInv, Found
    PROVE  RingInv'
<1>1. HostTypeOK'
  BY HostMidiAssumption DEF RingInv, HostTypeOK, Found, sender, Slots
<1>2. SenderInv'
  BY SameSender DEF Found
<1>3. AwayInv' /\ CopyInv' /\ SentInv'
  BY DEF RingInv, AwayInv, CopyInv, SentInv, Found
<1>4. FullInv'
  BY DEF RingInv, FullInv, Stale, Found, sender
<1>5. MidiInv'
  <2> SUFFICES ASSUME device' = "midi" PROVE MidiInv'
    BY DEF MidiInv
  <2>1. read_ptr' = 0 /\ write_ptr' = 0 /\ 0 \in Slots
    BY HostMidiAssumption DEF Found, Slots
  <2>2. Used' = 0
    BY <2>1, DistanceIs DEF Used
  <2>3. pending' = <<>>
    BY DEF RingInv, AwayInv, Found
  <2>4. HoldsPending'
    BY <2>2, <2>3 DEF HoldsPending
  <2>5. senderPc' = "idle" \/ Stale'
    BY <2>1 DEF RingInv, FullInv, Found, Stale, sender
  <2> QED
    BY <2>1, <2>4, <2>5 DEF MidiInv
<1> QED
  BY <1>1, <1>2, <1>3, <1>4, <1>5 DEF RingInv

LEMMA UnplugKeeps ==
    ASSUME RingInv, Unplug
    PROVE  RingInv'
<1>1. HostTypeOK'
  BY HostMidiAssumption DEF RingInv, HostTypeOK, Unplug, sender, Slots
<1>2. SenderInv'
  BY SameSender DEF Unplug
<1>3. AwayInv' /\ CopyInv' /\ SentInv' /\ FullInv' /\ MidiInv'
  BY DEF RingInv, AwayInv, CopyInv, SentInv, FullInv, MidiInv, Unplug
<1> QED
  BY <1>1, <1>2, <1>3 DEF RingInv

(* The thread of the host *)

LEMMA ProcessOutputKeeps ==
    ASSUME RingInv, ProcessOutput
    PROVE  RingInv'
<1>0. /\ device = "midi" /\ hostPc = "wait" /\ signal' = FALSE
      /\ UNCHANGED <<ring, sender, device, pending, errors>>
  BY DEF ProcessOutput
<1>1. SenderInv' /\ FullInv' /\ MidiInv' /\ AwayInv'
  BY <1>0, SameSender, SameRing DEF AwayInv
<1> SUFFICES HostTypeOK' /\ CopyInv' /\ SentInv'
  BY <1>1 DEF RingInv
<1>e. <<>> \in Seq(Events) /\ Len(<<>>) <= PerTransfer
  BY HostMidiAssumption
<1>2. ASSUME UNCHANGED <<hostPc, buff_out, urb>>, state_out' \in {"send", "retry"},
             untaken' = untaken \/ untaken' = <<>>,
             state_out' = "send" \/ urb = "done" => untaken' = <<>>
      PROVE  HostTypeOK' /\ CopyInv' /\ SentInv'
  <2>1. untaken' \in Seq(Events)
    BY <1>2, <1>e DEF RingInv, HostTypeOK
  <2>2. HostTypeOK'
    BY <1>0, <1>2, <2>1 DEF RingInv, HostTypeOK, ring, sender
  <2>3. CopyInv' /\ SentInv'
    BY <1>0, <1>2 DEF CopyInv, SentInv
  <2> QED
    BY <2>2, <2>3
<1>3. ASSUME Submit(buff_out), UNCHANGED <<hostPc, untaken>>
      PROVE  HostTypeOK' /\ CopyInv' /\ SentInv'
  BY <1>0, <1>3 DEF RingInv, HostTypeOK, CopyInv, SentInv, ring, sender, Submit
<1>4. ASSUME Start, UNCHANGED untaken, untaken = <<>>
      PROVE  HostTypeOK' /\ CopyInv' /\ SentInv'
  <2>1. /\ state_out' = "send" /\ urb' = urb
        /\ \/ hostPc' = "next" /\ buff_out' = <<>>
           \/ UNCHANGED <<hostPc, buff_out>>
    BY <1>4 DEF Start
  <2>2. buff_out' \in Seq(Events) /\ Len(buff_out') <= PerTransfer
    BY <2>1, <1>e DEF RingInv, HostTypeOK
  <2>3. HostTypeOK'
    BY <1>0, <1>4, <2>1, <2>2 DEF RingInv, HostTypeOK, ring, sender
  <2>4. CopyInv' /\ SentInv'
    BY <1>0, <1>4, <2>1 DEF CopyInv, SentInv
  <2> QED
    BY <2>3, <2>4
<1>5. CASE state_out = "init" /\ state_out' = "send" /\ UNCHANGED <<hostPc, buff_out, urb, untaken>>
  <2>1. untaken = <<>>
    BY <1>0, <1>5 DEF RingInv, SentInv
  <2>2. UNCHANGED <<hostPc, buff_out, urb>> /\ untaken' = untaken /\ state_out' \in {"send", "retry"}
    BY <1>5
  <2> QED
    BY <1>2, <2>1, <2>2
<1>6. CASE state_out = "poll" /\ Poll
  <2>1. CASE urb = "done"
    <3>1. untaken = <<>>
      BY <1>0, <2>1 DEF RingInv, SentInv
    <3>2. Start /\ UNCHANGED untaken
      BY <1>6, <2>1 DEF Poll
    <3> QED
      BY <1>4, <3>1, <3>2
  <2>2. CASE urb = "notready"
    <3>1. Submit(buff_out) /\ UNCHANGED <<hostPc, untaken>>
      BY <1>6, <2>2 DEF Poll
    <3> QED
      BY <1>3, <3>1
  <2>3. CASE urb = "idle"
    <3>1. state_out' = "retry" /\ UNCHANGED <<hostPc, buff_out, urb>> /\ untaken' = untaken
      BY <1>6, <2>3 DEF Poll
    <3> QED
      BY <1>2, <2>3, <3>1
  <2>4. CASE urb = "error"
    <3>1. state_out' = "send" /\ untaken' = <<>> /\ UNCHANGED <<hostPc, buff_out, urb>>
      BY <1>6, <2>4 DEF Poll
    <3> QED
      BY <1>2, <3>1
  <2> QED
    BY <2>1, <2>2, <2>3, <2>4 DEF RingInv, HostTypeOK
<1>7. CASE state_out = "send" /\ Start /\ UNCHANGED untaken
  <2>1. untaken = <<>>
    BY <1>0, <1>7 DEF RingInv, SentInv
  <2> QED
    BY <1>4, <1>7, <2>1
<1>8. CASE state_out = "retry" /\ Submit(buff_out) /\ UNCHANGED <<hostPc, untaken>>
  BY <1>3, <1>8
<1> QED
  BY <1>5, <1>6, <1>7, <1>8 DEF ProcessOutput

LEMMA AdvanceKeeps ==
    ASSUME RingInv, Advance
    PROVE  RingInv'
<1>0. /\ hostPc = "next" /\ device = "midi" /\ untaken = buff_out
      /\ read_ptr \in Slots /\ write_ptr \in Slots
      /\ UNCHANGED <<event, write_ptr, sender, device, signal, errors>>
  BY DEF Advance, RingInv, AwayInv, MidiInv, CopyInv, HostTypeOK
<1>1. SenderInv' /\ AwayInv'
  BY <1>0, SameSender DEF AwayInv
<1>2. CASE ~(read_ptr # write_ptr /\ Len(buff_out) < PerTransfer)
  <2>1. Submit(buff_out) /\ hostPc' = "wait" /\ UNCHANGED <<read_ptr, pending, untaken>>
    BY <1>2 DEF Advance
  <2>2. HostTypeOK' /\ CopyInv' /\ SentInv'
    BY <1>0, <2>1 DEF RingInv, HostTypeOK, CopyInv, SentInv, Submit, sender
  <2>3. FullInv' /\ MidiInv'
    BY <1>0, <2>1, SameRing DEF ring
  <2> QED
    BY <1>1, <2>2, <2>3 DEF RingInv
<1>3. CASE read_ptr # write_ptr /\ Len(buff_out) < PerTransfer
  <2>1. /\ read_ptr' = After(read_ptr) /\ hostPc' = "copy"
        /\ untaken' = Append(untaken, Head(pending)) /\ pending' = Tail(pending)
        /\ UNCHANGED <<buff_out, urb, state_out>>
    BY <1>3 DEF Advance
  <2>2. HoldsPending /\ pending \in Seq(Events) /\ untaken \in Seq(Events)
    BY <1>0 DEF RingInv, MidiInv, HostTypeOK
  <2>3. /\ Used \in 0..RingSize - 1 /\ Used \in Nat /\ Used >= 1
        /\ After(read_ptr) \in Slots /\ Used' = Used - 1
    BY <1>0, <1>3, <2>1, DistanceIs, DistanceFromAfter, AfterIs DEF Used
  <2>4. pending # <<>>
    BY <2>2, <2>3 DEF HoldsPending
  <2>5. /\ Head(pending) \in Events /\ Tail(pending) \in Seq(Events)
        /\ Len(Tail(pending)) = Len(pending) - 1
        /\ \A i \in 1..Len(Tail(pending)) : Tail(pending)[i] = pending[i + 1]
    BY <2>2, <2>4, HeadTailProperties
  <2>6. HostTypeOK'
    BY <1>0, <2>1, <2>2, <2>3, <2>5 DEF RingInv, HostTypeOK, sender
  <2>7. \A i \in 0..RingSize - 1 : Slot(After(read_ptr), i) = Slot(read_ptr, i + 1)
    BY <1>0, AfterSlot
  <2>8. HoldsPending'
    <3>1. Len(pending') = Used'
      BY <2>1, <2>2, <2>3, <2>5 DEF HoldsPending
    <3>2. ASSUME NEW i \in 1..Used'
          PROVE  pending'[i] = event'[Slot(read_ptr', i)]
      <4>1. Len(pending) = Used /\ Len(Tail(pending)) = Used - 1
        BY <2>2, <2>5 DEF HoldsPending
      <4>2. i \in 1..Len(Tail(pending)) /\ i + 1 \in 1..Used /\ i \in 0..RingSize - 1
        BY <2>3, <4>1, HostMidiAssumption
      <4>3. pending'[i] = pending[i + 1] /\ pending[i + 1] = event[Slot(read_ptr, i + 1)]
        BY <2>1, <2>2, <2>5, <4>2 DEF HoldsPending
      <4> QED
        BY <1>0, <2>1, <2>7, <4>2, <4>3
    <3> QED
      BY <3>1, <3>2 DEF HoldsPending
  <2>9. CopyInv'
    <3>1. 1 \in 1..Used
      BY <2>3
    <3>2. After(read_ptr) = Slot(read_ptr, 1)
      <4>1. 1 \in 0..RingSize
        BY HostMidiAssumption
      <4>2. Slot(read_ptr, 1) = IF read_ptr + 1 < RingSize THEN read_ptr + 1
                                ELSE read_ptr + 1 - RingSize
        BY <1>0, <4>1, SlotIs
      <4>3. After(read_ptr) = IF read_ptr = RingSize - 1 THEN 0 ELSE read_ptr + 1
        BY <1>0, AfterIs
      <4> QED
        BY <1>0, <4>2, <4>3, HostMidiAssumption DEF Slots
    <3>3. Head(pending) = pending[1]
      BY <2>2, <2>4
    <3>4. Head(pending) = event'[read_ptr']
      BY <1>0, <2>1, <2>2, <3>1, <3>2, <3>3 DEF HoldsPending
    <3> QED
      BY <1>0, <1>3, <2>1, <3>4 DEF CopyInv
  <2>10. SentInv' /\ FullInv'
    BY <1>0, <2>1 DEF SentInv, FullInv
  <2>11. MidiInv'
    <3>1. CASE senderPc = "idle"
      BY <1>0, <2>8, <3>1 DEF MidiInv, sender
    <3>2. CASE Begun
      <4>1. filled \in Nat /\ filled' = filled /\ next' = next /\ msg' = msg /\ event' = event
        BY <1>0 DEF RingInv, HostTypeOK, sender
      <4>2. Used' + filled <= RingSize - 1
        BY <2>3, <3>2, <4>1, HostMidiAssumption DEF Begun
      <4>3. next = Slot(read_ptr', Used' + filled)
        <5>1. Used' + filled \in 0..RingSize - 1 /\ (Used' + filled) + 1 = Used + filled
          BY <2>3, <4>1, <4>2
        <5> QED
          BY <2>1, <2>7, <3>2, <5>1 DEF Begun
      <4>4. ASSUME NEW i \in 1..filled
            PROVE  event[Slot(read_ptr', Used' + i)] = msg[i]
        <5>1. Used' + i \in 0..RingSize - 1 /\ (Used' + i) + 1 = Used + i
          BY <2>3, <4>1, <4>2, HostMidiAssumption
        <5> QED
          BY <2>1, <2>7, <3>2, <5>1 DEF Begun
      <4>5. Begun'
        BY <4>1, <4>2, <4>3, <4>4 DEF Begun
      <4> QED
        BY <1>0, <2>8, <4>5 DEF MidiInv
    <3>3. ~(Stale /\ write_ptr = 0)
      BY <1>3 DEF Stale
    <3> QED
      BY <1>0, <3>1, <3>2, <3>3 DEF RingInv, MidiInv
  <2> QED
    BY <1>1, <2>6, <2>9, <2>10, <2>11 DEF RingInv
<1> QED
  BY <1>2, <1>3

LEMMA CopyKeeps ==
    ASSUME RingInv, Copy
    PROVE  RingInv'
<1>0. /\ hostPc = "copy" /\ hostPc' = "next" /\ device = "midi"
      /\ buff_out' = Append(buff_out, event[read_ptr])
      /\ untaken = Append(buff_out, event[read_ptr]) /\ Len(buff_out) < PerTransfer
      /\ untaken \in Seq(Events) /\ buff_out \in Seq(Events)
      /\ UNCHANGED <<ring, sender, device, state_out, urb, signal, pending, untaken, errors>>
  BY DEF Copy, RingInv, CopyInv, AwayInv, HostTypeOK
<1>1. SenderInv' /\ FullInv' /\ MidiInv' /\ AwayInv'
  BY <1>0, SameSender, SameRing DEF AwayInv
<1>2. Len(buff_out') <= PerTransfer
  BY <1>0, HostMidiAssumption
<1>3. HostTypeOK'
  BY <1>0, <1>2 DEF RingInv, HostTypeOK, ring, sender
<1>4. CopyInv' /\ SentInv'
  BY <1>0 DEF CopyInv, SentInv
<1> QED
  BY <1>1, <1>3, <1>4 DEF RingInv

(* The controller *)

LEMMA ControllerKeeps ==
    ASSUME RingInv, Taken \/ NotReady \/ Failed \/ SOFProcess \/ OtherSignal
    PROVE  RingInv'
<1>0. /\ device = "midi" /\ signal' \in BOOLEAN
      /\ UNCHANGED <<ring, sender, device, state_out, hostPc, buff_out, pending>>
  BY DEF Taken, NotReady, Failed, Completed, SOFProcess, OtherSignal
<1>1. SenderInv' /\ FullInv' /\ MidiInv' /\ AwayInv'
  BY <1>0, SameSender, SameRing DEF AwayInv
<1>2. CASE Taken \/ NotReady \/ Failed
  <2>1. /\ hostPc = "wait" /\ state_out \in {"poll", "retry"}
        /\ \/ urb' = "done" /\ untaken' = <<>> /\ UNCHANGED errors
           \/ urb' = "notready" /\ UNCHANGED <<untaken, errors>>
           \/ urb' = "error" /\ errors < MaxErrors /\ errors' = errors + 1 /\ UNCHANGED untaken
    BY <1>2 DEF Taken, NotReady, Failed, Completed
  <2>2. untaken' \in Seq(Events) /\ errors' \in 0..MaxErrors
        /\ urb' \in {"idle", "done", "notready", "error"}
    <3>1. <<>> \in Seq(Events)
      OBVIOUS
    <3>2. untaken' \in Seq(Events)
      BY <2>1, <3>1 DEF RingInv, HostTypeOK
    <3>3. errors' \in 0..MaxErrors
      BY <2>1, HostMidiAssumption DEF RingInv, HostTypeOK
    <3> QED
      BY <2>1, <3>2, <3>3
  <2>2a. HostTypeOK'
    BY <1>0, <2>2 DEF RingInv, HostTypeOK, ring, sender
  <2>3. CopyInv' /\ SentInv'
    BY <1>0, <2>1 DEF CopyInv, SentInv
  <2> QED
    BY <1>1, <2>2a, <2>3 DEF RingInv
<1>3. CASE SOFProcess \/ OtherSignal
  <2>1. UNCHANGED <<urb, untaken, errors>>
    BY <1>3 DEF SOFProcess, OtherSignal
  <2>2. HostTypeOK' /\ CopyInv' /\ SentInv'
    BY <1>0, <2>1 DEF RingInv, HostTypeOK, CopyInv, SentInv, ring, sender
  <2> QED
    BY <1>1, <2>2 DEF RingInv
<1> QED
  BY <1>2, <1>3

LEMMA HostRestartKeeps ==
    ASSUME RingInv, HostRestart
    PROVE  RingInv'
<1>1. HostTypeOK'
  <2>1. 0 \in Slots /\ <<>> \in Seq(Events) /\ Len(<<>>) = 0 /\ 0 <= PerTransfer
    BY HostMidiAssumption DEF Slots
  <2> QED
    BY <2>1 DEF HostRestart, RingInv, HostTypeOK
<1>2. SenderInv' /\ AwayInv' /\ FullInv' /\ MidiInv' /\ CopyInv' /\ SentInv'
  BY DEF HostRestart, SenderInv, AwayInv, FullInv, MidiInv, CopyInv, SentInv
<1> QED
  BY <1>1, <1>2 DEF RingInv
-----------------------------------------------------------------------------
LEMMA RingInvInvariant == Spec => []RingInv
<1>1. Init => RingInv
  BY RingInit DEF Init
<1>2. RingInv /\ [Next]_vars => RingInv'
  <2> SUFFICES ASSUME RingInv, [Next]_vars PROVE RingInv'
    OBVIOUS
  <2>1. CASE UNCHANGED hvars
    <3>1. UNCHANGED <<ring, sender, device, pending>> /\ UNCHANGED sender
      BY <2>1 DEF hvars
    <3>2. SenderInv' /\ FullInv' /\ MidiInv'
      BY <3>1, SameSender, SameRing
    <3>3. HostTypeOK' /\ AwayInv' /\ CopyInv' /\ SentInv'
      BY <2>1 DEF hvars, ring, sender, RingInv, HostTypeOK, AwayInv, CopyInv, SentInv
    <3> QED
      BY <3>2, <3>3 DEF RingInv
  <2>2. CASE DspThread
    <3>1. CASE StartPatch \/ Mismatch \/ Allocate \/ Started \/ StopPatch \/ PatchReports
      BY <2>1, <3>1 DEF StartPatch, Mismatch, Allocate, Started, StopPatch, PatchReports
    <3>2. CASE PatchSends
      BY <3>2, SendKeeps DEF PatchSends
    <3>3. CASE PatchFills \/ PatchPublishes
      BY <3>3, FillKeeps, PublishKeeps DEF PatchFills, PatchPublishes
    <3> QED
      BY <2>2, <3>1, <3>2, <3>3 DEF DspThread
  <2>3. CASE HostThread
    BY <2>3, ProcessOutputKeeps, AdvanceKeeps, CopyKeeps DEF HostThread
  <2>4. CASE Device
    BY <2>4, PlugKeeps, FoundKeeps, UnplugKeeps, ControllerKeeps DEF Device
  <2>5. CASE Ui
    BY <2>1, <2>5 DEF Ui
  <2>6. CASE Reset
    BY <2>6, HostRestartKeeps DEF Reset
  <2>7. CASE Next
    BY <2>2, <2>3, <2>4, <2>5, <2>6, <2>7 DEF Next
  <2>8. CASE UNCHANGED vars
    BY <2>1, <2>8 DEF vars
  <2> QED
    BY <2>7, <2>8
<1> QED
  BY <1>1, <1>2, PTL DEF Spec

\* usbh_midi_core.c:598-640: the ring hands the messages on whole, unchanged and
\* in order, whatever its size and theirs, and however its sender and its reader
\* interleave.
THEOREM RingHandsOnInOrder == Spec => []RingInOrder
<1>1. RingInv => RingInOrder
  <2> SUFFICES ASSUME RingInv, device = "midi"
               PROVE  /\ pending = Content
                      /\ hostPc = "next" => untaken = buff_out
                      /\ hostPc = "copy" => untaken = Append(buff_out, event[read_ptr])
    BY DEF RingInOrder
  <2>1. HoldsPending /\ pending \in Seq(Events)
    BY DEF RingInv, MidiInv, HostTypeOK
  <2>2. Content = [i \in 1..Used |-> event[Slot(read_ptr, i)]]
    BY DEF Content, Used, Distance, Slot
  <2>3. pending = [i \in 1..Used |-> event[Slot(read_ptr, i)]]
    BY <2>1 DEF HoldsPending
  <2> QED
    BY <2>2, <2>3 DEF RingInv, CopyInv
<1> QED
  BY <1>1, RingInvInvariant, PTL

\* usbh_midi_core.c:546-595: the buffer is filled again only after the device has
\* taken what was in it, or the transfer has failed.
THEOREM NothingIsSkipped == Spec => []NoneSkipped
<1>1. RingInv => NoneSkipped
  BY DEF RingInv, SentInv, NoneSkipped
<1> QED
  BY <1>1, RingInvInvariant, PTL

-----------------------------------------------------------------------------
(* The record.  While that of a fault is there, no thread is at a report.  *)

RecordInv ==
    /\ RecordTypeOK
    /\ faulted => magic /\ type = "fault" /\ reporter = "idle"
    /\ NoneUntold

LEMMA ReportKeeps ==
    ASSUME RecordInv, reporter = "idle", NEW k \in Failures, Report(k)
    PROVE  RecordInv'
BY DEF Report, RecordInv, RecordTypeOK, NoneUntold

LEMMA RecordStepsKeep ==
    ASSUME RecordInv,
           \/ SetMagic \/ SetType \/ CheckAndReport \/ FileError \/ Fault
           \/ \E brownout \in BOOLEAN : ExceptionInit(brownout)
    PROVE  RecordInv'
<1>1. CASE SetMagic
  BY <1>1 DEF SetMagic, RecordInv, RecordTypeOK, NoneUntold
<1>2. CASE SetType
  <2>1. failure \in Types
    BY DEF RecordInv, RecordTypeOK, Types
  <2> QED
    BY <1>2, <2>1 DEF SetType, RecordInv, RecordTypeOK, NoneUntold
<1>3. CASE CheckAndReport
  BY <1>3 DEF CheckAndReport, RecordInv, RecordTypeOK, NoneUntold
<1>4. CASE FileError
  BY <1>4 DEF FileError, RecordInv, RecordTypeOK, NoneUntold, Types
<1>5. CASE Fault
  BY <1>5 DEF Fault, RecordInv, RecordTypeOK, NoneUntold, Types
<1>6. ASSUME NEW brownout \in BOOLEAN, ExceptionInit(brownout)
      PROVE  RecordInv'
  BY <1>6 DEF ExceptionInit, RecordInv, RecordTypeOK, NoneUntold, Types
<1> QED
  BY <1>1, <1>2, <1>3, <1>4, <1>5, <1>6

LEMMA RecordInvInvariant == Spec => []RecordInv
<1>1. Init => RecordInv
  BY DEF Init, RecordInit, RecordInv, RecordTypeOK, NoneUntold, Types
<1>2. RecordInv /\ [Next]_vars => RecordInv'
  <2> SUFFICES ASSUME RecordInv, [Next]_vars PROVE RecordInv'
    OBVIOUS
  <2>1. CASE UNCHANGED record
    BY <2>1 DEF record, RecordInv, RecordTypeOK, NoneUntold
  <2>2. CASE DspThread
    <3>1. "crc" \in Failures /\ "sdram" \in Failures /\ "ring" \in Failures
      BY DEF Failures
    <3>2. CASE PatchReports
      BY <3>2, RecordStepsKeep DEF PatchReports
    <3>3. CASE /\ reporter = "idle"
               /\ \E k \in Failures : Report(k)
      BY <3>3, ReportKeeps
    <3>4. CASE reporter = "idle" /\ (Mismatch \/ Allocate \/ Started \/ PatchFills)
      BY <3>1, <3>3, <3>4, <2>1 DEF Mismatch, Allocate, Started, PatchFills
    <3>5. CASE StartPatch \/ StopPatch \/ PatchSends \/ PatchPublishes
      BY <3>5, <2>1 DEF StartPatch, StopPatch, PatchSends, PatchPublishes
    <3> QED
      BY <2>2, <3>2, <3>4, <3>5 DEF DspThread
  <2>3. CASE Ui
    BY <2>3, RecordStepsKeep DEF Ui
  <2>4. CASE HostThread \/ Device
    BY <2>4, <2>1 DEF HostThread, Device
  <2>5. CASE Reset
    BY <2>5, RecordStepsKeep DEF Reset
  <2>6. CASE UNCHANGED vars
    BY <2>6, <2>1 DEF vars
  <2> QED
    BY <2>2, <2>3, <2>4, <2>5, <2>6 DEF Next
<1> QED
  BY <1>1, <1>2, PTL DEF Spec

\* exceptions.c:291: what fails after a fault, before or after the reset, does
\* not overwrite its record.
THEOREM FaultsAreTold == Spec => []FaultKept
<1>1. RecordInv => FaultKept
  BY DEF RecordInv, FaultKept
<1> QED
  BY <1>1, RecordInvInvariant, PTL

\* exceptions.c:137-152: a reset leaves the record alone, and whatever fails, a
\* record is there until ui has reported one.
THEOREM FailuresAreTold == Spec => []NoneUntold
<1>1. RecordInv => NoneUntold
  BY DEF RecordInv
<1> QED
  BY <1>1, RecordInvInvariant, PTL
-----------------------------------------------------------------------------
\* The types of the allocator, the ring, the transfers and the record.
THEOREM TypeCorrect == Spec => []TypeOK
<1> DEFINE Counts == /\ sends \in 0..MaxSends /\ patches \in 0..MaxPatches
                     /\ resets \in 0..MaxResets
<1>1. Init => Counts
  BY PatchServicesAssumption DEF Init
<1>2. Counts /\ [Next]_vars => Counts'
  <2> SUFFICES ASSUME Counts, [Next]_vars PROVE Counts'
    OBVIOUS
  <2>1. CASE UNCHANGED counts
    BY <2>1 DEF counts
  <2>2. CASE StartPatch \/ Mismatch \/ PatchSends \/ Reset
    BY <2>2, PatchServicesAssumption DEF StartPatch, Mismatch, PatchSends, Reset
  <2>3. CASE \/ Allocate \/ Started \/ StopPatch \/ PatchFills \/ PatchPublishes
             \/ PatchReports \/ Ui \/ HostThread \/ Device \/ UNCHANGED vars
    BY <2>1, <2>3 DEF Allocate, Started, StopPatch, PatchFills, PatchPublishes, PatchReports,
                      Ui, HostThread, Device, vars
  <2> QED
    BY <2>2, <2>3 DEF Next, DspThread
<1>3. Spec => []Counts
  BY <1>1, <1>2, PTL DEF Spec
<1>4. PatchInv /\ RingInv /\ RecordInv /\ Counts => TypeOK
  BY DEF PatchInv, RingInv, RecordInv, MemoryInv, BlockSet, TypeOK
<1> QED
  BY <1>3, <1>4, PatchInvInvariant, RingInvInvariant, RecordInvInvariant, PTL
=============================================================================
