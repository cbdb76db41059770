--------------------------- MODULE UsbAudioProofs ---------------------------
(***************************************************************************)
(* USB audio, for every block, frame and period: the types, and that the   *)
(* two rings stay in step for as long as nothing disturbs them.            *)
(***************************************************************************)
EXTENDS UsbAudio, TLAPS

(* Numbers *)

LEMMA ModRange ==
    ASSUME NEW n \in Nat \ {0}, NEW a \in Int
    PROVE  a % n \in 0..n - 1
OBVIOUS

LEMMA ModQuotient ==
    ASSUME NEW n \in Nat \ {0}, NEW a \in Int
    PROVE  a \div n \in Int /\ a = n * (a \div n) + (a % n)
OBVIOUS

LEMMA ModMultiple ==
    ASSUME NEW n \in Nat \ {0}, NEW k \in Int
    PROVE  (n * k) % n = 0
OBVIOUS

LEMMA ModRest ==
    ASSUME NEW n \in Nat \ {0}, NEW k \in Int, NEW r \in 0..n - 1
    PROVE  (n * k + r) % n = r
OBVIOUS

\* An offset that is wrapped around stays as far from another as it was.
LEMMA WrapLeft ==
    ASSUME NEW n \in Nat \ {0}, NEW a \in Int, NEW b \in Int, (a - b) % n = 0
    PROVE  ((a % n) - b) % n = 0
<1>1. PICK k \in Int : a - b = n * k
  BY ModQuotient
<1>2. PICK j \in Int : a = n * j + (a % n)
  BY ModQuotient
<1>3. (a % n) - b = n * (k - j) /\ k - j \in Int
  BY <1>1, <1>2, ModRange
<1> QED
  BY <1>3, ModMultiple

LEMMA WrapRight ==
    ASSUME NEW n \in Nat \ {0}, NEW a \in Int, NEW b \in Int, (a - b) % n = 0
    PROVE  (a - (b % n)) % n = 0
<1>1. PICK k \in Int : a - b = n * k
  BY ModQuotient
<1>2. PICK j \in Int : b = n * j + (b % n)
  BY ModQuotient
<1>3. a - (b % n) = n * (k + j) /\ k + j \in Int
  BY <1>1, <1>2, ModRange
<1> QED
  BY <1>3, ModMultiple

\* The size that two offsets tell is the one they are apart.
LEMMA DistanceTold ==
    ASSUME NEW n \in Nat \ {0}, NEW a \in Int, NEW u \in 0..n - 1, (a - u) % n = 0
    PROVE  a % n = u
<1>0. a - u \in Int
  OBVIOUS
<1> DEFINE k == (a - u) \div n
<1>1. k \in Int /\ a - u = n * k + ((a - u) % n)
  BY <1>0, ModQuotient
<1> HIDE DEF k
<1>2. a = n * k + u
  BY <1>1
<1>3. (n * k + u) % n = u
  BY <1>1, ModRest
<1> QED
  BY <1>2, <1>3

LEMMA SizesAre ==
    /\ Block \in Nat /\ Block > 2 /\ Transfer \in Nat /\ Transfer >= 2 * Block
    /\ Normal = 2 * Transfer /\ Full = 3 * Transfer /\ Full \in Nat \ {0}
    /\ Beats * Block = Transfer
BY AudioAssumption DEF Transfer, Normal, Full

LEMMA Wrapped ==
    ASSUME NEW n \in {0, Transfer, 2 * Transfer}
    PROVE  (n + Transfer) % Full = IF n = 2 * Transfer THEN 0 ELSE n + Transfer
BY SizesAre

LEMMA OneLess ==
    ASSUME NEW n \in Int
    PROVE  (n - 1) * Block = n * Block - Block
BY SizesAre

LEMMA TimesGrows ==
    ASSUME NEW k \in Nat, NEW m \in 0..k, NEW n \in Nat
    PROVE  m * n <= k * n /\ m * n \in Nat
OBVIOUS

LEMMA FrameDue ==
    ASSUME NEW n \in Int
    PROVE  (Beats + n) * Block = Transfer + n * Block
BY AudioAssumption DEF Transfer
-----------------------------------------------------------------------------
(* Types *)

States  == Streaming \cup {"needsReset", "init"}
Frames  == 0..Period - 1
Oks     == 0..MaxOk
Offsets == 0..Full - 1
Places  == {0, Transfer, 2 * Transfer}      \* where a transfer may lie
Numbers == Int
Waits   == Nat

Adu == [state : States, frame : Frames, every : Waits, wait : Waits, offset : Numbers,
        metrics : Numbers, ok : Oks, count : Waits, txW : Offsets, txR : Places,
        txU : Numbers, rxW : Places, rxR : Offsets, rxU : Numbers]

Typed(a) == a \in Adu /\ a.wait <= a.every

LEMMA Members ==
    /\ Streaming \subseteq States /\ {"needsReset", "init"} \subseteq States
    /\ 0 \in Frames /\ 0 \in Oks /\ 0 \in Offsets /\ 0 \in Places
    /\ \A n \in Places : (n + Transfer) % Full \in Places
    /\ \A n \in Int : n % Full \in Offsets
<1>1. \A n \in Places : (n + Transfer) % Full \in Places
  BY SizesAre, Wrapped DEF Places
<1>2. \A n \in Int : n % Full \in Offsets
  BY SizesAre, ModRange DEF Offsets
<1> QED
  BY <1>1, <1>2, SizesAre, AudioAssumption DEF States, Frames, Oks, Offsets, Places

LEMMA Fields ==
    ASSUME NEW a, Typed(a)
    PROVE  /\ a.state \in States /\ a.frame \in Frames /\ a.every \in Nat /\ a.wait \in Nat
           /\ a.offset \in Int /\ a.metrics \in Int /\ a.ok \in Oks /\ a.count \in Nat
           /\ a.txW \in Offsets /\ a.txR \in Places /\ a.txU \in Int
           /\ a.rxW \in Places /\ a.rxR \in Offsets /\ a.rxU \in Int
           /\ a.wait <= a.every
BY DEF Typed, Adu, Numbers, Waits

LEMMA ErrorTyped ==
    ASSUME NEW a, Typed(a)
    PROVE  Typed(HandleError(a))
BY Members DEF Typed, Adu, HandleError

LEMMA ResetTyped == Typed(ResetBuffers)
<1>1. 0 \in Numbers /\ 0 \in Waits
  BY DEF Numbers, Waits
<1> QED
  BY <1>1, Members DEF Typed, Adu, ResetBuffers

LEMMA EveryTyped ==
    ASSUME NEW a, Typed(a), NEW o \in Int
    PROVE  Every(a, o) \in Nat
<1>1. CASE o = 0
  BY <1>1 DEF Every
<1>2. CASE o # 0
  <2>1. Abs(o) \in Nat \ {0}
    BY <1>2 DEF Abs
  <2>2. Period * (a.ok + 1) \in Nat
    BY AudioAssumption, Fields DEF Oks
  <2>3. \A m \in Nat, n \in Nat \ {0} : m \div n \in Nat
    OBVIOUS
  <2> QED
    BY <1>2, <2>1, <2>2, <2>3 DEF Every
<1> QED
  BY <1>1, <1>2

\* What the count of a frame comes to.
Counted(a) == a.metrics + a.count - Transfer

LEMMA MeasuredIs ==
    ASSUME NEW a, Typed(a)
    PROVE  LET b == Measured(a)
           IN  /\ Typed(b) /\ Counted(a) \in Int
               /\ b.frame = (a.frame + 1) % Period
               /\ b.metrics = IF b.frame = 0 THEN 0 ELSE Counted(a)
               /\ b.offset = IF b.frame = 0 THEN a.offset + Counted(a) ELSE a.offset
               /\ b.state = a.state /\ b.count = a.count
               /\ b.txW = a.txW /\ b.txR = a.txR /\ b.txU = a.txU
               /\ b.rxW = a.rxW /\ b.rxR = a.rxR /\ b.rxU = a.rxU
<1> DEFINE f == (a.frame + 1) % Period
           d == Counted(a)
           e == Every(a, a.offset + d)
           k == IF a.ok < MaxOk THEN a.ok + 1 ELSE a.ok
<1>1. d \in Int /\ a.offset + d \in Int
  BY SizesAre, Fields DEF Counted
<1>2. e \in Nat
  BY <1>1, EveryTyped
<1>3. f \in Frames
  <2>1. Period \in Nat \ {0} /\ a.frame + 1 \in Int
    BY AudioAssumption, Fields DEF Frames
  <2> QED
    BY <2>1, ModRange DEF Frames
<1>4. k \in Oks
  BY AudioAssumption, Fields DEF Oks
<1>5. a \in Adu
  BY DEF Typed
<1>6. Measured(a) = IF f # 0 THEN [a EXCEPT !.frame = f, !.metrics = d]
        ELSE IF d = 0 THEN [a EXCEPT !.frame = f, !.metrics = 0, !.ok = k]
             ELSE [a EXCEPT !.frame = f, !.metrics = 0, !.ok = 0, !.offset = a.offset + d,
                            !.every = e, !.wait = e]
  BY <1>5 DEF Measured, Counted, Adu
<1> HIDE DEF f, d, e, k
<1>7. f \in Frames /\ d \in Numbers /\ a.offset + d \in Numbers /\ 0 \in Numbers
        /\ k \in Oks /\ 0 \in Oks /\ e \in Waits
  BY <1>1, <1>2, <1>3, <1>4, Members DEF Numbers, Waits
<1>8. CASE f # 0
  BY <1>1, <1>5, <1>6, <1>7, <1>8, Fields DEF Adu, Typed, f, d
<1>9. CASE f = 0 /\ d = 0
  <2>1. a.offset = a.offset + d
    BY <1>9, Fields
  <2> QED
    BY <1>1, <1>5, <1>6, <1>7, <1>9, <2>1, Fields DEF Adu, Typed, f, d
<1>10. CASE f = 0 /\ d # 0
  <2>1. e <= e
    BY <1>2
  <2> QED
    BY <1>1, <1>5, <1>6, <1>7, <1>10, <2>1 DEF Adu, Typed, f, d
<1> QED
  BY <1>8, <1>9, <1>10

LEMMA FrameEndedTyped ==
    ASSUME NEW a, Typed(a)
    PROVE  Typed(FrameEnded(a))
BY MeasuredIs, ErrorTyped DEF FrameEnded

LEMMA SyncTyped ==
    ASSUME NEW a, Typed(a)
    PROVE  Typed(Sync(a))
<1> DEFINE r == IF a.rxU = 2 * Transfer THEN a.rxR ELSE (a.rxW - 2 * Transfer) % Full
           b == [a EXCEPT !.state = "normal", !.rxU = 2 * Transfer, !.rxR = r]
<1>1. a.rxW - 2 * Transfer \in Int
  BY Fields, SizesAre DEF Places
<1>2. r \in Offsets
  BY <1>1, Fields, Members
<1>3. 2 * Transfer \in Numbers /\ "normal" \in States
  BY SizesAre, Members DEF Numbers, Streaming
<1>4. Sync(a) \in {a, ResetBuffers, b}
  BY DEF Sync
<1> HIDE DEF r
<1>5. Typed(b)
  BY <1>2, <1>3 DEF Typed, Adu
<1> QED
  BY <1>4, <1>5, ResetTyped

\* A transfer to the host is taken out of the ring.
LEMMA SendFrameIs ==
    ASSUME NEW a, Typed(a)
    PROVE  LET b == SendFrame(a)
           IN  /\ Typed(b)
               /\ a.state \in Streaming =>
                    /\ b.txR = (a.txR + Transfer) % Full
                    /\ b.txU = a.txU - Transfer
                    /\ b.state = IF Below(a.txU, Transfer) THEN "needsReset" ELSE a.state
               /\ a.state \notin Streaming => b = a
               /\ b.frame = a.frame /\ b.offset = a.offset /\ b.metrics = a.metrics
               /\ b.txW = a.txW /\ b.rxW = a.rxW /\ b.rxR = a.rxR /\ b.rxU = a.rxU
<1> DEFINE w == (a.txR + Transfer) % Full
           u == a.txU - Transfer
           st == IF Below(a.txU, Transfer) THEN "needsReset" ELSE a.state
<1>1. w \in Places /\ u \in Numbers /\ st \in States
  BY Fields, Members, SizesAre DEF Numbers
<1>2. a \in Adu /\ a.wait <= a.every
  BY DEF Typed
<1>3. SendFrame(a) = IF a.state \in Streaming
                     THEN [a EXCEPT !.state = st, !.txR = w, !.txU = u] ELSE a
  BY <1>2 DEF SendFrame, Adu
<1> HIDE DEF w, u, st
<1>4. CASE a.state \in Streaming
  BY <1>1, <1>2, <1>3, <1>4 DEF Typed, Adu, w, u, st
<1>5. CASE a.state \notin Streaming
  BY <1>2, <1>3, <1>5 DEF Typed
<1> QED
  BY <1>4, <1>5

\* The next frame may leave out a sample, or play one twice, and counts from 0.
LEMMA FrameStartedIs ==
    ASSUME NEW a, Typed(a)
    PROVE  LET b == FrameStarted(a)
           IN  /\ Typed(b) /\ b.count = 0
               /\ \/ b.offset = a.offset /\ b.state = a.state
                  \/ a.offset > 0 /\ b.offset = a.offset - 1 /\ b.state = "remove"
                  \/ a.offset < 0 /\ b.offset = a.offset + 1 /\ b.state = "duplicate"
               /\ a.offset = 0 /\ a.count = 0 => b = a
               /\ b.frame = a.frame /\ b.metrics = a.metrics
               /\ b.txW = a.txW /\ b.txR = a.txR /\ b.txU = a.txU
               /\ b.rxW = a.rxW /\ b.rxR = a.rxR /\ b.rxU = a.rxU
<1>1. a \in Adu /\ a.wait <= a.every /\ a.wait \in Nat /\ a.every \in Nat /\ a.offset \in Int
  BY Fields DEF Typed
<1>2. 0 \in Numbers /\ 0 \in Waits /\ a.every \in Waits
  BY <1>1 DEF Numbers, Waits
<1>3. CASE a.offset = 0
  BY <1>1, <1>2, <1>3 DEF FrameStarted, Typed, Adu
<1>4. CASE a.offset # 0 /\ a.wait # 0
  <2>1. a.wait - 1 \in Waits /\ a.wait - 1 <= a.every
    BY <1>1, <1>4 DEF Waits
  <2> DEFINE w == a.wait - 1
  <2>2. FrameStarted(a) = [a EXCEPT !.count = 0, !.wait = w]
    BY <1>1, <1>4 DEF FrameStarted, Adu
  <2> HIDE DEF w
  <2> QED
    BY <1>1, <1>2, <1>4, <2>1, <2>2 DEF Typed, Adu, w
<1>5. CASE a.offset # 0 /\ a.wait = 0
  <2> DEFINE rest == IF a.offset > 0 THEN a.offset - 1 ELSE a.offset + 1
             st == IF a.offset > 0 THEN "remove" ELSE "duplicate"
             e == IF rest = 0 THEN 0 ELSE a.every
  <2>1. rest \in Numbers /\ e \in Waits /\ st \in States /\ e <= e
    BY <1>1, <1>2, Members DEF Numbers, Streaming, Waits
  <2>2. FrameStarted(a) = [a EXCEPT !.count = 0, !.offset = rest, !.state = st,
                                    !.every = e, !.wait = e]
    BY <1>1, <1>5 DEF FrameStarted, Adu
  <2>3. \/ a.offset > 0 /\ rest = a.offset - 1 /\ st = "remove"
        \/ a.offset < 0 /\ rest = a.offset + 1 /\ st = "duplicate"
    BY <1>1, <1>5
  <2> HIDE DEF rest, st, e
  <2> QED
    BY <1>1, <1>2, <1>5, <2>1, <2>2, <2>3 DEF Typed, Adu
<1> QED
  BY <1>1, <1>3, <1>4, <1>5

LEMMA InitiateTransmitTyped ==
    ASSUME NEW a, Typed(a)
    PROVE  Typed(InitiateTransmit(a)) /\ InitiateTransmit(a).count = 0
<1> DEFINE ended == FrameEnded(a)
           ready == IF ended.state = "needsReset" THEN ResetBuffers ELSE ended
<1>1. Typed(ready)
  BY FrameEndedTyped, ResetTyped
<1> HIDE DEF ready
<1>2. Typed(SendFrame(Sync(ready)))
  BY <1>1, SyncTyped, SendFrameIs
<1> QED
  BY <1>2, FrameStartedIs DEF InitiateTransmit, ready
-----------------------------------------------------------------------------
(* The inductive invariant of the types.  What is about to be stored as    *)
(* the count of a frame is a number of samples.                            *)

ClockTyped == drift \in {-1, 0, 1} /\ calm \in Nat \ {0} /\ early \in {0, drift}

OthersTyped ==
    /\ streams \in 0..2 /\ {receiving, transmitting, received, clean} \subseteq BOOLEAN
    /\ pc \in PCs /\ len \in {-1, 0, 1, Block - 1, Block}
    /\ reg \in Int /\ (pc = "countSet" => reg \in Nat)
    /\ due \in 0..Beats + 1
    /\ troubles \in 0..MaxTroubles

TypeInv == Typed(adu) /\ ClockTyped /\ OthersTyped

LEMMA TypeInvTypes == TypeInv => TypeOK
<1> SUFFICES ASSUME TypeInv PROVE TypeOK
  OBVIOUS
<1>1. Typed(adu) /\ ClockTyped /\ OthersTyped
  BY DEF TypeInv
<1> QED
  BY <1>1, Fields DEF TypeOK, ClockTyped, OthersTyped, States, Frames, Oks, Offsets, Places

LEMMA TypeInit == Init => TypeInv
<1> SUFFICES ASSUME Init PROVE TypeInv
  OBVIOUS
<1>1. Typed(adu)
  BY ResetTyped DEF Init
<1>2. ClockTyped
  BY DEF Init, ClockTyped
<1>3. OthersTyped
  <2>1. {receiving, transmitting, received, clean} \subseteq BOOLEAN
    BY Zenon DEF Init
  <2>2. streams = 0 /\ pc = "idle" /\ len = 0 /\ reg = 0 /\ due = 0 /\ troubles = 0
    BY DEF Init
  <2> QED
    BY <2>1, <2>2, SizesAre, AudioAssumption DEF OthersTyped, PCs
<1> QED
  BY <1>1, <1>2, <1>3 DEF TypeInv

\* By how much the clocks slip at the end of this frame.
Slipped == IF calm = 1 THEN drift ELSE 0

\* A slip never shows early right after another.
LEMMA NextFrameStep ==
    ASSUME ClockTyped, NextFrame
    PROVE  /\ ClockTyped' /\ drift' = drift
           /\ due' = Beats + Slipped + early' - early
           /\ calm # 1 /\ drift # 0 => calm' = calm - 1
           /\ calm = 1 /\ drift # 0 => calm' > Jitter + 3
           /\ calm' > Jitter => early' = 0
           /\ due' \in Beats - 1 .. Beats + 1
<1>1. drift' = drift /\ due' = Beats + Slipped + early' - early
  BY DEF NextFrame, Slipped
<1>2. early' \in {0, drift} /\ (calm' > Jitter => early' = 0)
  <2>1. early' \in IF calm' <= Jitter THEN {0, drift} ELSE {0}
    BY DEF NextFrame
  <2>2. calm' \in IF drift = 0 THEN {1} ELSE IF calm = 1 THEN Gaps ELSE {calm - 1}
    BY DEF NextFrame
  <2>3. calm' \in Int
    BY <2>2, AudioAssumption DEF ClockTyped
  <2> QED
    BY <2>1, <2>3, AudioAssumption
<1>3. /\ calm' \in Nat \ {0}
      /\ calm # 1 /\ drift # 0 => calm' = calm - 1
      /\ calm = 1 /\ drift # 0 => calm' > Jitter + 3
  <2>1. calm' \in IF drift = 0 THEN {1} ELSE IF calm = 1 THEN Gaps ELSE {calm - 1}
    BY DEF NextFrame
  <2>2. Jitter \in Nat /\ \A gap \in Gaps : gap \in Nat /\ gap > Jitter + 3
    BY AudioAssumption
  <2>3. CASE drift = 0
    BY <2>1, <2>3
  <2>4. CASE drift # 0 /\ calm = 1
    <3>1. calm' \in Gaps
      BY <2>1, <2>4
    <3> QED
      BY <2>2, <2>4, <3>1
  <2>5. CASE drift # 0 /\ calm # 1
    BY <2>1, <2>5 DEF ClockTyped
  <2> QED
    BY <2>3, <2>4, <2>5
<1>4. due' \in Beats - 1 .. Beats + 1
  <2>1. drift \in {-1, 0, 1} /\ early \in {0, drift} /\ Beats \in Nat /\ Jitter \in Nat
    BY AudioAssumption DEF ClockTyped
  <2>2. CASE calm = 1 /\ drift # 0
    <3>1. early' = 0
      BY <1>2, <1>3, <2>1, <2>2
    <3> QED
      BY <1>1, <2>1, <2>2, <3>1 DEF Slipped
  <2>3. CASE calm # 1 \/ drift = 0
    <3>1. Slipped = 0 /\ early' \in {0, drift}
      BY <1>2, <2>3 DEF Slipped
    <3>2. CASE early = early'
      <4>1. early \in Int
        BY <2>1
      <4>2. due' = Beats + 0 + early - early
        BY <1>1, <3>1, <3>2
      <4> QED
        BY <2>1, <4>1, <4>2
    <3>3. CASE early = 0 /\ early' = drift
      BY <1>1, <2>1, <3>1, <3>3
    <3>4. CASE early = drift /\ early' = 0
      BY <1>1, <2>1, <3>1, <3>4
    <3> QED
      BY <2>1, <3>1, <3>2, <3>3, <3>4
  <2> QED
    BY <2>2, <2>3
<1>5. ClockTyped'
  BY <1>1, <1>2, <1>3 DEF ClockTyped
<1> QED
  BY <1>1, <1>2, <1>3, <1>4, <1>5

LEMMA TroubleTyped ==
    ASSUME OthersTyped, Trouble
    PROVE  clean' = FALSE /\ troubles' \in 0..MaxTroubles
BY AudioAssumption DEF Trouble, OthersTyped

LEMMA InterruptsTyped ==
    ASSUME OthersTyped, NEW e \in BOOLEAN, Interrupts(e)
    PROVE  clean' \in BOOLEAN /\ troubles' \in 0..MaxTroubles
<1>1. CASE pc = "idle" /\ clean' = (clean \/ e) /\ UNCHANGED troubles
  BY <1>1, Zenon DEF OthersTyped
<1>2. CASE Trouble
  BY <1>2, TroubleTyped
<1> QED
  BY <1>1, <1>2 DEF Interrupts

LEMMA TransmittedTyped == TypeInv /\ Transmitted => TypeInv'
<1> SUFFICES ASSUME TypeInv, Transmitted PROVE TypeInv'
  OBVIOUS
<1>0. Typed(adu) /\ ClockTyped /\ OthersTyped
  BY DEF TypeInv
<1>1. /\ received' = FALSE /\ transmitting' \in {transmitting, FALSE}
      /\ UNCHANGED <<streams, receiving, pc, len, reg>>
      /\ Interrupts(adu' = ResetBuffers) \/ Interrupts(FALSE)
  BY DEF Transmitted
<1>2. clean' \in BOOLEAN /\ troubles' \in 0..MaxTroubles
  BY <1>0, <1>1, InterruptsTyped
<1>3. Typed(adu') /\ ClockTyped' /\ due' \in 0..Beats + 1
  <2>1. CASE adu' = InitiateTransmit(adu) /\ NextFrame
    BY <1>0, <2>1, NextFrameStep, InitiateTransmitTyped, AudioAssumption
  <2>2. CASE adu' = ResetBuffers /\ UNCHANGED <<due, clock>>
    BY <1>0, <2>2, ResetTyped DEF clock, ClockTyped, OthersTyped
  <2> QED
    BY <2>1, <2>2 DEF Transmitted
<1>4. {receiving, transmitting, received, clean}' \subseteq BOOLEAN
  BY <1>0, <1>1, <1>2, Zenon DEF OthersTyped
<1>5. OthersTyped'
  BY <1>0, <1>1, <1>2, <1>3, <1>4 DEF OthersTyped
<1> QED
  BY <1>3, <1>5 DEF TypeInv

\* A transfer from the host, as far as the ring is concerned.
LEMMA TransferReceived ==
    ASSUME Typed(adu), Received, streams > 0
    PROVE  /\ Typed(adu') /\ adu'.rxW = (adu.rxW + Transfer) % Full
           /\ adu'.rxU = adu.rxU + Transfer /\ adu'.rxR = adu.rxR
           /\ adu'.state = IF Above(adu.rxU + Transfer, Full) THEN "needsReset" ELSE adu.state
           /\ adu'.frame = adu.frame /\ adu'.offset = adu.offset /\ adu'.metrics = adu.metrics
           /\ adu'.count = adu.count
           /\ adu'.txW = adu.txW /\ adu'.txR = adu.txR /\ adu'.txU = adu.txU
<1> DEFINE w == (adu.rxW + Transfer) % Full
           u == adu.rxU + Transfer
           st == IF Above(adu.rxU + Transfer, Full) THEN "needsReset" ELSE adu.state
<1>1. w \in Places /\ u \in Numbers /\ st \in States
  BY Fields, Members, SizesAre DEF Numbers
<1>2. adu \in Adu /\ adu.wait <= adu.every
  BY DEF Typed
<1>3. adu' = [adu EXCEPT !.rxW = w, !.rxU = u, !.state = st]
  BY <1>2 DEF Received, Adu
<1> HIDE DEF w, u, st
<1>4. Typed(adu') /\ adu'.rxW = w /\ adu'.rxU = u /\ adu'.rxR = adu.rxR /\ adu'.state = st
      /\ adu'.frame = adu.frame /\ adu'.offset = adu.offset /\ adu'.metrics = adu.metrics
      /\ adu'.count = adu.count
      /\ adu'.txW = adu.txW /\ adu'.txR = adu.txR /\ adu'.txU = adu.txU
  BY <1>1, <1>2, <1>3 DEF Typed, Adu
<1> QED
  BY <1>4 DEF w, u, st

LEMMA ReceivedTyped == TypeInv /\ Received => TypeInv'
<1> SUFFICES ASSUME TypeInv, Received PROVE TypeInv'
  OBVIOUS
<1>0. Typed(adu) /\ ClockTyped /\ OthersTyped
  BY DEF TypeInv
<1>1. /\ Interrupts(FALSE) /\ received' = TRUE
      /\ UNCHANGED <<streams, transmitting, pc, len, reg, due, clock>>
  BY DEF Received
<1>2. clean' \in BOOLEAN /\ troubles' \in 0..MaxTroubles
  BY <1>0, <1>1, InterruptsTyped
<1>3. Typed(adu') /\ receiving' \in {receiving, FALSE}
  <2>1. CASE streams > 0
    BY <1>0, <2>1, TransferReceived DEF Received
  <2>2. CASE ~(streams > 0)
    <3>1. adu' = ResetBuffers /\ receiving' = FALSE
      BY <2>2 DEF Received
    <3> QED
      BY <3>1, ResetTyped
  <2> QED
    BY <2>1, <2>2
<1>4. {receiving, transmitting, received, clean}' \subseteq BOOLEAN
  BY <1>0, <1>1, <1>2, <1>3, Zenon DEF OthersTyped
<1>5. ClockTyped' /\ OthersTyped'
  BY <1>0, <1>1, <1>2, <1>4 DEF OthersTyped, ClockTyped, clock
<1> QED
  BY <1>3, <1>5 DEF TypeInv

LEMMA SwitchTyped == TypeInv /\ (\E now \in 0..2 : Switch(now)) => TypeInv'
<1> SUFFICES ASSUME TypeInv, NEW now \in 0..2, Switch(now) PROVE TypeInv'
  OBVIOUS
<1>0. Typed(adu) /\ ClockTyped /\ OthersTyped
  BY DEF TypeInv
<1>1. /\ adu' \in {ResetBuffers, InitiateTransmit(adu)} /\ streams' = now
      /\ UNCHANGED <<pc, len, reg>>
  BY DEF Switch
<1>2. {receiving, transmitting, received}' \subseteq BOOLEAN
  <2>1. receiving' = (receiving \/ now > 0) /\ transmitting' = (transmitting \/ now > 0)
        /\ received' = (received /\ (receiving \/ transmitting))
    BY DEF Switch
  <2> QED
    BY <2>1, Zenon
<1>3. Typed(adu')
  BY <1>0, <1>1, ResetTyped, InitiateTransmitTyped
<1>4. clean' = FALSE /\ troubles' \in 0..MaxTroubles
  <2>1. CASE clean' = FALSE /\ UNCHANGED troubles
    BY <1>0, <2>1 DEF OthersTyped
  <2>2. CASE Trouble
    BY <1>0, <2>2, TroubleTyped
  <2> QED
    BY <2>1, <2>2 DEF Switch
<1>5. ClockTyped' /\ due' \in 0..Beats + 1
  <2>1. CASE streams = 0
    <3>1. due' \in 0..Beats /\ drift' \in Drifts /\ early' = 0
          /\ \E gap \in Gaps : calm' \in IF drift' = 0 THEN {1} ELSE 1..gap
      BY <2>1 DEF Switch
    <3>2. PICK gap \in Gaps : calm' \in IF drift' = 0 THEN {1} ELSE 1..gap
      BY <3>1
    <3>3. gap \in Nat /\ Beats \in Nat /\ drift' \in {-1, 0, 1}
      BY <3>1, AudioAssumption
    <3> QED
      BY <3>1, <3>2, <3>3 DEF ClockTyped
  <2>2. CASE streams # 0
    BY <1>0, <2>2 DEF Switch, clock, ClockTyped, OthersTyped
  <2> QED
    BY <2>1, <2>2
<1>6. OthersTyped'
  BY <1>0, <1>1, <1>2, <1>4, <1>5 DEF OthersTyped
<1> QED
  BY <1>3, <1>5, <1>6 DEF TypeInv

LEMMA OverloadTyped == TypeInv /\ Overload => TypeInv'
<1> SUFFICES ASSUME TypeInv, Overload PROVE TypeInv'
  OBVIOUS
<1>0. Typed(adu) /\ ClockTyped /\ OthersTyped
  BY DEF TypeInv
<1>1. Typed(adu')
  BY <1>0, ErrorTyped DEF Overload
<1>2. troubles' \in 0..MaxTroubles /\ clean' = FALSE
  BY <1>0, TroubleTyped DEF Overload
<1> QED
  BY <1>0, <1>1, <1>2 DEF Overload, OthersTyped, ClockTyped, clock, TypeInv

\* What a store does to the record.
LEMMA Stored ==
    ASSUME NEW a, Typed(a)
    PROVE  /\ \A s \in States : Typed([a EXCEPT !.state = s])
           /\ \A n \in Offsets : Typed([a EXCEPT !.txW = n]) /\ Typed([a EXCEPT !.rxR = n])
           /\ \A n \in Int : Typed([a EXCEPT !.txU = n]) /\ Typed([a EXCEPT !.rxU = n])
           /\ \A n \in Nat : Typed([a EXCEPT !.count = n])
<1>1. a \in Adu /\ a.wait <= a.every
  BY DEF Typed
<1> QED
  BY <1>1 DEF Typed, Adu, Numbers, Waits

\* What a step of an exchange leaves to the next.
LEMMA ExchangeTyped == TypeInv /\ DataExchange => TypeInv'
<1> SUFFICES ASSUME TypeInv, DataExchange PROVE TypeInv'
  OBVIOUS
<1>0. Typed(adu) /\ ClockTyped /\ OthersTyped
  BY DEF TypeInv
<1>a. {"needsReset", "normal"} \subseteq States
  BY DEF States, Streaming
<1>b. /\ adu.txW \in Int /\ adu.txU \in Int /\ adu.count \in Nat
      /\ adu.rxR \in Int /\ adu.rxU \in Int
  BY <1>0, Fields DEF Offsets
<1>c. len \in Int /\ Block \in Nat /\ Block > 2
  BY <1>0, SizesAre DEF OthersTyped
<1>1. CASE Begin
  <2>1. len' \in {1, Block - 1, Block} /\ due' = due - 1 /\ due > 0
        /\ pc' = "txCheck" /\ UNCHANGED <<adu, reg>>
        /\ UNCHANGED <<streams, receiving, transmitting, received, clock, clean, troubles>>
    BY <1>1 DEF Begin, Exchange
  <2> QED
    BY <1>0, <2>1, AudioAssumption DEF OthersTyped, ClockTyped, clock, TypeInv, PCs
<1>2. CASE MoveDataToTX
  <2>1. UNCHANGED <<streams, receiving, transmitting, received, clock, clean, troubles, due>>
    BY <1>2 DEF MoveDataToTX, Exchange, Test, Load, Store
  <2>2. Typed(adu')
    <3>1. \A n \in Int : n % Full \in Offsets
      BY Members
    <3>2. reg \in Int /\ reg + len \in Int
      BY <1>0, <1>c DEF OthersTyped
    <3>3. Typed([adu EXCEPT !.txW = (reg + len) % Full])
      BY <1>0, <3>1, <3>2, Stored
    <3>4. Typed([adu EXCEPT !.txU = reg + len]) /\ Typed([adu EXCEPT !.state = "needsReset"])
      BY <1>0, <1>a, <3>2, Stored
    <3>5. adu' \in {adu, [adu EXCEPT !.state = "needsReset"],
                    [adu EXCEPT !.txW = (reg + len) % Full], [adu EXCEPT !.txU = reg + len]}
      BY <1>2 DEF MoveDataToTX, Test, Load, Store
    <3> QED
      BY <1>0, <3>3, <3>4, <3>5
  <2>3. pc' \in PCs \ {"countSet"} /\ len' \in {len, Block} /\ reg' \in Int
    <3>1. reg' \in {reg, 0, adu.txW, adu.txU}
      BY <1>2 DEF MoveDataToTX, Exchange, Test, Load, Store
    <3>2. reg' \in Int
      BY <1>0, <1>b, <3>1 DEF OthersTyped
    <3> QED
      BY <1>2, <3>2 DEF MoveDataToTX, Exchange, Test, Load, Store, PCs
  <2> QED
    BY <1>0, <2>1, <2>2, <2>3 DEF OthersTyped, ClockTyped, clock, TypeInv
<1>3. CASE CountFrame
  <2>1. UNCHANGED <<streams, receiving, transmitting, received, clock, clean, troubles, due>>
    BY <1>3 DEF CountFrame, Exchange, Load, Store
  <2>2. Typed(adu')
    <3>1. pc = "countSet" => reg + Block \in Nat
      BY <1>0, <1>c DEF OthersTyped
    <3> QED
      BY <1>0, <1>3, <3>1, Stored DEF CountFrame, Exchange, Load, Store
  <2>3. pc' \in PCs /\ len' \in {len, Block, 0} /\ reg' \in {reg, 0, adu.count}
        /\ (pc' = "countSet" => reg' = adu.count)
    BY <1>3 DEF CountFrame, Exchange, Load, Store, PCs
  <2>4. reg' \in Int /\ (pc' = "countSet" => reg' \in Nat)
    BY <1>0, <1>b, <2>3 DEF OthersTyped
  <2> QED
    BY <1>0, <2>1, <2>2, <2>3, <2>4 DEF OthersTyped, ClockTyped, clock, TypeInv
<1>4. CASE MoveDataFromRX
  <2>1. UNCHANGED <<streams, receiving, transmitting, received, clock, clean, troubles, due>>
    BY <1>4 DEF MoveDataFromRX, ReadOn, Exchange, Test, Load, Store
  <2>2. Typed(adu')
    <3>1. \A n \in Int : n % Full \in Offsets
      BY Members
    <3>2. reg \in Int /\ reg + len \in Int /\ reg - len \in Int
      BY <1>0, <1>c DEF OthersTyped
    <3>3. Typed([adu EXCEPT !.rxR = (reg + len) % Full])
      BY <1>0, <3>1, <3>2, Stored
    <3>4. Typed([adu EXCEPT !.rxU = reg - len]) /\ Typed([adu EXCEPT !.state = "needsReset"])
      BY <1>0, <1>a, <3>2, Stored
    <3>5. adu' \in {adu, [adu EXCEPT !.state = "needsReset"],
                    [adu EXCEPT !.rxR = (reg + len) % Full], [adu EXCEPT !.rxU = reg - len]}
      BY <1>4 DEF MoveDataFromRX, ReadOn, Test, Load, Store
    <3> QED
      BY <1>0, <3>3, <3>4, <3>5
  <2>3. pc' \in PCs \ {"countSet"} /\ len' \in {len, 0} /\ reg' \in Int
    <3>1. reg' \in {reg, 0, adu.rxR, adu.rxU}
      BY <1>4 DEF MoveDataFromRX, ReadOn, Exchange, Test, Load, Store
    <3>2. reg' \in Int
      BY <1>0, <1>b, <3>1 DEF OthersTyped
    <3> QED
      BY <1>4, <3>2 DEF MoveDataFromRX, ReadOn, Exchange, Test, Load, Store, PCs
  <2> QED
    BY <1>0, <2>1, <2>2, <2>3 DEF OthersTyped, ClockTyped, clock, TypeInv
<1>5. CASE Adjust
  <2>1. /\ UNCHANGED <<streams, receiving, transmitting, received, clock, clean, troubles, due>>
        /\ UNCHANGED <<adu, reg>> /\ len' \in {-1, 0, 1} /\ pc' \in {"settle", "rxOffset"}
    BY <1>5 DEF Adjust, Exchange
  <2> QED
    BY <1>0, <2>1 DEF OthersTyped, ClockTyped, clock, TypeInv, PCs
<1>6. CASE Settle
  <2>1. /\ UNCHANGED <<streams, receiving, transmitting, received, clock, clean, troubles, due>>
        /\ UNCHANGED len /\ reg' \in {reg, 0} /\ pc' \in {"settled", "idle"}
    BY <1>6 DEF Settle, Exchange, Test, Store
  <2>2. Typed(adu')
    BY <1>0, <1>6, <1>a, Stored DEF Settle, Test, Store
  <2> QED
    BY <1>0, <2>1, <2>2 DEF OthersTyped, ClockTyped, clock, TypeInv, PCs
<1> QED
  BY <1>1, <1>2, <1>3, <1>4, <1>5, <1>6 DEF DataExchange

LEMMA TypeInvariant == Spec => []TypeInv
<1>1. TypeInv /\ [Next]_vars => TypeInv'
  <2>1. TypeInv /\ Next => TypeInv'
    BY ExchangeTyped, ReceivedTyped, TransmittedTyped, SwitchTyped, OverloadTyped DEF Next
  <2>2. TypeInv /\ UNCHANGED vars => TypeInv'
    BY DEF vars, clock, TypeInv, ClockTyped, OthersTyped
  <2> QED
    BY <2>1, <2>2
<1> QED
  BY TypeInit, <1>1, PTL DEF Spec

(* Whatever disturbs the rings, and however often: the transfers lie in    *)
(* the rings (audio_usb.c:582-692, 703-851, 1022-1210).                    *)
THEOREM TypeCorrect == Spec => []TypeOK
BY TypeInvTypes, TypeInvariant, PTL
-----------------------------------------------------------------------------
(* The record as the exchange under way will leave it.  A preempted        *)
(* exchange counts as a disturbance, so that of the rings in tune only the *)
(* beginning of an exchange changes what follows.                          *)

TxFirst == {"txCheck", "txError", "txOffset", "txOffsetSet"}
TxLast  == {"txUsed", "txUsedSet"}
RxFirst == {"rxCheck", "rxError", "rxOffset", "rxOffsetSet"}
RxLast  == {"rxUsed", "rxUsedSet"}
Before  == TxFirst \cup TxLast \cup {"count", "countSet", "source"}   \* the other ring
Turning == {"remove", "duplicate"}

Extra == IF adu.state = "remove" THEN -1 ELSE IF adu.state = "duplicate" THEN 1 ELSE 0
Rest  == IF len = 1 THEN Block ELSE 0          \* the block, after what is played twice
More  == IF len = Block THEN Extra ELSE 0      \* the adjustment, after the block
Plan  == IF adu.state \in Streaming THEN Block + Extra ELSE 0

ToWrite == IF pc \in TxFirst THEN len + Rest ELSE IF pc \in TxLast THEN Rest ELSE 0
ToFill  == IF pc \in TxFirst \cup TxLast THEN len + Rest ELSE 0
ToCount == IF pc \in TxFirst \cup TxLast \cup {"count", "countSet"} THEN Block ELSE 0
ToRead  == IF pc \in Before THEN Plan
           ELSE IF pc \in RxFirst THEN len + More
           ELSE IF pc \in RxLast THEN More ELSE IF pc = "adjust" THEN Extra ELSE 0
ToDrain == IF pc \in Before THEN Plan
           ELSE IF pc \in RxFirst \cup RxLast THEN len + More
           ELSE IF pc = "adjust" THEN Extra ELSE 0

Written == adu.txW + ToWrite
Filled  == adu.txU + ToFill
Samples == adu.count + ToCount
Read    == adu.rxR + ToRead
Drained == adu.rxU - ToDrain
Left    == IF pc = "idle" THEN 0 - Extra ELSE 0    \* an adjustment still to be made

\* An exchange that nothing preempts moves what it set out to move.
Exact ==
    /\ pc \in TxFirst \cup TxLast =>
         /\ adu.state = "remove" => len = Block - 1
         /\ adu.state = "duplicate" => len \in {1, Block}
         /\ adu.state \notin Turning => len = Block
    /\ pc \in RxFirst \cup RxLast =>
         adu.state \in Streaming /\ (len = Block \/ (len = Extra /\ Extra # 0))
    /\ pc \in {"adjust", "settle"} => adu.state \in Streaming
    /\ pc = "txOffsetSet" => reg = adu.txW
    /\ pc = "txUsedSet" => reg = adu.txU
    /\ pc = "countSet" => reg = adu.count
    /\ pc = "rxOffsetSet" => reg = adu.rxR
    /\ pc = "rxUsedSet" => reg = adu.rxU

\* Two sets of offsets and sizes that are as far apart as they say.
Together(w, r, u) == (w - r - u) % Full = 0
Congruent(m, n) == (m - n) % Full = 0

\* What a step of an exchange leaves alone.
Kept ==
    /\ adu'.state \in Streaming <=> adu.state \in Streaming
    /\ adu'.state = "init" <=> adu.state = "init"
    /\ Congruent(Written', Written) /\ Filled' = Filled /\ Samples' = Samples
    /\ Congruent(Read', Read) /\ Drained' = Drained /\ Left' = Left
    /\ adu'.txR = adu.txR /\ adu'.rxW = adu.rxW
    /\ adu'.frame = adu.frame /\ adu'.offset = adu.offset /\ adu'.metrics = adu.metrics

\* The numbers of the state.
StateInts ==
    /\ adu.offset \in Int /\ adu.metrics \in Int /\ adu.count \in Nat
    /\ adu.txW \in Int /\ adu.txR \in Int /\ adu.txU \in Int
    /\ adu.rxW \in Int /\ adu.rxR \in Int /\ adu.rxU \in Int
    /\ adu.state \in States /\ adu.frame \in Frames
    /\ len \in Int /\ reg \in Int /\ due \in Nat
    /\ Block \in Nat /\ Block > 2 /\ Transfer \in Nat

LEMMA Ints == TypeInv => StateInts
<1> SUFFICES ASSUME TypeInv PROVE StateInts
  OBVIOUS
<1>1. Typed(adu) /\ len \in Int /\ reg \in Int /\ due \in Nat
  BY SizesAre, AudioAssumption DEF TypeInv, OthersTyped
<1> QED
  BY <1>1, Fields, SizesAre DEF StateInts, Offsets, Places

LEMMA ViewInts ==
    ASSUME TypeInv
    PROVE  /\ Extra \in {-1, 0, 1} /\ Rest \in {0, Block} /\ More \in {0, Extra}
           /\ Plan \in {0, Block + Extra}
           /\ Written \in Int /\ Filled \in Int /\ Samples \in Int
           /\ Read \in Int /\ Drained \in Int /\ Left \in Int
<1>1. StateInts
  BY Ints
<1>2. Extra \in {-1, 0, 1} /\ Rest \in {0, Block} /\ More \in {0, Extra} /\ Plan \in {0, Block + Extra}
  BY DEF Extra, Rest, More, Plan
<1>3. /\ Extra \in Int /\ Rest \in Int /\ More \in Int /\ Plan \in Int
      /\ Block \in Int /\ len \in Int /\ 0 - Extra \in Int
  BY <1>1, <1>2 DEF StateInts
<1>4. /\ len + Rest \in Int /\ len + More \in Int
  BY <1>3
<1>5. ToWrite \in Int /\ ToFill \in Int /\ ToCount \in Int /\ ToRead \in Int /\ ToDrain \in Int
  BY <1>3, <1>4 DEF ToWrite, ToFill, ToCount, ToRead, ToDrain
<1>6. Left \in Int
  BY <1>3 DEF Left
<1> QED
  BY <1>1, <1>2, <1>5, <1>6 DEF StateInts, Written, Filled, Samples, Read, Drained

LEMMA CongruentSame ==
    ASSUME NEW n \in Int
    PROVE  Congruent(n, n)
BY SizesAre DEF Congruent

LEMMA CongruentWrapped ==
    ASSUME NEW n \in Int, NEW k \in Int
    PROVE  Congruent((n % Full) + k, n + k)
<1>1. PICK j \in Int : n = Full * j + (n % Full)
  BY ModQuotient, SizesAre
<1>2. n % Full \in Int /\ Full \in Nat \ {0}
  BY ModRange, SizesAre
<1>3. ((n % Full) + k) - (n + k) = Full * (-j) /\ -j \in Int
  BY <1>1, <1>2
<1> QED
  BY <1>2, <1>3, ModMultiple DEF Congruent

LEMMA TogetherCongruent ==
    ASSUME NEW w \in Int, NEW r \in Int, NEW u \in Int, NEW x \in Int, NEW s \in Int,
           Together(w, r, u), Congruent(x, w), Congruent(s, r)
    PROVE  Together(x, s, u)
<1>0. Full \in Nat \ {0}
  BY SizesAre
<1>1. PICK i \in Int : w - r - u = Full * i
  BY <1>0, ModQuotient DEF Together
<1>2. PICK j \in Int : x - w = Full * j
  BY <1>0, ModQuotient DEF Congruent
<1>3. PICK k \in Int : s - r = Full * k
  BY <1>0, ModQuotient DEF Congruent
<1>4. x - s - u = Full * (i + j - k) /\ i + j - k \in Int
  <2>1. x - s - u = (w - r - u) + (x - w) - (s - r)
    OBVIOUS
  <2> QED
    BY <1>0, <1>1, <1>2, <1>3, <2>1
<1> QED
  BY <1>0, <1>4, ModMultiple DEF Together

\* A step that only reads changes nothing.
LEMMA ReadKeeps ==
    ASSUME TypeInv, TypeInv', adu' = adu,
           ToWrite' = ToWrite, ToFill' = ToFill, ToCount' = ToCount,
           ToRead' = ToRead, ToDrain' = ToDrain, Left' = Left
    PROVE  Kept
<1>1. Written' = Written /\ Filled' = Filled /\ Samples' = Samples /\ Read' = Read /\ Drained' = Drained
  BY DEF Written, Filled, Samples, Read, Drained
<1>2. Congruent(Written', Written) /\ Congruent(Read', Read)
  BY <1>1, ViewInts, CongruentSame
<1> QED
  BY <1>1, <1>2 DEF Kept

LEMMA CheckKeeps ==
    ASSUME TypeInv, TypeInv', Exact, adu.state # "needsReset",
           NEW from, NEW to, Test(from, to),
           \/ from \in TxFirst /\ to \in TxFirst /\ to # "txOffsetSet"
           \/ from \in RxFirst /\ to \in RxFirst /\ to # "rxOffsetSet"
    PROVE  Kept /\ Exact'
<1>1. adu' = adu /\ len' = len /\ reg' = reg /\ pc = from /\ pc' = to
  BY DEF Test, Exchange
<1>2. Extra' = Extra /\ Rest' = Rest /\ More' = More /\ Plan' = Plan
  BY <1>1 DEF Extra, Rest, More, Plan
<1>3. /\ ToWrite' = ToWrite /\ ToFill' = ToFill /\ ToCount' = ToCount
      /\ ToRead' = ToRead /\ ToDrain' = ToDrain /\ Left' = Left
  BY <1>1, <1>2
  DEF ToWrite, ToFill, ToCount, ToRead, ToDrain, Left, TxFirst, TxLast, RxFirst, RxLast, Before
<1>4. Exact'
  BY <1>1, <1>2 DEF Exact, TxFirst, TxLast, RxFirst, RxLast
<1> QED
  BY <1>1, <1>3, <1>4, ReadKeeps

LEMMA LoadKeeps ==
    ASSUME TypeInv, TypeInv', Exact, adu.state # "needsReset",
           \/ Load("txOffset", "txW", "txOffsetSet") \/ Load("txUsed", "txU", "txUsedSet")
           \/ Load("count", "count", "countSet")
           \/ Load("rxOffset", "rxR", "rxOffsetSet") \/ Load("rxUsed", "rxU", "rxUsedSet")
    PROVE  Kept /\ Exact'
<1>1. /\ adu' = adu /\ len' = len
      /\ \/ pc = "txOffset" /\ pc' = "txOffsetSet" /\ reg' = adu.txW
         \/ pc = "txUsed" /\ pc' = "txUsedSet" /\ reg' = adu.txU
         \/ pc = "count" /\ pc' = "countSet" /\ reg' = adu.count
         \/ pc = "rxOffset" /\ pc' = "rxOffsetSet" /\ reg' = adu.rxR
         \/ pc = "rxUsed" /\ pc' = "rxUsedSet" /\ reg' = adu.rxU
  BY DEF Load, Exchange
<1>2. Extra' = Extra /\ Rest' = Rest /\ More' = More /\ Plan' = Plan
  BY <1>1 DEF Extra, Rest, More, Plan
<1>3. /\ ToWrite' = ToWrite /\ ToFill' = ToFill /\ ToCount' = ToCount
      /\ ToRead' = ToRead /\ ToDrain' = ToDrain /\ Left' = Left
  BY <1>1, <1>2
  DEF ToWrite, ToFill, ToCount, ToRead, ToDrain, Left, TxFirst, TxLast, RxFirst, RxLast, Before
<1>4. Exact'
  BY <1>1, <1>2 DEF Exact, TxFirst, TxLast, RxFirst, RxLast
<1> QED
  BY <1>1, <1>3, <1>4, ReadKeeps
LEMMA TxOffsetKeeps ==
    ASSUME TypeInv, TypeInv', Exact, adu.state # "needsReset",
           Store("txOffsetSet", "txW", (reg + len) % Full, "txUsed"), len' = len
    PROVE  Kept /\ Exact'
<1>1. Typed(adu) /\ StateInts
  BY Ints DEF TypeInv
<1>2. /\ pc = "txOffsetSet" /\ pc' = "txUsed" /\ reg = adu.txW
      /\ adu' = [adu EXCEPT !.txW = (adu.txW + len) % Full]
  BY DEF Store, Exchange, Exact
<1>3. /\ adu'.txW = (adu.txW + len) % Full /\ adu'.txR = adu.txR /\ adu'.txU = adu.txU
      /\ adu'.rxW = adu.rxW /\ adu'.rxR = adu.rxR /\ adu'.rxU = adu.rxU
      /\ adu'.state = adu.state /\ adu'.frame = adu.frame /\ adu'.offset = adu.offset
      /\ adu'.metrics = adu.metrics /\ adu'.count = adu.count
  BY <1>1, <1>2 DEF Typed, Adu
<1>4. Extra' = Extra /\ Rest' = Rest /\ Plan' = Plan
  BY <1>3 DEF Extra, Rest, Plan
<1>5. Filled' = Filled /\ Samples' = Samples /\ Read' = Read /\ Drained' = Drained /\ Left' = Left
  BY <1>2, <1>3, <1>4
  DEF Filled, Samples, Read, Drained, Left, ToFill, ToCount, ToRead, ToDrain,
      TxFirst, TxLast, RxFirst, RxLast, Before
<1>6. Congruent(Written', Written)
  <2>1. Written' = ((adu.txW + len) % Full) + Rest /\ Written = adu.txW + (len + Rest)
    BY <1>2, <1>3, <1>4 DEF Written, ToWrite, TxFirst, TxLast
  <2>2. Rest \in Int /\ adu.txW + len \in Int
    BY <1>1, ViewInts DEF StateInts
  <2>3. Written = (adu.txW + len) + Rest
    BY <1>1, <2>1, <2>2 DEF StateInts
  <2> QED
    BY <2>1, <2>2, <2>3, CongruentWrapped
<1>7. Congruent(Read', Read)
  BY <1>5, ViewInts, CongruentSame
<1>8. Exact'
  BY <1>2, <1>3 DEF Exact, TxFirst, TxLast, RxFirst, RxLast
<1> QED
  BY <1>3, <1>5, <1>6, <1>7, <1>8 DEF Kept

LEMMA TxUsedKeeps ==
    ASSUME TypeInv, TypeInv', Exact, adu.state # "needsReset",
           Store("txUsedSet", "txU", reg + len, IF len = 1 THEN "txCheck" ELSE "count"),
           len' = Block
    PROVE  Kept /\ Exact'
<1>1. Typed(adu) /\ StateInts
  BY Ints DEF TypeInv
<1>2. /\ pc = "txUsedSet" /\ pc' = (IF len = 1 THEN "txCheck" ELSE "count") /\ reg = adu.txU
      /\ adu' = [adu EXCEPT !.txU = adu.txU + len]
  BY DEF Store, Exchange, Exact
<1>3. /\ adu'.txW = adu.txW /\ adu'.txR = adu.txR /\ adu'.txU = adu.txU + len
      /\ adu'.rxW = adu.rxW /\ adu'.rxR = adu.rxR /\ adu'.rxU = adu.rxU
      /\ adu'.state = adu.state /\ adu'.frame = adu.frame /\ adu'.offset = adu.offset
      /\ adu'.metrics = adu.metrics /\ adu'.count = adu.count
  BY <1>1, <1>2 DEF Typed, Adu
<1>4. Extra' = Extra /\ Rest' = 0 /\ Plan' = Plan
  BY <1>1, <1>3 DEF Extra, Rest, Plan, StateInts
<1>5. Samples' = Samples /\ Read' = Read /\ Drained' = Drained /\ Left' = Left
  BY <1>2, <1>3, <1>4
  DEF Samples, Read, Drained, Left, ToCount, ToRead, ToDrain,
      TxFirst, TxLast, RxFirst, RxLast, Before
<1>6. Filled' = Filled /\ Written' = Written
  <2>1. Filled = adu.txU + (len + Rest) /\ Written = adu.txW + Rest
    BY <1>2 DEF Filled, Written, ToFill, ToWrite, TxFirst, TxLast
  <2>2. CASE len = 1
    <3>1. Filled' = (adu.txU + 1) + (Block + 0) /\ Written' = adu.txW + (Block + 0)
      BY <1>2, <1>3, <1>4, <2>2 DEF Filled, Written, ToFill, ToWrite, TxFirst, TxLast
    <3> QED
      BY <1>1, <2>1, <2>2, <3>1 DEF Rest, StateInts
  <2>3. CASE len # 1
    <3>1. Filled' = (adu.txU + len) + 0 /\ Written' = adu.txW + 0
      BY <1>2, <1>3, <2>3 DEF Filled, Written, ToFill, ToWrite, TxFirst, TxLast
    <3> QED
      BY <1>1, <2>1, <2>3, <3>1 DEF Rest, StateInts
  <2> QED
    BY <2>2, <2>3
<1>7. Congruent(Read', Read) /\ Congruent(Written', Written)
  BY <1>5, <1>6, ViewInts, CongruentSame
<1>8. Exact'
  <2>1. len = 1 => adu.state = "duplicate"
    BY <1>1, <1>2 DEF Exact, TxFirst, TxLast, StateInts, Turning
  <2> QED
    BY <1>2, <1>3, <2>1 DEF Exact, TxFirst, TxLast, RxFirst, RxLast, Turning
<1> QED
  BY <1>3, <1>5, <1>6, <1>7, <1>8 DEF Kept

LEMMA CountKeeps ==
    ASSUME TypeInv, TypeInv', Exact, adu.state # "needsReset",
           Store("countSet", "count", reg + Block, "source"), len' = len
    PROVE  Kept /\ Exact'
<1>1. Typed(adu) /\ StateInts
  BY Ints DEF TypeInv
<1>2. /\ pc = "countSet" /\ pc' = "source" /\ reg = adu.count
      /\ adu' = [adu EXCEPT !.count = adu.count + Block]
  BY DEF Store, Exchange, Exact
<1>3. /\ adu'.txW = adu.txW /\ adu'.txR = adu.txR /\ adu'.txU = adu.txU
      /\ adu'.rxW = adu.rxW /\ adu'.rxR = adu.rxR /\ adu'.rxU = adu.rxU
      /\ adu'.state = adu.state /\ adu'.frame = adu.frame /\ adu'.offset = adu.offset
      /\ adu'.metrics = adu.metrics /\ adu'.count = adu.count + Block
  BY <1>1, <1>2 DEF Typed, Adu
<1>4. Extra' = Extra /\ Plan' = Plan
  BY <1>3 DEF Extra, Plan
<1>5. /\ Written' = Written /\ Filled' = Filled
      /\ Read' = Read /\ Drained' = Drained /\ Left' = Left
  BY <1>2, <1>3, <1>4
  DEF Written, Filled, Read, Drained, Left, ToWrite, ToFill, ToRead, ToDrain,
      TxFirst, TxLast, RxFirst, RxLast, Before
<1>6. Samples' = Samples
  <2>1. Samples = adu.count + Block /\ Samples' = (adu.count + Block) + 0
    BY <1>2, <1>3 DEF Samples, ToCount, TxFirst, TxLast
  <2> QED
    BY <1>1, <2>1 DEF StateInts
<1>7. Congruent(Read', Read) /\ Congruent(Written', Written)
  BY <1>5, ViewInts, CongruentSame
<1>8. Exact'
  BY <1>2 DEF Exact, TxFirst, TxLast, RxFirst, RxLast
<1> QED
  BY <1>3, <1>5, <1>6, <1>7, <1>8 DEF Kept

\* The exchange turns to the ring from the host, if that runs.
LEMMA SourceKeeps ==
    ASSUME TypeInv, TypeInv', adu.state # "needsReset",
           Exchange("source", IF adu.state \in Streaming THEN "rxCheck" ELSE "idle"),
           len' = (IF adu.state \in Streaming THEN Block ELSE 0), adu' = adu
    PROVE  Kept /\ Exact'
<1>1. StateInts
  BY Ints
<1>2. pc = "source" /\ pc' = (IF adu.state \in Streaming THEN "rxCheck" ELSE "idle")
  BY DEF Exchange
<1>3. /\ ToWrite = 0 /\ ToFill = 0 /\ ToCount = 0 /\ ToRead = Plan /\ ToDrain = Plan /\ Left = 0
  BY <1>2
  DEF ToWrite, ToFill, ToCount, ToRead, ToDrain, Left, TxFirst, TxLast, RxFirst, RxLast, Before
<1>4. Extra' = Extra
  BY DEF Extra
<1>5. CASE adu.state \in Streaming
  <2>1. pc' = "rxCheck" /\ len' = Block /\ More' = Extra
    BY <1>2, <1>4, <1>5 DEF More
  <2>2. /\ ToWrite' = 0 /\ ToFill' = 0 /\ ToCount' = 0 /\ Left' = 0
        /\ ToRead' = Block + Extra /\ ToDrain' = Block + Extra
    BY <2>1
    DEF ToWrite, ToFill, ToCount, ToRead, ToDrain, Left, TxFirst, TxLast, RxFirst, RxLast, Before
  <2>3. Kept
    BY <1>3, <1>5, <2>2, ReadKeeps DEF Plan
  <2> QED
    BY <1>5, <2>1, <2>3 DEF Exact, TxFirst, TxLast, RxFirst, RxLast
<1>6. CASE adu.state \notin Streaming
  <2>1. pc' = "idle" /\ Extra = 0 /\ Plan = 0
    BY <1>2, <1>6 DEF Extra, Plan, Streaming
  <2>2. /\ ToWrite' = 0 /\ ToFill' = 0 /\ ToCount' = 0 /\ Left' = 0 - 0
        /\ ToRead' = 0 /\ ToDrain' = 0
    BY <1>4, <2>1
    DEF ToWrite, ToFill, ToCount, ToRead, ToDrain, Left, TxFirst, TxLast, RxFirst, RxLast, Before
  <2>3. Kept
    BY <1>3, <2>1, <2>2, ReadKeeps
  <2> QED
    BY <2>1, <2>3 DEF Exact, TxFirst, TxLast, RxFirst, RxLast
<1> QED
  BY <1>5, <1>6

LEMMA RxOffsetKeeps ==
    ASSUME TypeInv, TypeInv', Exact, adu.state # "needsReset",
           Store("rxOffsetSet", "rxR", (reg + len) % Full, "rxUsed"), len' = len
    PROVE  Kept /\ Exact'
<1>1. Typed(adu) /\ StateInts
  BY Ints DEF TypeInv
<1>2. /\ pc = "rxOffsetSet" /\ pc' = "rxUsed" /\ reg = adu.rxR
      /\ adu' = [adu EXCEPT !.rxR = (adu.rxR + len) % Full]
  BY DEF Store, Exchange, Exact
<1>3. /\ adu'.txW = adu.txW /\ adu'.txR = adu.txR /\ adu'.txU = adu.txU
      /\ adu'.rxW = adu.rxW /\ adu'.rxR = (adu.rxR + len) % Full /\ adu'.rxU = adu.rxU
      /\ adu'.state = adu.state /\ adu'.frame = adu.frame /\ adu'.offset = adu.offset
      /\ adu'.metrics = adu.metrics /\ adu'.count = adu.count
  BY <1>1, <1>2 DEF Typed, Adu
<1>4. Extra' = Extra /\ More' = More
  BY <1>3 DEF Extra, More
<1>5. /\ Written' = Written /\ Filled' = Filled /\ Samples' = Samples
      /\ Drained' = Drained /\ Left' = Left
  BY <1>2, <1>3, <1>4
  DEF Written, Filled, Samples, Drained, Left, ToWrite, ToFill, ToCount, ToDrain,
      TxFirst, TxLast, RxFirst, RxLast, Before
<1>6. Congruent(Read', Read)
  <2>1. Read' = ((adu.rxR + len) % Full) + More /\ Read = adu.rxR + (len + More)
    BY <1>2, <1>3, <1>4 DEF Read, ToRead, TxFirst, TxLast, RxFirst, RxLast, Before
  <2>2. More \in Int /\ adu.rxR + len \in Int
    <3>1. Extra \in {-1, 0, 1} /\ More \in {0, Extra}
      BY ViewInts
    <3> QED
      BY <1>1, <3>1 DEF StateInts
  <2>3. Read = (adu.rxR + len) + More
    BY <1>1, <2>1, <2>2 DEF StateInts
  <2> QED
    BY <2>1, <2>2, <2>3, CongruentWrapped
<1>7. Congruent(Written', Written)
  BY <1>5, ViewInts, CongruentSame
<1>8. Exact'
  BY <1>2, <1>3, <1>4 DEF Exact, TxFirst, TxLast, RxFirst, RxLast
<1> QED
  BY <1>3, <1>5, <1>6, <1>7, <1>8 DEF Kept

LEMMA RxUsedKeeps ==
    ASSUME TypeInv, TypeInv', Exact, adu.state # "needsReset",
           Store("rxUsedSet", "rxU", reg - len, IF len = Block THEN "adjust" ELSE "settle"),
           len' = 0
    PROVE  Kept /\ Exact'
<1>1. Typed(adu) /\ StateInts
  BY Ints DEF TypeInv
<1>2. /\ pc = "rxUsedSet" /\ pc' = (IF len = Block THEN "adjust" ELSE "settle")
      /\ reg = adu.rxU /\ adu.state \in Streaming /\ adu' = [adu EXCEPT !.rxU = adu.rxU - len]
  BY DEF Store, Exchange, Exact, RxFirst, RxLast
<1>3. /\ adu'.txW = adu.txW /\ adu'.txR = adu.txR /\ adu'.txU = adu.txU
      /\ adu'.rxW = adu.rxW /\ adu'.rxR = adu.rxR /\ adu'.rxU = adu.rxU - len
      /\ adu'.state = adu.state /\ adu'.frame = adu.frame /\ adu'.offset = adu.offset
      /\ adu'.metrics = adu.metrics /\ adu'.count = adu.count
  BY <1>1, <1>2 DEF Typed, Adu
<1>4. Extra' = Extra
  BY <1>3 DEF Extra
<1>5. /\ Written' = Written /\ Filled' = Filled /\ Samples' = Samples /\ Left' = Left
  BY <1>2, <1>3
  DEF Written, Filled, Samples, Left, ToWrite, ToFill, ToCount,
      TxFirst, TxLast, RxFirst, RxLast, Before
<1>6. Read' = Read /\ Drained' = Drained
  <2>1. Read = adu.rxR + More /\ Drained = adu.rxU - (len + More)
    BY <1>2 DEF Read, Drained, ToRead, ToDrain, TxFirst, TxLast, RxFirst, RxLast, Before
  <2>2. More = (IF len = Block THEN Extra ELSE 0) /\ Extra \in {-1, 0, 1}
    BY ViewInts DEF More
  <2>3. /\ Read' = adu.rxR + (IF len = Block THEN Extra ELSE 0)
        /\ Drained' = (adu.rxU - len) - (IF len = Block THEN Extra ELSE 0)
    BY <1>2, <1>3, <1>4
    DEF Read, Drained, ToRead, ToDrain, TxFirst, TxLast, RxFirst, RxLast, Before
  <2> QED
    BY <1>1, <2>1, <2>2, <2>3 DEF StateInts
<1>7. Congruent(Written', Written) /\ Congruent(Read', Read)
  BY <1>5, <1>6, ViewInts, CongruentSame
<1>8. Exact'
  BY <1>2, <1>3 DEF Exact, TxFirst, TxLast, RxFirst, RxLast
<1> QED
  BY <1>3, <1>5, <1>6, <1>7, <1>8 DEF Kept

LEMMA AdjustKeeps ==
    ASSUME TypeInv, TypeInv', Exact, adu.state # "needsReset", Adjust
    PROVE  Kept /\ Exact'
<1>1. StateInts /\ Extra \in {-1, 0, 1}
  BY Ints, ViewInts
<1>2. /\ pc = "adjust" /\ pc' = (IF len' = 0 THEN "settle" ELSE "rxOffset")
      /\ adu' = adu /\ adu.state \in Streaming /\ len' = Extra
  BY DEF Adjust, Exchange, Exact, Extra
<1>3. Extra' = Extra /\ More' = 0
  BY <1>1, <1>2 DEF Extra, More, StateInts
<1>4. /\ ToWrite' = ToWrite /\ ToFill' = ToFill /\ ToCount' = ToCount /\ Left' = Left
  BY <1>2
  DEF ToWrite, ToFill, ToCount, Left, TxFirst, TxLast, RxFirst, RxLast, Before
<1>5. ToRead' = ToRead /\ ToDrain' = ToDrain
  <2>1. ToRead = Extra /\ ToDrain = Extra
    BY <1>2 DEF ToRead, ToDrain, TxFirst, TxLast, RxFirst, RxLast, Before
  <2>2. /\ ToRead' = IF Extra = 0 THEN 0 ELSE Extra + 0
        /\ ToDrain' = IF Extra = 0 THEN 0 ELSE Extra + 0
    BY <1>2, <1>3 DEF ToRead, ToDrain, TxFirst, TxLast, RxFirst, RxLast, Before
  <2> QED
    BY <1>1, <2>1, <2>2
<1>6. Exact'
  BY <1>2, <1>3 DEF Exact, TxFirst, TxLast, RxFirst, RxLast
<1> QED
  BY <1>2, <1>4, <1>5, <1>6, ReadKeeps

LEMMA SettleKeeps ==
    ASSUME TypeInv, TypeInv', Exact, adu.state # "needsReset",
           pc = "settled" => adu.state \in Turning, Settle
    PROVE  Kept /\ Exact'
<1>1. Typed(adu) /\ StateInts
  BY Ints DEF TypeInv
<1>2. CASE Test("settle", IF adu.state \in {"remove", "duplicate"} THEN "settled" ELSE "idle")
  <2>1. /\ adu' = adu /\ pc = "settle" /\ adu.state \in Streaming
        /\ pc' = IF adu.state \in Turning THEN "settled" ELSE "idle"
    BY <1>2 DEF Test, Exchange, Exact, Turning
  <2>2. Left = 0 /\ Left' = 0
    <3>1. pc' = "idle" => Extra' = 0
      BY <2>1 DEF Extra, Turning
    <3>2. 0 - 0 = 0
      OBVIOUS
    <3> QED
      BY <2>1, <3>1, <3>2 DEF Left
  <2>3. /\ ToWrite' = ToWrite /\ ToFill' = ToFill /\ ToCount' = ToCount
        /\ ToRead' = ToRead /\ ToDrain' = ToDrain
    BY <2>1 DEF ToWrite, ToFill, ToCount, ToRead, ToDrain, TxFirst, TxLast, RxFirst, RxLast, Before
  <2>4. Exact'
    BY <2>1 DEF Exact, TxFirst, TxLast, RxFirst, RxLast
  <2> QED
    BY <2>1, <2>2, <2>3, <2>4, ReadKeeps
<1>3. CASE Store("settled", "state", "normal", "idle") /\ UNCHANGED len
  <2>1. /\ pc = "settled" /\ pc' = "idle" /\ adu.state \in Streaming
        /\ adu' = [adu EXCEPT !.state = "normal"]
    BY <1>3 DEF Store, Exchange, Turning, Streaming
  <2>2. /\ adu'.txW = adu.txW /\ adu'.txR = adu.txR /\ adu'.txU = adu.txU
        /\ adu'.rxW = adu.rxW /\ adu'.rxR = adu.rxR /\ adu'.rxU = adu.rxU
        /\ adu'.state = "normal" /\ adu'.frame = adu.frame /\ adu'.offset = adu.offset
        /\ adu'.metrics = adu.metrics /\ adu'.count = adu.count
    BY <1>1, <2>1 DEF Typed, Adu
  <2>3. /\ ToWrite' = ToWrite /\ ToFill' = ToFill /\ ToCount' = ToCount
        /\ ToRead' = ToRead /\ ToDrain' = ToDrain
    BY <2>1 DEF ToWrite, ToFill, ToCount, ToRead, ToDrain, TxFirst, TxLast, RxFirst, RxLast, Before
  <2>4. Left = 0 /\ Left' = 0
    <3>1. Extra' = 0
      BY <2>2 DEF Extra
    <3>2. 0 - 0 = 0
      OBVIOUS
    <3> QED
      BY <2>1, <3>1, <3>2 DEF Left
  <2>5. /\ Written' = Written /\ Filled' = Filled /\ Samples' = Samples
        /\ Read' = Read /\ Drained' = Drained
    BY <2>2, <2>3 DEF Written, Filled, Samples, Read, Drained
  <2>6. Congruent(Written', Written) /\ Congruent(Read', Read)
    BY <2>5, ViewInts, CongruentSame
  <2>7. Exact'
    BY <2>1 DEF Exact, TxFirst, TxLast, RxFirst, RxLast
  <2> QED
    BY <2>1, <2>2, <2>4, <2>5, <2>6, <2>7 DEF Kept, Streaming
<1> QED
  BY <1>2, <1>3 DEF Settle

\* Nothing but an error keeps an exchange that has begun from doing what it set out to.
LEMMA ExchangeKeeps ==
    ASSUME TypeInv, TypeInv', Exact, adu.state # "needsReset", adu'.state # "needsReset",
           pc = "settled" => adu.state \in Turning, DataExchange, pc # "idle"
    PROVE  Kept /\ Exact'
<1>1. CASE Begin
  BY <1>1 DEF Begin, Exchange
<1>2. ~Store("txError", "state", "needsReset", "txOffset") /\ ~Store("rxError", "state", "needsReset", "rxOffset")
  <2>1. [adu EXCEPT !.state = "needsReset"].state = "needsReset"
    BY DEF TypeInv, Typed, Adu
  <2> QED
    BY <2>1 DEF Store
<1>3. CASE MoveDataToTX
  BY <1>2, <1>3, CheckKeeps, LoadKeeps, TxOffsetKeeps, TxUsedKeeps DEF MoveDataToTX, TxFirst
<1>4. CASE CountFrame
  BY <1>4, LoadKeeps, CountKeeps, SourceKeeps DEF CountFrame
<1>5. CASE MoveDataFromRX
  BY <1>2, <1>5, CheckKeeps, LoadKeeps, RxOffsetKeeps, RxUsedKeeps
  DEF MoveDataFromRX, ReadOn, RxFirst
<1>6. CASE Adjust
  BY <1>6, AdjustKeeps
<1>7. CASE Settle
  BY <1>7, SettleKeeps
<1> QED
  BY <1>1, <1>3, <1>4, <1>5, <1>6, <1>7 DEF DataExchange
-----------------------------------------------------------------------------
(* Rings in tune.  While they fill, the record says how many frames there  *)
(* have been since they were empty, and a slip shows at most once; when    *)
(* they run, what one is short of the other has too much of.               *)

DueSize   == due * Block
FrameSize == adu.frame * Transfer
FromHost  == IF received THEN Transfer ELSE 0

\* By how many exchanges the frames since then, with this one, are off.
Slipping(d) ==
    \/ d = early \/ d = early - drift
    \/ early = 0 /\ calm + adu.frame > Jitter + 3 /\ d \in {0, drift}

Filling ==
    /\ adu.frame \in 0..2 /\ adu.offset = 0
    /\ Together(Written, adu.txR, Filled) /\ Together(adu.rxW, Read, Drained)
    /\ Filled = adu.metrics + Samples + FrameSize
    /\ Drained = FrameSize + FromHost
    /\ \E d \in {-1, 0, 1} :
         Slipping(d) /\ Filled + DueSize = FrameSize + Transfer + d * Block

Running ==
    /\ Together(Written, adu.txR, Filled) /\ Together(adu.rxW, Read, Drained)
    /\ Filled + Drained = 3 * Transfer + FromHost
    /\ Filled = Transfer + Samples + adu.offset + adu.metrics + Left
    /\ pc = "idle" /\ adu.state \in Turning => due > 0

InTune ==
    /\ streams > 0
    /\ pc = "settled" => adu.state \in Turning
    /\ adu.state # "needsReset" => Exact
    /\ adu.state = "init" => Filling
    /\ adu.state \in Streaming => Running

Undisturbed == clean => InTune

LEMMA TogetherSame ==
    ASSUME NEW w \in Int, NEW r \in Int, NEW u \in Int, Together(w, r, u),
           NEW x \in Int, NEW s \in Int, NEW v \in Int, w - r - u = x - s - v
    PROVE  Together(x, s, v)
BY DEF Together

LEMMA KeptInTune ==
    ASSUME TypeInv, TypeInv', Kept, pc # "idle", due' = due, received' = received,
           UNCHANGED clock
    PROVE  (Filling => Filling') /\ (Running => Running')
<1>1. StateInts /\ StateInts'
  BY Ints, PTL
<1>2. /\ Written \in Int /\ Filled \in Int /\ Read \in Int /\ Drained \in Int
      /\ Written' \in Int /\ Filled' \in Int /\ Read' \in Int /\ Drained' \in Int
  <2>1. Written \in Int /\ Filled \in Int /\ Read \in Int /\ Drained \in Int
    BY ViewInts
  <2>2. (Written \in Int /\ Filled \in Int /\ Read \in Int /\ Drained \in Int)'
    BY ViewInts, PTL
  <2> QED
    BY <2>1, <2>2
<1>3. Together(Written, adu.txR, Filled) => Together(Written, adu.txR, Filled)'
  <2> SUFFICES ASSUME Together(Written, adu.txR, Filled)
               PROVE  Together(Written', adu'.txR, Filled')
    BY DEF Together
  <2>1. Congruent(Written', Written) /\ Congruent(adu'.txR, adu.txR)
        /\ Filled' = Filled /\ adu.txR \in Int /\ adu'.txR \in Int
    BY <1>1, CongruentSame DEF Kept, StateInts
  <2> QED
    BY <1>2, <2>1, TogetherCongruent
<1>4. Together(adu.rxW, Read, Drained) => Together(adu.rxW, Read, Drained)'
  <2> SUFFICES ASSUME Together(adu.rxW, Read, Drained)
               PROVE  Together(adu'.rxW, Read', Drained')
    BY DEF Together
  <2>1. Congruent(Read', Read) /\ Congruent(adu'.rxW, adu.rxW)
        /\ Drained' = Drained /\ adu.rxW \in Int /\ adu'.rxW \in Int
    BY <1>1, CongruentSame DEF Kept, StateInts
  <2> QED
    BY <1>2, <2>1, TogetherCongruent
<1>5. DueSize' = DueSize /\ FromHost' = FromHost /\ FrameSize' = FrameSize
  BY DEF Kept, DueSize, FromHost, FrameSize
<1>6. Filled' = Filled /\ Samples' = Samples /\ Drained' = Drained /\ Left' = Left
      /\ adu'.frame = adu.frame /\ adu'.offset = adu.offset /\ adu'.metrics = adu.metrics
  BY DEF Kept
<1>7. \A d : Slipping(d) => Slipping(d)'
  BY <1>6 DEF Slipping, clock
<1>8. Filling => Filling'
  BY <1>3, <1>4, <1>5, <1>6, <1>7 DEF Filling
<1>9. Running => Running'
  <2>1. pc' = "idle" => adu'.state \notin Turning
    <3>1. Left' = 0
      BY <1>6 DEF Left
    <3>2. pc' = "idle" => 0 - Extra' = 0
      BY <3>1 DEF Left
    <3>3. adu'.state \in Turning => Extra' \in {-1, 1}
      BY DEF Extra, Turning
    <3> QED
      BY <3>2, <3>3
  <2> QED
    BY <1>3, <1>4, <1>5, <1>6, <2>1 DEF Running
<1> QED
  BY <1>8, <1>9

\* A new exchange: what it will move is known from its beginning.
LEMMA BeginMoves ==
    ASSUME TypeInv, TypeInv', Begin
    PROVE  /\ pc = "idle" /\ pc' = "txCheck" /\ adu' = adu /\ Exact'
           /\ Written' = Written + Block + Extra /\ Filled' = Filled + Block + Extra
           /\ Samples' = Samples + Block
           /\ Read' = Read + Plan /\ Drained' = Drained - Plan
           /\ Left = 0 - Extra /\ Left' = 0
           /\ DueSize' = DueSize - Block /\ received' = received /\ UNCHANGED clock
<1>1. StateInts /\ Extra \in {-1, 0, 1} /\ Plan \in {0, Block + Extra}
  BY Ints, ViewInts
<1>2. /\ pc = "idle" /\ pc' = "txCheck" /\ adu' = adu /\ due' = due - 1 /\ received' = received
      /\ UNCHANGED clock
      /\ len' = CASE adu.state = "remove" -> Block - 1
                  [] adu.state = "duplicate" -> 1
                  [] OTHER -> Block
  BY DEF Begin, Exchange
<1>3. Extra' = Extra /\ Plan' = Plan
  BY <1>2 DEF Extra, Plan
<1>4. len' + Rest' = Block + Extra /\ Block + Extra \in Int
  <2>1. CASE adu.state = "remove"
    BY <1>1, <1>2, <2>1 DEF Rest, Extra, StateInts
  <2>2. CASE adu.state = "duplicate"
    BY <1>1, <1>2, <2>2 DEF Rest, Extra, StateInts
  <2>3. CASE adu.state \notin Turning
    BY <1>1, <1>2, <2>3 DEF Rest, Extra, StateInts, Turning
  <2> QED
    BY <2>1, <2>2, <2>3 DEF Turning
<1>5. /\ Written = adu.txW + 0 /\ Filled = adu.txU + 0 /\ Samples = adu.count + 0
      /\ Read = adu.rxR + 0 /\ Drained = adu.rxU - 0
  BY <1>2
  DEF Written, Filled, Samples, Read, Drained, ToWrite, ToFill, ToCount, ToRead, ToDrain,
      TxFirst, TxLast, RxFirst, RxLast, Before
<1>6. /\ Written' = adu.txW + (Block + Extra) /\ Filled' = adu.txU + (Block + Extra)
      /\ Samples' = adu.count + Block /\ Read' = adu.rxR + Plan /\ Drained' = adu.rxU - Plan
  BY <1>2, <1>3, <1>4
  DEF Written, Filled, Samples, Read, Drained, ToWrite, ToFill, ToCount, ToRead, ToDrain,
      TxFirst, TxLast, RxFirst, RxLast, Before
<1>7. Left = 0 - Extra /\ Left' = 0
  BY <1>2 DEF Left
<1>8. DueSize' = DueSize - Block
  BY <1>1, <1>2, OneLess DEF DueSize, StateInts
<1>9. Exact'
  BY <1>2 DEF Exact, TxFirst, TxLast, RxFirst, RxLast, Turning
<1> QED
  BY <1>1, <1>2, <1>5, <1>6, <1>7, <1>8, <1>9 DEF StateInts

LEMMA BeginKeeps ==
    ASSUME TypeInv, TypeInv', InTune, Begin
    PROVE  InTune'
<1>1. /\ StateInts /\ Extra \in {-1, 0, 1} /\ Plan \in {0, Block + Extra}
      /\ Written \in Int /\ Filled \in Int /\ Samples \in Int /\ Read \in Int /\ Drained \in Int
  BY Ints, ViewInts
<1>2. /\ pc = "idle" /\ pc' = "txCheck" /\ adu' = adu /\ Exact'
      /\ Written' = Written + Block + Extra /\ Filled' = Filled + Block + Extra
      /\ Samples' = Samples + Block
      /\ Read' = Read + Plan /\ Drained' = Drained - Plan
      /\ Left = 0 - Extra /\ Left' = 0
      /\ DueSize' = DueSize - Block /\ received' = received /\ UNCHANGED clock
  BY BeginMoves
<1>3. FrameSize' = FrameSize /\ FromHost' = FromHost
  BY <1>2 DEF FrameSize, FromHost
<1>4. streams' > 0 /\ pc' # "settled"
  BY <1>2 DEF Begin, Exchange, InTune
<1>5. ASSUME Together(Written, adu.txR, Filled)
      PROVE  Together(Written, adu.txR, Filled)'
  <2>1. Together(Written', adu.txR, Filled')
    BY <1>1, <1>2, <1>5, TogetherSame DEF StateInts
  <2> QED
    BY <1>2, <2>1 DEF Together
<1>6. ASSUME Together(adu.rxW, Read, Drained)
      PROVE  Together(adu.rxW, Read, Drained)'
  <2>1. Together(adu.rxW, Read', Drained')
    BY <1>1, <1>2, <1>6, TogetherSame DEF StateInts
  <2> QED
    BY <1>2, <2>1 DEF Together
<1>7. ASSUME adu'.state = "init" PROVE Filling'
  <2>1. Filling /\ Extra = 0 /\ Plan = 0
    BY <1>2, <1>7 DEF InTune, Extra, Plan, Streaming
  <2>2. PICK d \in {-1, 0, 1} :
          Slipping(d) /\ Filled + DueSize = FrameSize + Transfer + d * Block
    BY <2>1 DEF Filling
  <2>3. Filled' + DueSize' = Filled + DueSize /\ Filled' = Filled + Block
    BY <1>1, <1>2, <2>1, SizesAre DEF StateInts, DueSize
  <2>4. Slipping(d)'
    BY <1>2, <2>2 DEF Slipping, clock
  <2>5. Filled' + DueSize' = FrameSize' + Transfer + d * Block
    BY <1>3, <2>2, <2>3
  <2>6. Filled' = adu'.metrics + Samples' + FrameSize'
    <3>1. Filled = adu.metrics + Samples + FrameSize /\ FrameSize \in Int
      BY <1>1, <2>1 DEF Filling, FrameSize, StateInts, Frames
    <3> QED
      BY <1>1, <1>2, <1>3, <2>3, <3>1 DEF StateInts
  <2>7. Drained' = FrameSize' + FromHost'
    BY <1>1, <1>2, <1>3, <2>1 DEF Filling
  <2> QED
    BY <1>2, <1>5, <1>6, <2>1, <2>4, <2>5, <2>6, <2>7 DEF Filling
<1>8. ASSUME adu'.state \in Streaming PROVE Running'
  <2>1. Running /\ Plan = Block + Extra
    BY <1>2, <1>8 DEF InTune, Plan
  <2>2. Filled' + Drained' = 3 * Transfer + FromHost'
    BY <1>1, <1>2, <1>3, <2>1 DEF Running, StateInts
  <2>3. Filled' = Transfer + Samples' + adu'.offset + adu'.metrics + Left'
    BY <1>1, <1>2, <2>1 DEF Running, StateInts
  <2> QED
    BY <1>2, <1>5, <1>6, <2>1, <2>2, <2>3 DEF Running
<1> QED
  BY <1>2, <1>4, <1>7, <1>8 DEF InTune

LEMMA ExchangeInTune ==
    ASSUME TypeInv, TypeInv', InTune, DataExchange
    PROVE  InTune'
<1>1. CASE Begin
  BY <1>1, BeginKeeps
<1>2. CASE ~Begin
  <2>1. /\ pc # "idle" /\ due' = due /\ received' = received /\ UNCHANGED clock
        /\ streams' = streams
    BY <1>2
    DEF DataExchange, MoveDataToTX, CountFrame, MoveDataFromRX, ReadOn, Adjust, Settle, Test,
        Load, Store, Exchange
  <2>2. pc' = "settled" => adu'.state \in Turning
    BY <1>2
    DEF DataExchange, MoveDataToTX, CountFrame, MoveDataFromRX, ReadOn, Adjust, Settle, Test,
        Load, Store, Exchange, Turning
  <2>3. streams' > 0 /\ (pc = "settled" => adu.state \in Turning)
    BY <2>1 DEF InTune
  <2>4. CASE adu.state = "needsReset"
    <3>1. adu'.state = "needsReset"
      <4>1. CASE adu' = adu
        BY <2>4, <4>1
      <4>2. CASE adu' # adu
        <5>1. pc # "settled"
          BY <2>3, <2>4 DEF Turning
        <5>2. adu' \in {[adu EXCEPT !.state = "needsReset"],
                        [adu EXCEPT !.txW = (reg + len) % Full], [adu EXCEPT !.txU = reg + len],
                        [adu EXCEPT !.count = reg + Block],
                        [adu EXCEPT !.rxR = (reg + len) % Full], [adu EXCEPT !.rxU = reg - len]}
          BY <1>2, <4>2, <5>1
          DEF DataExchange, MoveDataToTX, CountFrame, MoveDataFromRX, ReadOn, Adjust, Settle,
              Test, Load, Store, Exchange
        <5>3. adu \in Adu
          BY DEF TypeInv, Typed
        <5> QED
          BY <2>4, <5>2, <5>3 DEF Adu
      <4> QED
        BY <4>1, <4>2
    <3> QED
      BY <2>2, <2>3, <3>1 DEF InTune, Streaming
  <2>5. CASE adu'.state = "needsReset"
    BY <2>2, <2>3, <2>5 DEF InTune, Streaming
  <2>6. CASE adu.state # "needsReset" /\ adu'.state # "needsReset"
    <3>1. Kept /\ Exact'
      BY <2>1, <2>3, <2>6, ExchangeKeeps DEF InTune
    <3>2. (Filling => Filling') /\ (Running => Running')
      BY <2>1, <3>1, KeptInTune
    <3> QED
      BY <2>2, <2>3, <3>1, <3>2 DEF InTune, Kept
  <2> QED
    BY <2>4, <2>5, <2>6
<1> QED
  BY <1>1, <1>2
-----------------------------------------------------------------------------
(* The frames.                                                             *)

LEMMA IdleViews ==
    TypeInv /\ pc = "idle" =>
        /\ Written = adu.txW /\ Filled = adu.txU /\ Samples = adu.count
        /\ Read = adu.rxR /\ Drained = adu.rxU /\ Left = 0 - Extra /\ Exact
<1> SUFFICES ASSUME TypeInv, pc = "idle"
             PROVE  /\ Written = adu.txW /\ Filled = adu.txU /\ Samples = adu.count
                    /\ Read = adu.rxR /\ Drained = adu.rxU /\ Left = 0 - Extra /\ Exact
  OBVIOUS
<1>1. StateInts
  BY Ints
<1>2. /\ Written = adu.txW + 0 /\ Filled = adu.txU + 0 /\ Samples = adu.count + 0
      /\ Read = adu.rxR + 0 /\ Drained = adu.rxU - 0 /\ Left = 0 - Extra
  BY DEF Written, Filled, Samples, Read, Drained, Left, ToWrite, ToFill, ToCount, ToRead, ToDrain,
      TxFirst, TxLast, RxFirst, RxLast, Before
<1>3. Exact
  BY DEF Exact, TxFirst, TxLast, RxFirst, RxLast
<1> QED
  BY <1>1, <1>2, <1>3 DEF StateInts

LEMMA IdleNext ==
    ASSUME TypeInv', pc' = "idle"
    PROVE  /\ Written' = adu'.txW /\ Filled' = adu'.txU /\ Samples' = adu'.count
           /\ Read' = adu'.rxR /\ Drained' = adu'.rxU /\ Left' = 0 - Extra' /\ Exact'
<1>1. /\ adu'.count \in Int /\ adu'.txW \in Int /\ adu'.txU \in Int
      /\ adu'.rxR \in Int /\ adu'.rxU \in Int
  BY Fields DEF TypeInv, Offsets
<1>2. /\ Written' = adu'.txW + 0 /\ Filled' = adu'.txU + 0 /\ Samples' = adu'.count + 0
      /\ Read' = adu'.rxR + 0 /\ Drained' = adu'.rxU - 0 /\ Left' = 0 - Extra'
  BY DEF Written, Filled, Samples, Read, Drained, Left, ToWrite, ToFill, ToCount, ToRead,
         ToDrain, TxFirst, TxLast, RxFirst, RxLast, Before
<1>3. Exact'
  BY DEF Exact, TxFirst, TxLast, RxFirst, RxLast
<1> QED
  BY <1>1, <1>2, <1>3

\* A transfer from the host goes into its ring; if that has no room for it, the
\* rings are to be reset.
LEMMA ReceivedInTune ==
    ASSUME TypeInv, TypeInv', InTune, Received, pc = "idle"
    PROVE  InTune'
<1>1. /\ ~received /\ received' = TRUE /\ UNCHANGED <<streams, pc, due, clock>> /\ streams > 0
      /\ Typed(adu) /\ StateInts
  BY Ints DEF Received, InTune, TypeInv
<1>2. /\ adu'.rxW = (adu.rxW + Transfer) % Full
      /\ adu'.rxU = adu.rxU + Transfer /\ adu'.rxR = adu.rxR
      /\ adu'.state \in {"needsReset", adu.state}
      /\ adu'.frame = adu.frame /\ adu'.offset = adu.offset /\ adu'.metrics = adu.metrics
      /\ adu'.count = adu.count
      /\ adu'.txW = adu.txW /\ adu'.txR = adu.txR /\ adu'.txU = adu.txU
  BY <1>1, TransferReceived
<1>3. /\ Written = adu.txW /\ Filled = adu.txU /\ Samples = adu.count
      /\ Read = adu.rxR /\ Drained = adu.rxU /\ Left = 0 - Extra
  BY IdleViews
<1>4. /\ Written' = adu'.txW /\ Filled' = adu'.txU /\ Samples' = adu'.count
      /\ Read' = adu'.rxR /\ Drained' = adu'.rxU /\ Left' = 0 - Extra' /\ Exact'
  BY <1>1, IdleNext
<1>5. CASE adu'.state = "needsReset"
  BY <1>1, <1>4, <1>5 DEF InTune, Streaming
<1>6. CASE adu'.state = adu.state
  <2>1. /\ Written' = Written /\ Filled' = Filled /\ Samples' = Samples /\ Left' = Left
        /\ FromHost = 0 /\ FromHost' = Transfer /\ Drained' = Drained + Transfer
        /\ DueSize' = DueSize /\ FrameSize' = FrameSize /\ adu'.txR = adu.txR
    BY <1>1, <1>2, <1>3, <1>4, <1>6 DEF FromHost, DueSize, FrameSize, Extra
  <2>2. ASSUME Together(adu.rxW, Read, Drained)
        PROVE  Together(adu.rxW, Read, Drained)'
    <3>1. /\ adu.rxW \in Int /\ adu.rxR \in Int /\ adu.rxU \in Int /\ Transfer \in Int
          /\ adu.rxW + Transfer \in Int /\ adu.rxU + Transfer \in Int
      BY <1>1 DEF StateInts
    <3> DEFINE w == adu.rxW + Transfer
    <3> HIDE DEF w
    <3>2. Together(w, adu.rxR, adu.rxU + Transfer)
      <4>1. Together(adu.rxW, adu.rxR, adu.rxU)
        BY <1>3, <2>2
      <4>2. w - adu.rxR - (adu.rxU + Transfer) = adu.rxW - adu.rxR - adu.rxU
        BY <3>1 DEF w
      <4> QED
        BY <4>1, <4>2 DEF Together
    <3>3. w \in Int /\ 0 \in Int
      BY <3>1 DEF w
    <3>4. Congruent((w % Full) + 0, w + 0) /\ Congruent(adu.rxR, adu.rxR)
      BY <3>1, <3>3, CongruentWrapped, CongruentSame
    <3>5. w % Full \in Int
      BY <3>3, SizesAre, ModRange
    <3>7. (w % Full) + 0 = w % Full /\ w + 0 = w
      BY <3>3, <3>5
    <3>8. Congruent(adu'.rxW, w) /\ adu'.rxW \in Int
      BY <1>2, <3>4, <3>5, <3>7 DEF w
    <3>6. Together(adu'.rxW, adu.rxR, adu.rxU + Transfer)
      BY <3>1, <3>2, <3>3, <3>4, <3>8, TogetherCongruent
    <3> QED
      BY <1>2, <1>4, <3>6 DEF Together
  <2>3. Together(Written, adu.txR, Filled) => Together(Written, adu.txR, Filled)'
    BY <2>1 DEF Together
  <2>4. /\ Filled \in Int /\ Drained \in Int /\ Transfer \in Int /\ FrameSize \in Int
    BY <1>1, <1>3 DEF StateInts, FrameSize, Frames
  <2>5. Filling => Filling'
    <3>1. \A d : Slipping(d) => Slipping(d)'
      BY <1>1, <1>2 DEF Slipping, clock
    <3>2. Drained = FrameSize + 0 => Drained' = FrameSize' + Transfer
      BY <2>1, <2>4
    <3> QED
      BY <1>2, <2>1, <2>2, <2>3, <3>1, <3>2 DEF Filling
  <2>6. Running => Running'
    <3>1. Filled + Drained = 3 * Transfer + 0 => Filled' + Drained' = 3 * Transfer + Transfer
      BY <2>1, <2>4
    <3>2. due' = due /\ pc' = pc
      BY <1>1
    <3> QED
      BY <1>2, <1>6, <2>1, <2>2, <2>3, <3>1, <3>2 DEF Running
  <2> QED
    BY <1>1, <1>4, <1>6, <2>5, <2>6 DEF InTune
<1> QED
  BY <1>2, <1>5, <1>6

\* By how much the exchanges of the next frame are off.
LEMMA NextDue ==
    ASSUME TypeInv, TypeInv', NextFrame
    PROVE  \E e \in {-1, 0, 1} :
             /\ DueSize' = Transfer + e * Block /\ due' = Beats + e
             /\ e = Slipped + early' - early
<1>1. due' = Beats + Slipped + early' - early /\ due' \in Beats - 1 .. Beats + 1
  BY NextFrameStep DEF TypeInv
<1>2. Beats \in Int /\ Slipped \in Int /\ early \in Int /\ early' \in Int
  BY AudioAssumption DEF TypeInv, ClockTyped, Slipped
<1>a. PICK p \in Int : p = early'
  BY <1>2
<1>b. PICK q \in Int : q = early
  BY <1>2
<1>c. PICK s \in Int : s = Slipped
  BY <1>2
<1>d. PICK n \in Beats - 1 .. Beats + 1 : n = due'
  BY <1>1
<1>e. n = Beats + s + p - q
  BY <1>1, <1>a, <1>b, <1>c, <1>d, Zenon
<1>3. s + p - q \in {-1, 0, 1} /\ n = Beats + (s + p - q)
  BY <1>2, <1>e
<1> DEFINE e == s + p - q
<1>4. e \in {-1, 0, 1} /\ due' = Beats + e /\ e = Slipped + early' - early
  BY <1>3, <1>a, <1>b, <1>c, <1>d, Zenon
<1> HIDE DEF e
<1>5. DueSize' = Transfer + e * Block
  BY <1>4, FrameDue DEF DueSize
<1> QED
  BY <1>4, <1>5, Zenon

\* Rings that are empty when a frame begins fill from there.
LEMMA EmptyFills ==
    ASSUME TypeInv, TypeInv', adu' = ResetBuffers, NextFrame, pc' = "idle",
           received' = FALSE, streams' > 0
    PROVE  InTune'
<1>1. /\ adu'.state = "init" /\ adu'.frame = 0 /\ adu'.offset = 0 /\ adu'.metrics = 0
      /\ adu'.count = 0 /\ adu'.txW = 0 /\ adu'.txR = 0 /\ adu'.txU = 0
      /\ adu'.rxW = 0 /\ adu'.rxR = 0 /\ adu'.rxU = 0
  BY DEF ResetBuffers
<1>2. /\ Written' = 0 /\ Filled' = 0 /\ Samples' = 0 /\ Read' = 0 /\ Drained' = 0 /\ Exact'
  BY <1>1, IdleNext
<1>3. FrameSize' = 0 /\ FromHost' = 0
  <2>1. FrameSize' = 0 * Transfer
    BY <1>1 DEF FrameSize
  <2> QED
    BY <2>1, SizesAre DEF FromHost
<1>4. Together(0, 0, 0)
  BY SizesAre DEF Together
<1>5. PICK e \in {-1, 0, 1} : DueSize' = Transfer + e * Block /\ e = Slipped + early' - early
  BY NextDue
<1>6. Slipping(e)'
  <2>1. /\ drift \in {-1, 0, 1} /\ early \in {0, drift} /\ early' \in {0, drift} /\ drift' = drift
        /\ calm' \in Int /\ Jitter \in Int
    BY NextFrameStep, AudioAssumption DEF TypeInv, ClockTyped
  <2>2. CASE calm = 1 /\ drift # 0
    <3>1. calm' > Jitter + 3 /\ early' = 0 /\ Slipped = drift
      BY <2>1, <2>2, NextFrameStep DEF TypeInv, Slipped
    <3>2. e = drift + 0 - early
      BY <1>5, <3>1, Zenon
    <3>3. drift \in {-1, 0, 1} /\ early \in {0, drift}
      BY <2>1
    <3>4. e \in {0, drift}
      BY <3>2, <3>3
    <3>5. PICK c \in Int : c = calm'
      BY <2>1
    <3>6. c + 0 = c
      OBVIOUS
    <3>7. calm' + 0 > Jitter + 3
      BY <3>1, <3>5, <3>6, Zenon
    <3>a. e \in {0, drift} /\ calm' + 0 > Jitter + 3
      BY <3>4, <3>7
    <3> QED
      BY <1>1, <2>1, <3>1, <3>2, <3>a DEF Slipping
  <2>3. CASE ~(calm = 1 /\ drift # 0)
    <3>1. Slipped = 0
      BY <2>3 DEF Slipped
    <3>2. e = 0 + early' - early
      BY <1>5, <3>1, Zenon
    <3>3. PICK p \in {0, drift} : p = early'
      BY <2>1
    <3>4. e = 0 + p - early
      BY <3>2, <3>3, Zenon
    <3>5. e = p \/ e = p - drift
      BY <2>1, <3>4
    <3>a. e = early' \/ e = early' - drift
      BY <3>3, <3>5, Zenon
    <3> QED
      BY <2>1, <3>a DEF Slipping
  <2> QED
    BY <2>2, <2>3
<1>7. 0 = 0 + 0 + 0 /\ 0 = 0 + 0 /\ 0 + DueSize' = 0 + Transfer + e * Block
  BY <1>5, SizesAre
<1>8. Filling'
  BY <1>1, <1>2, <1>3, <1>4, <1>5, <1>6, <1>7 DEF Filling
<1> QED
  BY <1>1, <1>2, <1>8 DEF InTune, Streaming

\* A transfer leaves the ring to the host.
LEMMA SentTogether ==
    ASSUME NEW a, Typed(a), Together(a.txW, a.txR, a.txU)
    PROVE  Together(a.txW, (a.txR + Transfer) % Full, a.txU - Transfer)
<1>1. /\ a.txW \in Int /\ a.txR \in Int /\ a.txU \in Int /\ Transfer \in Int
      /\ a.txR + Transfer \in Int /\ a.txU - Transfer \in Int
  BY Fields, SizesAre DEF Offsets, Places
<1> DEFINE r == a.txR + Transfer
<1>2. r \in Int /\ 0 \in Int
  BY <1>1
<1>3. Together(a.txW, r, a.txU - Transfer)
  <2>1. a.txW - r - (a.txU - Transfer) = a.txW - a.txR - a.txU
    BY <1>1
  <2> QED
    BY <2>1 DEF Together
<1> HIDE DEF r
<1>4. Congruent((r % Full) + 0, r + 0) /\ Congruent(a.txW, a.txW)
  BY <1>1, <1>2, CongruentWrapped, CongruentSame
<1>5. r % Full \in Int
  BY <1>2, SizesAre, ModRange
<1>6. Congruent(r % Full, r)
  <2>1. (r % Full) + 0 = r % Full /\ r + 0 = r
    BY <1>2, <1>5
  <2> QED
    BY <1>4, <2>1
<1>7. Together(a.txW, r % Full, a.txU - Transfer)
  BY <1>1, <1>2, <1>3, <1>4, <1>5, <1>6, TogetherCongruent
<1> QED
  BY <1>7 DEF r

\* A slip that shows while the rings fill does so once.
LEMMA SlippingOn ==
    ASSUME NEW dr \in {-1, 0, 1}, NEW c \in Nat \ {0}, NEW q \in {0, dr}, NEW k \in 0..1,
           NEW c1 \in Nat \ {0}, NEW p \in {0, dr}, NEW j \in Nat, NEW s \in Int,
           c # 1 /\ dr # 0 => c1 = c - 1, c = 1 /\ dr # 0 => c1 > j + 3, c1 > j => p = 0,
           s = IF c = 1 THEN dr ELSE 0, NEW d \in {-1, 0, 1},
           d = q \/ d = q - dr \/ (q = 0 /\ c + k > j + 3 /\ d \in {0, dr})
    PROVE  LET n == d + (s + p - q)
           IN  /\ n \in {-1, 0, 1}
               /\ n = p \/ n = p - dr \/ (p = 0 /\ c1 + (k + 1) > j + 3 /\ n \in {0, dr})
<1>1. CASE dr = 0
  BY <1>1
<1>2. CASE dr # 0 /\ c = 1
  BY <1>2
<1>3. CASE dr # 0 /\ c # 1
  <2>1. c1 = c - 1 /\ s = 0
    BY <1>3
  <2>2. CASE d = q
    BY <1>3, <2>1, <2>2
  <2>3. CASE d = q - dr
    BY <1>3, <2>1, <2>3
  <2>4. CASE q = 0 /\ c + k > j + 3 /\ d \in {0, dr}
    <3>1. c1 > j
      BY <2>1, <2>4
    <3>2. p = 0 /\ c1 + (k + 1) > j + 3
      BY <2>1, <2>4, <3>1
    <3> QED
      BY <2>1, <2>4, <3>2
  <2> QED
    BY <2>2, <2>3, <2>4
<1> QED
  BY <1>1, <1>2, <1>3

LEMMA ResetStays ==
    Sync(ResetBuffers) = ResetBuffers /\ FrameStarted(SendFrame(ResetBuffers)) = ResetBuffers
<1> DEFINE r == ResetBuffers
<1>1. r.state = "init" /\ r.txU = 0 /\ r.offset = 0 /\ r.count = 0 /\ Typed(r)
  BY ResetTyped DEF ResetBuffers
<1> HIDE DEF r
<1>2. 0 # Normal /\ ~Above(0, Normal)
  BY SizesAre DEF Above
<1>3. Sync(r) = r
  BY <1>1, <1>2 DEF Sync
<1>4. SendFrame(r) = r
  BY <1>1, SendFrameIs DEF Streaming
<1>5. FrameStarted(r) = r
  BY <1>1, FrameStartedIs
<1> QED
  BY <1>3, <1>4, <1>5 DEF r

LEMMA Ready ==
    ASSUME NEW a
    PROVE  InitiateTransmit(a) =
             IF FrameEnded(a).state = "needsReset" THEN ResetBuffers
             ELSE FrameStarted(SendFrame(Sync(FrameEnded(a))))
BY ResetStays DEF InitiateTransmit

\* Rings that are to be reset are when the next frame begins.
LEMMA ErrorResets ==
    ASSUME Typed(adu), adu.state = "needsReset"
    PROVE  InitiateTransmit(adu) = ResetBuffers
<1>1. Measured(adu).state = "needsReset"
  BY MeasuredIs
<1>2. FrameEnded(adu).state = "needsReset"
  BY <1>1 DEF FrameEnded, Streaming
<1> QED
  BY <1>2, Ready

\* The ends of the frames while the rings fill: the third has two transfers, and
\* the rings run, unless a slip has made it more or less.
LEMMA FillingOn ==
    ASSUME TypeInv, TypeInv', InTune, adu.state = "init", pc = "idle", due = 0, received,
           streams' > 0, pc' = "idle", received' = FALSE,
           adu' = InitiateTransmit(adu), NextFrame
    PROVE  InTune'
<1> DEFINE b == Measured(adu)
<1>1. Typed(adu) /\ StateInts /\ Filling
  BY Ints DEF InTune, TypeInv
<1>2. /\ Written = adu.txW /\ Filled = adu.txU /\ Samples = adu.count
      /\ Read = adu.rxR /\ Drained = adu.rxU
  BY IdleViews
<1>3. PICK d \in {-1, 0, 1} :
        Slipping(d) /\ Filled + DueSize = FrameSize + Transfer + d * Block
  BY <1>1 DEF Filling
<1>4. DueSize = 0 /\ FromHost = Transfer
  BY <1>1 DEF DueSize, FromHost, StateInts
<1>5. PICK k \in 0..2 : k = adu.frame
  BY <1>1 DEF Filling
<1>6. FrameSize = k * Transfer /\ FrameSize \in Nat
  <2>1. k * Transfer \in Nat
    BY SizesAre
  <2> QED
    BY <1>5, <2>1 DEF FrameSize
<1>7. /\ Typed(b) /\ FrameEnded(adu) = b /\ b.state = "init"
      /\ b.frame = k + 1 /\ b.metrics = Counted(adu) /\ b.offset = 0
      /\ b.txW = adu.txW /\ b.txR = adu.txR /\ b.txU = adu.txU
      /\ b.rxW = adu.rxW /\ b.rxR = adu.rxR /\ b.rxU = adu.rxU
  <2>1. (k + 1) % Period = k + 1 /\ k + 1 # 0
    BY AudioAssumption
  <2>2. /\ Typed(b) /\ b.frame = k + 1 /\ b.state = "init"
        /\ b.metrics = Counted(adu) /\ b.offset = 0
        /\ b.txW = adu.txW /\ b.txR = adu.txR /\ b.txU = adu.txU
        /\ b.rxW = adu.rxW /\ b.rxR = adu.rxR /\ b.rxU = adu.rxU
    BY <1>1, <1>5, <2>1, MeasuredIs DEF Filling
  <2> QED
    BY <2>2 DEF FrameEnded, Streaming
<1> HIDE DEF b
<1>8. PICK x \in {0 - Block, 0, Block} : x = d * Block /\ (x = 0 <=> d = 0) /\ (x > 0 => d = 1)
  BY SizesAre
<1>9. /\ b.txU = k * Transfer + Transfer + x /\ b.metrics = x
      /\ b.rxU = k * Transfer + Transfer
      /\ Together(b.txW, b.txR, b.txU) /\ Together(b.rxW, b.rxR, b.rxU)
  <2>1. /\ adu.txU = adu.metrics + adu.count + FrameSize /\ adu.rxU = FrameSize + Transfer
        /\ adu.txU + 0 = FrameSize + Transfer + x
        /\ Together(adu.txW, adu.txR, adu.txU) /\ Together(adu.rxW, adu.rxR, adu.rxU)
    BY <1>1, <1>2, <1>3, <1>4, <1>8 DEF Filling
  <2>2. adu.txU = FrameSize + Transfer + x /\ adu.metrics + adu.count - Transfer = x
    BY <1>1, <1>6, <1>8, <2>1, SizesAre DEF StateInts
  <2> QED
    BY <1>6, <1>7, <2>1, <2>2 DEF Counted
<1>10. adu' = FrameStarted(SendFrame(Sync(b)))
  BY <1>7, Ready
<1>11. PICK e \in {-1, 0, 1} : DueSize' = Transfer + e * Block /\ e = Slipped + early' - early
  BY NextDue
<1>12. CASE b.txU # Normal /\ ~Above(b.txU, Normal)
  <2>1. k \in 0..1
    BY <1>8, <1>9, <1>12, SizesAre DEF Above
  <2>2. SendFrame(b) = b /\ Sync(b) = b
    BY <1>7, <1>12, SendFrameIs DEF Sync, Streaming
  <2>3. /\ adu'.state = "init" /\ adu'.offset = 0 /\ adu'.count = 0
        /\ adu'.frame = k + 1 /\ adu'.metrics = x
        /\ adu'.txW = b.txW /\ adu'.txR = b.txR /\ adu'.txU = b.txU
        /\ adu'.rxW = b.rxW /\ adu'.rxR = b.rxR /\ adu'.rxU = b.rxU
    BY <1>7, <1>9, <1>10, <2>2, FrameStartedIs
  <2>4. /\ Written' = adu'.txW /\ Filled' = adu'.txU /\ Samples' = adu'.count
        /\ Read' = adu'.rxR /\ Drained' = adu'.rxU /\ Exact'
    BY IdleNext
  <2>5. FrameSize' = k * Transfer + Transfer /\ FromHost' = 0
    <3>1. (k + 1) * Transfer = k * Transfer + Transfer
      BY <2>1, SizesAre
    <3> QED
      BY <2>3, <3>1 DEF FrameSize, FromHost
  <2>6. /\ drift \in {-1, 0, 1} /\ calm \in Nat \ {0} /\ early \in {0, drift}
        /\ early' \in {0, drift} /\ drift' = drift /\ calm' \in Nat \ {0} /\ Jitter \in Nat
    BY NextFrameStep, AudioAssumption DEF TypeInv, ClockTyped
  <2>7. PICK p \in {0, drift} : p = early'
    BY <2>6
  <2>8. PICK c \in Nat \ {0} : c = calm'
    BY <2>6
  <2>9. PICK n \in {-1, 0, 1} :
          /\ n = d + (Slipped + p - early)
          /\ \/ n = p \/ n = p - drift
             \/ p = 0 /\ c + (k + 1) > Jitter + 3 /\ n \in {0, drift}
    <3>1. /\ calm # 1 /\ drift # 0 => c = calm - 1
          /\ calm = 1 /\ drift # 0 => c > Jitter + 3
          /\ c > Jitter => p = 0
      BY <2>7, <2>8, NextFrameStep, Zenon DEF TypeInv
    <3>2. d = early \/ d = early - drift \/ (early = 0 /\ calm + k > Jitter + 3 /\ d \in {0, drift})
      BY <1>3, <1>5 DEF Slipping
    <3>3. Slipped \in Int /\ Slipped = IF calm = 1 THEN drift ELSE 0
      BY <2>6 DEF Slipped
    <3> DEFINE n == d + (Slipped + p - early)
    <3>4. /\ n \in {-1, 0, 1}
          /\ \/ n = p \/ n = p - drift
             \/ p = 0 /\ c + (k + 1) > Jitter + 3 /\ n \in {0, drift}
      BY <2>1, <2>6, <3>1, <3>2, <3>3, SlippingOn
    <3> QED
      BY <3>4, Zenon
  <2>10. Slipping(n)'
    BY <2>3, <2>6, <2>7, <2>8, <2>9, Zenon DEF Slipping
  <2>11. n = d + e
    BY <1>11, <2>7, <2>9, Zenon
  <2>12. b.txU + (Transfer + e * Block) = (k * Transfer + Transfer) + Transfer + n * Block
    <3>1. n * Block = x + e * Block
      BY <1>8, <1>11, <2>11, SizesAre
    <3> QED
      BY <1>6, <1>8, <1>9, <1>11, <3>1, SizesAre
  <2>13. /\ b.txU = x + 0 + (k * Transfer + Transfer)
         /\ b.rxU = (k * Transfer + Transfer) + 0
    BY <1>6, <1>8, <1>9, SizesAre
  <2>14. Filled' + DueSize' = FrameSize' + Transfer + n * Block
    BY <1>11, <2>3, <2>4, <2>5, <2>12, Zenon
  <2>15. Filled' = adu'.metrics + Samples' + FrameSize' /\ Drained' = FrameSize' + FromHost'
    BY <2>3, <2>4, <2>5, <2>13, Zenon
  <2>16. Together(Written', adu'.txR, Filled') /\ Together(adu'.rxW, Read', Drained')
    BY <1>9, <2>3, <2>4, Zenon
  <2>17. adu'.frame \in 0..2 /\ adu'.offset = 0
    BY <2>1, <2>3
  <2>18. Filling'
    BY <2>9, <2>10, <2>14, <2>15, <2>16, <2>17 DEF Filling
  <2> QED
    BY <2>3, <2>4, <2>18 DEF InTune, Streaming
<1>13. CASE Above(b.txU, Normal)
  <2>1. b.txU # Normal
    BY <1>7, <1>13, SizesAre, Fields DEF Above
  <2>2. Sync(b) = ResetBuffers
    BY <1>7, <1>13, <2>1 DEF Sync
  <2>3. adu' = ResetBuffers
    BY <1>10, <2>2, ResetStays
  <2> QED
    BY <2>3, EmptyFills, Zenon
<1>14. CASE b.txU = Normal
  <2>1. x = 0 /\ k * Transfer + Transfer = 2 * Transfer
    BY <1>8, <1>9, <1>14, SizesAre
  <2>2. b.rxU = 2 * Transfer /\ b.metrics = 0 /\ b.txU = 2 * Transfer
    BY <1>8, <1>9, <1>14, <2>1, SizesAre
  <2> DEFINE s == Sync(b)
             t == SendFrame(s)
  <2>3. /\ Typed(s) /\ s.state = "normal" /\ s.offset = 0 /\ s.metrics = 0
        /\ s.txW = b.txW /\ s.txR = b.txR /\ s.txU = 2 * Transfer
        /\ s.rxW = b.rxW /\ s.rxR = b.rxR /\ s.rxU = 2 * Transfer
    <3>1. ~Below(b.rxU, 2 * Transfer)
      BY <2>2, SizesAre DEF Below
    <3>2. s = [b EXCEPT !.state = "normal", !.rxU = 2 * Transfer, !.rxR = b.rxR]
      BY <1>7, <1>14, <2>2, <3>1 DEF Sync, Typed, Adu
    <3>3. Typed(s) /\ b \in Adu
      BY <1>7, SyncTyped DEF Typed
    <3> HIDE DEF s
    <3> QED
      BY <1>7, <2>2, <3>2, <3>3 DEF Adu
  <2> HIDE DEF s
  <2>4. /\ Typed(t) /\ t.state = "normal" /\ t.offset = 0 /\ t.metrics = 0
        /\ t.txW = b.txW /\ t.txR = (b.txR + Transfer) % Full /\ t.txU = Transfer
        /\ t.rxW = b.rxW /\ t.rxR = b.rxR /\ t.rxU = 2 * Transfer
    <3>1. ~Below(2 * Transfer, Transfer) /\ 2 * Transfer - Transfer = Transfer
      BY SizesAre DEF Below
    <3> QED
      BY <2>3, <3>1, SendFrameIs DEF Streaming
  <2> HIDE DEF t
  <2>5. /\ adu'.state = "normal" /\ adu'.offset = 0 /\ adu'.metrics = 0 /\ adu'.count = 0
        /\ adu'.txW = b.txW /\ adu'.txR = (b.txR + Transfer) % Full /\ adu'.txU = Transfer
        /\ adu'.rxW = b.rxW /\ adu'.rxR = b.rxR /\ adu'.rxU = 2 * Transfer
    BY <1>10, <2>4, FrameStartedIs DEF s, t
  <2>6. /\ Written' = adu'.txW /\ Filled' = adu'.txU /\ Samples' = adu'.count
        /\ Read' = adu'.rxR /\ Drained' = adu'.rxU /\ Left' = 0 - Extra' /\ Exact'
    BY IdleNext
  <2>7. Left' = 0 /\ FromHost' = 0
    <3>1. Extra' = 0 /\ 0 - 0 = 0
      BY <2>5 DEF Extra
    <3> QED
      BY <2>6, <3>1, Zenon DEF FromHost
  <2>8. Together(b.txW, (b.txR + Transfer) % Full, Transfer)
    <3>1. Together(b.txW, (b.txR + Transfer) % Full, b.txU - Transfer)
      BY <1>7, <1>9, SentTogether
    <3>2. b.txU - Transfer = Transfer
      BY <2>2, SizesAre
    <3> QED
      BY <3>1, <3>2
  <2>9. /\ Together(Written', adu'.txR, Filled') /\ Together(adu'.rxW, Read', Drained')
    BY <1>9, <2>2, <2>5, <2>6, <2>8, Zenon
  <2>10. Transfer + 2 * Transfer = 3 * Transfer + 0 /\ Transfer = Transfer + 0 + 0 + 0 + 0
    BY SizesAre
  <2>11. Filled' + Drained' = 3 * Transfer + FromHost'
    BY <2>5, <2>6, <2>7, <2>10, Zenon
  <2>12. Filled' = Transfer + Samples' + adu'.offset + adu'.metrics + Left'
    BY <2>5, <2>6, <2>7, <2>10, Zenon
  <2>13. Running'
    BY <2>5, <2>9, <2>11, <2>12 DEF Running, Turning
  <2> QED
    BY <2>5, <2>6, <2>13 DEF InTune, Streaming
<1> QED
  BY <1>12, <1>13, <1>14

\* The end of a frame while the rings run: what the frame has had too much of is
\* owed, or, when sizes and offsets do not agree, the rings are reset.
LEMMA RunningOn ==
    ASSUME TypeInv, TypeInv', InTune, adu.state \in Streaming, pc = "idle", due = 0, received,
           streams' > 0, pc' = "idle", received' = FALSE,
           adu' = InitiateTransmit(adu), NextFrame
    PROVE  InTune'
<1> DEFINE b == Measured(adu)
           c == SendFrame(b)
<1>1. Typed(adu) /\ StateInts /\ Running
  BY Ints DEF InTune, TypeInv
<1>2. /\ Written = adu.txW /\ Filled = adu.txU /\ Samples = adu.count
      /\ Read = adu.rxR /\ Drained = adu.rxU /\ Left = 0 - Extra
  BY IdleViews
<1>3. adu.state = "normal" /\ Left = 0
  <2>1. adu.state = "normal"
    BY <1>1 DEF Running, Streaming, Turning, StateInts
  <2>2. Extra = 0 /\ 0 - 0 = 0
    BY <2>1 DEF Extra
  <2> QED
    BY <1>2, <2>1, <2>2
<1>4. /\ Typed(b) /\ b.state = "normal" /\ b.offset \in Int /\ b.metrics \in Int
      /\ b.offset + b.metrics = adu.offset + adu.metrics + adu.count - Transfer
      /\ b.txW = adu.txW /\ b.txR = adu.txR /\ b.txU = adu.txU
      /\ b.rxW = adu.rxW /\ b.rxR = adu.rxR /\ b.rxU = adu.rxU
  <2>1. /\ Typed(b)
        /\ b.metrics = IF b.frame = 0 THEN 0 ELSE Counted(adu)
        /\ b.offset = IF b.frame = 0 THEN adu.offset + Counted(adu) ELSE adu.offset
        /\ b.state = adu.state
        /\ b.txW = adu.txW /\ b.txR = adu.txR /\ b.txU = adu.txU
        /\ b.rxW = adu.rxW /\ b.rxR = adu.rxR /\ b.rxU = adu.rxU
    BY <1>1, MeasuredIs
  <2> HIDE DEF b
  <2>2. b.offset + b.metrics = adu.offset + adu.metrics + adu.count - Transfer
    <3>1. CASE b.frame = 0
      BY <1>1, <2>1, <3>1 DEF Counted, StateInts
    <3>2. CASE b.frame # 0
      BY <1>1, <2>1, <3>2 DEF Counted, StateInts
    <3> QED
      BY <3>1, <3>2
  <2> QED
    BY <1>3, <2>1, <2>2, Fields
<1> HIDE DEF b
<1>5. /\ b.txU + b.rxU = 4 * Transfer /\ b.txU = 2 * Transfer + (b.offset + b.metrics)
      /\ Together(b.txW, b.txR, b.txU) /\ Together(b.rxW, b.rxR, b.rxU)
  <2>1. FromHost = Transfer
    BY DEF FromHost
  <2>2. /\ adu.txU + adu.rxU = 3 * Transfer + Transfer
        /\ adu.txU = Transfer + adu.count + adu.offset + adu.metrics + 0
        /\ Together(adu.txW, adu.txR, adu.txU) /\ Together(adu.rxW, adu.rxR, adu.rxU)
    BY <1>1, <1>2, <1>3, <2>1 DEF Running
  <2>3. adu.txU = 2 * Transfer + (adu.offset + adu.metrics + adu.count - Transfer)
    BY <1>1, <2>2 DEF StateInts
  <2>4. 3 * Transfer + Transfer = 4 * Transfer
    BY SizesAre
  <2> QED
    BY <1>4, <2>2, <2>3, <2>4
<1>6. CASE FrameEnded(adu).state = "needsReset"
  <2>1. adu' = ResetBuffers
    BY <1>6, Ready
  <2> QED
    BY <2>1, EmptyFills, Zenon
<1>7. CASE FrameEnded(adu).state # "needsReset"
  <2>1. FrameEnded(adu) = b
    <3>1. FrameEnded(adu) = HandleError(b) \/ FrameEnded(adu) = b
      BY DEF FrameEnded, b
    <3>2. HandleError(b).state = "needsReset"
      BY <1>4 DEF HandleError, Typed, Adu
    <3> QED
      BY <1>7, <3>1, <3>2
  <2>2. Sync(b) = b
    BY <1>4 DEF Sync
  <2>3. adu' = FrameStarted(c)
    BY <1>7, <2>1, <2>2, Ready
  <2>4. /\ Typed(c) /\ c.txR = (b.txR + Transfer) % Full /\ c.txU = b.txU - Transfer
        /\ c.state \in {"normal", "needsReset"}
        /\ c.offset = b.offset /\ c.metrics = b.metrics
        /\ c.txW = b.txW /\ c.rxW = b.rxW /\ c.rxR = b.rxR /\ c.rxU = b.rxU
    BY <1>4, SendFrameIs DEF Streaming
  <2> HIDE DEF c
  <2>5. /\ adu'.count = 0 /\ adu'.metrics = b.metrics
        /\ \/ adu'.offset = b.offset /\ adu'.state = c.state
           \/ adu'.offset = b.offset - 1 /\ adu'.state = "remove"
           \/ adu'.offset = b.offset + 1 /\ adu'.state = "duplicate"
        /\ adu'.txW = b.txW /\ adu'.txR = (b.txR + Transfer) % Full
        /\ adu'.txU = b.txU - Transfer
        /\ adu'.rxW = b.rxW /\ adu'.rxR = b.rxR /\ adu'.rxU = b.rxU
    BY <2>3, <2>4, FrameStartedIs
  <2>6. /\ Written' = adu'.txW /\ Filled' = adu'.txU /\ Samples' = adu'.count
        /\ Read' = adu'.rxR /\ Drained' = adu'.rxU /\ Left' = 0 - Extra' /\ Exact'
    BY IdleNext
  <2>7. CASE adu'.state = "needsReset"
    BY <2>6, <2>7 DEF InTune, Streaming
  <2>8. CASE adu'.state # "needsReset"
    <3>1. PICK o \in Int : o = adu'.offset
      BY <1>4, <2>5
    <3>2. PICK l \in Int : l = Left' /\ o + l = b.offset
      <4>1. CASE adu'.offset = b.offset /\ adu'.state = c.state
        <5>1. Extra' = 0 /\ 0 - 0 = 0
          BY <2>4, <2>8, <4>1 DEF Extra
        <5>2. b.offset + 0 = b.offset
          BY <1>4
        <5> QED
          BY <2>6, <3>1, <4>1, <5>1, <5>2
      <4>2. CASE adu'.offset = b.offset - 1 /\ adu'.state = "remove"
        <5>1. Extra' = -1 /\ 0 - (-1) = 1
          BY <4>2 DEF Extra
        <5>2. (b.offset - 1) + 1 = b.offset
          BY <1>4
        <5>3. Left' = 1
          BY <2>6, <5>1
        <5> QED
          BY <3>1, <4>2, <5>2, <5>3
      <4>3. CASE adu'.offset = b.offset + 1 /\ adu'.state = "duplicate"
        <5>1. Extra' = 1 /\ 0 - 1 = -1
          BY <4>3 DEF Extra
        <5>2. (b.offset + 1) + (-1) = b.offset /\ -1 \in Int
          BY <1>4
        <5>3. Left' = -1
          BY <2>6, <5>1
        <5> QED
          BY <3>1, <4>3, <5>2, <5>3
      <4> QED
        BY <2>5, <4>1, <4>2, <4>3
    <3>3. b.txU \in Int /\ b.rxU \in Int /\ Transfer \in Int
      BY <1>4, Fields, SizesAre
    <3>4. (b.txU - Transfer) + b.rxU = 3 * Transfer + 0
      BY <1>5, <3>3
    <3>5. b.txU - Transfer = Transfer + 0 + o + b.metrics + l
      BY <1>4, <1>5, <3>2, <3>3
    <3>6. FromHost' = 0
      BY DEF FromHost
    <3>7. Filled' + Drained' = 3 * Transfer + FromHost'
      BY <2>5, <2>6, <3>4, <3>6, Zenon
    <3>8. Filled' = Transfer + Samples' + adu'.offset + adu'.metrics + Left'
      BY <2>5, <2>6, <3>1, <3>2, <3>5, Zenon
    <3>9. Together(b.txW, (b.txR + Transfer) % Full, b.txU - Transfer)
      BY <1>4, <1>5, SentTogether
    <3>10. Together(Written', adu'.txR, Filled') /\ Together(adu'.rxW, Read', Drained')
      BY <1>5, <2>5, <2>6, <3>9, Zenon
    <3>11. due' > 0
      <4>1. due' \in Beats - 1 .. Beats + 1
        BY NextFrameStep DEF TypeInv
      <4>2. PICK n \in Beats - 1 .. Beats + 1 : n = due'
        BY <4>1
      <4>3. n > 0
        BY AudioAssumption
      <4> QED
        BY <4>2, <4>3
    <3>12. Running'
      BY <3>7, <3>8, <3>10, <3>11 DEF Running
    <3>13. adu'.state # "init"
      BY <2>4, <2>5
    <3> QED
      BY <2>6, <3>12, <3>13 DEF InTune
  <2> QED
    BY <2>7, <2>8
<1> QED
  BY <1>6, <1>7

\* The end of a frame: also when the rings have been disturbed, they start again.
LEMMA TransmittedInTune ==
    ASSUME TypeInv, TypeInv', Undisturbed, Transmitted
    PROVE  Undisturbed'
<1> SUFFICES ASSUME clean' PROVE InTune'
  BY DEF Undisturbed
<1>1. Typed(adu) /\ StateInts /\ received' = FALSE /\ UNCHANGED <<streams, pc>>
  BY Ints DEF TypeInv, Transmitted
<1>2. ~Trouble
  BY DEF Trouble
<1>3. CASE streams > 0 /\ due = 0 /\ received /\ adu' = InitiateTransmit(adu) /\ NextFrame
           /\ Interrupts(adu' = ResetBuffers)
  <2>1. pc = "idle" /\ pc' = "idle" /\ streams' > 0 /\ (clean \/ adu' = ResetBuffers)
    BY <1>1, <1>2, <1>3, Zenon DEF Interrupts
  <2>2. CASE adu' = ResetBuffers
    BY <1>1, <1>3, <2>1, <2>2, EmptyFills, Zenon
  <2>3. CASE clean
    <3>1. InTune
      BY <2>3 DEF Undisturbed
    <3>2. CASE adu.state = "needsReset"
      <4>1. adu' = ResetBuffers
        BY <1>1, <1>3, <3>2, ErrorResets
      <4> QED
        BY <2>2, <4>1
    <3>3. CASE adu.state = "init"
      BY <1>1, <1>3, <2>1, <3>1, <3>3, FillingOn, Zenon
    <3>4. CASE adu.state \in Streaming
      BY <1>1, <1>3, <2>1, <3>1, <3>4, RunningOn, Zenon
    <3>5. adu.state \in Streaming \cup {"needsReset", "init"}
      BY <1>1 DEF StateInts, States
    <3> QED
      BY <3>2, <3>3, <3>4, <3>5
  <2> QED
    BY <2>1, <2>2, <2>3
<1>4. CASE streams = 0 /\ Interrupts(FALSE)
  <2>1. clean
    BY <1>2, <1>4, Zenon DEF Interrupts
  <2>2. streams > 0
    BY <2>1 DEF Undisturbed, InTune
  <2> QED
    BY <1>4, <2>2
<1> QED
  BY <1>3, <1>4 DEF Transmitted

LEMMA UndisturbedNext ==
    ASSUME TypeInv, TypeInv', Undisturbed, Next
    PROVE  Undisturbed'
<1>1. CASE DataExchange
  <2>1. clean' = clean
    BY <1>1
    DEF DataExchange, Begin, MoveDataToTX, CountFrame, MoveDataFromRX, ReadOn, Adjust, Settle,
        Test, Load, Store, Exchange
  <2> QED
    BY <1>1, <2>1, ExchangeInTune DEF Undisturbed
<1>2. CASE Received
  <2> SUFFICES ASSUME clean' PROVE InTune'
    BY DEF Undisturbed
  <2>1. pc = "idle" /\ clean
    BY <1>2, Zenon DEF Received, Interrupts, Trouble
  <2> QED
    BY <1>2, <2>1, ReceivedInTune DEF Undisturbed
<1>3. CASE Transmitted
  BY <1>3, TransmittedInTune
<1>4. CASE \E now \in 0..2 : Switch(now)
  BY <1>4 DEF Switch, Trouble, Undisturbed
<1>5. CASE Overload
  BY <1>5 DEF Overload, Trouble, Undisturbed
<1> QED
  BY <1>1, <1>2, <1>3, <1>4, <1>5 DEF Next

AudioInv == TypeInv /\ Undisturbed

LEMMA AudioInvariant == Spec => []AudioInv
<1>1. Init => AudioInv
  BY TypeInit DEF Init, Undisturbed, AudioInv
<1>2. AudioInv /\ TypeInv' /\ [Next]_vars => AudioInv'
  <2>1. AudioInv /\ TypeInv' /\ Next => AudioInv'
    BY UndisturbedNext DEF AudioInv
  <2>2. AudioInv /\ TypeInv' /\ UNCHANGED vars => AudioInv'
    BY DEF vars, clock, AudioInv, Undisturbed, InTune, Exact, Filling, Running, Slipping,
           Together, Written, Filled, Samples, Read, Drained, Left, ToWrite, ToFill, ToCount,
           ToRead, ToDrain, Extra, Rest, More, Plan, DueSize, FrameSize, FromHost
  <2> QED
    BY <2>1, <2>2
<1> QED
  BY TypeInvariant, <1>1, <1>2, PTL DEF Spec

LEMMA InTuneInStep == AudioInv => InStep
<1> SUFFICES ASSUME AudioInv, clean, pc = "idle", adu.state \in Streaming
             PROVE  /\ Consistent(adu)
                    /\ adu.txU + adu.rxU + (IF received THEN 0 ELSE Transfer) = Normal + 2 * Transfer
                    /\ adu.txU = Normal - Transfer + adu.count + Owed(adu)
  BY DEF InStep
<1>1. StateInts /\ Running /\ TypeInv
  BY Ints DEF AudioInv, Undisturbed, InTune
<1>2. /\ Written = adu.txW /\ Filled = adu.txU /\ Samples = adu.count
      /\ Read = adu.rxR /\ Drained = adu.rxU /\ Left = 0 - Extra
  BY <1>1, IdleViews
<1>3. Consistent(adu)
  BY <1>1, <1>2 DEF Running, Together, Consistent
<1>4. adu.txU + adu.rxU + (IF received THEN 0 ELSE Transfer) = Normal + 2 * Transfer
  <2>1. adu.txU + adu.rxU = 3 * Transfer + FromHost
    BY <1>1, <1>2 DEF Running
  <2>2. FromHost + (IF received THEN 0 ELSE Transfer) = Transfer /\ FromHost \in Int
    BY SizesAre DEF FromHost
  <2> QED
    BY <1>1, <2>1, <2>2, SizesAre DEF StateInts
<1>5. adu.txU = Normal - Transfer + adu.count + Owed(adu)
  <2>1. adu.txU = Transfer + adu.count + adu.offset + adu.metrics + Left
    BY <1>1, <1>2 DEF Running
  <2>2. Owed(adu) = adu.offset + adu.metrics + Left /\ Left \in Int
    BY <1>2 DEF Owed, Extra
  <2> QED
    BY <1>1, <2>1, <2>2, SizesAre DEF StateInts
<1> QED
  BY <1>3, <1>4, <1>5

(* However the clocks run, and however many frames lie between their slips *)
(* as long as these are more than the rings take to fill: rings that run   *)
(* undisturbed are in step (audio_usb.c:703-851, 858-957, 1112-1210).      *)
THEOREM RingsInStep == Spec => []InStep
BY AudioInvariant, InTuneInStep, PTL
-----------------------------------------------------------------------------
(* Rings that keep up go on.  An exchange under way is the last of those   *)
(* that the level at its beginning has counted.                            *)

Bounded == Filled + DueSize \in Transfer + Block + Extra .. 3 * Transfer - 1 + Extra

Going ==
    clean /\ pc # "idle" /\ adu.state \in Streaming
      => /\ pc \notin {"txError", "rxError"} /\ due <= Beats
         /\ pc = "rxCheck" => len = Block
         /\ Bounded

LEMMA DueBound ==
    ASSUME TypeInv, due <= Beats
    PROVE  DueSize \in 0..Transfer
<1>1. Beats \in Nat /\ due \in 0..Beats /\ Block \in Nat
  BY AudioAssumption DEF TypeInv, OthersTyped
<1>2. due * Block <= Beats * Block /\ due * Block \in Nat
  BY <1>1, TimesGrows
<1> QED
  BY <1>2, SizesAre DEF DueSize

\* While an exchange is under way there is room for it in the one ring, and
\* enough in the other.
LEMMA RoomEnough ==
    ASSUME AudioInv, Going, clean, pc # "idle", adu.state \in Streaming
    PROVE  /\ pc = "txCheck" => ~Above(adu.txU + len, Full)
           /\ pc = "rxCheck" => ~Below(adu.rxU, Block)
<1>1. /\ TypeInv /\ StateInts /\ Exact /\ Running /\ Bounded /\ due <= Beats
      /\ pc = "rxCheck" => len = Block
  BY Ints DEF AudioInv, Undisturbed, InTune, Going, Streaming
<1>2. /\ Extra \in {-1, 0, 1} /\ Filled \in Int /\ Drained \in Int /\ Rest \in {0, Block}
  BY <1>1, ViewInts
<1>3. DueSize \in 0..Transfer
  BY <1>1, DueBound
<1>4. Filled >= Block + Extra /\ Filled <= 3 * Transfer - 1 + Extra
  BY <1>1, <1>2, <1>3, SizesAre DEF Bounded
<1>5. ASSUME pc = "txCheck" PROVE ~Above(adu.txU + len, Full)
  <2>1. Filled = adu.txU + (len + Rest)
    BY <1>5 DEF Filled, ToFill, TxFirst
  <2>2. adu.txU + len = Filled - Rest
    BY <1>1, <1>2, <2>1 DEF StateInts
  <2>3. CASE len = 1
    <3>1. adu.state = "duplicate"
      BY <1>1, <1>5, <2>3, SizesAre DEF Exact, TxFirst, Turning
    <3>2. Extra = 1
      BY <3>1 DEF Extra
    <3> QED
      BY <1>2, <1>4, <2>2, <3>2, SizesAre DEF Above
  <2>4. CASE len # 1
    <3>1. Rest = 0
      BY <2>4 DEF Rest
    <3> QED
      BY <1>2, <1>4, <2>2, <3>1, SizesAre DEF Above
  <2> QED
    BY <2>3, <2>4
<1>6. ASSUME pc = "rxCheck" PROVE ~Below(adu.rxU, Block)
  <2>1. Drained = adu.rxU - (Block + Extra)
    <3>1. More = Extra
      BY <1>1, <1>6 DEF More
    <3> QED
      BY <1>1, <1>6, <3>1 DEF Drained, ToDrain, RxFirst, RxLast, Before, TxFirst, TxLast
  <2>2. Filled + Drained = 3 * Transfer + FromHost /\ FromHost \in Nat
    BY <1>1, SizesAre DEF Running, FromHost
  <2>3. adu.rxU = Drained + Block + Extra
    BY <1>1, <1>2, <2>1 DEF StateInts
  <2>4. adu.rxU >= Block
    BY <1>1, <1>2, <1>3, <2>2, <2>3, SizesAre DEF Bounded
  <2> QED
    BY <1>1, <2>4 DEF Below, StateInts
<1> QED
  BY <1>5, <1>6

LEMMA BeginGoing ==
    ASSUME TypeInv, TypeInv', KeepsUp, clean, adu.state \in Streaming, Begin
    PROVE  due' <= Beats /\ pc' = "txCheck" /\ Bounded'
<1>1. StateInts /\ Extra \in {-1, 0, 1} /\ due \in 0..Beats + 1 /\ due' = due - 1
  BY Ints, ViewInts DEF Begin, TypeInv, OthersTyped
<1>2. /\ pc = "idle" /\ pc' = "txCheck" /\ adu' = adu
      /\ Filled' = Filled + Block + Extra /\ DueSize' = DueSize - Block
  BY BeginMoves
<1>3. Filled = adu.txU /\ DueSize \in Int
  <2>1. DueSize \in Int
    BY <1>1 DEF DueSize, StateInts
  <2> QED
    BY <1>2, <2>1, IdleViews
<1>4. adu.txU + DueSize \in 2 * Transfer - (Transfer - Block) .. 2 * Transfer + Transfer - 1
  BY <1>2, SizesAre DEF KeepsUp, InReach, Level, DueSize
<1>5. Extra' = Extra
  BY <1>2 DEF Extra
<1>6. Filled' + DueSize' \in Transfer + Block + Extra .. 3 * Transfer - 1 + Extra
  <2>1. (adu.txU + Block + Extra) + (DueSize - Block) \in
          Transfer + Block + Extra .. 3 * Transfer - 1 + Extra
    BY <1>1, <1>3, <1>4, SizesAre DEF StateInts
  <2> QED
    BY <1>2, <1>3, <2>1
<1>7. due' <= Beats
  <2>1. due - 1 <= Beats
    BY <1>1, AudioAssumption
  <2> QED
    BY <1>1, <2>1
<1> QED
  BY <1>2, <1>5, <1>6, <1>7 DEF Bounded

\* What a step of an exchange may do to the state.
LEMMA ExchangeStates ==
    ASSUME TypeInv, DataExchange, ~Begin
    PROVE  /\ pc # "idle" /\ clean' = clean /\ due' = due /\ received' = received
           /\ UNCHANGED clock
           /\ \/ adu'.state = adu.state
              \/ pc \in {"txError", "rxError"} /\ adu'.state = "needsReset"
              \/ pc = "settled" /\ adu'.state = "normal" /\ pc' = "idle"
           /\ pc' = "rxCheck" => len' = Block
           /\ pc' = "txError" => pc = "txCheck" /\ Above(adu.txU + len, Full)
           /\ pc' = "rxError" => pc = "rxCheck" /\ Below(adu.rxU, Block)
<1>1. /\ pc # "idle" /\ clean' = clean /\ due' = due /\ received' = received
      /\ UNCHANGED clock
  BY DEF DataExchange, MoveDataToTX, CountFrame, MoveDataFromRX, ReadOn, Adjust, Settle, Test,
         Load, Store, Exchange
<1>2. \/ adu' = adu
      \/ pc \in {"txError", "rxError"} /\ adu' = [adu EXCEPT !.state = "needsReset"]
      \/ pc = "settled" /\ pc' = "idle" /\ adu' = [adu EXCEPT !.state = "normal"]
      \/ adu' \in {[adu EXCEPT !.txW = (reg + len) % Full], [adu EXCEPT !.txU = reg + len],
                   [adu EXCEPT !.count = reg + Block],
                   [adu EXCEPT !.rxR = (reg + len) % Full], [adu EXCEPT !.rxU = reg - len]}
  BY DEF DataExchange, MoveDataToTX, CountFrame, MoveDataFromRX, ReadOn, Adjust, Settle, Test,
         Load, Store, Exchange
<1>3. adu \in Adu
  BY DEF TypeInv, Typed
<1>4. \/ adu'.state = adu.state
      \/ pc \in {"txError", "rxError"} /\ adu'.state = "needsReset"
      \/ pc = "settled" /\ adu'.state = "normal" /\ pc' = "idle"
  BY <1>2, <1>3 DEF Adu
<1>5. /\ pc' = "rxCheck" => len' = Block
      /\ pc' = "txError" => pc = "txCheck" /\ Above(adu.txU + len, Full)
      /\ pc' = "rxError" => pc = "rxCheck" /\ Below(adu.rxU, Block)
  BY DEF DataExchange, MoveDataToTX, CountFrame, MoveDataFromRX, ReadOn, Adjust, Settle, Test,
         Load, Store, Exchange
<1> QED
  BY <1>1, <1>4, <1>5

LEMMA GoingNext ==
    ASSUME AudioInv, AudioInv', KeepsUp, Going, Next
    PROVE  Going'
<1>0. TypeInv /\ TypeInv'
  BY DEF AudioInv
<1> SUFFICES ASSUME clean', pc' # "idle", adu'.state \in Streaming
             PROVE  /\ pc' \notin {"txError", "rxError"} /\ due' <= Beats
                    /\ pc' = "rxCheck" => len' = Block
                    /\ Bounded'
  BY DEF Going
<1>1. CASE Begin
  <2>1. clean /\ adu' = adu
    BY <1>1 DEF Begin, Exchange
  <2> QED
    BY <1>0, <1>1, <2>1, BeginGoing
<1>2. CASE DataExchange /\ ~Begin
  <2>1. /\ pc # "idle" /\ clean /\ due' = due /\ received' = received
        /\ UNCHANGED clock
        /\ adu'.state = adu.state
        /\ pc' = "rxCheck" => len' = Block
        /\ pc' = "txError" => pc = "txCheck" /\ Above(adu.txU + len, Full)
        /\ pc' = "rxError" => pc = "rxCheck" /\ Below(adu.rxU, Block)
    BY <1>0, <1>2, ExchangeStates DEF Streaming
  <2>2. pc' \notin {"txError", "rxError"}
    BY <2>1, RoomEnough
  <2>3. Exact /\ (pc = "settled" => adu.state \in Turning) /\ due <= Beats /\ Bounded
    BY <2>1 DEF AudioInv, Undisturbed, InTune, Going, Streaming
  <2>4. Kept
    BY <1>0, <1>2, <2>1, <2>3, ExchangeKeeps DEF Streaming
  <2>5. Filled' = Filled /\ DueSize' = DueSize /\ Extra' = Extra
    BY <2>1, <2>4 DEF Kept, DueSize, Extra
  <2>6. Bounded'
    BY <2>3, <2>5 DEF Bounded
  <2> QED
    BY <2>1, <2>2, <2>3, <2>6
<1>3. CASE Received \/ Transmitted
  <2>1. pc' = pc /\ (\E e \in BOOLEAN : Interrupts(e))
    BY <1>3, Zenon DEF Received, Transmitted
  <2>2. ~Trouble
    BY DEF Trouble
  <2> QED
    BY <2>1, <2>2 DEF Interrupts
<1>4. CASE (\E now \in 0..2 : Switch(now)) \/ Overload
  BY <1>4 DEF Switch, Overload, Trouble
<1> QED
  BY <1>1, <1>2, <1>3, <1>4 DEF Next

\* What the level says of the two rings between exchanges.
LEMMA LevelsTold ==
    ASSUME AudioInv, KeepsUp, clean, pc = "idle", adu.state \in Streaming
    PROVE  /\ Running /\ adu.txU + adu.rxU = 3 * Transfer + FromHost
           /\ adu.txU + DueSize \in Transfer + Block .. 3 * Transfer - 1
           /\ Together(adu.txW, adu.txR, adu.txU) /\ Together(adu.rxW, adu.rxR, adu.rxU)
<1>1. TypeInv /\ Running
  BY DEF AudioInv, Undisturbed, InTune
<1>2. Written = adu.txW /\ Filled = adu.txU /\ Read = adu.rxR /\ Drained = adu.rxU
  BY <1>1, IdleViews
<1>3. adu.txU + DueSize \in 2 * Transfer - (Transfer - Block) .. 2 * Transfer + Transfer - 1
  BY SizesAre DEF KeepsUp, InReach, Level, DueSize
<1>4. 2 * Transfer - (Transfer - Block) = Transfer + Block
      /\ 2 * Transfer + Transfer - 1 = 3 * Transfer - 1
  BY SizesAre
<1> QED
  BY <1>1, <1>2, <1>3, <1>4 DEF Running

LEMMA ReceivedSync ==
    ASSUME AudioInv, KeepsUp, SendsFirst, clean, pc = "idle", adu.state \in Streaming, Received
    PROVE  adu'.state \in Streaming
<1>1. /\ StateInts /\ Typed(adu) /\ streams > 0 /\ ~received /\ due <= 1
  BY Ints DEF AudioInv, Undisturbed, InTune, TypeInv, Received
<1>2. /\ adu.txU + adu.rxU = 3 * Transfer + 0
      /\ adu.txU + DueSize \in Transfer + Block .. 3 * Transfer - 1
  BY <1>1, LevelsTold DEF FromHost
<1>3. DueSize \in 0..Block
  <2>1. due \in 0..1
    BY <1>1 DEF StateInts
  <2> QED
    BY <2>1, SizesAre DEF DueSize
<1>4. ~Above(adu.rxU + Transfer, Full)
  BY <1>1, <1>2, <1>3, SizesAre DEF Above, StateInts
<1> QED
  BY <1>1, <1>4, TransferReceived

LEMMA TransmittedSync ==
    ASSUME AudioInv, KeepsUp, clean, pc = "idle", adu.state \in Streaming, Transmitted
    PROVE  adu'.state \in Streaming
<1> DEFINE b == Measured(adu)
<1>1. StateInts /\ Typed(adu) /\ streams > 0
  BY Ints DEF AudioInv, Undisturbed, InTune, TypeInv
<1>2. due = 0 /\ received /\ adu' = InitiateTransmit(adu)
  <2>1. streams # 0
    BY <1>1
  <2> QED
    BY <2>1, Zenon DEF Transmitted
<1>3. /\ adu.txU + adu.rxU = 3 * Transfer + Transfer
      /\ adu.txU + 0 \in Transfer + Block .. 3 * Transfer - 1
      /\ Together(adu.txW, adu.txR, adu.txU) /\ Together(adu.rxW, adu.rxR, adu.rxU)
  <2>1. DueSize = 0 /\ FromHost = Transfer
    BY <1>2, SizesAre DEF DueSize, FromHost
  <2> QED
    BY <2>1, LevelsTold
<1>4. /\ adu.txU \in 0..Full - 1 /\ adu.rxU \in 0..Full - 1 /\ adu.txU >= Transfer
  BY <1>1, <1>3, SizesAre DEF StateInts
<1>5. /\ Typed(b) /\ b.state = adu.state
      /\ b.txW = adu.txW /\ b.txR = adu.txR /\ b.txU = adu.txU
      /\ b.rxW = adu.rxW /\ b.rxR = adu.rxR /\ b.rxU = adu.rxU
  BY <1>1, MeasuredIs
<1> HIDE DEF b
<1>6. Agree(b)
  <2>1. adu.txW - adu.txR \in Int /\ adu.rxW - adu.rxR \in Int /\ Full \in Nat \ {0}
    BY <1>1, SizesAre DEF StateInts
  <2>2. ((adu.txW - adu.txR) - adu.txU) % Full = 0 /\ ((adu.rxW - adu.rxR) - adu.rxU) % Full = 0
    BY <1>1, <1>3 DEF Together, StateInts
  <2>3. (adu.txW - adu.txR) % Full = adu.txU /\ (adu.rxW - adu.rxR) % Full = adu.rxU
    BY <1>4, <2>1, <2>2, DistanceTold
  <2> QED
    BY <1>5, <2>3 DEF Agree
<1>7. FrameEnded(adu) = b /\ Sync(b) = b
  BY <1>5, <1>6 DEF FrameEnded, b, Sync, Streaming
<1>8. adu' = FrameStarted(SendFrame(b))
  BY <1>2, <1>5, <1>7, Ready DEF Streaming
<1>9. Typed(SendFrame(b)) /\ SendFrame(b).state = adu.state
  <2>1. ~Below(adu.txU, Transfer)
    BY <1>4, SizesAre DEF Below
  <2> QED
    BY <1>5, <2>1, SendFrameIs
<1> QED
  BY <1>8, <1>9, FrameStartedIs DEF Streaming

LEMMA StepInSync ==
    ASSUME SendsFirst, AudioInv, KeepsUp, Going, Next, clean, clean', adu.state \in Streaming
    PROVE  adu'.state \in Streaming
<1>1. ~Trouble
  BY DEF Trouble
<1>2. CASE Begin
  BY <1>2 DEF Begin
<1>3. CASE DataExchange /\ ~Begin
  <2>1. /\ pc # "idle"
        /\ \/ adu'.state = adu.state
           \/ pc \in {"txError", "rxError"} /\ adu'.state = "needsReset"
           \/ pc = "settled" /\ adu'.state = "normal"
    BY <1>3, ExchangeStates DEF AudioInv
  <2> QED
    BY <2>1 DEF Going, Streaming
<1>4. CASE Received
  BY <1>1, <1>4, ReceivedSync DEF Received, Interrupts
<1>5. CASE Transmitted
  <2>1. \E e \in BOOLEAN : Interrupts(e)
    BY <1>5, Zenon DEF Transmitted
  <2> QED
    BY <1>1, <1>5, <2>1, TransmittedSync DEF Interrupts
<1>6. CASE (\E now \in 0..2 : Switch(now)) \/ Overload
  BY <1>6 DEF Switch, Overload, Trouble
<1> QED
  BY <1>2, <1>3, <1>4, <1>5, <1>6 DEF Next

(* For every size, clock and course of slips: while the make-up keeps the  *)
(* level in reach, no ring runs dry or over (audio_usb.c:582-692,          *)
(* 1056-1075).                                                             *)
THEOREM RingsStayInSync ==
    ASSUME SendsFirst
    PROVE  Spec /\ []KeepsUp => StaysInSync
<1>1. Init => Going
  BY DEF Init, Going
<1>2. AudioInv /\ AudioInv' /\ KeepsUp /\ Going /\ [Next]_vars => Going'
  <2>1. AudioInv /\ AudioInv' /\ KeepsUp /\ Going /\ Next => Going'
    BY GoingNext
  <2>2. Going /\ UNCHANGED vars => Going'
    BY DEF vars, clock, Going, Bounded, Filled, ToFill, Rest, Extra, DueSize
  <2> QED
    BY <2>1, <2>2
<1>3. AudioInv /\ KeepsUp /\ Going /\ [Next]_vars
        => [clean /\ clean' /\ adu.state \in Streaming => adu'.state \in Streaming]_vars
  BY StepInSync
<1> QED
  BY AudioInvariant, <1>1, <1>2, <1>3, PTL DEF Spec, StaysInSync
-----------------------------------------------------------------------------
(* Clocks that agree: every frame has what it should, and there is nothing *)
(* to make up for.                                                         *)

AtPace ==
    /\ drift = 0
    /\ clean /\ adu.state # "needsReset" =>
         /\ adu.offset = 0 /\ adu.metrics = 0 /\ adu.state \notin Turning
         /\ Samples + DueSize = Transfer

\* A frame ends between two exchanges, unless it preempts one.
LEMMA AtOnce ==
    ASSUME Transmitted, clean', ~Trouble
    PROVE  pc = "idle" /\ pc' = "idle" /\ (clean \/ adu' = ResetBuffers)
<1>1. UNCHANGED pc /\ (Interrupts(adu' = ResetBuffers) \/ Interrupts(FALSE))
  BY DEF Transmitted
<1> QED
  BY <1>1, Zenon DEF Interrupts

LEMMA AtPaceKeepsUp == AudioInv /\ AtPace => KeepsUp
<1> SUFFICES ASSUME AudioInv, AtPace, clean, pc = "idle", adu.state \in Streaming PROVE InReach
  BY DEF KeepsUp
<1>1. /\ TypeInv /\ StateInts /\ Running /\ adu.offset = 0 /\ adu.metrics = 0
      /\ adu.state \notin Turning /\ Samples + DueSize = Transfer
  BY Ints DEF AudioInv, Undisturbed, InTune, AtPace, Streaming
<1>2. Filled = adu.txU /\ Samples = adu.count /\ Left = 0
  <2>1. Filled = adu.txU /\ Samples = adu.count /\ Left = 0 - Extra
    BY <1>1, IdleViews
  <2>2. Extra = 0 /\ 0 - 0 = 0
    BY <1>1 DEF Extra, Turning
  <2> QED
    BY <2>1, <2>2
<1>3. adu.txU = Transfer + adu.count + 0 + 0 + 0 /\ adu.count + DueSize = Transfer
  BY <1>1, <1>2 DEF Running
<1>4. DueSize \in Int
  BY <1>1 DEF DueSize, StateInts
<1>5. adu.txU + DueSize = 2 * Transfer
  BY <1>1, <1>3, <1>4 DEF StateInts
<1> QED
  BY <1>5, SizesAre DEF InReach, Level, DueSize

LEMMA AtPaceNext ==
    ASSUME Drifts = {0}, AudioInv, AudioInv', AtPace, Next
    PROVE  AtPace'
<1>0. TypeInv /\ TypeInv' /\ StateInts /\ drift = 0 /\ Typed(adu)
  BY Ints DEF AudioInv, AtPace, TypeInv
<1>1. drift' = 0
  <2>1. CASE DataExchange
    BY <1>0, <2>1
    DEF DataExchange, Begin, MoveDataToTX, CountFrame, MoveDataFromRX, ReadOn, Adjust, Settle,
        Test, Load, Store, Exchange, clock
  <2>2. CASE Received \/ Overload
    BY <1>0, <2>2 DEF Received, Overload, clock
  <2>3. CASE Transmitted
    BY <1>0, <2>3 DEF Transmitted, NextFrame, clock
  <2>4. CASE \E now \in 0..2 : Switch(now)
    BY <1>0, <2>4 DEF Switch, clock
  <2> QED
    BY <2>1, <2>2, <2>3, <2>4 DEF Next
<1> SUFFICES ASSUME clean', adu'.state # "needsReset"
             PROVE  /\ adu'.offset = 0 /\ adu'.metrics = 0 /\ adu'.state \notin Turning
                    /\ Samples' + DueSize' = Transfer
  BY <1>1 DEF AtPace
<1>2. ~Trouble
  BY DEF Trouble
<1>3. CASE Begin
  <2>1. clean /\ adu' = adu
    BY <1>3 DEF Begin, Exchange
  <2>2. /\ adu.offset = 0 /\ adu.metrics = 0 /\ adu.state \notin Turning
        /\ Samples + DueSize = Transfer
    BY <2>1 DEF AtPace
  <2>3. Samples' = Samples + Block /\ DueSize' = DueSize - Block
    BY <1>0, <1>3, BeginMoves
  <2>4. Samples \in Int /\ DueSize \in Int
    BY <1>0, ViewInts DEF DueSize, StateInts
  <2>5. (Samples + Block) + (DueSize - Block) = Transfer
    BY <2>2, <2>4, SizesAre
  <2> QED
    BY <2>1, <2>2, <2>3, <2>5
<1>4. CASE DataExchange /\ ~Begin
  <2>1. /\ pc # "idle" /\ clean /\ due' = due
        /\ \/ adu'.state = adu.state
           \/ pc = "settled" /\ adu'.state = "normal"
    BY <1>0, <1>4, ExchangeStates
  <2>2. Exact /\ (pc = "settled" => adu.state \in Turning) /\ adu.state # "needsReset"
    BY <2>1 DEF AudioInv, Undisturbed, InTune, Turning
  <2>3. /\ adu.offset = 0 /\ adu.metrics = 0 /\ adu.state \notin Turning
        /\ Samples + DueSize = Transfer
    BY <2>1, <2>2 DEF AtPace
  <2>4. Kept /\ adu'.state = adu.state
    BY <1>0, <1>4, <2>1, <2>2, <2>3, ExchangeKeeps
  <2>5. Samples' = Samples /\ DueSize' = DueSize
    BY <2>1, <2>4 DEF Kept, DueSize
  <2> QED
    BY <2>3, <2>4, <2>5 DEF Kept
<1>5. CASE Received
  <2>1. clean /\ pc = "idle" /\ pc' = "idle"
    BY <1>2, <1>5, Zenon DEF Received, Interrupts
  <2>2. streams > 0
    BY <2>1 DEF AudioInv, Undisturbed, InTune
  <2>3. /\ adu'.state \in {"needsReset", adu.state}
        /\ adu'.offset = adu.offset /\ adu'.metrics = adu.metrics /\ adu'.count = adu.count
    BY <1>0, <1>5, <2>2, TransferReceived
  <2>4. Samples = adu.count /\ Samples' = adu'.count
    BY <1>0, <2>1, IdleViews, IdleNext
  <2>5. DueSize' = DueSize
    BY <1>5 DEF Received, DueSize
  <2> QED
    BY <2>1, <2>3, <2>4, <2>5 DEF AtPace
<1>6. CASE Transmitted
  <2>1. pc = "idle" /\ pc' = "idle" /\ (clean \/ adu' = ResetBuffers)
    BY <1>2, <1>6, AtOnce
  <2>2. streams > 0
    <3>1. CASE clean
      BY <3>1 DEF AudioInv, Undisturbed, InTune
    <3>2. CASE ~clean
      BY <1>2, <1>6, <3>2, Zenon DEF Transmitted, Interrupts
    <3> QED
      BY <3>1, <3>2
  <2>3. due = 0 /\ adu' = InitiateTransmit(adu) /\ NextFrame
    <3>1. streams # 0
      BY <2>2
    <3> QED
      BY <1>6, <3>1, Zenon DEF Transmitted
  <2>4. adu'.count = 0 /\ Samples' = adu'.count
    BY <1>0, <2>1, <2>3, InitiateTransmitTyped, IdleNext
  <2>5. DueSize' = Transfer
    <3>1. Slipped = 0 /\ early = 0 /\ early' = 0
      BY <1>0, <1>1 DEF Slipped, TypeInv, ClockTyped
    <3>2. due' = Beats + 0 + 0 - 0
      BY <2>3, <3>1, <1>0, NextFrameStep, Zenon DEF TypeInv
    <3>3. Beats + 0 + 0 - 0 = Beats
      BY AudioAssumption
    <3> QED
      BY <3>2, <3>3, SizesAre DEF DueSize
  <2>6. Samples' + DueSize' = Transfer
    <3>1. 0 + Transfer = Transfer
      BY SizesAre
    <3> QED
      BY <2>4, <2>5, <3>1, Zenon
  <2>7. CASE adu' = ResetBuffers
    BY <2>6, <2>7 DEF ResetBuffers, Turning
  <2>8. CASE adu' # ResetBuffers
    <3>1. clean /\ adu.state # "needsReset"
      BY <1>0, <2>1, <2>3, <2>8, ErrorResets
    <3>2. /\ adu.offset = 0 /\ adu.metrics = 0 /\ adu.state \notin Turning
          /\ Samples + DueSize = Transfer
      BY <3>1 DEF AtPace
    <3>3. Counted(adu) = 0
      <4>1. Samples = adu.count /\ DueSize = 0
        BY <1>0, <2>1, <2>3, IdleViews, SizesAre DEF DueSize
      <4> QED
        BY <1>0, <3>2, <4>1 DEF Counted, StateInts
    <3> DEFINE b == Measured(adu)
               c == SendFrame(Sync(b))
    <3>4. Typed(b) /\ b.offset = 0 /\ b.metrics = 0 /\ b.state \notin Turning
      <4>1. 0 + 0 = 0
        OBVIOUS
      <4> QED
        BY <1>0, <3>2, <3>3, <4>1, MeasuredIs
    <3> HIDE DEF b
    <3>5. FrameEnded(adu) = b
      <4>1. FrameEnded(adu) = HandleError(b) \/ FrameEnded(adu) = b
        BY DEF FrameEnded, b
      <4>2. HandleError(b).state = "needsReset"
        BY <3>4 DEF HandleError, Typed, Adu
      <4> QED
        BY <2>3, <2>8, <4>1, <4>2, Ready
    <3>6. adu' = FrameStarted(c)
      BY <2>3, <2>8, <3>5, Ready
    <3>7. /\ Typed(Sync(b)) /\ Sync(b).offset = 0 /\ Sync(b).metrics = 0
          /\ Sync(b).state \notin Turning
      BY <3>4, SyncTyped DEF Sync, ResetBuffers, Turning, Typed, Adu
    <3>8. Typed(c) /\ c.offset = 0 /\ c.metrics = 0 /\ c.state \notin Turning
      BY <3>7, SendFrameIs DEF Turning
    <3> HIDE DEF c
    <3> QED
      BY <2>6, <3>6, <3>8, FrameStartedIs
  <2> QED
    BY <2>7, <2>8
<1>7. CASE (\E now \in 0..2 : Switch(now)) \/ Overload
  BY <1>7 DEF Switch, Overload, Trouble
<1> QED
  BY <1>3, <1>4, <1>5, <1>6, <1>7 DEF Next

(* When the clocks agree, the program keeps up, and undisturbed rings that *)
(* run never stop, whatever the sizes (audio_usb.c:582-692, 858-957).      *)
THEOREM AgreeingClocks ==
    ASSUME SendsFirst, Drifts = {0}
    PROVE  Spec => []KeepsUp /\ StaysInSync
<1>1. Init => AtPace
  BY DEF Init, AtPace
<1>2. AudioInv /\ AudioInv' /\ AtPace /\ [Next]_vars => AtPace'
  <2>1. AudioInv /\ AudioInv' /\ AtPace /\ Next => AtPace'
    BY AtPaceNext
  <2>2. AtPace /\ UNCHANGED vars => AtPace'
    BY DEF vars, clock, AtPace, Samples, ToCount, DueSize
  <2> QED
    BY <2>1, <2>2
<1>3. AudioInv /\ AtPace => KeepsUp
  BY AtPaceKeepsUp
<1>4. Spec /\ []KeepsUp => StaysInSync
  BY RingsStayInSync
<1> QED
  BY AudioInvariant, <1>1, <1>2, <1>3, <1>4, PTL DEF Spec
=============================================================================
