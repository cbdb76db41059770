------------------------------ MODULE UsbAudio ------------------------------
(***************************************************************************)
(* USB audio (audio_usb.c).  The codec interrupt exchanges a block of      *)
(* samples with two ring buffers, and the USB interrupt, which preempts it *)
(* (mcuconf.h:290), moves a transfer of each per millisecond.  The clock   *)
(* of the codec is not that of the host, so the program counts the samples *)
(* of a frame and now and then leaves some out or plays some twice.        *)
(* Nothing is locked: the program compares the offsets with the sizes and  *)
(* starts again when it finds them out of step.  Sizes are in units of an  *)
(* adjustment (uBufferAdjust samples); a negative size stands for an       *)
(* unsigned one that has wrapped around.                                   *)
(***************************************************************************)
EXTENDS Integers

CONSTANTS Block,        \* uBufferSize: what an exchange moves
          Beats,        \* how many exchanges a frame has when the clocks agree
          Period,       \* CODEC_METICS_MS
          SendsFirst,   \* in a frame the host first sends and then asks
          Drifts,       \* which way the codec may run off: it may gain an exchange
                        \*   at a slip (1), lose one (-1), or keep the pace (0)
          Gaps,         \* how many frames there may be from one slip to the next
          Jitter,       \* for how many frames before a slip it may show or not
          MaxOk,        \* bound: codecMetricsBlocksOkCount stays at this
          MaxTroubles,  \* bound: preempted exchanges, overloads, streams opened
                        \*   beside another or closed
          Near,         \* bound: these come at most so many frames before a slip
          Switched      \* bound: the drifts with which streams are opened beside
                        \*   another or closed

Transfer == Beats * Block     \* USE_TRANSFER_SIZE_SAMPLES
Normal   == 2 * Transfer      \* TX_RING_BUFFER_NORMAL_SIZE
Full     == 3 * Transfer      \* TX_RING_BUFFER_FULL_SIZE

(* The rings fill in three frames: less than a period, and the clocks do   *)
(* not slip twice meanwhile.                                               *)
ASSUME AudioAssumption ==
    /\ Block \in Nat /\ Block > 2 /\ Beats \in Nat /\ Beats > 1
    /\ Period \in Nat /\ Period > 3
    /\ SendsFirst \in BOOLEAN
    /\ Drifts \subseteq {-1, 0, 1} /\ Jitter \in Nat
    /\ Gaps \subseteq Nat /\ \A gap \in Gaps : gap > Jitter + 3
    /\ MaxOk \in Nat /\ MaxTroubles \in Nat /\ Near \in Nat
    /\ Switched \subseteq {-1, 0, 1}

VARIABLES
    adu,           \* aduState
    streams,       \* how many the host has open: isInputActive, isOutputActive
    receiving,     \* a transfer from the host is under way
    transmitting,  \* a transfer to the host is under way
    pc, len, reg,  \* the exchange under way, what it moves, the value it has loaded
    due,           \* how many exchanges this frame still has
    received,      \* this frame has had its transfer from the host
    drift,         \* which way the clock of the codec runs off
    calm,          \* how many frames there are to the next slip
    early,         \* the slip that has shown before its time
    clean,         \* history: no trouble since a frame began with empty rings
    troubles       \* how many there have been

clock == <<drift, calm, early>>
vars  == <<adu, streams, receiving, transmitting, pc, len, reg, due, received, clock,
           clean, troubles>>

PCs       == {"idle", "txCheck", "txError", "txOffset", "txOffsetSet", "txUsed", "txUsedSet",
              "count", "countSet", "source", "rxCheck", "rxError", "rxOffset", "rxOffsetSet",
              "rxUsed", "rxUsedSet", "adjust", "settle", "settled"}
Streaming == {"normal", "remove", "duplicate"}    \* above asFillingUnderflow
-----------------------------------------------------------------------------
HandleError(a) == [a EXCEPT !.state = "needsReset"]

\* What aduResetBuffers leaves.
ResetBuffers ==
    [state |-> "init", frame |-> 0, every |-> 0, wait |-> 0, offset |-> 0,
     metrics |-> 0, ok |-> 0, count |-> 0,
     txW |-> 0, txR |-> 0, txU |-> 0, rxW |-> 0, rxR |-> 0, rxU |-> 0]

Abs(n) == IF n < 0 THEN -n ELSE n

\* Two sizes as the program compares them, as unsigned numbers.
Below(m, n) == m >= 0 /\ m < n
Above(m, n) == m < 0 \/ m > n

\* The sizes that the offsets tell.
Agree(a) == a.txU = (a.txW - a.txR) % Full /\ a.rxU = (a.rxW - a.rxR) % Full

\* Mutant: it takes as long for every unit as it should for all of them.
EveryUndivided(a, offset) == IF offset = 0 THEN 0 ELSE Period * (a.ok + 1)

\* A quotient by 0, when the clocks have made up for it, is 0 on the Cortex-M4.
Every(a, offset) ==
    IF offset = 0 THEN 0 ELSE (Period * (a.ok + 1)) \div Abs(offset)

Measured(a) ==
    LET metrics == a.metrics + a.count - Transfer
        offset  == a.offset + metrics
        b       == [a EXCEPT !.frame = (@ + 1) % Period]
    IN  IF b.frame # 0 THEN [b EXCEPT !.metrics = metrics]
        ELSE IF metrics = 0
             THEN [b EXCEPT !.metrics = 0, !.ok = IF @ < MaxOk THEN @ + 1 ELSE @]
             ELSE [b EXCEPT !.metrics = 0, !.ok = 0, !.offset = offset,
                            !.every = Every(a, offset), !.wait = Every(a, offset)]

FrameEnded(a) ==
    LET b == Measured(a)
    IN  IF b.state \in Streaming /\ ~Agree(b) THEN HandleError(b) ELSE b

\* Mutant: samples are left out when the codec is behind.
FrameStartedSwapped(a) ==
    IF a.offset = 0 THEN [a EXCEPT !.count = 0]
    ELSE IF a.wait # 0 THEN [a EXCEPT !.count = 0, !.wait = @ - 1]
    ELSE LET ahead == a.offset > 0
             rest  == IF ahead THEN a.offset - 1 ELSE a.offset + 1
         IN  [a EXCEPT !.count = 0, !.offset = rest,
                       !.state = IF ahead THEN "duplicate" ELSE "remove",
                       !.every = IF rest = 0 THEN 0 ELSE @,
                       !.wait  = IF rest = 0 THEN 0 ELSE a.every]

FrameStarted(a) ==
    IF a.offset = 0 THEN [a EXCEPT !.count = 0]
    ELSE IF a.wait # 0 THEN [a EXCEPT !.count = 0, !.wait = @ - 1]
    ELSE LET ahead == a.offset > 0
             rest  == IF ahead THEN a.offset - 1 ELSE a.offset + 1
         IN  [a EXCEPT !.count = 0, !.offset = rest,
                       !.state = IF ahead THEN "remove" ELSE "duplicate",
                       !.every = IF rest = 0 THEN 0 ELSE @,
                       !.wait  = IF rest = 0 THEN 0 ELSE a.every]

\* Mutant: it waits until the ring to the host is full.
SyncFull(a) ==
    IF a.state # "init" THEN a
    ELSE IF a.txU = Full /\ ~Below(a.rxU, 2 * Transfer)
         THEN [a EXCEPT !.state = "normal", !.rxU = 2 * Transfer,
                        !.rxR = IF a.rxU = 2 * Transfer THEN @
                                ELSE (a.rxW - 2 * Transfer) % Full]
         ELSE IF Above(a.txU, Normal) THEN ResetBuffers ELSE a

Sync(a) ==
    IF a.state # "init" THEN a
    ELSE IF a.txU = Normal /\ ~Below(a.rxU, 2 * Transfer)
         THEN [a EXCEPT !.state = "normal", !.rxU = 2 * Transfer,
                        !.rxR = IF a.rxU = 2 * Transfer THEN @
                                ELSE (a.rxW - 2 * Transfer) % Full]
         ELSE IF Above(a.txU, Normal) THEN ResetBuffers ELSE a

\* Mutant: the offset is not wrapped around.
SendFrameUnwrapped(a) ==
    IF a.state \notin Streaming THEN a
    ELSE [a EXCEPT !.state = IF Below(a.txU, Transfer) THEN "needsReset" ELSE @,
                   !.txR = @ + Transfer,
                   !.txU = @ - Transfer]

SendFrame(a) ==
    IF a.state \notin Streaming THEN a
    ELSE [a EXCEPT !.state = IF Below(a.txU, Transfer) THEN "needsReset" ELSE @,
                   !.txR = (@ + Transfer) % Full,
                   !.txU = @ - Transfer]

\* aduInitiateTransmitI
InitiateTransmit(a) ==
    LET ended == FrameEnded(a)
        ready == IF ended.state = "needsReset" THEN ResetBuffers ELSE ended
    IN  FrameStarted(SendFrame(Sync(ready)))
-----------------------------------------------------------------------------
(* The exchanges of the next frame.  The clocks know nothing of the        *)
(* program: they slip against each other by an exchange whenever it is     *)
(* time, and near that time an exchange may fall on either side of the end *)
(* of a frame (the comment at audio_usb.c:859).                            *)
NextFrame ==
    LET slips == calm = 1
    IN  /\ calm' \in IF drift = 0 THEN {1} ELSE IF slips THEN Gaps ELSE {calm - 1}
        /\ early' \in IF calm' <= Jitter THEN {0, drift} ELSE {0}
        /\ due' = Beats + (IF slips THEN drift ELSE 0) + early' - early
        /\ drift' = drift

Trouble ==
    /\ calm <= Near /\ troubles < MaxTroubles
    /\ troubles' = troubles + 1 /\ clean' = FALSE

\* The USB interrupt comes between two exchanges, or preempts one.
Interrupts(emptied) ==
    \/ pc = "idle" /\ clean' = (clean \/ emptied) /\ UNCHANGED troubles
    \/ pc # "idle" /\ Trouble

\* aduDataTransmitted
Transmitted ==
    /\ transmitting
    /\ \/ /\ streams > 0 /\ due = 0 /\ received
          /\ adu' = InitiateTransmit(adu)
          /\ NextFrame
          /\ Interrupts(adu' = ResetBuffers)
          /\ UNCHANGED transmitting
       \/ /\ streams = 0
          /\ adu' = ResetBuffers /\ transmitting' = FALSE
          /\ Interrupts(FALSE)
          /\ UNCHANGED <<due, clock>>
    /\ received' = FALSE
    /\ UNCHANGED <<streams, receiving, pc, len, reg>>

(* aduDataReceived.  A host that sends first asks right after: an exchange *)
(* at most comes between.                                                  *)
Received ==
    /\ receiving /\ ~received /\ received' = TRUE
    /\ SendsFirst /\ streams > 0 => due <= 1
    /\ IF streams > 0
       THEN /\ adu' = [adu EXCEPT !.rxW = (@ + Transfer) % Full,
                                  !.rxU = @ + Transfer,
                                  !.state = IF Above(adu.rxU + Transfer, Full)
                                            THEN "needsReset" ELSE @]
            /\ UNCHANGED receiving
       ELSE adu' = ResetBuffers /\ receiving' = FALSE
    /\ Interrupts(FALSE)
    /\ UNCHANGED <<streams, transmitting, pc, len, reg, due, clock>>

(* aduEnableInput, aduEnableOutput: the host opens or closes a stream;     *)
(* once one is open, both directions run.  The first may be opened at any  *)
(* time of the clocks.                                                     *)
Switch(now) ==
    /\ now \in 0..2 /\ Abs(now - streams) = 1 /\ streams' = now
    /\ adu' = IF now = 0 THEN ResetBuffers ELSE InitiateTransmit(adu)
    /\ receiving' = (receiving \/ now > 0)
    /\ transmitting' = (transmitting \/ now > 0)
    /\ IF streams = 0
       THEN /\ due' \in 0..Beats /\ drift' \in Drifts /\ early' = 0
            /\ \E gap \in Gaps : calm' \in IF drift' = 0 THEN {1} ELSE 1..gap
       ELSE UNCHANGED <<due, clock>>
    /\ IF streams = 0 /\ pc = "idle" THEN clean' = FALSE /\ UNCHANGED troubles
       ELSE drift \in Switched /\ Trouble
    /\ received' = (received /\ (receiving \/ transmitting))
    /\ UNCHANGED <<pc, len, reg>>

\* aduReset, called by the dsp thread when the patch takes too long
Overload ==
    /\ pc = "idle" /\ adu' = HandleError(adu) /\ Trouble
    /\ UNCHANGED <<streams, receiving, transmitting, pc, len, reg, due, received, clock>>
-----------------------------------------------------------------------------
(* aduDataExchange.  The USB interrupt may come between any two accesses   *)
(* to what it writes as well: each test, each load and each store is a     *)
(* step of its own.                                                        *)

Exchange(from, to) ==
    /\ pc = from /\ pc' = to
    /\ UNCHANGED <<streams, receiving, transmitting, received, clock, clean, troubles>>

Test(from, to) == Exchange(from, to) /\ UNCHANGED <<adu, len, reg, due>>

Load(from, field, to) ==
    Exchange(from, to) /\ reg' = adu[field] /\ UNCHANGED <<adu, len, due>>

Store(from, field, value, to) ==
    /\ Exchange(from, to)
    /\ adu' = [adu EXCEPT ![field] = value] /\ reg' = 0 /\ UNCHANGED due

\* Samples that are played twice are moved first, and then the block.
Begin ==
    /\ streams > 0 /\ due > 0
    /\ due' = due - 1
    /\ len' = CASE adu.state = "remove" -> Block - 1
                [] adu.state = "duplicate" -> 1
                [] OTHER -> Block
    /\ Exchange("idle", "txCheck") /\ UNCHANGED <<adu, reg>>

\* aduMoveDataToTX
MoveDataToTX ==
    \/ Test("txCheck", IF Above(adu.txU + len, Full) THEN "txError" ELSE "txOffset")
    \/ Store("txError", "state", "needsReset", "txOffset") /\ UNCHANGED len
    \/ Load("txOffset", "txW", "txOffsetSet")
    \/ Store("txOffsetSet", "txW", (reg + len) % Full, "txUsed") /\ UNCHANGED len
    \/ Load("txUsed", "txU", "txUsedSet")
    \/ /\ Store("txUsedSet", "txU", reg + len, IF len = 1 THEN "txCheck" ELSE "count")
       /\ len' = Block

CountFrame ==
    \/ Load("count", "count", "countSet")
    \/ Store("countSet", "count", reg + Block, "source") /\ UNCHANGED len
    \/ Exchange("source", IF adu.state \in Streaming THEN "rxCheck" ELSE "idle")
       /\ len' = (IF adu.state \in Streaming THEN Block ELSE 0)
       /\ UNCHANGED <<adu, reg, due>>

\* The offset and the size of the ring from the host, for a block and for an
\* adjustment.
ReadOn(next) ==
    \/ Load("rxOffset", "rxR", "rxOffsetSet")
    \/ Store("rxOffsetSet", "rxR", (reg + len) % Full, "rxUsed") /\ UNCHANGED len
    \/ Load("rxUsed", "rxU", "rxUsedSet")
    \/ Store("rxUsedSet", "rxU", reg - len, next) /\ len' = 0

\* aduMoveDataFromRX
MoveDataFromRX ==
    \/ Test("rxCheck", IF Below(adu.rxU, Block) THEN "rxError" ELSE "rxOffset")
    \/ Store("rxError", "state", "needsReset", "rxOffset") /\ UNCHANGED len
    \/ ReadOn(IF len = Block THEN "adjust" ELSE "settle")

\* Mutant: what is left out of one direction is not played twice in the other.
AdjustOneWay == Exchange("adjust", "settle") /\ UNCHANGED <<adu, len, reg, due>>

\* What is left out of one direction is played twice in the other.
Adjust ==
    /\ len' = CASE adu.state = "duplicate" -> 1
                [] adu.state = "remove" -> -1
                [] OTHER -> 0
    /\ Exchange("adjust", IF len' = 0 THEN "settle" ELSE "rxOffset")
    /\ UNCHANGED <<adu, reg, due>>

Settle ==
    \/ Test("settle", IF adu.state \in {"remove", "duplicate"} THEN "settled" ELSE "idle")
    \/ Store("settled", "state", "normal", "idle") /\ UNCHANGED len

DataExchange ==
    Begin \/ MoveDataToTX \/ CountFrame \/ MoveDataFromRX \/ Adjust \/ Settle
-----------------------------------------------------------------------------
Init ==
    /\ adu = ResetBuffers
    /\ streams = 0 /\ receiving = FALSE /\ transmitting = FALSE
    /\ pc = "idle" /\ len = 0 /\ reg = 0
    /\ due = 0 /\ received = FALSE
    /\ drift = 0 /\ calm = 1 /\ early = 0
    /\ clean = FALSE /\ troubles = 0

Next ==
    \/ DataExchange \/ Received \/ Transmitted
    \/ \E now \in 0..2 : Switch(now)
    \/ Overload

(* The codec and the host keep their pace: an interrupt that is due is     *)
(* served.  A frame has only so many, so that none keeps another out.      *)
Fairness == WF_vars(DataExchange \/ Received \/ Transmitted)

Spec == Init /\ [][Next]_vars /\ Fairness
-----------------------------------------------------------------------------
(* The types.  The USB controller reads and writes a whole transfer at txR *)
(* and rxW, so these are multiples of one and the transfer lies inside the *)
(* ring.                                                                   *)
TypeOK ==
    /\ adu.state \in Streaming \cup {"needsReset", "init"}
    /\ {adu.txR, adu.rxW} \subseteq {0, Transfer, 2 * Transfer}
    /\ {adu.txW, adu.rxR} \subseteq 0..Full - 1
    /\ {adu.txU, adu.rxU, adu.metrics, adu.offset} \subseteq Int
    /\ adu.frame \in 0..Period - 1 /\ adu.ok \in 0..MaxOk
    /\ adu.every \in Nat /\ adu.wait \in 0..adu.every
    /\ adu.count \in Nat
    /\ streams \in 0..2 /\ {receiving, transmitting, received, clean} \subseteq BOOLEAN
    /\ pc \in PCs
    /\ len \in {-1, 0, 1, Block - 1, Block} /\ reg \in Int
    /\ due \in 0..Beats + 1
    /\ drift \in {-1, 0, 1} /\ calm \in Nat \ {0} /\ early \in {0, drift}
    /\ troubles \in 0..MaxTroubles

\* The offsets do not tell a full ring from an empty one.
Consistent(a) == (a.txW - a.txR - a.txU) % Full = 0 /\ (a.rxW - a.rxR - a.rxU) % Full = 0

\* What the program knows it has to leave out, or to play twice.
Owed(a) ==
    a.offset + a.metrics + (CASE a.state = "remove" -> 1
                              [] a.state = "duplicate" -> -1
                              [] OTHER -> 0)

(* While the rings run undisturbed (audio_usb.c:703-851, 858-957,          *)
(* 1112-1210), however the clocks slip, the offsets and the sizes agree,   *)
(* what one ring is short of the other has too much of, so that the delay  *)
(* through both never changes, and the ring to the host is off by just     *)
(* what the program has counted and not made up for yet.                   *)
InStep ==
    clean /\ pc = "idle" /\ adu.state \in Streaming
      => /\ Consistent(adu)
         /\ adu.txU + adu.rxU + (IF received THEN 0 ELSE Transfer) = Normal + 2 * Transfer
         /\ adu.txU = Normal - Transfer + adu.count + Owed(adu)

\* How much the host will find at the end of the frame, but for an adjustment.
Level == adu.txU + due * Block

\* The rings run neither dry nor over before the end of the frame.
InReach == Level \in Normal - (Transfer - Block) .. Normal + Transfer - 1

(* The program makes up for a slip before the next ones add up to more     *)
(* than the rings can take (audio_usb.c:902-915).                          *)
KeepsUp == clean /\ pc = "idle" /\ adu.state \in Streaming => InReach

(* The comment at audio_usb.c:869: the ring to the host holds              *)
(* TX_RING_BUFFER_NORMAL_SIZE at the end of a frame, give or take an       *)
(* exchange and an adjustment.                                             *)
MaintainsNormalSize ==
    adu.state \in Streaming /\ pc = "idle" =>
        Level \in Normal - Block - 1 .. Normal + Block + 1

(* Once the rings run, they do not run dry or over for as long as nothing  *)
(* disturbs them, while the clocks slip at their pace (audio_usb.c:582-692,*)
(* 1056-1075).                                                             *)
StaysInSync ==
    [][clean /\ clean' /\ adu.state \in Streaming => adu'.state \in Streaming]_vars

(* After an exchange that the USB interrupt preempted, a patch that took   *)
(* too long or a stream that was opened or closed, the program comes to    *)
(* run both rings again, with the sizes that the offsets tell              *)
(* (audio_usb.c:97, 491, 1022).                                            *)
Recovers ==
    <>[](streams > 0 => adu.state \in Streaming /\ (pc = "idle" => Consistent(adu)))
=============================================================================
