# Verification of Ksoloti: TLA+ models, TLC runs and TLAPS proofs

Ksoloti is a synthesizer board that runs *patches*: programs that a patcher on a
computer generates, compiles, uploads over USB and commands. This directory models
the parts where threads and interrupts of the board, and the board and the patcher,
have to agree: the life cycle of a patch, the link on which the patcher commands the
board and the bytes below it, the exchange of parameter values, MIDI in and out, the
memory a patch is given, the record of its failures, and USB audio. Paths below are relative to the repository:
`firmware/` is C on ChibiOS, `src/main/java/` is the patcher in Java.

## 1. Inventory

### The board (`firmware/`)

| Component | State | Operations | Meets | What is hard | What makes it correct |
|---|---|---|---|---|---|
| Patch life cycle: `patch.c`, `sdcard.c` | `patchStatus`, `patchMeta`, `loadFName`, `loadPatchIndex`, the event mask of `ThreadDSP`, the regions `PATCHMAINLOC` and `PATCHFLASHLOC` | `ThreadDSP`, `StopPatch`, `StopPatch1`, `StartPatch`, `StartPatch1`, `InitPatch0`, `LoadPatch*`, `sdcard_loadPatch1` | called by `ui`, `sysmon`, `main` and the patch itself | four threads share all of this without a lock and poll for each other's status | code is started from a complete patch only; the region is not written while its code is alive; a status of RUNNING means an installed patch; every request ends |
| Host command interpreter: `pconnection.c`, `ui.c` | decoder state, `AckPending`, log buffer, open file | `PExReceiveByte`, `PExTransmit`, `LogTextMessage`, `CopyPatchToFlash` | the patch life cycle, parameters, files, USB | it stops and starts patches while others load them; acknowledgements without a number | a command works on the state it names in its comment; every command is acknowledged |
| Parameters and presets: `parameters.c`, generated `ApplyPreset` | `PExch[]`: `value`, `modvalue`, `finalvalue`, `signals`; old value of each modulation source | `PExParameterChange`, `PExModulationSourceChange` | dsp, MIDI threads and ui write; `PExTransmit` reads | read-modify-write by several threads; values cross on the wire | no change lost; modulation stays relative to the value; patcher follows the board |
| System monitor: `sysmon.c` | `sdcsw_prev`, LED state, voltage | `ThreadSysmon` | stops patches, asks for loads | reacts to the card at any point of a load | a removed card ends in the flash patch, an inserted one in its start-up patch |
| Boot: `main.c` | none of its own | creates the threads, asks for the first patch | all | asks for a second patch while the first loads | flash only when the card has no patch |
| USB bulk and MIDI drivers: `bulk_usb.c`, `midi_usb.c` | input and output queue, endpoint state | callbacks, `inotify`, `onotify` | USB interrupts, ui, MIDI thread | a transfer has to be started again by whoever makes room or data | a FIFO that neither loses nor repeats nor stalls |
| MIDI parsers: `serial_midi.c`, `midi.c`, `usbh_midi_core.c` | running status, bytes so far, output ring | byte handler, `MidiSend*` | patches | real-time messages within others | messages equal to those of a reference parser |
| USB audio: `audio_usb.c` | two rings, their offsets and used sizes, sync state | `aduDataExchange`, isochronous callbacks | USB interrupts, dsp | two clocks | used size = distance of the offsets; no read of unwritten samples |
| SPI link: `spilink.c`, `spidb.c` | double buffers, toggle, thread of the slave | resynchronisation | a second board | loss and order of half-transfer events | the slave reads the half just received |
| Memory: `axoloti_memory.c` | current, last and end address, total | `sdram_malloc`, `sdram_free` | patch init | overflow | blocks disjoint; total = room left |
| Exceptions: `exceptions.c`, `flash.c`, `watchdog.c` | record in backup RAM | `report_*`, `exception_checkandreport`, DFU | all, and the next boot | survives a reset; filled in by one thread, reported by another | each record reported once, complete |
| Codec, ADC, board: `codec*.c`, `axoloti_board.c`, `sdram.c` | registers | set-up, audio interrupt | `computebufI` | hardware | - |
| DSP library, displays: `axoloti_math.c`, `axoloti_oscs.c`, ... | none shared | arithmetic | patches | - | - |
| Flasher, mounter | flash, card | stand-alone programs | - | - | - |

### The patcher (`src/main/java/`)

| Component | State | Operations | Meets | What is hard | What makes it correct |
|---|---|---|---|---|---|
| Command queue: `qcmds/QCmdProcessor.java`, `qcmds/*.java` | `queue`, `queueResponse` | `AppendToQueue`, `run`, `Abort`, pinger, dial transmitter | the connection, the graphical interface | an unbounded wait for an answer; who took the answer away | every task answered once, in order, when it is done |
| Connection: `axoloti/USBBulkConnection.java` | `connected`, `disconnectRequested`, `sync`, `queueSerialTask`, three threads | `connect`, `disconnect`, `ClearSync`, `WaitSync`, `Transmitter`, `Receiver` | the board | time-outs and late answers; threads that must end | an acknowledgement counts for the command it belongs to; both threads end |
| Patch editor and code generator: `axoloti/Patch.java`, ... | the graph | text generation | the compiler | single thread, no protocol | - |

ChibiOS, FatFs, CMSIS, the ST libraries and the Mutable Instruments code are
vendored; events, sleeps and file operations are modelled as the firmware uses them.

Priorities of the board's threads (`mcuconf.h:316-324`): `ui` and the USB MIDI thread
have `HIGHPRIO-2`; `dsp`, which the audio interrupt wakes up, is created with
`PATCH_NORMAL_PRIO`, and shares `NORMALPRIO` with `sysmon`, `main` and the serial MIDI
thread. The models use that `ui` preempts those of normal priority, and they not it.

`PROJECT.json` lists under "hazards", line by line, what can go wrong here that a
test would hardly reach; the properties are aimed at that list.

## 2. The modules

```
PatchState            state of the patch life cycle, StopPatch and StopPatch1
 |- DspThread         ThreadDSP, StartPatch1, sdcard_loadPatch1, audio interrupt
 |- UiThread          host commands that stop, upload, copy, start
 |- SysmonThread      card switch, ThreadSysmon
 |- MainThread        boot
 `- PatchLifecycle    their composition and properties
     |- (INSTANCE) PatchRegion     abstract: one memory region, written or alive
     `- PatchLifecycleProofs
HostLink              QCmdProcessor, Transmitter, Receiver, board, connect, disconnect
 |- (INSTANCE) RequestReply        abstract: one task at a time
 `- HostLinkProofs
CommandDecoder        PExReceiveByte, and the packets of the patcher
 `- BulkLink          the bytes of the commands, from the patcher to ThreadUI
     |- (INSTANCE) UsbReceive      OUT endpoint, callback, input queue
     |- (INSTANCE) CommandChannel  abstract: commands carried out as sent
     |- BulkLinkMC
     `- BulkLinkProofs, which instantiates UsbReceiveProofs
ParamExchange         writers, ui, patcher
 |- ParamExchangeMC   values of its constants for TLC
 `- ParamExchangeProofs
SerialMidi            parser of the serial input, and a reference for it
 `- MidiThru          two MIDI threads, the patch, the USB MIDI queues
     |- (INSTANCE) UsbReceive      as above, with the sizes of midi_usb.c
     |- (INSTANCE) UsbTransmit     output queue, IN endpoint, suspension, reset
     |- MidiThruMC
     `- MidiThruProofs, which instantiates UsbReceiveProofs
SdramAllocator        sdram_init, sdram_malloc
HostMidiOut           ring and transfers of the MIDI host port
ExceptionRecord       record of faults and failures, kept over a reset
 `- PatchServices     the three, used by one patch after another
     |- PatchServicesMC
     `- PatchServicesProofs
UsbAudio              codec exchanges and USB callbacks on the two audio rings
 |- UsbAudioMC
 `- UsbAudioProofs
```

Definitions whose comment begins with *Mutant* are broken variants of a definition
beside them. They take no part in any specification; each shows that a property
notices a particular mistake in the code.

### 2.1 Patch life cycle

One program counter per thread moves at every access to a shared variable. The names
of the program counters are those of the code's steps.

| Code | Model |
|---|---|
| `patchStatus`, `patchMeta` | `status`, `meta`. Of the pointers, the two that others test are kept: `fptr_patch_dispose` and `fptr_dsp_process` |
| `loadPatchIndex`, `loadFName` | `loadIdx`, `loadName` (empty, the start-up file, another file) |
| event mask of `pThreadDSP` | `events`; a signal before the thread exists is lost |
| `PATCHMAINLOC`, `PATCHFLASHLOC` | `image`, `flash`: a patch, erased, being written, torn by two writers, or the text of the bank file |
| patch init to dispose | `live`, a history variable |
| `ThreadDSP` (`patch.c:292-520`) | `TakeCycle`, `TakeLoad`, `TakeStart` (`chEvtWaitOne`: lowest event first), `Process`, `CycleEnd`, `Dispatch`, `CopyFlash`, `ReadBank`, `Scan`, `Started` |
| `sdcard_loadPatch1` (`sdcard.c:195-251`) | `FileCheck`, `ChangeDir`, `OpenFile`, `ReadFile`, `FileLoaded`, each with its failure |
| `StartPatch1` (`patch.c:252-289`) | `PatchInit`, `PatchInitEnd` (generated `xpatch_init2`), `InitCheck`, `ToRun` |
| `StopPatch` (`patch.c:523-536`) | `StopCheck`, `StopSet`, `StopWait`, then `StopPatch1` |
| `StopPatch1`, `InitPatch0` | `Dispose`, `ThreadsGone`, `Reset`, `Clear`, `StopEnd`: the status is reset before the pointers are |
| `StartPatch` (`patch.c:540-553`) | `HostStart`, `StartSleep`, `StartReturn` |
| `PExReceiveByte` 'S', 'W', 'F', 's' | `HostStop`, `HostUpload`/`UploadEnd`, `HostFlash`, `Act`, `HostStart` |
| `ThreadSysmon` (`sysmon.c:103-121`) | `CardLook`, `Unmount`, `RequestFlash`, `CardMount`, `RequestSD` |
| `main` (`main.c:85-163`) | `BootInit`, `CreateDsp`, `CreateUi`, `BootMount`, `BootSD`, `BootCheck`, `BootFlash` |

`Features` says which actors act besides `dsp`: the host, boot, the card switch,
patches that load patches by name or by index. Properties that hold only for some
actors are checked with these.

Abstractions, and what they rest on:

- A `LoadPatch*` request (two stores and a signal) is one step: the dsp thread reads
  them only after the signal.
- `SleepOver`: the load path sleeps 10 ms where the poll in `StopPatch` repeats every
  1 ms, so a poller has seen STOPPED before that sleep is over. Nothing else is
  assumed about time; in particular the 50 ms of `LoadPatchStartSD` are not enough
  for a load, as the card may be slower.
- A cycle is over before the next audio interrupt. A patch that overloads the
  processor is left out; its penalty sleep of 1 ms (`patch.c:386`) is longer than a
  cycle, so that the cycle event, which `chEvtWaitOne` prefers, would be pending again
  and `LoadsEnd` would not hold.
- `Dispose` calls the patch's dispose function in one step: `live` is false after it.
- The host keeps to the order of the patcher: stop, upload, then start or copy to
  flash (`PatchFrame.java:1119`).

### 2.2 The link of the patcher and the board

`HostLink` has `QCmdProcessor`, the `Transmitter`, the `Receiver`, the board's loop
`PExReceive`/`PExTransmit` and the callers of `connect()` and `disconnect()` as
processes. A task is a list of *rounds* (`Rounds`): does it clear the flag
`sync.Acked`, which command does it write, does it wait. Acknowledgements are only
counted, since they carry no number, and the flag is one bit: the model keeps the
confusion the code is exposed to.

Abstractions: payloads of packets, the file list and memory reads are left out;
`connect()` always succeeds, and is called only after the old `Transmitter` has
ended; a write to a closed handle either does nothing or ends the thread (the code's
null pointer).

### 2.3 Parameters

`ParamExchange` splits `PExParameterChange` and `PExModulationSourceChange` into the
loads and stores of the compiled code in source order; `ui`, which preempts the patch
threads, does a whole change in one step, and stops between parameters in
`PExTransmit`, where it sends. The patcher's side is the dial (`Turn`), `TXData` and
`RPacketParamChange` (`ParamChange`).

Abstractions: the integers are unbounded (the equation between `value`, `modvalue`
and the contribution holds modulo 2^32 as it does in `Int`); parameters with a
`pfunction`, propagation to voices and several sources are left out; a preset may
contain any subset of the parameters with any values. The USB MIDI thread has the
priority of `ui` and is not among the writers (section 6).

### 2.4 The bytes of the commands

`BulkLink` is the level below `HostLink`: a command of the patcher is one or two USB
transfers (a header with its fields, and a block of data), and the board takes it
apart byte by byte. `CommandChannel` says what this is to amount to.

| Code | Model |
|---|---|
| `TransmitAppendFile` and the others (`USBBulkConnection.java:584-1010`) | `TxHeader`, `TxData`: a command from `Asked`; `WaitSync`, `Acknowledge` |
| `SendMidi` on the graphical interface's thread | `SendMidi`: a command from `Played` |
| OUT endpoint, `bduDataReceived`, `inotify`, `bduConfigureHookI` (`bulk_usb.c`) | `UsbReceive`: `Packet`, `DataReceived`, `Inotify` within `ReadByte`/`ReadNothing`, `Init`/`Configured` |
| `ThreadUI`, `PExReceive`, `PExTransmit` | `ReceiveByte`, `ReceiveEnd`, `PExTransmit` |
| `PExReceiveByte` (`pconnection.c:592-1215`), with its static variables | `PExReceiveByte(dec, b)`: `Match`, `Field`, `Datum`, `NameByte`; `dec` |

Every letter of the protocol is in the decoder, with its fields, lengths and
acknowledgement. What a command does to patches and parameters is in the other
modules; here it is appended to `carried` with the bytes the board has for it.

Abstractions: the board stays connected; a bulk write returns when the board has
taken all of it; answers other than acknowledgements are left out. `Torn` says whether
a MIDI message may come between a header and its block, which nothing in the patcher
excludes (section 3).

### 2.5 MIDI

| Code | Model |
|---|---|
| `serial_MidiInByteHandler` (`serial_midi.c:75-123`), `ThreadMidi` | `InByte`, `SerialByte` |
| `ThreadUSBDMidi` (`pconnection.c:74-92`) | `ReadFour`, byte by byte; `ReadWaits`; `ReadReset`, when a new configuration ends its read |
| the handler of the patch, `midi_usb_MidiSend1` to `3` | `Sent`: the four bytes the calling thread has yet to queue |
| `chOQWriteTimeout`, `onotify`, `mduDataTransmitted`, `mduConfigureHookI` (`midi_usb.c`) | `UsbTransmit`: `PutByte`, `Onotify`, `DataTransmitted`, `Configured`, `Suspend`, `Wakeup`, `Reset` |

A thread can be interrupted after each byte. The host may put several events into a
transfer (`HostTransfers`), which the controller cuts into packets. The patch sends on
the messages in `SentOn`, from both threads. `MessagesIn` is the
reference for the parser: it says, for a whole sequence of bytes and without a state,
which messages end where. `MidiThruMC` compares the two on all sequences of up to five
of eight representative bytes (`ParserAgrees`), and the run on every interleaving.

### 2.6 What the firmware gives a patch

`SdramAllocator` is `axoloti_memory.c` without `sdram_free`, which nothing calls;
addresses count from the base. When a block does not fit, the patch is given the base
address all the same, and `StartPatch1` finds the total negative and does not run it.

`HostMidiOut` is the output of `usbh_midi_core.c`: one sender (`Send`, `Fill`,
`Publish`, for `usbh_MidiSend1` to `3` and `SendSysEx`), the host thread
(`ProcessOutput`, `Advance`, `Copy`), the interrupt of the controller (`Taken`,
`NotReady`, `Failed`, `SOFProcess`) and the device (`Plug`, `Found`, `Unplug`). The
state of a transfer is a variable that the interrupt writes and the host thread reads
once. `Plug` requires an idle sender: from the connection to the interface's
initialisation the host enumerates for some hundred milliseconds, while a message takes
microseconds.

`ExceptionRecord` is the record of `exceptions.c`. The dsp thread fills it in store by
store (`Report`, `SetMagic`, `SetType`: when a patch is of another firmware, has asked
for too much memory or finds the ring full); `ui`, which preempts it, reports and clears
it (`CheckAndReport`, from `PExTransmit`) or fills it in (`FileError`); the fault handler
and `exception_init` are part of `Reset`, which starts the rest of the board anew. The
texts and registers of a record are left out, and entering the DFU loader, which
overwrites a record without looking at it. Other threads that report are not modelled.

### 2.7 USB audio

`UsbAudio` has the two rings as their four offsets and two used sizes, the state
`ADUState` and the metrics of the two clocks. Sizes are in units of an adjustment
(`uBufferAdjust`, 2 samples in the program, where a block has 32 and a frame 96).

| Code | Model |
|---|---|
| `aduDataExchange` (`audio_usb.c:703-851`), in the codec interrupt | `Begin`, `MoveDataToTX`, `CountFrame`, `MoveDataFromRX`, `Adjust`, `Settle`: each test, each load and each store of a variable that the USB interrupt writes as well is a step (`Test`, `Load`, `Store`, with the loaded value in `reg`) |
| `aduCodecFrameEnded`, `aduCodecFrameStarted`, `aduInitiateTransmitI` | `Measured`, `FrameEnded`, `FrameStarted`, `Sync`, `SendFrame` |
| `aduDataTransmitted`, `aduDataReceived`, `aduEnableInput`, `aduEnableOutput` | `Transmitted`, `Received`, `Switch`: interrupts that nothing preempts, one step each |
| `aduReset`, by the dsp thread | `Overload` |
| the clocks | `NextFrame` |

The clocks are the environment and know nothing of the program. Every frame has `Beats`
exchanges; whenever a gap from `Gaps` is over, the codec gains one or loses one (`drift`),
whether or not the program has made up for the last slip and also while the rings fill.
For `Jitter` frames before a slip the exchange that is about to change frames may fall on
either side of the end of a frame, now on one and now on the other (`early`); this is the
jitter of the comment at `audio_usb.c:859`. How far the rings then run off is a matter of the
program's make-up alone (`KeepsUp`).

`clean` is history: nothing has disturbed the rings since a frame began with both empty.
An exchange that the USB interrupt preempts counts as a disturbance, since it may lose an
update. The sizes have no bound after one, for it then puts back a size that a reset had
cleared; until the next reset they grow with every preemption. `Near` and `Switched`
bound the points of the clocks and the clocks at which disturbances come.

`SendsFirst` says that within a frame the host first sends and then asks. Sizes are
unsigned in the program; the model lets them become negative and compares them as unsigned
(`Below`, `Above`). The steps of an exchange presume that the compiled code loads and stores
each variable where the source does (`aduState` is not volatile). The division by an offset of 0
in `aduCodecFrameEnded` gives 0, as on the Cortex-M4 without its trap. The state
`asFillingUnderflow` is never assigned in the code and is left out.

## 3. What the runs check

| Run | Shows | Bounds |
|---|---|---|
| `host` | With the host alone: a RUNNING patch is alive and installed; after `StopPatch` has returned the patch is gone and nothing loads; the threads implement `PatchRegion`; every host command returns | 2 patches, any number of commands; 6,930 states |
| `standalone` | A board that boots, with patches that load each other by name and index: implements `PatchRegion`; every load requested ends | 2 patches; 9,477 states |
| `card` | From reset, card removed and inserted, bank entries loading: types; `sdcard_loadPatch1` never finds a running patch on the dsp thread, which would wait for itself | 2 patches, 2 changes of the switch; 1,464,567 states |
| `link` | With acknowledgements in time, `HostLink` implements `RequestReply`: no task done before the board has carried it out; every task returns | queue of 2, 4 tasks of any kind with care for acknowledgements; 15,632 states |
| `reconnect` | Late acknowledgements, disconnection and connection at any point: types; `QCmdProcessor` gets an answer; both threads of the connection end | 1 task, queue of 1, 1 disconnection by the user besides those that tasks cause; 256,156 states |
| `usb` | The bytes implement `CommandChannel`: every command is carried out once, in order, with the bytes sent, and acknowledged; the receive queue drops nothing; a block reported uploaded is in the memory of the board | packets of 64 and a queue of 256 bytes as in the program; 3 commands of 7 kinds, among them blocks of 128 and 270 bytes, a preset and a file whose name fills a packet; 533,472 states |
| `params_board` | One thread changes and modulates: the modulation is kept; the patcher comes to show the board's values | 2 parameters, both modulated, 3 changes; 20,129 states |
| `params_shared` | Two patch threads, dials and presets: types; a change not sent is signalled, or about to be | 1 parameter, 3 changes; 437,818 states |
| `midi` | Serial and USB MIDI through the patch: the parser finds the messages there are; the events of the host, several to a transfer, are played once and in order; the output is a FIFO and leaves no whole event waiting; every write returns, every event is played in the end | queues and packets of two events, a clock within a note on the serial line, transfers of one, two or three different events, 3 events in all, 1 reset or suspension; 814,182 states |
| `services` | A patch runs only in memory that is its own; the ring of the host port hands messages on whole and in order; no event is skipped; what is queued is sent in the end; the record of a fault is kept until it has been reported, and no failure goes by without a report | ring of 4, transfers of 2 events, 2 messages of 1 or 2 events, 1 failed transfer; memory for 2 of 3 blocks, 2 patches, 1 reset or fault; 1,062,438 states |
| `audio` | Undisturbed, the two rings stay in step, the program makes up for the slips of the clocks before they add up to too much, and neither ring runs dry or over; after a disturbance the program comes to run both again with sizes that agree with the offsets | clocks that agree, gain or lose; 3 exchanges of 3 units per frame, metrics every 4 frames, a slip every 9 frames with a jitter of 1, 1 disturbance; 3,854,351 states |
| `audio_level` (violation) | Opening a stream raises the ring to the host above the size it should have, although the clocks agree | as `audio`, without slips and disturbances |

Why the bounds suffice. The patches differ only in name, and two are enough for one
to replace another or to be mixed with it. Host commands are not bounded. The card
switch needs two changes for "removed and inserted again during one load". Two rounds
is the most a modelled task has, and four tasks let a stale acknowledgement pass
through several successors; a queue of two is full while a third is at work. Three
changes let two of them overlap and a third come after; the second parameter matters
to the loop over targets and to the rotation of `PExTransmit`, and has no other
effect on the first.

In `usb` the sizes are those of the program; a block of 270 fills the queue while the
board is busy, so that the endpoint stops and `inotify` has to start it again, and one
of 128 fills its packets; three commands put a command before and behind these. In
`midi` a queue and a packet have the same size, as in the program (64 bytes there, two
events here): a transfer of three events takes two packets, events share a packet and the
queue, and four messages sent on fill the output queue behind a packet and make threads
wait. The patch sends on what the host plays and the note of the serial line, but not the
clock. In `services` two
messages fill the ring, so that it overflows, or wraps around when the first is taken;
one fault with a patch before and one after it is what overwriting its record takes. In
`audio` a frame has as many exchanges as in the program (three), and the ring three
frames. A slip of a block is three adjustments; the program spreads them over one to two
times the gap between slips, so that a slip is not made up for when the next one comes
(TLC shows a state of that kind), as at the 100 ppm of the code's comments. The scale of
the program itself (a block of 16 units, 100 frames) is out of reach; with blocks of 16,
periods of 10 and gaps of 50 to 60 frames with a jitter of 4, undisturbed, TLC finds
`KeepsUp` and `StaysInSync` to hold as well. The run has gaps of one length: with slips
closer than the make-up can follow (gaps of 5 frames) `KeepsUp` fails, as it must, and
`InStep` still holds. A disturbance comes within 4 frames of a slip, and streams are
opened beside another or closed with clocks that agree. `Jitter` is one frame: the
jitter of crystals lasts a fraction of the gap between slips, and so it does here.

Fairness. The board's: the audio interrupt keeps coming and `ui`, the highest
priority of the modelled threads, runs when it can (weak); threads it preempts get
the processor again and again (strong, because they are disabled while `ui` runs);
`TakeLoad` and `TakeStart` are strongly fair because a cycle that ends before the
next interrupt leaves a moment when the cycle event is not pending. In `HostLink`
each thread of the operating system goes on if it can (weak), the graphical interface
handles what was posted to it, and the user connects again; in `ParamExchange`, `ui`
goes round its loop. In `BulkLink`, `ThreadUI` goes round its loop, the host
controller repeats a packet until the board takes it, and the Transmitter ends the
command it has begun (weak); `CommandChannel` promises to carry out what does not wait
for the next command. In `MidiThru` threads and interrupts are served (weak). In
`PatchServices` the host thread is scheduled and frames start every millisecond
(weak); a device that is asked again and again takes the transfer at last (strong). In
`UsbAudio` codec and host keep their pace: some interrupt that is due is served (weak, one
condition for exchanges and callbacks together, since a frame has only so many of each). No fairness is assumed of the user's
commands, the card, the patch's requests, a host that resets, suspends, resumes or
configures the device, nor of who plugs or unplugs it.

Deadlock is checked in the life-cycle runs. In the other runs the bound on tasks,
commands or changes lets the system come to rest, so their configurations say
`CHECK_DEADLOCK FALSE`; liveness properties stand in for it.

### Findings

One disagreement between the code and what it says of itself is kept as a run that
ends in a violation; `PROJECT.json` quotes the lines.

`audio_level`: `audio_usb.c:869` wants "to maintain TX_RING_BUFFER_NORMAL_SIZE samples
available at the end of this method". Opening a stream calls `aduInitiateTransmitI`
(`audio_usb.c:519`) in the state `asInit`, so that no reset follows, and
`aduCodecFrameEnded` has counted a frame in which the codec has exchanged nothing. The
adjustment then plays 96 samples twice that were never missing, two at a time, and the ring
to the host rises by a transfer. When it holds `TX_RING_BUFFER_FULL_SIZE`, the size computed
from the offsets is 0 (`audio_usb.c:936-942`), which is an error: the rings are emptied and
filled again, now with the metrics at 0, and the size is right from then on. So every
opening of a stream costs a delay that grows by up to a millisecond, and a gap.

### What else TLC showed

These are not runs of the project. Some disagree with a comment of the code; others say
why runs have the actors they have.

Life cycle:

- `main.c:159` tests `patchStatus != RUNNING` where its comment says "no patch booting
  or running yet": it asks for the flash patch while that of the card is booting.
- `AxoF` "assumes patch is stopped" (`pconnection.c:366`). A load the patch has
  requested outlives `StopPatch`, and `StopPatch` returns at once in the middle of a
  load: a region being loaded is copied to flash.
- `sysmon` runs before the dsp thread exists; when a card is missing at boot its
  request for the flash patch goes to a null thread (`sysmon.c:110`).
- `RunningIsInstalled` fails when a patch may request a load: `TakeLoad` disposes of
  the patch while the status is still RUNNING.
- `CommandsReturn` fails with the host and any of `load`, `index`, `card`, or `boot`:
  the polls of `StopPatch` and `StartPatch` can miss the status they wait for.
- `StartPatch` can report a STARTFAILED that an earlier boot left behind.

Link and bytes:

- `QCmdStart` clears the flag once for two acknowledged commands, so that "Done
  starting patch." (`QCmdStart.java:63`) is said on the acknowledgement of "AxoU".
- `OneByOne` fails with `Timeouts`, or with the task `preset`, whose acknowledgement
  nobody waits for and which therefore satisfies the next wait.
- `CarriedOutAsSent` fails with `Torn`: a MIDI message written between the header and
  the block of another command is taken for the beginning of the block.
- It fails for an append of length 0 (`QCmdUploadFile.java:129`): the decoder takes a
  byte for data before it looks at the length, and the next command loses its first.
- `BlockUploaded` fails without its premise (`Prompt`). A block that fills its last
  packet stays with the endpoint, and so does a file to be created with a name of 49
  characters; its acknowledgement comes late and is taken for that of the next block.
  So is that of a preset, for which `QCmdUpdatePreset` does not wait.
- Commands that fill their packets may pile up in the endpoint: one of them does not
  release those before it (`Releases` in `CommandChannel`).

Parameters:

- `modvalue` is "parameter value after modulation" (`parameters.h:41`), except after
  `ui` has come between its load and its store (`parameters.c:37`): `ModulationKept`
  fails with the host and modulation.
- Changes that cross each other between board and patcher leave them with different
  values; `PatcherFollows` is therefore checked for changes of the board.

MIDI and services:

- `WritesReturn` fails with a suspension: with a full queue and no transfer under way,
  nobody starts one after the bus resumes, and the writer waits for ever. `TailIsShort`
  is stated without a suspension for the same reason.
- The bytes of two writers mix within an event when both wait for room.
- After a reset `ThreadUSBDMidi` plays its last message again, since it does not look
  at how much it has read; one in the middle of an event loses its place.
- The host thread may look at the state of a transfer under way and send it again
  (`usbh_midi_core.c:579`); input that keeps signalling the thread makes it do so for
  ever, hence the premise of `EventuallyTaken`.
- With two senders `RingInOrder` does not hold: they take the same slot. A message
  that ends after the device was unplugged is put into a ring without a device, and is
  forgotten when the next one is found.

Record of exceptions:

- `ui` may report between the stores of `magicnumber` and `type` (`exceptions.c:352`):
  the host is told the type of an earlier record, and this one is lost.
- `LogTextMessage` drops its text when a preempted thread holds `LogMutex`
  (`pconnection.c:148`); `exception_checkandreport` clears the record all the same.
- `sdram_malloc` reports the total, which is negative (`axoloti_memory.c:37`);
  `StartPatch1` would report it with the sign changed, but finds the record taken: the
  host reads "SDRAM overflow by -8 bytes".

Audio:

- With `SendsFirst = FALSE`, a slow slip and an adjustment to come, the ring from the
  host holds more than 288 samples and `StaysInSync` fails.
- `KeepsUp` fails with slips that come before the program can have made up for the last
  ones, and with a jitter as long as half the gap between them: a make-up takes as long as
  the program believes the gap to be (`audio_usb.c:902-915`), and it counts the gap in whole
  periods without a slip.
- An interrupt between the load and the store of an offset, a used size or the sample count
  loses an update; a lost update of a ring is found at the next frame, and the program
  starts both rings again. A lost zeroing of the count is made up for as if it were a slip.
- `aduCodecFrameStarted`, and the store of `asNormal` at the end of an exchange, may
  overwrite `asNeedsReset`; the error is then found again by the comparison of sizes and
  offsets.

## 4. What is proved

All for every value of the constants, and checked by TLAPS.

| Theorem | States | Assumes |
|---|---|---|
| `PatchLifecycleProofs!TypeCorrect` | `Spec => []TypeOK` | constants' assumption |
| `PatchLifecycleProofs!DspNeverStopsItself` | `Spec => []NeverStopsItself` | all actors may act |
| `PatchLifecycleProofs!HostRunningIsInstalled` | `Spec => []RunningIsInstalled` | `HostAlone`: no actor besides the host |
| `PatchLifecycleProofs!HostStoppedMeansStopped` | `Spec => []StoppedMeansStopped` | `HostAlone` |
| `PatchLifecycleProofs!HostRegionSafe` | `Spec => RegionSafe`, the refinement of `PatchRegion` | `HostAlone` |
| `PatchLifecycleProofs!BoardRegionSafe` | `Spec => RegionSafe` | `Standalone`: no host and no card switch; the board boots, and its patches load one another |
| `HostLinkProofs!TypeCorrect` | `Spec => []TypeOK` | constants' assumption |
| `HostLinkProofs!TasksOneByOne` | `Spec => OneByOne`, the refinement of `RequestReply` | `PoliteAlone`: careful tasks, no time-outs, nobody disconnects |
| `ParamExchangeProofs!TypeCorrect` | `Spec => []TypeOK` | constants' assumption |
| `ParamExchangeProofs!NoChangeLost` | `Spec => []ChangesReported` | any writers, host, presets |
| `ParamExchangeProofs!ModulationKeptAlone` | `Spec => []ModulationKept` | one writer, no host, no presets |
| `BulkLinkProofs!TypeCorrect` | `Spec => []TypeOK`: the decoder stays in its type whatever bytes arrive | constants' assumption |
| `BulkLinkProofs!PacketsFit` | `Spec => []NothingDropped` | any commands, torn or not |
| `BulkLinkProofs!CarriedOutInOrder` | `Spec => Channel!Steps`, the safety half of `CarriedOutAsSent` | packets of a command stay together (`~Torn`); every command is `Complete` |
| `BulkLinkProofs!BlocksAreThere` | `Spec => []BlockUploaded` | as above (and the premise of the property) |
| `MidiThruProofs!TypeCorrect` | `Spec => []TypeOK` | constants' assumption |
| `MidiThruProofs!TransfersFit` | `Spec => []NothingDropped` | resets and suspensions at any point |
| `MidiThruProofs!BytesStayInOrder` | `Spec => []Fifo` | as above |
| `MidiThruProofs!EventsAreStarted` | `Spec => []TailIsShort` | as above (the property has its own premise) |
| `MidiThruProofs!EventsPlayedOnce` | `Spec => []PlayedOnce` | as above (until a reset, by its premise) |
| `MidiThruProofs!SerialIsHeard` | `Spec => []SerialHeard` | whatever bytes arrive |
| `PatchServicesProofs!TypeCorrect` | `Spec => []TypeOK` | constants' assumption |
| `PatchServicesProofs!PatchRunsInItsMemory` | `Spec => []RunsInItsMemory` | any memory, any sizes asked for |
| `PatchServicesProofs!RingHandsOnInOrder` | `Spec => []RingInOrder` | any ring, any messages |
| `PatchServicesProofs!NothingIsSkipped` | `Spec => []NoneSkipped` | transfers fail, repeat and are signalled early at will |
| `PatchServicesProofs!FaultsAreTold` | `Spec => []FaultKept` | faults and resets at any point |
| `PatchServicesProofs!FailuresAreTold` | `Spec => []NoneUntold` | as above |
| `UsbAudioProofs!TypeCorrect` | `Spec => []TypeOK` | any disturbances, clocks that slip or not |
| `UsbAudioProofs!RingsInStep` | `Spec => []InStep` | as above (undisturbed, by its premise); slips may outrun the make-up, but two are more than three frames and the jitter apart |
| `UsbAudioProofs!RingsStayInSync` | `Spec /\ []KeepsUp => StaysInSync` | `SendsFirst`: within a frame the host sends before it asks; the program keeps up, which the run checks |
| `UsbAudioProofs!AgreeingClocks` | `Spec => []KeepsUp /\ StaysInSync` | `SendsFirst`; clocks that agree |

The arguments.

- *The dsp thread never stops itself.* `NeverStopsItself` is not inductive: it needs
  to know that the status is not RUNNING when `FileCheck` runs. `LoadsStopped` says
  this for every program counter from the end of `StopPatch1` to `FileCheck`, also
  on the way back from a bank entry that does not run. It is kept because only the
  dsp thread sets RUNNING (`ToRun`), whatever the other threads store.
- *The host alone.* `HostInv` ties the two threads together: `HostOnly` (program
  counters that occur), `DspInv` (what is alive and installed at each point of the
  dsp thread), `StartInv` (the dsp thread starts a patch only while `ui` waits for
  it, so nobody writes the region meanwhile), `UiInv` (what the status can be at each
  point of `ui`, and that the dsp thread is `Resting` once `ui` has seen STOPPED).
  None of the parts is inductive without the others. The refinement then maps each
  step to a step of `PatchRegion` or to a stutter.
- *The board alone.* A board without host and card switch starts from the card or from flash,
  and its patches load one another by index, by name or from flash. The requests now come
  at any time, but only the dsp thread stops, writes and starts, so `BoardInv` is about
  one thread: `Between` two requests a patch is alive just when the status is RUNNING,
  while it is `Fetching` one nothing is alive and no pointer is set, and a patch that can
  be started is all there. The status must not be RUNNING while it fetches either, or
  `StopPatch1` would be skipped when a bank entry does not run and the start-up file is
  loaded over it. `BoardSteps` says which threads act at all.
- *Types of the link.* `Within` strengthens `TypeOK`: while the Transmitter is inside
  a round, its task has that round. It says that the loop over the rounds of a task
  stops at the last one.
- *No change lost.* The order of the code matters: a value is stored before its
  signal is set, and `PExTransmit` reads the value, then clears the signal. Whoever
  has stored a value and not set the signal yet is at one of three program counters.
- *Modulation.* `Kept` follows one writer through its change: `SettledKept` at rest,
  `ChangeKept` for each step between the subtraction of the old and the addition of
  the new value, `ModKept` for the loop over targets, in which the targets already
  done have the new contribution and the others the old one.

- *One by one.* A careful task clears the flag before it writes. `Turns` then says, for
  each program counter of the Transmitter, where the one acknowledgement it waits for
  is: the command on the wire, `ackPending`, the reply on its way, or the flag
  (`AckAhead`); when the Transmitter does not wait, it is nowhere (`NoAck`), but for
  a dial, which is not acknowledged. `Undisturbed` keeps disconnection out.
  The refinement needs no more: the board has carried out what the flag says.
- *The endpoint.* `UsbReceiveProofs` holds the lemmas that both drivers rest on: a
  transfer asks for whole packets only, as many as fit the room; each packet takes as
  much from the transfer as it adds to the buffer; a reader only makes room.
  `BulkLinkProofs` and `MidiThruProofs` instantiate it with the sizes of each driver.
- *The decoder.* Each of the branches of `PExReceiveByte` leads from a decoder of the
  type to one of it, for each of the 256 bytes (`Outcome`).
- *Carried out as sent.* `Decoded` says what the decoder holds after each number of bytes
  of a command (`After`), and that the last one completes the command; it rests on the
  place and the encoding of the length (`LengthIsRead`, `Inserted`) and, for a file, on
  where the name ends. `CarryInv` says that the bytes on their way (transfer, buffer and
  queue, and the data still to be written), after those the decoder has seen, spell the
  commands sent and not carried out (`Spells`: a function gives the place where each one
  ends). Writing appends the bytes of a command, the endpoint moves them on, and reading
  takes off the first. That every command is `Complete` (its data are not empty and
  their length fits an `int`, its name has one end) is checked for the commands of the
  run (`AllComplete`).
- *Blocks.* With no transfer that fills its packets, nothing is left in the buffer
  when the host has sent all (`Short`): when nothing moves any more (`Quiet`), everything has been
  carried out. Otherwise the Transmitter goes on because of an acknowledgement, and there is
  one at a time: for the command it waits for, once that has been carried out, and on
  its way at one place (`OneAnswer`); what else is waiting is not acknowledged (`Unanswered`).
- *The serial input.* The reference, `MessagesIn`, looks back from each byte: for the last
  status byte, for the parity of the data since, for the last datum. `HeardInv` says that
  the parser's variables are what this looking back finds (`Knows`), and the messages handed on those that end at each byte (`Told`). That there is a last
  status byte below a place is induction over the length of the input
  (`WellFoundedInduction` of the library, applied to a set).
- *MIDI output.* `Fifo` and `TailIsShort` are inductive together with the
  types of the queue, the packet and what the host has not seen (`OutputInv`).
- *Events of the host.* `Stages` lays the four places a byte passes through end to end
  (what a thread has read of an event, the queue, the packets received, the wire) and
  says that together they are the bytes of the events, in order, from the
  one after the last played. Each step moves bytes over the border of two places.
- *Memory.* Blocks lie below `current` and apart from each other as long as the total
  is not negative, and the total is at most the room above `current`. A block that does
  not fit is taken off the total all the same: the total is then negative for good, and
  `StartPatch1` refuses the patch. Neither half is inductive without the other.
- *The ring of the host port.* What has been published and not taken is what lies
  between the two pointers (`HoldsPending`); a message half filled in lies beyond it
  (`Begun`), or has been begun while the device was enumerated, when the ring seemed full,
  and is given up (`Stale`); `CopyInv` covers the host thread between moving its pointer and
  reading the slot; `SentInv` ties the transfer buffer to what the device has taken.
- *The record.* `RecordInv` adds to `FaultKept` that no thread is in the middle of a
  report while the record of a fault is there: the reset has ended them, and a later one
  finds the record taken.
- *USB audio.* An exchange takes many steps, so the invariant is about the record as the
  exchange under way will leave it: nothing but its own stores changes that record until it
  is over, or else it has been preempted and `clean` is false. `Filling` says how many
  frames the rings have been filling for and that the first two must agree with the host's
  for the program to let them run; it is what limits a slip to one while they fill.
  `Running` says that the size of the ring to the host is a transfer and what the program
  has counted and not made up for, that the other ring has what this one lacks, and that
  the offsets tell the sizes. None of this says how large the sizes are: the clocks may
  run off as far as they like, and the program finds a ring that has run over by its
  offsets. `RingsStayInSync` adds `KeepsUp` for the end of the frame and follows the
  size within it (`Going`): exchanges only add to the ring to the host, and the ring from the
  host lacks what that one has too much of, which is where the host has to send first.
  For clocks that agree `AtPace` closes the gap: what has been counted is the exchanges a
  frame has had, so there is never anything to make up for.

Only model-checked: liveness, and with it what `CommandChannel` promises to be carried out
in the end; that the make-up keeps up with clocks that slip (`KeepsUp`), which is a matter
of their scale; and the life cycle when the host or the card switch meets a boot or a load the
patch asks for, beyond `TypeOK` and `NeverStopsItself`. `RegionSafe` is not to be had
there, as TLC shows. A `StopPatch` of the host that comes while a load is under way finds
the status STOPPED and returns at once: the load starts its patch and the host writes over
it. And a `StopPatch` of `sysmon` that is on its way when the dsp thread starts a patch
clears the pointers of the new one, which the next load then does not dispose of. Liveness under fairness and `ENABLED` are beyond the prover used
here. Induction is not, as long as it is over a set: what the operators compute is stated
for the inputs of any length.

## 5. What is not modelled

- *The SPI link* (`spilink.c`, `spidb.c`). Two DMA engines clocked by one of two boards;
  what can go wrong is which half of a buffer the hardware is in when software looks.
- *Of exceptions:* the texts and registers of a record, the DFU loader, writing to flash,
  and the watchdog, which is switched off (`watchdog.c:25`).
- *Of the drivers:* the transmit side of `bulk_usb.c`, the control requests of USB audio
  (rate, volume, mute), the start of the drivers at boot.
- *Of MIDI:* the input of the host port, and the serial output, whose queue belongs to
  the ChibiOS driver.
- *Of the commands:* what file, directory and memory commands do once they have been
  decoded; the log buffer; the answers of the board other than acknowledgements; the file
  list of the patcher.
- *Of the life cycle:* the penalty for an overloaded processor. The models assume that a
  cycle ends before the next audio interrupt (USB audio has the overload as a disturbance).
- *Codec, ADC and board:* register and DMA set-up. The audio interrupt is an action of
  `DspThread`, the clock of the codec one of `UsbAudio`.
- *DSP library and displays, descriptors, tables:* arithmetic, drawing and data without
  state that is shared between threads.
- *Flasher, mounter, patch editor and code generator:* one thread, straight through. What
  a generated patch does when it runs is in `DspThread` and `ParamExchange`.

The modules stand for a small share of the lines in the repository. Most of these are
vendored (ChibiOS, FatFs, CMSIS, the ST and Mutable Instruments libraries), tables and
register definitions, signal processing, and the patch editor. What threads, interrupts
and the two ends of the USB cable have to agree on is in a few thousand lines of
`firmware/` and `qcmds/`, and this is what the modules are about.

## 6. Plan

Done: the life cycle, the link, parameters, the bytes of the commands, the USB
endpoints, MIDI, the services of a patch, the exception record, USB audio; the proofs of section 4.

What is left, in order of importance. Each step brings its module, its properties with
a broken variant each, and its proofs where they are within reach.

1. The overload path of `ThreadDSP`: the penalty sleep, and which requests it delays.
2. The USB MIDI thread as a writer that alternates with `ui` in `ParamExchange`, and MIDI
   handlers that test the status and call the patch in `PatchLifecycle`.
3. `reconnect` with the bytes of `BulkLink` below it: a header without its block, and a
   board that stays in the middle of a command.
4. `SpiLink`: two boards, half-transfer events, resynchronisation.

The number of runs stays at about a dozen: components that interact are checked in one
run.
