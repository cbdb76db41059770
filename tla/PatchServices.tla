---------------------------- MODULE PatchServices ----------------------------
(***************************************************************************)
(* What the firmware gives a patch besides its thread: external memory     *)
(* while it is initialised (SdramAllocator) and MIDI to the host port      *)
(* while it runs (HostMidiOut), one patch after another.  When either is    *)
(* not enough it leaves a record (ExceptionRecord); so does a fault.        *)
(***************************************************************************)
EXTENDS SdramAllocator, HostMidiOut, ExceptionRecord

CONSTANTS Sizes,      \* what a patch asks for
          MaxBlocks,  \* bounds: how often it does,
          MaxSends,   \* how many messages are sent,
          MaxPatches, \* how many patches are started,
          MaxResets   \* and how often the board is reset

ASSUME PatchServicesAssumption ==
    Sizes \subseteq Nat /\ MaxBlocks \in Nat /\ MaxSends \in Nat /\ MaxPatches \in Nat
    /\ MaxResets \in Nat

VARIABLES patch,          \* "none", "init", "running"
          sends, patches, resets

counts == <<sends, patches, resets>>
vars   == <<sdram, hvars, record, patch, counts>>

TypeOK ==
    /\ current \in 0..SdramSize /\ total \in Int
    /\ blocks \in Seq([at : Nat, size : Nat])
    /\ HostTypeOK
    /\ RecordTypeOK
    /\ patch \in {"none", "init", "running"}
    /\ sends \in 0..MaxSends /\ patches \in 0..MaxPatches /\ resets \in 0..MaxResets

Init ==
    /\ current = 0 /\ total = SdramSize /\ blocks = <<>>
    /\ HostInit
    /\ RecordInit
    /\ patch = "none" /\ sends = 0 /\ patches = 0 /\ resets = 0
-----------------------------------------------------------------------------
(* The thread of the patch, when it is not at a report *)

\* StartPatch1 calls the patch, which calls sdram_init first.
StartPatch ==
    /\ patch = "none" /\ patches < MaxPatches
    /\ patch' = "init" /\ patches' = patches + 1
    /\ SdramInit
    /\ UNCHANGED <<hvars, record, sends, resets>>

\* A patch made for another firmware returns before that.
Mismatch ==
    /\ patch = "none" /\ patches < MaxPatches
    /\ patches' = patches + 1
    /\ Report("crc")
    /\ UNCHANGED <<sdram, hvars, patch, sends, resets>>

Allocate ==
    /\ patch = "init" /\ Len(blocks) < MaxBlocks
    /\ \E size \in Sizes :
          /\ Malloc(size)
          /\ IF Fits(size) THEN UNCHANGED record ELSE Report("sdram")
    /\ UNCHANGED <<hvars, patch, counts>>

\* When it has asked for too much it does not run.
Started ==
    /\ patch = "init"
    /\ IF total < 0
         THEN patch' = "none" /\ Report("sdram")
         ELSE patch' = "running" /\ UNCHANGED record
    /\ UNCHANGED <<sdram, hvars, counts>>

StopPatch ==
    /\ patch = "running" /\ senderPc = "idle"
    /\ patch' = "none"
    /\ UNCHANGED <<sdram, hvars, record, counts>>

PatchSends ==
    /\ patch = "running" /\ sends < MaxSends
    /\ \E m \in Messages : Send(m)
    /\ sends' = sends + 1
    /\ UNCHANGED <<sdram, record, patch, patches, resets>>

PatchFills ==
    /\ Fill
    /\ IF After(next) = read_ptr THEN Report("ring") ELSE UNCHANGED record
    /\ UNCHANGED <<sdram, patch, counts>>

PatchPublishes == Publish /\ UNCHANGED <<sdram, record, patch, counts>>

PatchReports ==
    /\ SetMagic \/ SetType
    /\ UNCHANGED <<sdram, hvars, patch, counts>>

DspThread ==
    \/ /\ reporter = "idle"
       /\ \/ StartPatch \/ Mismatch \/ Allocate \/ Started \/ StopPatch
          \/ PatchSends \/ PatchFills \/ PatchPublishes
    \/ PatchReports
-----------------------------------------------------------------------------
(* The rest of the board *)

Ui ==
    /\ CheckAndReport \/ FileError
    /\ UNCHANGED <<sdram, hvars, patch, counts>>

HostThread ==
    /\ ProcessOutput \/ Advance \/ Copy
    /\ UNCHANGED <<sdram, record, patch, counts>>

Device ==
    /\ \/ Plug \/ Found \/ Unplug
       \/ Taken \/ NotReady \/ Failed
       \/ SOFProcess \/ OtherSignal
    /\ UNCHANGED <<sdram, record, patch, counts>>

\* A fault of any thread, or a reset from outside: only the record is left.
Reset ==
    /\ resets < MaxResets /\ resets' = resets + 1
    /\ Fault \/ \E brownout \in BOOLEAN : ExceptionInit(brownout)
    /\ patch' = "none"
    /\ SdramInit
    /\ HostRestart
    /\ UNCHANGED <<sends, patches>>
-----------------------------------------------------------------------------
Next == DspThread \/ Ui \/ HostThread \/ Device \/ Reset

Spec == Init /\ [][Next]_vars

\* The thread of the host is scheduled, frames start every millisecond, and a
\* device that is not ready takes the transfer in the end.
FairSpec ==
    /\ Spec
    /\ WF_vars(HostThread)
    /\ WF_vars(SOFProcess /\ UNCHANGED <<sdram, record, patch, counts>>)
    /\ WF_vars((Taken \/ NotReady) /\ UNCHANGED <<sdram, record, patch, counts>>)
    /\ SF_vars(Taken /\ UNCHANGED <<sdram, record, patch, counts>>)
-----------------------------------------------------------------------------
(* Properties *)

\* patch.c:279: a patch runs only with all the memory it has asked for, although
\* it is told so after all its requests and gets an address for each.
RunsInItsMemory == patch = "running" => BlocksFit

\* What has been put into the ring is sent, whatever the order in which the
\* transfer ends and the host thread looks at it, as long as there is a device and
\* its input does not keep the thread from ever seeing the end of a transfer
\* (usbh_midi_core.c:579).
EventuallyTaken ==
    <>[][~OtherSignal]_vars => (pending # <<>> ~> pending = <<>> /\ untaken = <<>>)
=============================================================================
