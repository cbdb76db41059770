----------------------------- MODULE PatchState -----------------------------
(***************************************************************************)
(* The state the threads of the Ksoloti firmware share to load, start, run *)
(* and stop a patch, and StopPatch, which three of the threads run.        *)
(*                                                                         *)
(* The threads are main (the boot sequence), dsp (ThreadDSP, the only one  *)
(* that runs the patch), ui (ThreadUI, which serves the host's commands)   *)
(* and sysmon (ThreadSysmon, which watches the card switch).  patchStatus, *)
(* patchMeta, loadPatchIndex, loadFName, the event mask of dsp and the     *)
(* region PATCHMAINLOC are shared without a lock.  A program counter moves *)
(* at every access to one of these.  ui has a higher priority than the     *)
(* others: they only move while it sleeps or waits for bytes from the      *)
(* host.                                                                   *)
(***************************************************************************)
EXTENDS Naturals


CONSTANTS
    Patches,    \* the patch binaries that exist
    Features,   \* the actors that act besides the dsp thread
    MaxToggles  \* bound: how often the card is inserted or removed

(***************************************************************************)
(* host: commands over USB; boot: start from reset instead of from an idle *)
(* system; card: the card switch changes; load, index: a running patch     *)
(* requests another one by file name, by position in the bank file.        *)
(***************************************************************************)
AllFeatures == {"host", "boot", "card", "load", "index"}

\* Contents of the region, or of the flash copy of it, that are no patch.
Garbage == {"erased", "partial", "torn", "bank"}

ASSUME ConstantsAssumption ==
    /\ Features \subseteq AllFeatures
    /\ MaxToggles \in Nat
    /\ Patches \cap Garbage = {}
    /\ Patches # {}

VARIABLES
    status,     \* patchStatus
    events,     \* pending events of the dsp thread
    loadIdx,    \* loadPatchIndex
    loadName,   \* loadFName: empty, the start-up file, or some other file
    meta,       \* patchMeta: which of the pointers that matter here are set
    image,      \* contents of PATCHMAINLOC
    flash,      \* contents of PATCHFLASHLOC
    fsReady,    \* fs_ready
    cardIn,     \* the card switch
    cardPrev,   \* sdcsw_prev, negated: a card was present at the last look
    toggles,    \* how often the card switch has changed
    pc,         \* where each thread is
    job,        \* what the dsp thread runs StopPatch1 or StartPatch1 for
    fallback,   \* the dsp thread is loading a bank entry
    cmd,        \* the host command ui stops the patch for
    host,       \* what the host has been told of the patch
    live        \* the code in the region has been started and not disposed of

patch   == <<status, meta, live>>
request == <<loadIdx, loadName>>
signals == <<events, request>>
memory  == <<image, flash>>
card    == <<fsReady, cardIn, cardPrev, toggles>>
dspVars == <<job, fallback>>
uiVars  == <<cmd, host>>
vars    == <<patch, signals, memory, card, pc, dspVars, uiVars>>

Threads == {"main", "dsp", "ui", "sysmon"}

StopPCs  == {"stopCheck", "stopSet", "stopWait", "dispose", "threads",
             "reset", "clear", "stopEnd"}
PCs == StopPCs \cup
       {"none", "done", "idle",                                  \* any thread
        "pre", "createDsp", "createUi", "mount", "bootSD",           \* main
        "bootCheck", "bootFlash",
        "wait", "process", "cycleEnd", "dispatch", "copyFlash",      \* dsp
        "readBank", "scan", "fileCheck", "selfWait", "openSleep", "open",
        "read", "readSleep", "init", "constructed", "initCheck", "toRun",
        "started",
        "upload", "act", "startCheck", "startWait",                  \* ui
        "unmount", "reqFlash", "cardMount", "reqSD"}                 \* sysmon

NoMeta == [dispose |-> FALSE, process |-> FALSE]

TypeOK ==
    /\ status \in {"RUNNING", "STOPPED", "STOPPING", "STARTFAILED"}
    /\ events \subseteq {"cycle", "load", "start"}
    /\ loadIdx \in {"sd", "flash", "name", "live", "uninit", "index"}
    /\ loadName \in {"empty", "startbin", "other"}
    /\ meta \in [dispose : BOOLEAN, process : BOOLEAN]
    /\ image \in Patches \cup Garbage
    /\ flash \in Patches \cup Garbage
    /\ fsReady \in BOOLEAN
    /\ cardIn \in BOOLEAN
    /\ cardPrev \in BOOLEAN
    /\ toggles \in 0..MaxToggles
    /\ pc \in [Threads -> PCs]
    /\ job \in {"cycle", "load", "start", "sdram"}
    /\ fallback \in BOOLEAN
    /\ cmd \in {"stop", "flash"}
    /\ host \in {"any", "stopped", "uploaded"}
    /\ live \in BOOLEAN

(***************************************************************************)
(* From reset, patchStatus is 0, which is RUNNING, and ui and dsp do not   *)
(* exist yet.  Without "boot" the system is idle: everything has started,  *)
(* and no patch.                                                           *)
(***************************************************************************)
Init ==
    /\ events = {}
    /\ loadIdx = "uninit"
    /\ loadName = "empty"
    /\ meta = NoMeta
    /\ image = "erased"
    /\ flash \in Patches \cup {"erased"}
    /\ cardIn \in BOOLEAN
    /\ fsReady \in {FALSE, cardIn}
    /\ toggles = 0
    /\ job = "cycle"
    /\ fallback = FALSE
    /\ cmd = "stop"
    /\ host = "any"
    /\ live = FALSE
    /\ IF "boot" \in Features
         THEN /\ status = "RUNNING"
              /\ cardPrev = TRUE
              /\ pc = [main |-> "pre", dsp |-> "none", ui |-> "none",
                       sysmon |-> IF "card" \in Features THEN "idle" ELSE "none"]
         ELSE /\ status = "STOPPED"
              /\ cardPrev = cardIn
              /\ pc = [main |-> "done", dsp |-> "wait", ui |-> "idle",
                       sysmon |-> IF "card" \in Features THEN "idle" ELSE "none"]
-----------------------------------------------------------------------------
(* Scheduling *)

\* ui sleeps, waits for the host, or does not exist.
UIBlocked == pc["ui"] \in {"none", "idle", "upload", "stopWait", "threads", "startWait"}

\* Thread t moves from one program counter to another.
Goto(t, from, to) ==
    /\ pc[t] = from
    /\ t = "ui" \/ UIBlocked
    /\ pc' = [pc EXCEPT ![t] = to]

(***************************************************************************)
(* A sleep of the dsp thread in the load path takes 10 ms; the poll of     *)
(* StopPatch is repeated every 1 ms.  So whoever waits for STOPPED has     *)
(* seen it before such a sleep is over.                                    *)
(***************************************************************************)
SleepOver == \A t \in {"ui", "sysmon"} : ~(pc[t] = "stopWait" /\ status = "STOPPED")

\* What a writer that took its time leaves in the region: its data if nobody
\* else wrote meanwhile.
Filled(data) == IF image = "partial" THEN data ELSE "torn"

\* chEvtSignal(pThreadDSP, ...): lost while the thread does not exist.
Signal(e) == events' = IF pc["dsp"] = "none" THEN events ELSE events \cup {e}

\* Mutant: the two stores of LoadPatch exchanged.
RequestSwapped(idx, name) == loadIdx' = name /\ loadName' = idx /\ Signal("load")

\* A LoadPatch* function: store what to load and signal the dsp thread.
Request(idx, name) == loadIdx' = idx /\ loadName' = name /\ Signal("load")
-----------------------------------------------------------------------------
(* StopPatch and StopPatch1, run by the dsp, ui and sysmon threads *)

\* Where thread t continues when StopPatch returns.
AfterStop(t) == IF t = "ui" THEN "act" ELSE "unmount"

StopCheck(t) ==
    /\ Goto(t, "stopCheck", IF status = "RUNNING" THEN "stopSet" ELSE AfterStop(t))
    /\ UNCHANGED <<patch, signals, memory, card, dspVars, uiVars>>

StopSet(t) ==
    /\ Goto(t, "stopSet", "stopWait")
    /\ status' = "STOPPING"
    /\ UNCHANGED <<meta, live, signals, memory, card, dspVars, uiVars>>

StopWait(t) ==
    /\ status = "STOPPED"
    /\ Goto(t, "stopWait", "dispose")
    /\ UNCHANGED <<patch, signals, memory, card, dspVars, uiVars>>

\* StopPatch1 disposes of the patch if it registered how, then waits for the
\* threads the patch had started.
Dispose(t) ==
    /\ Goto(t, "dispose", IF meta.dispose THEN "threads" ELSE "reset")
    /\ live' = (live /\ ~meta.dispose)
    /\ UNCHANGED <<status, meta, signals, memory, card, dspVars, uiVars>>

ThreadsGone(t) ==
    /\ Goto(t, "threads", "reset")
    /\ UNCHANGED <<patch, signals, memory, card, dspVars, uiVars>>

\* InitPatch0: the status first, then the pointers.
Reset(t) ==
    /\ Goto(t, "reset", "clear")
    /\ status' = "STOPPED"
    /\ UNCHANGED <<meta, live, signals, memory, card, dspVars, uiVars>>

Clear(t) ==
    /\ Goto(t, "clear", "stopEnd")
    /\ meta' = NoMeta
    /\ UNCHANGED <<status, live, signals, memory, card, dspVars, uiVars>>

\* The SetPatchStatus that follows StopPatch1 at each of its call sites.
StopEnd(t) ==
    /\ Goto(t, "stopEnd",
            IF t # "dsp" THEN AfterStop(t)
            ELSE CASE job = "cycle" -> "cycleEnd"
                   [] job = "load"  -> "dispatch"
                   [] OTHER         -> "started")
    /\ status' = IF t = "dsp" /\ job = "sdram" THEN "STARTFAILED" ELSE "STOPPED"
    /\ UNCHANGED <<meta, live, signals, memory, card, dspVars, uiVars>>

StopPatch1Step(t) == Dispose(t) \/ ThreadsGone(t) \/ Reset(t) \/ Clear(t) \/ StopEnd(t)
StopPatchStep(t) == StopCheck(t) \/ StopSet(t) \/ StopWait(t) \/ StopPatch1Step(t)
=============================================================================
