----------------------------- MODULE DspThread ------------------------------
(***************************************************************************)
(* ThreadDSP: audio cycles, loading a patch, starting a patch.  The reads  *)
(* of the card, of the bank file and of the flash copy write the region    *)
(* step by step, with other threads in between.                            *)
(***************************************************************************)
EXTENDS PatchState

\* computebufI, called by the audio interrupt.  A cycle is over before the
\* next one is due: the model leaves out a patch that overloads the processor.
Tick ==
    /\ pc["dsp"] \notin {"none", "process", "cycleEnd"}
    /\ "cycle" \notin events
    /\ events' = events \cup {"cycle"}
    /\ UNCHANGED <<patch, request, memory, card, pc, dspVars, uiVars>>

\* Mutant: the event is handled but not cleared.
TakeCycleNotCleared ==
    /\ "cycle" \in events
    /\ Goto("dsp", "wait", CASE status = "RUNNING"  -> "process"
                             [] status = "STOPPING" -> "dispose"
                             [] OTHER               -> "cycleEnd")
    /\ job' = "cycle"
    /\ UNCHANGED <<patch, signals, memory, card, fallback, uiVars>>

\* chEvtWaitOne returns the lowest of the pending events: cycle before load
\* before start.
TakeCycle ==
    /\ "cycle" \in events
    /\ Goto("dsp", "wait", CASE status = "RUNNING"  -> "process"
                             [] status = "STOPPING" -> "dispose"
                             [] OTHER               -> "cycleEnd")
    /\ events' = events \ {"cycle"}
    /\ job' = "cycle"
    /\ UNCHANGED <<patch, request, memory, card, fallback, uiVars>>

\* Mutant: the load event does not stop the running patch first.
TakeLoadNoStop ==
    /\ "load" \in events /\ "cycle" \notin events
    /\ Goto("dsp", "wait", "dispatch")
    /\ events' = events \ {"load"}
    /\ job' = "load"
    /\ UNCHANGED <<patch, request, memory, card, fallback, uiVars>>

TakeLoad ==
    /\ "load" \in events /\ "cycle" \notin events
    /\ Goto("dsp", "wait", "dispose")
    /\ events' = events \ {"load"}
    /\ job' = "load"
    /\ UNCHANGED <<patch, request, memory, card, fallback, uiVars>>

TakeStart ==
    /\ events = {"start"}
    /\ Goto("dsp", "wait", "init")
    /\ events' = {}
    /\ job' = "start"
    /\ UNCHANGED <<patch, request, memory, card, fallback, uiVars>>

\* fptr_dsp_process: one block of audio; the patch may ask for another one.
Process ==
    /\ Goto("dsp", "process", "cycleEnd")
    /\ \/ UNCHANGED signals
       \/ "load" \in Features /\ Request("name", "other")
       \/ "index" \in Features /\ Request("index", "empty")
    /\ UNCHANGED <<patch, memory, card, dspVars, uiVars>>

CycleEnd ==
    /\ Goto("dsp", "cycleEnd", "wait")
    /\ UNCHANGED <<patch, signals, memory, card, dspVars, uiVars>>

\* After StopPatch1, the load event looks at what to load.
Dispatch ==
    /\ \/ /\ loadIdx = "flash"
          /\ Goto("dsp", "dispatch", "copyFlash")
          /\ image' = "partial"
          /\ UNCHANGED loadName
       \/ /\ loadIdx = "sd" \/ (loadIdx # "flash" /\ loadName # "empty")
          /\ Goto("dsp", "dispatch", "fileCheck")
          /\ loadName' = IF loadIdx = "sd" THEN "startbin" ELSE loadName
          /\ UNCHANGED image
       \/ /\ loadIdx \notin {"flash", "sd"} /\ loadName = "empty"
          /\ Goto("dsp", "dispatch", "readBank")
          /\ UNCHANGED <<loadName, image>>
    /\ UNCHANGED <<patch, events, loadIdx, flash, card, dspVars, uiVars>>

CopyFlash ==
    /\ Goto("dsp", "copyFlash", IF flash = "erased" THEN "wait" ELSE "init")
    /\ image' = Filled(flash)
    /\ UNCHANGED <<patch, signals, flash, card, dspVars, uiVars>>

\* The bank file is read into the patch region itself, or cannot be read to
\* its end.
ReadBank ==
    /\ \/ Goto("dsp", "readBank", "wait") /\ image' \in {image, "bank"}
       \/ cardIn /\ Goto("dsp", "readBank", "scan") /\ image' = "bank"
    /\ UNCHANGED <<patch, signals, flash, card, dspVars, uiVars>>

\* The entry is found, is the last line and not terminated, or does not exist.
Scan ==
    /\ \/ /\ Goto("dsp", "scan", "fileCheck")
          /\ loadName' = "other" /\ fallback' = TRUE
          /\ UNCHANGED loadIdx
       \/ /\ Goto("dsp", "scan", "wait")
          /\ UNCHANGED <<request, fallback>>
       \/ /\ Goto("dsp", "scan", "fileCheck")
          /\ loadIdx' = "sd" /\ loadName' = "startbin"
          /\ UNCHANGED fallback
    /\ UNCHANGED <<patch, events, memory, card, job, uiVars>>

\* sdcard_loadPatch1 starts with StopPatch: run by the dsp thread, that would
\* wait for a STOPPED that only the dsp thread sets.
FileCheck ==
    /\ Goto("dsp", "fileCheck", IF status = "RUNNING" THEN "selfWait" ELSE "open")
    /\ status' = IF status = "RUNNING" THEN "STOPPING" ELSE status
    /\ UNCHANGED <<meta, live, signals, memory, card, dspVars, uiVars>>

\* A failed f_chdir to the directory of the patch ends the load, one to the
\* root is ignored.  f_open may fail too, but its result is only looked at
\* after a sleep.
ChangeDir ==
    /\ \/ Goto("dsp", "open", "started") /\ loadName # "startbin"
       \/ Goto("dsp", "open", "openSleep")
    /\ UNCHANGED <<patch, signals, memory, card, dspVars, uiVars>>

OpenFile ==
    /\ SleepOver
    /\ \/ Goto("dsp", "openSleep", "started") /\ UNCHANGED image
       \/ cardIn /\ Goto("dsp", "openSleep", "read") /\ image' = "partial"
    /\ UNCHANGED <<patch, signals, flash, card, dspVars, uiVars>>

ReadFile ==
    /\ \/ Goto("dsp", "read", "started") /\ UNCHANGED image
       \/ /\ cardIn
          /\ Goto("dsp", "read", "readSleep")
          /\ \E p \in Patches : image' = Filled(p)
    /\ UNCHANGED <<patch, signals, flash, card, dspVars, uiVars>>

FileLoaded ==
    /\ SleepOver
    /\ Goto("dsp", "readSleep", "init")
    /\ UNCHANGED <<patch, signals, memory, card, dspVars, uiVars>>

\* StartPatch1 mounts the card, forgets fptr_dsp_process and calls the init of
\* the patch, which does nothing when it was built for another firmware.
PatchInit ==
    /\ \/ Goto("dsp", "init", "initCheck") /\ UNCHANGED live
       \/ Goto("dsp", "init", "constructed") /\ live' = TRUE
    /\ meta' = [meta EXCEPT !.process = FALSE]
    /\ fsReady' \in {fsReady, fsReady \/ cardIn}
    /\ UNCHANGED <<status, signals, memory, cardIn, cardPrev, toggles, dspVars, uiVars>>

\* Mutant: the patch does not register its dispose function.
PatchInitEndNoDispose ==
    /\ Goto("dsp", "constructed", "initCheck")
    /\ meta' = [dispose |-> FALSE, process |-> TRUE]
    /\ UNCHANGED <<status, live, signals, memory, card, dspVars, uiVars>>

\* Only when its objects are initialised does the patch set its pointers.
PatchInitEnd ==
    /\ Goto("dsp", "constructed", "initCheck")
    /\ meta' = [dispose |-> TRUE, process |-> TRUE]
    /\ UNCHANGED <<status, live, signals, memory, card, dspVars, uiVars>>

\* Mutant: the process function is not checked.
InitCheckNot ==
    /\ Goto("dsp", "initCheck", "toRun")
    /\ UNCHANGED <<patch, signals, memory, card, dspVars, uiVars>>

\* Mutant: a failed start is not recorded in the status.
InitCheckSilent ==
    /\ Goto("dsp", "initCheck", IF meta.process THEN "toRun" ELSE "started")
    /\ UNCHANGED <<patch, signals, memory, card, dspVars, uiVars>>

\* No process function: the start failed.  Too much SDRAM used: stop again.
InitCheck ==
    /\ \/ /\ ~meta.process
          /\ Goto("dsp", "initCheck", "started")
          /\ status' = "STARTFAILED"
          /\ UNCHANGED job
       \/ /\ meta.process
          /\ Goto("dsp", "initCheck", "dispose")
          /\ job' = "sdram"
          /\ UNCHANGED status
       \/ /\ meta.process
          /\ Goto("dsp", "initCheck", "toRun")
          /\ UNCHANGED <<status, job>>
    /\ UNCHANGED <<meta, live, signals, memory, card, fallback, uiVars>>

ToRun ==
    /\ Goto("dsp", "toRun", "started")
    /\ status' = "RUNNING"
    /\ UNCHANGED <<meta, live, signals, memory, card, dspVars, uiVars>>

\* Mutant: the start-up file is loaded whatever became of the bank entry.
StartedAnyway ==
    /\ fallback' = FALSE
    /\ Goto("dsp", "started", IF fallback THEN "fileCheck" ELSE "wait")
    /\ loadIdx' = IF fallback THEN "sd" ELSE loadIdx
    /\ loadName' = IF fallback THEN "startbin" ELSE loadName
    /\ UNCHANGED <<patch, events, memory, card, job, uiVars>>

\* Loading and starting is over; a bank entry that does not run is replaced
\* by the start-up file.
Started ==
    /\ fallback' = FALSE
    /\ \/ /\ fallback /\ status # "RUNNING"
          /\ Goto("dsp", "started", "fileCheck")
          /\ loadIdx' = "sd" /\ loadName' = "startbin"
       \/ /\ ~fallback \/ status = "RUNNING"
          /\ Goto("dsp", "started", "wait")
          /\ UNCHANGED request
    /\ UNCHANGED <<patch, events, memory, card, job, uiVars>>

DspStep ==
    \/ TakeCycle \/ TakeLoad \/ TakeStart \/ Process \/ CycleEnd
    \/ StopPatch1Step("dsp")
    \/ Dispatch \/ CopyFlash \/ ReadBank \/ Scan
    \/ FileCheck \/ ChangeDir \/ OpenFile \/ ReadFile \/ FileLoaded
    \/ PatchInit \/ PatchInitEnd \/ InitCheck \/ ToRun \/ Started
=============================================================================
