--------------------------- MODULE PatchLifecycle ---------------------------
(***************************************************************************)
(* The threads that load, start, run and stop a patch, composed, and what  *)
(* must be true of them.  Features says which of them act besides dsp; the *)
(* properties that only hold without some of them say so.                  *)
(***************************************************************************)
EXTENDS DspThread, UiThread, SysmonThread, MainThread

Next == Tick \/ DspStep \/ HostStep \/ UIStep \/ ToggleCard \/ SysmonStep \/ MainStep

Spec == Init /\ [][Next]_vars

(***************************************************************************)
(* The audio interrupt keeps coming, ui runs when it can, and the threads  *)
(* it preempts get the processor again and again.  The last two conjuncts  *)
(* say that cycle does not hide the other events for ever, which holds as  *)
(* long as no cycle takes longer than the time to the next one.            *)
(***************************************************************************)
Fairness == /\ WF_vars(Tick) /\ WF_vars(UIStep)
            /\ SF_vars(DspStep) /\ SF_vars(SysmonStep) /\ SF_vars(MainStep)
            /\ SF_vars(TakeLoad) /\ SF_vars(TakeStart)

FairSpec == Spec /\ Fairness
-----------------------------------------------------------------------------
(* Properties *)

\* sdcard_loadPatch1 calls StopPatch on the dsp thread.  It must find nothing
\* to stop: it would wait for itself.
NeverStopsItself == pc["dsp"] # "selfWait"

\* The program counters at which the dsp thread loads or starts a patch.
Loading == {"dispatch", "copyFlash", "readBank", "scan", "fileCheck", "open",
            "openSleep", "read", "readSleep", "init", "constructed", "initCheck",
            "toRun"}

\* While the status is RUNNING, and while dsp calls the process function, the
\* running patch is alive and its pointers are set: PExTransmit, the MIDI
\* handlers and ThreadDSP use them on the strength of the status alone.
RunningIsInstalled ==
    (pc["dsp"] # "none" /\ status = "RUNNING") \/ pc["dsp"] = "process"
        => live /\ meta.dispose /\ meta.process

\* Once StopPatch has returned to the host, and until the host starts a patch,
\* no code of the old patch is alive and the dsp thread is not about to load
\* one: the host writes the region.
StoppedMeansStopped ==
    host # "any" /\ pc["ui"] \in {"idle", "upload"}
        => ~live /\ meta = NoMeta /\ pc["dsp"] \notin Loading /\ status # "RUNNING"

\* The region is only written while its code is not alive, and only started
\* when it holds a complete patch.
Region == INSTANCE PatchRegion WITH region <- image, alive <- live
RegionSafe == Region!Spec

\* A host command always comes to its end, so ui serves the next one.
CommandsReturn == pc["ui"] \notin {"none", "idle"} ~> pc["ui"] = "idle"

\* Every request to load a patch is taken up, and the load ends, in a running
\* patch or in none.
LoadsEnd == "load" \in events ~> ("load" \notin events /\ pc["dsp"] = "wait")
=============================================================================
