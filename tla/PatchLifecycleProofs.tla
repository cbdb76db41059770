------------------------ MODULE PatchLifecycleProofs ------------------------
(***************************************************************************)
(* TypeOK and NeverStopsItself, for every set of patches, whatever actors  *)
(* act, and however often the card moves; what a host can rely on when     *)
(* nobody but the host commands the board: the patch that runs is          *)
(* installed, a stopped patch is stopped, and the patch region keeps to    *)
(* PatchRegion; and that the region keeps to it on a board without a host  *)
(* and a card switch, which boots and whose patches load one another.      *)
(***************************************************************************)
EXTENDS PatchLifecycle, TLAPS

USE DEF Threads, PCs, StopPCs, NoMeta, patch, request, signals, memory, card,
        dspVars, uiVars

LEMMA InitType == Init => TypeOK
<1> SUFFICES ASSUME Init PROVE TypeOK
  OBVIOUS
<1>1. cardIn \in BOOLEAN /\ fsReady \in BOOLEAN /\ fallback \in BOOLEAN
  /\ live \in BOOLEAN /\ cardPrev \in BOOLEAN
  BY Zenon DEF Init
<1>2. meta \in [dispose : BOOLEAN, process : BOOLEAN]
  BY DEF Init
<1>3. pc \in [Threads -> PCs]
  BY DEF Init
<1>4. QED BY <1>1, <1>2, <1>3, ConstantsAssumption DEF Init, TypeOK, Garbage

\* The shared StopPatch code keeps the types, whichever thread runs it.
LEMMA StopType ==
    ASSUME TypeOK, NEW t \in {"dsp", "ui", "sysmon"}, StopPatchStep(t)
    PROVE  TypeOK'
<1> USE DEF TypeOK, Goto
<1>1. CASE StopCheck(t)   BY <1>1 DEF StopCheck, AfterStop
<1>2. CASE StopSet(t)     BY <1>2 DEF StopSet
<1>3. CASE StopWait(t)    BY <1>3 DEF StopWait
<1>4. CASE Dispose(t)     BY <1>4 DEF Dispose
<1>5. CASE ThreadsGone(t) BY <1>5 DEF ThreadsGone
<1>6. CASE Reset(t)       BY <1>6 DEF Reset
<1>7. CASE Clear(t)       BY <1>7 DEF Clear
<1>8. CASE StopEnd(t)     BY <1>8 DEF StopEnd, AfterStop
<1>9. QED
  BY <1>1, <1>2, <1>3, <1>4, <1>5, <1>6, <1>7, <1>8 DEF StopPatchStep, StopPatch1Step

\* The steps of the dsp thread outside StopPatch1 keep the types.
LEMMA DspType ==
    ASSUME TypeOK, DspStep
    PROVE  TypeOK'
<1> USE DEF TypeOK, Goto
<1>1. CASE TakeCycle    BY <1>1 DEF TakeCycle
<1>2. CASE TakeLoad     BY <1>2 DEF TakeLoad
<1>3. CASE TakeStart    BY <1>3 DEF TakeStart
<1>4. CASE Process
  <2>1. CASE UNCHANGED signals BY <1>4, <2>1 DEF Process
  <2>2. CASE Request("name", "other") BY <1>4, <2>2 DEF Process, Request, Signal
  <2>3. CASE Request("index", "empty") BY <1>4, <2>3 DEF Process, Request, Signal
  <2>4. QED BY <1>4, <2>1, <2>2, <2>3 DEF Process
<1>5. CASE CycleEnd     BY <1>5 DEF CycleEnd
<1>6. CASE StopPatch1Step("dsp") BY <1>6, StopType DEF StopPatchStep
<1>7. CASE Dispatch     BY <1>7 DEF Dispatch, Garbage
<1>8. CASE CopyFlash    BY <1>8 DEF CopyFlash, Filled, Garbage
<1>9. CASE ReadBank     BY <1>9 DEF ReadBank, Garbage
<1>10. CASE Scan
  <2>1. fallback' \in BOOLEAN BY <1>10, Zenon DEF Scan
  <2>2. QED BY <1>10, <2>1 DEF Scan
<1>11. CASE FileCheck   BY <1>11 DEF FileCheck
<1>12. CASE ChangeDir   BY <1>12 DEF ChangeDir
<1>13. CASE OpenFile    BY <1>13 DEF OpenFile, Garbage
<1>14. CASE ReadFile    BY <1>14 DEF ReadFile, Filled, Garbage
<1>15. CASE FileLoaded  BY <1>15 DEF FileLoaded
<1>16. CASE PatchInit
  <2>1. live' \in BOOLEAN /\ fsReady' \in BOOLEAN BY <1>16, Zenon DEF PatchInit
  <2>2. meta' \in [dispose : BOOLEAN, process : BOOLEAN] BY <1>16 DEF PatchInit
  <2>3. QED BY <1>16, <2>1, <2>2 DEF PatchInit
<1>17. CASE PatchInitEnd BY <1>17 DEF PatchInitEnd
<1>18. CASE InitCheck   BY <1>18 DEF InitCheck
<1>19. CASE ToRun       BY <1>19 DEF ToRun
<1>20. CASE Started
  <2>1. fallback' \in BOOLEAN BY <1>20, Zenon DEF Started
  <2>2. QED BY <1>20, <2>1 DEF Started
<1>21. QED
  BY <1>1, <1>2, <1>3, <1>4, <1>5, <1>6, <1>7, <1>8, <1>9, <1>10, <1>11, <1>12,
     <1>13, <1>14, <1>15, <1>16, <1>17, <1>18, <1>19, <1>20 DEF DspStep

\* The host and ui keep the types.
LEMMA UiType ==
    ASSUME TypeOK, HostStep \/ UIStep
    PROVE  TypeOK'
<1> USE DEF TypeOK, Goto
<1>1. CASE HostStop     BY <1>1 DEF HostStop
<1>2. CASE HostUpload   BY <1>2 DEF HostUpload, Garbage
<1>3. CASE HostFlash    BY <1>3 DEF HostFlash
<1>4. CASE HostStart    BY <1>4 DEF HostStart, Signal
<1>5. CASE UploadEnd    BY <1>5 DEF UploadEnd, Filled, Garbage
<1>6. CASE Act          BY <1>6 DEF Act
<1>7. CASE StartSleep   BY <1>7 DEF StartSleep
<1>8. CASE StartReturn  BY <1>8 DEF StartReturn
<1>9. CASE StopPatchStep("ui") BY <1>9, StopType
<1>10. QED
  BY <1>1, <1>2, <1>3, <1>4, <1>5, <1>6, <1>7, <1>8, <1>9 DEF HostStep, UIStep

\* The card and sysmon keep the types.
LEMMA SysmonType ==
    ASSUME TypeOK, ToggleCard \/ SysmonStep
    PROVE  TypeOK'
<1> USE DEF TypeOK, Goto
<1>1. CASE ToggleCard   BY <1>1, ConstantsAssumption DEF ToggleCard
<1>2. CASE CardLook     BY <1>2 DEF CardLook
<1>3. CASE Unmount
  <2>1. fsReady' \in BOOLEAN BY <1>3, Zenon DEF Unmount
  <2>2. QED BY <1>3, <2>1 DEF Unmount
<1>4. CASE RequestFlash BY <1>4 DEF RequestFlash, Request, Signal
<1>5. CASE CardMount    BY <1>5 DEF CardMount
<1>6. CASE RequestSD    BY <1>6 DEF RequestSD, Request, Signal
<1>7. CASE StopPatchStep("sysmon") BY <1>7, StopType
<1>8. QED BY <1>1, <1>2, <1>3, <1>4, <1>5, <1>6, <1>7 DEF SysmonStep

\* The boot sequence keeps the types.
LEMMA MainType ==
    ASSUME TypeOK, MainStep
    PROVE  TypeOK'
<1> USE DEF TypeOK, Goto
<1>1. CASE BootInit     BY <1>1 DEF BootInit
<1>2. CASE CreateDsp    BY <1>2 DEF CreateDsp
<1>3. CASE CreateUi     BY <1>3 DEF CreateUi
<1>4. CASE BootMount    BY <1>4 DEF BootMount
<1>5. CASE BootSD       BY <1>5 DEF BootSD, Request, Signal
<1>6. CASE BootCheck    BY <1>6 DEF BootCheck
<1>7. CASE BootFlash    BY <1>7 DEF BootFlash, Request, Signal
<1>8. QED BY <1>1, <1>2, <1>3, <1>4, <1>5, <1>6, <1>7 DEF MainStep

\* Every variable keeps its type in every step.
THEOREM TypeCorrect == Spec => []TypeOK
<1>1. TypeOK /\ [Next]_vars => TypeOK'
  <2> SUFFICES ASSUME TypeOK, [Next]_vars PROVE TypeOK'
    OBVIOUS
  <2>1. CASE Tick           BY <2>1 DEF Tick, TypeOK
  <2>2. CASE DspStep        BY <2>2, DspType
  <2>3. CASE HostStep \/ UIStep BY <2>3, UiType
  <2>4. CASE ToggleCard \/ SysmonStep BY <2>4, SysmonType
  <2>5. CASE MainStep       BY <2>5, MainType
  <2>6. CASE UNCHANGED vars BY <2>6 DEF vars, TypeOK
  <2>7. QED BY <2>1, <2>2, <2>3, <2>4, <2>5, <2>6 DEF Next
<1>2. QED BY InitType, <1>1, PTL DEF Spec
-----------------------------------------------------------------------------
(***************************************************************************)
(* NeverStopsItself.  From the moment the load event has stopped the old   *)
(* patch until sdcard_loadPatch1 looks at the status, the status is not    *)
(* RUNNING: only the dsp thread sets it to that, at the end of a start,    *)
(* and it comes back to a load from there only if it sees another status.  *)
(***************************************************************************)
BeforeFileCheck == {"dispatch", "readBank", "scan", "fileCheck"}

LoadsStopped == pc["dsp"] \in BeforeFileCheck => status # "RUNNING"

SelfStopInv == TypeOK /\ NeverStopsItself /\ LoadsStopped

\* What the other threads do leaves the dsp thread where it is, or creates it,
\* and does not make the status RUNNING.
LEMMA OthersDoNotRun ==
    ASSUME TypeOK,
           Tick \/ HostStep \/ UIStep \/ ToggleCard \/ SysmonStep \/ MainStep
    PROVE  /\ pc'["dsp"] = pc["dsp"] \/ pc'["dsp"] = "wait"
           /\ status' = status \/ status' # "RUNNING"
<1> USE DEF TypeOK, Goto
<1>1. CASE Tick BY <1>1 DEF Tick
<1>2. ASSUME NEW t \in {"ui", "sysmon"}, StopPatchStep(t)
      PROVE  pc'["dsp"] = pc["dsp"] /\ (status' = status \/ status' # "RUNNING")
  BY <1>2 DEF StopPatchStep, StopPatch1Step, StopCheck, StopSet, StopWait, Dispose,
              ThreadsGone, Reset, Clear, StopEnd
<1>3. CASE HostStep
  BY <1>3 DEF HostStep, HostStop, HostUpload, HostFlash, HostStart
<1>4. CASE UIStep
  BY <1>4, <1>2 DEF UIStep, UploadEnd, Act, StartSleep, StartReturn
<1>5. CASE ToggleCard BY <1>5 DEF ToggleCard
<1>6. CASE SysmonStep
  BY <1>6, <1>2 DEF SysmonStep, CardLook, Unmount, RequestFlash, CardMount, RequestSD
<1>7. CASE MainStep
  BY <1>7 DEF MainStep, BootInit, CreateDsp, CreateUi, BootMount, BootSD, BootCheck,
              BootFlash
<1>8. QED BY <1>1, <1>3, <1>4, <1>5, <1>6, <1>7

\* The dsp thread keeps LoadsStopped, and does not stop itself because of it.
LEMMA DspKeepsLoadsStopped ==
    ASSUME SelfStopInv, DspStep
    PROVE  NeverStopsItself' /\ LoadsStopped'
<1> USE DEF SelfStopInv, TypeOK, NeverStopsItself, LoadsStopped, BeforeFileCheck, Goto
<1>1. CASE TakeCycle \/ TakeLoad \/ TakeStart \/ Process \/ CycleEnd
  BY <1>1 DEF TakeCycle, TakeLoad, TakeStart, Process, CycleEnd
<1>2. CASE StopPatch1Step("dsp")
  <2>1. CASE StopEnd("dsp") BY <2>1 DEF StopEnd
  <2>2. CASE Dispose("dsp") \/ ThreadsGone("dsp") \/ Reset("dsp") \/ Clear("dsp")
    BY <2>2 DEF Dispose, ThreadsGone, Reset, Clear
  <2>3. QED BY <1>2, <2>1, <2>2 DEF StopPatch1Step
<1>3. CASE Dispatch \/ ReadBank \/ Scan \/ CopyFlash
  BY <1>3 DEF Dispatch, ReadBank, Scan, CopyFlash
<1>4. CASE FileCheck BY <1>4 DEF FileCheck
<1>5. CASE ChangeDir \/ OpenFile \/ ReadFile \/ FileLoaded
  BY <1>5 DEF ChangeDir, OpenFile, ReadFile, FileLoaded
<1>6. CASE PatchInit \/ PatchInitEnd \/ InitCheck \/ ToRun
  BY <1>6 DEF PatchInit, PatchInitEnd, InitCheck, ToRun
<1>7. CASE Started BY <1>7 DEF Started
<1>8. QED BY <1>1, <1>2, <1>3, <1>4, <1>5, <1>6, <1>7 DEF DspStep

\* The dsp thread never runs into the StopPatch that would wait for itself.
THEOREM DspNeverStopsItself == Spec => []NeverStopsItself
<1>1. Init => SelfStopInv
  <2>1. Init => pc["dsp"] \in {"none", "wait"}
    BY DEF Init
  <2>2. QED
    BY <2>1, InitType DEF SelfStopInv, NeverStopsItself, LoadsStopped, BeforeFileCheck
<1>2. TypeOK /\ TypeOK' /\ SelfStopInv /\ [Next]_vars => SelfStopInv'
  <2> SUFFICES ASSUME TypeOK, TypeOK', SelfStopInv, [Next]_vars
               PROVE  NeverStopsItself' /\ LoadsStopped'
    BY DEF SelfStopInv
  <2>1. CASE DspStep BY <2>1, DspKeepsLoadsStopped
  <2>2. CASE Tick \/ HostStep \/ UIStep \/ ToggleCard \/ SysmonStep \/ MainStep
    BY <2>2, OthersDoNotRun
       DEF SelfStopInv, NeverStopsItself, LoadsStopped, BeforeFileCheck
  <2>3. CASE UNCHANGED vars
    BY <2>3 DEF vars, SelfStopInv, NeverStopsItself, LoadsStopped, BeforeFileCheck
  <2>4. QED BY <2>1, <2>2, <2>3 DEF Next
<1>3. SelfStopInv => NeverStopsItself
  BY DEF SelfStopInv
<1>4. QED BY <1>1, <1>2, <1>3, TypeCorrect, PTL DEF Spec
-----------------------------------------------------------------------------
HostAlone == Features \subseteq {"host"}

\* The dsp thread has nothing to do with a patch but, at most, to end the stop
\* or the start it is in.
Resting == pc["dsp"] \in {"wait", "cycleEnd", "clear", "stopEnd", "started"}
             /\ (pc["dsp"] \in {"clear", "stopEnd"} => job = "cycle")

Stopping == {"dispose", "threads", "reset", "clear", "stopEnd"}
Starting == {"init", "constructed", "initCheck", "toRun"}

Installed == meta = [dispose |-> TRUE, process |-> TRUE]

\* The program counters and events that occur when the host is alone.
HostOnly ==
    /\ pc["main"] = "done" /\ pc["sysmon"] = "none"
    /\ pc["dsp"] \in {"wait", "process", "cycleEnd", "started"} \cup Stopping \cup Starting
    /\ pc["ui"] \in {"idle", "upload", "stopCheck", "stopSet", "stopWait", "act",
                     "startCheck", "startWait"} \cup Stopping
    /\ "load" \notin events
    /\ ~fallback

\* What is alive and installed at each point of the dsp thread.
DspInv ==
    /\ pc["dsp"] \in {"wait", "cycleEnd", "started"} =>
         IF status \in {"RUNNING", "STOPPING"} THEN live /\ Installed
                                               ELSE ~live /\ meta = NoMeta
    /\ pc["dsp"] = "process" => live /\ Installed /\ status \in {"RUNNING", "STOPPING"}
    /\ pc["dsp"] \in {"dispose", "threads", "reset"} =>
         /\ Installed
         /\ live <=> pc["dsp"] = "dispose"
         /\ status = IF job = "sdram" THEN "STOPPED" ELSE "STOPPING"
    /\ pc["dsp"] \in {"clear", "stopEnd"} => ~live /\ status = "STOPPED"
    /\ pc["dsp"] = "stopEnd" => meta = NoMeta
    /\ pc["dsp"] \in {"init", "constructed"} => meta = NoMeta
    /\ pc["dsp"] = "init" => ~live
    /\ pc["dsp"] \in {"constructed", "toRun"} => live
    /\ pc["dsp"] = "initCheck" => IF live THEN Installed ELSE meta = NoMeta
    /\ pc["dsp"] = "toRun" => Installed
    /\ pc["dsp"] \in Stopping => job \in {"cycle", "sdram"}

\* The dsp thread starts, or gives up a start, only while ui waits for it.
StartInv ==
    /\ pc["dsp"] \in Starting \/ (pc["dsp"] \in Stopping /\ job = "sdram") =>
         pc["ui"] = "startWait" /\ events \subseteq {"cycle"} /\ status = "STOPPED"
    /\ "start" \in events =>
         pc["ui"] \in {"startCheck", "startWait"} /\ Resting /\ status = "STOPPED"
    /\ "start" \in events \/ pc["dsp"] = "init" => image \in Patches
    /\ status = "STARTFAILED" => pc["ui"] \in {"startCheck", "startWait"}

\* Where ui is says what the status can be.
UiInv ==
    /\ pc["ui"] = "stopSet" => status = "RUNNING"
    /\ status = "STOPPING" => pc["ui"] = "stopWait"
    /\ pc["ui"] = "stopWait" => status = "STOPPING" \/ (status = "STOPPED" /\ Resting)
    /\ pc["ui"] \in Stopping \cup {"act"} => status = "STOPPED" /\ Resting
    /\ host # "any" /\ pc["ui"] \in {"idle", "upload", "stopCheck"} =>
         status = "STOPPED" /\ Resting /\ meta = NoMeta
    /\ pc["ui"] \in {"stopEnd", "act"} => meta = NoMeta
    /\ pc["dsp"] = "clear" /\ job = "cycle" /\ pc["ui"] \notin Stopping \cup {"stopWait"} =>
         meta = NoMeta
    /\ pc["ui"] = "upload" => image = "partial" /\ host # "any"
    /\ host = "uploaded" /\ pc["ui"] # "upload" => image \in Patches

HostInv == HostOnly /\ DspInv /\ StartInv /\ UiInv

\* From an idle board, the invariant holds.
LEMMA HostInit == HostAlone /\ Init => HostInv
<1> SUFFICES ASSUME HostAlone, Init PROVE HostInv
  OBVIOUS
<1>1. "boot" \notin Features /\ "card" \notin Features
  BY DEF HostAlone
<1>2. /\ pc = [main |-> "done", dsp |-> "wait", ui |-> "idle", sysmon |-> "none"]
      /\ status = "STOPPED" /\ events = {} /\ ~fallback /\ ~live /\ meta = NoMeta
      /\ host = "any"
  BY <1>1 DEF Init
<1>3. QED
  BY <1>2 DEF HostInv, HostOnly, DspInv, StartInv, UiInv, Resting, Stopping, Starting,
              Installed

\* The steps the host alone leaves possible.
HostDspStep ==
    \/ TakeCycle \/ TakeStart \/ (Process /\ UNCHANGED signals) \/ CycleEnd
    \/ StopPatch1Step("dsp")
    \/ PatchInit \/ PatchInitEnd \/ InitCheck \/ ToRun
    \/ Started /\ ~fallback

LEMMA HostSteps ==
    ASSUME HostAlone, TypeOK, HostOnly, Next
    PROVE  Tick \/ HostDspStep \/ HostStep \/ UIStep
<1> USE DEF HostAlone, HostOnly, Starting, Stopping, Goto
<1>1. CASE DspStep
  <2>1. ~(TakeLoad \/ Dispatch \/ CopyFlash \/ ReadBank \/ Scan \/ FileCheck \/ ChangeDir
            \/ OpenFile \/ ReadFile \/ FileLoaded)
    BY DEF TakeLoad, Dispatch, CopyFlash, ReadBank, Scan, FileCheck, ChangeDir, OpenFile,
           ReadFile, FileLoaded
  <2>2. Process => UNCHANGED signals
    BY DEF Process
  <2>3. QED BY <1>1, <2>1, <2>2 DEF DspStep, HostDspStep
<1>2. ~ToggleCard
  BY DEF ToggleCard
<1>3. ~SysmonStep
  BY DEF SysmonStep, CardLook, Unmount, RequestFlash, CardMount, RequestSD, StopPatchStep,
         StopPatch1Step, StopCheck, StopSet, StopWait, Dispose, ThreadsGone, Reset, Clear,
         StopEnd
<1>4. ~MainStep
  BY DEF MainStep, BootInit, CreateDsp, CreateUi, BootMount, BootSD, BootCheck, BootFlash
<1>5. QED BY <1>1, <1>2, <1>3, <1>4 DEF Next

\* The dsp thread and the audio interrupt keep the invariant.
LEMMA HostDspInv ==
    ASSUME HostAlone, TypeOK, HostInv, Tick \/ HostDspStep
    PROVE  HostInv'
<1> USE DEF HostInv, HostOnly, DspInv, StartInv, UiInv, Resting, Stopping, Starting,
            Installed, TypeOK, Goto
<1>1. CASE Tick              BY <1>1 DEF Tick
<1>2. CASE TakeCycle         BY <1>2 DEF TakeCycle
<1>3. CASE TakeStart
  <2>1. /\ "start" \in events /\ Resting /\ status = "STOPPED" /\ image \in Patches
        /\ pc["ui"] = "startWait" /\ ~live /\ meta = NoMeta
    BY <1>3 DEF TakeStart, UIBlocked
  <2>2. /\ pc' = [pc EXCEPT !["dsp"] = "init"]
        /\ events' = {} /\ job' = "start"
        /\ UNCHANGED <<status, meta, live, image, fallback, host>>
    BY <1>3 DEF TakeStart
  <2>3. QED BY <2>1, <2>2
<1>4. CASE Process /\ UNCHANGED signals BY <1>4 DEF Process
<1>5. CASE CycleEnd          BY <1>5 DEF CycleEnd
<1>6. CASE Dispose("dsp")    BY <1>6 DEF Dispose
<1>7. CASE ThreadsGone("dsp") BY <1>7 DEF ThreadsGone
<1>8. CASE Reset("dsp")      BY <1>8 DEF Reset
<1>9. CASE Clear("dsp")      BY <1>9 DEF Clear
<1>10. CASE StopEnd("dsp")   BY <1>10 DEF StopEnd
<1>11. CASE PatchInit
  <2>1. /\ pc["dsp"] = "init" /\ pc["ui"] = "startWait" /\ ~live /\ meta = NoMeta
        /\ events \subseteq {"cycle"} /\ status = "STOPPED" /\ image \in Patches
    BY <1>11 DEF PatchInit
  <2>2. meta' = NoMeta
    BY <1>11, <2>1 DEF PatchInit
  <2>3. /\ UNCHANGED <<status, events, image, job, fallback, host>>
        /\ \/ pc' = [pc EXCEPT !["dsp"] = "initCheck"] /\ ~live'
           \/ pc' = [pc EXCEPT !["dsp"] = "constructed"] /\ live'
    BY <1>11, <2>1 DEF PatchInit
  <2>4. QED BY <2>1, <2>2, <2>3
<1>12. CASE PatchInitEnd     BY <1>12 DEF PatchInitEnd
<1>13. CASE InitCheck        BY <1>13 DEF InitCheck
<1>14. CASE ToRun            BY <1>14 DEF ToRun
<1>15. CASE Started /\ ~fallback BY <1>15 DEF Started
<1>16. QED
  BY <1>1, <1>2, <1>3, <1>4, <1>5, <1>6, <1>7, <1>8, <1>9, <1>10, <1>11, <1>12, <1>13,
     <1>14, <1>15 DEF HostDspStep, StopPatch1Step

\* The host and ui keep the invariant.
LEMMA HostUiInv ==
    ASSUME HostAlone, TypeOK, HostInv, HostStep \/ UIStep
    PROVE  HostInv'
<1> USE DEF HostInv, HostOnly, DspInv, StartInv, UiInv, Resting, Stopping, Starting,
            Installed, TypeOK, Goto
<1>1. CASE HostStop          BY <1>1 DEF HostStop
<1>2. CASE HostUpload        BY <1>2 DEF HostUpload
<1>3. CASE HostFlash         BY <1>3 DEF HostFlash
<1>4. CASE HostStart         BY <1>4 DEF HostStart, Signal
<1>5. CASE UploadEnd         BY <1>5 DEF UploadEnd, Filled
<1>6. CASE Act               BY <1>6 DEF Act
<1>7. CASE StartSleep        BY <1>7 DEF StartSleep
<1>8. CASE StartReturn       BY <1>8 DEF StartReturn
<1>9. CASE StopCheck("ui")   BY <1>9 DEF StopCheck, AfterStop
<1>10. CASE StopSet("ui")    BY <1>10 DEF StopSet
<1>11. CASE StopWait("ui")   BY <1>11 DEF StopWait
<1>12. CASE Dispose("ui")    BY <1>12 DEF Dispose
<1>13. CASE ThreadsGone("ui") BY <1>13 DEF ThreadsGone
<1>14. CASE Reset("ui")      BY <1>14 DEF Reset
<1>15. CASE Clear("ui")      BY <1>15 DEF Clear
<1>16. CASE StopEnd("ui")    BY <1>16 DEF StopEnd, AfterStop
<1>17. QED
  BY <1>1, <1>2, <1>3, <1>4, <1>5, <1>6, <1>7, <1>8, <1>9, <1>10, <1>11, <1>12, <1>13,
     <1>14, <1>15, <1>16 DEF HostStep, UIStep, StopPatchStep, StopPatch1Step

LEMMA HostInvariant ==
    ASSUME HostAlone
    PROVE  Spec => [](TypeOK /\ HostInv)
<1>1. Init => HostInv
  BY HostInit
<1>2. TypeOK /\ HostInv /\ [Next]_vars => HostInv'
  <2> SUFFICES ASSUME TypeOK, HostInv, [Next]_vars PROVE HostInv'
    OBVIOUS
  <2>1. CASE Next
    BY <2>1, HostSteps, HostDspInv, HostUiInv DEF HostInv
  <2>2. CASE UNCHANGED vars
    BY <2>2 DEF vars, HostInv, HostOnly, DspInv, StartInv, UiInv, Resting, Stopping,
                Starting, Installed
  <2>3. QED BY <2>1, <2>2
<1>3. QED BY <1>1, <1>2, TypeCorrect, PTL DEF Spec

\* PExTransmit, the MIDI handlers and ThreadDSP never use a patch that is not
\* installed, as long as only the host stops and starts patches.
THEOREM HostRunningIsInstalled ==
    ASSUME HostAlone
    PROVE  Spec => []RunningIsInstalled
<1>1. TypeOK /\ HostInv => RunningIsInstalled
  BY DEF HostInv, HostOnly, DspInv, StartInv, UiInv, RunningIsInstalled, Stopping,
         Starting, Installed
<1>2. QED BY <1>1, HostInvariant, PTL

\* When StopPatch has returned to the host, the patch is stopped.
THEOREM HostStoppedMeansStopped ==
    ASSUME HostAlone
    PROVE  Spec => []StoppedMeansStopped
<1>1. TypeOK /\ HostInv => StoppedMeansStopped
  BY DEF HostInv, HostOnly, DspInv, UiInv, Resting, StoppedMeansStopped, Loading
<1>2. QED BY <1>1, HostInvariant, PTL

\* Disposing of a patch ends its life if it has registered how.
LEMMA DisposeRegion ==
    ASSUME TypeOK, NEW t, Dispose(t)
    PROVE  [Region!Next]_<<image, live>>
<1>1. UNCHANGED image /\ live' = (live /\ ~meta.dispose)
  BY DEF Dispose
<1>2. CASE live /\ meta.dispose
  BY <1>1, <1>2 DEF Region!Next, Region!Dispose
<1>3. CASE ~(live /\ meta.dispose)
  <2>1. live \in BOOLEAN
    BY DEF TypeOK
  <2>2. live => ~meta.dispose
    BY <1>3
  <2>3. live' = live
    BY <1>1, <2>1, <2>2
  <2>4. QED BY <1>1, <2>3
<1>4. QED BY <1>2, <1>3

\* A step of the threads is a step of the patch region, or does not concern it.
LEMMA HostRegionStep ==
    ASSUME HostAlone, TypeOK, HostInv, Next
    PROVE  [Region!Next]_<<image, live>>
<1> USE DEF Region!Next, Region!Write, Region!Start
<1>1. Tick \/ HostDspStep \/ HostStep \/ UIStep
  BY HostSteps DEF HostInv
<1>2. CASE HostUpload \/ UploadEnd
  <2>1. ~live
    BY <1>2 DEF HostUpload, UploadEnd, Goto, HostInv, HostOnly, DspInv, UiInv, Resting
  <2>2. image' \in Patches \cup Garbage /\ live' = live
    BY <1>2 DEF HostUpload, UploadEnd, Filled, Garbage
  <2>3. QED BY <2>1, <2>2
<1>3. CASE PatchInit
  <2>1. ~live /\ image \in Patches
    BY <1>3 DEF PatchInit, Goto, HostInv, DspInv, StartInv
  <2>2. UNCHANGED image /\ (live' = live \/ live' = TRUE)
    BY <1>3 DEF PatchInit
  <2>3. QED BY <2>1, <2>2
<1>4. ASSUME NEW t \in {"dsp", "ui"}, Dispose(t)
      PROVE  [Region!Next]_<<image, live>>
  BY <1>4, DisposeRegion
<1>5. CASE \/ Tick \/ TakeCycle \/ TakeStart \/ Process \/ CycleEnd
           \/ PatchInitEnd \/ InitCheck \/ ToRun \/ Started
  BY <1>5 DEF Tick, TakeCycle, TakeStart, Process, CycleEnd, PatchInitEnd, InitCheck, ToRun,
              Started
<1>6. CASE \/ HostStop \/ HostFlash \/ HostStart \/ Act \/ StartSleep \/ StartReturn
  BY <1>6 DEF HostStop, HostFlash, HostStart, Act, StartSleep, StartReturn
<1>7. ASSUME NEW t \in {"dsp", "ui"},
             \/ StopCheck(t) \/ StopSet(t) \/ StopWait(t) \/ ThreadsGone(t) \/ Reset(t)
             \/ Clear(t) \/ StopEnd(t)
      PROVE  UNCHANGED <<image, live>>
  BY <1>7 DEF StopCheck, StopSet, StopWait, ThreadsGone, Reset, Clear, StopEnd
<1>8. QED
  BY <1>1, <1>2, <1>3, <1>4, <1>5, <1>6, <1>7
     DEF HostDspStep, HostStep, UIStep, StopPatchStep, StopPatch1Step

\* The threads implement the patch region: what the host uploads is complete
\* when it starts, and stays as it is until it has been disposed of.
THEOREM HostRegionSafe ==
    ASSUME HostAlone
    PROVE  Spec => RegionSafe
<1>1. Init => Region!Init
  BY DEF Init, Region!Init, Garbage
<1>2. TypeOK /\ HostInv /\ [Next]_vars => [Region!Next]_<<image, live>>
  <2>1. CASE UNCHANGED vars
    BY <2>1 DEF vars
  <2>2. QED BY <2>1, HostRegionStep
<1>3. QED BY <1>1, <1>2, HostInvariant, PTL DEF Spec, RegionSafe, Region!Spec
-----------------------------------------------------------------------------
(***************************************************************************)
(* A board without a host and a card switch boots, and its patches load    *)
(* one another: only the dsp thread stops and writes, and it does so in    *)
(* this order.                                                             *)
(***************************************************************************)
Standalone == Features \cap {"host", "card"} = {}

\* The dsp thread has no load, stop or start under way.
Between == {"wait", "process", "cycleEnd", "started"}

\* It loads a patch, and has not started it.
Fetching == {"dispatch", "copyFlash", "readBank", "scan", "fileCheck", "open", "openSleep",
             "read", "readSleep", "init"}

\* The threads that are there, and what boots.
BoardOnly ==
    /\ pc["ui"] \in {"none", "idle"} /\ pc["sysmon"] = "none"
    /\ pc["dsp"] \in {"none"} \cup Between \cup Stopping \cup Fetching \cup Starting
    /\ pc["main"] \in {"pre", "createDsp"} <=> pc["dsp"] = "none"
    /\ events \subseteq {"cycle", "load"}
    /\ status # "STOPPING"
    /\ flash \in Patches \cup {"erased"}

\* What is alive, installed and complete at each point of the dsp thread.
LoadInv ==
    /\ pc["dsp"] = "none" => ~live /\ meta = NoMeta /\ (pc["main"] = "pre" \/ status # "RUNNING")
    /\ pc["dsp"] \in Between =>
         IF live THEN Installed /\ status = "RUNNING" ELSE meta = NoMeta /\ status # "RUNNING"
    /\ pc["dsp"] = "dispose" => IF live THEN Installed ELSE meta = NoMeta
    /\ pc["dsp"] \in {"threads", "reset"} => ~live
    /\ pc["dsp"] \in {"clear", "stopEnd"} => ~live /\ status # "RUNNING"
    /\ pc["dsp"] = "stopEnd" => meta = NoMeta
    /\ pc["dsp"] \in Stopping => job \in {"load", "sdram"}
    /\ pc["dsp"] \in Fetching => ~live /\ meta = NoMeta /\ status # "RUNNING"
    /\ pc["dsp"] \in {"copyFlash", "read"} => image = "partial"
    /\ pc["dsp"] \in {"readSleep", "init"} => image \in Patches
    /\ pc["dsp"] = "constructed" => live
    /\ pc["dsp"] = "initCheck" => IF live THEN Installed ELSE meta = NoMeta
    /\ pc["dsp"] = "toRun" => live /\ Installed
    /\ pc["dsp"] \in Starting => status # "RUNNING"

BoardInv == BoardOnly /\ LoadInv

LEMMA BoardInit == Standalone /\ Init => BoardInv
<1> SUFFICES ASSUME Standalone, Init PROVE BoardInv
  OBVIOUS
<1> USE DEF BoardInv, BoardOnly, LoadInv, Between, Fetching, Stopping, Starting, Installed
<1>1. "card" \notin Features
  BY DEF Standalone
<1>2. /\ events = {} /\ ~live /\ meta = NoMeta /\ flash \in Patches \cup {"erased"}
      /\ \/ /\ pc = [main |-> "pre", dsp |-> "none", ui |-> "none", sysmon |-> "none"]
            /\ status = "RUNNING"
         \/ /\ pc = [main |-> "done", dsp |-> "wait", ui |-> "idle", sysmon |-> "none"]
            /\ status = "STOPPED"
  BY <1>1 DEF Init
<1>3. QED BY <1>2

\* Nobody but main, the audio interrupt and the dsp thread does anything.
LEMMA BoardSteps ==
    ASSUME Standalone, TypeOK, BoardOnly, Next
    PROVE  Tick \/ DspStep \/ MainStep
<1> USE DEF Standalone, BoardOnly, Goto
<1>1. ~HostStep /\ ~ToggleCard
  BY DEF HostStep, HostStop, HostUpload, HostFlash, HostStart, ToggleCard
<1>2. ~StopPatchStep("ui") /\ ~StopPatchStep("sysmon")
  BY DEF StopPatchStep, StopPatch1Step, StopCheck, StopSet, StopWait, Dispose, ThreadsGone,
         Reset, Clear, StopEnd
<1>3. ~UIStep
  BY <1>2 DEF UIStep, UploadEnd, Act, StartSleep, StartReturn
<1>4. CASE SysmonStep
  <2>1. CASE CardLook
    BY <2>1 DEF CardLook
  <2>2. QED
    BY <1>2, <1>4, <2>1 DEF SysmonStep, Unmount, RequestFlash, CardMount, RequestSD
<1>5. QED BY <1>1, <1>3, <1>4 DEF Next

LEMMA BoardDspInv ==
    ASSUME TypeOK, BoardInv, DspStep
    PROVE  BoardInv'
<1> USE DEF BoardInv, BoardOnly, LoadInv, Between, Fetching, Stopping, Starting, Installed,
            TypeOK, Goto
<1>1. CASE TakeCycle         BY <1>1 DEF TakeCycle
<1>2. CASE TakeLoad          BY <1>2 DEF TakeLoad
<1>3. CASE TakeStart         BY <1>3 DEF TakeStart
<1>4. CASE Process
  <2>1. events' \subseteq {"cycle", "load"}
    BY <1>4 DEF Process, Request, Signal
  <2>2. QED BY <1>4, <2>1 DEF Process
<1>5. CASE CycleEnd          BY <1>5 DEF CycleEnd
<1>6. CASE Dispose("dsp")
  <2>1. /\ pc["dsp"] = "dispose" /\ job \in {"load", "sdram"}
        /\ live' = (live /\ ~meta.dispose)
        /\ pc' = [pc EXCEPT !["dsp"] = IF meta.dispose THEN "threads" ELSE "reset"]
        /\ UNCHANGED <<status, meta, events, image, flash, job>>
    BY <1>6 DEF Dispose
  <2>2. live => meta.dispose
    BY <2>1
  <2>3. ~live'
    BY <2>1, <2>2
  <2>4. QED BY <2>1, <2>3
<1>7. CASE ThreadsGone("dsp") BY <1>7 DEF ThreadsGone
<1>8. CASE Reset("dsp")      BY <1>8 DEF Reset
<1>9. CASE Clear("dsp")      BY <1>9 DEF Clear
<1>10. CASE StopEnd("dsp")   BY <1>10 DEF StopEnd
<1>11. CASE Dispatch         BY <1>11 DEF Dispatch
<1>12. CASE CopyFlash        BY <1>12 DEF CopyFlash, Filled
<1>13. CASE ReadBank         BY <1>13 DEF ReadBank
<1>14. CASE Scan             BY <1>14 DEF Scan
<1>15. CASE FileCheck        BY <1>15 DEF FileCheck
<1>16. CASE ChangeDir        BY <1>16 DEF ChangeDir
<1>17. CASE OpenFile         BY <1>17 DEF OpenFile
<1>18. CASE ReadFile         BY <1>18 DEF ReadFile, Filled
<1>19. CASE FileLoaded       BY <1>19 DEF FileLoaded
<1>20. CASE PatchInit
  <2>1. /\ pc["dsp"] = "init" /\ ~live /\ meta = NoMeta /\ status # "RUNNING"
    BY <1>20 DEF PatchInit
  <2>2. meta' = NoMeta
    BY <1>20, <2>1 DEF PatchInit
  <2>3. /\ UNCHANGED <<status, events, image, flash, job>>
        /\ \/ pc' = [pc EXCEPT !["dsp"] = "initCheck"] /\ ~live'
           \/ pc' = [pc EXCEPT !["dsp"] = "constructed"] /\ live'
    BY <1>20, <2>1 DEF PatchInit
  <2>4. QED BY <2>1, <2>2, <2>3
<1>21. CASE PatchInitEnd     BY <1>21 DEF PatchInitEnd
<1>22. CASE InitCheck        BY <1>22 DEF InitCheck
<1>23. CASE ToRun            BY <1>23 DEF ToRun
<1>24. CASE Started          BY <1>24 DEF Started
<1>25. QED
  BY <1>1, <1>2, <1>3, <1>4, <1>5, <1>6, <1>7, <1>8, <1>9, <1>10, <1>11, <1>12, <1>13,
     <1>14, <1>15, <1>16, <1>17, <1>18, <1>19, <1>20, <1>21, <1>22, <1>23, <1>24
     DEF DspStep, StopPatch1Step

LEMMA BoardMainInv ==
    ASSUME TypeOK, BoardInv, Tick \/ MainStep
    PROVE  BoardInv'
<1> USE DEF BoardInv, BoardOnly, LoadInv, Between, Fetching, Stopping, Starting, Installed,
            TypeOK, Goto
<1>1. CASE Tick              BY <1>1 DEF Tick
<1>2. CASE BootInit          BY <1>2 DEF BootInit
<1>3. CASE CreateDsp         BY <1>3 DEF CreateDsp
<1>4. CASE CreateUi          BY <1>4 DEF CreateUi
<1>5. CASE BootMount         BY <1>5 DEF BootMount
<1>6. CASE BootSD            BY <1>6 DEF BootSD, Request, Signal
<1>7. CASE BootCheck         BY <1>7 DEF BootCheck
<1>8. CASE BootFlash         BY <1>8 DEF BootFlash, Request, Signal
<1>9. QED BY <1>1, <1>2, <1>3, <1>4, <1>5, <1>6, <1>7, <1>8 DEF MainStep

LEMMA BoardInvariant ==
    ASSUME Standalone
    PROVE  Spec => [](TypeOK /\ BoardInv)
<1>1. Init => BoardInv
  BY BoardInit
<1>2. TypeOK /\ BoardInv /\ [Next]_vars => BoardInv'
  <2> SUFFICES ASSUME TypeOK, BoardInv, [Next]_vars PROVE BoardInv'
    OBVIOUS
  <2>1. CASE Next
    BY <2>1, BoardSteps, BoardDspInv, BoardMainInv DEF BoardInv
  <2>2. CASE UNCHANGED vars
    BY <2>2 DEF vars, BoardInv, BoardOnly, LoadInv, Installed
  <2>3. QED BY <2>1, <2>2
<1>3. QED BY <1>1, <1>2, TypeCorrect, PTL DEF Spec

LEMMA BoardRegionStep ==
    ASSUME Standalone, TypeOK, BoardInv, Next
    PROVE  [Region!Next]_<<image, live>>
<1> USE DEF Region!Next, Region!Write, Region!Start
<1>1. Tick \/ DspStep \/ MainStep
  BY BoardSteps DEF BoardInv
<1>2. CASE Dispatch \/ CopyFlash \/ ReadBank \/ OpenFile \/ ReadFile
  <2>1. ~live
    BY <1>2 DEF Dispatch, CopyFlash, ReadBank, OpenFile, ReadFile, Goto, BoardInv, LoadInv,
                Fetching
  <2>2. image' \in Patches \cup Garbage /\ live' = live
    BY <1>2 DEF Dispatch, CopyFlash, ReadBank, OpenFile, ReadFile, Filled, Garbage, TypeOK
  <2>3. QED BY <2>1, <2>2
<1>3. CASE PatchInit
  <2>1. ~live /\ image \in Patches
    BY <1>3 DEF PatchInit, Goto, BoardInv, LoadInv, Fetching
  <2>2. UNCHANGED image /\ (live' = live \/ live' = TRUE)
    BY <1>3 DEF PatchInit
  <2>3. QED BY <2>1, <2>2
<1>4. CASE Dispose("dsp")
  BY <1>4, DisposeRegion
<1>5. CASE ThreadsGone("dsp") \/ Reset("dsp") \/ Clear("dsp") \/ StopEnd("dsp")
  BY <1>5 DEF ThreadsGone, Reset, Clear, StopEnd
<1>6. CASE \/ TakeCycle \/ TakeLoad \/ TakeStart \/ Process \/ CycleEnd \/ Scan \/ FileCheck
           \/ ChangeDir \/ FileLoaded \/ PatchInitEnd \/ InitCheck \/ ToRun \/ Started
  BY <1>6 DEF TakeCycle, TakeLoad, TakeStart, Process, CycleEnd, Scan, FileCheck, ChangeDir,
              FileLoaded, PatchInitEnd, InitCheck, ToRun, Started
<1>7. CASE Tick \/ MainStep
  BY <1>7 DEF Tick, MainStep, BootInit, CreateDsp, CreateUi, BootMount, BootSD, BootCheck,
              BootFlash
<1>8. QED
  BY <1>1, <1>2, <1>3, <1>4, <1>5, <1>6, <1>7 DEF DspStep, StopPatch1Step

\* Whatever a board boots from, and whatever its patches ask for: a patch is only
\* started when all of it is there, and the region is not written while it lives.
THEOREM BoardRegionSafe ==
    ASSUME Standalone
    PROVE  Spec => RegionSafe
<1>1. Init => Region!Init
  BY DEF Init, Region!Init, Garbage
<1>2. TypeOK /\ BoardInv /\ [Next]_vars => [Region!Next]_<<image, live>>
  <2>1. CASE UNCHANGED vars
    BY <2>1 DEF vars
  <2>2. QED BY <2>1, BoardRegionStep
<1>3. QED BY <1>1, <1>2, BoardInvariant, PTL DEF Spec, RegionSafe, Region!Spec
=============================================================================
