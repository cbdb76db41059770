------------------------------ MODULE UiThread ------------------------------
(***************************************************************************)
(* ThreadUI.  The host sends one command after another: it stops the patch *)
(* before it uploads one, and it starts a patch, or has it copied to       *)
(* flash, after it uploaded it.                                            *)
(***************************************************************************)
EXTENDS PatchState

HostStop ==
    /\ "host" \in Features
    /\ Goto("ui", "idle", "stopCheck")
    /\ cmd' = "stop"
    /\ UNCHANGED <<patch, signals, memory, card, dspVars, host>>

\* The bytes arrive in packets: other threads run between them.
HostUpload ==
    /\ "host" \in Features
    /\ host # "any"
    /\ Goto("ui", "idle", "upload")
    /\ image' = "partial"
    /\ UNCHANGED <<patch, signals, flash, card, dspVars, uiVars>>

UploadEnd ==
    /\ Goto("ui", "upload", "idle")
    /\ \E p \in Patches : image' = Filled(p)
    /\ host' = "uploaded"
    /\ UNCHANGED <<patch, signals, flash, card, dspVars, cmd>>

HostFlash ==
    /\ "host" \in Features
    /\ host = "uploaded"
    /\ Goto("ui", "idle", "stopCheck")
    /\ cmd' = "flash"
    /\ UNCHANGED <<patch, signals, memory, card, dspVars, host>>

\* The patch is taken to be stopped: acknowledge, or copy the region to flash.
Act ==
    /\ Goto("ui", "act", "idle")
    /\ flash' = IF cmd = "flash" THEN image ELSE flash
    /\ host' = IF cmd = "flash" THEN "any" ELSE "stopped"
    /\ UNCHANGED <<patch, signals, image, card, dspVars, cmd>>

HostStart ==
    /\ "host" \in Features
    /\ host = "uploaded"
    /\ Goto("ui", "idle", "startCheck")
    /\ loadIdx' = "live"
    /\ Signal("start")
    /\ UNCHANGED <<patch, loadName, memory, card, dspVars, uiVars>>

StartSleep ==
    /\ status \notin {"RUNNING", "STARTFAILED"}
    /\ Goto("ui", "startCheck", "startWait")
    /\ UNCHANGED <<patch, signals, memory, card, dspVars, uiVars>>

\* Mutant: StartPatch returns without waiting for the dsp thread.
StartReturnAtOnce ==
    /\ \E from \in {"startCheck", "startWait"} : Goto("ui", from, "idle")
    /\ host' = "any"
    /\ UNCHANGED <<patch, signals, memory, card, dspVars, cmd>>

StartReturn ==
    /\ status \in {"RUNNING", "STARTFAILED"}
    /\ \E from \in {"startCheck", "startWait"} : Goto("ui", from, "idle")
    /\ status' = IF status = "STARTFAILED" THEN "STOPPED" ELSE status
    /\ host' = "any"
    /\ UNCHANGED <<meta, live, signals, memory, card, dspVars, cmd>>

HostStep == HostStop \/ HostUpload \/ HostFlash \/ HostStart
UIStep == UploadEnd \/ Act \/ StartSleep \/ StartReturn \/ StopPatchStep("ui")
=============================================================================
