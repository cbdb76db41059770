---------------------------- MODULE SysmonThread ----------------------------
(***************************************************************************)
(* The card switch, and ThreadSysmon: a removed card stops the patch and   *)
(* asks for the one in flash, an inserted card asks for its start-up       *)
(* patch.                                                                  *)
(***************************************************************************)
EXTENDS PatchState

ToggleCard ==
    /\ "card" \in Features
    /\ toggles < MaxToggles
    /\ toggles' = toggles + 1
    /\ cardIn' = ~cardIn
    /\ UNCHANGED <<patch, signals, memory, fsReady, cardPrev, pc, dspVars, uiVars>>

CardLook ==
    /\ cardIn # cardPrev
    /\ Goto("sysmon", "idle", IF cardIn THEN "cardMount" ELSE "stopCheck")
    /\ cardPrev' = cardIn
    /\ UNCHANGED <<patch, signals, memory, fsReady, cardIn, toggles, dspVars, uiVars>>

Unmount ==
    /\ Goto("sysmon", "unmount", "reqFlash")
    /\ fsReady' = FALSE
    /\ UNCHANGED <<patch, signals, memory, cardIn, cardPrev, toggles, dspVars, uiVars>>

RequestFlash ==
    /\ Goto("sysmon", "reqFlash", "idle")
    /\ Request("flash", loadName)
    /\ UNCHANGED <<patch, memory, card, dspVars, uiVars>>

CardMount ==
    /\ Goto("sysmon", "cardMount", "reqSD")
    /\ fsReady' \in {fsReady, fsReady \/ cardIn}
    /\ UNCHANGED <<patch, signals, memory, cardIn, cardPrev, toggles, dspVars, uiVars>>

RequestSD ==
    /\ Goto("sysmon", "reqSD", "idle")
    /\ Request("sd", "startbin")
    /\ UNCHANGED <<patch, memory, card, dspVars, uiVars>>

SysmonStep == \/ CardLook \/ Unmount \/ RequestFlash \/ CardMount \/ RequestSD
              \/ StopPatchStep("sysmon")
=============================================================================
