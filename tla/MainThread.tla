----------------------------- MODULE MainThread -----------------------------
(***************************************************************************)
(* main, from sysmon_init on: it creates the other threads one by one and  *)
(* asks for the start-up patch of the card, then for the one in flash.     *)
(***************************************************************************)
EXTENDS PatchState

BootInit ==
    /\ Goto("main", "pre", "createDsp")
    /\ status' = "STOPPED" /\ meta' = NoMeta
    /\ UNCHANGED <<live, signals, memory, card, dspVars, uiVars>>

CreateDsp ==
    /\ pc["main"] = "createDsp"
    /\ UIBlocked
    /\ pc' = [pc EXCEPT !["main"] = "createUi", !["dsp"] = "wait"]
    /\ UNCHANGED <<patch, signals, memory, card, dspVars, uiVars>>

CreateUi ==
    /\ pc["main"] = "createUi"
    /\ pc' = [pc EXCEPT !["main"] = "mount", !["ui"] = "idle"]
    /\ UNCHANGED <<patch, signals, memory, card, dspVars, uiVars>>

\* An exception record, or button S2, keeps main from booting a patch.
BootMount ==
    /\ \/ Goto("main", "mount", "done") /\ UNCHANGED fsReady
       \/ /\ fsReady' \in {fsReady, fsReady \/ cardIn}
          /\ Goto("main", "mount", IF fsReady' THEN "bootSD" ELSE "bootCheck")
    /\ UNCHANGED <<patch, signals, memory, cardIn, cardPrev, toggles, dspVars, uiVars>>

BootSD ==
    /\ Goto("main", "bootSD", "bootCheck")
    /\ Request("sd", "startbin")
    /\ UNCHANGED <<patch, memory, card, dspVars, uiVars>>

BootCheck ==
    /\ Goto("main", "bootCheck", IF status # "RUNNING" THEN "bootFlash" ELSE "done")
    /\ UNCHANGED <<patch, signals, memory, card, dspVars, uiVars>>

BootFlash ==
    /\ Goto("main", "bootFlash", "done")
    /\ Request("flash", loadName)
    /\ UNCHANGED <<patch, memory, card, dspVars, uiVars>>

MainStep == \/ BootInit \/ CreateDsp \/ CreateUi \/ BootMount
            \/ BootSD \/ BootCheck \/ BootFlash
=============================================================================
