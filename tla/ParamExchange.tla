--------------------------- MODULE ParamExchange ---------------------------
(***************************************************************************)
(* The parameters of the running patch (the array PExch) and their copies  *)
(* in the patcher.  The threads that run code of the patch, dsp and the    *)
(* MIDI threads, change them with PExParameterChange and with              *)
(* PExModulationSourceChange, load by load and store by store, without a   *)
(* lock.  ui has a higher priority: what it does to a parameter is one     *)
(* step for the others.                                                    *)
(***************************************************************************)
EXTENDS Integers, Sequences

CONSTANTS NumPEx,       \* how many parameters the patch has
          Values,       \* the values of parameters and of the modulation source
          Writers,      \* the threads that run patch code
          Modulators,   \* those among them that drive the modulation source
          Targets,      \* the parameters it modulates, in their order
          Contribution, \* [p][x]: what value x of the source adds to parameter p
          Features,     \* "host": dials are turned; "presets": chosen by the host
          MaxChanges    \* bound: how many changes begin

Params == 1..NumPEx

ASSUME ParamsAssumption ==
    /\ NumPEx \in Nat \ {0}
    /\ Values \subseteq Int /\ 0 \in Values
    /\ Modulators \subseteq Writers
    /\ Targets \in Seq(Params)
    /\ \A i, j \in DOMAIN Targets : i # j => Targets[i] # Targets[j]
    /\ Contribution \in [Params -> [Values -> Int]]
    /\ \A p \in Params : Contribution[p][0] = 0
    /\ Features \subseteq {"host", "presets"}
    /\ MaxChanges \in Nat

VARIABLES
    value, modvalue, finalvalue,  \* of each parameter
    signals,    \* bit 0 of the signals of each parameter: to be sent over USB
    oldvalue,   \* the value of the modulation source
    pc,         \* where each writer is,
    par,        \* with which parameter,
    new,        \* which new value,
    reg,        \* what in the register,
    target,     \* and which target of the source
    uiPos,      \* the parameter PExTransmit is at, or 0
    toHost, toBoard,  \* messages "AxoQ" and "AxoP" under way
    told,       \* the value of each parameter in the last message about it
    hostValue, needsTransmit,  \* of each parameter, in the patcher
    changes     \* how many changes have begun

exchange == <<value, modvalue, finalvalue, signals>>
writers  == <<pc, par, new, reg, target>>
link     == <<toHost, toBoard, told>>
patcher  == <<hostValue, needsTransmit>>
vars     == <<exchange, oldvalue, writers, uiPos, link, patcher, changes>>

PCs == {"idle", "subLoad", "subStore", "setValue", "addLoad", "addStore", "signal",
        "finalLoad", "finalStore", "modLoad", "modStore", "modFinal"}

Messages == Seq(Params \X Values)

TypeOK ==
    /\ value \in [Params -> Values]
    /\ modvalue \in [Params -> Int]
    /\ finalvalue \in [Params -> Int]
    /\ signals \in [Params -> BOOLEAN]
    /\ oldvalue \in Values
    /\ pc \in [Writers -> PCs]
    /\ par \in [Writers -> Params]
    /\ new \in [Writers -> Values]
    /\ reg \in [Writers -> Int]
    /\ target \in [Writers -> Nat]
    /\ uiPos \in 0..NumPEx
    /\ toHost \in Messages /\ toBoard \in Messages
    /\ told \in [Params -> Values]
    /\ hostValue \in [Params -> Values]
    /\ needsTransmit \in [Params -> BOOLEAN]
    /\ changes \in 0..MaxChanges

\* The patch has been generated from the values in the patcher.
Init ==
    /\ value \in [Params -> {0}]
    /\ modvalue = value /\ finalvalue = value
    /\ signals = [p \in Params |-> FALSE]
    /\ oldvalue = 0
    /\ pc = [t \in Writers |-> "idle"]
    /\ par = [t \in Writers |-> 1]
    /\ new = [t \in Writers |-> 0]
    /\ reg = [t \in Writers |-> 0]
    /\ target = [t \in Writers |-> 0]
    /\ uiPos = 0
    /\ toHost = <<>> /\ toBoard = <<>>
    /\ told = value
    /\ hostValue = value
    /\ needsTransmit = [p \in Params |-> FALSE]
    /\ changes = 0

Change == changes < MaxChanges /\ changes' = changes + 1
-----------------------------------------------------------------------------
(* PExParameterChange, in a thread that runs patch code *)

Goto(t, from, to) == pc[t] = from /\ pc' = [pc EXCEPT ![t] = to]

ChangeBegin(t) ==
    /\ Change
    /\ Goto(t, "idle", "subLoad")
    /\ \E p \in Params, v \in Values :
          par' = [par EXCEPT ![t] = p] /\ new' = [new EXCEPT ![t] = v]
    /\ UNCHANGED <<exchange, oldvalue, reg, target, uiPos, link, patcher>>

SubLoad(t) ==
    /\ Goto(t, "subLoad", "subStore")
    /\ reg' = [reg EXCEPT ![t] = modvalue[par[t]] - value[par[t]]]
    /\ UNCHANGED <<exchange, oldvalue, par, new, target, uiPos, link, patcher, changes>>

SubStore(t) ==
    /\ Goto(t, "subStore", "setValue")
    /\ modvalue' = [modvalue EXCEPT ![par[t]] = reg[t]]
    /\ UNCHANGED <<value, finalvalue, signals, oldvalue, par, new, reg, target, uiPos, link,
                   patcher, changes>>

SetValue(t) ==
    /\ Goto(t, "setValue", "addLoad")
    /\ value' = [value EXCEPT ![par[t]] = new[t]]
    /\ UNCHANGED <<modvalue, finalvalue, signals, oldvalue, par, new, reg, target, uiPos,
                   link, patcher, changes>>

AddLoad(t) ==
    /\ Goto(t, "addLoad", "addStore")
    /\ reg' = [reg EXCEPT ![t] = modvalue[par[t]] + value[par[t]]]
    /\ UNCHANGED <<exchange, oldvalue, par, new, target, uiPos, link, patcher, changes>>

AddStore(t) ==
    /\ Goto(t, "addStore", "signal")
    /\ modvalue' = [modvalue EXCEPT ![par[t]] = reg[t]]
    /\ UNCHANGED <<value, finalvalue, signals, oldvalue, par, new, reg, target, uiPos, link,
                   patcher, changes>>

\* Mutant: with the mask of a change that came from the host.
SetSignalsEcho(t) ==
    /\ Goto(t, "signal", "finalLoad")
    /\ UNCHANGED <<exchange, oldvalue, par, new, reg, target, uiPos, link, patcher, changes>>

\* signals |= 0xFFFD
SetSignals(t) ==
    /\ Goto(t, "signal", "finalLoad")
    /\ signals' = [signals EXCEPT ![par[t]] = TRUE]
    /\ UNCHANGED <<value, modvalue, finalvalue, oldvalue, par, new, reg, target, uiPos, link,
                   patcher, changes>>

\* A parameter without a pfunction.
FinalLoad(t) ==
    /\ Goto(t, "finalLoad", "finalStore")
    /\ reg' = [reg EXCEPT ![t] = modvalue[par[t]]]
    /\ UNCHANGED <<exchange, oldvalue, par, new, target, uiPos, link, patcher, changes>>

FinalStore(t) ==
    /\ Goto(t, "finalStore", "idle")
    /\ finalvalue' = [finalvalue EXCEPT ![par[t]] = reg[t]]
    /\ UNCHANGED <<value, modvalue, signals, oldvalue, par, new, reg, target, uiPos, link,
                   patcher, changes>>

ChangeStep(t) == \/ ChangeBegin(t) \/ SubLoad(t) \/ SubStore(t) \/ SetValue(t) \/ AddLoad(t)
                 \/ AddStore(t) \/ SetSignals(t) \/ FinalLoad(t) \/ FinalStore(t)
-----------------------------------------------------------------------------
(* PExModulationSourceChange *)

ModBegin(t) ==
    /\ t \in Modulators /\ Targets # <<>>
    /\ Change
    /\ Goto(t, "idle", "modLoad")
    /\ \E v \in Values : new' = [new EXCEPT ![t] = v]
    /\ target' = [target EXCEPT ![t] = 1]
    /\ par' = [par EXCEPT ![t] = Targets[1]]
    /\ UNCHANGED <<exchange, oldvalue, reg, uiPos, link, patcher>>

ModLoad(t) ==
    /\ Goto(t, "modLoad", "modStore")
    /\ LET p == par[t]
       IN  reg' = [reg EXCEPT ![t] = modvalue[p] - Contribution[p][oldvalue]
                                                 + Contribution[p][new[t]]]
    /\ UNCHANGED <<exchange, oldvalue, par, new, target, uiPos, link, patcher, changes>>

ModStore(t) ==
    /\ Goto(t, "modStore", "modFinal")
    /\ modvalue' = [modvalue EXCEPT ![par[t]] = reg[t]]
    /\ UNCHANGED <<value, finalvalue, signals, oldvalue, par, new, reg, target, uiPos, link,
                   patcher, changes>>

\* Mutant: the old value of the source is replaced within the loop.
ModFinalOld(t) ==
    /\ finalvalue' = [finalvalue EXCEPT ![par[t]] = reg[t]]
    /\ oldvalue' = new[t]
    /\ IF target[t] < Len(Targets)
         THEN /\ Goto(t, "modFinal", "modLoad")
              /\ target' = [target EXCEPT ![t] = target[t] + 1]
              /\ par' = [par EXCEPT ![t] = Targets[target[t] + 1]]
         ELSE Goto(t, "modFinal", "idle") /\ UNCHANGED <<target, par>>
    /\ UNCHANGED <<value, modvalue, signals, new, reg, uiPos, link, patcher, changes>>

\* Store finalvalue, then go on with the next target; the old value of the
\* source is replaced after the last one.
ModFinal(t) ==
    /\ finalvalue' = [finalvalue EXCEPT ![par[t]] = reg[t]]
    /\ IF target[t] < Len(Targets)
         THEN /\ Goto(t, "modFinal", "modLoad")
              /\ target' = [target EXCEPT ![t] = target[t] + 1]
              /\ par' = [par EXCEPT ![t] = Targets[target[t] + 1]]
              /\ UNCHANGED oldvalue
         ELSE /\ Goto(t, "modFinal", "idle")
              /\ oldvalue' = new[t]
              /\ UNCHANGED <<target, par>>
    /\ UNCHANGED <<value, modvalue, signals, new, reg, uiPos, link, patcher, changes>>

ModStep(t) == ModBegin(t) \/ ModLoad(t) \/ ModStore(t) \/ ModFinal(t)
-----------------------------------------------------------------------------
(* ui *)

\* PExParameterChange(p, v, ...) in one step.
Changed(p, v) ==
    /\ value' = [value EXCEPT ![p] = v]
    /\ modvalue' = [modvalue EXCEPT ![p] = modvalue[p] - value[p] + v]
    /\ finalvalue' = [finalvalue EXCEPT ![p] = modvalue'[p]]

\* "AxoP": not to be sent back to the host.
Receive ==
    /\ uiPos = 0 /\ toBoard # <<>>
    /\ Changed(Head(toBoard)[1], Head(toBoard)[2])
    /\ toBoard' = Tail(toBoard)
    /\ told' = [told EXCEPT ![Head(toBoard)[1]] = Head(toBoard)[2]]
    /\ UNCHANGED <<signals, oldvalue, writers, uiPos, toHost, patcher, changes>>

\* "AxoT": a preset changes all the parameters it has an entry for.
ApplyPreset ==
    /\ "presets" \in Features
    /\ uiPos = 0
    /\ Change
    /\ \E S \in SUBSET Params : \E preset \in [S -> Values] :
          LET Of(p) == IF p \in S THEN preset[p] ELSE value[p]
          IN  /\ value' = [p \in Params |-> Of(p)]
              /\ modvalue' = [p \in Params |-> modvalue[p] - value[p] + Of(p)]
              /\ finalvalue' = [p \in Params |-> IF p \in S THEN modvalue'[p]
                                                 ELSE finalvalue[p]]
              /\ signals' = [p \in Params |-> signals[p] \/ p \in S]
    /\ UNCHANGED <<oldvalue, writers, uiPos, link, patcher>>

TransmitNow ==
    /\ IF uiPos > 0 /\ signals[uiPos]
         THEN /\ toHost' = Append(toHost, <<uiPos, value[uiPos]>>)
              /\ told' = [told EXCEPT ![uiPos] = value[uiPos]]
              /\ signals' = [signals EXCEPT ![uiPos] = FALSE]
         ELSE UNCHANGED <<toHost, told, signals>>
    /\ UNCHANGED <<value, modvalue, finalvalue, oldvalue, writers, toBoard, patcher, changes>>

\* Mutants: the last parameter is left out, or one too many gone through.
TransmitShort == TransmitNow /\ uiPos' = (uiPos + 1) % NumPEx
TransmitOver == TransmitNow /\ uiPos' = (uiPos + 1) % (NumPEx + 2)

\* PExTransmit goes through the parameters, and waits for the host when it
\* sends one.
Transmit == TransmitNow /\ uiPos' = (uiPos + 1) % (NumPEx + 1)

UIStep == Receive \/ ApplyPreset \/ Transmit
-----------------------------------------------------------------------------
(* The patcher: its graphical interface does all of this *)

Turn(p) ==
    /\ "host" \in Features
    /\ Change
    /\ \E v \in Values \ {hostValue[p]} : hostValue' = [hostValue EXCEPT ![p] = v]
    /\ needsTransmit' = [needsTransmit EXCEPT ![p] = TRUE]
    /\ UNCHANGED <<exchange, oldvalue, writers, uiPos, link>>

TXData(p) ==
    /\ needsTransmit[p]
    /\ needsTransmit' = [needsTransmit EXCEPT ![p] = FALSE]
    /\ toBoard' = Append(toBoard, <<p, hostValue[p]>>)
    /\ UNCHANGED <<exchange, oldvalue, writers, uiPos, toHost, told, hostValue, changes>>

\* A value of the board does not replace one that has yet to be sent to it.
ParamChange ==
    /\ toHost # <<>>
    /\ toHost' = Tail(toHost)
    /\ LET p == Head(toHost)[1]
       IN  hostValue' = IF needsTransmit[p] THEN hostValue
                        ELSE [hostValue EXCEPT ![p] = Head(toHost)[2]]
    /\ UNCHANGED <<exchange, oldvalue, writers, uiPos, toBoard, told, needsTransmit, changes>>

PatcherStep == ParamChange \/ \E p \in Params : Turn(p) \/ TXData(p)
-----------------------------------------------------------------------------
WriterStep(t) == ChangeStep(t) \/ ModStep(t)

Next == UIStep \/ PatcherStep \/ \E t \in Writers : WriterStep(t)

Spec == Init /\ [][Next]_vars

(***************************************************************************)
(* ui keeps going through the parameters and takes what arrives, a change  *)
(* that began goes on when ui lets it, and the patcher sends and takes     *)
(* what it has.                                                            *)
(***************************************************************************)
Fairness ==
    /\ WF_vars(Transmit) /\ SF_vars(Receive)
    /\ WF_vars(ParamChange) /\ \A p \in Params : WF_vars(TXData(p))
    /\ \A t \in Writers : WF_vars(pc[t] # "idle" /\ WriterStep(t))

FairSpec == Spec /\ Fairness
-----------------------------------------------------------------------------
(* Properties *)

Modulation(p) == IF \E i \in DOMAIN Targets : Targets[i] = p THEN Contribution[p][oldvalue]
                 ELSE 0

\* parameters.h: modvalue is the "parameter value after modulation"; between two
\* changes it is the value plus what the source adds to it, and finalvalue
\* follows it.
ModulationKept ==
    (\A t \in Writers : pc[t] = "idle")
        => \A p \in Params : /\ modvalue[p] = value[p] + Modulation(p)
                             /\ finalvalue[p] = modvalue[p]

\* A value the patcher does not know is going to be sent: no change gets lost
\* between the writers and PExTransmit.
ChangesReported ==
    \A p \in Params : value[p] = told[p] \/ signals[p]
        \/ \E t \in Writers : par[t] = p /\ pc[t] \in {"addLoad", "addStore", "signal"}

\* When nothing changes any more, the patcher comes to show the values of the
\* board.
PatcherFollows == <>[](hostValue = value)
=============================================================================
