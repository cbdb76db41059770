------------------------ MODULE ParamExchangeProofs ------------------------
(***************************************************************************)
(* TypeOK and ChangesReported for every patch, every set of writers and    *)
(* all features; ModulationKept for a single writer.                       *)
(***************************************************************************)
EXTENDS ParamExchange, TLAPS

USE DEF PCs, exchange, writers, link, patcher

\* What the steps need of the assumption on the constants.
LEMMA Parameters ==
    /\ NumPEx \in Nat \ {0} /\ MaxChanges \in Nat
    /\ 1 \in Params
    /\ Values \subseteq Int /\ 0 \in Values
  BY ParamsAssumption DEF ParamsAssumption, Params

LEMMA Contributions ==
    ASSUME NEW p \in Params, NEW x \in Values
    PROVE  Contribution[p][x] \in Int
  BY ParamsAssumption DEF ParamsAssumption

LEMMA TargetParams ==
    /\ Len(Targets) \in Nat /\ DOMAIN Targets = 1..Len(Targets)
    /\ \A i \in 1..Len(Targets) : Targets[i] \in Params
  BY ParamsAssumption DEF ParamsAssumption

LEMMA InitType == Init => TypeOK
  BY Parameters DEF Init, TypeOK, Messages

\* The two functions of the patch keep the types, whichever thread runs them.
LEMMA ChangeType ==
    ASSUME TypeOK, NEW t \in Writers, ChangeStep(t)
    PROVE  TypeOK'
<1> USE Parameters DEF TypeOK, Goto
<1>i. modvalue[par[t]] \in Int /\ value[par[t]] \in Int OBVIOUS
<1>1. CASE ChangeBegin(t) BY <1>1 DEF ChangeBegin, Change
<1>2. CASE SubLoad(t)
  <2>1. modvalue[par[t]] - value[par[t]] \in Int BY <1>i
  <2>2. QED BY <1>2, <2>1 DEF SubLoad
<1>3. CASE SubStore(t)    BY <1>3 DEF SubStore
<1>4. CASE SetValue(t)    BY <1>4 DEF SetValue
<1>5. CASE AddLoad(t)
  <2>1. modvalue[par[t]] + value[par[t]] \in Int BY <1>i
  <2>2. QED BY <1>5, <2>1 DEF AddLoad
<1>6. CASE AddStore(t)    BY <1>6 DEF AddStore
<1>7. CASE SetSignals(t)  BY <1>7 DEF SetSignals
<1>8. CASE FinalLoad(t)   BY <1>8 DEF FinalLoad
<1>9. CASE FinalStore(t)  BY <1>9 DEF FinalStore
<1>10. QED
  BY <1>1, <1>2, <1>3, <1>4, <1>5, <1>6, <1>7, <1>8, <1>9 DEF ChangeStep

LEMMA ModType ==
    ASSUME TypeOK, NEW t \in Writers, ModStep(t)
    PROVE  TypeOK'
<1> USE Parameters DEF TypeOK, Goto
<1>1. CASE ModBegin(t)
  <2>1. Targets[1] \in Params BY <1>1, TargetParams DEF ModBegin
  <2>2. QED BY <1>1, <2>1 DEF ModBegin, Change
<1>2. CASE ModLoad(t)
  <2>1. /\ modvalue[par[t]] \in Int
        /\ Contribution[par[t]][oldvalue] \in Int /\ Contribution[par[t]][new[t]] \in Int
    BY Contributions
  <2>2. modvalue[par[t]] - Contribution[par[t]][oldvalue] + Contribution[par[t]][new[t]] \in Int
    BY <2>1
  <2>3. QED BY <1>2, <2>2 DEF ModLoad
<1>3. CASE ModStore(t)    BY <1>3 DEF ModStore
<1>4. CASE ModFinal(t)
  <2>1. CASE target[t] < Len(Targets)
    <3>1. Targets[target[t] + 1] \in Params BY <2>1, TargetParams
    <3>2. target[t] + 1 \in Nat OBVIOUS
    <3>3. /\ target' = [target EXCEPT ![t] = target[t] + 1]
          /\ par' = [par EXCEPT ![t] = Targets[target[t] + 1]]
          /\ pc' = [pc EXCEPT ![t] = "modLoad"]
          /\ finalvalue' = [finalvalue EXCEPT ![par[t]] = reg[t]]
          /\ UNCHANGED <<oldvalue, value, modvalue, signals, new, reg, uiPos, link, patcher,
                         changes>>
      BY <1>4, <2>1 DEF ModFinal
    <3>4. QED BY <3>1, <3>2, <3>3
  <2>2. CASE ~(target[t] < Len(Targets))
    <3>1. /\ pc' = [pc EXCEPT ![t] = "idle"]
          /\ oldvalue' = new[t]
          /\ finalvalue' = [finalvalue EXCEPT ![par[t]] = reg[t]]
          /\ UNCHANGED <<target, par, value, modvalue, signals, new, reg, uiPos, link,
                         patcher, changes>>
      BY <1>4, <2>2 DEF ModFinal
    <3>2. QED BY <3>1
  <2>3. QED BY <2>1, <2>2
<1>5. QED BY <1>1, <1>2, <1>3, <1>4 DEF ModStep

LEMMA UIType ==
    ASSUME TypeOK, UIStep
    PROVE  TypeOK'
<1> USE Parameters DEF TypeOK
<1>1. CASE Receive
  <2>1. Head(toBoard) \in Params \X Values /\ Tail(toBoard) \in Messages
    BY <1>1 DEF Receive, Messages
  <2> DEFINE p == Head(toBoard)[1]
             v == Head(toBoard)[2]
  <2>2. p \in Params /\ v \in Values BY <2>1
  <2>3. /\ value' = [value EXCEPT ![p] = v]
        /\ modvalue' = [modvalue EXCEPT ![p] = modvalue[p] - value[p] + v]
        /\ finalvalue' = [finalvalue EXCEPT ![p] = modvalue'[p]]
        /\ told' = [told EXCEPT ![p] = v]
        /\ toBoard' = Tail(toBoard)
        /\ UNCHANGED <<signals, oldvalue, writers, uiPos, toHost, patcher, changes>>
    BY <1>1 DEF Receive, Changed
  <2> HIDE DEF p, v
  <2>4. modvalue[p] - value[p] + v \in Int
    <3>1. modvalue[p] \in Int /\ value[p] \in Int /\ v \in Int BY <2>2
    <3>2. QED BY <3>1
  <2>5. modvalue' \in [Params -> Int] BY <2>3, <2>4
  <2>6. modvalue'[p] \in Int BY <2>2, <2>5
  <2>7. QED BY <2>1, <2>2, <2>3, <2>5, <2>6
<1>2. CASE ApplyPreset
  <2>1. PICK S \in SUBSET Params : \E preset \in [S -> Values] :
          LET Of(p) == IF p \in S THEN preset[p] ELSE value[p]
          IN  /\ value' = [p \in Params |-> Of(p)]
              /\ modvalue' = [p \in Params |-> modvalue[p] - value[p] + Of(p)]
              /\ finalvalue' = [p \in Params |-> IF p \in S THEN modvalue'[p]
                                                 ELSE finalvalue[p]]
              /\ signals' = [p \in Params |-> signals[p] \/ p \in S]
    BY <1>2 DEF ApplyPreset
  <2>2. value' \in [Params -> Values] BY <2>1
  <2>3. modvalue' = [p \in Params |-> modvalue[p] - value[p] + value'[p]] BY <2>1
  <2>4. ASSUME NEW p \in Params PROVE modvalue[p] - value[p] + value'[p] \in Int
    <3>1. modvalue[p] \in Int /\ value[p] \in Int /\ value'[p] \in Int BY <2>2
    <3>2. QED BY <3>1
  <2>5. modvalue' \in [Params -> Int] BY <2>3, <2>4
  <2>6. finalvalue' \in [Params -> Int] BY <2>1, <2>5
  <2>7. signals' \in [Params -> BOOLEAN] BY <2>1, Zenon
  <2>8. changes' \in 0..MaxChanges BY <1>2 DEF ApplyPreset, Change
  <2>9. QED BY <1>2, <2>2, <2>5, <2>6, <2>7, <2>8 DEF ApplyPreset
<1>3. CASE Transmit
  <2>0. uiPos' \in 0..NumPEx BY <1>3 DEF Transmit
  <2>1. CASE uiPos > 0 /\ signals[uiPos]
    <3>1. uiPos \in Params /\ <<uiPos, value[uiPos]>> \in Params \X Values
      BY <2>1 DEF Params
    <3>2. Append(toHost, <<uiPos, value[uiPos]>>) \in Messages BY <3>1 DEF Messages
    <3>3. /\ toHost' = Append(toHost, <<uiPos, value[uiPos]>>)
          /\ told' = [told EXCEPT ![uiPos] = value[uiPos]]
          /\ signals' = [signals EXCEPT ![uiPos] = FALSE]
      BY <1>3, <2>1 DEF Transmit, TransmitNow
    <3>4. QED BY <1>3, <2>0, <3>1, <3>2, <3>3 DEF Transmit, TransmitNow
  <2>2. CASE ~(uiPos > 0 /\ signals[uiPos])
    BY <1>3, <2>0, <2>2 DEF Transmit, TransmitNow
  <2>3. QED BY <2>1, <2>2
<1>4. QED BY <1>1, <1>2, <1>3 DEF UIStep

LEMMA PatcherType ==
    ASSUME TypeOK, PatcherStep
    PROVE  TypeOK'
<1> USE Parameters DEF TypeOK
<1>1. CASE ParamChange
  <2>1. Head(toHost) \in Params \X Values /\ Tail(toHost) \in Messages
    BY <1>1 DEF ParamChange, Messages
  <2>2. QED BY <1>1, <2>1 DEF ParamChange
<1>2. ASSUME NEW p \in Params, Turn(p) PROVE TypeOK'
  BY <1>2 DEF Turn, Change
<1>3. ASSUME NEW p \in Params, TXData(p) PROVE TypeOK'
  <2>1. Append(toBoard, <<p, hostValue[p]>>) \in Messages BY DEF Messages
  <2>2. QED BY <1>3, <2>1 DEF TXData
<1>4. QED BY <1>1, <1>2, <1>3 DEF PatcherStep

LEMMA TypeStep == TypeOK /\ [Next]_vars => TypeOK'
<1> SUFFICES ASSUME TypeOK, [Next]_vars PROVE TypeOK'
  OBVIOUS
<1>1. CASE UNCHANGED vars BY <1>1 DEF TypeOK, vars
<1>2. CASE Next
  BY <1>2, ChangeType, ModType, UIType, PatcherType DEF Next, WriterStep
<1>3. QED BY <1>1, <1>2

\* Every variable of the exchange keeps its type: the modulated values stay
\* defined, and ui never goes beyond the last parameter.
THEOREM TypeCorrect == Spec => []TypeOK
  BY InitType, TypeStep, PTL DEF Spec
-----------------------------------------------------------------------------
(* ChangesReported is inductive: it names every step of a change after     *)
(* which the value is new and the signal not yet set.                      *)

Unsent == {"addLoad", "addStore", "signal"}

LEMMA ReportedInit == Init => ChangesReported
  BY DEF Init, ChangesReported

LEMMA ReportedByChange ==
    ASSUME TypeOK, ChangesReported, NEW t \in Writers, ChangeStep(t)
    PROVE  ChangesReported'
<1> SUFFICES ASSUME NEW p \in Params
             PROVE  \/ value'[p] = told'[p] \/ signals'[p]
                    \/ \E u \in Writers : par'[u] = p /\ pc'[u] \in Unsent
  BY DEF ChangesReported, Unsent
<1>0. \/ value[p] = told[p] \/ signals[p]
      \/ \E u \in Writers : par[u] = p /\ pc[u] \in Unsent
  BY DEF ChangesReported, Unsent
<1> USE DEF TypeOK, Goto, Unsent
<1>1. CASE ChangeBegin(t) BY <1>0, <1>1 DEF ChangeBegin
<1>2. CASE SubLoad(t)     BY <1>0, <1>2 DEF SubLoad
<1>3. CASE SubStore(t)    BY <1>0, <1>3 DEF SubStore
<1>4. CASE SetValue(t)
  <2>1. CASE p = par[t] BY <1>4, <2>1 DEF SetValue
  <2>2. CASE p # par[t] BY <1>0, <1>4, <2>2 DEF SetValue
  <2>3. QED BY <2>1, <2>2
<1>5. CASE AddLoad(t)     BY <1>0, <1>5 DEF AddLoad
<1>6. CASE AddStore(t)    BY <1>0, <1>6 DEF AddStore
<1>7. CASE SetSignals(t)
  <2>1. CASE p = par[t] BY <1>7, <2>1 DEF SetSignals
  <2>2. CASE p # par[t] BY <1>0, <1>7, <2>2 DEF SetSignals
  <2>3. QED BY <2>1, <2>2
<1>8. CASE FinalLoad(t)   BY <1>0, <1>8 DEF FinalLoad
<1>9. CASE FinalStore(t)  BY <1>0, <1>9 DEF FinalStore
<1>10. QED
  BY <1>1, <1>2, <1>3, <1>4, <1>5, <1>6, <1>7, <1>8, <1>9 DEF ChangeStep

\* A modulation changes neither values nor signals.
LEMMA ReportedByMod ==
    ASSUME TypeOK, ChangesReported, NEW t \in Writers, ModStep(t)
    PROVE  ChangesReported'
<1>1. /\ UNCHANGED <<value, told, signals>>
      /\ pc[t] \in {"idle", "modLoad", "modStore", "modFinal"}
      /\ \A u \in Writers \ {t} : pc'[u] = pc[u] /\ par'[u] = par[u]
  BY DEF TypeOK, Goto, ModStep, ModBegin, ModLoad, ModStore, ModFinal
<1>2. QED BY <1>1 DEF ChangesReported

LEMMA ReportedByUI ==
    ASSUME TypeOK, ChangesReported, UIStep
    PROVE  ChangesReported'
<1>0. UNCHANGED <<pc, par>>
  BY DEF UIStep, Receive, ApplyPreset, Transmit, TransmitNow
<1> SUFFICES ASSUME NEW p \in Params,
                    ~ \E u \in Writers : par[u] = p /\ pc[u] \in Unsent
             PROVE  value'[p] = told'[p] \/ signals'[p]
  BY <1>0 DEF ChangesReported, Unsent
<1>1. value[p] = told[p] \/ signals[p]
  BY DEF ChangesReported, Unsent
<1> USE DEF TypeOK
<1>2. CASE Receive
  <2>1. CASE p = Head(toBoard)[1] BY <1>2, <2>1 DEF Receive, Changed
  <2>2. CASE p # Head(toBoard)[1] BY <1>1, <1>2, <2>2 DEF Receive, Changed
  <2>3. QED BY <2>1, <2>2
<1>3. CASE ApplyPreset
  <2>1. PICK S \in SUBSET Params : \E preset \in [S -> Values] :
          /\ value' = [q \in Params |-> IF q \in S THEN preset[q] ELSE value[q]]
          /\ signals' = [q \in Params |-> signals[q] \/ q \in S]
    BY <1>3 DEF ApplyPreset
  <2>2. CASE p \in S BY <2>1, <2>2
  <2>3. CASE p \notin S
    <3>1. value'[p] = value[p] BY <2>1, <2>3
    <3>2. signals'[p] = signals[p] BY <2>1, <2>3
    <3>3. QED BY <1>1, <1>3, <3>1, <3>2 DEF ApplyPreset
  <2>4. QED BY <2>2, <2>3
<1>4. CASE Transmit
  <2>1. CASE p = uiPos BY <1>1, <1>4, <2>1 DEF Transmit, TransmitNow, Params
  <2>2. CASE p # uiPos BY <1>1, <1>4, <2>2 DEF Transmit, TransmitNow
  <2>3. QED BY <2>1, <2>2
<1>5. QED BY <1>2, <1>3, <1>4 DEF UIStep

LEMMA ReportedStep == TypeOK /\ ChangesReported /\ [Next]_vars => ChangesReported'
<1> SUFFICES ASSUME TypeOK, ChangesReported, [Next]_vars PROVE ChangesReported'
  OBVIOUS
<1>1. CASE UNCHANGED vars BY <1>1 DEF ChangesReported, vars
<1>2. CASE PatcherStep
  <2>1. UNCHANGED <<value, told, signals, pc, par>>
    BY <1>2 DEF PatcherStep, ParamChange, Turn, TXData
  <2>2. QED BY <2>1 DEF ChangesReported
<1>3. QED
  BY <1>1, <1>2, ReportedByChange, ReportedByMod, ReportedByUI DEF Next, WriterStep

\* Whichever threads change parameters, and whatever the host and presets do
\* meanwhile: a value the host has not been told of is still going to be sent.
THEOREM NoChangeLost == Spec => []ChangesReported
  BY InitType, TypeStep, ReportedInit, ReportedStep, PTL DEF Spec
-----------------------------------------------------------------------------
(* ModulationKept, for a single writer w and no changes from the host.       *)

Modulating == {"modLoad", "modStore", "modFinal"}

\* The writer has already gone through p in the modulation under way.
Through(w, p) == pc[w] \in Modulating /\ \E i \in 1..(target[w] - 1) : Targets[i] = p

\* What modvalue exceeds value by, between two steps that change it.
Offset(w, p) == IF Through(w, p) THEN Contribution[p][new[w]] ELSE Modulation(p)

\* The parameters that the writer is not in the middle of changing.
Settled(w, p) == p # par[w] \/ pc[w] \in {"idle", "subLoad", "subStore", "modLoad", "modStore"}

SettledKept(w) ==
    \A p \in Params : Settled(w, p)
        => modvalue[p] = value[p] + Offset(w, p) /\ finalvalue[p] = modvalue[p]

\* What the register holds and how far the parameter is, at each step.
ChangeKept(w) == LET p == par[w] IN
    /\ pc[w] = "subStore" => reg[w] = modvalue[p] - value[p]
    /\ pc[w] \in {"setValue", "addLoad", "addStore"} => modvalue[p] = Modulation(p)
    /\ pc[w] = "addStore" => reg[w] = modvalue[p] + value[p]
    /\ pc[w] \in {"signal", "finalLoad", "finalStore"} => modvalue[p] = value[p] + Modulation(p)
    /\ pc[w] = "finalStore" => reg[w] = modvalue[p]

ModKept(w) == LET p == par[w] IN
    /\ pc[w] \in Modulating => target[w] \in 1..Len(Targets) /\ p = Targets[target[w]]
    /\ pc[w] = "modStore" => reg[w] = modvalue[p] - Contribution[p][oldvalue]
                                                  + Contribution[p][new[w]]
    /\ pc[w] = "modFinal" => modvalue[p] = value[p] + Contribution[p][new[w]]
                             /\ reg[w] = modvalue[p]

HostQuiet == toBoard = <<>> /\ \A p \in Params : ~needsTransmit[p]

Kept(w) == TypeOK /\ HostQuiet /\ SettledKept(w) /\ ChangeKept(w) /\ ModKept(w)

LEMMA TargetsDiffer ==
    \A i, j \in 1..Len(Targets) : i # j => Targets[i] # Targets[j]
  BY ParamsAssumption DEF ParamsAssumption

LEMMA ModulationInt ==
    ASSUME TypeOK, NEW p \in Params
    PROVE  Modulation(p) \in Int
  BY Contributions DEF TypeOK, Modulation

\* A target that the source has not gone through has the old contribution.
LEMMA OffsetOfTarget ==
    ASSUME NEW w \in Writers, ModKept(w), pc[w] \in Modulating
    PROVE  ~Through(w, par[w]) /\ Offset(w, par[w]) = Contribution[par[w]][oldvalue]
<1>1. target[w] \in 1..Len(Targets) /\ par[w] = Targets[target[w]]
  BY DEF ModKept
<1>2. ~Through(w, par[w])
  <2> SUFFICES ASSUME NEW i \in 1..(target[w] - 1), Targets[i] = par[w] PROVE FALSE
    BY DEF Through
  <2>1. i \in 1..Len(Targets) /\ i # target[w] BY <1>1, TargetParams
  <2>2. QED BY <1>1, <2>1, TargetsDiffer
<1>3. Modulation(par[w]) = Contribution[par[w]][oldvalue]
  BY <1>1, TargetParams DEF Modulation
<1>4. QED BY <1>2, <1>3 DEF Offset

LEMMA KeptInit ==
    ASSUME NEW w \in Writers
    PROVE  Init => Kept(w)
<1> SUFFICES ASSUME Init PROVE Kept(w)
  OBVIOUS
<1>1. TypeOK BY InitType
<1>2. \A p \in Params : Modulation(p) = 0
  BY ParamsAssumption DEF ParamsAssumption, Init, Modulation
<1>3. pc[w] = "idle" BY DEF Init
<1>4. SettledKept(w)
  <2> SUFFICES ASSUME NEW p \in Params
               PROVE  modvalue[p] = value[p] + Offset(w, p) /\ finalvalue[p] = modvalue[p]
    BY DEF SettledKept
  <2>1. Offset(w, p) = 0 BY <1>2, <1>3 DEF Offset, Through, Modulating
  <2>2. value[p] = 0 /\ modvalue[p] = 0 /\ finalvalue[p] = 0 BY DEF Init
  <2>3. QED BY <2>1, <2>2
<1>5. ChangeKept(w) /\ ModKept(w) BY <1>3 DEF ChangeKept, ModKept, Modulating
<1>6. HostQuiet BY DEF HostQuiet, Init
<1>7. QED BY <1>1, <1>4, <1>5, <1>6 DEF Kept

\* A change of a parameter: the contribution of the source stays in modvalue.
LEMMA KeptByChange ==
    ASSUME NEW w \in Writers, Kept(w), ChangeStep(w)
    PROVE  SettledKept(w)' /\ ChangeKept(w)' /\ ModKept(w)'
<1> DEFINE q == par[w]
<1>1. /\ pc[w] \notin Modulating /\ pc'[w] \notin Modulating
      /\ UNCHANGED oldvalue
  BY DEF Kept, TypeOK, Modulating, Goto, ChangeStep, ChangeBegin, SubLoad, SubStore,
         SetValue, AddLoad, AddStore, SetSignals, FinalLoad, FinalStore
<1>2. \A p \in Params : Modulation(p)' = Modulation(p) /\ Modulation(p) \in Int
  BY <1>1, ModulationInt DEF Modulation, Kept
<1>3. \A p \in Params : Offset(w, p) = Modulation(p) /\ Offset(w, p)' = Modulation(p)
  BY <1>1, <1>2 DEF Offset, Through
<1>4. ASSUME NEW p \in Params, Settled(w, p)
      PROVE  modvalue[p] = value[p] + Modulation(p) /\ finalvalue[p] = modvalue[p]
  BY <1>3, <1>4 DEF Kept, SettledKept
<1>5. q \in Params /\ value[q] \in Int /\ modvalue[q] \in Int /\ new[w] \in Int
  BY Parameters DEF Kept, TypeOK
<1>6. ModKept(w)' BY <1>1 DEF ModKept, Modulating
<1> SUFFICES /\ \A p \in Params : Settled(w, p)' =>
                   modvalue'[p] = value'[p] + Modulation(p) /\ finalvalue'[p] = modvalue'[p]
             /\ ChangeKept(w)'
  BY <1>3, <1>6 DEF SettledKept
<1>c. ChangeKept(w) /\ TypeOK BY DEF Kept
<1> USE DEF Settled, ChangeKept, Goto, TypeOK
<1> HIDE DEF q
<1>7. CASE ChangeBegin(w)
  <2>1. pc[w] = "idle" /\ pc'[w] = "subLoad"
        /\ UNCHANGED <<modvalue, value, finalvalue>>
    BY <1>7, <1>c DEF ChangeBegin
  <2>2. QED BY <2>1, <1>4
<1>8. CASE SubLoad(w)
  <2>1. /\ pc[w] = "subLoad" /\ pc'[w] = "subStore"
        /\ UNCHANGED <<modvalue, value, finalvalue, par>>
        /\ reg'[w] = modvalue[q] - value[q]
    BY <1>8, <1>c DEF SubLoad, q
  <2>2. QED BY <2>1, <1>4 DEF q
<1>9. CASE SubStore(w)
  <2>1. /\ pc[w] = "subStore" /\ pc'[w] = "setValue"
        /\ UNCHANGED <<value, finalvalue, par>>
        /\ modvalue'[q] = reg[w] /\ \A p \in Params \ {q} : modvalue'[p] = modvalue[p]
    BY <1>9, <1>c, <1>5 DEF SubStore, q
  <2>2. reg[w] = Modulation(q)
    BY <2>1, <1>c, <1>4, <1>5, <1>2 DEF q
  <2>3. QED BY <2>1, <2>2, <1>4, <1>2, <1>5 DEF q
<1>10. CASE SetValue(w)
  <2>1. /\ pc[w] = "setValue" /\ pc'[w] = "addLoad"
        /\ UNCHANGED <<modvalue, finalvalue, par>>
        /\ \A p \in Params \ {q} : value'[p] = value[p]
    BY <1>10, <1>c, <1>5 DEF SetValue, q
  <2>2. QED BY <2>1, <1>4, <1>2, <1>5, <1>c DEF q
<1>11. CASE AddLoad(w)
  <2>1. /\ pc[w] = "addLoad" /\ pc'[w] = "addStore"
        /\ UNCHANGED <<modvalue, value, finalvalue, par>>
        /\ reg'[w] = modvalue[q] + value[q]
    BY <1>11, <1>c DEF AddLoad, q
  <2>2. QED BY <2>1, <1>4, <1>2, <1>5, <1>c DEF q
<1>12. CASE AddStore(w)
  <2>1. /\ pc[w] = "addStore" /\ pc'[w] = "signal"
        /\ UNCHANGED <<value, finalvalue, par>>
        /\ modvalue'[q] = reg[w] /\ \A p \in Params \ {q} : modvalue'[p] = modvalue[p]
    BY <1>12, <1>c, <1>5 DEF AddStore, q
  <2>2. reg[w] = value[q] + Modulation(q)
    BY <2>1, <1>c, <1>5, <1>2 DEF q
  <2>3. QED BY <2>1, <2>2, <1>4, <1>2, <1>5 DEF q
<1>13. CASE SetSignals(w)
  <2>1. /\ pc[w] = "signal" /\ pc'[w] = "finalLoad"
        /\ UNCHANGED <<modvalue, value, finalvalue, par>>
    BY <1>13, <1>c DEF SetSignals
  <2>2. QED BY <2>1, <1>4, <1>2, <1>5, <1>c DEF q
<1>14. CASE FinalLoad(w)
  <2>1. /\ pc[w] = "finalLoad" /\ pc'[w] = "finalStore"
        /\ UNCHANGED <<modvalue, value, finalvalue, par>>
        /\ reg'[w] = modvalue[q]
    BY <1>14, <1>c DEF FinalLoad, q
  <2>2. QED BY <2>1, <1>4, <1>2, <1>5, <1>c DEF q
<1>15. CASE FinalStore(w)
  <2>1. /\ pc[w] = "finalStore" /\ pc'[w] = "idle"
        /\ UNCHANGED <<modvalue, value, par>>
        /\ finalvalue'[q] = reg[w] /\ \A p \in Params \ {q} : finalvalue'[p] = finalvalue[p]
    BY <1>15, <1>c, <1>5 DEF FinalStore, q
  <2>2. QED BY <2>1, <1>4, <1>2, <1>5, <1>c DEF q
<1>16. QED
  BY <1>7, <1>8, <1>9, <1>10, <1>11, <1>12, <1>13, <1>14, <1>15 DEF ChangeStep

\* A modulation: the parameters gone through have the new contribution, the
\* others the old one, and at the end all of them the new one.
LEMMA KeptByMod ==
    ASSUME NEW w \in Writers, Kept(w), ModStep(w)
    PROVE  SettledKept(w)' /\ ChangeKept(w)' /\ ModKept(w)'
<1>q. PICK q : q = par[w]
  OBVIOUS
<1> USE <1>q
<1>c. TypeOK /\ ModKept(w) BY DEF Kept
<1>1. q \in Params /\ value[q] \in Int /\ modvalue[q] \in Int /\ target[w] \in Nat
  BY Parameters, <1>c DEF TypeOK
<1>2. ASSUME NEW p \in Params
      PROVE  Contribution[p][oldvalue] \in Int /\ Contribution[p][new[w]] \in Int
  BY Contributions, <1>c DEF TypeOK
<1>3. pc'[w] \in Modulating \cup {"idle"}
  BY <1>c DEF TypeOK, Modulating, Goto, ModStep, ModBegin, ModLoad, ModStore, ModFinal
<1>4. ChangeKept(w)' BY <1>3 DEF ChangeKept, Modulating
<1>5. CASE ModBegin(w)
  <2>1. /\ pc[w] = "idle" /\ pc'[w] = "modLoad"
        /\ UNCHANGED <<modvalue, value, finalvalue, oldvalue>>
        /\ target'[w] = 1 /\ par'[w] = Targets[1] /\ Targets # <<>>
    BY <1>5, <1>c DEF ModBegin, Goto, TypeOK
  <2>2. \A p \in Params : ~Through(w, p) /\ ~Through(w, p)'
    BY <2>1 DEF Through, Modulating
  <2>3. \A p \in Params : Offset(w, p)' = Offset(w, p)
    BY <2>1, <2>2 DEF Offset, Modulation
  <2>4. SettledKept(w)' BY <2>1, <2>3 DEF Kept, SettledKept, Settled
  <2>5. 1 \in 1..Len(Targets) BY <2>1, TargetParams, ParamsAssumption DEF ParamsAssumption
  <2>6. ModKept(w)' BY <2>1, <2>5 DEF ModKept
  <2>7. QED BY <1>4, <2>4, <2>6
<1>6. CASE ModLoad(w)
  <2>1. /\ pc[w] = "modLoad" /\ pc'[w] = "modStore"
        /\ UNCHANGED <<modvalue, value, finalvalue, oldvalue, target, par, new>>
        /\ reg'[w] = modvalue[q] - Contribution[q][oldvalue] + Contribution[q][new[w]]
    BY <1>6, <1>c DEF ModLoad, Goto, TypeOK
  <2>2. \A p \in Params : Offset(w, p)' = Offset(w, p)
    BY <2>1 DEF Offset, Through, Modulation, Modulating
  <2>3. SettledKept(w)' BY <2>1, <2>2 DEF Kept, SettledKept, Settled
  <2>4. ModKept(w)' BY <2>1, <1>c DEF ModKept, Modulating
  <2>5. QED BY <1>4, <2>3, <2>4
<1>7. CASE ModStore(w)
  <2>1. /\ pc[w] = "modStore" /\ pc'[w] = "modFinal"
        /\ UNCHANGED <<value, finalvalue, oldvalue, target, par, new, reg>>
        /\ modvalue'[q] = reg[w] /\ \A p \in Params \ {q} : modvalue'[p] = modvalue[p]
    BY <1>7, <1>c, <1>1 DEF ModStore, Goto, TypeOK
  <2>2. \A p \in Params : Offset(w, p)' = Offset(w, p)
    BY <2>1 DEF Offset, Through, Modulation, Modulating
  <2>3. SettledKept(w)' BY <2>1, <2>2 DEF Kept, SettledKept, Settled
  <2>4. modvalue[q] = value[q] + Contribution[q][oldvalue]
    BY <2>1, <1>1, <1>c, OffsetOfTarget DEF Kept, SettledKept, Settled, Modulating
  <2>5. reg[w] = modvalue[q] - Contribution[q][oldvalue] + Contribution[q][new[w]]
    BY <2>1, <1>c DEF ModKept
  <2>6. reg[w] = value[q] + Contribution[q][new[w]]
    BY <2>4, <2>5, <1>1, <1>2
  <2>7. ModKept(w)' BY <2>1, <2>6, <1>c DEF ModKept, Modulating
  <2>8. QED BY <1>4, <2>3, <2>7
<1>8. CASE ModFinal(w)
  <2>1. /\ pc[w] = "modFinal"
        /\ UNCHANGED <<value, modvalue, new>>
        /\ finalvalue'[q] = reg[w] /\ \A p \in Params \ {q} : finalvalue'[p] = finalvalue[p]
    BY <1>8, <1>c, <1>1 DEF ModFinal, Goto, TypeOK
  <2>2. /\ target[w] \in 1..Len(Targets) /\ q = Targets[target[w]]
        /\ modvalue[q] = value[q] + Contribution[q][new[w]] /\ reg[w] = modvalue[q]
    BY <2>1, <1>c DEF ModKept, Modulating
  <2>3. ASSUME NEW p \in Params, p # q
        PROVE  modvalue[p] = value[p] + Offset(w, p) /\ finalvalue[p] = modvalue[p]
    BY <2>3 DEF Kept, SettledKept, Settled
  <2>4. CASE target[w] < Len(Targets)
    <3>1. /\ pc'[w] = "modLoad" /\ target'[w] = target[w] + 1
          /\ par'[w] = Targets[target[w] + 1] /\ UNCHANGED oldvalue
      BY <1>8, <2>4, <1>c DEF ModFinal, Goto, TypeOK
    <3>2. ModKept(w)' BY <3>1, <2>2, <2>4, TargetParams DEF ModKept
    <3>3. Through(w, q)'
      <4>1. target[w] \in 1..(target'[w] - 1) BY <3>1, <2>2, TargetParams
      <4>2. QED BY <3>1, <4>1, <2>2 DEF Through, Modulating
    <3>4. ASSUME NEW p \in Params, p # q PROVE Through(w, p)' <=> Through(w, p)
      BY <3>1, <3>4, <2>1, <2>2, TargetParams DEF Through, Modulating
    <3>5. ASSUME NEW p \in Params
          PROVE  modvalue'[p] = value'[p] + Offset(w, p)' /\ finalvalue'[p] = modvalue'[p]
      <4>1. CASE p = q BY <4>1, <3>3, <2>1, <2>2 DEF Offset
      <4>2. CASE p # q
        <5>1. Offset(w, p)' = Offset(w, p)
          BY <4>2, <3>1, <3>4, <2>1 DEF Offset, Modulation
        <5>2. QED BY <4>2, <5>1, <2>1, <2>3
      <4>3. QED BY <4>1, <4>2
    <3>6. SettledKept(w)' BY <3>5 DEF SettledKept
    <3>7. QED BY <1>4, <3>2, <3>6
  <2>5. CASE ~(target[w] < Len(Targets))
    <3>1. pc'[w] = "idle" /\ oldvalue' = new[w] /\ target[w] = Len(Targets)
      BY <1>8, <2>2, <2>5, <1>c, TargetParams DEF ModFinal, Goto, TypeOK
    <3>2. ModKept(w)' BY <3>1 DEF ModKept, Modulating
    <3>3. ASSUME NEW p \in Params
          PROVE  modvalue'[p] = value'[p] + Modulation(p)' /\ finalvalue'[p] = modvalue'[p]
      <4>1. CASE p = q
        <5>1. Modulation(p)' = Contribution[q][new[w]]
          BY <4>1, <3>1, <2>1, <2>2, TargetParams DEF Modulation
        <5>2. QED BY <4>1, <5>1, <2>1, <2>2
      <4>2. CASE p # q /\ \E i \in DOMAIN Targets : Targets[i] = p
        <5>1. Through(w, p) BY <4>2, <3>1, <2>1, <2>2, TargetParams DEF Through, Modulating
        <5>2. Offset(w, p) = Contribution[p][new[w]] BY <5>1 DEF Offset
        <5>3. Modulation(p)' = Contribution[p][new[w]] BY <4>2, <3>1 DEF Modulation
        <5>4. QED BY <4>2, <5>2, <5>3, <2>1, <2>3
      <4>3. CASE p # q /\ ~ \E i \in DOMAIN Targets : Targets[i] = p
        <5>1. ~Through(w, p) BY <4>3, <3>1, <2>2, TargetParams DEF Through
        <5>2. Offset(w, p) = 0 /\ Modulation(p)' = 0
          BY <4>3, <5>1 DEF Offset, Modulation
        <5>3. QED BY <4>3, <5>2, <2>1, <2>3
      <4>4. QED BY <4>1, <4>2, <4>3
    <3>4. SettledKept(w)' BY <3>1, <3>3 DEF SettledKept, Offset, Through, Modulating
    <3>5. QED BY <1>4, <3>2, <3>4
  <2>6. QED BY <2>4, <2>5
<1>9. QED BY <1>5, <1>6, <1>7, <1>8 DEF ModStep

\* Nothing else concerns the modulation, when no change comes from the host.
LEMMA KeptStep ==
    ASSUME NEW w, Writers = {w}, Features = {}
    PROVE  Kept(w) /\ [Next]_vars => Kept(w)'
<1> SUFFICES ASSUME Kept(w), [Next]_vars PROVE Kept(w)'
  OBVIOUS
<1>1. TypeOK' BY TypeStep DEF Kept
<1>2. ASSUME UNCHANGED <<value, modvalue, finalvalue, oldvalue, pc, par, new, reg, target>>
      PROVE  SettledKept(w)' /\ ChangeKept(w)' /\ ModKept(w)'
  <2>1. \A p \in Params : Settled(w, p)' = Settled(w, p) /\ Offset(w, p)' = Offset(w, p)
    BY <1>2 DEF Settled, Offset, Through, Modulation
  <2>2. SettledKept(w)' BY <1>2, <2>1 DEF Kept, SettledKept
  <2>3. ChangeKept(w)' /\ ModKept(w)'
    BY <1>2 DEF Kept, ChangeKept, ModKept, Modulation
  <2>4. QED BY <2>2, <2>3
<1>3. CASE UNCHANGED vars
  BY <1>1, <1>2, <1>3 DEF Kept, HostQuiet, vars
<1>4. CASE UIStep
  <2>1. Transmit BY <1>4 DEF UIStep, Receive, ApplyPreset, Kept, HostQuiet
  <2>2. QED BY <1>1, <1>2, <2>1 DEF Kept, HostQuiet, Transmit, TransmitNow
<1>5. CASE PatcherStep
  <2>1. ParamChange BY <1>5 DEF PatcherStep, Turn, TXData, Kept, HostQuiet
  <2>2. QED BY <1>1, <1>2, <2>1 DEF Kept, HostQuiet, ParamChange
<1>6. CASE WriterStep(w)
  <2>1. UNCHANGED <<toBoard, needsTransmit>>
    BY <1>6 DEF WriterStep, ChangeStep, ChangeBegin, SubLoad, SubStore, SetValue, AddLoad,
                AddStore, SetSignals, FinalLoad, FinalStore, ModStep, ModBegin, ModLoad,
                ModStore, ModFinal
  <2>2. QED BY <1>1, <1>6, <2>1, KeptByChange, KeptByMod DEF WriterStep, Kept, HostQuiet
<1>7. QED BY <1>3, <1>4, <1>5, <1>6 DEF Next

LEMMA KeptIsModulationKept ==
    ASSUME NEW w, Writers = {w}
    PROVE  Kept(w) => ModulationKept
<1> SUFFICES ASSUME Kept(w), pc[w] = "idle", NEW p \in Params
             PROVE  modvalue[p] = value[p] + Modulation(p) /\ finalvalue[p] = modvalue[p]
  BY DEF ModulationKept
<1>1. Settled(w, p) /\ ~Through(w, p) BY DEF Settled, Through, Modulating
<1>2. QED BY <1>1 DEF Kept, SettledKept, Offset

\* With one thread that changes and modulates parameters, and nothing from the
\* host, modvalue is the value plus the modulation, for every patch.
THEOREM ModulationKeptAlone ==
    ASSUME NEW w, Writers = {w}, Features = {}
    PROVE  Spec => []ModulationKept
<1>1. Init => Kept(w) BY KeptInit
<1>2. Kept(w) /\ [Next]_vars => Kept(w)' BY KeptStep
<1>3. Kept(w) => ModulationKept BY KeptIsModulationKept
<1>4. QED BY <1>1, <1>2, <1>3, PTL DEF Spec
=============================================================================
