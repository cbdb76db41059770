-------------------------- MODULE ParamExchangeMC --------------------------
(* Two parameters, the second one modulated before the first. *)
EXTENDS ParamExchange

MCTargets == <<2, 1>>
MCOneTarget == <<1>>
MCContribution == [p \in Params |-> [x \in Values |-> (p + 1) * x]]
=============================================================================
