--------------------------- MODULE MCMqttDispatch ---------------------------
(***************************************************************************)
(* Arguments of the register_task calls a model makes: a1 has two filters, *)
(* a2 replaces it under the same name, b1 has another name.  Every task    *)
(* wants topic y; b1 does not want x.                                      *)
(***************************************************************************)
EXTENDS MqttDispatch

CONSTANTS a1, a2, b1, x, y, fx, fy, fall

Replacement == {a1, a2}   \* a task and its replacement
TwoNames == {a1, b1}      \* two tasks side by side

MCNameOf == [t \in Task |-> IF t = b1 THEN 2 ELSE 1]
MCName == {MCNameOf[t] : t \in Task}
MCFiltersOf == [t \in Task |->
    CASE t = a1 -> {fx, fy} [] t = a2 -> {fall} [] t = b1 -> {fy}]
OneTopic == {y}
TwoTopics == {x, y}
MCFilter == {fx, fy, fall}
MCMatches == [f \in MCFilter |->
    CASE f = fx -> {x} \cap Topic [] f = fy -> {y} [] f = fall -> Topic]
=============================================================================
