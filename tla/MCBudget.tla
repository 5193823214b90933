------------------------------ MODULE MCBudget ------------------------------
(* Governed calls on a small instance: a tenant-wide policy and one of user
   "u"; key 1 is charged to "u", key 2 to another user. *)
EXTENDS LlmBudget, TLC

Dims(u) == [f \in Fields |-> IF f = "user" THEN u ELSE f]
MCDimensions == [k \in Keys |-> Dims(IF k = 1 THEN "u" ELSE "v")]
MCScope == [p \in Policies |-> [f \in Fields |->
    IF f = "tenant" THEN f ELSE IF f = "user" /\ p = "mine" THEN "u" ELSE AnyValue]]

Limited(d, m) == [kind \in Kinds |->
    IF kind = "day" THEN [tokens |-> d, cost |-> NoLimit] ELSE [tokens |-> NoLimit, cost |-> m]]
MCLimitChoices == {Limited(3, 4), Limited(NoLimit, 3)}
MCRequested == [k \in Keys |-> <<1, 1>>]
MCReports == {<<1, 0>>, <<2, 1>>}
MCPrices == {<<1, 1>>, <<3, 2>>}
Symmetry == Permutations(Callers)
==============================================================================
