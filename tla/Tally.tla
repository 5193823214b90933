-------------------------------- MODULE Tally --------------------------------
(***************************************************************************)
(* The sum of the amounts of a set of ledger rows, as the number of units   *)
(* they amount to: row x contributes the units <<x, 1>> .. <<x, amount[x]>>.*)
(* Counting needs no recursion, so sums can be reasoned about.              *)
(***************************************************************************)
EXTENDS Integers, FiniteSets

Units(amount, S) == UNION {{x} \X (1..amount[x]) : x \in S}

Tally(amount, S) == Cardinality(Units(amount, S))
==============================================================================
