------------------------------- MODULE MCListOps -------------------------------
(* Values for model checking ListOps.                                        *)
EXTENDS ListOps, TLC

CONSTANTS a, b

TwoValues == {a, b}

(* A function that changes its argument, and commutes with the permutations. *)
Swap == [v \in TwoValues |-> IF v = a THEN b ELSE a]

(* The specification treats values alike; the properties are safety only.    *)
Symmetry == Permutations(TwoValues)

================================================================================
