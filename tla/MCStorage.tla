------------------------------ MODULE MCStorage ------------------------------
(* The store on small instances; the layouts are explained in README.md. *)
EXTENDS Storage, TLC

CONSTANTS k1, k2, k3, v1, v2

LenTwo == [k \in Keys |-> 2]
LenMixed == [k \in Keys |-> IF k = k2 THEN 6 ELSE 2]

NoFaults == {}
Resets == {"reset"}
PowerFaults == {"power", "tornwrite"}
AllFaults == {"power", "tornwrite", "tornerase", "decay"}

Symmetry == Permutations({k1, k2}) \cup Permutations({v1, v2})
SymmetryOfVals == Permutations({v1, v2})
=============================================================================
