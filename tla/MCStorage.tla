------------------------------ MODULE MCStorage ------------------------------
(* Storage with small tables: sizes chosen so that two entries fit a table  *)
(* of the least size and a third does not.                                  *)
EXTENDS Storage, TLC

CONSTANTS k1, k2, k3, v1, v2, big

MCSize == [v \in Val |-> IF v = big THEN minimumSize ELSE 2]

Symmetric == Permutations(HKey) \cup Permutations(Val \ {big})
=============================================================================
