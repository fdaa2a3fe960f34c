--------------------------- MODULE MCRadioInstances ---------------------------
(***************************************************************************)
(* Instances of RadioInstances for TLC: slots k1, k2 and objects o1 .. o3, *)
(* which are created in any order and hence interchangeable.               *)
(***************************************************************************)
EXTENDS RadioInstances, TLC
CONSTANTS k1, k2, o1, o2, o3

Symmetry == Permutations(Instances) \cup Permutations(Keys)
=============================================================================
