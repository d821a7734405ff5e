--------------------------- MODULE MCMioRegistry ---------------------------
(* Instance of MioRegistry for TLC: interchangeable sources.               *)
EXTENDS MioRegistry, TLC

Symmetry == Permutations(Sources)

=============================================================================
