------------------------- MODULE MCStewartRuntime -------------------------
(***************************************************************************)
(* Instance of StewartRuntime for TLC.  Actors a and b take the messages   *)
(* m1 and m2, the third actor c another type, whose only value is n: a     *)
(* send of the wrong type is possible in both directions.                  *)
(***************************************************************************)
EXTENDS StewartRuntime, TLC

CONSTANTS a, b, c, m1, m2, n

MCAccepts == [id \in Ids |-> IF id = c THEN {n} ELSE {m1, m2}]

\* a and b, and m1 and m2, are told apart by nothing.
Symmetry == Permutations({a, b}) \cup Permutations({m1, m2})

=============================================================================
