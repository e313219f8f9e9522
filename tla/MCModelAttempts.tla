-------------------------- MODULE MCModelAttempts --------------------------
(* One step with two attempts and two workers. *)
EXTENDS ModelAttempts

CONSTANTS a1, a2

MCOwn == <<a1, a2>>
MCCost == [r \in Routes |-> IF r = "primary" THEN 1 ELSE 2]
Symmetry == Permutations(Workers)
=============================================================================
