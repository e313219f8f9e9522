------------------------------ MODULE MCQuota ------------------------------
(* Quota on a few attempts. *)
EXTENDS Quota, TLC

Symmetry == Permutations(Attempts)
=============================================================================
