---------------------------- MODULE MCRunControl ----------------------------
(* RunControl with one shape of tool batch, a call that needs no approval and *)
(* then one that does, the regression check and the final diff.               *)
EXTENDS RunControl, TLC

MCBatches == {<<FALSE, TRUE>>}

MCSystemOps == {-3, -4}

Symmetry == Permutations(Workers)
=============================================================================
