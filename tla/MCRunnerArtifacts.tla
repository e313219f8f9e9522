------------------------- MODULE MCRunnerArtifacts -------------------------
(* RunnerArtifacts with one process and one file tool. *)
EXTENDS RunnerArtifacts
=============================================================================
