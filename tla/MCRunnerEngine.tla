--------------------------- MODULE MCRunnerEngine ---------------------------
(* RunnerEngine with a patch, a command and a read, under two lease epochs. *)
EXTENDS RunnerEngine, TLC

CONSTANTS p, c, r  \* a patch, a command and a read

MCKind == [op \in Ops |-> CASE op = p -> "patch"
                            [] op = c -> "command"
                            [] op = r -> "read"]

Symmetry == Permutations(Clients)
=============================================================================
