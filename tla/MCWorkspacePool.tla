-------------------------- MODULE MCWorkspacePool --------------------------
(* Two runs that compete for one volume, and two operators. *)
EXTENDS WorkspacePool
=============================================================================
