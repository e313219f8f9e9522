--------------------------- MODULE MCEventStream ---------------------------
(* One client whose old handler may linger while a new one serves it. *)
EXTENDS EventStream
=============================================================================
