--------------------------- MODULE MCEventPipeline ---------------------------
(* TLC instance of EventPipeline. *)
EXTENDS EventPipeline
=============================================================================
