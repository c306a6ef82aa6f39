--------------------------- MODULE MCKeyRotation ---------------------------
(* TLC instance of KeyRotation. *)
EXTENDS KeyRotation
=============================================================================
