----------------------------- MODULE MCDlqLease -----------------------------
(* TLC instance of DlqLease. *)
EXTENDS DlqLease
=============================================================================
