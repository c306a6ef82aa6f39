------------------------ MODULE MCConnectorRegistry ------------------------
(* TLC instance of ConnectorRegistry. *)
EXTENDS ConnectorRegistry
=============================================================================
