------------------------------- MODULE MCEcho -------------------------------
(* Model values for the run of EchoServers.                                *)
EXTENDS EchoServers

CONSTANTS c1, c2

=============================================================================
