--------------------------- MODULE MCRelaySession ---------------------------
(* RelaySession with a few peers that exchange a few payloads.             *)
EXTENDS RelaySession

=============================================================================
