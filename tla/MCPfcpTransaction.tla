-------------------------- MODULE MCPfcpTransaction --------------------------
(* A small instance of PfcpTransaction for TLC. *)
EXTENDS PfcpTransaction
=============================================================================
