-------------------------------- MODULE MCSx --------------------------------
(* Small instances of Sx for TLC. *)
EXTENDS SxInvariants, TLC

CONSTANTS c1, c2, u1

(* The only UPF has the first CPF in its pfcp-peer-list. *)
MCFirstPeer == u1 :> c1
=============================================================================
