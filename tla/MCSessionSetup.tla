--------------------------- MODULE MCSessionSetup ---------------------------
(* Small instances of SessionSetup for TLC. *)
EXTENDS SessionSetup

CONSTANTS i1, i2
=============================================================================
