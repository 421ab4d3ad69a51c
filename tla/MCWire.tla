------------------------------- MODULE MCWire -------------------------------
(* Small instances of Wire for TLC. *)
EXTENDS Wire

(* 001010000000001, and an identity of 14 digits. *)
MCImsis == {<<48, 48, 49, 48, 49, 48, 48, 48, 48, 48, 48, 48, 48, 48, 49>>,
            <<48, 48, 49, 48, 49, 50, 51, 52, 53, 54, 55, 56, 57, 50>>}

(* Rates that two bytes hold, do not, and do not even divided by 1000. *)
MCPolicies == {[qci |-> 8, ul |-> 500, dl |-> 70000], [qci |-> 9, ul |-> 65536000, dl |-> 200000]}

(* UL-DATA-1234, which the PDN echoes. *)
MCPayloads == {<<85, 76, 45, 68, 65, 84, 65, 45, 49, 50, 51, 52>>}
=============================================================================
