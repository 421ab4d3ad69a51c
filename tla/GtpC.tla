------------------------------- MODULE GtpC -------------------------------
(***************************************************************************)
(* protocols/gtp_c.py: the GTPv2-C header, then elements with a byte of    *)
(* type and two of length, one of which holds elements itself.             *)
(***************************************************************************)
EXTENDS Bytes

Type == [CREATE_SESSION_REQUEST |-> 32, CREATE_SESSION_RESPONSE |-> 33,
         MODIFY_BEARER_REQUEST |-> 34, MODIFY_BEARER_RESPONSE |-> 35,
         DELETE_SESSION_REQUEST |-> 36, DELETE_SESSION_RESPONSE |-> 37]

IE == [IMSI |-> 1, CAUSE |-> 2, APN |-> 71, AMBR |-> 72, EBI |-> 73, PAA |-> 79, RAT_TYPE |-> 82,
       SERVING_NETWORK |-> 83, ULI |-> 86, F_TEID |-> 87, BEARER_CONTEXT |-> 93,
       CHARGING_ID |-> 94, PDN_TYPE |-> 99]

S1U_ENB == 0
S1U_SGW == 1
S5_S8_SGW == 4
S5_S8_PGW == 5

(* Every message of the EPC nodes has the T flag, and 0 for its TEID. *)
Message(t, seq, ies) == [type |-> t, seq |-> seq, ies |-> ies]
to_bytes(m) ==
    LET payload == U(0, 4) \o U(m.seq, 3) \o <<0>> \o EncodeIes(1, 2, m.ies)
    IN  <<\h48, m.type>> \o U(Len(payload), 2) \o payload

from_bytes(b) ==
    LET i == IF (b[1] \div 8) % 2 = 1 THEN 8 ELSE 4
    IN  Message(b[2], Num(Slice(b, i, i + 4)) \div 256,
                DecodeIes(1, 2, Slice(b, i + 4, 4 + Num(Slice(b, 2, 4)))))

(* A message as the other end reads it. *)
Received(m) == from_bytes(to_bytes(m))

ie_cause(v) == Ie(IE.CAUSE, U(v, 1))
ie_ambr(ul, dl) == Ie(IE.AMBR, <<0>> \o U(ul, 4) \o U(dl, 4))

(* Mutant: the rates change places. *)
decode_ambr_swapped(v) == [ul |-> Num(Slice(v, 5, 9)), dl |-> Num(Slice(v, 1, 5))]

decode_ambr(v) == [ul |-> Num(Slice(v, 1, 5)), dl |-> Num(Slice(v, 5, 9))]
ie_paa(ip) == Ie(IE.PAA, <<1>> \o ip)
decode_paa(v) == Slice(v, 1, 5)
ie_f_teid(teid, ip, iface) == Ie(IE.F_TEID, <<\h80 + iface>> \o U(teid, 4) \o ip)
decode_f_teid(v) == [teid |-> Num(Slice(v, 1, 5)), ip |-> Slice(v, 5, 9)]

(* The EBI, then the cause, the F-TEID and the charging id, where given. *)
ie_bearer_context(ebi, more) ==
    Ie(IE.BEARER_CONTEXT, EncodeIes(1, 2, <<Ie(IE.EBI, U(ebi, 1))>> \o more))
decode_bearer_context(v) == DecodeIes(1, 2, v)
=============================================================================
