------------------------------- MODULE Pfcp -------------------------------
(***************************************************************************)
(* protocols/pfcp.py: the header, with or without a SEID, then elements    *)
(* with two bytes of type and two of length, some of which hold elements.  *)
(***************************************************************************)
EXTENDS Bytes

Type == [SESSION_ESTABLISHMENT_REQUEST |-> 50, SESSION_ESTABLISHMENT_RESPONSE |-> 51,
         SESSION_MODIFICATION_REQUEST |-> 52, SESSION_MODIFICATION_RESPONSE |-> 53,
         SESSION_DELETION_REQUEST |-> 54, SESSION_DELETION_RESPONSE |-> 55,
         SESSION_REPORT_REQUEST |-> 56]

IE == [CreatePDR |-> 1, PDI |-> 2, CreateFAR |-> 3, ForwardingParameters |-> 4, CreateURR |-> 6,
       CreateQER |-> 7, CreatedPDR |-> 8, RemovePDR |-> 13, RemoveFAR |-> 14, Cause |-> 19, SourceInterface |-> 20,
       FTEID |-> 21, Precedence |-> 29, ReportType |-> 39, DestinationInterface |-> 42,
       ApplyAction |-> 44, PDRID |-> 56, FSEID |-> 57, URRID |-> 58,
       NodeID |-> 60, MeasurementPeriod |-> 64, UEIPAddress |-> 93, FARID |-> 108, QERID |-> 109]

GROUPED_IES == 1..12 \cup {261}

CAUSE_REQUEST_ACCEPTED == 1
CAUSE_SESSION_CONTEXT_NF == 3

ies_bytes(ies) == EncodeIes(2, 2, ies)
decode_ies(b) == DecodeIes(2, 2, b)
encode_grouped(t, ies) == Ie(t, ies_bytes(ies))

(* decode_ies_recursive: the elements of an element. *)
kids(ie) == IF ie.t \in GROUPED_IES THEN decode_ies(ie.v) ELSE <<>>

ie_cause(c) == Ie(IE.Cause, U(c, 1))
ie_node_id(ip) == Ie(IE.NodeID, <<0>> \o ip)
ie_fseid(seid, ip) == Ie(IE.FSEID, <<2>> \o U(seid, 8) \o ip)
decode_fseid(v) == [seid |-> Num(Slice(v, 1, 9)), ip |-> Slice(v, 9, 13)]
ie_ft_eid(f) == Ie(IE.FTEID, <<2>> \o U(f[1], 4) \o f[2])
decode_ft_eid(v) == <<Num(Slice(v, 1, 5)), Slice(v, 5, 9)>>

(* An action is a bit of the Apply Action. *)
Actions == [DROP |-> 1, FORWARD |-> 2, BUFFER |-> 4, NOTIFY |-> 8, DUPLICATE |-> 16]
ie_apply_action(A) == Ie(IE.ApplyAction, <<SumSet({Actions[a] : a \in A})>>)
decode_apply_action(v) == {a \in DOMAIN Actions : (v[1] \div Actions[a]) % 2 = 1}

(* Every message of a session has a SEID. *)
Message(t, seid, seq, ies) == [type |-> t, seid |-> seid, seq |-> seq, ies |-> ies]
to_bytes(m) ==
    LET body == U(m.seid, 8) \o U(m.seq, 3) \o <<0>> \o ies_bytes(m.ies)
    IN  <<\h21, m.type>> \o U(Len(body), 2) \o body
from_bytes(b) ==
    LET i == IF b[1] % 2 = 1 THEN 12 ELSE 4
    IN  Message(b[2], IF i = 12 THEN Num(Slice(b, 4, 12)) ELSE 0, Num(Slice(b, i, i + 4)) \div 256,
                decode_ies(Slice(b, i + 4, 4 + Num(Slice(b, 2, 4)))))

(* A message as the other end reads it. *)
Received(m) == from_bytes(to_bytes(m))
=============================================================================
