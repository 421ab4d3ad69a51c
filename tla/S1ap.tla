------------------------------- MODULE S1ap -------------------------------
(***************************************************************************)
(* protocols/s1ap.py: a byte of message id and two of length, which nobody *)
(* reads, then elements with a byte of type and two of length.             *)
(***************************************************************************)
EXTENDS Bytes

Id == [INITIAL_UE_MESSAGE |-> 12, DOWNLINK_NAS_TRANSPORT |-> 13, UPLINK_NAS_TRANSPORT |-> 11,
       INITIAL_CONTEXT_SETUP_REQUEST |-> 9, INITIAL_CONTEXT_SETUP_RESPONSE |-> 10,
       UE_CONTEXT_RELEASE_COMMAND |-> 23, UE_CONTEXT_RELEASE_COMPLETE |-> 24]

IE == [ENB_UE_ID |-> 1, MME_UE_ID |-> 2, NAS_PDU |-> 3, TAI |-> 4, ECGI |-> 5,
       E_RAB_SETUP_LIST |-> 8, CAUSE |-> 10, UE_AMBR |-> 11]

Message(id, ies) == [id |-> id, ies |-> ies]
to_bytes(m) ==
    LET body == EncodeIes(1, 2, m.ies)
    IN  U(m.id, 1) \o U(Len(body), 2) \o body
from_bytes(b) == Message(b[1], DecodeIes(1, 2, Slice(b, 3, Len(b))))

ie_enb_id(v) == Ie(IE.ENB_UE_ID, U(v, 4))
ie_mme_id(v) == Ie(IE.MME_UE_ID, U(v, 4))
ie_nas_pdu(b) == Ie(IE.NAS_PDU, b)

(* Bearers of 9 bytes each: EBI, TEID and address. *)
ie_erab_list(rabs) ==
    Ie(IE.E_RAB_SETUP_LIST,
       FlattenSeq([i \in DOMAIN rabs |-> U(rabs[i].ebi, 1) \o U(rabs[i].teid, 4) \o rabs[i].ip]))

decode_erab_list(v) ==
    [i \in 1..(Len(v) \div 9) |->
        LET e == Slice(v, 9 * (i - 1), 9 * i)
        IN  [ebi |-> e[1], teid |-> Num(Slice(e, 1, 5)), ip |-> Slice(e, 5, 9)]]
=============================================================================
