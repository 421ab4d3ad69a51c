----------------------------- MODULE Diameter -----------------------------
(***************************************************************************)
(* protocols/diameter.py: AVPs, padded to four bytes, with an optional     *)
(* vendor, which hold data or AVPs, after a header of 20 bytes.            *)
(***************************************************************************)
EXTENDS Bytes

Cmd == [AUTH_INFO |-> 318, CREDIT_CONTROL |-> 272]

AVP == [SESSION_ID |-> 263, ORIGIN_HOST |-> 264, ORIGIN_REALM |-> 296, DESTINATION_REALM |-> 283,
        RESULT_CODE |-> 268, AUTH_SESSION_STATE |-> 277, SUBSCRIPTION_ID |-> 443,
        SUBSCRIPTION_ID_TYPE |-> 450, SUBSCRIPTION_ID_DATA |-> 444,
        CC_REQUEST_TYPE |-> 416, CC_REQUEST_NUMBER |-> 415,
        AUTHENTICATION_INFO |-> 1413, E_UTRAN_VECTOR |-> 1414,
        NUMBER_OF_REQUESTED_VECTORS |-> 1410, REQUESTED_EUTRAN_AUTH_INFO |-> 1408,
        RAND |-> 1447, XRES |-> 1448, AUTN |-> 1449, KASME |-> 1450,
        QOS_CLASS_IDENTIFIER |-> 1028, MAX_REQ_BANDWIDTH_UL |-> 516, MAX_REQ_BANDWIDTH_DL |-> 515,
        QOS_INFORMATION |-> 1010]

VENDOR_3GPP == 10415
S6A_APP == 16777251
GX_APP == 16777238
SUCCESS == 2001
USER_UNKNOWN == 5001
INITIAL == 1
TERMINATION == 3

(* (-n) % 4 *)
Pad(n) == (4 - (n % 4)) % 4

avp(code, data, vendor) == [code |-> code, data |-> data, vendor |-> vendor]
avp_u32(code, n, vendor) == avp(code, U(n, 4), vendor)

(* Every AVP built here is mandatory. *)
encode(a) ==
    LET payload == (IF a.vendor # 0 THEN U(a.vendor, 4) ELSE <<>>) \o a.data
        n == 8 + Len(payload)
    IN  U(a.code, 4) \o <<(IF a.vendor # 0 THEN 128 ELSE 0) + 64>> \o U(n, 3) \o payload
        \o Zeros(Pad(n))

encode_all(avps) == FlattenSeq([i \in DOMAIN avps |-> encode(avps[i])])
group(code, children, vendor) == avp(code, encode_all(children), vendor)

(* The AVP at an offset of buf, and the offset of the next. *)
decode(buf, off) ==
    LET n == Num(Slice(buf, off + 5, off + 8))
        p == IF buf[off + 5] >= 128 THEN off + 12 ELSE off + 8
    IN  [a |-> avp(Num(Slice(buf, off, off + 4)), Slice(buf, p, off + n),
                   IF buf[off + 5] >= 128 THEN Num(Slice(buf, off + 8, off + 12)) ELSE 0),
         next |-> off + n + Pad(n)]

decode_all(buf, start) ==
    LET From[i \in 0..Len(buf)] ==
            IF i >= Len(buf) THEN <<>>
            ELSE LET d == decode(buf, i) IN <<d.a>> \o From[Min({Len(buf), d.next})]
    IN  From[start]

children(a) == decode_all(a.data, 0)

(* Message.get: an empty list stands for None. *)
get_all(avps, code, vendor) == SelectSeq(avps, LAMBDA a : a.code = code /\ a.vendor = vendor)
(* What the nodes do with the children of a group: the last of a code counts. *)
find(avps, code) == LET f == SelectSeq(avps, LAMBDA a : a.code = code) IN f[Len(f)].data

Message(cmd, app, request, id, avps) ==
    [cmd |-> cmd, app |-> app, request |-> request, id |-> id, avps |-> avps]
to_bytes(m) ==
    LET body == encode_all(m.avps)
    IN  <<1, IF m.request THEN 128 ELSE 0>> \o U(20 + Len(body), 3) \o U(m.cmd, 3)
        \o U(m.app, 4) \o U(m.id, 4) \o U(m.id, 4) \o body
from_bytes(b) ==
    Message(Num(Slice(b, 5, 8)), Num(Slice(b, 8, 12)), b[2] >= 128, Num(Slice(b, 12, 16)),
            decode_all(Slice(b, 0, Num(Slice(b, 2, 5))), 20))

(* A message as the other end reads it. *)
Received(m) == from_bytes(to_bytes(m))
=============================================================================
