-------------------------------- MODULE Nas --------------------------------
(***************************************************************************)
(* protocols/nas.py: a byte of message type, then elements with a byte of  *)
(* type and a byte of length.                                              *)
(***************************************************************************)
EXTENDS Bytes

Type == [ATTACH_REQUEST |-> \h41, ATTACH_ACCEPT |-> \h42, ATTACH_COMPLETE |-> \h43,
         ATTACH_REJECT |-> \h44, DETACH_REQUEST |-> \h45, DETACH_ACCEPT |-> \h46,
         AUTH_REQUEST |-> \h52, AUTH_RESPONSE |-> \h53,
         SECURITY_MODE_COMMAND |-> \h5d, SECURITY_MODE_COMPLETE |-> \h5e]

IE == [IMSI |-> 1, APN |-> 3, PDN_TYPE |-> 4, EBI |-> 5, RAND |-> 7, AUTN |-> 8, RES |-> 10,
       ATTACH_TYPE |-> 11, UE_IP |-> 13, AMBR |-> 16]

(* A digit, or the F that fills up an odd number of them, is a nibble. *)
Nibble(c) == IF c >= 65 THEN c - 55 ELSE c - 48
Char(n) == IF n >= 10 THEN n + 55 ELSE n + 48

bcd_encode(s) ==
    LET p == IF Len(s) % 2 = 1 THEN Append(s, 70) ELSE s
    IN  [i \in 1..(Len(p) \div 2) |-> 16 * Nibble(p[2 * i]) + Nibble(p[2 * i - 1])]

(* Mutant: the filler stays. *)
bcd_decode_filled(b) ==
    [i \in 1..(2 * Len(b)) |-> Char(IF i % 2 = 1 THEN b[(i + 1) \div 2] % 16 ELSE b[i \div 2] \div 16)]

bcd_decode(b) ==
    LET s == [i \in 1..(2 * Len(b)) |->
                  Char(IF i % 2 = 1 THEN b[(i + 1) \div 2] % 16 ELSE b[i \div 2] \div 16)]
    IN  SubSeq(s, 1, Max({0} \cup {i \in DOMAIN s : s[i] # 70}))

Message(t, ies) == [type |-> t, ies |-> ies]
to_bytes(m) == <<m.type>> \o EncodeIes(1, 1, m.ies)
from_bytes(b) == Message(b[1], DecodeIes(1, 1, Tail(b)))

(* Two bytes for each rate: struct.pack raises when one does not fit. *)
AmbrFits(ul, dl) == ul < 65536 /\ dl < 65536
ie_ambr(ul, dl) == Ie(IE.AMBR, U(ul, 2) \o U(dl, 2))
=============================================================================
