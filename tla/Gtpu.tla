------------------------------- MODULE Gtpu -------------------------------
(***************************************************************************)
(* GTP-U: the packet (protocols/gtp.py) and the relay that eNB, SGW-U and  *)
(* PGW-U own (core/gtpu.py), a function of TEIDs to next hops.  A hop is   *)
(* named by the socket it ends in.                                         *)
(***************************************************************************)
EXTENDS Bytes

G_PDU == 255

(* The length counts the 8 bytes of the header. *)
encode_gpdu(teid, payload) == <<\h30, G_PDU>> \o U(8 + Len(payload), 2) \o U(teid, 4) \o payload

(* Mutant: the length is taken for that of the payload, as it is written. *)
decode_cut(b) == [teid |-> Num(Slice(b, 4, 8)), payload |-> Slice(b, 8, Num(Slice(b, 2, 4)) - 4)]

(* The payload ends 4 bytes beyond the end of the packet, and is cut there. *)
decode(b) == [teid |-> Num(Slice(b, 4, 8)), payload |-> Slice(b, 8, 8 + Num(Slice(b, 2, 4)) - 4)]

---------------------------------------------------------------------------
(* routes: TEID to [to, teid], teid -1 for an egress; uplink: where SGi    *)
(* packets go, if anywhere.  The statistics are left out.                  *)
Egress == 0 - 1
Relay == [routes |-> <<>>, uplink |-> <<>>]

add_route(r, in, to, out) ==
    [r EXCEPT !.routes = (in :> [to |-> to, teid |-> out]) @@ @]
set_sgi_uplink(r, to, teid) == [r EXCEPT !.uplink = <<[to |-> to, teid |-> teid]>>]

Packet(to, data) == [to |-> to, data |-> data]

(* The packets that handle sends: the payload goes on under the TEID of    *)
(* the next hop, or bare at an egress, or not at all without a route.      *)
relayed(r, b) ==
    LET d == decode(b)
    IN  IF d.teid \notin DOMAIN r.routes THEN {}
        ELSE LET hop == r.routes[d.teid]
             IN  {Packet(hop.to, IF hop.teid = Egress THEN d.payload
                                 ELSE encode_gpdu(hop.teid, d.payload))}

(* handle_sgi: all that comes from the PDN goes to one TEID. *)
from_sgi(r, b) == {Packet(u.to, encode_gpdu(u.teid, b)) : u \in ToSet(r.uplink)}
=============================================================================
