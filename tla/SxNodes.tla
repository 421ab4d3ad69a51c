------------------------------ MODULE SxNodes ------------------------------
(***************************************************************************)
(* The session procedures of CPF (core/cpf.py) and UPF (core/upf.py) in    *)
(* bytes.  A procedure here runs to its end: requests that are lost, late  *)
(* or crossing are module Sx's.                                            *)
(***************************************************************************)
EXTENDS Rules

GT == INSTANCE Gtpu

(* base: the SEID base; n, seq: sessions and sequence numbers so far. *)
Cpf(ip, base) == [ip |-> ip, base |-> base, n |-> 0, seq |-> 0, sessions |-> <<>>]

(* teid: the next of the pool. *)
Upf(ip) == [ip |-> ip, teid |-> 65536, sessions |-> <<>>, relay |-> GT!Relay]

(* SessionStore: sessions by their SEID. *)
Stored(store, s) == (s.seid :> s) @@ store
Without(store, seid) == [k \in DOMAIN store \ {seid} |-> store[k]]

---------------------------------------------------------------------------
(* The UPF's handlers: the UPF afterwards, and its reply. *)

of_type(m, t) == LET ies == GetAll(m.ies, t) IN [i \in DOMAIN ies |-> ies[i].v]

Answered(upf, req, t, ies) == [upf |-> upf, rep |-> Message(t, req.seid, req.seq, ies)]

(* Each Access PDR gets the next F-TEID, and a Created PDR tells of it. *)
WithFteid(upf, pdrs) ==
    [i \in DOMAIN pdrs |->
        IF pdrs[i].source = "Access"
        THEN LET k == Cardinality({j \in 1..(i - 1) : pdrs[j].source = "Access"})
             IN  [pdrs[i] EXCEPT !.fteid = <<upf.teid + k, upf.ip>>]
        ELSE pdrs[i]]

CreatedPdr(p) ==
    encode_grouped(IE.CreatedPDR,
                   <<Ie(IE.PDRID, U(p.id, 2)), encode_grouped(IE.PDI, <<ie_ft_eid(p.fteid)>>)>>)

AskedSeid(m) == decode_fseid(Get(m.ies, IE.FSEID)).seid

(* The session with its rules; pdrs have their F-TEIDs. *)
EstablishedWith(upf, m, seid, pdrs) ==
    LET access == SelectSeq(pdrs, LAMBDA p : p.source = "Access")
        decoded(vs, Of(_)) == [i \in DOMAIN vs |-> Of(vs[i])]
        s == add_rules(Session(seid, upf.ip), pdrs,
                       decoded(of_type(m, IE.CreateFAR), far_from_pfcp),
                       decoded(of_type(m, IE.CreateQER), qer_from_pfcp),
                       decoded(of_type(m, IE.CreateURR), urr_from_pfcp))
    IN  Answered([upf EXCEPT !.sessions = Stored(@, s), !.teid = @ + Len(access)],
                 m, Type.SESSION_ESTABLISHMENT_RESPONSE,
                 <<ie_node_id(upf.ip), ie_cause(CAUSE_REQUEST_ACCEPTED), ie_fseid(seid, upf.ip)>>
                 \o [i \in DOMAIN access |-> CreatedPdr(access[i])])

on_session_establish(upf, m) ==
    LET values == of_type(m, IE.CreatePDR)
        pdrs == [i \in DOMAIN values |-> pdr_from_pfcp(values[i])]
    IN  EstablishedWith(upf, m, AskedSeid(m), WithFteid(upf, pdrs))

(* The elements of a modification, in their order. *)
Modified(s, ie) ==
    CASE ie.t = IE.CreatePDR -> add_rules(s, <<pdr_from_pfcp(ie.v)>>, <<>>, <<>>, <<>>)
      [] ie.t = IE.CreateFAR -> add_rules(s, <<>>, <<far_from_pfcp(ie.v)>>, <<>>, <<>>)
      [] ie.t = IE.RemovePDR -> remove_pdrs(s, {Num(ie.v)})
      [] ie.t = IE.RemoveFAR -> remove_fars(s, {Num(ie.v)})
      [] OTHER -> s

(* The session is the header's SEID, else the F-SEID's. *)
ModifiedOne(upf, m, seids) ==
    LET seid == IF m.seid \in seids THEN m.seid ELSE CHOOSE k \in seids : TRUE
        reply(cause) == <<ie_cause(cause)>>
    IN  IF seids = {}
        THEN Answered(upf, m, Type.SESSION_MODIFICATION_RESPONSE, reply(CAUSE_SESSION_CONTEXT_NF))
        ELSE Answered([upf EXCEPT !.sessions = Stored(@, FoldLeft(Modified, @[seid], m.ies))],
                      m, Type.SESSION_MODIFICATION_RESPONSE,
                      reply(CAUSE_REQUEST_ACCEPTED) \o <<ie_node_id(upf.ip)>>)

on_session_modify(upf, m) == ModifiedOne(upf, m, {m.seid, AskedSeid(m)} \cap DOMAIN upf.sessions)

on_session_delete(upf, m) ==
    Answered([upf EXCEPT !.sessions = Without(@, m.seid)], m, Type.SESSION_DELETION_RESPONSE,
             <<ie_cause(CAUSE_REQUEST_ACCEPTED), ie_node_id(upf.ip)>>)

upf_handle(upf, m) ==
    CASE m.type = Type.SESSION_ESTABLISHMENT_REQUEST -> on_session_establish(upf, m)
      [] m.type = Type.SESSION_MODIFICATION_REQUEST -> on_session_modify(upf, m)
      [] m.type = Type.SESSION_DELETION_REQUEST -> on_session_delete(upf, m)

---------------------------------------------------------------------------
(* The CPF's procedures: CPF and UPF afterwards. *)

(* _request: the UPF afterwards, and the reply as the CPF reads it. *)
Exchange(cpf, upf, t, seid, ies) ==
    [upf_handle(upf, Received(Message(t, seid, cpf.seq + 1, ies))) EXCEPT !.rep = Received(@)]

(* The reply counts when it has the number of the request, and says yes. *)
Accepted(seq, m) == m.seq = seq /\ Get(m.ies, IE.Cause) = <<CAUSE_REQUEST_ACCEPTED>>

(* The F-TEID that the Created PDRs tell for PDR 1. *)
LearnedFteid(m) ==
    LET first == SelectSeq(of_type(m, IE.CreatedPDR),
                           LAMBDA v : Num(Get(decode_ies(v), IE.PDRID)) = 1)
        pdi == kids(Ie(IE.PDI, Get(decode_ies(first[1]), IE.PDI)))
    IN  IF first = <<>> THEN <<>> ELSE decode_ft_eid(Get(pdi, IE.FTEID))

(* UL: Access to Core; DL: Core to Access. *)
FirstRules(seid, upIp) ==
    add_rules(Session(seid, upIp),
              <<PDR(1, 100, "Access", <<1>>, <<1>>, 1), PDR(2, 100, "Core", <<1>>, <<1>>, 2)>>,
              <<FAR(1, {"FORWARD"}, "Core"), FAR(2, {"FORWARD"}, "Access")>>, <<1>>, <<1>>)

(* With the answer x to the establishment of s. *)
SessionMade(asked, s, x) ==
    LET ok == Accepted(asked.seq, x.rep)
        learned == [s EXCEPT !.up = decode_fseid(Get(x.rep.ies, IE.FSEID)),
                             !.pdrs[1].fteid = LearnedFteid(x.rep)]
    IN  [cpf |-> IF ok THEN [asked EXCEPT !.sessions = Stored(@, learned)] ELSE asked,
         upf |-> x.upf, seid |-> IF ok THEN s.seid ELSE 0]

EstablishmentIes(cpf, s, ueIp) ==
    <<ie_node_id(cpf.ip), ie_fseid(s.seid, cpf.ip), Ie(IE.UEIPAddress, Zeros(4) \o ueIp),
      pdr_to_pfcp(s.pdrs[1]), far_to_pfcp(s.fars[1]), pdr_to_pfcp(s.pdrs[2]), far_to_pfcp(s.fars[2]),
      qer_to_pfcp(1), urr_to_pfcp(1)>>

session_establish(cpf, upf, ueIp) ==
    LET s == FirstRules(cpf.base * 1048576 + ((cpf.n + 1) % 1048576), upf.ip)
    IN  SessionMade([cpf EXCEPT !.n = @ + 1, !.seq = @ + 1], s,
                    Exchange(cpf, upf, Type.SESSION_ESTABLISHMENT_REQUEST, 0,
                             EstablishmentIes(cpf, s, ueIp)))

(* The command MODIFY: PDR 9 before PDR 1. *)
session_modify(cpf, upf, seid) ==
    LET p == PDR(9, 50, "Access", <<1>>, <<>>, 1)
        x == Exchange(cpf, upf, Type.SESSION_MODIFICATION_REQUEST, cpf.sessions[seid].up.seid,
                      <<ie_fseid(seid, cpf.ip), pdr_to_pfcp(p)>>)
    IN  [cpf |-> [cpf EXCEPT !.seq = @ + 1, !.sessions[seid].pdrs = Put(@, p)], upf |-> x.upf]

session_delete(cpf, upf, seid) ==
    LET x == Exchange(cpf, upf, Type.SESSION_DELETION_REQUEST, cpf.sessions[seid].up.seid,
                      <<ie_fseid(seid, cpf.ip)>>)
    IN  IF seid \notin DOMAIN cpf.sessions THEN [cpf |-> cpf, upf |-> upf]
        ELSE [cpf |-> [cpf EXCEPT !.seq = @ + 1, !.sessions = Without(@, seid)], upf |-> x.upf]
=============================================================================
