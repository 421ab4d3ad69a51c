-------------------------------- MODULE Wire --------------------------------
(***************************************************************************)
(* A UE attaches, sends packets and detaches, all of it in bytes: UE, eNB  *)
(* and MME over NAS and S1AP, the core behind the MME (module Core) over   *)
(* Diameter, GTP-C and PFCP, and the packets over GTP-U to the PDN and     *)
(* back.  What travels is what the encoders make of it, and what a node    *)
(* knows is what the decoders find in it.                                  *)
(*                                                                         *)
(* Nothing is lost here, and every handler runs to its end in one step,    *)
(* with the calls of the MME into the core and all that it sends: modules  *)
(* Attach and SessionSetup split those steps.  NAS and S1AP sockets are    *)
(* queues, and packets are delivered in any order.  0 is Python's None for *)
(* a number.                                                               *)
(***************************************************************************)
EXTENDS Core

N == INSTANCE Nas
S1 == INSTANCE S1ap

CONSTANTS
    Imsis,        \* identities the UE may have, as text
    Policies,     \* policies the PCRF may have for it
    Payloads,     \* what the UE may send to the PDN
    MaxCommands   \* bound on ATTACH, DETACH and MODIFY commands

ASSUME WireAssumption == MaxCommands \in Nat

VARIABLES
    ue, enb, mme, core,      \* the nodes
    subscribers, policies,   \* HSS.subscribers, PCRF.policies
    net,       \* the NAS sockets of eNB and UE, the S1AP sockets of MME and eNB
    data,      \* packets on their way
    commands, sent,
    promised,  \* history: sent over a bearer that nothing has disturbed since
    late       \* history: sent when a detach was over, and no attach since

rest == <<subscribers, policies, data>>
history == <<commands, sent, promised, late>>
vars == <<ue, enb, mme, core, net, rest, history>>

Apn == <<105, 110, 116, 101, 114, 110, 101, 116>>
(* ENB.dl_teid, 0xE0000001, shortened to what TLC's numbers hold. *)
DlTeid == \h60000001

Init ==
    /\ \E imsi \in Imsis :
           /\ ue = [imsi |-> imsi, apn |-> Apn, state |-> "IDLE", ip |-> <<>>, ebi |-> 0, rx |-> <<>>]
           /\ subscribers \in {{}, {imsi}}
           /\ policies \in {<<>>} \cup {(imsi :> p) : p \in IF subscribers = {} THEN {} ELSE Policies}
    /\ enb = [ueId |-> 0, mmeId |-> 0, teid |-> 0, ebi |-> 5, attached |-> FALSE, relay |-> GT!Relay]
    /\ mme = [ctx |-> <<>>, ids |-> 4096, ccn |-> 0]
    /\ core = Idle
    /\ net = [uuUp |-> <<>>, uuDown |-> <<>>, s1Up |-> <<>>, s1Down |-> <<>>]
    /\ data = {} /\ commands = 0 /\ sent = {} /\ promised = {} /\ late = {}

Quiet == \A q \in DOMAIN net : net[q] = <<>>

---------------------------------------------------------------------------
(* The UE's control thread. *)

UeSends(m) == net' = [net EXCEPT !.uuUp = Append(@, N!to_bytes(m))]

Command ==
    /\ commands < MaxCommands /\ commands' = commands + 1
    /\ UNCHANGED <<sent, enb, mme, rest>>

attach ==
    /\ Command
    /\ ue' = [ue EXCEPT !.state = "ATTACH_SENT"]
    /\ UeSends(N!Message(N!Type.ATTACH_REQUEST,
                  <<Ie(N!IE.IMSI, N!bcd_encode(ue.imsi)), Ie(N!IE.APN, ue.apn),
                    Ie(N!IE.PDN_TYPE, <<1>>), Ie(N!IE.ATTACH_TYPE, <<1>>)>>))
    /\ promised' = {} /\ late' = {}
    /\ UNCHANGED core

detach ==
    /\ Command
    /\ ue' = [ue EXCEPT !.state = "DETACH_SENT"]
    /\ UeSends(N!Message(N!Type.DETACH_REQUEST, <<Ie(N!IE.IMSI, N!bcd_encode(ue.imsi))>>))
    /\ promised' = {}
    /\ UNCHANGED <<core, late>>

(* startswith(b"UL") *)
Echoes(p) == Slice(p, 0, 2) = <<85, 76>>

send_ul ==
    /\ \E p \in Payloads \ sent :
           /\ sent' = sent \cup {p}
           /\ data' = data \cup {GT!Packet("eNB-Uu", p)}
           /\ promised' = IF Quiet /\ enb.attached /\ Echoes(p) THEN promised \cup {p} ELSE promised
           /\ late' = IF Quiet /\ ue.state = "DETACHED" THEN late \cup {p} ELSE late
    /\ UNCHANGED <<ue, enb, mme, core, subscribers, policies, net, commands>>

(* MODIFY at the control socket of SGW-C or PGW-C, for a session it has. *)
modify ==
    /\ Command
    /\ \/ \E seid \in DOMAIN core.sgwc.cpf.sessions :
          \E x \in {session_modify(core.sgwc.cpf, core.sgwu, seid)} :
              core' = [core EXCEPT !.sgwc.cpf = x.cpf, !.sgwu = x.upf]
       \/ \E seid \in DOMAIN core.pgwc.cpf.sessions :
          \E x \in {session_modify(core.pgwc.cpf, core.pgwu, seid)} :
              core' = [core EXCEPT !.pgwc.cpf = x.cpf, !.pgwu = x.upf]
    /\ UNCHANGED <<ue, net, promised, late>>

---------------------------------------------------------------------------
(* The UE's NAS handler, on_nas. *)

on_nas ==
    /\ net.uuDown # <<>>
    /\ \E m \in {N!from_bytes(Head(net.uuDown))} :
       LET ebi == Get(m.ies, N!IE.EBI)
           Takes(t) == m.type = t
           Sends(t, ies) == net' = [net EXCEPT !.uuDown = Tail(@),
                                               !.uuUp = Append(@, N!to_bytes(N!Message(t, ies)))]
           Is(state) == /\ ue' = [ue EXCEPT !.state = state]
                        /\ net' = [net EXCEPT !.uuDown = Tail(@)]
       IN  \/ /\ Takes(N!Type.AUTH_REQUEST)
              /\ Sends(N!Type.AUTH_RESPONSE, <<Ie(N!IE.RES, Xres(ue.imsi, Get(m.ies, N!IE.RAND)))>>)
              /\ UNCHANGED ue
           \/ /\ Takes(N!Type.SECURITY_MODE_COMMAND)
              /\ Sends(N!Type.SECURITY_MODE_COMPLETE, <<>>)
              /\ UNCHANGED ue
           \/ /\ Takes(N!Type.ATTACH_ACCEPT)
              /\ Sends(N!Type.ATTACH_COMPLETE, <<>>)
              /\ ue' = [ue EXCEPT !.ip = Slice(Get(m.ies, N!IE.UE_IP), 0, 4),
                                  !.ebi = IF ebi = <<>> THEN 5 ELSE ebi[1], !.state = "ATTACHED"]
           \/ Takes(N!Type.ATTACH_REJECT) /\ Is("REJECTED")
           \/ Takes(N!Type.DETACH_ACCEPT) /\ Is("DETACHED")
    /\ UNCHANGED <<enb, mme, core, rest, history>>

---------------------------------------------------------------------------
(* The eNB. *)

EnbIds(e) == <<S1!ie_enb_id(IF e.ueId = 0 THEN 7 ELSE e.ueId), S1!ie_mme_id(e.mmeId)>>

on_uu_nas ==
    /\ net.uuUp # <<>>
    /\ LET pdu == Head(net.uuUp)
           first == N!from_bytes(pdu).type = N!Type.ATTACH_REQUEST
           m == IF first
                THEN S1!Message(S1!Id.INITIAL_UE_MESSAGE,
                         <<S1!ie_enb_id(7), S1!ie_nas_pdu(pdu),
                           Ie(S1!IE.TAI, Name(5) \o U(1, 2)), Ie(S1!IE.ECGI, Name(5) \o U(1, 4))>>)
                ELSE S1!Message(S1!Id.UPLINK_NAS_TRANSPORT, EnbIds(enb) \o <<S1!ie_nas_pdu(pdu)>>)
       IN  /\ enb' = IF first THEN [enb EXCEPT !.ueId = 7] ELSE enb
           /\ net' = [net EXCEPT !.uuUp = Tail(@), !.s1Up = Append(@, S1!to_bytes(m))]
    /\ UNCHANGED <<ue, mme, core, rest, history>>

(* Initial Context Setup Request: the bearer, with an Attach Accept in it. *)
EnbSetsUp(e, m) ==
    LET rab == S1!decode_erab_list(Get(m.ies, S1!IE.E_RAB_SETUP_LIST))[1]
    IN  /\ m.id = S1!Id.INITIAL_CONTEXT_SETUP_REQUEST
        /\ enb' = [e EXCEPT !.ebi = rab.ebi, !.teid = rab.teid, !.attached = TRUE,
                            !.relay = GT!add_route(@, DlTeid, "UE", GT!Egress)]
        /\ net' = [net EXCEPT
               !.s1Down = Tail(@), !.uuDown = Append(@, Get(m.ies, S1!IE.NAS_PDU)),
               !.s1Up = Append(@, S1!to_bytes(S1!Message(S1!Id.INITIAL_CONTEXT_SETUP_RESPONSE,
                   EnbIds(e) \o <<S1!ie_erab_list(<<[ebi |-> rab.ebi, teid |-> DlTeid, ip |-> ENB_IP]>>)>>)))]

EnbRelays(e, m) ==
    /\ m.id = S1!Id.DOWNLINK_NAS_TRANSPORT
    /\ enb' = e
    /\ net' = [net EXCEPT !.s1Down = Tail(@), !.uuDown = Append(@, Get(m.ies, S1!IE.NAS_PDU))]

(* Mutant: the TEID outlives the context. *)
EnbReleasesKeepsTeid(e, m) ==
    /\ m.id = S1!Id.UE_CONTEXT_RELEASE_COMMAND
    /\ enb' = [e EXCEPT !.attached = FALSE]
    /\ net' = [net EXCEPT !.s1Down = Tail(@),
                   !.s1Up = Append(@, S1!to_bytes(S1!Message(S1!Id.UE_CONTEXT_RELEASE_COMPLETE, EnbIds(e))))]

EnbReleases(e, m) ==
    /\ m.id = S1!Id.UE_CONTEXT_RELEASE_COMMAND
    /\ enb' = [e EXCEPT !.attached = FALSE, !.teid = 0]
    /\ net' = [net EXCEPT !.s1Down = Tail(@),
                   !.s1Up = Append(@, S1!to_bytes(S1!Message(S1!Id.UE_CONTEXT_RELEASE_COMPLETE, EnbIds(e))))]

on_s1ap_enb ==
    /\ net.s1Down # <<>>
    /\ \E m \in {S1!from_bytes(Head(net.s1Down))} :
       LET id == Get(m.ies, S1!IE.MME_UE_ID)
           e == IF id = <<>> THEN enb ELSE [enb EXCEPT !.mmeId = Num(id)]
       IN  EnbRelays(e, m) \/ EnbSetsUp(e, m) \/ EnbReleases(e, m)
    /\ UNCHANGED <<ue, mme, core, rest, history>>

---------------------------------------------------------------------------
(* The MME. *)

MmeMessage(id, enbId, mmeId, ies) ==
    S1!Message(id, <<S1!ie_enb_id(enbId), S1!ie_mme_id(mmeId)>> \o ies)

dl(enbId, mmeId, t, ies) ==
    MmeMessage(S1!Id.DOWNLINK_NAS_TRANSPORT, enbId, mmeId, <<S1!ie_nas_pdu(N!to_bytes(N!Message(t, ies)))>>)

MmeSends(ms) ==
    net' = [net EXCEPT !.s1Up = Tail(@), !.s1Down = @ \o [i \in DOMAIN ms |-> S1!to_bytes(ms[i])]]

VectorOf(avps) ==
    LET of(code) == D!find(avps, code)
    IN  [rand |-> of(D!AVP.RAND), xres |-> of(D!AVP.XRES), autn |-> of(D!AVP.AUTN)]

(* _air: the vector, or nothing if the HSS says no. *)
AirAnswered(aia) ==
    LET rc == Num(D!get_all(aia.avps, D!AVP.RESULT_CODE, 0)[1].data)
        info == D!children(D!get_all(aia.avps, D!AVP.AUTHENTICATION_INFO, D!VENDOR_3GPP)[1])
        vector == SelectSeq(info, LAMBDA a : a.code = D!AVP.E_UTRAN_VECTOR)[1]
    IN  IF rc # D!SUCCESS THEN <<>> ELSE <<VectorOf(D!children(vector))>>

air(imsi, n) ==
    AirAnswered(D!Received(hss_handle(subscribers,
        D!Received(D!Message(D!Cmd.AUTH_INFO, D!S6A_APP, TRUE, n,
            BaseRequest(MME_IP, n, 37, imsi)
            \o <<D!avp_u32(D!AVP.REQUESTED_EUTRAN_AUTH_INFO, 1, D!VENDOR_3GPP)>>)))))

on_initial_ue(m, enbId) ==
    LET mmeId == mme.ids + 1
    IN  /\ m.id = S1!Id.INITIAL_UE_MESSAGE
        /\ \E nm \in {N!from_bytes(Get(m.ies, S1!IE.NAS_PDU))} :
           \E imsi \in {N!bcd_decode(Get(nm.ies, N!IE.IMSI))} :
           \E vec \in {air(imsi, mme.ccn + 1)} :
              LET context == [imsi |-> imsi, apn |-> Get(nm.ies, N!IE.APN), mmeId |-> mmeId,
                              xres |-> IF vec = <<>> THEN <<>> ELSE vec[1].xres]
              IN  /\ mme' = [ctx |-> (enbId :> context) @@ mme.ctx, ids |-> mmeId, ccn |-> mme.ccn + 1]
                  /\ MmeSends(IF vec = <<>> THEN <<dl(enbId, mmeId, N!Type.ATTACH_REJECT, <<>>)>>
                              ELSE <<dl(enbId, mmeId, N!Type.AUTH_REQUEST,
                                        <<Ie(N!IE.RAND, vec[1].rand), Ie(N!IE.AUTN, vec[1].autn)>>)>>)
        /\ UNCHANGED core

(* A request to the SGW-C: the core afterwards, and the answer. *)
s11(t, seq, ies) == sgwc_handle(core, policies, G!Received(G!Message(t, seq, ies)))

s11_create(c) ==
    LET own == G!ie_f_teid(\h400000, MME_IP, G!S1U_SGW)
    IN  s11(G!Type.CREATE_SESSION_REQUEST, 1,
            <<Ie(G!IE.IMSI, c.imsi), Ie(G!IE.APN, c.apn), Ie(G!IE.PDN_TYPE, <<1>>), own,
              Ie(G!IE.RAT_TYPE, <<6>>), Ie(G!IE.SERVING_NETWORK, Name(5)),
              Ie(G!IE.ULI, Name(17)), G!ie_bearer_context(5, <<own>>)>>)

s11_modify(c, enbTeid) ==
    s11(G!Type.MODIFY_BEARER_REQUEST, 2,
        <<Ie(G!IE.IMSI, c.imsi),
          G!ie_bearer_context(5, <<G!ie_f_teid(enbTeid, ENB_IP, G!S1U_ENB)>>)>>)

s11_delete(c) == s11(G!Type.DELETE_SESSION_REQUEST, 3, <<Ie(G!IE.IMSI, c.imsi)>>)

(* Mutant: the rates go out as they are. *)
Thousandths_raw(rate) == rate

(* int(x / 1000) *)
Thousandths(rate) == rate \div 1000

(* Security Mode Complete: the session, and its Initial Context Setup.  A  *)
(* rate that does not fit raises, after the session has been created.      *)
on_security_complete(nm, c, enbId) ==
    /\ nm.type = N!Type.SECURITY_MODE_COMPLETE
    /\ \E r \in {s11_create(c)} :
       LET bearer == G!decode_f_teid(Get(r.rep.ies, G!IE.F_TEID))
           ambr == G!decode_ambr(Get(r.rep.ies, G!IE.AMBR))
           ul == IF ambr.ul = 0 THEN 100 ELSE Thousandths(ambr.ul)
           dlr == IF ambr.dl = 0 THEN 200 ELSE Thousandths(ambr.dl)
           accept == N!Message(N!Type.ATTACH_ACCEPT,
                         <<Ie(N!IE.UE_IP, G!decode_paa(Get(r.rep.ies, G!IE.PAA))),
                           Ie(N!IE.EBI, <<5>>), N!ie_ambr(ul, dlr)>>)
       IN  /\ core' = r.core
           /\ MmeSends(IF ~N!AmbrFits(ul, dlr) THEN <<>>
                       ELSE <<MmeMessage(S1!Id.INITIAL_CONTEXT_SETUP_REQUEST, enbId, c.mmeId,
                                <<S1!ie_erab_list(<<[ebi |-> 5, teid |-> bearer.teid, ip |-> bearer.ip]>>),
                                  Ie(S1!IE.UE_AMBR, U(Thousandths(ambr.ul), 2) \o U(Thousandths(ambr.dl), 2)),
                                  S1!ie_nas_pdu(N!to_bytes(accept))>>)>>)

on_auth_response(nm, c, enbId) ==
    /\ nm.type = N!Type.AUTH_RESPONSE
    /\ MmeSends(<<dl(enbId, c.mmeId, IF Get(nm.ies, N!IE.RES) = c.xres THEN N!Type.SECURITY_MODE_COMMAND
                                     ELSE N!Type.ATTACH_REJECT, <<>>)>>)
    /\ UNCHANGED core

on_detach_request(nm, c, enbId) ==
    /\ nm.type = N!Type.DETACH_REQUEST
    /\ core' = s11_delete(c).core
    /\ MmeSends(<<dl(enbId, c.mmeId, N!Type.DETACH_ACCEPT, <<>>),
                  MmeMessage(S1!Id.UE_CONTEXT_RELEASE_COMMAND, enbId, c.mmeId, <<Ie(S1!IE.CAUSE, <<18>>)>>)>>)

on_ul_nas(m, enbId) ==
    /\ m.id = S1!Id.UPLINK_NAS_TRANSPORT /\ enbId \in DOMAIN mme.ctx
    /\ \E nm \in {N!from_bytes(Get(m.ies, S1!IE.NAS_PDU))} :
       LET c == mme.ctx[enbId]
       IN  \/ on_auth_response(nm, c, enbId) \/ on_security_complete(nm, c, enbId)
           \/ on_detach_request(nm, c, enbId)
           \/ nm.type = N!Type.ATTACH_COMPLETE /\ MmeSends(<<>>) /\ UNCHANGED core
    /\ UNCHANGED mme

on_ctx_setup_resp(m, enbId) ==
    /\ m.id = S1!Id.INITIAL_CONTEXT_SETUP_RESPONSE /\ enbId \in DOMAIN mme.ctx
    /\ core' = s11_modify(mme.ctx[enbId],
                          S1!decode_erab_list(Get(m.ies, S1!IE.E_RAB_SETUP_LIST))[1].teid).core
    /\ MmeSends(<<>>)
    /\ UNCHANGED mme

(* Without a context, or a Release Complete. *)
mme_ignores(m, enbId) ==
    /\ m.id # S1!Id.INITIAL_UE_MESSAGE
    /\ m.id = S1!Id.UE_CONTEXT_RELEASE_COMPLETE \/ enbId \notin DOMAIN mme.ctx
    /\ MmeSends(<<>>)
    /\ UNCHANGED <<mme, core>>

on_s1ap ==
    /\ net.s1Up # <<>>
    /\ \E m \in {S1!from_bytes(Head(net.s1Up))} : \E enbId \in {Num(Get(m.ies, S1!IE.ENB_UE_ID))} :
           on_initial_ue(m, enbId) \/ on_ul_nas(m, enbId) \/ on_ctx_setup_resp(m, enbId)
           \/ mme_ignores(m, enbId)
    /\ UNCHANGED <<ue, enb, rest, history>>

---------------------------------------------------------------------------
(* The user plane: a packet arrives. *)

Arrives(to, b) ==
    CASE to = "eNB-Uu" ->
             IF enb.teid = 0 THEN {} ELSE {GT!Packet("SGW-U", GT!encode_gpdu(enb.teid, b))}
      [] to = "SGW-U" -> GT!relayed(core.sgwu.relay, b)
      [] to = "PGW-U" -> GT!relayed(core.pgwu.relay, b)
      [] to = "PDN" -> IF Echoes(b) THEN {GT!Packet("SGi", <<68, 76, 45, 65, 67, 75, 58>> \o b)} ELSE {}
      [] to = "SGi" -> GT!from_sgi(core.pgwu.relay, b)
      [] to = "eNB" -> GT!relayed(enb.relay, b)
      [] to = "UE" -> {}

deliver ==
    /\ \E p \in data :
           /\ data' = (data \ {p}) \cup Arrives(p.to, p.data)
           /\ ue' = IF p.to = "UE" THEN [ue EXCEPT !.rx = Append(@, p.data)] ELSE ue
    /\ UNCHANGED <<enb, mme, core, net, subscribers, policies, history>>

Next ==
    attach \/ detach \/ send_ul \/ modify \/ on_nas \/ on_uu_nas \/ on_s1ap_enb \/ on_s1ap \/ deliver

Spec == Init /\ [][Next]_vars

---------------------------------------------------------------------------
(* Properties. *)

Policy == IF policies = <<>> THEN DEFAULT_POLICY ELSE policies[ue.imsi]
Known == ue.imsi \in subscribers

(* Nodes hold what the code gives them, and sockets hold bytes. *)
TypeOK ==
    /\ ue.imsi \in Imsis /\ Len(ue.ip) \in {0, 4} /\ ue.ebi \in {0, 5}
    /\ ue.state \in {"IDLE", "ATTACH_SENT", "ATTACHED", "REJECTED", "DETACH_SENT", "DETACHED"}
    /\ \A q \in DOMAIN net : \A i \in DOMAIN net[q] : \A j \in DOMAIN net[q][i] : net[q][i][j] \in 0..255
    /\ \A p \in data : \A j \in DOMAIN p.data : p.data[j] \in 0..255
    /\ enb.ueId \in {0, 7} /\ enb.ebi = 5 /\ enb.attached \in BOOLEAN
    /\ enb.attached = (enb.teid # 0)
    /\ DOMAIN mme.ctx \subseteq {7}
    /\ (enb.mmeId # 0 => enb.mmeId \in 4097..mme.ids)
    /\ promised \subseteq sent /\ late \subseteq sent /\ sent \subseteq Payloads

(* Who the UE is gets through: MME, SGW-C and PGW-C know it by its IMSI    *)
(* and APN, of an even or an odd number of digits, and the HSS is asked    *)
(* about it and no other, so that it attaches just when it may.            *)
IdentityKept ==
    /\ \A k \in DOMAIN mme.ctx : mme.ctx[k].imsi = ue.imsi /\ mme.ctx[k].apn = ue.apn
    /\ DOMAIN core.sgwc.ctx \cup DOMAIN core.pgwc.ctx \subseteq {ue.imsi}
    /\ ue.state = "ATTACHED" => Known
    /\ ue.state = "REJECTED" => ~Known

(* When all is quiet, the bearer is whole: TEIDs and addresses that went   *)
(* through four protocols are at every node those that were given out, the *)
(* rates are at SGW-C and PGW-C those of the policy, and the UE is         *)
(* attached just when the eNB has the bearer.  UE and eNB are told the     *)
(* rates divided by 1000 and keep none.                                    *)
BearerKept ==
    Quiet =>
        /\ ue.state = "ATTACHED" <=> enb.attached
        /\ enb.attached =>
               /\ ue.imsi \in DOMAIN core.sgwc.ctx \cap DOMAIN core.pgwc.ctx
               /\ LET s == core.sgwc.ctx[ue.imsi]
                      p == core.pgwc.ctx[ue.imsi]
                  IN  /\ enb.teid = s.s1u /\ s.enbDl = DlTeid
                      /\ ue.ip = p.ueIp /\ s.ueIp = p.ueIp
                      /\ s.pgwTeid = p.teid /\ p.sgwTeid = s.s5u
                      /\ s.ambr = [ul |-> Policy.ul, dl |-> Policy.dl] /\ p.qos = Policy
                      /\ core.sgwu.sessions[s.seid].pdrs[1].fteid = <<enb.teid, SGWU_IP>>
                      /\ core.pgwu.sessions[p.seid].pdrs[1].fteid = <<p.teid, PGWU_IP>>

(* A UPF treats packets as its CPF means it to: for each session the CPF   *)
(* has, the same PDR applies to a packet of either direction at both, and  *)
(* with the same actions, after the establishment and after the command    *)
(* MODIFY, whose PDR 9 comes before PDR 1 by its precedence alone.  The    *)
(* destination of a FAR is not compared: a UPF does not read it.           *)
RulesKept ==
    \A node \in {<<core.sgwc.cpf, core.sgwu>>, <<core.pgwc.cpf, core.pgwu>>} :
        \A seid \in DOMAIN node[1].sessions :
            /\ seid \in DOMAIN node[2].sessions
            /\ LET c == node[1].sessions[seid]
                   u == node[2].sessions[seid]
               IN  \A d \in {"Access", "Core"} :
                       /\ decision(c, d) = {"FORWARD"} /\ decision(u, d) = {"FORWARD"}
                       /\ c.pdrs[classify(c, d)].id = u.pdrs[classify(u, d)].id

(* What the UE receives is what the PDN makes of what it has sent, whole,  *)
(* three encapsulations and three decapsulations later.                    *)
Echoed == \A i \in DOMAIN ue.rx : \E p \in sent : ue.rx[i] = <<68, 76, 45, 65, 67, 75, 58>> \o p

(* Once a detach is over, nothing the UE sends before it attaches again    *)
(* reaches the PDN, though the UPFs never forget a route: only the eNB     *)
(* stands between.                                                         *)
LateNotServed == \A p \in data : p.to = "PDN" => p.data \notin late

(* A packet sent over a bearer is answered, unless a command interferes:   *)
(* when none is on its way, those promised are back.                       *)
UplinkAnswered ==
    data = {} => \A p \in promised : \E i \in DOMAIN ue.rx : Len(ue.rx[i]) = 7 + Len(p)

(* A UE that wants to attach has been told when all is quiet, if its rates *)
(* fit in what tells them once they are divided by 1000 (mme.py:206): the  *)
(* two bytes of nas.py:57.                                                 *)
AttachTold ==
    Quiet /\ Policy.ul < 65536000 /\ Policy.dl < 65536000 => ue.state # "ATTACH_SENT"
=============================================================================
