-------------------------------- MODULE Core --------------------------------
(***************************************************************************)
(* The handlers of HSS, PCRF, PGW-C and SGW-C in bytes.  A handler runs to *)
(* its end, with the requests it makes: losses and late answers are module *)
(* SessionSetup's.  The state of SGW-C, PGW-C and their UPFs is a record.  *)
(***************************************************************************)
EXTENDS SxNodes

D == INSTANCE Diameter
G == INSTANCE GtpC

SGWU_IP == <<127, 0, 0, 2>>
PGWU_IP == <<127, 0, 0, 3>>
SGWC_IP == <<127, 0, 0, 4>>
PGWC_IP == <<127, 0, 0, 5>>
ENB_IP == <<127, 0, 0, 11>>
MME_IP == <<127, 0, 0, 12>>
UE_POOL_START == <<10, 10, 0, 2>>

(* The GTP-U socket at an address. *)
Host(ip) == CASE ip = SGWU_IP -> "SGW-U" [] ip = PGWU_IP -> "PGW-U" [] OTHER -> "eNB"

(* The SEID bases are shortened to what TLC's numbers hold. *)
Idle == [sgwc |-> [cpf |-> Cpf(SGWC_IP, 16), ctx |-> <<>>, s5u |-> 3145728],
         pgwc |-> [cpf |-> Cpf(PGWC_IP, 32), ctx |-> <<>>, ueN |-> 0, ccn |-> 0],
         sgwu |-> Upf(SGWU_IP), pgwu |-> Upf(PGWU_IP)]

---------------------------------------------------------------------------
(* HSS and PCRF. *)

(* A digest of n bytes that tells what goes into it apart. *)
Digest(n, seed) == [i \in 1..n |-> FoldLeft(LAMBDA h, c : (31 * h + c + i) % 256, n, seed)]
Rand(imsi, n) == Digest(16, imsi \o <<n>>)
Xres(imsi, rand) == Digest(8, imsi \o rand)
Autn(imsi, rand) == Digest(16, <<1>> \o imsi \o rand)
Kasme(imsi, rand) == Digest(32, imsi \o rand)

(* Names of hosts and realms count by their lengths; addresses in texts are short. *)
Name(n) == [i \in 1..n |-> 120]
SessionId(ip, n) == ip \o <<59, 48 + n>>

subs_id(m) ==
    LET subs == D!get_all(m.avps, D!AVP.SUBSCRIPTION_ID, 0)
    IN  D!find(D!children(subs[1]), D!AVP.SUBSCRIPTION_ID_DATA)

Subscription(imsi) ==
    D!group(D!AVP.SUBSCRIPTION_ID, <<D!avp_u32(D!AVP.SUBSCRIPTION_ID_TYPE, 1, 0),
                                     D!avp(D!AVP.SUBSCRIPTION_ID_DATA, imsi, 0)>>, 0)

(* What a request to the HSS or the PCRF begins with. *)
BaseRequest(ip, n, host, imsi) ==
    <<D!avp(D!AVP.SESSION_ID, SessionId(ip, n), 0), D!avp(D!AVP.ORIGIN_HOST, Name(host), 0),
      D!avp(D!AVP.DESTINATION_REALM, Name(33), 0), D!avp(D!AVP.AUTH_SESSION_STATE, <<1>>, 0),
      Subscription(imsi)>>

BaseAnswer(m, host) ==
    <<D!get_all(m.avps, D!AVP.SESSION_ID, 0)[1], D!avp(D!AVP.ORIGIN_HOST, Name(host), 0),
      D!avp(D!AVP.ORIGIN_REALM, Name(33), 0), D!avp(D!AVP.AUTH_SESSION_STATE, <<1>>, 0)>>

AuthInfo(imsi, n) ==
    LET vector(i) ==
            LET r == Rand(imsi, i)
            IN  D!group(D!AVP.E_UTRAN_VECTOR,
                    <<D!avp(D!AVP.RAND, r, D!VENDOR_3GPP),
                      D!avp(D!AVP.XRES, Xres(imsi, r), D!VENDOR_3GPP),
                      D!avp(D!AVP.AUTN, Autn(imsi, r), D!VENDOR_3GPP),
                      D!avp(D!AVP.KASME, Kasme(imsi, r), D!VENDOR_3GPP)>>, D!VENDOR_3GPP)
    IN  D!group(D!AVP.AUTHENTICATION_INFO,
            <<D!avp_u32(D!AVP.NUMBER_OF_REQUESTED_VECTORS, n, D!VENDOR_3GPP)>>
            \o [i \in 1..n |-> vector(i - 1)], D!VENDOR_3GPP)

(* HSS._ai, for the subscribers it knows. *)
hss_handle(subscribers, m) ==
    LET imsi == subs_id(m)
        n == Num(D!get_all(m.avps, D!AVP.REQUESTED_EUTRAN_AUTH_INFO, D!VENDOR_3GPP)[1].data)
        result(rc) == <<D!avp_u32(D!AVP.RESULT_CODE, rc, 0)>>
    IN  D!Message(D!Cmd.AUTH_INFO, D!S6A_APP, FALSE, m.id,
            BaseAnswer(m, 37)
            \o IF imsi \in subscribers THEN result(D!SUCCESS) \o <<AuthInfo(imsi, n)>>
               ELSE result(D!USER_UNKNOWN))

(* PCRF.handle, with the policies that are not the default one. *)
DEFAULT_POLICY == [qci |-> 9, ul |-> 100000, dl |-> 200000]

PolicyOf(policies, imsi) == IF imsi \in DOMAIN policies THEN policies[imsi] ELSE DEFAULT_POLICY

QosInformation(p) ==
    D!group(D!AVP.QOS_INFORMATION,
        <<D!avp_u32(D!AVP.QOS_CLASS_IDENTIFIER, p.qci, D!VENDOR_3GPP),
          D!avp_u32(D!AVP.MAX_REQ_BANDWIDTH_UL, p.ul, D!VENDOR_3GPP),
          D!avp_u32(D!AVP.MAX_REQ_BANDWIDTH_DL, p.dl, D!VENDOR_3GPP)>>, D!VENDOR_3GPP)

pcrf_handle(policies, m) ==
    LET ctype == Num(D!get_all(m.avps, D!AVP.CC_REQUEST_TYPE, 0)[1].data)
    IN  D!Message(D!Cmd.CREDIT_CONTROL, D!GX_APP, FALSE, m.id,
            BaseAnswer(m, 38)
            \o <<D!get_all(m.avps, D!AVP.CC_REQUEST_NUMBER, 0)[1],
                 D!avp_u32(D!AVP.CC_REQUEST_TYPE, ctype, 0),
                 D!avp_u32(D!AVP.RESULT_CODE, D!SUCCESS, 0)>>
            \o IF ctype = D!INITIAL THEN <<QosInformation(PolicyOf(policies, subs_id(m)))>> ELSE <<>>)

QosOf(avps) ==
    LET of(code) == Num(D!find(avps, code))
    IN  [qci |-> of(D!AVP.QOS_CLASS_IDENTIFIER), ul |-> of(D!AVP.MAX_REQ_BANDWIDTH_UL),
         dl |-> of(D!AVP.MAX_REQ_BANDWIDTH_DL)]

parse_qos(m) ==
    LET qi == D!get_all(m.avps, D!AVP.QOS_INFORMATION, D!VENDOR_3GPP)
    IN  IF qi = <<>> THEN [qci |-> 9, ul |-> 0, dl |-> 0] ELSE QosOf(D!children(qi[1]))

---------------------------------------------------------------------------
(* PGW-C: S5-C in, Gx, Sxb and the PGW-U's control socket out. *)

gx_ccr(policies, ccn, imsi, ctype) ==
    parse_qos(D!Received(pcrf_handle(policies,
        D!Received(D!Message(D!Cmd.CREDIT_CONTROL, D!GX_APP, TRUE, ccn,
            BaseRequest(PGWC_IP, ccn, 39, imsi)
            \o <<D!avp_u32(D!AVP.CC_REQUEST_TYPE, ctype, 0),
                 D!avp_u32(D!AVP.CC_REQUEST_NUMBER, ccn, 0)>>)))))

(* _next_ip *)
UeIp(n) == U(Num(UE_POOL_START) + n, 4)

(* With the QoS of the PCRF, and the Sx session x. *)
PgwcCreated(c, m, qos, x) ==
    LET imsi == Get(m.ies, G!IE.IMSI)
        sgw == G!decode_f_teid(Get(m.ies, G!IE.F_TEID))
        ebi == Get(G!decode_bearer_context(Get(m.ies, G!IE.BEARER_CONTEXT)), G!IE.EBI)[1]
        ueIp == UeIp(c.pgwc.ueN)
        teid == x.cpf.sessions[x.seid].pdrs[1].fteid[1]
        pgw == G!ie_f_teid(teid, PGWU_IP, G!S5_S8_PGW)
        relay == GT!set_sgi_uplink(GT!add_route(x.upf.relay, teid, "PDN", GT!Egress),
                                   Host(sgw.ip), sgw.teid)
        context == [teid |-> teid, sgwTeid |-> sgw.teid, ueIp |-> ueIp, ebi |-> ebi, qos |-> qos,
                    seid |-> x.seid]
    IN  [core |-> [c EXCEPT !.pgwc = [cpf |-> x.cpf, ctx |-> (imsi :> context) @@ @.ctx,
                                      ueN |-> @.ueN + 1, ccn |-> @.ccn + 1],
                            !.pgwu = [x.upf EXCEPT !.relay = relay]],
         ies |-> <<G!ie_cause(16), Ie(G!IE.IMSI, imsi), pgw,
                   G!ie_f_teid(x.seid, PGWC_IP, G!S5_S8_PGW), G!ie_paa(ueIp),
                   G!ie_ambr(qos.ul, qos.dl),
                   G!ie_bearer_context(ebi, <<G!ie_cause(16), pgw,
                       Ie(G!IE.CHARGING_ID, U(8192 + c.pgwc.ueN + 1, 4))>>)>>]

pgwc_create(c, policies, m) ==
    PgwcCreated(c, m, gx_ccr(policies, c.pgwc.ccn + 1, Get(m.ies, G!IE.IMSI), D!INITIAL),
                session_establish(c.pgwc.cpf, c.pgwu, UeIp(c.pgwc.ueN)))

(* With the deletion x; nobody reads the PCRF's answer to the termination.  *)
PgwcDeleted(c, imsi, x) ==
    [c EXCEPT !.pgwc = [@ EXCEPT !.cpf = x.cpf, !.ctx = Without(@, imsi), !.ccn = @ + 1],
              !.pgwu = x.upf]

pgwc_delete(c, m) ==
    LET imsi == Get(m.ies, G!IE.IMSI)
    IN  [core |-> IF imsi \notin DOMAIN c.pgwc.ctx THEN c
                  ELSE PgwcDeleted(c, imsi,
                                   session_delete(c.pgwc.cpf, c.pgwu, c.pgwc.ctx[imsi].seid)),
         ies |-> <<G!ie_cause(16)>>]

(* The reply has the type after the request's, and its number. *)
gtpc_reply(m, r) == [core |-> r.core, rep |-> G!Received(G!Message(m.type + 1, m.seq, r.ies))]

pgwc_handle(c, policies, m) ==
    gtpc_reply(m, CASE m.type = G!Type.CREATE_SESSION_REQUEST -> pgwc_create(c, policies, m)
                    [] m.type = G!Type.DELETE_SESSION_REQUEST -> pgwc_delete(c, m))

---------------------------------------------------------------------------
(* SGW-C: S11 in, S5-C, Sxa and the SGW-U's control socket out. *)

SgwcAsks(imsi, apn, ebi, s5u) ==
    <<Ie(G!IE.IMSI, imsi), Ie(G!IE.APN, apn), Ie(G!IE.PDN_TYPE, <<1>>),
      G!ie_f_teid(s5u, SGWU_IP, G!S5_S8_SGW), G!ie_f_teid(4096, SGWC_IP, G!S5_S8_SGW),
      Ie(G!IE.RAT_TYPE, <<6>>), Ie(G!IE.SERVING_NETWORK, Name(5)), G!ie_bearer_context(ebi, <<>>)>>

AskedEbi(m) == Get(G!decode_bearer_context(Get(m.ies, G!IE.BEARER_CONTEXT)), G!IE.EBI)[1]

(* What the SGW-C reads of the PGW-C's answer. *)
PgwUe(ies) == G!decode_paa(Get(ies, G!IE.PAA))
PgwRates(ies) == G!decode_ambr(Get(ies, G!IE.AMBR))
PgwBearer(ies) == G!decode_f_teid(Get(ies, G!IE.F_TEID))

(* With the PGW-C's answer p, and the Sx session x. *)
SgwcCreated(m, p, x) ==
    LET imsi == Get(m.ies, G!IE.IMSI)
        ebi == AskedEbi(m)
        s5u == p.core.sgwc.s5u + 1
        pgw == PgwBearer(p.rep.ies)
        ueIp == PgwUe(p.rep.ies)
        ambr == PgwRates(p.rep.ies)
        s1u == x.cpf.sessions[x.seid].pdrs[1].fteid[1]
        sgw == G!ie_f_teid(s1u, SGWU_IP, G!S1U_SGW)
        context == [seid |-> x.seid, s1u |-> s1u, s5u |-> s5u, pgwTeid |-> pgw.teid, ueIp |-> ueIp,
                    ebi |-> ebi, ambr |-> ambr, enbDl |-> 0]
    IN  [core |-> [p.core EXCEPT
                      !.sgwc = [cpf |-> x.cpf, ctx |-> (imsi :> context) @@ @.ctx, s5u |-> s5u],
                      !.sgwu = [x.upf EXCEPT !.relay = GT!add_route(@, s1u, Host(pgw.ip), pgw.teid)]],
         ies |-> <<G!ie_cause(16), Ie(G!IE.IMSI, imsi), sgw,
                   G!ie_f_teid(4096, SGWC_IP, G!S1U_SGW), G!ie_paa(ueIp),
                   G!ie_ambr(ambr.ul, ambr.dl), G!ie_bearer_context(ebi, <<G!ie_cause(16), sgw>>)>>]

SgwcEstablishes(m, p) ==
    SgwcCreated(m, p, session_establish(p.core.sgwc.cpf, p.core.sgwu, PgwUe(p.rep.ies)))

sgwc_create(c, policies, m) ==
    SgwcEstablishes(m, pgwc_handle(c, policies,
        G!Received(G!Message(G!Type.CREATE_SESSION_REQUEST, m.seq,
            SgwcAsks(Get(m.ies, G!IE.IMSI), Get(m.ies, G!IE.APN), AskedEbi(m), c.sgwc.s5u + 1)))))

(* Mutant: the route is for the S1-U TEID. *)
sgwc_modify_s1u(c, m) ==
    LET imsi == Get(m.ies, G!IE.IMSI)
        s == c.sgwc.ctx[imsi]
        enb == G!decode_f_teid(Get(G!decode_bearer_context(Get(m.ies, G!IE.BEARER_CONTEXT)),
                                   G!IE.F_TEID)).teid
    IN  IF imsi \notin DOMAIN c.sgwc.ctx THEN [core |-> c, ies |-> <<G!ie_cause(16)>>]
        ELSE [core |-> [c EXCEPT !.sgwc.ctx[imsi].enbDl = enb,
                                 !.sgwu.relay = GT!add_route(@, s.s1u, Host(ENB_IP), enb)],
              ies |-> <<G!ie_cause(16), G!ie_f_teid(s.s1u, SGWU_IP, G!S1U_SGW)>>]

sgwc_modify(c, m) ==
    LET imsi == Get(m.ies, G!IE.IMSI)
        s == c.sgwc.ctx[imsi]
        enb == G!decode_f_teid(Get(G!decode_bearer_context(Get(m.ies, G!IE.BEARER_CONTEXT)),
                                   G!IE.F_TEID)).teid
    IN  IF imsi \notin DOMAIN c.sgwc.ctx THEN [core |-> c, ies |-> <<G!ie_cause(16)>>]
        ELSE [core |-> [c EXCEPT !.sgwc.ctx[imsi].enbDl = enb,
                                 !.sgwu.relay = GT!add_route(@, s.s5u, Host(ENB_IP), enb)],
              ies |-> <<G!ie_cause(16), G!ie_f_teid(s.s1u, SGWU_IP, G!S1U_SGW)>>]

(* With the deletion x, before the PGW-C is asked. *)
SgwcDeleted(c, imsi, x) ==
    [c EXCEPT !.sgwc = [@ EXCEPT !.cpf = x.cpf, !.ctx = Without(@, imsi)], !.sgwu = x.upf]

sgwc_delete(c, policies, m) ==
    LET imsi == Get(m.ies, G!IE.IMSI)
        released == SgwcDeleted(c, imsi, session_delete(c.sgwc.cpf, c.sgwu, c.sgwc.ctx[imsi].seid))
        p == pgwc_handle(released, policies,
                 G!Received(G!Message(G!Type.DELETE_SESSION_REQUEST, m.seq, <<Ie(G!IE.IMSI, imsi)>>)))
    IN  [core |-> IF imsi \in DOMAIN c.sgwc.ctx THEN p.core ELSE c, ies |-> <<G!ie_cause(16)>>]

sgwc_handle(c, policies, m) ==
    gtpc_reply(m, CASE m.type = G!Type.CREATE_SESSION_REQUEST -> sgwc_create(c, policies, m)
                    [] m.type = G!Type.MODIFY_BEARER_REQUEST -> sgwc_modify(c, m)
                    [] m.type = G!Type.DELETE_SESSION_REQUEST -> sgwc_delete(c, policies, m))
=============================================================================
