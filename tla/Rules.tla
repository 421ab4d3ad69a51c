------------------------------- MODULE Rules -------------------------------
(***************************************************************************)
(* The rules of an Sx session (sxcups/rules.py), what PFCP carries of      *)
(* them, and the session that applies them (sxcups/session.py).  A session *)
(* keeps its PDRs in the order of their insertion, as a dict does.         *)
(***************************************************************************)
EXTENDS Pfcp

Interfaces == [Access |-> 0, Core |-> 1, SGiLAN |-> 2, CPFunction |-> 3]
InterfaceName(n) == IF n \in 0..3 THEN CHOOSE i \in DOMAIN Interfaces : Interfaces[i] = n ELSE "Access"

Ids(t, ids) == [i \in DOMAIN ids |-> Ie(t, U(ids[i], 4))]
IdsOf(ies) == [i \in DOMAIN ies |-> Num(ies[i].v)]

(* F-TEID: a pair, or nothing. *)
PDR(id, precedence, source, urrs, qers, far) ==
    [id |-> id, precedence |-> precedence, source |-> source, fteid |-> <<>>,
     urrs |-> urrs, qers |-> qers, far |-> far]

(* Mutant: the precedence is not sent. *)
pdr_to_pfcp_bare(p) ==
    encode_grouped(IE.CreatePDR,
        <<Ie(IE.PDRID, U(p.id, 2)), Ie(IE.Precedence, U(100, 4)),
          encode_grouped(IE.PDI, <<Ie(IE.SourceInterface, U(Interfaces[p.source], 1))>>)>>
        \o Ids(IE.URRID, p.urrs) \o Ids(IE.QERID, p.qers) \o Ids(IE.FARID, <<p.far>>))

pdr_to_pfcp(p) ==
    encode_grouped(IE.CreatePDR,
        <<Ie(IE.PDRID, U(p.id, 2)), Ie(IE.Precedence, U(p.precedence, 4)),
          encode_grouped(IE.PDI, <<Ie(IE.SourceInterface, U(Interfaces[p.source], 1))>>)>>
        \o (IF p.fteid # <<>> THEN <<encode_grouped(IE.PDI, <<ie_ft_eid(p.fteid)>>)>> ELSE <<>>)
        \o Ids(IE.URRID, p.urrs) \o Ids(IE.QERID, p.qers) \o Ids(IE.FARID, <<p.far>>))

(* The elements of all PDIs together. *)
PdiIes(pdis) == FlattenSeq([i \in DOMAIN pdis |-> kids(pdis[i])])
InterfaceOf(pdi) == InterfaceName(Num(Get(pdi, IE.SourceInterface)))
FteidOf(v) == IF v = <<>> THEN <<>> ELSE decode_ft_eid(v)

PdrOf(ies, pdi) ==
    [id |-> Num(Get(ies, IE.PDRID)), precedence |-> Num(Get(ies, IE.Precedence)),
     source |-> InterfaceOf(pdi), fteid |-> FteidOf(Get(pdi, IE.FTEID)),
     urrs |-> IdsOf(GetAll(ies, IE.URRID)), qers |-> IdsOf(GetAll(ies, IE.QERID)),
     far |-> Num(Get(ies, IE.FARID))]

pdr_from_pfcp(v) ==
    LET Of(ies) == PdrOf(ies, PdiIes(GetAll(ies, IE.PDI))) IN Of(decode_ies(v))

FAR(id, actions, destination) == [id |-> id, actions |-> actions, destination |-> destination]

far_to_pfcp(f) ==
    encode_grouped(IE.CreateFAR,
        <<Ie(IE.FARID, U(f.id, 4)), ie_apply_action(f.actions),
          encode_grouped(IE.ForwardingParameters,
              <<Ie(IE.DestinationInterface, U(Interfaces[f.destination], 1))>>)>>)

(* Where to is not read: a FAR received goes to Core. *)
FarOf(ies) == FAR(Num(Get(ies, IE.FARID)), decode_apply_action(Get(ies, IE.ApplyAction)), "Core")
far_from_pfcp(v) == FarOf(decode_ies(v))

(* Of a QER its id, of a URR its id and period. *)
qer_to_pfcp(id) == encode_grouped(IE.CreateQER, <<Ie(IE.QERID, U(id, 4))>>)
qer_from_pfcp(v) == Num(Get(decode_ies(v), IE.QERID))
urr_to_pfcp(id) ==
    encode_grouped(IE.CreateURR, <<Ie(IE.URRID, U(id, 4)), Ie(IE.MeasurementPeriod, U(60, 4))>>)
urr_from_pfcp(v) == Num(Get(decode_ies(v), IE.URRID))

---------------------------------------------------------------------------
(* Usage and buffer are left out: nobody but a report reads them.  up is   *)
(* the UPF's F-SEID.                                                       *)
Session(seid, upIp) ==
    [seid |-> seid, up |-> [seid |-> seid, ip |-> upIp], pdrs |-> <<>>, fars |-> <<>>, qers |-> {}, urrs |-> {}]

(* A rule takes the place of the one with its id, or the last place. *)
Put(rules, r) ==
    IF \E i \in DOMAIN rules : rules[i].id = r.id
    THEN [i \in DOMAIN rules |-> IF rules[i].id = r.id THEN r ELSE rules[i]]
    ELSE Append(rules, r)

add_rules(s, pdrs, fars, qers, urrs) ==
    [s EXCEPT !.pdrs = FoldLeft(Put, @, pdrs), !.fars = FoldLeft(Put, @, fars),
              !.qers = @ \cup ToSet(qers), !.urrs = @ \cup ToSet(urrs)]

remove_pdrs(s, ids) == [s EXCEPT !.pdrs = SelectSeq(@, LAMBDA p : p.id \notin ids)]
remove_fars(s, ids) == [s EXCEPT !.fars = SelectSeq(@, LAMBDA f : f.id \notin ids)]

(* The place of the PDR for a direction: of the lowest precedence the      *)
(* first, or 0.                                                            *)
classify(s, direction) ==
    LET M == {i \in DOMAIN s.pdrs : s.pdrs[i].source = direction}
        Before(i, j) == \/ s.pdrs[i].precedence < s.pdrs[j].precedence
                        \/ s.pdrs[i].precedence = s.pdrs[j].precedence /\ i <= j
    IN  IF M = {} THEN 0 ELSE CHOOSE i \in M : \A j \in M : Before(i, j)

(* What is done with a packet: DROP without a PDR or its FAR. *)
decision(s, direction) ==
    LET i == classify(s, direction)
        F == IF i = 0 THEN {} ELSE {f \in ToSet(s.fars) : f.id = s.pdrs[i].far}
    IN  IF F = {} THEN {"DROP"} ELSE UNION {f.actions : f \in F}
=============================================================================
