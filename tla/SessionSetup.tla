---------------------------- MODULE SessionSetup ----------------------------
(***************************************************************************)
(* The chain that gives a subscriber a bearer: the MME asks the SGW-C over *)
(* S11 (core/mme.py), the SGW-C asks the PGW-C over S5-C                   *)
(* (core/epc_sgw_c.py, core/epc_pgw_c.py), both establish an Sx session on *)
(* their UPF and program its GTP-U relay (core/upf.py, core/gtpu.py).      *)
(*                                                                         *)
(* Every node handles one request at a time on one thread, which blocks in *)
(* UDPClient.request while it waits for the next node.  The client has one *)
(* socket for all its requests and takes the next datagram that is in it   *)
(* for the answer: requests have no numbers and answers are not compared   *)
(* with them.  A request that timed out is still served, and its answer    *)
(* stays in the socket.                                                    *)
(*                                                                         *)
(* The Sx procedures are single steps here with the outcomes module Sx     *)
(* gives them; no association is released and no UPF restarts.  TEIDs,     *)
(* SEIDs and addresses are counted from their bases; 0 is the TEID the     *)
(* SGW-C puts in when it is told none, and the address 10.10.0.2, both the *)
(* first of the pool and the SGW-C's default.                              *)
(***************************************************************************)
EXTENDS Integers, Sequences, FiniteSets

CONSTANTS
    Imsis,      \* subscribers
    MaxProcs,   \* bound on the procedures the MME starts
    MaxFaults,  \* bound on lost messages and on answers later than a time-out
    None        \* Python's None

ASSUME SetupAssumption ==
    /\ MaxProcs \in Nat /\ MaxFaults \in Nat
    /\ None \notin Imsis \cup Nat

VARIABLES
    mme,        \* the S11 procedure the MME is in, and for whom
    bearer,     \* bearer[i]: TEID and address the MME has passed on to the UE and eNB of i
    setup,      \* subscribers whose Initial Context Setup Response the MME has yet to handle
    toSgwc, fromSgwc,   \* datagrams in the S11 sockets of the SGW-C and the MME
    sgwc,       \* what the SGW-C waits for on S5-C, for whom, with which S5-U TEID
    sgwCtx,     \* SGW_C.ctx
    s5u,        \* SGW_C._s5u
    toPgwc, fromPgwc,   \* datagrams in the S5-C sockets of the PGW-C and the SGW-C
    pgwCtx,     \* PGW_C.ctx
    ueN,        \* PGW_C._ue_n
    seid,       \* seid[n]: SEIDs drawn by the controller of n
    upf,        \* upf[n]: the sessions of the UPF n and the F-TEIDs it has allocated
    sgwUp,      \* routes of the SGW-U uplink: <<S1-U TEID, S5-U TEID of the PGW-U>>
    sgwDown,    \* S5-U TEIDs the SGW-U routes to the eNB
    pgwUp,      \* S5-U TEIDs the PGW-U routes to the PDN
    sgi,        \* the PGW-U's SGi uplink: the S5-U TEID for all downlink packets
    procs, faults

mmeVars == <<mme, bearer, setup, procs>>
sgwcVars == <<sgwc, sgwCtx, s5u>>
pgwcVars == <<pgwCtx, ueN>>
sxVars == <<seid, upf>>
routeVars == <<sgwUp, sgwDown, pgwUp, sgi>>
netVars == <<toSgwc, fromSgwc, toPgwc, fromPgwc>>
vars == <<mmeVars, sgwcVars, pgwcVars, sxVars, routeVars, netVars, faults>>

(* The two controllers, each with its UPF. *)
Nodes == {"sgw", "pgw"}

(* The part of a response its reader looks at: the F-TEID and the address. *)
Answer(teid, ip) == [teid |-> teid, ip |-> ip]
Bare == Answer(None, None)
MmeIdle == [op |-> "idle", imsi |-> None]
SgwcIdle == [op |-> "idle", imsi |-> None, s5u |-> 0]

Init ==
    /\ mme = MmeIdle /\ sgwc = SgwcIdle
    /\ bearer = [i \in Imsis |-> Bare]
    /\ setup = {}
    /\ toSgwc = <<>> /\ fromSgwc = <<>> /\ toPgwc = <<>> /\ fromPgwc = <<>>
    /\ sgwCtx = [i \in Imsis |-> None] /\ pgwCtx = [i \in Imsis |-> None]
    /\ s5u = 0 /\ ueN = 0
    /\ seid = [n \in Nodes |-> 0]
    /\ upf = [n \in Nodes |-> [store |-> {}, teid |-> 0]]
    /\ sgwUp = {} /\ sgwDown = {} /\ pgwUp = {} /\ sgi = None
    /\ procs = 0 /\ faults = 0

(* A step that n faults are needed for. *)
Faults(n) == faults + n <= MaxFaults /\ faults' = faults + n

---------------------------------------------------------------------------
(* The Sx procedures of the controller of UPF n (CPF.session_establish and *)
(* session_delete): served and answered, lost on the way there, or lost on *)
(* the way back.                                                           *)
Outcomes == {"done", "unserved", "unheard"}
Cost(o) == IF o = "done" THEN 0 ELSE 1

NextSeid(n) == seid[n] + 1
NextTeid(n) == upf[n].teid + 1

Establish(n, o) ==
    /\ seid' = [seid EXCEPT ![n] = NextSeid(n)]
    /\ upf' = IF o = "unserved" THEN upf
              ELSE [upf EXCEPT ![n] = [store |-> @.store \cup {NextSeid(n)},
                                       teid |-> NextTeid(n)]]

(* Mutant: the session of the wrong SEID, the latest, is deleted. *)
ReleaseLatest(n, s, o) ==
    /\ upf' = IF o = "unserved" THEN upf ELSE [upf EXCEPT ![n].store = @ \ {seid[n]}]
    /\ UNCHANGED seid

Release(n, s, o) ==
    /\ upf' = IF o = "unserved" THEN upf ELSE [upf EXCEPT ![n].store = @ \ {s}]
    /\ UNCHANGED seid

---------------------------------------------------------------------------
(* The MME: _s11_create, _s11_modify, _s11_delete. *)

(* It starts a procedure: one datagram to the SGW-C, then it waits. *)
Ask(op, i) ==
    /\ mme = MmeIdle
    /\ procs < MaxProcs
    /\ procs' = procs + 1
    /\ mme' = [op |-> op, imsi |-> i]
    /\ toSgwc' = Append(toSgwc, [op |-> op, imsi |-> i])
    /\ UNCHANGED <<sgwcVars, pgwcVars, sxVars, routeVars, fromSgwc, toPgwc, fromPgwc, faults>>

(* Security Mode Complete: the UE is attaching, for the first time or      *)
(* again; the MME's context is as new.  A Setup Response still expected    *)
(* for the old one is lost: S1AP runs over UDP too.                        *)
StartCreate(i) ==
    /\ Ask("create", i)
    /\ bearer' = [bearer EXCEPT ![i] = Bare]
    /\ setup' = setup \ {i}

(* The eNB has set up the bearer and tells its own TEID. *)
StartModify(i) ==
    /\ i \in setup
    /\ Ask("modify", i)
    /\ setup' = setup \ {i}
    /\ UNCHANGED bearer

(* The UE detaches. *)
StartDelete(i) ==
    /\ Ask("delete", i)
    /\ UNCHANGED <<bearer, setup>>

(* A datagram is there: the MME takes it for the answer.  After a create   *)
(* it keeps what it read; without an address it fails to build the Attach  *)
(* Accept, and nothing reaches the UE and the eNB.                         *)
MmeAnswered ==
    /\ mme.op # "idle"
    /\ fromSgwc # <<>>
    /\ fromSgwc' = Tail(fromSgwc)
    /\ mme' = MmeIdle
    /\ IF mme.op = "create"
       THEN /\ bearer' = [bearer EXCEPT ![mme.imsi] = Head(fromSgwc)]
            /\ setup' = IF Head(fromSgwc).ip = None THEN setup ELSE setup \cup {mme.imsi}
       ELSE UNCHANGED <<bearer, setup>>
    /\ UNCHANGED <<sgwcVars, pgwcVars, sxVars, routeVars, toSgwc, toPgwc, fromPgwc,
                   procs, faults>>

(* Mutant: the S11 socket has no time-out. *)
MmeTimeoutNever ==
    /\ mme.op # "idle"
    /\ fromSgwc # <<>>
    /\ mme' = MmeIdle
    /\ UNCHANGED <<sgwcVars, pgwcVars, sxVars, routeVars, netVars, bearer, setup, procs, faults>>

(* No datagram within 5.0 or 4.0 seconds: none is coming, or it is late. *)
MmeTimeout ==
    /\ mme.op # "idle"
    /\ fromSgwc = <<>>
    /\ Faults(IF toSgwc = <<>> /\ sgwc = SgwcIdle THEN 0 ELSE 1)
    /\ mme' = MmeIdle
    /\ UNCHANGED <<sgwcVars, pgwcVars, sxVars, routeVars, netVars, bearer, setup, procs>>

---------------------------------------------------------------------------
(* The SGW-C: handle_s11. *)

SgwcTakes(op) == sgwc = SgwcIdle /\ toSgwc # <<>> /\ Head(toSgwc).op = op
Subscriber == Head(toSgwc).imsi

(* _create_session up to the S5-C request. *)
SgwcCreate ==
    /\ SgwcTakes("create")
    /\ s5u' = s5u + 1
    /\ sgwc' = [op |-> "create", imsi |-> Subscriber, s5u |-> s5u + 1]
    /\ toSgwc' = Tail(toSgwc)
    /\ toPgwc' = Append(toPgwc, [op |-> "create", imsi |-> Subscriber, s5u |-> s5u + 1])
    /\ UNCHANGED <<mmeVars, sgwCtx, pgwcVars, sxVars, routeVars, fromSgwc, fromPgwc, faults>>

(* Mutant: a missing F-TEID is not replaced. *)
PgwTeidRaw(r) == r.teid

(* What _create_session makes of an answer without F-TEID or address,      *)
(* whatever its Cause says.                                                *)
PgwTeid(r) == IF r.teid = None THEN 0 ELSE r.teid
UeIp(r) == IF r.ip = None THEN 0 ELSE r.ip

(* Mutant: a repeated attach keeps the PGW TEID of the earlier one. *)
UplinkRouteStale(r) ==
    <<NextTeid("sgw"),
      IF sgwCtx[sgwc.imsi] = None THEN PgwTeid(r) ELSE sgwCtx[sgwc.imsi].pgw>>

(* The route the SGW-U gets: from the new S1-U TEID to the PGW's. *)
UplinkRoute(r) == <<NextTeid("sgw"), PgwTeid(r)>>

(* ... and from a datagram in the S5-C socket to the end: the Sx session,  *)
(* the uplink route, whose command may be lost, and the context, which     *)
(* replaces one the subscriber may have.                                   *)
SgwcCreated ==
    /\ sgwc.op = "create"
    /\ fromPgwc # <<>>
    /\ fromPgwc' = Tail(fromPgwc)
    /\ \E o \in Outcomes, routed \in BOOLEAN :
        LET i == sgwc.imsi  r == Head(fromPgwc) IN
        /\ Faults(Cost(o) + IF routed THEN 0 ELSE 1)
        /\ Establish("sgw", o)
        /\ IF o = "done"
           THEN /\ sgwCtx' = [sgwCtx EXCEPT ![i] =
                       [seid |-> NextSeid("sgw"), s1u |-> NextTeid("sgw"), s5u |-> sgwc.s5u,
                        pgw |-> PgwTeid(r), ip |-> UeIp(r), enb |-> FALSE]]
                /\ sgwUp' = IF routed THEN sgwUp \cup {UplinkRoute(r)} ELSE sgwUp
                /\ fromSgwc' = Append(fromSgwc, Answer(NextTeid("sgw"), UeIp(r)))
           ELSE /\ routed
                /\ fromSgwc' = Append(fromSgwc, Bare)
                /\ UNCHANGED <<sgwCtx, sgwUp>>
    /\ sgwc' = SgwcIdle
    /\ UNCHANGED <<mmeVars, s5u, pgwcVars, sgwDown, pgwUp, sgi, toSgwc, toPgwc>>

(* No datagram on S5-C: a create is rejected, a delete is confirmed. *)
SgwcTimeout ==
    /\ sgwc.op # "idle"
    /\ fromPgwc = <<>>
    /\ Faults(IF toPgwc = <<>> THEN 0 ELSE 1)
    /\ sgwc' = SgwcIdle
    /\ fromSgwc' = Append(fromSgwc, Bare)
    /\ UNCHANGED <<mmeVars, sgwCtx, s5u, pgwcVars, sxVars, routeVars, toSgwc, toPgwc, fromPgwc>>

(* Mutant: the route to the eNB is put on the S5-U TEID drawn last. *)
SgwcModifyLatest ==
    /\ SgwcTakes("modify")
    /\ toSgwc' = Tail(toSgwc)
    /\ LET i == Subscriber  x == sgwCtx[i] IN
        IF x = None
        THEN /\ fromSgwc' = Append(fromSgwc, Bare)
             /\ UNCHANGED <<sgwCtx, sgwDown>>
        ELSE /\ sgwCtx' = [sgwCtx EXCEPT ![i].enb = TRUE]
             /\ sgwDown' = sgwDown \cup {s5u}
             /\ fromSgwc' = Append(fromSgwc, Answer(x.s1u, None))
    /\ UNCHANGED <<mmeVars, sgwc, s5u, pgwcVars, sxVars, sgwUp, pgwUp, sgi, toPgwc, fromPgwc,
                   faults>>

(* _modify_bearer installs the downlink route to the eNB. *)
SgwcModify ==
    /\ SgwcTakes("modify")
    /\ toSgwc' = Tail(toSgwc)
    /\ LET i == Subscriber  x == sgwCtx[i] IN
        IF x = None
        THEN /\ fromSgwc' = Append(fromSgwc, Bare)
             /\ UNCHANGED <<sgwCtx, sgwDown, faults>>
        ELSE \E routed \in BOOLEAN :
                /\ Faults(IF routed THEN 0 ELSE 1)
                /\ sgwCtx' = [sgwCtx EXCEPT ![i].enb = TRUE]
                /\ sgwDown' = IF routed THEN sgwDown \cup {x.s5u} ELSE sgwDown
                /\ fromSgwc' = Append(fromSgwc, Answer(x.s1u, None))
    /\ UNCHANGED <<mmeVars, sgwc, s5u, pgwcVars, sxVars, sgwUp, pgwUp, sgi, toPgwc, fromPgwc>>

(* Mutant: the SGW-C does not pass the deletion on. *)
SgwcDeleteLocal ==
    /\ SgwcTakes("delete")
    /\ toSgwc' = Tail(toSgwc)
    /\ LET i == Subscriber  x == sgwCtx[i] IN
        /\ fromSgwc' = Append(fromSgwc, Bare)
        /\ IF x = None
           THEN UNCHANGED <<sgwCtx, sxVars, faults>>
           ELSE \E o \in Outcomes :
                   /\ Faults(Cost(o))
                   /\ Release("sgw", x.seid, o)
                   /\ sgwCtx' = [sgwCtx EXCEPT ![i] = None]
    /\ UNCHANGED <<mmeVars, sgwc, s5u, pgwcVars, routeVars, toPgwc, fromPgwc>>

(* _delete_session: the context goes, then the Sx session, then the PGW-C  *)
(* is told; the routes stay.                                               *)
SgwcDelete ==
    /\ SgwcTakes("delete")
    /\ toSgwc' = Tail(toSgwc)
    /\ LET i == Subscriber  x == sgwCtx[i] IN
        IF x = None
        THEN /\ fromSgwc' = Append(fromSgwc, Bare)
             /\ UNCHANGED <<sgwc, sgwCtx, sxVars, toPgwc, faults>>
        ELSE \E o \in Outcomes :
                /\ Faults(Cost(o))
                /\ Release("sgw", x.seid, o)
                /\ sgwCtx' = [sgwCtx EXCEPT ![i] = None]
                /\ sgwc' = [op |-> "delete", imsi |-> i, s5u |-> 0]
                /\ toPgwc' = Append(toPgwc, [op |-> "delete", imsi |-> i, s5u |-> 0])
                /\ UNCHANGED fromSgwc
    /\ UNCHANGED <<mmeVars, s5u, pgwcVars, routeVars, fromPgwc>>

SgwcDeleted ==
    /\ sgwc.op = "delete"
    /\ fromPgwc # <<>>
    /\ fromPgwc' = Tail(fromPgwc)
    /\ sgwc' = SgwcIdle
    /\ fromSgwc' = Append(fromSgwc, Bare)
    /\ UNCHANGED <<mmeVars, sgwCtx, s5u, pgwcVars, sxVars, routeVars, toSgwc, toPgwc, faults>>

---------------------------------------------------------------------------
(* The PGW-C: handle_s5c.  The PCRF only reads its policies: waiting for   *)
(* its answer, or not getting one, changes nothing that is modelled.       *)

PgwcTakes(op) == toPgwc # <<>> /\ Head(toPgwc).op = op

(* Mutant: an address is counted from the contexts that are there. *)
UeAddressByContexts == Cardinality({i \in Imsis : pgwCtx[i] # None})

(* _next_ip: the n-th address of the pool; none is given back. *)
UeAddress == ueN

(* _create_session: an address, an Sx session, the uplink route and the    *)
(* SGi uplink, each by a command that may be lost, and the context.        *)
PgwcCreate ==
    /\ PgwcTakes("create")
    /\ toPgwc' = Tail(toPgwc)
    /\ ueN' = ueN + 1
    /\ \E o \in Outcomes, routed, linked \in BOOLEAN :
        LET m == Head(toPgwc) IN
        /\ Faults(Cost(o) + (IF routed THEN 0 ELSE 1) + (IF linked THEN 0 ELSE 1))
        /\ Establish("pgw", o)
        /\ IF o = "done"
           THEN /\ pgwCtx' = [pgwCtx EXCEPT ![m.imsi] =
                       [seid |-> NextSeid("pgw"), teid |-> NextTeid("pgw"), sgw |-> m.s5u,
                        ip |-> UeAddress]]
                /\ pgwUp' = IF routed THEN pgwUp \cup {NextTeid("pgw")} ELSE pgwUp
                /\ sgi' = IF linked THEN m.s5u ELSE sgi
                /\ fromPgwc' = Append(fromPgwc, Answer(NextTeid("pgw"), UeAddress))
           ELSE /\ routed /\ linked
                /\ fromPgwc' = Append(fromPgwc, Bare)
                /\ UNCHANGED <<pgwCtx, pgwUp, sgi>>
    /\ UNCHANGED <<mmeVars, sgwcVars, sgwUp, sgwDown, toSgwc, fromSgwc>>

(* _delete_session *)
PgwcDelete ==
    /\ PgwcTakes("delete")
    /\ toPgwc' = Tail(toPgwc)
    /\ fromPgwc' = Append(fromPgwc, Bare)
    /\ LET i == Head(toPgwc).imsi  x == pgwCtx[i] IN
        IF x = None
        THEN UNCHANGED <<pgwCtx, sxVars, faults>>
        ELSE \E o \in Outcomes :
                /\ Faults(Cost(o))
                /\ Release("pgw", x.seid, o)
                /\ pgwCtx' = [pgwCtx EXCEPT ![i] = None]
    /\ UNCHANGED <<mmeVars, sgwcVars, ueN, routeVars, toSgwc, fromSgwc>>

---------------------------------------------------------------------------
(* The network loses the next datagram of a socket. *)
Lose ==
    /\ Faults(1)
    /\ \/ toSgwc # <<>> /\ toSgwc' = Tail(toSgwc) /\ UNCHANGED <<fromSgwc, toPgwc, fromPgwc>>
       \/ fromSgwc # <<>> /\ fromSgwc' = Tail(fromSgwc) /\ UNCHANGED <<toSgwc, toPgwc, fromPgwc>>
       \/ toPgwc # <<>> /\ toPgwc' = Tail(toPgwc) /\ UNCHANGED <<toSgwc, fromSgwc, fromPgwc>>
       \/ fromPgwc # <<>> /\ fromPgwc' = Tail(fromPgwc) /\ UNCHANGED <<toSgwc, fromSgwc, toPgwc>>
    /\ UNCHANGED <<mmeVars, sgwcVars, pgwcVars, sxVars, routeVars>>

Start == \E i \in Imsis : StartCreate(i) \/ StartModify(i) \/ StartDelete(i)
Mme == MmeAnswered \/ MmeTimeout
Sgwc == SgwcCreate \/ SgwcCreated \/ SgwcModify \/ SgwcDelete \/ SgwcDeleted \/ SgwcTimeout
Pgwc == PgwcCreate \/ PgwcDelete

Next == Start \/ Mme \/ Sgwc \/ Pgwc \/ Lose

Spec == Init /\ [][Next]_vars

(* The threads of the nodes keep running. *)
FairSpec == Spec /\ WF_vars(Mme) /\ WF_vars(Sgwc) /\ WF_vars(Pgwc)

---------------------------------------------------------------------------
(* Properties. *)

Answers == [teid : Nat \cup {None}, ip : Nat \cup {None}]
S11Requests == [op : {"create", "modify", "delete"}, imsi : Imsis]
S5Requests == [op : {"create", "delete"}, imsi : Imsis, s5u : Nat]
SgwContexts == [seid : Nat, s1u : Nat, s5u : Nat, pgw : Nat, ip : Nat, enb : BOOLEAN]
PgwContexts == [seid : Nat, teid : Nat, sgw : Nat, ip : Nat]

(* A context is something.                                                 *)
ASSUME ContextAssumption == None \notin SgwContexts /\ None \notin PgwContexts

(* The state has the types the code gives it.                              *)
TypeOK ==
    /\ mme \in S11Requests \cup {MmeIdle}
    /\ bearer \in [Imsis -> Answers] /\ setup \subseteq Imsis
    /\ toSgwc \in Seq(S11Requests) /\ fromSgwc \in Seq(Answers)
    /\ sgwc \in S5Requests \cup {SgwcIdle}
    /\ sgwCtx \in [Imsis -> SgwContexts \cup {None}] /\ s5u \in Nat
    /\ toPgwc \in Seq(S5Requests) /\ fromPgwc \in Seq(Answers)
    /\ pgwCtx \in [Imsis -> PgwContexts \cup {None}] /\ ueN \in Nat
    /\ seid \in [Nodes -> Nat] /\ upf \in [Nodes -> [store : SUBSET Nat, teid : Nat]]
    /\ sgwUp \subseteq Nat \X Nat /\ sgwDown \subseteq Nat /\ pgwUp \subseteq Nat
    /\ sgi \in Nat \cup {None}
    /\ procs \in 0..MaxProcs /\ faults \in 0..MaxFaults

(* Without a fault, and but for the subscriber a procedure runs for: the   *)
(* SGW-C and the PGW-C have a context for the same subscribers, and what   *)
(* each wrote down of the other (S5-U TEIDs, address) is what the other    *)
(* has, through repeated attaches and detaches in any order.               *)
ContextsAgree ==
    faults = 0 =>
        \A i \in Imsis \ {mme.imsi} :
            /\ sgwCtx[i] = None <=> pgwCtx[i] = None
            /\ sgwCtx[i] # None =>
                   /\ sgwCtx[i].pgw = pgwCtx[i].teid
                   /\ sgwCtx[i].s5u = pgwCtx[i].sgw
                   /\ sgwCtx[i].ip = pgwCtx[i].ip

(* Without a fault a subscriber with a session has a bearer that works:    *)
(* the TEID the MME passed on is routed by the SGW-U, and by it alone, to  *)
(* the F-TEID of the subscriber's own PDN session, the PGW-U routes that   *)
(* to the PDN, the UE has the address of that session; and if the SGi      *)
(* uplink is the subscriber's and the eNB has told its TEID, downlink      *)
(* packets get through to it.                                              *)
BearerWorks ==
    faults = 0 =>
        \A i \in Imsis \ {mme.imsi} :
            sgwCtx[i] # None =>
                /\ {t \in pgwUp : <<bearer[i].teid, t>> \in sgwUp} = {pgwCtx[i].teid}
                /\ bearer[i].ip = pgwCtx[i].ip
                /\ sgi = pgwCtx[i].sgw /\ sgwCtx[i].enb => sgi \in sgwDown

(* Whatever is lost or late, the Sx session a context of the SGW-C or of   *)
(* the PGW-C refers to is there in the UPF, and it is no other             *)
(* subscriber's: no late deletion or repeated attach takes it away.        *)
ContextBacked ==
    \A i \in Imsis :
        /\ sgwCtx[i] # None => sgwCtx[i].seid \in upf["sgw"].store
        /\ pgwCtx[i] # None => pgwCtx[i].seid \in upf["pgw"].store
        /\ \A j \in Imsis \ {i} :
               /\ sgwCtx[i] # None /\ sgwCtx[j] # None => sgwCtx[i].seid # sgwCtx[j].seid
               /\ pgwCtx[i] # None /\ pgwCtx[j] # None => pgwCtx[i].seid # pgwCtx[j].seid

(* Whatever is lost or late, the PGW-C has no two subscribers with one     *)
(* address or with one S5-U TEID, detaches and repeated attaches between.  *)
AddressExclusive ==
    \A i, j \in Imsis :
        i # j /\ pgwCtx[i] # None /\ pgwCtx[j] # None =>
            pgwCtx[i].ip # pgwCtx[j].ip /\ pgwCtx[i].teid # pgwCtx[j].teid

(* What makes the two inductive: a context holds a SEID, a TEID and an     *)
(* address its node has drawn, and the counters only go up.                *)
SgwDrawn ==
    \A i \in Imsis : sgwCtx[i] # None => sgwCtx[i].seid <= seid["sgw"]

PgwDrawn ==
    \A i \in Imsis :
        pgwCtx[i] # None =>
            /\ pgwCtx[i].seid <= seid["pgw"]
            /\ pgwCtx[i].teid <= upf["pgw"].teid
            /\ pgwCtx[i].ip < ueN

IInv == TypeOK /\ SgwDrawn /\ PgwDrawn /\ ContextBacked /\ AddressExclusive

(* Every S11 procedure of the MME comes to an end, whatever is lost: its   *)
(* thread, which serves all subscribers, is not held for ever.             *)
S11Returns == mme.op # "idle" ~> mme.op = "idle"

(* What README.md:273 says of a detach, "PFCP deletion on both UPFs": when *)
(* no subscriber has a context any more, and nothing went wrong, no Sx     *)
(* session is left.  Violated: an attach without a detach before replaces  *)
(* the contexts of the earlier one (epc_sgw_c.py:121, epc_pgw_c.py:138),   *)
(* whose Sx sessions no deletion reaches.                                  *)
DetachClears ==
    faults = 0 /\ mme = MmeIdle /\ (\A i \in Imsis : sgwCtx[i] = None) =>
        \A n \in Nodes : upf[n].store = {}

(* A creation the PGW-C answers with what epc_pgw_c.py:130 calls           *)
(* "rejected" gives the subscriber no session.  Violated: the SGW-C does   *)
(* not look at the Cause, fills in TEID 0 and 10.10.0.2, sets up its half  *)
(* and confirms (epc_sgw_c.py:104-134).                                    *)
RejectedMeansNone ==
    \A i \in Imsis \ {mme.imsi} : sgwCtx[i] # None => pgwCtx[i] # None

(* The reply UDPClient.request waits for (udp_client.py:20, "Send and wait *)
(* for one reply") answers what was sent: no subscriber is given the       *)
(* bearer of another.  Violated: the reply of a request that timed out     *)
(* stays in the socket and is taken for that of the next.                  *)
OwnBearer ==
    \A i, j \in Imsis :
        i # j /\ sgwCtx[i] # None => bearer[j].teid # sgwCtx[i].s1u

(* This module implements BearerService: a procedure has been carried out  *)
(* when its answer is in the MME's socket, and a creation is prepared when *)
(* the PGW-C has answered.                                                 *)
Stage ==
    CASE mme = MmeIdle -> "none"
      [] mme # MmeIdle /\ fromSgwc # <<>> -> "done"
      [] mme # MmeIdle /\ fromSgwc = <<>> /\ sgwc.op = "create" /\ fromPgwc # <<>> -> "prepared"
      [] OTHER -> "asked"

(* The subscriber has the n-th session at both gateways, with the n-th     *)
(* TEIDs and address, both routes and both Sx sessions.                    *)
Whole(i, n) ==
    /\ sgwCtx[i] # None /\ pgwCtx[i] # None
    /\ sgwCtx[i].s1u = n /\ sgwCtx[i].s5u = n /\ sgwCtx[i].pgw = n /\ sgwCtx[i].ip + 1 = n
    /\ pgwCtx[i].teid = n /\ pgwCtx[i].sgw = n /\ pgwCtx[i].ip + 1 = n
    /\ <<n, n>> \in sgwUp /\ n \in pgwUp
    /\ sgwCtx[i].seid \in upf["sgw"].store /\ pgwCtx[i].seid \in upf["pgw"].store

SessionOf(i) ==
    IF sgwCtx[i] # None /\ Whole(i, sgwCtx[i].s1u) THEN sgwCtx[i].s1u ELSE None

(* What the MME holds is the n-th session: the n-th TEID and address.      *)
NumberOf(b) ==
    IF b.teid # None /\ b.ip # None /\ b.ip + 1 = b.teid THEN b.teid ELSE None

Service == INSTANCE BearerService WITH
    proc <- mme, stage <- Stage, session <- [i \in Imsis |-> SessionOf(i)],
    told <- [i \in Imsis |-> NumberOf(bearer[i])], granted <- upf["sgw"].teid,
    linked <- sgwDown, target <- sgi, broken <- faults > 0

(* As long as nothing is lost or late the MME, the SGW-C, the PGW-C, their *)
(* UPFs and relays are to the MME one gateway that serves its procedures   *)
(* one by one, and of each subscriber alone (core/epc_sgw_c.py, handle_s11 *)
(* and what it calls); afterwards the MME still is given no bearer that    *)
(* was not granted.                                                        *)
ImplementsService == Service!Spec
=============================================================================
