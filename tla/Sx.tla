--------------------------------- MODULE Sx ---------------------------------
(***************************************************************************)
(* The Sx interface: CPFs (core/cpf.py) and UPFs (core/upf.py) that keep   *)
(* associations and sessions in step over PFCP on UDP.                     *)
(*                                                                         *)
(* Every procedure of a CPF is a blocking call: it changes the CPF's own   *)
(* state, sends a request, waits for the response or for 3.0 seconds, and  *)
(* changes the CPF's state again.  Between the two halves other threads of *)
(* the same CPF run: the receive thread of S11 or S5-C, the control thread *)
(* (Workers) and the threads of expired guard timers (Timers).             *)
(*                                                                         *)
(* Sequence numbers do not appear: PfcpTransaction shows that a call gets  *)
(* the answer to its own request or none, so a request and its response    *)
(* carry the thread that waits.  Once that thread has given up they carry  *)
(* a member of Strays instead, and the response is dropped on arrival.     *)
(***************************************************************************)
EXTENDS Integers, FiniteSets

CONSTANTS
    CPFs,          \* control-plane functions
    UPFs,          \* user-plane functions
    Workers,       \* threads of a CPF that run commands
    Timers,        \* guard timers of a CPF; how many is a bound of the model
    Strays,        \* bound on a CPF's requests in flight that nobody awaits;
                   \* {}: a thread gives up only once its message is lost
    MaxSessions,   \* bound on the sessions a CPF ever creates
    BasePdrs,      \* PDR ids installed by Session Establishment
    ExtraPdrs,     \* PDR ids that Session Modification adds
    AdminStates,   \* the user-plane-service states an operator sets
    FirstPeer,     \* FirstPeer[u]: the first CPF in the pfcp-peer-list of u
    Lossy,         \* may the network lose messages?
    MaxReports,    \* bound on the Session Reports in flight
    MaxRestarts,   \* bound on the restarts of UPFs
    None           \* Python's None

(* An SEID is the base of its CPF and a number drawn from a counter, so    *)
(* those of different CPFs differ (bases 0x1000 and 0x2000).               *)
Seids == CPFs \X (1 .. MaxSessions)

ASSUME SxAssumption ==
    /\ MaxSessions \in Nat /\ MaxReports \in Nat /\ MaxRestarts \in Nat
    /\ Workers \cap Timers = {} /\ (Workers \cup Timers) \cap Strays = {}
    /\ AdminStates \subseteq {"UP", "DOWN"}
    /\ FirstPeer \in [UPFs -> CPFs]
    /\ Lossy \in BOOLEAN
    /\ None \notin UPFs \cup Seids

Threads == Workers \cup Timers
Tags == Threads \cup Strays

Pdrs == BasePdrs \cup ExtraPdrs

VARIABLES
    cpAssoc,    \* the <<CPF, UPF>> with Peer.associated at the CPF
    cpStore,    \* the SEIDs in the stores of the CPFs
    cpSess,     \* the Session objects of the CPFs: they outlive their removal
    created,    \* created[c]: how many SEIDs c has drawn
    call,       \* call[c][t]: what thread t of c is doing
    upAssoc,    \* the <<CPF, UPF>> with Peer.associated at the UPF
    upSess,     \* upSess[u][s]: session s in the store of u, or NoSession
    teid,       \* teid[u]: how many F-TEIDs u has allocated
    admin,      \* admin[u]: the state of the user-plane-service of u
    requests, replies, updates, reports,    \* messages in flight
    restarts    \* restarts of UPFs so far

cpVars == <<cpAssoc, cpStore, cpSess, created>>
upVars == <<upAssoc, upSess, teid, admin, restarts>>
netVars == <<requests, replies, updates, reports>>
vars == <<cpVars, call, upVars, netVars>>

NoSession == [fteid |-> 0, pdrs |-> {}]
Installed(u, s) == upSess[u][s] # NoSession

(* A request: the procedure, the thread that waits, what it carries. *)
Ops == {"setup", "release", "establish", "modify", "delete"}
Request == [op : Ops, cpf : CPFs, upf : UPFs, seid : Seids \cup {None},
            pdrs : SUBSET Pdrs, tag : Tags]

(* A response: its cause and, when a session was established, the F-TEID.  *)
Causes == {"accepted", "unknown"}
Reply == [cpf : CPFs, upf : UPFs, tag : Tags, cause : Causes, fteid : Nat]

(* What a thread is doing: nothing, waiting for its guard interval to end  *)
(* ("armed"), or a procedure, whose answer it may not have yet.            *)
Idle == [op |-> "idle", upf |-> None, seid |-> None, answer |-> "pending", fteid |-> 0]
Armed(u) == [Idle EXCEPT !.op = "armed", !.upf = u]
Waiting(op, u, s) == [Idle EXCEPT !.op = op, !.upf = u, !.seid = s]

Init ==
    /\ cpAssoc = {}
    /\ cpStore = {}
    /\ cpSess = [s \in Seids |-> [upf |-> None, fteid |-> 0, pdrs |-> {}]]
    /\ created = [c \in CPFs |-> 0]
    /\ call = [c \in CPFs |-> [t \in Threads |-> Idle]]
    /\ upAssoc = {}
    /\ upSess = [u \in UPFs |-> [s \in Seids |-> NoSession]]
    /\ teid = [u \in UPFs |-> 0]
    /\ admin = [u \in UPFs |-> "UP"]
    /\ requests = {} /\ replies = {} /\ updates = {} /\ reports = {}
    /\ restarts = 0

---------------------------------------------------------------------------
(* The two halves of a blocking call. *)

(* CPF._send up to ev.wait: thread t of c sends a request and waits. *)
Call(c, t, op, u, s, pdrs) ==
    /\ requests' = requests \cup
           {[op |-> op, cpf |-> c, upf |-> u, seid |-> s, pdrs |-> pdrs, tag |-> t]}
    /\ call' = [call EXCEPT ![c][t] = Waiting(op, u, s)]
    /\ UNCHANGED <<replies, updates, reports>>

(* Thread t of c comes out of _send in procedure op and runs to its end.   *)
Returning(c, t, op) ==
    /\ call[c][t].op = op
    /\ call[c][t].answer # "pending"
    /\ call' = [call EXCEPT ![c][t] = Idle]
    /\ UNCHANGED <<upVars, netVars>>

Free(c, t) == call[c][t] = Idle

(* The sessions a CPF has with a UPF: s.up_fseid[1] == peer.ip. *)
SessionsWith(c, u) == {s \in cpStore : s[1] = c /\ cpSess[s].upf = u}

---------------------------------------------------------------------------
(* Procedures of a CPF. *)

(* association_setup, called for peers that are not associated. *)
StartSetup(c, t, u) ==
    /\ Free(c, t)
    /\ <<c, u>> \notin cpAssoc
    /\ Call(c, t, "setup", u, None, {})
    /\ UNCHANGED <<cpVars, upVars>>

EndSetup(c, t) ==
    /\ Returning(c, t, "setup")
    /\ cpAssoc' = IF call[c][t].answer = "accepted"
                  THEN cpAssoc \cup {<<c, call[c][t].upf>>} ELSE cpAssoc
    /\ UNCHANGED <<cpStore, cpSess, created>>

(* association_release: by the RELEASE command, for associated peers ... *)
StartRelease(c, t, u) ==
    /\ Free(c, t)
    /\ <<c, u>> \in cpAssoc
    /\ Call(c, t, "release", u, None, {})
    /\ UNCHANGED <<cpVars, upVars>>

(* Mutant: the timer releases only a peer that is still associated. *)
GuardExpiresIfAssociated(c, t) ==
    /\ call[c][t].op = "armed"
    /\ LET u == call[c][t].upf IN
        IF <<c, u>> \in cpAssoc
        THEN Call(c, t, "release", u, None, {})
        ELSE call' = [call EXCEPT ![c][t] = Idle] /\ UNCHANGED netVars
    /\ UNCHANGED <<cpVars, upVars>>

(* ... or by a guard timer when it expires, which checks nothing. *)
GuardExpires(c, t) ==
    /\ call[c][t].op = "armed"
    /\ Call(c, t, "release", call[c][t].upf, None, {})
    /\ UNCHANGED <<cpVars, upVars>>

(* Mutant: the sessions of the released peer stay in the store. *)
EndReleaseKeepsSessions(c, t) ==
    /\ Returning(c, t, "release")
    /\ cpAssoc' = cpAssoc \ {<<c, call[c][t].upf>>}
    /\ UNCHANGED <<cpStore, cpSess, created>>

(* Answered or not, the peer is no longer associated and its sessions go.  *)
EndRelease(c, t) ==
    /\ Returning(c, t, "release")
    /\ cpAssoc' = cpAssoc \ {<<c, call[c][t].upf>>}
    /\ cpStore' = cpStore \ SessionsWith(c, call[c][t].upf)
    /\ UNCHANGED <<cpSess, created>>

(* session_establish: the session is in the store, with its rules, before  *)
(* the UPF has heard of it; no association is needed.                      *)
StartEstablish(c, t, u) ==
    /\ Free(c, t)
    /\ created[c] < MaxSessions
    /\ created' = [created EXCEPT ![c] = @ + 1]
    /\ LET s == <<c, created[c] + 1>> IN
        /\ cpStore' = cpStore \cup {s}
        /\ cpSess' = [cpSess EXCEPT ![s] = [upf |-> u, fteid |-> 0, pdrs |-> BasePdrs]]
        /\ Call(c, t, "establish", u, s, BasePdrs)
    /\ UNCHANGED <<cpAssoc, upVars>>

(* The F-TEID is written to the Session object even if another thread has  *)
(* meanwhile removed it from the store.                                    *)
EndEstablish(c, t) ==
    /\ Returning(c, t, "establish")
    /\ LET k == call[c][t] IN
        IF k.answer = "accepted"
        THEN /\ cpSess' = [cpSess EXCEPT ![k.seid].fteid = k.fteid]
             /\ UNCHANGED cpStore
        ELSE /\ cpStore' = cpStore \ {k.seid}
             /\ UNCHANGED cpSess
    /\ UNCHANGED <<cpAssoc, created>>

(* Mutant: the CPF does not record the PDRs it asks for. *)
StartModifyUnrecorded(c, t, s, p) ==
    /\ Free(c, t)
    /\ s \in cpStore /\ s[1] = c
    /\ Call(c, t, "modify", cpSess[s].upf, s, {p})
    /\ UNCHANGED <<cpVars, upVars>>

(* session_modify adds PDRs to the CPF's copy before it asks the UPF, and  *)
(* does not take them back when the UPF refuses or says nothing.           *)
StartModify(c, t, s, p) ==
    /\ Free(c, t)
    /\ s \in cpStore /\ s[1] = c
    /\ cpSess' = [cpSess EXCEPT ![s].pdrs = @ \cup {p}]
    /\ Call(c, t, "modify", cpSess[s].upf, s, {p})
    /\ UNCHANGED <<cpAssoc, cpStore, created, upVars>>

EndModify(c, t) ==
    /\ Returning(c, t, "modify")
    /\ UNCHANGED cpVars

(* session_delete: the session leaves the store whatever the UPF says. *)
StartDelete(c, t, s) ==
    /\ Free(c, t)
    /\ s \in cpStore /\ s[1] = c
    /\ Call(c, t, "delete", cpSess[s].upf, s, {})
    /\ UNCHANGED <<cpVars, upVars>>

EndDelete(c, t) ==
    /\ Returning(c, t, "delete")
    /\ cpStore' = cpStore \ {call[c][t].seid}
    /\ UNCHANGED <<cpAssoc, cpSess, created>>

---------------------------------------------------------------------------
(* The PFCP receive thread of a CPF: handle. *)

(* A response is put in the slot of the thread that waits for it; one that *)
(* nobody waits for is dropped.                                            *)
ReceiveReply(m) ==
    /\ m \in replies
    /\ replies' = replies \ {m}
    /\ call' = IF m.tag \in Threads
               THEN [call EXCEPT ![m.cpf][m.tag] =
                        [@ EXCEPT !.answer = m.cause, !.fteid = m.fteid]]
               ELSE call
    /\ UNCHANGED <<cpVars, upVars, requests, updates, reports>>

(* _on_association_update: the sessions with the peer are forgotten at     *)
(* once, and if the peer is associated a guard timer is started that will  *)
(* release it.  What the update says of the user plane is not looked at.   *)
ReceiveUpdate(m) ==
    /\ m \in updates
    /\ updates' = updates \ {m}
    /\ cpStore' = cpStore \ SessionsWith(m.cpf, m.upf)
    /\ IF <<m.cpf, m.upf>> \in cpAssoc
       THEN \E t \in Timers : /\ Free(m.cpf, t)
                              /\ call' = [call EXCEPT ![m.cpf][t] = Armed(m.upf)]
       ELSE UNCHANGED call
    /\ UNCHANGED <<cpAssoc, cpSess, created, upVars, requests, replies, reports>>

(* _on_report only logs. *)
ReceiveReport(m) ==
    /\ m \in reports
    /\ reports' = reports \ {m}
    /\ UNCHANGED <<cpVars, call, upVars, requests, replies, updates>>

---------------------------------------------------------------------------
(* The PFCP receive thread of a UPF: handle answers every request. *)

Answer(m, cause, fteid) ==
    /\ m \in requests
    /\ requests' = requests \ {m}
    /\ replies' = replies \cup
           {[cpf |-> m.cpf, upf |-> m.upf, tag |-> m.tag, cause |-> cause, fteid |-> fteid]}
    /\ UNCHANGED <<cpVars, call, admin, restarts, updates, reports>>

ServeSetup(m) ==
    /\ m.op = "setup"
    /\ Answer(m, "accepted", 0)
    /\ upAssoc' = upAssoc \cup {<<m.cpf, m.upf>>}
    /\ UNCHANGED <<upSess, teid>>

(* Mutant: the association goes, the sessions stay. *)
ServeReleaseKeepsSessions(m) ==
    /\ m.op = "release"
    /\ Answer(m, "accepted", 0)
    /\ upAssoc' = upAssoc \ {<<m.cpf, m.upf>>}
    /\ UNCHANGED <<upSess, teid>>

(* Mutant: with the sessions gone the F-TEID pool starts afresh. *)
ServeReleaseResetsPool(m) ==
    /\ m.op = "release"
    /\ Answer(m, "accepted", 0)
    /\ upAssoc' = upAssoc \ {<<m.cpf, m.upf>>}
    /\ upSess' = [upSess EXCEPT ![m.upf] = [s \in Seids |-> NoSession]]
    /\ teid' = [teid EXCEPT ![m.upf] = 0]

(* _on_association_release removes every session of the UPF, whoever's. *)
ServeRelease(m) ==
    /\ m.op = "release"
    /\ Answer(m, "accepted", 0)
    /\ upAssoc' = upAssoc \ {<<m.cpf, m.upf>>}
    /\ upSess' = [upSess EXCEPT ![m.upf] = [s \in Seids |-> NoSession]]
    /\ UNCHANGED teid

(* Mutant: the F-TEID is drawn once for the rule and again for the answer. *)
ServeEstablishDrawsTwice(m) ==
    /\ m.op = "establish"
    /\ Answer(m, "accepted", teid[m.upf] + 2)
    /\ teid' = [teid EXCEPT ![m.upf] = @ + 2]
    /\ upSess' = [upSess EXCEPT
           ![m.upf][m.seid] = [fteid |-> teid[m.upf] + 1, pdrs |-> m.pdrs]]
    /\ UNCHANGED upAssoc

(* _on_session_establish allocates the uplink F-TEID and returns it. *)
ServeEstablish(m) ==
    /\ m.op = "establish"
    /\ Answer(m, "accepted", teid[m.upf] + 1)
    /\ teid' = [teid EXCEPT ![m.upf] = @ + 1]
    /\ upSess' = [upSess EXCEPT
           ![m.upf][m.seid] = [fteid |-> teid[m.upf] + 1, pdrs |-> m.pdrs]]
    /\ UNCHANGED upAssoc

(* Mutant: a session that is not there is modified all the same. *)
ServeModifyUnchecked(m) ==
    /\ m.op = "modify"
    /\ Answer(m, "accepted", 0)
    /\ upSess' = [upSess EXCEPT ![m.upf][m.seid].pdrs = @ \cup m.pdrs]
    /\ UNCHANGED <<upAssoc, teid>>

(* Mutant: the rules of the request replace the rules of the session. *)
ServeModifyReplaces(m) ==
    /\ m.op = "modify"
    /\ IF Installed(m.upf, m.seid)
       THEN /\ Answer(m, "accepted", 0)
            /\ upSess' = [upSess EXCEPT ![m.upf][m.seid].pdrs = m.pdrs]
       ELSE /\ Answer(m, "unknown", 0)
            /\ UNCHANGED upSess
    /\ UNCHANGED <<upAssoc, teid>>

(* _on_session_modify knows only sessions in its store. *)
ServeModify(m) ==
    /\ m.op = "modify"
    /\ IF Installed(m.upf, m.seid)
       THEN /\ Answer(m, "accepted", 0)
            /\ upSess' = [upSess EXCEPT ![m.upf][m.seid].pdrs = @ \cup m.pdrs]
       ELSE /\ Answer(m, "unknown", 0)
            /\ UNCHANGED upSess
    /\ UNCHANGED <<upAssoc, teid>>

(* _on_session_delete accepts the deletion of any SEID. *)
ServeDelete(m) ==
    /\ m.op = "delete"
    /\ Answer(m, "accepted", 0)
    /\ upSess' = [upSess EXCEPT ![m.upf][m.seid] = NoSession]
    /\ UNCHANGED <<upAssoc, teid>>

Serve(m) == ServeSetup(m) \/ ServeRelease(m) \/ ServeEstablish(m)
            \/ ServeModify(m) \/ ServeDelete(m)

(* set_admin_state tells every associated CPF, when the service goes down  *)
(* and when it comes up.  One change is in flight at a time (a bound).     *)
SetAdmin(u, state) ==
    /\ \A m \in updates : m.upf # u
    /\ admin' = [admin EXCEPT ![u] = state]
    /\ updates' = updates \cup
           {[cpf |-> c, upf |-> u, state |-> state] : c \in {d \in CPFs : <<d, u>> \in upAssoc}}
    /\ UNCHANGED <<cpVars, call, upAssoc, upSess, teid, restarts, requests, replies, reports>>

(* report looks its peer up by up_fseid, which is the UPF's own address,   *)
(* finds none, and falls back on the first peer it was given.              *)
Report(u, s) ==
    /\ Cardinality(reports) < MaxReports
    /\ reports' = reports \cup {[cpf |-> FirstPeer[u], upf |-> u, seid |-> s]}
    /\ UNCHANGED <<cpVars, call, upVars, requests, replies, updates>>

(* A UPF process dies and is started again: everything __init__ sets up    *)
(* is as new, and no CPF is told.                                          *)
Restart(u) ==
    /\ restarts < MaxRestarts
    /\ restarts' = restarts + 1
    /\ upAssoc' = {p \in upAssoc : p[2] # u}
    /\ upSess' = [upSess EXCEPT ![u] = [s \in Seids |-> NoSession]]
    /\ teid' = [teid EXCEPT ![u] = 0]
    /\ admin' = [admin EXCEPT ![u] = "UP"]
    /\ UNCHANGED <<cpVars, call, netVars>>

---------------------------------------------------------------------------
(* The network and the clock. *)

Lose ==
    /\ Lossy
    /\ \/ \E m \in requests : requests' = requests \ {m} /\ UNCHANGED <<replies, updates>>
       \/ \E m \in replies : replies' = replies \ {m} /\ UNCHANGED <<requests, updates>>
       \/ \E m \in updates : updates' = updates \ {m} /\ UNCHANGED <<requests, replies>>
    /\ UNCHANGED <<cpVars, call, upVars, reports>>

Mine(m, c, tag) == m.cpf = c /\ m.tag = tag
InFlight(c, tag) == \E m \in requests \cup replies : Mine(m, c, tag)

(* Mutant: the slot stays in the table when its thread gives up. *)
StillAwaited(M, c, t, x) == M

(* The messages of M, those of thread t of c now awaited by nobody.        *)
Disowned(M, c, t, x) ==
    {IF Mine(m, c, t) THEN [m EXCEPT !.tag = x] ELSE m : m \in M}

GiveUp(c, t) ==
    /\ call[c][t].op \in Ops
    /\ call[c][t].answer = "pending"
    /\ call' = [call EXCEPT ![c][t].answer = "timeout"]
    /\ UNCHANGED <<cpVars, upVars, updates, reports>>

(* ev.wait(3.0) ends without an answer: the request or the response was    *)
(* lost ...                                                                *)
TimeoutLost(c, t) ==
    /\ GiveUp(c, t)
    /\ ~ InFlight(c, t)
    /\ UNCHANGED <<requests, replies>>

(* ... or is still on its way and will arrive late. *)
TimeoutLate(c, t) ==
    /\ GiveUp(c, t)
    /\ InFlight(c, t)
    /\ \E x \in Strays :
        /\ ~ InFlight(c, x)
        /\ requests' = Disowned(requests, c, t, x)
        /\ replies' = Disowned(replies, c, t, x)

---------------------------------------------------------------------------
Start(c, t) ==
    \/ \E u \in UPFs : StartSetup(c, t, u) \/ StartRelease(c, t, u) \/ StartEstablish(c, t, u)
    \/ \E s \in Seids : \/ \E p \in ExtraPdrs : StartModify(c, t, s, p)
                        \/ StartDelete(c, t, s)

End(c, t) == EndSetup(c, t) \/ EndRelease(c, t) \/ EndEstablish(c, t)
             \/ EndModify(c, t) \/ EndDelete(c, t)

Timeout(c, t) == TimeoutLost(c, t) \/ TimeoutLate(c, t)

Next ==
    \/ \E c \in CPFs, t \in Workers : Start(c, t)
    \/ \E c \in CPFs, t \in Timers : GuardExpires(c, t)
    \/ \E c \in CPFs, t \in Threads : End(c, t) \/ Timeout(c, t)
    \/ \E m \in requests : Serve(m)
    \/ \E m \in replies : ReceiveReply(m)
    \/ \E m \in updates : ReceiveUpdate(m)
    \/ \E m \in reports : ReceiveReport(m)
    \/ \E u \in UPFs, a \in AdminStates : SetAdmin(u, a)
    \/ \E u \in UPFs, s \in Seids : Report(u, s)
    \/ \E u \in UPFs : Restart(u)
    \/ Lose

Spec == Init /\ [][Next]_vars

(* Receive loops keep reading sockets that hand out datagrams in the order *)
(* they came, threads that have an answer or no hope of one go on, guard   *)
(* timers expire.  Nothing makes an operator act, or the network lose.     *)
Fairness ==
    /\ \A c \in CPFs, t \in Threads : WF_vars(End(c, t)) /\ WF_vars(TimeoutLost(c, t))
    /\ \A c \in CPFs, t \in Timers : WF_vars(GuardExpires(c, t))
    /\ \A c \in CPFs, x \in Tags :
        /\ WF_vars(\E m \in requests : Mine(m, c, x) /\ Serve(m))
        /\ WF_vars(\E m \in replies : Mine(m, c, x) /\ ReceiveReply(m))
    /\ \A c \in CPFs : WF_vars(\E m \in updates : m.cpf = c /\ ReceiveUpdate(m))

FairSpec == Spec /\ Fairness

---------------------------------------------------------------------------
Answers == Causes \cup {"pending", "timeout"}

CallState == [op : Ops \cup {"idle", "armed"}, upf : UPFs \cup {None},
              seid : Seids \cup {None}, answer : Answers, fteid : Nat]
CpSession == [upf : UPFs \cup {None}, fteid : Nat, pdrs : SUBSET Pdrs]
UpSession == {NoSession} \cup [fteid : Nat \ {0}, pdrs : SUBSET Pdrs]
Update == [cpf : CPFs, upf : UPFs, state : {"UP", "DOWN"}]
ReportRequest == [cpf : CPFs, upf : UPFs, seid : Seids]

(* A thread that is not idle has a UPF to deal with. *)
CallsOK ==
    /\ call \in [CPFs -> [Threads -> CallState]]
    /\ \A c \in CPFs, t \in Threads : call[c][t].op # "idle" => call[c][t].upf \in UPFs

TypeOK ==
    /\ cpAssoc \subseteq CPFs \X UPFs
    /\ cpStore \subseteq Seids
    /\ cpSess \in [Seids -> CpSession]
    /\ \A s \in cpStore : cpSess[s].upf \in UPFs
    /\ created \in [CPFs -> 0 .. MaxSessions]
    /\ CallsOK
    /\ upAssoc \subseteq CPFs \X UPFs
    /\ upSess \in [UPFs -> [Seids -> UpSession]]
    /\ teid \in [UPFs -> Nat]
    /\ admin \in [UPFs -> {"UP", "DOWN"}]
    /\ requests \subseteq Request
    /\ replies \subseteq Reply
    /\ updates \subseteq Update
    /\ reports \subseteq ReportRequest
    /\ restarts \in 0 .. MaxRestarts

(* A session whose establishment has been confirmed to the CPF. *)
Confirmed(s) == s \in cpStore /\ cpSess[s].fteid # 0

(* The uplink F-TEID a CPF has learned for a session, and hands to the     *)
(* SGW-C or PGW-C for the user plane, is the one the UPF installed: across *)
(* lost and late messages, releases, and restarts of the UPF.              *)
FteidAgreement ==
    \A u \in UPFs, s \in Seids :
        Confirmed(s) /\ Installed(u, s) => cpSess[s].fteid = upSess[u][s].fteid

(* Two sessions on a UPF, of one CPF or of two that share it, never have   *)
(* the same F-TEID, nor do the CPFs believe so.                            *)
FteidExclusive ==
    \A s1, s2 \in Seids :
        s1 # s2 =>
            /\ Confirmed(s1) /\ Confirmed(s2) /\ cpSess[s1].upf = cpSess[s2].upf
                   => cpSess[s1].fteid # cpSess[s2].fteid
            /\ \A u \in UPFs : Installed(u, s1) /\ Installed(u, s2)
                   => upSess[u][s1].fteid # upSess[u][s2].fteid

(* A thread of the CPF of s is inside a procedure that takes s away.       *)
Leaving(s) ==
    \E t \in Threads :
        LET k == call[s[1]][t] IN
            \/ k.op = "delete" /\ k.seid = s
            \/ k.op = "release" /\ k.upf = cpSess[s].upf

(* A session a CPF counts as established exists on its UPF, unless it is   *)
(* just being deleted or released.                                         *)
NoGhost == \A s \in Seids : Confirmed(s) /\ ~ Leaving(s) => Installed(cpSess[s].upf, s)

(* A thread of the CPF of s has a procedure under way that is about s. *)
Busy(s) == \E t \in Threads : call[s[1]][t].seid = s

(* A session's release is on its way: told of by an update, or armed, or   *)
(* already requested.                                                      *)
ReleaseDue(s, u) ==
    \/ \E m \in updates : m.cpf = s[1] /\ m.upf = u
    \/ \E t \in Threads : call[s[1]][t].op \in {"armed", "release"} /\ call[s[1]][t].upf = u

(* A session on a UPF that its CPF no longer has is about to be released   *)
(* or is the subject of a procedure: none is left behind.                  *)
NoOrphan ==
    \A u \in UPFs, s \in Seids :
        Installed(u, s) /\ s \notin cpStore => Busy(s) \/ ReleaseDue(s, u)

(* Between procedures, both sides have the same rules for a session. *)
RulesAgree ==
    \A u \in UPFs, s \in Seids :
        s \in cpStore /\ Installed(u, s) /\ ~ Busy(s) => cpSess[s].pdrs = upSess[u][s].pdrs

(* A UPF never applies a rule to a session that the CPF's own copy does    *)
(* not show: the CPF records rules before it sends them and never takes    *)
(* them back, so a lost answer leaves it with too many, never too few.     *)
RulesKnown ==
    \A u \in UPFs, s \in Seids :
        Installed(u, s) => upSess[u][s].pdrs \subseteq cpSess[s].pdrs

(* Once an update has started a guard timer, no session on that UPF lives  *)
(* for ever: the sessions the CPF has forgotten are released at the UPF.   *)
GuardReleases ==
    \A c \in CPFs, u \in UPFs, s \in Seids :
        Installed(u, s) /\ (\E t \in Timers : call[c][t] = Armed(u)) ~> ~ Installed(u, s)

---------------------------------------------------------------------------
(* What comments of the code say and the code does not do. *)

(* "a UPF may be shared by multiple CPFs": what a CPF does to a UPF leaves *)
(* the sessions of the other CPFs there alone.                             *)
ReleaseSparesOthers ==
    [][\A m \in requests : ServeRelease(m) =>
          \A s \in Seids : s[1] # m.cpf => upSess'[m.upf][s] = upSess[m.upf][s]]_vars
=============================================================================
