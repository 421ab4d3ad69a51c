------------------------------ MODULE SxProofs ------------------------------
(***************************************************************************)
(* Proofs about Sx for any sets of CPFs, UPFs, threads and timers, any     *)
(* number of sessions, and any loss, delay and reordering: type            *)
(* correctness.                                                            *)
(***************************************************************************)
EXTENDS Sx, TLAPS

---------------------------------------------------------------------------
(* The types of what the steps build. *)

(* The states a thread is put in are states of a thread. *)
LEMMA CallTypes ==
    /\ Idle \in CallState /\ Idle.op = "idle" /\ Idle.seid = None
    /\ Idle.answer = "pending"
    /\ \A u \in UPFs :
          /\ Armed(u) \in CallState /\ Armed(u).op = "armed"
          /\ Armed(u).upf = u /\ Armed(u).seid = None
  <1>1. /\ Idle \in CallState /\ Idle.op = "idle" /\ Idle.seid = None
        /\ Idle.answer = "pending"
    BY DEF CallState, Idle, Answers
  <1>2. ASSUME NEW k \in CallState, NEW u \in UPFs
        PROVE  LET l == [k EXCEPT !.op = "armed", !.upf = u] IN
                   l \in CallState /\ l.op = "armed" /\ l.upf = u /\ l.seid = k.seid
    BY DEF CallState
  <1>3. ASSUME NEW u \in UPFs
        PROVE  /\ Armed(u) \in CallState /\ Armed(u).op = "armed"
               /\ Armed(u).upf = u /\ Armed(u).seid = None
    BY <1>1, <1>2 DEF Armed
  <1> QED BY <1>1, <1>3

(* So is the state of a thread whose answer has come or will not come. *)
LEMMA AnsweredTypes ==
  ASSUME NEW k \in CallState, NEW a \in Answers, NEW f \in Nat
  PROVE  /\ [k EXCEPT !.answer = a] \in CallState
         /\ [k EXCEPT !.answer = a, !.fteid = f] \in CallState
  BY DEF CallState

(* The changes the steps make to a session yield sessions. *)
LEMMA SessionTypes ==
    /\ \A k \in CpSession, f \in Nat : [k EXCEPT !.fteid = f] \in CpSession
    /\ \A k \in CpSession, p \in Pdrs : [k EXCEPT !.pdrs = k.pdrs \cup {p}] \in CpSession
    /\ \A u \in UPFs, P \in SUBSET Pdrs : [upf |-> u, fteid |-> 0, pdrs |-> P] \in CpSession
    /\ NoSession \in UpSession
    /\ \A f \in Nat, P \in SUBSET Pdrs : [fteid |-> f + 1, pdrs |-> P] \in UpSession
    /\ \A k \in UpSession, P \in SUBSET Pdrs :
          k # NoSession => [k EXCEPT !.pdrs = k.pdrs \cup P] \in UpSession
  BY DEF CpSession, UpSession, NoSession

(* Putting a thread in a state keeps the types of the threads. *)
LEMMA SetCallFits ==
  ASSUME CallsOK, NEW c \in CPFs, NEW t \in Threads, NEW k \in CallState,
         k.op = "idle" \/ k.upf \in UPFs, call' = [call EXCEPT ![c][t] = k]
  PROVE  CallsOK'
  BY DEF CallsOK

(* Sending a request keeps the types of the threads and of the messages. *)
LEMMA CallFits ==
  ASSUME TypeOK, NEW c \in CPFs, NEW t \in Threads, NEW op \in Ops, NEW u \in UPFs,
         NEW s \in Seids \cup {None}, NEW P \in SUBSET Pdrs, Call(c, t, op, u, s, P)
  PROVE  /\ CallsOK'
         /\ requests' \subseteq Request
         /\ UNCHANGED <<replies, updates, reports>>
  <1>1. Waiting(op, u, s) \in CallState /\ Waiting(op, u, s).upf = u
    <2>1. Idle \in CallState
      BY CallTypes
    <2>2. ASSUME NEW k \in CallState
          PROVE  /\ [k EXCEPT !.op = op, !.upf = u, !.seid = s] \in CallState
                 /\ [k EXCEPT !.op = op, !.upf = u, !.seid = s].upf = u
      BY DEF CallState
    <2> QED BY <2>1, <2>2 DEF Waiting
  <1>2. CallsOK'
    BY <1>1, SetCallFits DEF Call, TypeOK
  <1>3. [op |-> op, cpf |-> c, upf |-> u, seid |-> s, pdrs |-> P, tag |-> t] \in Request
    BY DEF Request, Tags
  <1> QED BY <1>2, <1>3 DEF Call, TypeOK

(* A thread that returns becomes idle and disturbs nothing else. *)
LEMMA ReturningFits ==
  ASSUME TypeOK, NEW c \in CPFs, NEW t \in Threads, NEW op \in Ops, Returning(c, t, op)
  PROVE  /\ CallsOK'
         /\ call[c][t] \in CallState /\ call[c][t].upf \in UPFs
         /\ UNCHANGED <<upAssoc, upSess, teid, admin, restarts,
                        requests, replies, updates, reports>>
  <1>1. CallsOK'
    BY CallTypes, SetCallFits DEF Returning, TypeOK
  <1>2. call[c][t] \in CallState /\ call[c][t].upf \in UPFs
    BY DEF Returning, TypeOK, CallsOK, Ops
  <1> QED BY <1>1, <1>2 DEF Returning, upVars, netVars

(* The UPF's answer keeps the types of the messages. *)
LEMMA AnswerFits ==
  ASSUME TypeOK, NEW m \in requests, NEW a \in Causes, NEW f \in Nat, Answer(m, a, f)
  PROVE  /\ m \in Request
         /\ requests' \subseteq Request
         /\ replies' \subseteq Reply
         /\ UNCHANGED <<cpAssoc, cpStore, cpSess, created, call, admin, restarts,
                        updates, reports>>
  <1>1. m \in Request
    BY DEF TypeOK
  <1>2. [cpf |-> m.cpf, upf |-> m.upf, tag |-> m.tag, cause |-> a, fteid |-> f] \in Reply
    BY <1>1 DEF Request, Reply
  <1> QED BY <1>1, <1>2 DEF Answer, TypeOK, cpVars

(* Giving up keeps the types of the threads. *)
LEMMA GiveUpFits ==
  ASSUME TypeOK, NEW c \in CPFs, NEW t \in Threads, GiveUp(c, t)
  PROVE  /\ CallsOK'
         /\ UNCHANGED <<cpAssoc, cpStore, cpSess, created, upAssoc, upSess, teid, admin,
                        restarts, updates, reports>>
  <1> DEFINE k == [call[c][t] EXCEPT !.answer = "timeout"]
  <1>1. call[c][t] \in CallState /\ call[c][t].upf \in UPFs
    BY DEF GiveUp, TypeOK, CallsOK, Ops
  <1>2. "timeout" \in Answers
    BY DEF Answers
  <1>3. k \in CallState
    BY <1>1, <1>2, AnsweredTypes
  <1>4. k.upf \in UPFs
    BY <1>1 DEF CallState
  <1>5. call' = [call EXCEPT ![c][t] = k]
    BY DEF GiveUp
  <1>6. CallsOK'
    BY <1>3, <1>4, <1>5, SetCallFits DEF TypeOK
  <1>7. UNCHANGED <<cpAssoc, cpStore, cpSess, created, upAssoc, upSess, teid, admin,
                    restarts, updates, reports>>
    BY DEF GiveUp, cpVars, upVars
  <1> QED BY <1>6, <1>7

(* Every variable keeps its type in every step. *)
LEMMA TypeStep == TypeOK /\ [Next]_vars => TypeOK'
  <1> SUFFICES ASSUME TypeOK, [Next]_vars PROVE TypeOK'
    OBVIOUS
  <1> USE SxAssumption
          DEF TypeOK, cpVars, upVars, netVars
  <1>1. ASSUME NEW c \in CPFs, NEW t \in Workers, NEW u \in UPFs, StartSetup(c, t, u)
        PROVE  TypeOK'
    BY <1>1, CallFits DEF StartSetup, Threads, Ops
  <1>2. ASSUME NEW c \in CPFs, NEW t \in Workers, NEW u \in UPFs, StartRelease(c, t, u)
        PROVE  TypeOK'
    BY <1>2, CallFits DEF StartRelease, Threads, Ops
  <1>3. ASSUME NEW c \in CPFs, NEW t \in Workers, NEW u \in UPFs, StartEstablish(c, t, u)
        PROVE  TypeOK'
    <2> DEFINE s == <<c, created[c] + 1>>
    <2>1. s \in Seids /\ created' \in [CPFs -> 0 .. MaxSessions]
      BY <1>3 DEF StartEstablish, Seids
    <2>2. BasePdrs \in SUBSET Pdrs
      BY DEF Pdrs
    <2>3. cpSess' \in [Seids -> CpSession]
      <3>1. [upf |-> u, fteid |-> 0, pdrs |-> BasePdrs] \in CpSession
        BY <2>2, SessionTypes
      <3> QED BY <1>3, <3>1 DEF StartEstablish
    <2>4. cpStore' \subseteq Seids
      BY <1>3, <2>1 DEF StartEstablish
    <2>5. Call(c, t, "establish", u, s, BasePdrs)
      BY <1>3 DEF StartEstablish
    <2>6. /\ CallsOK' /\ requests' \subseteq Request
          /\ UNCHANGED <<replies, updates, reports>>
      BY <2>1, <2>2, <2>5, CallFits DEF Threads, Ops
    <2> QED BY <1>3, <2>1, <2>3, <2>4, <2>6 DEF StartEstablish
  <1>4. ASSUME NEW c \in CPFs, NEW t \in Workers, NEW s \in Seids, NEW p \in ExtraPdrs,
               StartModify(c, t, s, p)
        PROVE  TypeOK'
    <2>1. p \in Pdrs /\ {p} \in SUBSET Pdrs
      BY DEF Pdrs
    <2>2. cpSess[s].upf \in UPFs
      BY <1>4 DEF StartModify
    <2>3. cpSess' \in [Seids -> CpSession]
      BY <1>4, <2>1, SessionTypes DEF StartModify
    <2>4. Call(c, t, "modify", cpSess[s].upf, s, {p})
      BY <1>4 DEF StartModify
    <2>5. /\ CallsOK' /\ requests' \subseteq Request
          /\ UNCHANGED <<replies, updates, reports>>
      BY <2>1, <2>2, <2>4, CallFits DEF Threads, Ops
    <2> QED BY <1>4, <2>3, <2>5 DEF StartModify
  <1>5. ASSUME NEW c \in CPFs, NEW t \in Workers, NEW s \in Seids, StartDelete(c, t, s)
        PROVE  TypeOK'
    <2>1. cpSess[s].upf \in UPFs /\ Call(c, t, "delete", cpSess[s].upf, s, {})
      BY <1>5 DEF StartDelete
    <2> QED BY <1>5, <2>1, CallFits DEF StartDelete, Threads, Ops
  <1>6. ASSUME NEW c \in CPFs, NEW t \in Timers, GuardExpires(c, t) PROVE TypeOK'
    <2>1. call[c][t].upf \in UPFs
      BY <1>6 DEF GuardExpires, CallsOK, Threads
    <2> QED BY <1>6, <2>1, CallFits DEF GuardExpires, Threads, Ops
  <1>7. ASSUME NEW c \in CPFs, NEW t \in Threads, EndSetup(c, t) PROVE TypeOK'
    BY <1>7, ReturningFits DEF EndSetup, Ops
  <1>8. ASSUME NEW c \in CPFs, NEW t \in Threads, EndRelease(c, t) PROVE TypeOK'
    BY <1>8, ReturningFits DEF EndRelease, Ops
  <1>9. ASSUME NEW c \in CPFs, NEW t \in Threads, EndEstablish(c, t) PROVE TypeOK'
    <2>1. /\ CallsOK' /\ call[c][t] \in CallState
          /\ UNCHANGED <<upAssoc, upSess, teid, admin, restarts,
                         requests, replies, updates, reports>>
      BY <1>9, ReturningFits DEF EndEstablish, Ops
    <2>2. call[c][t].fteid \in Nat
      BY <2>1 DEF CallState
    <2>3. /\ cpSess' \in [Seids -> CpSession]
          /\ \A s \in Seids : cpSess'[s].upf = cpSess[s].upf
      <3> DEFINE k == call[c][t]
      <3>1. CASE k.answer = "accepted" /\ k.seid \in Seids
        <4>1. cpSess' = [cpSess EXCEPT ![k.seid] = [cpSess[k.seid] EXCEPT !.fteid = k.fteid]]
          BY <1>9, <3>1 DEF EndEstablish
        <4>2. [cpSess[k.seid] EXCEPT !.fteid = k.fteid] \in CpSession
          BY <2>2, <3>1, SessionTypes
        <4>3. [cpSess[k.seid] EXCEPT !.fteid = k.fteid].upf = cpSess[k.seid].upf
          BY <3>1 DEF CpSession
        <4> QED BY <3>1, <4>1, <4>2, <4>3
      <3>2. CASE k.answer = "accepted" /\ k.seid \notin Seids
        BY <1>9, <3>2 DEF EndEstablish
      <3>3. CASE k.answer # "accepted"
        BY <1>9, <3>3 DEF EndEstablish
      <3> QED BY <3>1, <3>2, <3>3
    <2> QED BY <1>9, <2>1, <2>3 DEF EndEstablish
  <1>10. ASSUME NEW c \in CPFs, NEW t \in Threads, EndModify(c, t) PROVE TypeOK'
    BY <1>10, ReturningFits DEF EndModify, Ops
  <1>11. ASSUME NEW c \in CPFs, NEW t \in Threads, EndDelete(c, t) PROVE TypeOK'
    BY <1>11, ReturningFits DEF EndDelete, Ops
  <1>12. ASSUME NEW c \in CPFs, NEW t \in Threads, TimeoutLost(c, t) PROVE TypeOK'
    BY <1>12, GiveUpFits DEF TimeoutLost
  <1>13. ASSUME NEW c \in CPFs, NEW t \in Threads, TimeoutLate(c, t) PROVE TypeOK'
    <2>1. \A m \in Request, x \in Strays : [m EXCEPT !.tag = x] \in Request
      BY DEF Request, Tags
    <2>2. \A m \in Reply, x \in Strays : [m EXCEPT !.tag = x] \in Reply
      BY DEF Reply, Tags
    <2>3. requests' \subseteq Request /\ replies' \subseteq Reply
      BY <1>13, <2>1, <2>2 DEF TimeoutLate, Disowned
    <2> QED BY <1>13, <2>3, GiveUpFits DEF TimeoutLate
  <1>14. ASSUME NEW m \in requests, ServeSetup(m) PROVE TypeOK'
    <2>1. /\ m \in Request /\ requests' \subseteq Request /\ replies' \subseteq Reply
          /\ UNCHANGED <<cpAssoc, cpStore, cpSess, created, call, admin, restarts,
                         updates, reports>>
      BY <1>14, AnswerFits DEF ServeSetup, Causes
    <2>2. m.cpf \in CPFs /\ m.upf \in UPFs
      BY <2>1 DEF Request
    <2> QED BY <1>14, <2>1, <2>2 DEF ServeSetup, CallsOK
  <1>15. ASSUME NEW m \in requests, ServeRelease(m) PROVE TypeOK'
    <2>1. /\ m \in Request /\ requests' \subseteq Request /\ replies' \subseteq Reply
          /\ UNCHANGED <<cpAssoc, cpStore, cpSess, created, call, admin, restarts,
                         updates, reports>>
      BY <1>15, AnswerFits DEF ServeRelease, Causes
    <2>2. m.upf \in UPFs
      BY <2>1 DEF Request
    <2> QED BY <1>15, <2>1, <2>2, SessionTypes DEF ServeRelease, CallsOK
  <1>16. ASSUME NEW m \in requests, ServeEstablish(m) PROVE TypeOK'
    <2>1. m \in Request
      OBVIOUS
    <2>2. m.upf \in UPFs /\ m.pdrs \in SUBSET Pdrs
      BY <2>1 DEF Request
    <2>3. teid[m.upf] \in Nat
      BY <2>2
    <2>4. /\ requests' \subseteq Request /\ replies' \subseteq Reply
          /\ UNCHANGED <<cpAssoc, cpStore, cpSess, created, call, admin, restarts,
                         updates, reports>>
      <3>1. teid[m.upf] + 1 \in Nat /\ "accepted" \in Causes
        BY <2>3 DEF Causes
      <3>2. Answer(m, "accepted", teid[m.upf] + 1)
        BY <1>16 DEF ServeEstablish
      <3> QED BY <3>1, <3>2, AnswerFits
    <2>5. [fteid |-> teid[m.upf] + 1, pdrs |-> m.pdrs] \in UpSession
      BY <2>2, <2>3, SessionTypes
    <2>6. upSess' \in [UPFs -> [Seids -> UpSession]] /\ teid' \in [UPFs -> Nat]
      <3>1. teid' \in [UPFs -> Nat]
        BY <1>16, <2>2, <2>3 DEF ServeEstablish
      <3>2. upSess' = [upSess EXCEPT ![m.upf] = [upSess[m.upf] EXCEPT
                ![m.seid] = [fteid |-> teid[m.upf] + 1, pdrs |-> m.pdrs]]]
        BY <1>16 DEF ServeEstablish
      <3>3. [upSess[m.upf] EXCEPT ![m.seid] = [fteid |-> teid[m.upf] + 1, pdrs |-> m.pdrs]]
                \in [Seids -> UpSession]
        BY <2>2, <2>5
      <3> QED BY <2>2, <3>1, <3>2, <3>3
    <2> QED BY <1>16, <2>4, <2>6 DEF ServeEstablish, CallsOK
  <1>17. ASSUME NEW m \in requests, ServeModify(m) PROVE TypeOK'
    <2>1. /\ m \in Request /\ requests' \subseteq Request /\ replies' \subseteq Reply
          /\ UNCHANGED <<cpAssoc, cpStore, cpSess, created, call, admin, restarts,
                         updates, reports>>
      BY <1>17, AnswerFits DEF ServeModify, Causes
    <2>2. m.upf \in UPFs /\ m.pdrs \in SUBSET Pdrs
      BY <2>1 DEF Request
    <2>3. upSess' \in [UPFs -> [Seids -> UpSession]]
      <3> DEFINE k == [upSess[m.upf][m.seid] EXCEPT
                           !.pdrs = upSess[m.upf][m.seid].pdrs \cup m.pdrs]
      <3>1. CASE Installed(m.upf, m.seid) /\ m.seid \in Seids
        <4>1. k \in UpSession
          <5>1. upSess[m.upf][m.seid] \in UpSession
            BY <2>2, <3>1
          <5>2. upSess[m.upf][m.seid] # NoSession
            BY <3>1 DEF Installed
          <5> QED BY <2>2, <5>1, <5>2, SessionTypes
        <4>2. upSess' = [upSess EXCEPT ![m.upf] = [upSess[m.upf] EXCEPT ![m.seid] = k]]
          BY <1>17, <3>1 DEF ServeModify
        <4>3. [upSess[m.upf] EXCEPT ![m.seid] = k] \in [Seids -> UpSession]
          BY <2>2, <4>1
        <4> QED BY <2>2, <4>2, <4>3
      <3>2. CASE Installed(m.upf, m.seid) /\ m.seid \notin Seids
        <4>1. upSess' = [upSess EXCEPT ![m.upf] = [upSess[m.upf] EXCEPT ![m.seid] = k]]
          BY <1>17, <3>2 DEF ServeModify
        <4>2. [upSess[m.upf] EXCEPT ![m.seid] = k] = upSess[m.upf]
          BY <2>2, <3>2
        <4> QED BY <2>2, <4>1, <4>2
      <3>3. CASE ~ Installed(m.upf, m.seid)
        BY <1>17, <3>3 DEF ServeModify
      <3> QED BY <3>1, <3>2, <3>3
    <2> QED BY <1>17, <2>1, <2>3 DEF ServeModify, CallsOK
  <1>18. ASSUME NEW m \in requests, ServeDelete(m) PROVE TypeOK'
    <2>1. /\ m \in Request /\ requests' \subseteq Request /\ replies' \subseteq Reply
          /\ UNCHANGED <<cpAssoc, cpStore, cpSess, created, call, admin, restarts,
                         updates, reports>>
      BY <1>18, AnswerFits DEF ServeDelete, Causes
    <2>2. upSess' \in [UPFs -> [Seids -> UpSession]]
      BY <1>18, SessionTypes DEF ServeDelete
    <2> QED BY <1>18, <2>1, <2>2 DEF ServeDelete, CallsOK
  <1>19. ASSUME NEW m \in replies, ReceiveReply(m) PROVE TypeOK'
    <2>1. m \in Reply /\ replies' \subseteq Reply
      BY <1>19 DEF ReceiveReply
    <2>2. m.cpf \in CPFs /\ m.cause \in Answers /\ m.fteid \in Nat
      BY <2>1 DEF Reply, Answers
    <2>3. CallsOK'
      <3>1. CASE m.tag \in Threads
        <4> DEFINE k == call[m.cpf][m.tag]
                   l == [k EXCEPT !.answer = m.cause, !.fteid = m.fteid]
        <4>1. k \in CallState /\ (k.op = "idle" \/ k.upf \in UPFs)
          BY <2>2, <3>1 DEF CallsOK
        <4>2. l \in CallState
          BY <2>2, <4>1, AnsweredTypes
        <4>3. l.op = k.op /\ l.upf = k.upf
          BY <4>1 DEF CallState
        <4>4. call' = [call EXCEPT ![m.cpf][m.tag] = l]
          BY <1>19, <3>1 DEF ReceiveReply
        <4> QED BY <2>2, <3>1, <4>1, <4>2, <4>3, <4>4, SetCallFits
      <3>2. CASE m.tag \notin Threads
        BY <1>19, <3>2 DEF ReceiveReply, CallsOK
      <3> QED BY <3>1, <3>2
    <2> QED BY <1>19, <2>1, <2>3 DEF ReceiveReply
  <1>20. ASSUME NEW m \in updates, ReceiveUpdate(m) PROVE TypeOK'
    <2>1. m.cpf \in CPFs /\ m.upf \in UPFs
      BY DEF Update
    <2>2. CallsOK'
      <3>1. CASE <<m.cpf, m.upf>> \in cpAssoc
        <4>1. PICK t \in Timers : call' = [call EXCEPT ![m.cpf][t] = Armed(m.upf)]
          BY <1>20, <3>1 DEF ReceiveUpdate
        <4>2. Armed(m.upf) \in CallState /\ Armed(m.upf).upf = m.upf
          BY <2>1, CallTypes
        <4>3. t \in Threads
          BY DEF Threads
        <4> QED BY <2>1, <4>1, <4>2, <4>3, SetCallFits
      <3>2. CASE <<m.cpf, m.upf>> \notin cpAssoc
        BY <1>20, <3>2 DEF ReceiveUpdate, CallsOK
      <3> QED BY <3>1, <3>2
    <2> QED BY <1>20, <2>2 DEF ReceiveUpdate
  <1>21. ASSUME NEW m \in reports, ReceiveReport(m) PROVE TypeOK'
    BY <1>21 DEF ReceiveReport, CallsOK
  <1>22. ASSUME NEW u \in UPFs, NEW a \in AdminStates, SetAdmin(u, a) PROVE TypeOK'
    <2>1. updates' \subseteq Update
      <3>1. a \in {"UP", "DOWN"}
        OBVIOUS
      <3>2. \A c \in CPFs : [cpf |-> c, upf |-> u, state |-> a] \in Update
        BY <3>1 DEF Update
      <3> DEFINE D == {d \in CPFs : <<d, u>> \in upAssoc}
      <3>3. updates' = updates \cup {[cpf |-> c, upf |-> u, state |-> a] : c \in D}
        BY <1>22 DEF SetAdmin
      <3>4. {[cpf |-> c, upf |-> u, state |-> a] : c \in D} \subseteq Update
        BY <3>2, ZenonT(30)
      <3> HIDE DEF D
      <3> QED BY <3>3, <3>4
    <2>2. admin' \in [UPFs -> {"UP", "DOWN"}]
      BY <1>22 DEF SetAdmin
    <2> QED BY <1>22, <2>1, <2>2 DEF SetAdmin, CallsOK
  <1>23. ASSUME NEW u \in UPFs, NEW s \in Seids, Report(u, s) PROVE TypeOK'
    <2>1. reports' \subseteq ReportRequest
      BY <1>23 DEF Report, ReportRequest
    <2> QED BY <1>23, <2>1 DEF Report, CallsOK
  <1>24. ASSUME NEW u \in UPFs, Restart(u) PROVE TypeOK'
    <2>1. upSess' \in [UPFs -> [Seids -> UpSession]]
      BY <1>24, SessionTypes DEF Restart
    <2>2. /\ teid' \in [UPFs -> Nat] /\ admin' \in [UPFs -> {"UP", "DOWN"}]
          /\ restarts' \in 0 .. MaxRestarts /\ upAssoc' \subseteq CPFs \X UPFs
      BY <1>24 DEF Restart
    <2> QED BY <1>24, <2>1, <2>2 DEF Restart, CallsOK
  <1>25. ASSUME Lose PROVE TypeOK'
    BY <1>25 DEF Lose, CallsOK
  <1>26. CASE UNCHANGED vars
    BY <1>26 DEF vars, CallsOK
  <1> QED
    BY <1>1, <1>2, <1>3, <1>4, <1>5, <1>6, <1>7, <1>8, <1>9, <1>10, <1>11, <1>12,
       <1>13, <1>14, <1>15, <1>16, <1>17, <1>18, <1>19, <1>20, <1>21, <1>22, <1>23,
       <1>24, <1>25, <1>26 DEF Next, Start, End, Timeout, Serve

(* The initial state has the types. *)
LEMMA InitTypeOK == Init => TypeOK
  <1> SUFFICES ASSUME Init PROVE TypeOK
    OBVIOUS
  <1> USE SxAssumption
  <1>1. CallsOK
    BY CallTypes DEF Init, CallsOK
  <1>2. [upf |-> None, fteid |-> 0, pdrs |-> {}] \in CpSession
    BY DEF CpSession
  <1>3. cpSess \in [Seids -> CpSession]
    BY <1>2 DEF Init
  <1>4. upSess \in [UPFs -> [Seids -> UpSession]]
    BY SessionTypes DEF Init
  <1>5. /\ created \in [CPFs -> 0 .. MaxSessions] /\ restarts \in 0 .. MaxRestarts
        /\ teid \in [UPFs -> Nat] /\ admin \in [UPFs -> {"UP", "DOWN"}]
    BY DEF Init
  <1>6. cpAssoc = {} /\ cpStore = {} /\ upAssoc = {}
    BY DEF Init
  <1>7. requests = {} /\ replies = {} /\ updates = {} /\ reports = {}
    BY DEF Init
  <1> QED BY <1>1, <1>3, <1>4, <1>5, <1>6, <1>7 DEF TypeOK

(* Every variable always has its type: whatever is lost, late or restarted, *)
(* a session in a CPF's store belongs to a UPF, a thread that is not idle   *)
(* deals with one, and an installed session has an F-TEID.                  *)
THEOREM TypeCorrect == Spec => []TypeOK
  BY InitTypeOK, TypeStep, PTL DEF Spec

=============================================================================
