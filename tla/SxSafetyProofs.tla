--------------------------- MODULE SxSafetyProofs ---------------------------
(***************************************************************************)
(* Proofs of the safety invariants of Sx by the inductive invariants of    *)
(* SxInvariants.                                                           *)
(***************************************************************************)
EXTENDS SxInvariants, SxProofs

---------------------------------------------------------------------------
(* What the halves of a call do to threads and messages, field by field. *)

(* Sending: one thread waits, one request is added. *)
LEMMA Sent ==
  ASSUME TypeOK, NEW c \in CPFs, NEW t \in Threads, NEW op \in Ops, NEW u \in UPFs,
         NEW s \in Seids \cup {None}, NEW P \in SUBSET Pdrs, Call(c, t, op, u, s, P)
  PROVE  /\ call'[c][t].op = op /\ call'[c][t].upf = u /\ call'[c][t].seid = s
         /\ call'[c][t].answer = "pending"
         /\ \A d \in CPFs, x \in Threads : d # c \/ x # t => call'[d][x] = call[d][x]
         /\ replies' = replies /\ updates' = updates
         /\ \E r \in Request :
               /\ r.op = op /\ r.cpf = c /\ r.upf = u /\ r.seid = s /\ r.pdrs = P /\ r.tag = t
               /\ requests' = requests \cup {r}
  <1> DEFINE r == [op |-> op, cpf |-> c, upf |-> u, seid |-> s, pdrs |-> P, tag |-> t]
  <1>1. /\ r \in Request /\ r.op = op /\ r.cpf = c /\ r.upf = u /\ r.seid = s
        /\ r.pdrs = P /\ r.tag = t
    BY DEF Request, Tags
  <1>2. requests' = requests \cup {r} /\ replies' = replies /\ updates' = updates
    BY DEF Call
  <1>3. call' = [call EXCEPT ![c][t] = Waiting(op, u, s)]
    BY DEF Call
  <1>4. CallsOK
    BY DEF TypeOK
  <1> DEFINE k == Waiting(op, u, s)
  <1>5. /\ k \in CallState
        /\ k.op = op /\ k.upf = u /\ k.seid = s /\ k.answer = "pending"
    <2>1. Idle \in CallState /\ Idle.answer = "pending"
      BY CallTypes
    <2>2. ASSUME NEW i \in CallState
          PROVE  LET l == [i EXCEPT !.op = op, !.upf = u, !.seid = s] IN
                     /\ l \in CallState
                     /\ l.op = op /\ l.upf = u /\ l.seid = s /\ l.answer = i.answer
      BY DEF CallState
    <2> QED BY <2>1, <2>2 DEF Waiting
  <1>6. call' = [call EXCEPT ![c][t] = k]
    BY <1>3
  <1> HIDE DEF k
  <1>7. /\ call'[c][t] = k
        /\ \A d \in CPFs, x \in Threads : d # c \/ x # t => call'[d][x] = call[d][x]
    BY <1>4, <1>5, <1>6 DEF CallsOK
  <1>8. /\ call'[c][t].op = op /\ call'[c][t].upf = u /\ call'[c][t].seid = s
        /\ call'[c][t].answer = "pending"
    BY <1>7, <1>5
  <1> HIDE DEF r
  <1> QED BY <1>1, <1>2, <1>7, <1>8

(* Answering: one request is replaced by one response. *)
LEMMA Answered ==
  ASSUME TypeOK, NEW m \in requests, NEW a \in Causes, NEW f \in Nat, Answer(m, a, f)
  PROVE  /\ requests' = requests \ {m} /\ call' = call
         /\ cpStore' = cpStore /\ cpSess' = cpSess /\ created' = created
         /\ \E r \in Reply :
               /\ r.cpf = m.cpf /\ r.upf = m.upf /\ r.tag = m.tag /\ r.cause = a /\ r.fteid = f
               /\ replies' = replies \cup {r}
  <1> DEFINE r == [cpf |-> m.cpf, upf |-> m.upf, tag |-> m.tag, cause |-> a, fteid |-> f]
  <1>1. m \in Request
    BY DEF TypeOK
  <1>2. /\ r \in Reply /\ r.cpf = m.cpf /\ r.upf = m.upf /\ r.tag = m.tag /\ r.cause = a
        /\ r.fteid = f
    BY <1>1 DEF Request, Reply
  <1>3. replies' = replies \cup {r}
    BY DEF Answer
  <1> QED BY <1>2, <1>3 DEF Answer, cpVars

(* Returning: one thread becomes idle. *)
LEMMA Returned ==
  ASSUME TypeOK, NEW c \in CPFs, NEW t \in Threads, NEW op, Returning(c, t, op)
  PROVE  /\ call[c][t].op = op /\ call[c][t].answer # "pending" /\ call'[c][t] = Idle
         /\ \A d \in CPFs, x \in Threads : d # c \/ x # t => call'[d][x] = call[d][x]
         /\ requests' = requests /\ replies' = replies /\ updates' = updates
         /\ upSess' = upSess /\ teid' = teid
  <1>1. CallsOK /\ Idle \in CallState
    BY CallTypes DEF TypeOK
  <1>2. call' = [call EXCEPT ![c][t] = Idle]
    BY DEF Returning
  <1>3. /\ call'[c][t] = Idle
        /\ \A d \in CPFs, x \in Threads : d # c \/ x # t => call'[d][x] = call[d][x]
    BY <1>1, <1>2 DEF CallsOK
  <1> QED BY <1>3 DEF Returning, upVars, netVars

(* Receiving: the response is taken in by the thread that waits, if any. *)
LEMMA Received ==
  ASSUME TypeOK, NEW m \in replies, ReceiveReply(m)
  PROVE  /\ replies' = replies \ {m} /\ requests' = requests
         /\ cpStore' = cpStore /\ cpSess' = cpSess /\ created' = created
         /\ upSess' = upSess /\ teid' = teid /\ updates' = updates
         /\ m \in Reply
         /\ \A d \in CPFs, x \in Threads : d # m.cpf \/ x # m.tag => call'[d][x] = call[d][x]
         /\ m.tag \in Threads =>
               LET k == call[m.cpf][m.tag]
                   l == call'[m.cpf][m.tag] IN
               /\ l.op = k.op /\ l.upf = k.upf /\ l.seid = k.seid
               /\ l.answer = m.cause /\ l.fteid = m.fteid
  <1>1. m \in Reply
    BY DEF TypeOK
  <1>2. m.cpf \in CPFs
    BY <1>1 DEF Reply
  <1>3. /\ replies' = replies \ {m} /\ requests' = requests
        /\ cpStore' = cpStore /\ cpSess' = cpSess /\ created' = created
        /\ upSess' = upSess /\ teid' = teid /\ updates' = updates
    BY DEF ReceiveReply, cpVars, upVars
  <1>4. CASE m.tag \in Threads
    <2> DEFINE k == call[m.cpf][m.tag]
               l == [k EXCEPT !.answer = m.cause, !.fteid = m.fteid]
    <2>1. call' = [call EXCEPT ![m.cpf][m.tag] = l]
      BY <1>4 DEF ReceiveReply
    <2>2. k \in CallState
      BY <1>2, <1>4 DEF TypeOK, CallsOK
    <2>3. /\ l.op = k.op /\ l.upf = k.upf /\ l.seid = k.seid
          /\ l.answer = m.cause /\ l.fteid = m.fteid
      BY <2>2 DEF CallState
    <2>6. l \in CallState
      BY <1>1, <2>2, AnsweredTypes DEF Reply, Answers
    <2> HIDE DEF l
    <2>4. CallsOK
      BY DEF TypeOK
    <2>5. /\ call'[m.cpf][m.tag] = l
          /\ \A d \in CPFs, x \in Threads : d # m.cpf \/ x # m.tag => call'[d][x] = call[d][x]
      BY <1>2, <1>4, <2>1, <2>4, <2>6 DEF CallsOK
    <2> QED BY <1>1, <1>3, <2>3, <2>5
  <1>5. CASE m.tag \notin Threads
    BY <1>1, <1>3, <1>5 DEF ReceiveReply
  <1> QED BY <1>4, <1>5

(* Arming: an idle timer may be armed. *)
LEMMA Updated ==
  ASSUME TypeOK, NEW m \in updates, ReceiveUpdate(m)
  PROVE  /\ requests' = requests /\ replies' = replies /\ updates' = updates \ {m}
         /\ cpStore' = cpStore \ SessionsWith(m.cpf, m.upf)
         /\ cpSess' = cpSess /\ created' = created /\ upSess' = upSess /\ teid' = teid
         /\ \/ call' = call
            \/ \E c \in CPFs, t \in Timers :
                  /\ call[c][t] = Idle
                  /\ call'[c][t].op = "armed" /\ call'[c][t].seid = None
                  /\ \A d \in CPFs, x \in Threads :
                        d # c \/ x # t => call'[d][x] = call[d][x]
  <1>1. m.cpf \in CPFs /\ m.upf \in UPFs
    BY DEF TypeOK, Update
  <1>2. /\ requests' = requests /\ replies' = replies /\ updates' = updates \ {m}
        /\ cpStore' = cpStore \ SessionsWith(m.cpf, m.upf)
        /\ cpSess' = cpSess /\ created' = created /\ upSess' = upSess /\ teid' = teid
    BY DEF ReceiveUpdate, upVars
  <1>3. CASE <<m.cpf, m.upf>> \in cpAssoc
    <2>1. PICK t \in Timers : /\ call[m.cpf][t] = Idle
                              /\ call' = [call EXCEPT ![m.cpf][t] = Armed(m.upf)]
      BY <1>3 DEF ReceiveUpdate, Free
    <2>2. t \in Threads /\ CallsOK
      BY DEF Threads, TypeOK
    <2>3. /\ Armed(m.upf) \in CallState
          /\ Armed(m.upf).op = "armed" /\ Armed(m.upf).seid = None
      BY <1>1, CallTypes
    <2>4. /\ call'[m.cpf][t] = Armed(m.upf)
          /\ \A d \in CPFs, x \in Threads :
                d # m.cpf \/ x # t => call'[d][x] = call[d][x]
      BY <1>1, <2>1, <2>2, <2>3 DEF CallsOK
    <2> QED BY <1>1, <1>2, <2>1, <2>3, <2>4
  <1>4. CASE <<m.cpf, m.upf>> \notin cpAssoc
    BY <1>2, <1>4 DEF ReceiveUpdate
  <1> QED BY <1>3, <1>4

(* Giving up: one thread has its answer, a time-out. *)
LEMMA GaveUp ==
  ASSUME TypeOK, NEW c \in CPFs, NEW t \in Threads, GiveUp(c, t)
  PROVE  /\ call[c][t].op \in Ops /\ call[c][t].answer = "pending"
         /\ LET k == call[c][t]
                l == call'[c][t] IN
            l.op = k.op /\ l.upf = k.upf /\ l.seid = k.seid /\ l.answer = "timeout"
         /\ \A d \in CPFs, x \in Threads : d # c \/ x # t => call'[d][x] = call[d][x]
         /\ cpStore' = cpStore /\ cpSess' = cpSess /\ created' = created
         /\ upSess' = upSess /\ teid' = teid /\ updates' = updates
  <1> DEFINE k == call[c][t]
             l == [k EXCEPT !.answer = "timeout"]
  <1>1. call' = [call EXCEPT ![c][t] = l]
    BY DEF GiveUp
  <1>2. k \in CallState /\ CallsOK
    BY DEF TypeOK, CallsOK
  <1>3. l.op = k.op /\ l.upf = k.upf /\ l.seid = k.seid /\ l.answer = "timeout"
    BY <1>2 DEF CallState
  <1>4. /\ k.op \in Ops /\ k.answer = "pending"
        /\ cpStore' = cpStore /\ cpSess' = cpSess /\ created' = created
        /\ upSess' = upSess /\ teid' = teid /\ updates' = updates
    BY DEF GiveUp, cpVars, upVars
  <1>6. l \in CallState
    BY <1>2, AnsweredTypes DEF Answers
  <1> HIDE DEF l
  <1>5. /\ call'[c][t] = l
        /\ \A d \in CPFs, x \in Threads : d # c \/ x # t => call'[d][x] = call[d][x]
    BY <1>1, <1>2, <1>6 DEF CallsOK
  <1> QED BY <1>3, <1>4, <1>5

(* A message that is disowned changes its tag and nothing else. *)
LEMMA DisownedFields ==
  ASSUME TypeOK, NEW c \in CPFs, NEW t \in Threads, NEW x \in Strays
  PROVE  /\ \A m \in Disowned(requests, c, t, x) : \E n \in requests :
               /\ Mine(n, c, t) => m = [n EXCEPT !.tag = x] /\ m.tag = x
               /\ ~ Mine(n, c, t) => m = n
               /\ m.op = n.op /\ m.cpf = n.cpf /\ m.upf = n.upf /\ m.seid = n.seid
               /\ m.pdrs = n.pdrs
         /\ \A m \in Disowned(replies, c, t, x) : \E n \in replies :
               /\ Mine(n, c, t) => m = [n EXCEPT !.tag = x] /\ m.tag = x
               /\ ~ Mine(n, c, t) => m = n
               /\ m.cpf = n.cpf /\ m.upf = n.upf /\ m.cause = n.cause /\ m.fteid = n.fteid
  <1>1. ASSUME NEW n \in Request, NEW m, m = [n EXCEPT !.tag = x]
        PROVE  /\ m.tag = x /\ m.op = n.op /\ m.cpf = n.cpf /\ m.upf = n.upf
               /\ m.seid = n.seid /\ m.pdrs = n.pdrs
    BY <1>1 DEF Request
  <1>2. ASSUME NEW n \in Reply, NEW m, m = [n EXCEPT !.tag = x]
        PROVE  /\ m.tag = x /\ m.cpf = n.cpf /\ m.upf = n.upf
               /\ m.cause = n.cause /\ m.fteid = n.fteid
    BY <1>2 DEF Reply
  <1>3. requests \subseteq Request /\ replies \subseteq Reply
    BY DEF TypeOK
  <1>4. ASSUME NEW m \in Disowned(requests, c, t, x)
        PROVE  \E n \in requests :
               /\ Mine(n, c, t) => m = [n EXCEPT !.tag = x] /\ m.tag = x
               /\ ~ Mine(n, c, t) => m = n
               /\ m.op = n.op /\ m.cpf = n.cpf /\ m.upf = n.upf /\ m.seid = n.seid
               /\ m.pdrs = n.pdrs
    <2>1. PICK n \in requests : m = IF Mine(n, c, t) THEN [n EXCEPT !.tag = x] ELSE n
      BY <1>4 DEF Disowned
    <2> QED BY <1>1, <1>3, <2>1
  <1>5. ASSUME NEW m \in Disowned(replies, c, t, x)
        PROVE  \E n \in replies :
               /\ Mine(n, c, t) => m = [n EXCEPT !.tag = x] /\ m.tag = x
               /\ ~ Mine(n, c, t) => m = n
               /\ m.cpf = n.cpf /\ m.upf = n.upf /\ m.cause = n.cause /\ m.fteid = n.fteid
    <2>1. PICK n \in replies : m = IF Mine(n, c, t) THEN [n EXCEPT !.tag = x] ELSE n
      BY <1>5 DEF Disowned
    <2> QED BY <1>2, <1>3, <2>1
  <1> QED BY <1>4, <1>5

(* What is known of the messages in flight. *)
LEMMA MessageFields ==
  ASSUME TypeOK
  PROVE  /\ \A m \in requests : /\ m.op \in Ops /\ m.cpf \in CPFs /\ m.upf \in UPFs
                                /\ m.seid \in Seids \cup {None} /\ m.pdrs \in SUBSET Pdrs
         /\ \A m \in replies : /\ m.cpf \in CPFs /\ m.upf \in UPFs /\ m.fteid \in Nat
                               /\ m.cause \in Causes
  BY DEF TypeOK, Request, Reply

---------------------------------------------------------------------------
(* The kinds of step, and what each does to what the invariants are about. *)

(* The steps in which a thread sends a request and the CPF records nothing. *)
Asks(c, t) ==
    \/ \E u \in UPFs : StartSetup(c, t, u) \/ StartRelease(c, t, u)
    \/ \E s \in Seids : StartDelete(c, t, s)
    \/ GuardExpires(c, t)

(* The ends of procedures that leave the sessions' records alone. *)
Ends(c, t) == EndSetup(c, t) \/ EndRelease(c, t) \/ EndModify(c, t) \/ EndDelete(c, t)

(* The requests whose service installs nothing. *)
Clears(m) == ServeSetup(m) \/ ServeRelease(m) \/ ServeDelete(m)

(* Every step is of one of these kinds. *)
LEMMA StepKinds ==
  ASSUME [Next]_vars
  PROVE  \/ \E c \in CPFs, t \in Threads :
               \/ Asks(c, t)
               \/ \E u \in UPFs : StartEstablish(c, t, u)
               \/ \E s \in Seids, p \in ExtraPdrs : StartModify(c, t, s, p)
               \/ Ends(c, t)
               \/ EndEstablish(c, t)
               \/ TimeoutLost(c, t)
               \/ TimeoutLate(c, t)
         \/ \E m \in requests : Clears(m) \/ ServeModify(m) \/ ServeEstablish(m)
         \/ \E m \in replies : ReceiveReply(m)
         \/ \E m \in updates : ReceiveUpdate(m)
         \/ \E u \in UPFs : Restart(u)
         \/ Lose
         \/ UNCHANGED <<cpStore, cpSess, created, call, upSess, teid, requests, replies>>
  <1>1. CASE \E c \in CPFs, t \in Workers : Start(c, t)
    BY <1>1 DEF Start, Asks, Threads
  <1>2. CASE \E c \in CPFs, t \in Timers : GuardExpires(c, t)
    BY <1>2 DEF Asks, Threads
  <1>3. CASE \E c \in CPFs, t \in Threads : End(c, t) \/ Timeout(c, t)
    BY <1>3 DEF End, Timeout, Ends
  <1>4. CASE \E m \in requests : Serve(m)
    BY <1>4 DEF Serve, Clears
  <1>5. CASE \E m \in reports : ReceiveReport(m)
    BY <1>5 DEF ReceiveReport, cpVars, upVars
  <1>6. CASE \E u \in UPFs, a \in AdminStates : SetAdmin(u, a)
    BY <1>6 DEF SetAdmin, cpVars
  <1>7. CASE \E u \in UPFs, s \in Seids : Report(u, s)
    BY <1>7 DEF Report, cpVars, upVars
  <1>8. CASE UNCHANGED vars
    BY <1>8 DEF vars, cpVars, upVars, netVars
  <1> QED BY <1>1, <1>2, <1>3, <1>4, <1>5, <1>6, <1>7, <1>8 DEF Next

(* Asking sends a request without rules; a deletion names a session of the *)
(* store.                                                                  *)
LEMMA AsksEffect ==
  ASSUME TypeOK, NEW c \in CPFs, NEW t \in Threads, Asks(c, t)
  PROVE  /\ \E op \in {"setup", "release", "delete"}, u \in UPFs, s \in Seids \cup {None} :
               /\ Call(c, t, op, u, s, {})
               /\ op = "delete" => s \in cpStore /\ s[1] = c /\ cpSess[s].upf = u
               /\ op # "delete" => s = None
         /\ call[c][t].op \in {"idle", "armed"}
         /\ UNCHANGED <<cpStore, cpSess, created, upSess, teid>>
  <1>1. Idle.op = "idle"
    BY CallTypes
  <1>2. CASE \E u \in UPFs : StartSetup(c, t, u) \/ StartRelease(c, t, u)
    BY <1>1, <1>2 DEF StartSetup, StartRelease, Free, cpVars, upVars
  <1>3. CASE \E s \in Seids : StartDelete(c, t, s)
    <2>1. PICK s \in Seids : StartDelete(c, t, s)
      BY <1>3
    <2>2. s \in cpStore /\ cpSess[s].upf \in UPFs
      BY <2>1 DEF StartDelete, TypeOK
    <2> QED BY <1>1, <2>1, <2>2 DEF StartDelete, Free, cpVars, upVars
  <1>4. CASE GuardExpires(c, t)
    <2>1. call[c][t].upf \in UPFs
      BY <1>4 DEF GuardExpires, TypeOK, CallsOK
    <2> QED BY <1>4, <2>1 DEF GuardExpires, cpVars, upVars
  <1> QED BY <1>2, <1>3, <1>4 DEF Asks

(* An end other than that of an establishment only takes sessions out of   *)
(* the store.                                                              *)
LEMMA EndsEffect ==
  ASSUME TypeOK, NEW c \in CPFs, NEW t \in Threads, Ends(c, t)
  PROVE  /\ \E op \in Ops \ {"establish"} : Returning(c, t, op)
         /\ cpStore' \subseteq cpStore
         /\ UNCHANGED <<cpSess, created>>
  BY DEF Ends, EndSetup, EndRelease, EndModify, EndDelete, Ops, cpVars

(* What a clearing service does to a session is nothing, or to remove it. *)
LEMMA ClearsEffect ==
  ASSUME TypeOK, NEW m \in requests, Clears(m)
  PROVE  /\ Answer(m, "accepted", 0) /\ m.op \in {"setup", "release", "delete"}
         /\ teid' = teid
         /\ \A u \in UPFs, s \in Seids : upSess'[u][s] \in {upSess[u][s], NoSession}
  <1>1. Answer(m, "accepted", 0) /\ m.op \in {"setup", "release", "delete"} /\ teid' = teid
    BY DEF Clears, ServeSetup, ServeRelease, ServeDelete
  <1>2. m.upf \in UPFs /\ upSess \in [UPFs -> [Seids -> UpSession]]
    BY MessageFields DEF TypeOK
  <1>3. CASE ServeSetup(m)
    BY <1>3 DEF ServeSetup
  <1>4. CASE ServeRelease(m)
    BY <1>2, <1>4 DEF ServeRelease
  <1>5. CASE ServeDelete(m)
    BY <1>2, <1>5 DEF ServeDelete
  <1> QED BY <1>1, <1>3, <1>4, <1>5 DEF Clears

(* A restart removes sessions from a UPF and changes nothing elsewhere. *)
LEMMA RestartEffect ==
  ASSUME TypeOK, NEW u \in UPFs, Restart(u)
  PROVE  /\ UNCHANGED <<cpStore, cpSess, created, call, requests, replies, updates>>
         /\ \A v \in UPFs, s \in Seids : upSess'[v][s] \in {upSess[v][s], NoSession}
         /\ restarts < MaxRestarts
  BY DEF Restart, cpVars, netVars, TypeOK

(* Losing a message changes the messages in flight only. *)
LEMMA LoseEffect ==
  ASSUME Lose
  PROVE  /\ UNCHANGED <<cpStore, cpSess, created, call, upSess, teid>>
         /\ requests' \subseteq requests /\ replies' \subseteq replies
  BY DEF Lose, cpVars, upVars

(* A new session is the next of its CPF, has no F-TEID and is asked for at *)
(* once.                                                                   *)
LEMMA CreateEffect ==
  ASSUME TypeOK, NEW c \in CPFs, NEW t \in Threads, NEW u \in UPFs, StartEstablish(c, t, u)
  PROVE  \E s \in Seids :
            /\ s[1] = c /\ s[2] = created[c] + 1 /\ s[2] > created[s[1]]
            /\ \A r \in Seids : r[2] > created'[r[1]] <=> r[2] > created[r[1]] /\ r # s
            /\ call[c][t].op = "idle" /\ Call(c, t, "establish", u, s, BasePdrs)
            /\ cpStore' = cpStore \cup {s}
            /\ cpSess'[s].upf = u /\ cpSess'[s].fteid = 0 /\ cpSess'[s].pdrs = BasePdrs
            /\ \A r \in Seids : r # s => cpSess'[r] = cpSess[r]
            /\ UNCHANGED <<upSess, teid>>
  <1> DEFINE s == <<c, created[c] + 1>>
  <1>1. created \in [CPFs -> 0 .. MaxSessions] /\ cpSess \in [Seids -> CpSession]
    BY DEF TypeOK
  <1>2. s \in Seids /\ s[1] = c /\ s[2] = created[c] + 1
    BY <1>1, SxAssumption DEF StartEstablish, Seids
  <1>3. created[c] \in Nat
    BY <1>1
  <1>4. ASSUME NEW r \in Seids
        PROVE  r[2] > created'[r[1]] <=> r[2] > created[r[1]] /\ r # s
    <2>1. PICK d \in CPFs, i \in 1 .. MaxSessions : r = <<d, i>>
      BY DEF Seids
    <2>2. created' = [created EXCEPT ![c] = created[c] + 1]
      BY DEF StartEstablish
    <2>3. created[d] \in Nat /\ i \in Nat
      BY <1>1, SxAssumption
    <2>4. CASE d = c
      BY <1>1, <1>3, <2>1, <2>2, <2>3, <2>4
    <2>5. CASE d # c
      BY <1>1, <2>1, <2>2, <2>3, <2>5
    <2> QED BY <2>4, <2>5
  <1>5. /\ cpStore' = cpStore \cup {s} /\ Call(c, t, "establish", u, s, BasePdrs)
        /\ cpSess' = [cpSess EXCEPT ![s] = [upf |-> u, fteid |-> 0, pdrs |-> BasePdrs]]
        /\ call[c][t] = Idle /\ UNCHANGED <<upSess, teid>>
    BY DEF StartEstablish, Free, upVars
  <1>6. Idle.op = "idle"
    BY CallTypes
  <1>7. /\ cpSess'[s].upf = u /\ cpSess'[s].fteid = 0 /\ cpSess'[s].pdrs = BasePdrs
        /\ \A r \in Seids : r # s => cpSess'[r] = cpSess[r]
    BY <1>1, <1>2, <1>5
  <1> HIDE DEF s
  <1> QED BY <1>1, <1>2, <1>3, <1>4, <1>5, <1>6, <1>7

(* A modification adds one rule to the CPF's copy of one session and sends *)
(* it.                                                                     *)
LEMMA ModifyEffect ==
  ASSUME TypeOK, NEW c \in CPFs, NEW t \in Threads, NEW s \in Seids, NEW p \in ExtraPdrs,
         StartModify(c, t, s, p)
  PROVE  /\ s \in cpStore /\ s[1] = c /\ call[c][t].op = "idle"
         /\ cpSess[s].upf \in UPFs /\ {p} \in SUBSET Pdrs
         /\ Call(c, t, "modify", cpSess[s].upf, s, {p})
         /\ cpSess'[s].upf = cpSess[s].upf /\ cpSess'[s].fteid = cpSess[s].fteid
         /\ cpSess'[s].pdrs = cpSess[s].pdrs \cup {p}
         /\ \A r \in Seids : r # s => cpSess'[r] = cpSess[r]
         /\ UNCHANGED <<cpStore, created, upSess, teid>>
  <1> DEFINE k == [cpSess[s] EXCEPT !.pdrs = cpSess[s].pdrs \cup {p}]
  <1>1. cpSess \in [Seids -> CpSession] /\ cpSess[s] \in CpSession
    BY DEF TypeOK
  <1>2. k.upf = cpSess[s].upf /\ k.fteid = cpSess[s].fteid /\ k.pdrs = cpSess[s].pdrs \cup {p}
    BY <1>1 DEF CpSession
  <1>3. cpSess' = [cpSess EXCEPT ![s] = k]
    BY DEF StartModify
  <1> HIDE DEF k
  <1>4. cpSess'[s] = k /\ \A r \in Seids : r # s => cpSess'[r] = cpSess[r]
    BY <1>1, <1>3
  <1>5. Idle.op = "idle"
    BY CallTypes
  <1>6. cpSess[s].upf \in UPFs /\ {p} \in SUBSET Pdrs
    BY DEF StartModify, TypeOK, Pdrs
  <1> QED BY <1>2, <1>4, <1>5, <1>6 DEF StartModify, Free, upVars

(* The end of an establishment records the F-TEID, or drops the session. *)
LEMMA EstablishedEffect ==
  ASSUME TypeOK, AtHome, NEW c \in CPFs, NEW t \in Threads, EndEstablish(c, t)
  PROVE  LET k == call[c][t] IN
         /\ Returning(c, t, "establish") /\ k.seid \in Seids
         /\ \A s \in Seids : /\ cpSess'[s].upf = cpSess[s].upf
                             /\ cpSess'[s].pdrs = cpSess[s].pdrs
                             /\ s # k.seid => cpSess'[s] = cpSess[s]
         /\ k.answer = "accepted" => cpSess'[k.seid].fteid = k.fteid /\ cpStore' = cpStore
         /\ k.answer # "accepted" => cpSess' = cpSess /\ cpStore' = cpStore \ {k.seid}
         /\ created' = created
  <1> DEFINE k == call[c][t]
             l == [cpSess[k.seid] EXCEPT !.fteid = k.fteid]
  <1>1. Returning(c, t, "establish") /\ k.op = "establish" /\ created' = created
    BY DEF EndEstablish, Returning
  <1>2. k.seid \in Seids
    BY <1>1 DEF AtHome, SessionOps
  <1>3. cpSess \in [Seids -> CpSession] /\ cpSess[k.seid] \in CpSession
    BY <1>2 DEF TypeOK
  <1>4. l.upf = cpSess[k.seid].upf /\ l.pdrs = cpSess[k.seid].pdrs /\ l.fteid = k.fteid
    BY <1>3 DEF CpSession
  <1>5. CASE k.answer = "accepted"
    <2>1. cpSess' = [cpSess EXCEPT ![k.seid] = l] /\ cpStore' = cpStore
      BY <1>5 DEF EndEstablish
    <2> HIDE DEF l
    <2>2. cpSess'[k.seid] = l /\ \A s \in Seids : s # k.seid => cpSess'[s] = cpSess[s]
      BY <1>2, <1>3, <2>1
    <2> QED BY <1>1, <1>2, <1>4, <1>5, <2>1, <2>2
  <1>6. CASE k.answer # "accepted"
    BY <1>1, <1>2, <1>6 DEF EndEstablish
  <1> QED BY <1>5, <1>6

(* A modification served adds rules to one session, if it is installed. *)
LEMMA ServeModifyEffect ==
  ASSUME TypeOK, AtHome, NEW m \in requests, ServeModify(m)
  PROVE  /\ m.op = "modify" /\ m.seid \in Seids /\ teid' = teid
         /\ \E a \in Causes : Answer(m, a, 0)
         /\ \A u \in UPFs, s \in Seids :
               /\ Installed(u, s)' <=> Installed(u, s)
               /\ upSess'[u][s].fteid = upSess[u][s].fteid
               /\ upSess'[u][s] # upSess[u][s] =>
                     /\ u = m.upf /\ s = m.seid /\ Installed(u, s)
                     /\ upSess'[u][s].pdrs = upSess[u][s].pdrs \cup m.pdrs
         /\ Installed(m.upf, m.seid) =>
               upSess'[m.upf][m.seid].pdrs = upSess[m.upf][m.seid].pdrs \cup m.pdrs
  <1> DEFINE u0 == m.upf
             s0 == m.seid
             k == [upSess[u0][s0] EXCEPT !.pdrs = upSess[u0][s0].pdrs \cup m.pdrs]
  <1>1. m.op = "modify" /\ teid' = teid /\ \E a \in Causes : Answer(m, a, 0)
    BY DEF ServeModify, Causes
  <1>2. s0 \in Seids /\ u0 \in UPFs /\ upSess \in [UPFs -> [Seids -> UpSession]]
    BY <1>1, MessageFields DEF AtHome, SessionOps, TypeOK
  <1>3. CASE Installed(u0, s0)
    <2>1. upSess[u0][s0] \in [fteid : Nat \ {0}, pdrs : SUBSET Pdrs]
      BY <1>2, <1>3 DEF Installed, UpSession
    <2>2. k.fteid = upSess[u0][s0].fteid /\ k.pdrs = upSess[u0][s0].pdrs \cup m.pdrs
      BY <2>1
    <2>3. k.fteid # 0 /\ NoSession.fteid = 0
      BY <2>1, <2>2 DEF NoSession
    <2>4. upSess' = [upSess EXCEPT ![u0][s0] = k]
      BY <1>3 DEF ServeModify
    <2> HIDE DEF k
    <2>5. /\ upSess'[u0][s0] = k
          /\ \A u \in UPFs, s \in Seids : u # u0 \/ s # s0 => upSess'[u][s] = upSess[u][s]
      BY <1>2, <2>4
    <2>6. Installed(u0, s0)'
      BY <2>3, <2>5 DEF Installed
    <2> QED BY <1>1, <1>2, <1>3, <2>2, <2>5, <2>6 DEF Installed
  <1>4. CASE ~ Installed(u0, s0)
    BY <1>1, <1>2, <1>4 DEF ServeModify, Installed
  <1> QED BY <1>3, <1>4

(* An establishment served draws the next F-TEID and installs one session. *)
LEMMA ServeEstablishEffect ==
  ASSUME TypeOK, AtHome, NEW m \in requests, ServeEstablish(m)
  PROVE  /\ m.op = "establish" /\ m.seid \in Seids /\ m.upf \in UPFs
         /\ teid[m.upf] \in Nat /\ teid[m.upf] + 1 \in Nat \ {0}
         /\ Answer(m, "accepted", teid[m.upf] + 1)
         /\ teid'[m.upf] = teid[m.upf] + 1
         /\ \A u \in UPFs : u # m.upf => teid'[u] = teid[u]
         /\ Installed(m.upf, m.seid)'
         /\ upSess'[m.upf][m.seid].fteid = teid[m.upf] + 1
         /\ upSess'[m.upf][m.seid].pdrs = m.pdrs
         /\ \A u \in UPFs, s \in Seids :
               u # m.upf \/ s # m.seid => upSess'[u][s] = upSess[u][s]
  <1> DEFINE f == teid[m.upf] + 1
             k == [fteid |-> f, pdrs |-> m.pdrs]
  <1>1. m.op = "establish" /\ Answer(m, "accepted", f)
    BY DEF ServeEstablish
  <1>2. /\ m.seid \in Seids /\ m.upf \in UPFs /\ upSess \in [UPFs -> [Seids -> UpSession]]
        /\ teid \in [UPFs -> Nat]
    BY <1>1, MessageFields DEF AtHome, SessionOps, TypeOK
  <1>3. teid[m.upf] \in Nat /\ f \in Nat \ {0}
    BY <1>2
  <1>4. k # NoSession /\ k.fteid = f /\ k.pdrs = m.pdrs
    BY <1>3 DEF NoSession
  <1>5. upSess' = [upSess EXCEPT ![m.upf][m.seid] = k]
    BY DEF ServeEstablish
  <1>6. teid' = [teid EXCEPT ![m.upf] = f]
    BY DEF ServeEstablish
  <1> HIDE DEF k, f
  <1>7. /\ upSess'[m.upf][m.seid] = k
        /\ \A u \in UPFs, s \in Seids :
              u # m.upf \/ s # m.seid => upSess'[u][s] = upSess[u][s]
    BY <1>2, <1>5
  <1>8. teid'[m.upf] = f /\ \A u \in UPFs : u # m.upf => teid'[u] = teid[u]
    BY <1>2, <1>6
  <1> QED BY <1>1, <1>2, <1>3, <1>4, <1>7, <1>8 DEF Installed, f

(* A thread that gives up too early turns its message into a stray. *)
LEMMA LateEffect ==
  ASSUME TypeOK, NEW c \in CPFs, NEW t \in Threads, TimeoutLate(c, t)
  PROVE  /\ GiveUp(c, t)
         /\ \E x \in Strays :
               /\ \A m \in requests \cup replies : ~ Mine(m, c, x)
               /\ requests' = Disowned(requests, c, t, x)
               /\ replies' = Disowned(replies, c, t, x)
  BY DEF TimeoutLate, InFlight

---------------------------------------------------------------------------
(* Messages and the threads that wait for them. *)

(* A thread sends only when it awaits nothing. *)
LEMMA NothingAwaited ==
  ASSUME TypeOK, AwaitedByCaller, NEW c \in CPFs, NEW t \in Threads,
         call[c][t].op \notin Ops \/ call[c][t].answer # "pending"
  PROVE  \A m \in requests \cup replies : ~ Mine(m, c, t)
  BY MessageFields DEF AwaitedByCaller, Mine

(* Sending keeps both invariants ... *)
LEMMA SendingKept ==
  ASSUME TypeOK, OneInFlight, AwaitedByCaller,
         NEW c \in CPFs, NEW t \in Threads, NEW op \in Ops, NEW u \in UPFs,
         NEW s \in Seids \cup {None}, NEW P \in SUBSET Pdrs, Call(c, t, op, u, s, P),
         call[c][t].op \in {"idle", "armed"}
  PROVE  OneInFlight' /\ AwaitedByCaller'
  <1>1. PICK r \in Request :
           /\ r.op = op /\ r.cpf = c /\ r.upf = u /\ r.seid = s /\ r.pdrs = P /\ r.tag = t
           /\ requests' = requests \cup {r}
    BY Sent
  <1>2. \A m \in requests \cup replies : ~ Mine(m, c, t)
    BY NothingAwaited DEF Ops
  <1>3. replies' = replies
    BY Sent
  <1>4. OneInFlight'
    BY <1>1, <1>2, <1>3 DEF OneInFlight, Mine
  <1>5. /\ call'[c][t].op = op /\ call'[c][t].upf = u /\ call'[c][t].seid = s
        /\ call'[c][t].answer = "pending"
        /\ \A d \in CPFs, x \in Threads : d # c \/ x # t => call'[d][x] = call[d][x]
    BY Sent
  <1>6. AwaitedByCaller'
    BY <1>1, <1>2, <1>3, <1>5, MessageFields DEF AwaitedByCaller, Mine
  <1> QED BY <1>4, <1>6

(* ... so does answering ... *)
LEMMA AnsweringKept ==
  ASSUME TypeOK, OneInFlight, AwaitedByCaller,
         NEW m \in requests, NEW a \in Causes, NEW f \in Nat, Answer(m, a, f)
  PROVE  OneInFlight' /\ AwaitedByCaller'
  <1>1. /\ requests' = requests \ {m} /\ call' = call
        /\ \E r \in Reply :
               /\ r.cpf = m.cpf /\ r.upf = m.upf /\ r.tag = m.tag /\ r.cause = a /\ r.fteid = f
               /\ replies' = replies \cup {r}
    BY Answered
  <1>2. OneInFlight'
    BY <1>1 DEF OneInFlight
  <1>3. AwaitedByCaller'
    BY <1>1, MessageFields DEF AwaitedByCaller
  <1> QED BY <1>2, <1>3

(* ... and a thread that has its answer may do as it likes.                *)
LEMMA AnsweredThreadKept ==
  ASSUME TypeOK, OneInFlight, AwaitedByCaller, NEW c \in CPFs, NEW t \in Threads,
         call[c][t].op \notin Ops \/ call[c][t].answer # "pending"
             \/ (\A m \in requests' \cup replies' : ~ Mine(m, c, t)),
         \A d \in CPFs, x \in Threads : d # c \/ x # t => call'[d][x] = call[d][x],
         requests' \subseteq requests, replies' \subseteq replies
  PROVE  OneInFlight' /\ AwaitedByCaller'
  <1>1. OneInFlight'
    BY DEF OneInFlight
  <1>2. \A m \in requests' \cup replies' : ~ Mine(m, c, t)
    BY NothingAwaited
  <1>3. AwaitedByCaller'
    BY <1>2, MessageFields DEF AwaitedByCaller, Mine
  <1> QED BY <1>1, <1>3

(* A thread gives up and its message, if any, becomes a stray. *)
LEMMA LateKept ==
  ASSUME TypeOK, OneInFlight, AwaitedByCaller, NEW c \in CPFs, NEW t \in Threads,
         TimeoutLate(c, t)
  PROVE  OneInFlight' /\ AwaitedByCaller'
  <1>1. PICK x \in Strays :
           /\ \A m \in requests \cup replies : ~ Mine(m, c, x)
           /\ requests' = Disowned(requests, c, t, x)
           /\ replies' = Disowned(replies, c, t, x)
    BY LateEffect
  <1>2. /\ \A m \in requests' : \E n \in requests :
               /\ Mine(n, c, t) => m = [n EXCEPT !.tag = x] /\ m.tag = x
               /\ ~ Mine(n, c, t) => m = n
               /\ m.op = n.op /\ m.cpf = n.cpf /\ m.upf = n.upf /\ m.seid = n.seid
        /\ \A m \in replies' : \E n \in replies :
               /\ Mine(n, c, t) => m = [n EXCEPT !.tag = x] /\ m.tag = x
               /\ ~ Mine(n, c, t) => m = n
               /\ m.cpf = n.cpf /\ m.upf = n.upf
    BY <1>1, DisownedFields
  <1>3. x \notin Threads
    BY SxAssumption DEF Threads
  <1>4. OneInFlight'
    <2>1. ASSUME NEW m1 \in requests', NEW m2 \in requests', m1.cpf = m2.cpf, m1.tag = m2.tag
          PROVE  m1 = m2
      BY <1>1, <1>2, <2>1 DEF OneInFlight, Mine
    <2>2. ASSUME NEW m1 \in replies', NEW m2 \in replies', m1.cpf = m2.cpf, m1.tag = m2.tag
          PROVE  m1 = m2
      BY <1>1, <1>2, <2>2 DEF OneInFlight, Mine
    <2>3. ASSUME NEW m1 \in requests', NEW m2 \in replies', m1.cpf = m2.cpf, m1.tag = m2.tag
          PROVE  FALSE
      BY <1>1, <1>2, <2>3 DEF OneInFlight, Mine
    <2> QED BY <2>1, <2>2, <2>3 DEF OneInFlight
  <1>5. \A d \in CPFs, y \in Threads : d # c \/ y # t => call'[d][y] = call[d][y]
    BY LateEffect, GaveUp
  <1>6. /\ \A m \in requests' : m.tag \in Threads => m \in requests /\ ~ Mine(m, c, t)
        /\ \A m \in replies' : m.tag \in Threads => m \in replies /\ ~ Mine(m, c, t)
    BY <1>2, <1>3
  <1>7. AwaitedByCaller'
    BY <1>5, <1>6, MessageFields DEF AwaitedByCaller, Mine
  <1> QED BY <1>4, <1>7

(* Every step keeps one message to a tag, and each with the caller that    *)
(* awaits it.                                                              *)
LEMMA MessagesStep ==
  ASSUME TypeOK, OneInFlight, AwaitedByCaller, AtHome, [Next]_vars
  PROVE  OneInFlight' /\ AwaitedByCaller'
  <1>1. ASSUME NEW c \in CPFs, NEW t \in Threads, Asks(c, t)
        PROVE  OneInFlight' /\ AwaitedByCaller'
    <2>1. PICK op \in {"setup", "release", "delete"}, u \in UPFs, s \in Seids \cup {None} :
             Call(c, t, op, u, s, {})
      BY <1>1, AsksEffect
    <2>2. op \in Ops /\ {} \in SUBSET Pdrs /\ call[c][t].op \in {"idle", "armed"}
      BY <1>1, AsksEffect DEF Ops
    <2> QED BY <2>1, <2>2, SendingKept
  <1>2. ASSUME NEW c \in CPFs, NEW t \in Threads, NEW u \in UPFs, StartEstablish(c, t, u)
        PROVE  OneInFlight' /\ AwaitedByCaller'
    <2>1. BasePdrs \in SUBSET Pdrs /\ "establish" \in Ops
      BY DEF Pdrs, Ops
    <2> QED BY <1>2, <2>1, CreateEffect, SendingKept
  <1>3. ASSUME NEW c \in CPFs, NEW t \in Threads, NEW s \in Seids, NEW p \in ExtraPdrs,
               StartModify(c, t, s, p)
        PROVE  OneInFlight' /\ AwaitedByCaller'
    <2>1. /\ cpSess[s].upf \in UPFs /\ {p} \in SUBSET Pdrs
          /\ Call(c, t, "modify", cpSess[s].upf, s, {p})
          /\ call[c][t].op \in {"idle", "armed"}
      BY <1>3, ModifyEffect
    <2>2. "modify" \in Ops /\ s \in Seids \cup {None}
      BY DEF Ops
    <2> QED BY <2>1, <2>2, SendingKept
  <1>4. ASSUME NEW c \in CPFs, NEW t \in Threads, Ends(c, t) \/ EndEstablish(c, t)
        PROVE  OneInFlight' /\ AwaitedByCaller'
    <2>1. PICK op \in Ops : Returning(c, t, op)
      BY <1>4, EndsEffect DEF EndEstablish, Ops
    <2> QED BY <2>1, Returned, AnsweredThreadKept
  <1>5. ASSUME NEW c \in CPFs, NEW t \in Threads, TimeoutLost(c, t)
        PROVE  OneInFlight' /\ AwaitedByCaller'
    <2>1. requests' = requests /\ replies' = replies /\ GiveUp(c, t)
      BY <1>5 DEF TimeoutLost
    <2>2. \A m \in requests' \cup replies' : ~ Mine(m, c, t)
      BY <1>5, <2>1 DEF TimeoutLost, InFlight
    <2>3. \A d \in CPFs, x \in Threads : d # c \/ x # t => call'[d][x] = call[d][x]
      BY <2>1, GaveUp
    <2> QED BY <2>1, <2>2, <2>3, AnsweredThreadKept
  <1>6. ASSUME NEW m \in requests, Clears(m) \/ ServeModify(m) \/ ServeEstablish(m)
        PROVE  OneInFlight' /\ AwaitedByCaller'
    <2>1. \E a \in Causes, f \in Nat : Answer(m, a, f)
      BY <1>6, ClearsEffect, ServeModifyEffect, ServeEstablishEffect DEF Causes
    <2> QED BY <2>1, AnsweringKept
  <1>7. ASSUME NEW m \in replies, ReceiveReply(m) PROVE OneInFlight' /\ AwaitedByCaller'
    <2>1. /\ replies' = replies \ {m} /\ requests' = requests
          /\ \A d \in CPFs, x \in Threads : d # m.cpf \/ x # m.tag => call'[d][x] = call[d][x]
      BY <1>7, Received
    <2>2. CASE m.tag \in Threads
      <3>1. \A n \in requests' \cup replies' : ~ Mine(n, m.cpf, m.tag)
        BY <2>1 DEF OneInFlight, Mine
      <3> QED BY <2>1, <2>2, <3>1, AnsweredThreadKept, MessageFields
    <2>3. CASE m.tag \notin Threads
      BY <2>1, <2>3, MessageFields DEF OneInFlight, AwaitedByCaller
    <2> QED BY <2>2, <2>3
  <1>8. ASSUME NEW m \in updates, ReceiveUpdate(m) PROVE OneInFlight' /\ AwaitedByCaller'
    <2>1. requests' = requests /\ replies' = replies
      BY <1>8, Updated
    <2>2. CASE call' = call
      BY <2>1, <2>2 DEF OneInFlight, AwaitedByCaller
    <2>3. CASE call' # call
      <3>1. PICK c \in CPFs, t \in Timers :
               /\ call[c][t] = Idle
               /\ \A d \in CPFs, x \in Threads : d # c \/ x # t => call'[d][x] = call[d][x]
        BY <1>8, <2>3, Updated
      <3>2. call[c][t].op \notin Ops /\ t \in Threads
        BY <3>1, CallTypes DEF Ops, Threads
      <3> QED BY <2>1, <3>1, <3>2, AnsweredThreadKept
    <2> QED BY <2>2, <2>3
  <1>9. ASSUME NEW u \in UPFs, Restart(u) PROVE OneInFlight' /\ AwaitedByCaller'
    BY <1>9, RestartEffect DEF OneInFlight, AwaitedByCaller
  <1>10. ASSUME Lose PROVE OneInFlight' /\ AwaitedByCaller'
    <2>1. call' = call /\ requests' \subseteq requests /\ replies' \subseteq replies
      BY <1>10, LoseEffect
    <2> QED BY <2>1 DEF OneInFlight, AwaitedByCaller
  <1>11. ASSUME UNCHANGED <<call, requests, replies>> PROVE OneInFlight' /\ AwaitedByCaller'
    BY <1>11 DEF OneInFlight, AwaitedByCaller
  <1> QED
    BY <1>1, <1>2, <1>3, <1>4, <1>5, LateKept, <1>6, <1>7, <1>8, <1>9, <1>10, <1>11,
       StepKinds

---------------------------------------------------------------------------
(* Sessions: where they are, and that new ones are new. *)

(* A request about one of the CPF's own sessions keeps what is about       *)
(* sessions at home.                                                       *)
LEMMA SendingAtHome ==
  ASSUME TypeOK, AtHome, NEW c \in CPFs, NEW t \in Threads, NEW op \in Ops, NEW u \in UPFs,
         NEW s \in Seids \cup {None}, NEW P \in SUBSET Pdrs, Call(c, t, op, u, s, P),
         op \in SessionOps => s \in Seids /\ s[1] = c /\ cpSess'[s].upf = u,
         \A d \in CPFs, x \in Threads : call[d][x].op \in SessionOps =>
             cpSess'[call[d][x].seid].upf = cpSess[call[d][x].seid].upf,
         \A m \in requests : m.op \in SessionOps => cpSess'[m.seid].upf = cpSess[m.seid].upf,
         \A v \in UPFs, r \in Seids : Installed(v, r) => cpSess'[r].upf = cpSess[r].upf,
         upSess' = upSess
  PROVE  AtHome'
  <1>1. PICK r \in Request :
           /\ r.op = op /\ r.cpf = c /\ r.upf = u /\ r.seid = s /\ r.pdrs = P /\ r.tag = t
           /\ requests' = requests \cup {r}
    BY Sent
  <1>2. /\ call'[c][t].op = op /\ call'[c][t].upf = u /\ call'[c][t].seid = s
        /\ \A d \in CPFs, x \in Threads : d # c \/ x # t => call'[d][x] = call[d][x]
    BY Sent
  <1>3. ASSUME NEW d \in CPFs, NEW x \in Threads, call'[d][x].op \in SessionOps
        PROVE  LET z == call'[d][x].seid IN
                   z \in Seids /\ z[1] = d /\ cpSess'[z].upf = call'[d][x].upf
    <2>1. CASE d = c /\ x = t
      BY <1>2, <1>3, <2>1
    <2>2. CASE d # c \/ x # t
      BY <1>2, <1>3, <2>2 DEF AtHome
    <2> QED BY <2>1, <2>2
  <1>4. ASSUME NEW m \in requests', m.op \in SessionOps
        PROVE  m.seid \in Seids /\ m.seid[1] = m.cpf /\ cpSess'[m.seid].upf = m.upf
    BY <1>1, <1>4 DEF AtHome
  <1>5. \A v \in UPFs, z \in Seids : Installed(v, z)' => cpSess'[z].upf = v
    BY DEF AtHome, Installed
  <1> QED BY <1>3, <1>4, <1>5 DEF AtHome

(* Steps that put no session anywhere keep them at home. *)
LEMMA StillAtHome ==
  ASSUME TypeOK, AtHome, \A r \in Seids : cpSess'[r].upf = cpSess[r].upf,
         \A d \in CPFs, x \in Threads : call'[d][x].op \in SessionOps =>
             /\ call'[d][x].op = call[d][x].op
             /\ call'[d][x].upf = call[d][x].upf /\ call'[d][x].seid = call[d][x].seid,
         \A m \in requests' : \E n \in requests :
             m.op = n.op /\ m.cpf = n.cpf /\ m.upf = n.upf /\ m.seid = n.seid,
         \A v \in UPFs, r \in Seids : Installed(v, r)' =>
             \/ Installed(v, r)
             \/ \E m \in requests : m.op \in SessionOps /\ m.upf = v /\ m.seid = r
  PROVE  AtHome'
  <1>1. ASSUME NEW d \in CPFs, NEW x \in Threads, call'[d][x].op \in SessionOps
        PROVE  LET r == call'[d][x].seid IN
                   r \in Seids /\ r[1] = d /\ cpSess'[r].upf = call'[d][x].upf
    BY <1>1 DEF AtHome
  <1>2. ASSUME NEW m \in requests', m.op \in SessionOps
        PROVE  m.seid \in Seids /\ m.seid[1] = m.cpf /\ cpSess'[m.seid].upf = m.upf
    BY <1>2 DEF AtHome
  <1>3. ASSUME NEW v \in UPFs, NEW r \in Seids, Installed(v, r)'
        PROVE  cpSess'[r].upf = v
    BY <1>3 DEF AtHome
  <1> QED BY <1>1, <1>2, <1>3 DEF AtHome

(* What is not installed after a step that clears was not before. *)
LEMMA ClearedInstalled ==
  ASSUME NEW u \in UPFs, NEW s \in Seids, upSess'[u][s] \in {upSess[u][s], NoSession},
         Installed(u, s)'
  PROVE  Installed(u, s) /\ upSess'[u][s] = upSess[u][s]
  BY DEF Installed

(* Every step keeps what is about sessions at home. *)
LEMMA AtHomeStep ==
  ASSUME TypeOK, AwaitedByCaller, AtHome, Uncreated, [Next]_vars
  PROVE  AtHome'
  <1>1. ASSUME NEW c \in CPFs, NEW t \in Threads, Asks(c, t) PROVE AtHome'
    <2>1. PICK op \in {"setup", "release", "delete"}, u \in UPFs, s \in Seids \cup {None} :
             /\ Call(c, t, op, u, s, {})
             /\ op = "delete" => s \in cpStore /\ s[1] = c /\ cpSess[s].upf = u
      BY <1>1, AsksEffect
    <2>2. op \in Ops /\ {} \in SUBSET Pdrs /\ cpStore \subseteq Seids
      BY DEF Ops, TypeOK
    <2>3. cpSess' = cpSess /\ upSess' = upSess
      BY <1>1, AsksEffect
    <2>4. op \in SessionOps => s \in Seids /\ s[1] = c /\ cpSess'[s].upf = u
      BY <2>1, <2>2, <2>3 DEF SessionOps
    <2> QED BY <2>1, <2>2, <2>3, <2>4, SendingAtHome
  <1>2. ASSUME NEW c \in CPFs, NEW t \in Threads, NEW u \in UPFs, StartEstablish(c, t, u)
        PROVE  AtHome'
    <2>1. PICK s \in Seids :
             /\ s[1] = c /\ s[2] > created[s[1]] /\ Call(c, t, "establish", u, s, BasePdrs)
             /\ cpSess'[s].upf = u /\ upSess' = upSess
             /\ \A r \in Seids : r # s => cpSess'[r] = cpSess[r]
      BY <1>2, CreateEffect
    <2>2. /\ \A v \in UPFs : ~ Installed(v, s)
          /\ \A m \in requests : m.seid # s
          /\ \A d \in CPFs, x \in Threads : call[d][x].seid # s
      BY <2>1 DEF Uncreated
    <2>3. /\ \A d \in CPFs, x \in Threads : call[d][x].op \in SessionOps =>
                cpSess'[call[d][x].seid].upf = cpSess[call[d][x].seid].upf
          /\ \A m \in requests : m.op \in SessionOps =>
                cpSess'[m.seid].upf = cpSess[m.seid].upf
          /\ \A v \in UPFs, r \in Seids : Installed(v, r) => cpSess'[r].upf = cpSess[r].upf
      BY <2>1, <2>2 DEF AtHome
    <2>4. "establish" \in Ops /\ BasePdrs \in SUBSET Pdrs
      BY DEF Ops, Pdrs
    <2> QED BY <2>1, <2>3, <2>4, SendingAtHome
  <1>3. ASSUME NEW c \in CPFs, NEW t \in Threads, NEW s \in Seids, NEW p \in ExtraPdrs,
               StartModify(c, t, s, p)
        PROVE  AtHome'
    <2>1. /\ s[1] = c /\ cpSess[s].upf \in UPFs /\ {p} \in SUBSET Pdrs
          /\ Call(c, t, "modify", cpSess[s].upf, s, {p})
          /\ upSess' = upSess
          /\ \A r \in Seids : cpSess'[r].upf = cpSess[r].upf
      BY <1>3, ModifyEffect
    <2>2. /\ \A d \in CPFs, x \in Threads : call[d][x].op \in SessionOps =>
                cpSess'[call[d][x].seid].upf = cpSess[call[d][x].seid].upf
          /\ \A m \in requests : m.op \in SessionOps =>
                cpSess'[m.seid].upf = cpSess[m.seid].upf
      BY <2>1 DEF AtHome
    <2>3. "modify" \in Ops
      BY DEF Ops
    <2> QED BY <2>1, <2>2, <2>3, SendingAtHome
  <1>4. ASSUME NEW c \in CPFs, NEW t \in Threads, Ends(c, t) \/ EndEstablish(c, t)
        PROVE  AtHome'
    <2>1. PICK op \in Ops : Returning(c, t, op)
      BY <1>4, EndsEffect DEF EndEstablish, Ops
    <2>2. \A r \in Seids : cpSess'[r].upf = cpSess[r].upf
      BY <1>4, EndsEffect, EstablishedEffect
    <2>3. /\ requests' = requests /\ upSess' = upSess /\ call'[c][t] = Idle
          /\ \A d \in CPFs, x \in Threads : d # c \/ x # t => call'[d][x] = call[d][x]
      BY <2>1, Returned
    <2>4. Idle.op \notin SessionOps
      BY CallTypes DEF SessionOps
    <2> QED BY <2>2, <2>3, <2>4, StillAtHome DEF Installed
  <1>5. ASSUME NEW c \in CPFs, NEW t \in Threads, TimeoutLost(c, t) \/ TimeoutLate(c, t)
        PROVE  AtHome'
    <2>1. GiveUp(c, t)
      BY <1>5 DEF TimeoutLost, TimeoutLate
    <2>2. \A m \in requests' : \E n \in requests :
             m.op = n.op /\ m.cpf = n.cpf /\ m.upf = n.upf /\ m.seid = n.seid
      BY <1>5, LateEffect, DisownedFields DEF TimeoutLost
    <2>3. \A d \in CPFs, x \in Threads :
             /\ call'[d][x].op = call[d][x].op
             /\ call'[d][x].upf = call[d][x].upf /\ call'[d][x].seid = call[d][x].seid
      BY <2>1, GaveUp
    <2>4. cpSess' = cpSess /\ upSess' = upSess
      BY <2>1, GaveUp
    <2> QED BY <2>2, <2>3, <2>4, StillAtHome DEF Installed
  <1>6. ASSUME NEW m \in requests, Clears(m) PROVE AtHome'
    <2>1. /\ Answer(m, "accepted", 0)
          /\ \A u \in UPFs, s \in Seids : upSess'[u][s] \in {upSess[u][s], NoSession}
      BY <1>6, ClearsEffect
    <2>2. requests' \subseteq requests /\ call' = call /\ cpSess' = cpSess
      BY <2>1, Answered DEF Causes
    <2> QED BY <2>1, <2>2, ClearedInstalled, StillAtHome
  <1>7. ASSUME NEW m \in requests, ServeModify(m) PROVE AtHome'
    <2>1. \A u \in UPFs, s \in Seids : Installed(u, s)' <=> Installed(u, s)
      BY <1>7, ServeModifyEffect
    <2>2. requests' \subseteq requests /\ call' = call /\ cpSess' = cpSess
      BY <1>7, ServeModifyEffect, Answered
    <2> QED BY <2>1, <2>2, StillAtHome
  <1>8. ASSUME NEW m \in requests, ServeEstablish(m) PROVE AtHome'
    <2>1. /\ m.op \in SessionOps /\ Answer(m, "accepted", teid[m.upf] + 1)
          /\ teid[m.upf] + 1 \in Nat
          /\ \A u \in UPFs, s \in Seids :
                u # m.upf \/ s # m.seid => upSess'[u][s] = upSess[u][s]
      BY <1>8, ServeEstablishEffect DEF SessionOps
    <2>2. requests' \subseteq requests /\ call' = call /\ cpSess' = cpSess
      BY <2>1, Answered DEF Causes
    <2>3. \A u \in UPFs, s \in Seids : Installed(u, s)' =>
             Installed(u, s) \/ (m.upf = u /\ m.seid = s)
      BY <2>1 DEF Installed
    <2> QED BY <2>1, <2>2, <2>3, StillAtHome
  <1>9. ASSUME NEW m \in replies, ReceiveReply(m) PROVE AtHome'
    <2>1. /\ requests' = requests /\ cpSess' = cpSess /\ upSess' = upSess
          /\ \A d \in CPFs, x \in Threads :
                /\ call'[d][x].op = call[d][x].op
                /\ call'[d][x].upf = call[d][x].upf /\ call'[d][x].seid = call[d][x].seid
      BY <1>9, Received
    <2> QED BY <2>1, StillAtHome DEF Installed
  <1>10. ASSUME NEW m \in updates, ReceiveUpdate(m) PROVE AtHome'
    <2>1. /\ requests' = requests /\ cpSess' = cpSess /\ upSess' = upSess
          /\ \A d \in CPFs, x \in Threads : call'[d][x].op \in SessionOps =>
                call'[d][x] = call[d][x]
      BY <1>10, Updated DEF SessionOps, Threads
    <2> QED BY <2>1, StillAtHome DEF Installed
  <1>11. ASSUME NEW u \in UPFs, Restart(u) PROVE AtHome'
    <2>1. /\ requests' = requests /\ cpSess' = cpSess /\ call' = call
          /\ \A v \in UPFs, s \in Seids : upSess'[v][s] \in {upSess[v][s], NoSession}
      BY <1>11, RestartEffect
    <2> QED BY <2>1, ClearedInstalled, StillAtHome
  <1>12. ASSUME Lose \/ UNCHANGED <<cpSess, call, upSess, requests>> PROVE AtHome'
    <2>1. requests' \subseteq requests /\ cpSess' = cpSess /\ call' = call /\ upSess' = upSess
      BY <1>12, LoseEffect
    <2> QED BY <2>1, StillAtHome DEF Installed
  <1> QED
    BY <1>1, <1>2, <1>3, <1>4, <1>5, <1>6, <1>7, <1>8, <1>9, <1>10, <1>11, <1>12, StepKinds

(* Steps that are only about sessions that exist leave the others uncreated. *)
LEMMA StillUncreated ==
  ASSUME TypeOK, Uncreated, created' = created, cpStore' \subseteq cpStore,
         \A s \in Seids : cpSess'[s].fteid # 0 =>
             cpSess[s].fteid # 0 \/ \E d \in CPFs, x \in Threads : call[d][x].seid = s,
         \A u \in UPFs, s \in Seids : Installed(u, s)' =>
             Installed(u, s) \/ \E m \in requests : m.seid = s,
         \A m \in requests' :
             m.seid \in cpStore \cup {None} \/ \E n \in requests : n.seid = m.seid,
         \A d \in CPFs, x \in Threads :
             call'[d][x].seid \in cpStore \cup {None} \/ call'[d][x].seid = call[d][x].seid
  PROVE  Uncreated'
  <1> SUFFICES ASSUME NEW s \in Seids, s[2] > created[s[1]]
               PROVE  /\ s \notin cpStore' /\ cpSess'[s].fteid = 0
                      /\ \A u \in UPFs : ~ Installed(u, s)'
                      /\ \A m \in requests' : m.seid # s
                      /\ \A d \in CPFs, x \in Threads : call'[d][x].seid # s
    BY DEF Uncreated
  <1>1. /\ s \notin cpStore /\ cpSess[s].fteid = 0
        /\ \A u \in UPFs : ~ Installed(u, s)
        /\ \A m \in requests : m.seid # s
        /\ \A d \in CPFs, x \in Threads : call[d][x].seid # s
    BY DEF Uncreated
  <1>2. s # None
    BY SxAssumption
  <1> QED BY <1>1, <1>2

(* Every step keeps uncreated sessions out of everything. *)
LEMMA UncreatedStep ==
  ASSUME TypeOK, AtHome, Uncreated, [Next]_vars
  PROVE  Uncreated'
  <1>1. ASSUME NEW c \in CPFs, NEW t \in Threads, Asks(c, t) PROVE Uncreated'
    <2>1. PICK op \in {"setup", "release", "delete"}, u \in UPFs, s \in Seids \cup {None} :
             /\ Call(c, t, op, u, s, {})
             /\ op = "delete" => s \in cpStore /\ s[1] = c /\ cpSess[s].upf = u
             /\ op # "delete" => s = None
      BY <1>1, AsksEffect
    <2>2. op \in Ops /\ {} \in SUBSET Pdrs /\ s \in cpStore \cup {None}
      BY <2>1 DEF Ops
    <2>3. /\ \E r \in Request : r.seid = s /\ requests' = requests \cup {r}
          /\ call'[c][t].seid = s
          /\ \A d \in CPFs, x \in Threads : d # c \/ x # t => call'[d][x] = call[d][x]
      BY <2>1, <2>2, Sent
    <2>4. cpStore' = cpStore /\ cpSess' = cpSess /\ upSess' = upSess /\ created' = created
      BY <1>1, AsksEffect
    <2> QED BY <2>2, <2>3, <2>4, StillUncreated DEF Installed
  <1>2. ASSUME NEW c \in CPFs, NEW t \in Threads, NEW u \in UPFs, StartEstablish(c, t, u)
        PROVE  Uncreated'
    <2>1. PICK s \in Seids :
             /\ Call(c, t, "establish", u, s, BasePdrs)
             /\ \A r \in Seids : r[2] > created'[r[1]] <=> r[2] > created[r[1]] /\ r # s
             /\ cpStore' = cpStore \cup {s} /\ upSess' = upSess
             /\ \A r \in Seids : r # s => cpSess'[r] = cpSess[r]
      BY <1>2, CreateEffect
    <2>2. "establish" \in Ops /\ BasePdrs \in SUBSET Pdrs
      BY DEF Ops, Pdrs
    <2>3. /\ \E r \in Request : r.seid = s /\ requests' = requests \cup {r}
          /\ call'[c][t].seid = s
          /\ \A d \in CPFs, x \in Threads : d # c \/ x # t => call'[d][x] = call[d][x]
      BY <2>1, <2>2, Sent
    <2> QED BY <2>1, <2>3 DEF Uncreated, Installed
  <1>3. ASSUME NEW c \in CPFs, NEW t \in Threads, NEW s \in Seids, NEW p \in ExtraPdrs,
               StartModify(c, t, s, p)
        PROVE  Uncreated'
    <2>1. /\ s \in cpStore /\ cpSess[s].upf \in UPFs /\ {p} \in SUBSET Pdrs
          /\ Call(c, t, "modify", cpSess[s].upf, s, {p})
          /\ upSess' = upSess /\ cpStore' = cpStore /\ created' = created
          /\ \A r \in Seids : cpSess'[r].fteid = cpSess[r].fteid
      BY <1>3, ModifyEffect
    <2>2. "modify" \in Ops
      BY DEF Ops
    <2>3. /\ \E r \in Request : r.seid = s /\ requests' = requests \cup {r}
          /\ call'[c][t].seid = s
          /\ \A d \in CPFs, x \in Threads : d # c \/ x # t => call'[d][x] = call[d][x]
      BY <2>1, <2>2, Sent
    <2> QED BY <2>1, <2>3, StillUncreated DEF Installed
  <1>4. ASSUME NEW c \in CPFs, NEW t \in Threads, Ends(c, t) \/ EndEstablish(c, t)
        PROVE  Uncreated'
    <2>1. PICK op \in Ops : Returning(c, t, op)
      BY <1>4, EndsEffect DEF EndEstablish, Ops
    <2>2. /\ requests' = requests /\ upSess' = upSess /\ call'[c][t].seid = None
          /\ \A d \in CPFs, x \in Threads : d # c \/ x # t => call'[d][x] = call[d][x]
      BY <2>1, Returned, CallTypes
    <2>3. cpStore' \subseteq cpStore /\ created' = created
      BY <1>4, EndsEffect, EstablishedEffect
    <2>4. \A s \in Seids : cpSess'[s].fteid # 0 =>
             cpSess[s].fteid # 0 \/ call[c][t].seid = s
      BY <1>4, EndsEffect, EstablishedEffect
    <2> QED BY <2>2, <2>3, <2>4, StillUncreated DEF Installed
  <1>5. ASSUME NEW c \in CPFs, NEW t \in Threads, TimeoutLost(c, t) \/ TimeoutLate(c, t)
        PROVE  Uncreated'
    <2>1. GiveUp(c, t)
      BY <1>5 DEF TimeoutLost, TimeoutLate
    <2>2. \A m \in requests' : \E n \in requests : m.seid = n.seid
      BY <1>5, LateEffect, DisownedFields DEF TimeoutLost
    <2>3. \A d \in CPFs, x \in Threads : call'[d][x].seid = call[d][x].seid
      BY <2>1, GaveUp
    <2>4. cpStore' = cpStore /\ created' = created /\ cpSess' = cpSess /\ upSess' = upSess
      BY <2>1, GaveUp
    <2> QED BY <2>2, <2>3, <2>4, StillUncreated DEF Installed
  <1>6. ASSUME NEW m \in requests, Clears(m) PROVE Uncreated'
    <2>1. /\ Answer(m, "accepted", 0)
          /\ \A u \in UPFs, s \in Seids : upSess'[u][s] \in {upSess[u][s], NoSession}
      BY <1>6, ClearsEffect
    <2>2. /\ requests' \subseteq requests /\ call' = call
          /\ cpStore' = cpStore /\ created' = created /\ cpSess' = cpSess
      BY <2>1, Answered DEF Causes
    <2> QED BY <2>1, <2>2, ClearedInstalled, StillUncreated
  <1>7. ASSUME NEW m \in requests, ServeModify(m) \/ ServeEstablish(m) PROVE Uncreated'
    <2>1. \E a \in Causes, f \in Nat : Answer(m, a, f)
      BY <1>7, ServeModifyEffect, ServeEstablishEffect DEF Causes
    <2>2. /\ requests' \subseteq requests /\ call' = call
          /\ cpStore' = cpStore /\ created' = created /\ cpSess' = cpSess
      BY <2>1, Answered
    <2>3. \A u \in UPFs, s \in Seids : Installed(u, s)' => Installed(u, s) \/ m.seid = s
      BY <1>7, ServeModifyEffect, ServeEstablishEffect DEF Installed
    <2> QED BY <2>2, <2>3, StillUncreated
  <1>8. ASSUME NEW m \in replies, ReceiveReply(m) PROVE Uncreated'
    <2>1. /\ requests' = requests /\ cpSess' = cpSess /\ upSess' = upSess
          /\ cpStore' = cpStore /\ created' = created
          /\ \A d \in CPFs, x \in Threads : call'[d][x].seid = call[d][x].seid
      BY <1>8, Received
    <2> QED BY <2>1, StillUncreated DEF Installed
  <1>9. ASSUME NEW m \in updates, ReceiveUpdate(m) PROVE Uncreated'
    <2>1. /\ requests' = requests /\ cpSess' = cpSess /\ upSess' = upSess
          /\ cpStore' \subseteq cpStore /\ created' = created
          /\ \A d \in CPFs, x \in Threads :
                call'[d][x].seid = None \/ call'[d][x].seid = call[d][x].seid
      BY <1>9, Updated DEF Threads
    <2> QED BY <2>1, StillUncreated DEF Installed
  <1>10. ASSUME NEW u \in UPFs, Restart(u) PROVE Uncreated'
    <2>1. /\ requests' = requests /\ cpSess' = cpSess /\ call' = call
          /\ cpStore' = cpStore /\ created' = created
          /\ \A v \in UPFs, s \in Seids : upSess'[v][s] \in {upSess[v][s], NoSession}
      BY <1>10, RestartEffect
    <2> QED BY <2>1, ClearedInstalled, StillUncreated
  <1>11. ASSUME Lose \/ UNCHANGED <<cpStore, cpSess, created, call, upSess, requests>>
         PROVE  Uncreated'
    <2>1. /\ requests' \subseteq requests /\ cpSess' = cpSess /\ call' = call
          /\ upSess' = upSess /\ cpStore' = cpStore /\ created' = created
      BY <1>11, LoseEffect
    <2> QED BY <2>1, StillUncreated DEF Installed
  <1> QED
    BY <1>1, <1>2, <1>3, <1>4, <1>5, <1>6, <1>7, <1>8, <1>9, <1>10, <1>11, StepKinds

---------------------------------------------------------------------------
(* Establishments. *)

(* Steps that begin no establishment keep those under way unique and       *)
(* unanswered.                                                             *)
LEMMA StillOnce ==
  ASSUME TypeOK, EstablishOnce,
         \A d \in CPFs, x \in Threads : call'[d][x].op = "establish" =>
             /\ call[d][x].op = "establish" /\ call'[d][x].seid = call[d][x].seid
             /\ cpSess'[call[d][x].seid].fteid = cpSess[call[d][x].seid].fteid,
         \A m \in requests' : m.op = "establish" =>
             /\ m \in requests /\ cpSess'[m.seid].fteid = cpSess[m.seid].fteid
             /\ \A u \in UPFs : Installed(u, m.seid)' => Installed(u, m.seid),
         \A m \in requests, x \in Threads :
             m.op = "establish" /\ call[m.cpf][x].op = "establish"
                                /\ call[m.cpf][x].seid = m.seid
                 => (call'[m.cpf][x].op = "establish"
                        => call'[m.cpf][x].answer \in {call[m.cpf][x].answer, "timeout"})
  PROVE  EstablishOnce'
  <1>1. ASSUME NEW d \in CPFs, NEW x \in Threads, call'[d][x].op = "establish"
        PROVE  /\ cpSess'[call'[d][x].seid].fteid = 0
               /\ \A y \in Threads : call'[d][y].op = "establish"
                        /\ call'[d][y].seid = call'[d][x].seid => y = x
    BY <1>1 DEF EstablishOnce
  <1>2. ASSUME NEW m \in requests', m.op = "establish"
        PROVE  /\ cpSess'[m.seid].fteid = 0
               /\ \A u \in UPFs : ~ Installed(u, m.seid)'
               /\ \A n \in requests' : n.op = "establish" /\ n.seid = m.seid => n = m
               /\ \A x \in Threads :
                     call'[m.cpf][x].op = "establish" /\ call'[m.cpf][x].seid = m.seid
                         => m.tag = x \/ call'[m.cpf][x].answer = "timeout"
    <2>1. m \in requests /\ m.cpf \in CPFs
      BY <1>2, MessageFields
    <2> QED BY <1>2, <2>1 DEF EstablishOnce
  <1> QED BY <1>1, <1>2 DEF EstablishOnce

(* A new session has one establishment under way. *)
LEMMA CreateOnce ==
  ASSUME TypeOK, AtHome, Uncreated, EstablishOnce,
         NEW c \in CPFs, NEW t \in Threads, NEW u \in UPFs, StartEstablish(c, t, u)
  PROVE  EstablishOnce'
  <1>1. PICK s \in Seids :
           /\ s[1] = c /\ s[2] > created[s[1]]
           /\ call[c][t].op = "idle" /\ Call(c, t, "establish", u, s, BasePdrs)
           /\ cpSess'[s].fteid = 0 /\ \A r \in Seids : r # s => cpSess'[r] = cpSess[r]
           /\ upSess' = upSess
    BY CreateEffect
  <1>2. "establish" \in Ops /\ BasePdrs \in SUBSET Pdrs
    BY DEF Ops, Pdrs
  <1>3. PICK q \in Request :
           q.op = "establish" /\ q.cpf = c /\ q.seid = s /\ q.tag = t
               /\ requests' = requests \cup {q}
    BY <1>1, <1>2, Sent
  <1>4. /\ call'[c][t].op = "establish" /\ call'[c][t].seid = s
        /\ \A d \in CPFs, x \in Threads : d # c \/ x # t => call'[d][x] = call[d][x]
    BY <1>1, <1>2, Sent
  <1>5. /\ \A v \in UPFs : ~ Installed(v, s)
        /\ \A m \in requests : m.seid # s
        /\ \A d \in CPFs, x \in Threads : call[d][x].seid # s
    BY <1>1 DEF Uncreated
  <1>6. /\ \A d \in CPFs, x \in Threads : call[d][x].op = "establish" => call[d][x].seid \in Seids
        /\ \A m \in requests : m.op = "establish" => m.seid \in Seids
    BY DEF AtHome, SessionOps
  <1>7. ASSUME NEW d \in CPFs, NEW x \in Threads, call'[d][x].op = "establish"
        PROVE  /\ cpSess'[call'[d][x].seid].fteid = 0
               /\ \A y \in Threads : call'[d][y].op = "establish"
                        /\ call'[d][y].seid = call'[d][x].seid => y = x
    <2>1. CASE d = c /\ x = t
      BY <1>1, <1>4, <1>5, <2>1
    <2>2. CASE d # c \/ x # t
      BY <1>1, <1>4, <1>5, <1>6, <1>7, <2>2 DEF EstablishOnce
    <2> QED BY <2>1, <2>2
  <1>8. ASSUME NEW m \in requests', m.op = "establish"
        PROVE  /\ cpSess'[m.seid].fteid = 0
               /\ \A v \in UPFs : ~ Installed(v, m.seid)'
               /\ \A n \in requests' : n.op = "establish" /\ n.seid = m.seid => n = m
               /\ \A x \in Threads :
                     call'[m.cpf][x].op = "establish" /\ call'[m.cpf][x].seid = m.seid
                         => m.tag = x \/ call'[m.cpf][x].answer = "timeout"
    <2>1. CASE m = q
      BY <1>1, <1>3, <1>4, <1>5, <2>1 DEF Installed
    <2>2. CASE m # q
      <3>1. m \in requests /\ m.cpf \in CPFs /\ m.seid \in Seids /\ m.seid # s
        BY <1>3, <1>5, <1>6, <1>8, <2>2, MessageFields
      <3> QED BY <1>1, <1>3, <1>4, <1>8, <3>1 DEF EstablishOnce, Installed
    <2> QED BY <2>1, <2>2
  <1> QED BY <1>7, <1>8 DEF EstablishOnce

(* An establishment given up too early remains the only one of its         *)
(* session.                                                                *)
LEMMA LateOnce ==
  ASSUME TypeOK, EstablishOnce, NEW c \in CPFs, NEW t \in Threads, TimeoutLate(c, t)
  PROVE  EstablishOnce'
  <1>1. PICK x \in Strays : requests' = Disowned(requests, c, t, x)
    BY LateEffect
  <1>2. \A m \in requests' : \E n \in requests :
               /\ Mine(n, c, t) => m = [n EXCEPT !.tag = x] /\ m.tag = x
               /\ ~ Mine(n, c, t) => m = n
               /\ m.op = n.op /\ m.cpf = n.cpf /\ m.seid = n.seid
    BY <1>1, DisownedFields
  <1>3. /\ \A d \in CPFs, y \in Threads :
              call'[d][y].op = call[d][y].op /\ call'[d][y].seid = call[d][y].seid
        /\ \A d \in CPFs, y \in Threads : d # c \/ y # t => call'[d][y] = call[d][y]
        /\ call'[c][t].answer = "timeout"
        /\ cpSess' = cpSess /\ upSess' = upSess
    BY LateEffect, GaveUp
  <1>4. ASSUME NEW m \in requests', m.op = "establish"
        PROVE  /\ cpSess'[m.seid].fteid = 0
               /\ \A v \in UPFs : ~ Installed(v, m.seid)'
               /\ \A k \in requests' : k.op = "establish" /\ k.seid = m.seid => k = m
               /\ \A y \in Threads :
                     call'[m.cpf][y].op = "establish" /\ call'[m.cpf][y].seid = m.seid
                         => m.tag = y \/ call'[m.cpf][y].answer = "timeout"
    <2>1. PICK n \in requests :
               /\ Mine(n, c, t) => m = [n EXCEPT !.tag = x] /\ m.tag = x
               /\ ~ Mine(n, c, t) => m = n
               /\ m.op = n.op /\ m.cpf = n.cpf /\ m.seid = n.seid
      BY <1>2
    <2>2. /\ cpSess[n.seid].fteid = 0
          /\ \A v \in UPFs : ~ Installed(v, n.seid)
          /\ \A k \in requests : k.op = "establish" /\ k.seid = n.seid => k = n
          /\ \A y \in Threads :
                call[n.cpf][y].op = "establish" /\ call[n.cpf][y].seid = n.seid
                    => n.tag = y \/ call[n.cpf][y].answer = "timeout"
      BY <1>4, <2>1 DEF EstablishOnce
    <2>3. \A k \in requests' : k.op = "establish" /\ k.seid = m.seid => k = m
      BY <1>2, <2>1, <2>2
    <2>4. n.cpf \in CPFs
      BY MessageFields
    <2>5. ASSUME NEW y \in Threads, call'[m.cpf][y].op = "establish",
                 call'[m.cpf][y].seid = m.seid
          PROVE  m.tag = y \/ call'[m.cpf][y].answer = "timeout"
      BY <1>3, <2>1, <2>2, <2>4, <2>5 DEF Mine
    <2> QED BY <1>3, <2>1, <2>2, <2>3, <2>5 DEF Installed
  <1>5. ASSUME NEW d \in CPFs, NEW y \in Threads, call'[d][y].op = "establish"
        PROVE  /\ cpSess'[call'[d][y].seid].fteid = 0
               /\ \A z \in Threads : call'[d][z].op = "establish"
                        /\ call'[d][z].seid = call'[d][y].seid => z = y
    BY <1>3, <1>5 DEF EstablishOnce
  <1> QED BY <1>4, <1>5 DEF EstablishOnce

(* Every step keeps establishments unique. *)
LEMMA OnceStep ==
  ASSUME TypeOK, OneInFlight, AwaitedByCaller, AtHome, Uncreated, EstablishOnce, [Next]_vars
  PROVE  EstablishOnce'
  <1>1. ASSUME NEW c \in CPFs, NEW t \in Threads, Asks(c, t) PROVE EstablishOnce'
    <2>1. PICK op \in {"setup", "release", "delete"}, u \in UPFs, s \in Seids \cup {None} :
             Call(c, t, op, u, s, {})
      BY <1>1, AsksEffect
    <2>2. op \in Ops /\ op # "establish" /\ {} \in SUBSET Pdrs
      BY DEF Ops
    <2>3. /\ \E r \in Request : r.op = op /\ requests' = requests \cup {r}
          /\ call'[c][t].op = op
          /\ \A d \in CPFs, x \in Threads : d # c \/ x # t => call'[d][x] = call[d][x]
      BY <2>1, <2>2, Sent
    <2>4. cpSess' = cpSess /\ upSess' = upSess
      BY <1>1, AsksEffect
    <2> QED BY <2>2, <2>3, <2>4, StillOnce, MessageFields DEF Installed
  <1>2. ASSUME NEW c \in CPFs, NEW t \in Threads, NEW s \in Seids, NEW p \in ExtraPdrs,
               StartModify(c, t, s, p)
        PROVE  EstablishOnce'
    <2>1. /\ cpSess[s].upf \in UPFs /\ {p} \in SUBSET Pdrs
          /\ Call(c, t, "modify", cpSess[s].upf, s, {p})
          /\ upSess' = upSess /\ \A r \in Seids : cpSess'[r].fteid = cpSess[r].fteid
      BY <1>2, ModifyEffect
    <2>2. "modify" \in Ops
      BY DEF Ops
    <2>3. /\ \E r \in Request : r.op = "modify" /\ requests' = requests \cup {r}
          /\ call'[c][t].op = "modify"
          /\ \A d \in CPFs, x \in Threads : d # c \/ x # t => call'[d][x] = call[d][x]
      BY <2>1, <2>2, Sent
    <2>4. /\ \A d \in CPFs, x \in Threads : call[d][x].op = "establish" => call[d][x].seid \in Seids
          /\ \A m \in requests : m.op = "establish" => m.seid \in Seids
      BY DEF AtHome, SessionOps
    <2> QED BY <2>1, <2>3, <2>4, StillOnce, MessageFields DEF Installed
  <1>3. ASSUME NEW c \in CPFs, NEW t \in Threads, Ends(c, t) PROVE EstablishOnce'
    <2>1. PICK op \in Ops : Returning(c, t, op)
      BY <1>3, EndsEffect DEF Ops
    <2>2. /\ requests' = requests /\ upSess' = upSess /\ call'[c][t].op # "establish"
          /\ \A d \in CPFs, x \in Threads : d # c \/ x # t => call'[d][x] = call[d][x]
      BY <2>1, Returned, CallTypes
    <2>3. cpSess' = cpSess
      BY <1>3, EndsEffect
    <2> QED BY <2>2, <2>3, StillOnce, MessageFields DEF Installed
  <1>4. ASSUME NEW c \in CPFs, NEW t \in Threads, EndEstablish(c, t) PROVE EstablishOnce'
    <2> DEFINE k == call[c][t]
    <2>1. /\ Returning(c, t, "establish") /\ k.seid \in Seids
          /\ \A s \in Seids : s # k.seid => cpSess'[s] = cpSess[s]
          /\ k.answer # "accepted" => cpSess' = cpSess
      BY <1>4, EstablishedEffect
    <2>2. /\ k.op = "establish" /\ k.answer # "pending"
          /\ requests' = requests /\ upSess' = upSess /\ call'[c][t].op # "establish"
          /\ \A d \in CPFs, x \in Threads : d # c \/ x # t => call'[d][x] = call[d][x]
      BY <2>1, Returned, CallTypes
    <2>3. /\ \A d \in CPFs, x \in Threads : call[d][x].op = "establish" =>
                call[d][x].seid \in Seids /\ call[d][x].seid[1] = d
          /\ \A m \in requests : m.op = "establish" => m.seid \in Seids /\ m.seid[1] = m.cpf
      BY DEF AtHome, SessionOps
    <2>4. \A d \in CPFs, x \in Threads : call'[d][x].op = "establish" =>
             /\ call[d][x].op = "establish" /\ call'[d][x].seid = call[d][x].seid
             /\ call[d][x].seid # k.seid
      BY <2>2, <2>3 DEF EstablishOnce
    <2>5. ASSUME NEW m \in requests, m.op = "establish", k.answer = "accepted"
          PROVE  m.seid # k.seid
      <3>1. SUFFICES ASSUME m.seid = k.seid PROVE FALSE
        OBVIOUS
      <3>2. m.cpf = c
        BY <2>2, <2>3, <2>5, <3>1
      <3>3. m.tag = t
        BY <2>2, <2>5, <3>1, <3>2 DEF EstablishOnce
      <3> QED BY <2>2, <3>2, <3>3 DEF AwaitedByCaller
    <2> HIDE DEF k
    <2>6. \A d \in CPFs, x \in Threads : call'[d][x].op = "establish" =>
             /\ call[d][x].op = "establish" /\ call'[d][x].seid = call[d][x].seid
             /\ cpSess'[call[d][x].seid].fteid = cpSess[call[d][x].seid].fteid
      BY <2>1, <2>3, <2>4
    <2>7. \A m \in requests' : m.op = "establish" =>
             /\ m \in requests /\ cpSess'[m.seid].fteid = cpSess[m.seid].fteid
             /\ \A u \in UPFs : Installed(u, m.seid)' => Installed(u, m.seid)
      BY <2>1, <2>2, <2>3, <2>5 DEF Installed
    <2> QED BY <2>2, <2>6, <2>7, StillOnce, MessageFields
  <1>5. ASSUME NEW c \in CPFs, NEW t \in Threads, TimeoutLost(c, t) PROVE EstablishOnce'
    <2>1. GiveUp(c, t) /\ requests' = requests
      BY <1>5 DEF TimeoutLost
    <2>2. /\ \A d \in CPFs, x \in Threads :
                /\ call'[d][x].op = call[d][x].op /\ call'[d][x].seid = call[d][x].seid
                /\ call'[d][x].answer \in {call[d][x].answer, "timeout"}
          /\ cpSess' = cpSess /\ upSess' = upSess
      BY <2>1, GaveUp
    <2> QED BY <2>1, <2>2, StillOnce, MessageFields DEF Installed
  <1>6. ASSUME NEW m \in requests, Clears(m) PROVE EstablishOnce'
    <2>1. /\ Answer(m, "accepted", 0)
          /\ \A u \in UPFs, s \in Seids : upSess'[u][s] \in {upSess[u][s], NoSession}
      BY <1>6, ClearsEffect
    <2>2. requests' \subseteq requests /\ call' = call /\ cpSess' = cpSess
      BY <2>1, Answered DEF Causes
    <2>3. \A n \in requests : n.op = "establish" => n.seid \in Seids
      BY DEF AtHome, SessionOps
    <2> QED BY <2>1, <2>2, <2>3, ClearedInstalled, StillOnce
  <1>7. ASSUME NEW m \in requests, ServeModify(m) PROVE EstablishOnce'
    <2>1. /\ \E a \in Causes : Answer(m, a, 0)
          /\ \A u \in UPFs, s \in Seids : Installed(u, s)' <=> Installed(u, s)
      BY <1>7, ServeModifyEffect
    <2>2. requests' \subseteq requests /\ call' = call /\ cpSess' = cpSess
      BY <2>1, Answered
    <2>3. \A n \in requests : n.op = "establish" => n.seid \in Seids
      BY DEF AtHome, SessionOps
    <2> QED BY <2>1, <2>2, <2>3, StillOnce
  <1>8. ASSUME NEW m \in requests, ServeEstablish(m) PROVE EstablishOnce'
    <2>1. /\ m.op = "establish" /\ Answer(m, "accepted", teid[m.upf] + 1)
          /\ teid[m.upf] + 1 \in Nat
          /\ \A u \in UPFs, s \in Seids :
                u # m.upf \/ s # m.seid => upSess'[u][s] = upSess[u][s]
      BY <1>8, ServeEstablishEffect
    <2>2. requests' = requests \ {m} /\ call' = call /\ cpSess' = cpSess
      BY <2>1, Answered DEF Causes
    <2>3. \A n \in requests : n.op = "establish" => n.seid \in Seids
      BY DEF AtHome, SessionOps
    <2>4. \A n \in requests' : n.op = "establish" => n.seid # m.seid
      BY <2>1, <2>2 DEF EstablishOnce
    <2>5. \A n \in requests' : n.op = "establish" =>
             \A u \in UPFs : Installed(u, n.seid)' => Installed(u, n.seid)
      BY <2>1, <2>2, <2>3, <2>4 DEF Installed
    <2> QED BY <2>2, <2>5, StillOnce
  <1>9. ASSUME NEW n \in replies, ReceiveReply(n) PROVE EstablishOnce'
    <2>1. /\ requests' = requests /\ cpSess' = cpSess /\ upSess' = upSess
          /\ \A d \in CPFs, x \in Threads :
                call'[d][x].op = call[d][x].op /\ call'[d][x].seid = call[d][x].seid
          /\ \A d \in CPFs, x \in Threads : d # n.cpf \/ x # n.tag => call'[d][x] = call[d][x]
      BY <1>9, Received
    <2>2. ASSUME NEW m \in requests, NEW x \in Threads, m.op = "establish",
                 call[m.cpf][x].op = "establish", call[m.cpf][x].seid = m.seid
          PROVE  m.cpf # n.cpf \/ x # n.tag
      <3>1. m.tag = x \/ call[m.cpf][x].answer = "timeout"
        BY <2>2 DEF EstablishOnce
      <3>2. n.tag \in Threads => call[n.cpf][n.tag].answer = "pending"
        BY DEF AwaitedByCaller
      <3> QED BY <3>1, <3>2 DEF OneInFlight
    <2>3. \A m \in requests : m.cpf \in CPFs
      BY MessageFields
    <2> QED BY <2>1, <2>2, <2>3, StillOnce DEF Installed
  <1>10. ASSUME NEW m \in updates, ReceiveUpdate(m) PROVE EstablishOnce'
    <2>1. /\ requests' = requests /\ cpSess' = cpSess /\ upSess' = upSess
          /\ \A d \in CPFs, x \in Threads : call'[d][x].op = "establish" =>
                call'[d][x] = call[d][x]
      BY <1>10, Updated DEF Threads
    <2> QED BY <2>1, StillOnce, MessageFields DEF Installed
  <1>11. ASSUME NEW u \in UPFs, Restart(u) PROVE EstablishOnce'
    <2>1. /\ requests' = requests /\ cpSess' = cpSess /\ call' = call
          /\ \A v \in UPFs, s \in Seids : upSess'[v][s] \in {upSess[v][s], NoSession}
      BY <1>11, RestartEffect
    <2>2. \A n \in requests : n.op = "establish" => n.seid \in Seids
      BY DEF AtHome, SessionOps
    <2> QED BY <2>1, <2>2, ClearedInstalled, StillOnce
  <1>12. ASSUME Lose \/ UNCHANGED <<cpSess, call, upSess, requests>> PROVE EstablishOnce'
    <2>1. requests' \subseteq requests /\ cpSess' = cpSess /\ call' = call /\ upSess' = upSess
      BY <1>12, LoseEffect
    <2> QED BY <2>1, StillOnce DEF Installed
  <1> QED
    BY <1>1, CreateOnce, <1>2, <1>3, <1>4, <1>5, LateOnce, <1>6, <1>7, <1>8, <1>9, <1>10,
       <1>11, <1>12, StepKinds

---------------------------------------------------------------------------
(* F-TEIDs. *)

(* Where an F-TEID may stand: Held(u, s), spelled out. *)
Stands(u, s, f) ==
    \/ Installed(u, s) /\ upSess[u][s].fteid = f
    \/ \E m \in replies :
          /\ m.tag \in Threads /\ m.upf = u /\ m.fteid = f
          /\ call[m.cpf][m.tag].op = "establish" /\ call[m.cpf][m.tag].seid = s
    \/ \E t \in Threads :
          /\ call[s[1]][t].op = "establish" /\ call[s[1]][t].seid = s
          /\ call[s[1]][t].upf = u /\ call[s[1]][t].answer = "accepted"
          /\ call[s[1]][t].fteid = f
    \/ cpSess[s].upf = u /\ cpSess[s].fteid = f /\ f # 0

(* Held is the set of the F-TEIDs that stand. *)
LEMMA HeldMeans ==
    \A u, s, f : /\ f \in Held(u, s) <=> Stands(u, s, f)
                 /\ f \in Held(u, s)' <=> Stands(u, s, f)'
  BY DEF Held, Stands, Installed

(* Steps that only pass F-TEIDs on hold no new ones. *)
LEMMA StillHeld ==
  ASSUME TypeOK,
         \A u \in UPFs, s \in Seids : Installed(u, s)' =>
             Installed(u, s) /\ upSess'[u][s].fteid = upSess[u][s].fteid,
         \A m \in replies' : m.tag \in Threads /\ call'[m.cpf][m.tag].op = "establish" =>
             /\ m \in replies /\ call[m.cpf][m.tag].op = "establish"
             /\ call'[m.cpf][m.tag].seid = call[m.cpf][m.tag].seid,
         \A d \in CPFs, x \in Threads :
             call'[d][x].op = "establish" /\ call'[d][x].answer = "accepted" =>
                 LET k == call[d][x]
                     l == call'[d][x] IN
                 /\ k.op = "establish" /\ l.upf = k.upf /\ l.seid = k.seid
                 /\ \/ k.answer = "accepted" /\ l.fteid = k.fteid
                    \/ \E n \in replies : /\ n.cpf = d /\ n.tag = x /\ n.upf = k.upf
                                          /\ n.fteid = l.fteid,
         \A s \in Seids : cpSess'[s].fteid # 0 =>
             /\ cpSess'[s].upf = cpSess[s].upf
             /\ \/ cpSess'[s].fteid = cpSess[s].fteid
                \/ \E x \in Threads :
                      LET k == call[s[1]][x] IN
                      /\ k.op = "establish" /\ k.seid = s /\ k.upf = cpSess[s].upf
                      /\ k.answer = "accepted" /\ k.fteid = cpSess'[s].fteid
  PROVE  \A u \in UPFs, s \in Seids : Held(u, s)' \subseteq Held(u, s)
  <1> SUFFICES ASSUME NEW u \in UPFs, NEW s \in Seids, NEW f, Stands(u, s, f)'
               PROVE  Stands(u, s, f)
    BY HeldMeans
  <1>1. s[1] \in CPFs
    BY DEF Seids
  <1>2. CASE Installed(u, s)' /\ upSess'[u][s].fteid = f
    BY <1>2 DEF Stands
  <1>3. CASE \E m \in replies' :
               /\ m.tag \in Threads /\ m.upf = u /\ m.fteid = f
               /\ call'[m.cpf][m.tag].op = "establish" /\ call'[m.cpf][m.tag].seid = s
    BY <1>3 DEF Stands
  <1>4. CASE \E x \in Threads :
               /\ call'[s[1]][x].op = "establish" /\ call'[s[1]][x].seid = s
               /\ call'[s[1]][x].upf = u /\ call'[s[1]][x].answer = "accepted"
               /\ call'[s[1]][x].fteid = f
    BY <1>1, <1>4, SMTT(30) DEF Stands
  <1>5. CASE cpSess'[s].upf = u /\ cpSess'[s].fteid = f /\ f # 0
    BY <1>5, SMTT(30) DEF Stands
  <1> QED BY <1>2, <1>3, <1>4, <1>5 DEF Stands

(* No step but the service of an establishment makes up an F-TEID.         *)
LEMMA HeldStep ==
  ASSUME TypeOK, OneInFlight, AwaitedByCaller, AtHome, Uncreated, [Next]_vars,
         \A m \in requests : ~ ServeEstablish(m)
  PROVE  /\ \A u \in UPFs, s \in Seids : Installed(u, s)' =>
               Installed(u, s) /\ upSess'[u][s].fteid = upSess[u][s].fteid
         /\ \A u \in UPFs, s \in Seids : Held(u, s)' \subseteq Held(u, s)
  <1> DEFINE SameUp == \A u \in UPFs, s \in Seids : Installed(u, s)' =>
                          Installed(u, s) /\ upSess'[u][s].fteid = upSess[u][s].fteid
             SameHeld == \A u \in UPFs, s \in Seids : Held(u, s)' \subseteq Held(u, s)
  <1>0. \A m \in replies : m.cpf \in CPFs
    BY MessageFields
  <1>1. ASSUME NEW c \in CPFs, NEW t \in Threads, NEW op \in Ops, NEW u \in UPFs,
               NEW s \in Seids \cup {None}, NEW P \in SUBSET Pdrs, Call(c, t, op, u, s, P),
               call[c][t].op \in {"idle", "armed"}, upSess' = upSess,
               \A r \in Seids : cpSess'[r].fteid # 0 =>
                   cpSess'[r].upf = cpSess[r].upf /\ cpSess'[r].fteid = cpSess[r].fteid
        PROVE  SameUp /\ SameHeld
    <2>1. /\ call'[c][t].answer = "pending" /\ replies' = replies
          /\ \A d \in CPFs, x \in Threads : d # c \/ x # t => call'[d][x] = call[d][x]
      BY <1>1, Sent
    <2>2. \A m \in replies : ~ Mine(m, c, t)
      BY <1>1, NothingAwaited DEF Ops
    <2>3. \A m \in replies' : m.tag \in Threads /\ call'[m.cpf][m.tag].op = "establish" =>
             /\ m \in replies /\ call[m.cpf][m.tag].op = "establish"
             /\ call'[m.cpf][m.tag].seid = call[m.cpf][m.tag].seid
      BY <1>0, <2>1, <2>2 DEF Mine
    <2> QED BY <1>1, <2>1, <2>3, StillHeld DEF Installed
  <1>2. ASSUME NEW c \in CPFs, NEW t \in Threads, Asks(c, t) PROVE SameUp /\ SameHeld
    <2>1. PICK op \in {"setup", "release", "delete"}, u \in UPFs, s \in Seids \cup {None} :
             Call(c, t, op, u, s, {})
      BY <1>2, AsksEffect
    <2>2. op \in Ops /\ {} \in SUBSET Pdrs
      BY DEF Ops
    <2>3. cpSess' = cpSess /\ upSess' = upSess /\ call[c][t].op \in {"idle", "armed"}
      BY <1>2, AsksEffect
    <2> QED BY <1>1, <2>1, <2>2, <2>3
  <1>3. ASSUME NEW c \in CPFs, NEW t \in Threads, NEW u \in UPFs, StartEstablish(c, t, u)
        PROVE  SameUp /\ SameHeld
    <2>1. PICK s \in Seids :
             /\ call[c][t].op = "idle" /\ Call(c, t, "establish", u, s, BasePdrs)
             /\ cpSess'[s].fteid = 0 /\ \A r \in Seids : r # s => cpSess'[r] = cpSess[r]
             /\ upSess' = upSess
      BY <1>3, CreateEffect
    <2>2. "establish" \in Ops /\ BasePdrs \in SUBSET Pdrs
      BY DEF Ops, Pdrs
    <2> QED BY <1>1, <2>1, <2>2
  <1>4. ASSUME NEW c \in CPFs, NEW t \in Threads, NEW s \in Seids, NEW p \in ExtraPdrs,
               StartModify(c, t, s, p)
        PROVE  SameUp /\ SameHeld
    <2>1. /\ cpSess[s].upf \in UPFs /\ {p} \in SUBSET Pdrs /\ call[c][t].op = "idle"
          /\ Call(c, t, "modify", cpSess[s].upf, s, {p})
          /\ upSess' = upSess
          /\ \A r \in Seids : cpSess'[r].upf = cpSess[r].upf /\ cpSess'[r].fteid = cpSess[r].fteid
      BY <1>4, ModifyEffect
    <2>2. "modify" \in Ops
      BY DEF Ops
    <2> QED BY <1>1, <2>1, <2>2
  <1>5. ASSUME NEW c \in CPFs, NEW t \in Threads, Ends(c, t) \/ EndEstablish(c, t)
        PROVE  SameUp /\ SameHeld
    <2>1. PICK op \in Ops : Returning(c, t, op)
      BY <1>5, EndsEffect DEF EndEstablish, Ops
    <2>2. /\ call'[c][t].op = "idle" /\ replies' = replies /\ upSess' = upSess
          /\ \A d \in CPFs, x \in Threads : d # c \/ x # t => call'[d][x] = call[d][x]
      BY <2>1, Returned, CallTypes
    <2>3. ASSUME NEW s \in Seids, cpSess'[s].fteid # 0
          PROVE  /\ cpSess'[s].upf = cpSess[s].upf
                 /\ \/ cpSess'[s].fteid = cpSess[s].fteid
                    \/ \E x \in Threads :
                          LET k == call[s[1]][x] IN
                          /\ k.op = "establish" /\ k.seid = s /\ k.upf = cpSess[s].upf
                          /\ k.answer = "accepted" /\ k.fteid = cpSess'[s].fteid
      <3>1. CASE Ends(c, t)
        BY <3>1, EndsEffect
      <3>2. CASE EndEstablish(c, t)
        <4>1. /\ cpSess'[s].upf = cpSess[s].upf
              /\ cpSess'[s].fteid = cpSess[s].fteid
                 \/ /\ s = call[c][t].seid /\ call[c][t].answer = "accepted"
                    /\ cpSess'[s].fteid = call[c][t].fteid
          BY <3>2, EstablishedEffect
        <4>2. call[c][t].op = "establish"
          BY <3>2 DEF EndEstablish, Returning
        <4>3. call[c][t].seid[1] = c /\ cpSess[call[c][t].seid].upf = call[c][t].upf
          BY <4>2 DEF AtHome, SessionOps
        <4> QED BY <4>1, <4>2, <4>3
      <3> QED BY <1>5, <3>1, <3>2
    <2>4. \A m \in replies' : m.tag \in Threads /\ call'[m.cpf][m.tag].op = "establish" =>
             /\ m \in replies /\ call[m.cpf][m.tag].op = "establish"
             /\ call'[m.cpf][m.tag].seid = call[m.cpf][m.tag].seid
      BY <1>0, <2>2
    <2>5. \A d \in CPFs, x \in Threads : call'[d][x].op = "establish" =>
             call'[d][x] = call[d][x]
      BY <2>2
    <2> QED BY <2>2, <2>3, <2>4, <2>5, StillHeld DEF Installed
  <1>6. ASSUME NEW c \in CPFs, NEW t \in Threads, TimeoutLost(c, t) \/ TimeoutLate(c, t)
        PROVE  SameUp /\ SameHeld
    <2>1. GiveUp(c, t)
      BY <1>6 DEF TimeoutLost, TimeoutLate
    <2>2. /\ call'[c][t].answer = "timeout"
          /\ \A d \in CPFs, x \in Threads :
                call'[d][x].op = call[d][x].op /\ call'[d][x].seid = call[d][x].seid
          /\ \A d \in CPFs, x \in Threads : d # c \/ x # t => call'[d][x] = call[d][x]
          /\ cpSess' = cpSess /\ upSess' = upSess
      BY <2>1, GaveUp
    <2>3. \A m \in replies' : m.tag \in Threads => m \in replies
      <3>1. CASE TimeoutLost(c, t)
        BY <3>1 DEF TimeoutLost
      <3>2. CASE TimeoutLate(c, t)
        <4>1. PICK x \in Strays : replies' = Disowned(replies, c, t, x)
          BY <3>2, LateEffect
        <4>2. x \notin Threads
          BY SxAssumption DEF Threads
        <4> QED BY <4>1, <4>2, DisownedFields
      <3> QED BY <1>6, <3>1, <3>2
    <2> QED BY <1>0, <2>2, <2>3, StillHeld DEF Installed
  <1>7. ASSUME NEW m \in requests, NEW a \in Causes, NEW f \in Nat, Answer(m, a, f),
               m.op # "establish", SameUp
        PROVE  SameHeld
    <2>1. /\ call' = call /\ cpSess' = cpSess
          /\ \E r \in Reply : r.cpf = m.cpf /\ r.tag = m.tag /\ replies' = replies \cup {r}
      BY <1>7, Answered
    <2>2. m.tag \in Threads => call[m.cpf][m.tag].op # "establish"
      BY <1>7 DEF AwaitedByCaller
    <2> QED BY <1>7, <2>1, <2>2, StillHeld
  <1>8. ASSUME NEW m \in requests, Clears(m) PROVE SameUp /\ SameHeld
    <2>1. /\ Answer(m, "accepted", 0) /\ m.op # "establish"
          /\ \A u \in UPFs, s \in Seids : upSess'[u][s] \in {upSess[u][s], NoSession}
      BY <1>8, ClearsEffect
    <2>2. SameUp
      BY <2>1, ClearedInstalled
    <2> QED BY <1>7, <2>1, <2>2 DEF Causes
  <1>9. ASSUME NEW m \in requests, ServeModify(m) PROVE SameUp /\ SameHeld
    <2>1. (\E a \in Causes : Answer(m, a, 0)) /\ m.op # "establish" /\ SameUp
      BY <1>9, ServeModifyEffect
    <2> QED BY <1>7, <2>1
  <1>10. ASSUME NEW n \in replies, ReceiveReply(n) PROVE SameUp /\ SameHeld
    <2>1. /\ replies' = replies \ {n} /\ cpSess' = cpSess /\ upSess' = upSess
          /\ \A d \in CPFs, x \in Threads :
                /\ call'[d][x].op = call[d][x].op /\ call'[d][x].seid = call[d][x].seid
                /\ call'[d][x].upf = call[d][x].upf
          /\ \A d \in CPFs, x \in Threads : d # n.cpf \/ x # n.tag => call'[d][x] = call[d][x]
          /\ n.tag \in Threads => call'[n.cpf][n.tag].fteid = n.fteid
      BY <1>10, Received
    <2>2. n.tag \in Threads => call[n.cpf][n.tag].upf = n.upf
      BY DEF AwaitedByCaller
    <2> QED BY <1>0, <2>1, <2>2, StillHeld DEF Installed
  <1>11. ASSUME NEW m \in updates, ReceiveUpdate(m) PROVE SameUp /\ SameHeld
    <2>1. /\ replies' = replies /\ cpSess' = cpSess /\ upSess' = upSess
          /\ \A d \in CPFs, x \in Threads : call'[d][x].op = "establish" =>
                call'[d][x] = call[d][x]
      BY <1>11, Updated DEF Threads
    <2> QED BY <1>0, <2>1, StillHeld DEF Installed
  <1>12. ASSUME NEW u \in UPFs, Restart(u) PROVE SameUp /\ SameHeld
    <2>1. /\ replies' = replies /\ cpSess' = cpSess /\ call' = call
          /\ \A v \in UPFs, s \in Seids : upSess'[v][s] \in {upSess[v][s], NoSession}
      BY <1>12, RestartEffect
    <2> QED BY <2>1, ClearedInstalled, StillHeld
  <1>13. ASSUME Lose \/ UNCHANGED <<cpSess, call, upSess, replies>> PROVE SameUp /\ SameHeld
    <2>1. replies' \subseteq replies /\ cpSess' = cpSess /\ call' = call /\ upSess' = upSess
      BY <1>13, LoseEffect
    <2> QED BY <2>1, StillHeld DEF Installed
  <1> HIDE DEF SameUp, SameHeld
  <1>14. SameUp /\ SameHeld
    BY <1>2, <1>3, <1>4, <1>5, <1>6, <1>8, <1>9, <1>10, <1>11, <1>12, <1>13, StepKinds
  <1> QED BY <1>14 DEF SameUp, SameHeld

(* The service of an establishment draws the one F-TEID of its session.    *)
LEMMA HeldServed ==
  ASSUME TypeOK, OneInFlight, AwaitedByCaller, AtHome, EstablishOnce,
         NEW m \in requests, ServeEstablish(m)
  PROVE  /\ m.seid \in Seids /\ m.upf \in UPFs
         /\ \A u \in UPFs, s \in Seids : \A f :
               f \in Held(u, s)' =>
                   \/ s # m.seid /\ f \in Held(u, s)
                   \/ s = m.seid /\ u = m.upf /\ f = teid[m.upf] + 1
         /\ \A u \in UPFs, s \in Seids : s # m.seid =>
               (Installed(u, s)' => Installed(u, s) /\ upSess'[u][s] = upSess[u][s])
  <1>1. /\ m.op = "establish" /\ m.seid \in Seids /\ m.upf \in UPFs /\ m.cpf \in CPFs
        /\ upSess'[m.upf][m.seid].fteid = teid[m.upf] + 1
        /\ \A u \in UPFs, s \in Seids : u # m.upf \/ s # m.seid => upSess'[u][s] = upSess[u][s]
        /\ Answer(m, "accepted", teid[m.upf] + 1) /\ teid[m.upf] + 1 \in Nat
    BY ServeEstablishEffect, MessageFields
  <1>2. PICK r \in Reply :
           /\ r.cpf = m.cpf /\ r.upf = m.upf /\ r.tag = m.tag /\ r.fteid = teid[m.upf] + 1
           /\ replies' = replies \cup {r}
    BY <1>1, Answered DEF Causes
  <1>3. call' = call /\ cpSess' = cpSess
    BY <1>1, Answered DEF Causes
  <1>4. /\ cpSess[m.seid].fteid = 0
        /\ \A u \in UPFs : ~ Installed(u, m.seid)
        /\ \A t \in Threads :
              call[m.cpf][t].op = "establish" /\ call[m.cpf][t].seid = m.seid
                  => m.tag = t \/ call[m.cpf][t].answer = "timeout"
        /\ m.seid[1] = m.cpf
    BY <1>1 DEF EstablishOnce, AtHome, SessionOps
  <1>5. m.tag \in Threads =>
            call[m.cpf][m.tag].seid = m.seid /\ call[m.cpf][m.tag].answer = "pending"
    BY DEF AwaitedByCaller
  <1>6. ASSUME NEW u \in UPFs, NEW s \in Seids, NEW f, Stands(u, s, f)'
        PROVE  \/ s # m.seid /\ Stands(u, s, f)
               \/ s = m.seid /\ u = m.upf /\ f = teid[m.upf] + 1
    <2>1. CASE Installed(u, s)' /\ upSess'[u][s].fteid = f
      BY <1>1, <1>4, <2>1 DEF Stands, Installed
    <2>2. CASE \E n \in replies' :
                 /\ n.tag \in Threads /\ n.upf = u /\ n.fteid = f
                 /\ call'[n.cpf][n.tag].op = "establish" /\ call'[n.cpf][n.tag].seid = s
      <3>1. PICK n \in replies' :
                 /\ n.tag \in Threads /\ n.upf = u /\ n.fteid = f
                 /\ call[n.cpf][n.tag].op = "establish" /\ call[n.cpf][n.tag].seid = s
        BY <1>3, <2>2
      <3>2. CASE n = r
        BY <1>2, <1>5, <3>1, <3>2
      <3>3. CASE n \in replies
        <4>1. n.cpf \in CPFs /\ call[n.cpf][n.tag].answer = "pending"
          BY <3>1, <3>3, MessageFields DEF AwaitedByCaller
        <4>2. s[1] = n.cpf
          BY <3>1, <4>1 DEF AtHome, SessionOps
        <4>3. s # m.seid
          BY <1>4, <3>1, <3>3, <4>1, <4>2 DEF OneInFlight
        <4> QED BY <3>1, <3>3, <4>3 DEF Stands
      <3> QED BY <1>2, <3>2, <3>3
    <2>3. CASE \E t \in Threads :
                 /\ call'[s[1]][t].op = "establish" /\ call'[s[1]][t].seid = s
                 /\ call'[s[1]][t].upf = u /\ call'[s[1]][t].answer = "accepted"
                 /\ call'[s[1]][t].fteid = f
      BY <1>3, <1>4, <1>5, <2>3 DEF Stands
    <2>4. CASE cpSess'[s].upf = u /\ cpSess'[s].fteid = f /\ f # 0
      BY <1>3, <1>4, <2>4 DEF Stands
    <2> QED BY <1>6, <2>1, <2>2, <2>3, <2>4 DEF Stands
  <1>7. \A u \in UPFs, s \in Seids : \A f :
            f \in Held(u, s)' =>
                \/ s # m.seid /\ f \in Held(u, s)
                \/ s = m.seid /\ u = m.upf /\ f = teid[m.upf] + 1
    BY <1>6, HeldMeans
  <1>8. \A u \in UPFs, s \in Seids : s # m.seid =>
            (Installed(u, s)' => Installed(u, s) /\ upSess'[u][s] = upSess[u][s])
    BY <1>1 DEF Installed
  <1> QED BY <1>1, <1>7, <1>8

(* Every step keeps the F-TEIDs of an installed session equal. *)
LEMMA CarriedStep ==
  ASSUME TypeOK, OneInFlight, AwaitedByCaller, AtHome, Uncreated, EstablishOnce,
         FteidCarried, [Next]_vars
  PROVE  FteidCarried'
  <1> SUFFICES ASSUME NEW u \in UPFs, NEW s \in Seids, Installed(u, s)'
               PROVE  Held(u, s)' = {upSess'[u][s].fteid}
    BY DEF FteidCarried
  <1>1. upSess'[u][s].fteid \in Held(u, s)'
    BY HeldMeans DEF Stands
  <1>2. CASE \A m \in requests : ~ ServeEstablish(m)
    <2>1. /\ Installed(u, s) /\ upSess'[u][s].fteid = upSess[u][s].fteid
          /\ Held(u, s)' \subseteq Held(u, s)
      BY <1>2, HeldStep
    <2> QED BY <1>1, <2>1 DEF FteidCarried
  <1>3. CASE \E m \in requests : ServeEstablish(m)
    <2>1. PICK m \in requests : ServeEstablish(m)
      BY <1>3
    <2>2. CASE s = m.seid
      BY <1>1, <2>1, <2>2, HeldServed
    <2>3. CASE s # m.seid
      <3>1. Installed(u, s) /\ upSess'[u][s] = upSess[u][s]
        BY <2>1, <2>3, HeldServed
      <3>2. Held(u, s)' \subseteq Held(u, s)
        BY <2>1, <2>3, HeldServed
      <3> QED BY <1>1, <3>1, <3>2 DEF FteidCarried
    <2> QED BY <2>2, <2>3
  <1> QED BY <1>2, <1>3

---------------------------------------------------------------------------
(* Rules. *)

(* Every step keeps the rules of requests and UPFs among those of the CPF. *)
LEMMA RulesStep ==
  ASSUME TypeOK, AtHome, Uncreated, RulesSent, RulesKnown, [Next]_vars
  PROVE  RulesSent' /\ RulesKnown'
  <1>0. /\ \A m \in requests : m.op \in {"establish", "modify"} => m.seid \in Seids
        /\ requests \subseteq Request
    BY DEF AtHome, SessionOps, TypeOK
  <1>1. ASSUME requests' \subseteq requests,
               \A s \in Seids : cpSess[s].pdrs \subseteq cpSess'[s].pdrs,
               \A u \in UPFs, s \in Seids : Installed(u, s)' =>
                   \/ Installed(u, s) /\ upSess'[u][s].pdrs = upSess[u][s].pdrs
                   \/ \E m \in requests :
                         /\ m.op = "establish" /\ m.seid = s
                         /\ upSess'[u][s].pdrs = m.pdrs
                   \/ \E m \in requests :
                         /\ m.op = "modify" /\ m.seid = s /\ Installed(u, s)
                         /\ upSess'[u][s].pdrs = upSess[u][s].pdrs \cup m.pdrs
        PROVE  RulesSent' /\ RulesKnown'
    <2>1. RulesSent'
      BY <1>0, <1>1 DEF RulesSent
    <2>2. RulesKnown'
      BY <1>0, <1>1 DEF RulesSent, RulesKnown
    <2> QED BY <2>1, <2>2
  <1>2. ASSUME NEW c \in CPFs, NEW t \in Threads, Asks(c, t) PROVE RulesSent' /\ RulesKnown'
    <2>1. PICK op \in {"setup", "release", "delete"}, u \in UPFs, s \in Seids \cup {None} :
             Call(c, t, op, u, s, {})
      BY <1>2, AsksEffect
    <2>2. op \in Ops /\ {} \in SUBSET Pdrs
      BY DEF Ops
    <2>3. \E r \in Request : r.op = op /\ requests' = requests \cup {r}
      BY <2>1, <2>2, Sent
    <2>4. cpSess' = cpSess /\ upSess' = upSess
      BY <1>2, AsksEffect
    <2> QED BY <2>3, <2>4 DEF RulesSent, RulesKnown, Installed
  <1>3. ASSUME NEW c \in CPFs, NEW t \in Threads, NEW u \in UPFs, StartEstablish(c, t, u)
        PROVE  RulesSent' /\ RulesKnown'
    <2>1. PICK s \in Seids :
             /\ s[2] > created[s[1]] /\ Call(c, t, "establish", u, s, BasePdrs)
             /\ cpSess'[s].pdrs = BasePdrs /\ upSess' = upSess
             /\ \A r \in Seids : r # s => cpSess'[r] = cpSess[r]
      BY <1>3, CreateEffect
    <2>2. "establish" \in Ops /\ BasePdrs \in SUBSET Pdrs
      BY DEF Ops, Pdrs
    <2>3. \E r \in Request : r.seid = s /\ r.pdrs = BasePdrs /\ requests' = requests \cup {r}
      BY <2>1, <2>2, Sent
    <2>4. /\ \A v \in UPFs : ~ Installed(v, s)
          /\ \A m \in requests : m.seid # s
      BY <2>1 DEF Uncreated
    <2>5. RulesSent'
      BY <1>0, <2>1, <2>3, <2>4 DEF RulesSent
    <2>6. RulesKnown'
      BY <2>1, <2>4 DEF RulesKnown, Installed
    <2> QED BY <2>5, <2>6
  <1>4. ASSUME NEW c \in CPFs, NEW t \in Threads, NEW s \in Seids, NEW p \in ExtraPdrs,
               StartModify(c, t, s, p)
        PROVE  RulesSent' /\ RulesKnown'
    <2>1. /\ cpSess[s].upf \in UPFs /\ {p} \in SUBSET Pdrs
          /\ Call(c, t, "modify", cpSess[s].upf, s, {p})
          /\ upSess' = upSess /\ cpSess'[s].pdrs = cpSess[s].pdrs \cup {p}
          /\ \A r \in Seids : r # s => cpSess'[r] = cpSess[r]
      BY <1>4, ModifyEffect
    <2>2. "modify" \in Ops
      BY DEF Ops
    <2>3. \E r \in Request : r.seid = s /\ r.pdrs = {p} /\ requests' = requests \cup {r}
      BY <2>1, <2>2, Sent
    <2>4. \A r \in Seids : cpSess[r].pdrs \subseteq cpSess'[r].pdrs
      BY <2>1
    <2>5. RulesSent'
      BY <1>0, <2>1, <2>3, <2>4 DEF RulesSent
    <2>6. RulesKnown'
      BY <2>1, <2>4 DEF RulesKnown, Installed
    <2> QED BY <2>5, <2>6
  <1>5. ASSUME NEW c \in CPFs, NEW t \in Threads, Ends(c, t) \/ EndEstablish(c, t)
        PROVE  RulesSent' /\ RulesKnown'
    <2>1. PICK op \in Ops : Returning(c, t, op)
      BY <1>5, EndsEffect DEF EndEstablish, Ops
    <2>2. \A s \in Seids : cpSess'[s].pdrs = cpSess[s].pdrs
      BY <1>5, EndsEffect, EstablishedEffect
    <2>3. requests' = requests /\ upSess' = upSess
      BY <2>1, Returned
    <2> QED BY <1>1, <2>2, <2>3 DEF Installed
  <1>6. ASSUME NEW c \in CPFs, NEW t \in Threads, TimeoutLost(c, t)
        PROVE  RulesSent' /\ RulesKnown'
    <2>1. requests' = requests /\ cpSess' = cpSess /\ upSess' = upSess
      BY <1>6, GaveUp DEF TimeoutLost
    <2> QED BY <1>1, <2>1 DEF Installed
  <1>7. ASSUME NEW c \in CPFs, NEW t \in Threads, TimeoutLate(c, t)
        PROVE  RulesSent' /\ RulesKnown'
    <2>1. cpSess' = cpSess /\ upSess' = upSess
      BY <1>7, LateEffect, GaveUp
    <2>2. \A m \in requests' : \E n \in requests :
             m.op = n.op /\ m.seid = n.seid /\ m.pdrs = n.pdrs
      BY <1>7, LateEffect, DisownedFields
    <2> QED BY <2>1, <2>2 DEF RulesSent, RulesKnown, Installed
  <1>8. ASSUME NEW m \in requests, Clears(m) PROVE RulesSent' /\ RulesKnown'
    <2>1. /\ Answer(m, "accepted", 0)
          /\ \A u \in UPFs, s \in Seids : upSess'[u][s] \in {upSess[u][s], NoSession}
      BY <1>8, ClearsEffect
    <2>2. requests' \subseteq requests /\ cpSess' = cpSess
      BY <2>1, Answered DEF Causes
    <2> QED BY <1>1, <2>1, <2>2, ClearedInstalled
  <1>9. ASSUME NEW m \in requests, ServeModify(m) PROVE RulesSent' /\ RulesKnown'
    <2>1. /\ m.op = "modify" /\ \E a \in Causes : Answer(m, a, 0)
          /\ \A u \in UPFs, s \in Seids :
                /\ Installed(u, s)' <=> Installed(u, s)
                /\ upSess'[u][s] # upSess[u][s] =>
                      /\ s = m.seid
                      /\ upSess'[u][s].pdrs = upSess[u][s].pdrs \cup m.pdrs
      BY <1>9, ServeModifyEffect
    <2>2. requests' \subseteq requests /\ cpSess' = cpSess
      BY <2>1, Answered
    <2> QED BY <1>1, <2>1, <2>2
  <1>10. ASSUME NEW m \in requests, ServeEstablish(m) PROVE RulesSent' /\ RulesKnown'
    <2>1. /\ m.op = "establish" /\ Answer(m, "accepted", teid[m.upf] + 1)
          /\ teid[m.upf] + 1 \in Nat /\ upSess'[m.upf][m.seid].pdrs = m.pdrs
          /\ \A u \in UPFs, s \in Seids :
                u # m.upf \/ s # m.seid => upSess'[u][s] = upSess[u][s]
      BY <1>10, ServeEstablishEffect
    <2>2. requests' \subseteq requests /\ cpSess' = cpSess
      BY <2>1, Answered DEF Causes
    <2> QED BY <1>1, <2>1, <2>2 DEF Installed
  <1>11. ASSUME NEW u \in UPFs, Restart(u) PROVE RulesSent' /\ RulesKnown'
    <2>1. /\ requests' = requests /\ cpSess' = cpSess
          /\ \A v \in UPFs, s \in Seids : upSess'[v][s] \in {upSess[v][s], NoSession}
      BY <1>11, RestartEffect
    <2> QED BY <1>1, <2>1, ClearedInstalled
  <1>12. ASSUME \/ Lose
                \/ \E m \in replies : ReceiveReply(m)
                \/ \E m \in updates : ReceiveUpdate(m)
                \/ UNCHANGED <<cpSess, upSess, requests>>
         PROVE  RulesSent' /\ RulesKnown'
    <2>1. requests' \subseteq requests /\ cpSess' = cpSess /\ upSess' = upSess
      BY <1>12, LoseEffect, Received, Updated
    <2> QED BY <1>1, <2>1 DEF Installed
  <1> QED
    BY <1>2, <1>3, <1>4, <1>5, <1>6, <1>7, <1>8, <1>9, <1>10, <1>11, <1>12, StepKinds

---------------------------------------------------------------------------
(* The inductive invariant holds initially. *)
LEMMA InitInvariant == Init => IInv
  <1> SUFFICES ASSUME Init PROVE IInv
    OBVIOUS
  <1>1. TypeOK /\ requests = {} /\ replies = {} /\ cpStore = {}
    BY InitTypeOK DEF Init
  <1>2. /\ \A c \in CPFs, t \in Threads : call[c][t] = Idle
        /\ \A s \in Seids : cpSess[s].fteid = 0
        /\ \A u \in UPFs, s \in Seids : ~ Installed(u, s)
    BY DEF Init, Installed
  <1>3. Idle.op = "idle" /\ Idle.seid = None /\ \A s \in Seids : s # None
    BY CallTypes, SxAssumption
  <1>4. OneInFlight /\ AwaitedByCaller
    BY <1>1 DEF OneInFlight, AwaitedByCaller
  <1>5. AtHome
    BY <1>1, <1>2, <1>3 DEF AtHome, SessionOps
  <1>6. Uncreated
    BY <1>1, <1>2, <1>3 DEF Uncreated
  <1>7. EstablishOnce
    BY <1>1, <1>2, <1>3 DEF EstablishOnce
  <1>8. FteidCarried /\ RulesSent /\ RulesKnown
    BY <1>1, <1>2 DEF FteidCarried, RulesSent, RulesKnown
  <1> QED BY <1>1, <1>4, <1>5, <1>6, <1>7, <1>8 DEF IInv

(* Every step keeps the inductive invariant. *)
LEMMA InvariantStep == IInv /\ [Next]_vars => IInv'
  <1> SUFFICES ASSUME IInv, [Next]_vars PROVE IInv'
    OBVIOUS
  <1> USE DEF IInv
  <1>1. TypeOK'
    BY TypeStep
  <1>2. OneInFlight' /\ AwaitedByCaller'
    BY MessagesStep
  <1>3. AtHome'
    BY AtHomeStep
  <1>4. Uncreated'
    BY UncreatedStep
  <1>5. EstablishOnce'
    BY OnceStep
  <1>6. FteidCarried'
    BY CarriedStep
  <1>7. RulesSent' /\ RulesKnown'
    BY RulesStep
  <1> QED BY <1>1, <1>2, <1>3, <1>4, <1>5, <1>6, <1>7

(* The inductive invariant holds always. *)
THEOREM Invariant == Spec => []IInv
  BY InitInvariant, InvariantStep, PTL DEF Spec

(* The F-TEID that a CPF has learned for a session is the one its UPF has  *)
(* installed, whatever is lost, late, released or restarted, for any       *)
(* number of CPFs, UPFs, threads and sessions.                             *)
THEOREM FteidAgreementHolds == Spec => []FteidAgreement
  <1>1. IInv => FteidAgreement
    <2> SUFFICES ASSUME IInv, NEW u \in UPFs, NEW s \in Seids, Confirmed(s), Installed(u, s)
                 PROVE  cpSess[s].fteid = upSess[u][s].fteid
      BY DEF FteidAgreement
    <2>1. cpSess[s].upf = u /\ cpSess[s].fteid # 0
      BY DEF IInv, AtHome, Confirmed
    <2>2. cpSess[s].fteid \in Held(u, s)
      BY <2>1, HeldMeans DEF Stands
    <2> QED BY <2>2 DEF IInv, FteidCarried
  <1> QED BY <1>1, Invariant, PTL

(* A UPF never applies a rule that the CPF's own copy of the session does  *)
(* not show.                                                               *)
THEOREM RulesKnownHolds == Spec => []RulesKnown
  <1>1. IInv => RulesKnown
    BY DEF IInv
  <1> QED BY <1>1, Invariant, PTL

=============================================================================
