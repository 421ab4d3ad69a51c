------------------------- MODULE SxConditionProofs -------------------------
(***************************************************************************)
(* Proofs of the safety invariants of Sx that hold under conditions on the *)
(* nodes and the network; each theorem names its own as ASSUME.  In the    *)
(* code they are: a UPF process that is not restarted, a UPF with a single *)
(* CPF, an operator who waits for each command to end, a user-plane        *)
(* service left as it is, and messages that arrive before the thread that  *)
(* waits for them gives up.                                                *)
(***************************************************************************)
EXTENDS SxSafetyProofs

---------------------------------------------------------------------------
(* No UPF restarts: F-TEIDs are drawn once. *)

(* The pool of a UPF moves when an establishment is served, or with a      *)
(* restart.                                                                *)
LEMMA PoolStep ==
  ASSUME IInv, MaxRestarts = 0, [Next]_vars, \A m \in requests : ~ ServeEstablish(m)
  PROVE  teid' = teid
  <1> USE DEF IInv
  <1>1. ASSUME NEW c \in CPFs, NEW t \in Threads, Asks(c, t) PROVE teid' = teid
    BY <1>1, AsksEffect
  <1>2. ASSUME NEW c \in CPFs, NEW t \in Threads, NEW u \in UPFs, StartEstablish(c, t, u)
        PROVE  teid' = teid
    BY <1>2, CreateEffect
  <1>3. ASSUME NEW c \in CPFs, NEW t \in Threads, NEW s \in Seids, NEW p \in ExtraPdrs,
               StartModify(c, t, s, p)
        PROVE  teid' = teid
    BY <1>3, ModifyEffect
  <1>4. ASSUME NEW c \in CPFs, NEW t \in Threads, Ends(c, t) \/ EndEstablish(c, t)
        PROVE  teid' = teid
    <2>1. PICK op \in Ops : Returning(c, t, op)
      BY <1>4, EndsEffect DEF EndEstablish, Ops
    <2> QED BY <2>1, Returned
  <1>5. ASSUME NEW c \in CPFs, NEW t \in Threads, TimeoutLost(c, t) \/ TimeoutLate(c, t)
        PROVE  teid' = teid
    BY <1>5, GaveUp DEF TimeoutLost, TimeoutLate
  <1>6. ASSUME NEW m \in requests, Clears(m) \/ ServeModify(m) PROVE teid' = teid
    BY <1>6, ClearsEffect, ServeModifyEffect
  <1>7. ASSUME NEW m \in replies, ReceiveReply(m) PROVE teid' = teid
    BY <1>7, Received
  <1>8. ASSUME NEW m \in updates, ReceiveUpdate(m) PROVE teid' = teid
    BY <1>8, Updated
  <1>9. ASSUME NEW u \in UPFs, Restart(u) PROVE FALSE
    BY <1>9 DEF Restart, TypeOK
  <1>10. ASSUME Lose PROVE teid' = teid
    BY <1>10, LoseEffect
  <1> QED
    BY <1>1, <1>2, <1>3, <1>4, <1>5, <1>6, <1>7, <1>8, <1>9, <1>10, StepKinds

(* Without restarts every step keeps each F-TEID drawn for one session. *)
LEMMA DrawnStep ==
  ASSUME IInv, FteidsDrawn, MaxRestarts = 0, [Next]_vars
  PROVE  FteidsDrawn'
  <1> USE DEF IInv
  <1>1. CASE \A m \in requests : ~ ServeEstablish(m)
    <2>1. teid' = teid
      BY <1>1, PoolStep
    <2>2. \A u \in UPFs, s \in Seids : Held(u, s)' \subseteq Held(u, s)
      BY <1>1, HeldStep
    <2> QED BY <2>1, <2>2 DEF FteidsDrawn
  <1>2. CASE \E m \in requests : ServeEstablish(m)
    <2>1. PICK m \in requests : ServeEstablish(m)
      BY <1>2
    <2>2. /\ m.seid \in Seids /\ m.upf \in UPFs
          /\ \A u \in UPFs, s \in Seids : \A f :
                f \in Held(u, s)' =>
                    \/ s # m.seid /\ f \in Held(u, s)
                    \/ s = m.seid /\ u = m.upf /\ f = teid[m.upf] + 1
      BY <2>1, HeldServed
    <2>3. /\ teid \in [UPFs -> Nat] /\ teid'[m.upf] = teid[m.upf] + 1
          /\ \A u \in UPFs : u # m.upf => teid'[u] = teid[u]
      BY <2>1, ServeEstablishEffect DEF TypeOK
    <2>4. \A u \in UPFs, s \in Seids : \A f :
             f \in Held(u, s) => f \in Nat /\ 1 <= f /\ f <= teid[u]
      BY <2>3 DEF FteidsDrawn
    <2>5. \A u \in UPFs : /\ teid[u] \in Nat /\ teid'[u] \in Nat /\ teid[u] <= teid'[u]
                          /\ u = m.upf => teid[u] + 1 <= teid'[u]
      BY <2>2, <2>3
    <2>6. ASSUME NEW u \in UPFs, NEW s \in Seids, NEW f, f \in Held(u, s)'
          PROVE  f \in 1 .. teid'[u]
      BY <2>2, <2>4, <2>5, <2>6
    <2>7. ASSUME NEW u \in UPFs, NEW s1 \in Seids, NEW s2 \in Seids, s1 # s2,
                 NEW f, f \in Held(u, s1)', f \in Held(u, s2)'
          PROVE  FALSE
      <3>1. CASE s1 # m.seid /\ s2 # m.seid
        BY <2>2, <2>7, <3>1 DEF FteidsDrawn
      <3>2. CASE s1 = m.seid
        <4>1. f = teid[u] + 1 /\ f \in Held(u, s2)
          BY <2>2, <2>7, <3>2
        <4> QED BY <2>4, <2>5, <4>1
      <3>3. CASE s2 = m.seid
        <4>1. f = teid[u] + 1 /\ f \in Held(u, s1)
          BY <2>2, <2>7, <3>3
        <4> QED BY <2>4, <2>5, <4>1
      <3> QED BY <3>1, <3>2, <3>3
    <2> QED BY <2>6, <2>7 DEF FteidsDrawn
  <1> QED BY <1>1, <1>2

(* As long as no UPF restarts, no two sessions have, or are believed to    *)
(* have, the same F-TEID on a UPF: for any number of CPFs that share it    *)
(* and whatever the network does.                                          *)
THEOREM FteidExclusiveHolds ==
  ASSUME MaxRestarts = 0
  PROVE  Spec => []FteidExclusive
  <1>1. Init => FteidsDrawn
    <2> SUFFICES ASSUME Init PROVE FteidsDrawn
      OBVIOUS
    <2>1. /\ replies = {} /\ \A c \in CPFs, t \in Threads : call[c][t] = Idle
          /\ \A s \in Seids : cpSess[s].fteid = 0
          /\ \A u \in UPFs, s \in Seids : ~ Installed(u, s)
      BY DEF Init, Installed
    <2>2. Idle.op = "idle" /\ \A s \in Seids : s[1] \in CPFs
      BY CallTypes DEF Seids
    <2>3. \A u \in UPFs, s \in Seids : \A f : ~ Stands(u, s, f)
      BY <2>1, <2>2 DEF Stands
    <2> QED BY <2>3, HeldMeans DEF FteidsDrawn
  <1>2. IInv /\ FteidsDrawn /\ [Next]_vars => FteidsDrawn'
    BY DrawnStep
  <1>3. IInv /\ FteidsDrawn => FteidExclusive
    <2> SUFFICES ASSUME IInv, FteidsDrawn, NEW s1 \in Seids, NEW s2 \in Seids, s1 # s2
                 PROVE  /\ Confirmed(s1) /\ Confirmed(s2) /\ cpSess[s1].upf = cpSess[s2].upf
                               => cpSess[s1].fteid # cpSess[s2].fteid
                        /\ \A u \in UPFs : Installed(u, s1) /\ Installed(u, s2)
                               => upSess[u][s1].fteid # upSess[u][s2].fteid
      BY DEF FteidExclusive
    <2>1. ASSUME Confirmed(s1), Confirmed(s2), cpSess[s1].upf = cpSess[s2].upf
          PROVE  cpSess[s1].fteid # cpSess[s2].fteid
      <3> DEFINE u == cpSess[s1].upf
      <3>1. u \in UPFs
        BY <2>1 DEF IInv, TypeOK, Confirmed
      <3>2. cpSess[s1].fteid \in Held(u, s1) /\ cpSess[s2].fteid \in Held(u, s2)
        BY <2>1, HeldMeans DEF Stands, Confirmed
      <3> QED BY <3>1, <3>2 DEF FteidsDrawn
    <2>2. ASSUME NEW u \in UPFs, Installed(u, s1), Installed(u, s2)
          PROVE  upSess[u][s1].fteid # upSess[u][s2].fteid
      <3>1. upSess[u][s1].fteid \in Held(u, s1) /\ upSess[u][s2].fteid \in Held(u, s2)
        BY <2>2, HeldMeans DEF Stands
      <3> QED BY <3>1 DEF FteidsDrawn
    <2> QED BY <2>1, <2>2
  <1> QED BY <1>1, <1>2, <1>3, Invariant, PTL DEF Spec

---------------------------------------------------------------------------
(* One CPF, no restarts, and no message served after its thread gave up:   *)
(* a session that its UPF has accepted is there.                           *)

(* A session that is leaving goes on leaving while its threads stay in     *)
(* their procedures.                                                       *)
LEMMA StillLeaving ==
  ASSUME NEW s \in Seids, cpSess'[s].upf = cpSess[s].upf,
         \A x \in Threads :
             LET k == call[s[1]][x]
                 l == call'[s[1]][x] IN
             k.op \in {"delete", "release"} => l.op = k.op /\ l.upf = k.upf /\ l.seid = k.seid
  PROVE  Leaving(s) => Leaving(s)'
  BY DEF Leaving

(* A session is accepted only when its UPF accepts it. *)
LEMMA NotAcceptedYet ==
  ASSUME NEW s \in Seids, cpSess'[s].fteid # 0 => Accepted(s),
         \A x \in Threads :
             LET k == call[s[1]][x]
                 l == call'[s[1]][x] IN
             l.op = "establish" /\ l.seid = s =>
                 /\ k.op = "establish" /\ k.seid = s
                 /\ l.answer = "accepted" \/ (\E n \in replies' : Mine(n, s[1], x)) =>
                       k.answer = "accepted" \/ (\E n \in replies : Mine(n, s[1], x))
  PROVE  Accepted(s)' => Accepted(s)
  BY DEF Accepted

(* Steps after which an accepted session was accepted before, and is where *)
(* it was unless it is leaving.                                            *)
LEMMA StillThere ==
  ASSUME AcceptedThere,
         \A s \in Seids : s \in cpStore' =>
             \/ /\ s \in cpStore
                /\ Accepted(s)' => Accepted(s)
                /\ Leaving(s) => Leaving(s)'
                /\ Installed(cpSess[s].upf, s) => Installed(cpSess[s].upf, s)' \/ Leaving(s)'
             \/ ~ Accepted(s)'
             \/ Installed(cpSess[s].upf, s)'
  PROVE  AcceptedThere'
  BY DEF AcceptedThere

(* Sending a request accepts nothing and takes nothing away. *)
LEMMA SendingThere ==
  ASSUME TypeOK, AwaitedByCaller, AcceptedThere,
         NEW c \in CPFs, NEW t \in Threads, NEW op \in Ops, NEW u \in UPFs,
         NEW s \in Seids \cup {None}, NEW P \in SUBSET Pdrs, Call(c, t, op, u, s, P),
         call[c][t].op \in {"idle", "armed"},
         op = "establish" =>
             /\ s \in Seids /\ s[1] = c /\ cpSess'[s].fteid = 0
             /\ \A x \in Threads : call[c][x].seid # s,
         upSess' = upSess,
         \A r \in Seids : r \in cpStore' /\ ~ (op = "establish" /\ r = s) =>
             /\ r \in cpStore /\ cpSess'[r].upf = cpSess[r].upf
             /\ cpSess'[r].fteid = cpSess[r].fteid
  PROVE  AcceptedThere'
  <1>1. /\ call'[c][t].op = op /\ call'[c][t].seid = s /\ call'[c][t].answer = "pending"
        /\ \A d \in CPFs, x \in Threads : d # c \/ x # t => call'[d][x] = call[d][x]
        /\ replies' = replies
    BY Sent
  <1>2. \A n \in replies : ~ Mine(n, c, t)
    BY NothingAwaited DEF Ops
  <1>3. \A r \in Seids : r[1] \in CPFs
    BY DEF Seids
  <1>4. ASSUME op = "establish" PROVE ~ Accepted(s)'
    BY <1>1, <1>2, <1>4 DEF Accepted
  <1>5. ASSUME NEW r \in Seids, r \in cpStore', ~ (op = "establish" /\ r = s)
        PROVE  /\ r \in cpStore
               /\ Accepted(r)' => Accepted(r)
               /\ Leaving(r) => Leaving(r)'
               /\ Installed(cpSess[r].upf, r) => Installed(cpSess[r].upf, r)'
    <2>1. /\ r \in cpStore /\ cpSess'[r].upf = cpSess[r].upf
          /\ cpSess'[r].fteid = cpSess[r].fteid
      BY <1>5
    <2>2. Leaving(r) => Leaving(r)'
      BY <1>1, <1>3, <2>1, StillLeaving
    <2>3. cpSess'[r].fteid # 0 => Accepted(r)
      BY <2>1 DEF Accepted
    <2>4. Accepted(r)' => Accepted(r)
      BY <1>1, <1>3, <1>5, <2>3, NotAcceptedYet
    <2> QED BY <2>1, <2>2, <2>4 DEF Installed
  <1> QED BY <1>4, <1>5, StillThere

(* The service of a request other than an establishment accepts nothing.   *)
LEMMA AnsweringThere ==
  ASSUME TypeOK, AwaitedByCaller, AcceptedThere,
         NEW m \in requests, NEW a \in Causes, NEW f \in Nat, Answer(m, a, f),
         m.op # "establish",
         \A s \in cpStore : Installed(cpSess[s].upf, s) =>
             Installed(cpSess[s].upf, s)' \/ Leaving(s)
  PROVE  AcceptedThere'
  <1>1. /\ call' = call /\ cpSess' = cpSess /\ cpStore' = cpStore
        /\ \E r \in Reply : r.cpf = m.cpf /\ r.tag = m.tag /\ replies' = replies \cup {r}
    BY Answered
  <1>2. m.tag \in Threads => call[m.cpf][m.tag].op # "establish"
    BY DEF AwaitedByCaller
  <1>3. ASSUME NEW s \in Seids PROVE Accepted(s)' => Accepted(s)
    <2>1. cpSess'[s].fteid # 0 => Accepted(s)
      BY <1>1 DEF Accepted
    <2> QED BY <1>1, <1>2, <2>1, NotAcceptedYet DEF Mine
  <1>4. ASSUME NEW s \in Seids PROVE Leaving(s) => Leaving(s)'
    BY <1>1, StillLeaving
  <1> QED BY <1>1, <1>3, <1>4, StillThere

(* With one CPF, what a UPF clears is leaving: a thread of the CPF waits   *)
(* for the answer to its deletion or release.                              *)
LEMMA ClearedLeaving ==
  ASSUME TypeOK, AwaitedByCaller, AtHome, \A c, d \in CPFs : c = d, Strays = {},
         NEW m \in requests, Clears(m), NEW s \in Seids, Installed(cpSess[s].upf, s),
         cpSess[s].upf \in UPFs
  PROVE  Installed(cpSess[s].upf, s)' \/ Leaving(s)
  <1> DEFINE u == cpSess[s].upf
  <1>1. /\ cpSess' = cpSess /\ s[1] \in CPFs /\ m.cpf \in CPFs /\ m.upf \in UPFs
        /\ upSess \in [UPFs -> [Seids -> UpSession]]
    BY ClearsEffect, Answered, MessageFields DEF TypeOK, Seids, Causes
  <1>2. m.tag \in Threads /\ s[1] = m.cpf
    BY <1>1 DEF TypeOK, Request, Tags
  <1>3. /\ call[m.cpf][m.tag].op = m.op /\ call[m.cpf][m.tag].upf = m.upf
        /\ call[m.cpf][m.tag].seid = m.seid
    BY <1>2 DEF AwaitedByCaller
  <1>4. CASE ServeSetup(m)
    BY <1>1, <1>4 DEF ServeSetup, Installed
  <1>5. CASE ServeRelease(m)
    <2>1. CASE u = m.upf
      BY <1>2, <1>3, <1>5, <2>1 DEF ServeRelease, Leaving
    <2>2. CASE u # m.upf
      BY <1>1, <1>5, <2>2 DEF ServeRelease, Installed
    <2> QED BY <2>1, <2>2
  <1>6. CASE ServeDelete(m)
    <2>1. CASE s = m.seid
      BY <1>2, <1>3, <1>6, <2>1 DEF ServeDelete, Leaving
    <2>2. CASE s # m.seid
      <3>1. upSess'[u][s] = upSess[u][s]
        BY <1>1, <1>6, <2>2 DEF ServeDelete
      <3> QED BY <1>1, <3>1 DEF Installed
    <2> QED BY <2>1, <2>2
  <1> QED BY <1>4, <1>5, <1>6 DEF Clears

(* Under these conditions every step keeps accepted sessions there. *)
LEMMA ThereStep ==
  ASSUME IInv, AcceptedThere, \A c, d \in CPFs : c = d, Strays = {}, MaxRestarts = 0,
         [Next]_vars
  PROVE  AcceptedThere'
  <1> USE DEF IInv
  <1>0. \A s \in Seids : s[1] \in CPFs
    BY DEF Seids
  <1>1. ASSUME NEW c \in CPFs, NEW t \in Threads, Asks(c, t) PROVE AcceptedThere'
    <2>1. PICK op \in {"setup", "release", "delete"}, u \in UPFs, s \in Seids \cup {None} :
             Call(c, t, op, u, s, {})
      BY <1>1, AsksEffect
    <2>2. op \in Ops /\ {} \in SUBSET Pdrs /\ op # "establish"
      BY DEF Ops
    <2>3. /\ UNCHANGED <<cpStore, cpSess, upSess>> /\ call[c][t].op \in {"idle", "armed"}
      BY <1>1, AsksEffect
    <2> QED BY <2>1, <2>2, <2>3, SendingThere
  <1>2. ASSUME NEW c \in CPFs, NEW t \in Threads, NEW u \in UPFs, StartEstablish(c, t, u)
        PROVE  AcceptedThere'
    <2>1. PICK s \in Seids :
             /\ s[1] = c /\ s[2] > created[s[1]]
             /\ call[c][t].op = "idle" /\ Call(c, t, "establish", u, s, BasePdrs)
             /\ cpStore' = cpStore \cup {s} /\ cpSess'[s].fteid = 0
             /\ \A r \in Seids : r # s => cpSess'[r] = cpSess[r]
             /\ upSess' = upSess
      BY <1>2, CreateEffect
    <2>2. "establish" \in Ops /\ BasePdrs \in SUBSET Pdrs
      BY DEF Ops, Pdrs
    <2>3. \A x \in Threads : call[c][x].seid # s
      BY <2>1 DEF Uncreated
    <2> QED BY <2>1, <2>2, <2>3, SendingThere
  <1>3. ASSUME NEW c \in CPFs, NEW t \in Threads, NEW s \in Seids, NEW p \in ExtraPdrs,
               StartModify(c, t, s, p)
        PROVE  AcceptedThere'
    <2>1. /\ cpSess[s].upf \in UPFs /\ {p} \in SUBSET Pdrs /\ call[c][t].op = "idle"
          /\ Call(c, t, "modify", cpSess[s].upf, s, {p})
          /\ upSess' = upSess /\ cpStore' = cpStore
          /\ \A r \in Seids : cpSess'[r].upf = cpSess[r].upf /\ cpSess'[r].fteid = cpSess[r].fteid
      BY <1>3, ModifyEffect
    <2>2. "modify" \in Ops
      BY DEF Ops
    <2> QED BY <2>1, <2>2, SendingThere
  <1>4. ASSUME NEW c \in CPFs, NEW t \in Threads, Ends(c, t) \/ EndEstablish(c, t)
        PROVE  AcceptedThere'
    <2>1. PICK op \in Ops : Returning(c, t, op)
      BY <1>4, EndsEffect DEF EndEstablish, Ops
    <2>2. /\ call'[c][t].op = "idle" /\ replies' = replies /\ upSess' = upSess
          /\ \A d \in CPFs, x \in Threads : d # c \/ x # t => call'[d][x] = call[d][x]
      BY <2>1, Returned, CallTypes
    <2>3. \A s \in Seids : /\ cpSess'[s].upf = cpSess[s].upf
                           /\ cpSess'[s].fteid # 0 => Accepted(s)
      <3>1. CASE Ends(c, t)
        BY <3>1, EndsEffect DEF Accepted
      <3>2. CASE EndEstablish(c, t)
        <4>1. call[c][t].op = "establish"
          BY <3>2 DEF EndEstablish, Returning
        <4>2. call[c][t].seid[1] = c
          BY <4>1 DEF AtHome, SessionOps
        <4> QED BY <3>2, <4>1, <4>2, EstablishedEffect DEF Accepted
      <3> QED BY <1>4, <3>1, <3>2
    <2>4. ASSUME NEW s \in Seids PROVE Accepted(s)' => Accepted(s)
      BY <1>0, <2>2, <2>3, NotAcceptedYet
    <2>5. ASSUME NEW s \in Seids, s \in cpStore' PROVE s \in cpStore /\ (Leaving(s) => Leaving(s)')
      <3>1. s \in cpStore
        BY <1>4, <2>5, EndsEffect, EstablishedEffect
      <3>2. s[1] = c => ~ (\/ call[c][t].op = "delete" /\ call[c][t].seid = s
                           \/ call[c][t].op = "release" /\ call[c][t].upf = cpSess[s].upf)
        BY <1>4, <2>5, <3>1 DEF Ends, EndSetup, EndRelease, EndModify, EndDelete, EndEstablish,
                                Returning, SessionsWith
      <3> QED BY <1>0, <2>2, <2>3, <3>1, <3>2 DEF Leaving
    <2>6. \A s \in Seids : Installed(cpSess[s].upf, s) => Installed(cpSess[s].upf, s)'
      BY <2>2, <2>3 DEF Installed
    <2> QED BY <2>4, <2>5, <2>6, StillThere
  <1>5. ASSUME NEW c \in CPFs, NEW t \in Threads, TimeoutLost(c, t) PROVE AcceptedThere'
    <2>1. GiveUp(c, t) /\ replies' = replies
      BY <1>5 DEF TimeoutLost
    <2>2. /\ call'[c][t].answer = "timeout"
          /\ \A d \in CPFs, x \in Threads :
                LET k == call[d][x]
                    l == call'[d][x] IN
                l.op = k.op /\ l.upf = k.upf /\ l.seid = k.seid
          /\ \A d \in CPFs, x \in Threads : d # c \/ x # t => call'[d][x] = call[d][x]
          /\ cpStore' = cpStore /\ cpSess' = cpSess /\ upSess' = upSess
      BY <2>1, GaveUp
    <2>3. ASSUME NEW s \in Seids PROVE Accepted(s)' => Accepted(s)
      <3>1. cpSess'[s].fteid # 0 => Accepted(s)
        BY <2>2 DEF Accepted
      <3> QED BY <1>0, <2>1, <2>2, <3>1, NotAcceptedYet
    <2>4. ASSUME NEW s \in Seids PROVE Leaving(s) => Leaving(s)'
      BY <1>0, <2>2, StillLeaving
    <2> QED BY <2>2, <2>3, <2>4, StillThere DEF Installed
  <1>6. ASSUME NEW c \in CPFs, NEW t \in Threads, TimeoutLate(c, t) PROVE FALSE
    BY <1>6 DEF TimeoutLate
  <1>7. ASSUME NEW m \in requests, Clears(m) PROVE AcceptedThere'
    <2>1. Answer(m, "accepted", 0) /\ m.op # "establish" /\ "accepted" \in Causes
      BY <1>7, ClearsEffect DEF Causes
    <2>2. ASSUME NEW s \in Seids, s \in cpStore, Installed(cpSess[s].upf, s)
          PROVE  Installed(cpSess[s].upf, s)' \/ Leaving(s)
      BY <1>7, <2>2, ClearedLeaving DEF TypeOK
    <2> QED BY <2>1, <2>2, AnsweringThere DEF TypeOK
  <1>8. ASSUME NEW m \in requests, ServeModify(m) PROVE AcceptedThere'
    <2>1. PICK a \in Causes : Answer(m, a, 0)
      BY <1>8, ServeModifyEffect
    <2>2. /\ m.op # "establish" /\ cpSess' = cpSess
          /\ \A u \in UPFs, s \in Seids : Installed(u, s)' <=> Installed(u, s)
      BY <1>8, <2>1, Answered, ServeModifyEffect
    <2>3. ASSUME NEW s \in Seids, s \in cpStore, Installed(cpSess[s].upf, s)
          PROVE  Installed(cpSess[s].upf, s)'
      BY <2>2, <2>3 DEF TypeOK, Installed
    <2> QED BY <2>1, <2>2, <2>3, AnsweringThere DEF TypeOK
  <1>9. ASSUME NEW m \in requests, ServeEstablish(m) PROVE AcceptedThere'
    <2>1. /\ m.op = "establish" /\ m.seid \in Seids /\ m.upf \in UPFs
          /\ Answer(m, "accepted", teid[m.upf] + 1) /\ teid[m.upf] + 1 \in Nat
          /\ Installed(m.upf, m.seid)'
          /\ \A u \in UPFs, s \in Seids :
                u # m.upf \/ s # m.seid => upSess'[u][s] = upSess[u][s]
      BY <1>9, ServeEstablishEffect
    <2>2. /\ call' = call /\ cpSess' = cpSess /\ cpStore' = cpStore
          /\ \E r \in Reply : r.cpf = m.cpf /\ r.tag = m.tag /\ replies' = replies \cup {r}
      BY <2>1, Answered DEF Causes
    <2>3. m.tag \in Threads => call[m.cpf][m.tag].seid = m.seid
      BY DEF AwaitedByCaller
    <2>4. cpSess[m.seid].upf = m.upf
      BY <2>1 DEF AtHome, SessionOps
    <2>5. ASSUME NEW s \in Seids, s # m.seid PROVE Accepted(s)' => Accepted(s)
      <3>1. cpSess'[s].fteid # 0 => Accepted(s)
        BY <2>2 DEF Accepted
      <3> QED BY <2>2, <2>3, <2>5, <3>1, NotAcceptedYet DEF Mine
    <2>6. ASSUME NEW s \in Seids PROVE Leaving(s) => Leaving(s)'
      BY <2>2, StillLeaving
    <2>7. Installed(cpSess[m.seid].upf, m.seid)'
      BY <2>1, <2>2, <2>4 DEF Installed
    <2>8. ASSUME NEW s \in Seids, s \in cpStore, s # m.seid, Installed(cpSess[s].upf, s)
          PROVE  Installed(cpSess[s].upf, s)'
      BY <2>1, <2>2, <2>8 DEF Installed, TypeOK
    <2> QED BY <2>2, <2>5, <2>6, <2>7, <2>8, StillThere
  <1>10. ASSUME NEW n \in replies, ReceiveReply(n) PROVE AcceptedThere'
    <2>1. /\ replies' = replies \ {n} /\ cpSess' = cpSess /\ upSess' = upSess
          /\ cpStore' = cpStore
          /\ \A d \in CPFs, x \in Threads :
                LET k == call[d][x]
                    l == call'[d][x] IN
                l.op = k.op /\ l.seid = k.seid /\ l.upf = k.upf
          /\ \A d \in CPFs, x \in Threads : d # n.cpf \/ x # n.tag => call'[d][x] = call[d][x]
      BY <1>10, Received
    <2>2. ASSUME NEW s \in Seids PROVE Accepted(s)' => Accepted(s)
      <3>1. cpSess'[s].fteid # 0 => Accepted(s)
        BY <2>1 DEF Accepted
      <3> QED BY <1>0, <2>1, <3>1, NotAcceptedYet DEF Mine
    <2>3. ASSUME NEW s \in Seids PROVE Leaving(s) => Leaving(s)'
      BY <1>0, <2>1, StillLeaving
    <2> QED BY <2>1, <2>2, <2>3, StillThere DEF Installed
  <1>11. ASSUME NEW m \in updates, ReceiveUpdate(m) PROVE AcceptedThere'
    <2>1. /\ replies' = replies /\ cpSess' = cpSess /\ upSess' = upSess
          /\ cpStore' \subseteq cpStore
          /\ \A d \in CPFs, x \in Threads :
                \/ call'[d][x] = call[d][x]
                \/ call[d][x].op = "idle" /\ call'[d][x].op = "armed"
      BY <1>11, Updated, CallTypes DEF Threads
    <2>2. ASSUME NEW s \in Seids PROVE Accepted(s)' => Accepted(s)
      <3>1. cpSess'[s].fteid # 0 => Accepted(s)
        BY <2>1 DEF Accepted
      <3> QED BY <1>0, <2>1, <3>1, NotAcceptedYet
    <2>3. ASSUME NEW s \in Seids PROVE Leaving(s) => Leaving(s)'
      BY <1>0, <2>1, StillLeaving
    <2> QED BY <2>1, <2>2, <2>3, StillThere DEF Installed
  <1>12. ASSUME NEW u \in UPFs, Restart(u) PROVE FALSE
    BY <1>12 DEF Restart, TypeOK
  <1>13. ASSUME Lose \/ UNCHANGED <<cpStore, cpSess, call, upSess, replies>> PROVE AcceptedThere'
    <2>1. /\ replies' \subseteq replies
          /\ cpStore' = cpStore /\ cpSess' = cpSess /\ call' = call /\ upSess' = upSess
      BY <1>13, LoseEffect
    <2>2. ASSUME NEW s \in Seids PROVE Accepted(s)' => Accepted(s)
      BY <2>1 DEF Accepted
    <2>3. ASSUME NEW s \in Seids PROVE Leaving(s) => Leaving(s)'
      BY <2>1, StillLeaving
    <2> QED BY <2>1, <2>2, <2>3, StillThere DEF Installed
  <1> QED
    BY <1>1, <1>2, <1>3, <1>4, <1>5, <1>6, <1>7, <1>8, <1>9, <1>10, <1>11, <1>12, <1>13, StepKinds

(* One CPF, no restarts, messages served in time: a session that the CPF   *)
(* counts as established exists on its UPF, unless it is just being        *)
(* deleted or released.                                                    *)
THEOREM NoGhostHolds ==
  ASSUME \A c, d \in CPFs : c = d, Strays = {}, MaxRestarts = 0
  PROVE  Spec => []NoGhost
  <1>1. Init => AcceptedThere
    BY DEF Init, AcceptedThere
  <1>2. IInv /\ AcceptedThere /\ [Next]_vars => AcceptedThere'
    BY ThereStep
  <1>3. AcceptedThere => NoGhost
    BY DEF AcceptedThere, NoGhost, Confirmed, Accepted
  <1> QED BY <1>1, <1>2, <1>3, Invariant, PTL DEF Spec

---------------------------------------------------------------------------
(* One worker to a CPF and no message lost or late: the rules are in step. *)

(* A timer is armed by an update, then runs a release, and is idle again.  *)
LEMMA TimerMoves ==
  ASSUME TypeOK, AtHome, [Next]_vars, NEW d \in CPFs, NEW x \in Timers
  PROVE  \/ call'[d][x].op \in {call[d][x].op, "idle"}
         \/ call[d][x].op = "idle" /\ call'[d][x].op = "armed" /\ updates # {}
         \/ call[d][x].op = "armed" /\ call'[d][x].op = "release"
  <1> DEFINE Moves == \/ call'[d][x].op \in {call[d][x].op, "idle"}
                      \/ call[d][x].op = "idle" /\ call'[d][x].op = "armed" /\ updates # {}
                      \/ call[d][x].op = "armed" /\ call'[d][x].op = "release"
  <1>0. Workers \subseteq Threads /\ Timers \subseteq Threads /\ Workers \cap Timers = {}
    BY SxAssumption DEF Threads
  <1>1. ASSUME NEW c \in CPFs, NEW t \in Workers,
               \A e \in CPFs, y \in Threads : e # c \/ y # t => call'[e][y] = call[e][y]
        PROVE  Moves
    BY <1>0, <1>1
  <1>2. ASSUME NEW c \in CPFs, NEW t \in Workers, Asks(c, t) PROVE Moves
    <2>1. PICK op \in {"setup", "release", "delete"}, u \in UPFs, s \in Seids \cup {None} :
             Call(c, t, op, u, s, {})
      BY <1>0, <1>2, AsksEffect
    <2>2. op \in Ops /\ {} \in SUBSET Pdrs
      BY DEF Ops
    <2>3. \A e \in CPFs, y \in Threads : e # c \/ y # t => call'[e][y] = call[e][y]
      BY <1>0, <2>1, <2>2, Sent
    <2> QED BY <1>1, <2>3
  <1>3. ASSUME NEW c \in CPFs, NEW t \in Workers, NEW u \in UPFs, StartEstablish(c, t, u)
        PROVE  Moves
    <2>1. PICK s \in Seids : Call(c, t, "establish", u, s, BasePdrs)
      BY <1>0, <1>3, CreateEffect
    <2>2. "establish" \in Ops /\ BasePdrs \in SUBSET Pdrs
      BY DEF Ops, Pdrs
    <2> QED BY <1>0, <1>1, <2>1, <2>2, Sent
  <1>4. ASSUME NEW c \in CPFs, NEW t \in Workers, NEW s \in Seids, NEW p \in ExtraPdrs,
               StartModify(c, t, s, p)
        PROVE  Moves
    <2>1. /\ cpSess[s].upf \in UPFs /\ {p} \in SUBSET Pdrs
          /\ Call(c, t, "modify", cpSess[s].upf, s, {p})
      BY <1>0, <1>4, ModifyEffect
    <2>2. "modify" \in Ops
      BY DEF Ops
    <2> QED BY <1>0, <1>1, <2>1, <2>2, Sent
  <1>5. ASSUME NEW c \in CPFs, NEW t \in Timers, GuardExpires(c, t) PROVE Moves
    <2>1. PICK u \in UPFs : Call(c, t, "release", u, None, {})
      BY <1>0, <1>5 DEF GuardExpires, TypeOK, CallsOK
    <2>2. "release" \in Ops /\ {} \in SUBSET Pdrs /\ None \in Seids \cup {None}
      BY DEF Ops
    <2>3. /\ call'[c][t].op = "release"
          /\ \A e \in CPFs, y \in Threads : e # c \/ y # t => call'[e][y] = call[e][y]
      BY <1>0, <2>1, <2>2, Sent
    <2>4. call[c][t].op = "armed"
      BY <1>5 DEF GuardExpires
    <2> QED BY <1>0, <2>3, <2>4
  <1>6. ASSUME NEW c \in CPFs, NEW t \in Threads, End(c, t) PROVE Moves
    <2>1. PICK op \in Ops : Returning(c, t, op)
      BY <1>6 DEF End, EndSetup, EndRelease, EndEstablish, EndModify, EndDelete, Ops
    <2> QED BY <1>0, <2>1, Returned, CallTypes
  <1>7. ASSUME NEW c \in CPFs, NEW t \in Threads, Timeout(c, t) PROVE Moves
    <2>1. GiveUp(c, t)
      BY <1>7 DEF Timeout, TimeoutLost, TimeoutLate
    <2> QED BY <1>0, <2>1, GaveUp
  <1>8. ASSUME NEW m \in replies, ReceiveReply(m) PROVE Moves
    <2>1. \A e \in CPFs, y \in Threads : call'[e][y].op = call[e][y].op
      BY <1>8, Received
    <2> QED BY <1>0, <2>1
  <1>9. ASSUME NEW m \in updates, ReceiveUpdate(m) PROVE Moves
    BY <1>0, <1>9, Updated, CallTypes
  <1>10. ASSUME call' = call PROVE Moves
    BY <1>10
  <1>11. CASE \E m \in requests : Serve(m)
    BY <1>10, <1>11 DEF Serve, ServeSetup, ServeRelease, ServeEstablish, ServeModify,
                        ServeDelete, Answer
  <1>12. CASE \/ \E m \in reports : ReceiveReport(m)
              \/ \E u \in UPFs, a \in AdminStates : SetAdmin(u, a)
              \/ \E u \in UPFs, s \in Seids : Report(u, s)
              \/ \E u \in UPFs : Restart(u)
              \/ Lose
              \/ UNCHANGED vars
    BY <1>10, <1>12 DEF ReceiveReport, SetAdmin, Report, Restart, Lose, vars
  <1>13. CASE \E c \in CPFs, t \in Workers : Start(c, t)
    BY <1>2, <1>3, <1>4, <1>13 DEF Start, Asks
  <1> QED
    BY <1>5, <1>6, <1>7, <1>8, <1>9, <1>11, <1>12, <1>13 DEF Next

(* Timers never run anything but a release. *)
LEMMA TimersStep ==
  ASSUME TypeOK, AtHome, TimersRelease, [Next]_vars
  PROVE  TimersRelease'
  BY TimerMoves DEF TimersRelease

(* One worker has one request about sessions under way. *)
LEMMA OneRequest ==
  ASSUME TypeOK, OneInFlight, AwaitedByCaller, TimersRelease, Strays = {},
         \A t, x \in Workers : t = x,
         NEW m \in requests, m.op \in SessionOps
  PROVE  /\ m.tag \in Workers
         /\ \A n \in requests : n.op \in SessionOps /\ n.cpf = m.cpf => n = m
  <1>1. \A n \in requests : n.op \in SessionOps => n.tag \in Workers
    <2> SUFFICES ASSUME NEW n \in requests, n.op \in SessionOps PROVE n.tag \in Workers
      OBVIOUS
    <2>1. n.tag \in Threads /\ n.cpf \in CPFs
      BY DEF TypeOK, Request, Tags
    <2>2. call[n.cpf][n.tag].op \in SessionOps
      BY <2>1 DEF AwaitedByCaller
    <2> QED BY <2>1, <2>2 DEF TimersRelease, SessionOps, Threads
  <1> QED BY <1>1 DEF OneInFlight

(* Steps that leave the rules of a session, and the modifications under    *)
(* way, as they are.                                                       *)
LEMMA StillInStep ==
  ASSUME RulesInStep,
         \A m \in requests' : m.op = "establish" =>
             \/ cpSess'[m.seid].pdrs = m.pdrs
             \/ m \in requests /\ cpSess'[m.seid].pdrs = cpSess[m.seid].pdrs,
         \A u \in UPFs, s \in Seids : Installed(u, s)' =>
             \/ cpSess'[s].pdrs = upSess'[u][s].pdrs
             \/ /\ Installed(u, s) /\ upSess'[u][s].pdrs = upSess[u][s].pdrs
                /\ cpSess'[s].pdrs = cpSess[s].pdrs
                /\ \A m \in requests : m.op = "modify" /\ m.seid = s => m \in requests'
             \/ \E m \in requests' :
                   /\ m.op = "modify" /\ m.seid = s
                   /\ cpSess'[s].pdrs = upSess'[u][s].pdrs \cup m.pdrs
  PROVE  RulesInStep'
  BY DEF RulesInStep

(* Under these conditions every step keeps the rules in step. *)
LEMMA InStepStep ==
  ASSUME IInv, TimersRelease, RulesInStep, Strays = {}, Lossy = FALSE,
         \A t, x \in Workers : t = x, [Next]_vars
  PROVE  RulesInStep'
  <1> USE DEF IInv
  <1>0. /\ \A m \in requests : m.op \in SessionOps => m.seid \in Seids /\ m.seid[1] = m.cpf
        /\ TimersRelease' /\ Threads = Workers \cup Timers
    BY TimersStep DEF AtHome, Threads
  <1>1. ASSUME NEW c \in CPFs, NEW t \in Threads, Asks(c, t) PROVE RulesInStep'
    <2>1. PICK op \in {"setup", "release", "delete"}, u \in UPFs, s \in Seids \cup {None} :
             Call(c, t, op, u, s, {})
      BY <1>1, AsksEffect
    <2>2. op \in Ops /\ {} \in SUBSET Pdrs /\ op # "establish" /\ op # "modify"
      BY DEF Ops
    <2>3. \E r \in Request : r.op = op /\ requests' = requests \cup {r}
      BY <2>1, <2>2, Sent
    <2>4. cpSess' = cpSess /\ upSess' = upSess
      BY <1>1, AsksEffect
    <2> QED BY <2>2, <2>3, <2>4, StillInStep DEF Installed
  <1>2. ASSUME NEW c \in CPFs, NEW t \in Threads, NEW u \in UPFs, StartEstablish(c, t, u)
        PROVE  RulesInStep'
    <2>1. PICK s \in Seids :
             /\ s[2] > created[s[1]]
             /\ Call(c, t, "establish", u, s, BasePdrs)
             /\ cpSess'[s].pdrs = BasePdrs
             /\ \A r \in Seids : r # s => cpSess'[r] = cpSess[r]
             /\ upSess' = upSess
      BY <1>2, CreateEffect
    <2>2. "establish" \in Ops /\ BasePdrs \in SUBSET Pdrs
      BY DEF Ops, Pdrs
    <2>3. \E r \in Request : /\ r.op = "establish" /\ r.seid = s /\ r.pdrs = BasePdrs
                             /\ requests' = requests \cup {r}
      BY <2>1, <2>2, Sent
    <2>4. (\A v \in UPFs : ~ Installed(v, s)) /\ \A m \in requests : m.seid # s
      BY <2>1 DEF Uncreated
    <2> QED BY <1>0, <2>1, <2>3, <2>4, StillInStep DEF Installed, SessionOps
  <1>3. ASSUME NEW c \in CPFs, NEW t \in Threads, NEW s \in Seids, NEW p \in ExtraPdrs,
               StartModify(c, t, s, p)
        PROVE  RulesInStep'
    <2>1. /\ s[1] = c /\ call[c][t].op = "idle"
          /\ cpSess[s].upf \in UPFs /\ {p} \in SUBSET Pdrs
          /\ Call(c, t, "modify", cpSess[s].upf, s, {p})
          /\ cpSess'[s].pdrs = cpSess[s].pdrs \cup {p}
          /\ \A r \in Seids : r # s => cpSess'[r] = cpSess[r]
          /\ upSess' = upSess
      BY <1>3, ModifyEffect
    <2>2. "modify" \in Ops
      BY DEF Ops
    <2>3. PICK r \in Request : /\ r.op = "modify" /\ r.seid = s /\ r.pdrs = {p}
                               /\ requests' = requests \cup {r}
      BY <2>1, <2>2, Sent
    <2>4. t \in Workers
      <3>1. call'[c][t].op = "modify"
        BY <2>1, <2>2, Sent
      <3> QED BY <1>0, <3>1 DEF TimersRelease
    <2>5. \A m \in requests : m.op \in {"establish", "modify"} => m.seid # s
      <3>1. \A m \in requests : ~ Mine(m, c, t)
        BY <2>1, NothingAwaited DEF Ops
      <3>2. \A m \in requests : m.op \in {"establish", "modify"} => m.tag = t
        BY <2>4, OneRequest DEF SessionOps
      <3> QED BY <1>0, <2>1, <3>1, <3>2 DEF Mine, SessionOps
    <2>6. \A m \in requests' : m.op = "establish" =>
             m \in requests /\ cpSess'[m.seid].pdrs = cpSess[m.seid].pdrs
      BY <1>0, <2>1, <2>3, <2>5 DEF SessionOps
    <2>7. ASSUME NEW u \in UPFs, Installed(u, s)
          PROVE  cpSess'[s].pdrs = upSess'[u][s].pdrs \cup r.pdrs
      BY <2>1, <2>3, <2>5, <2>7 DEF RulesInStep
    <2>8. \A u \in UPFs, x \in Seids : Installed(u, x)' => Installed(u, x)
      BY <2>1 DEF Installed
    <2> QED BY <2>1, <2>3, <2>6, <2>7, <2>8, StillInStep
  <1>4. ASSUME NEW c \in CPFs, NEW t \in Threads, Ends(c, t) \/ EndEstablish(c, t)
        PROVE  RulesInStep'
    <2>1. PICK op \in Ops : Returning(c, t, op)
      BY <1>4, EndsEffect DEF EndEstablish, Ops
    <2>2. requests' = requests /\ upSess' = upSess
      BY <2>1, Returned
    <2>3. \A s \in Seids : cpSess'[s].pdrs = cpSess[s].pdrs
      BY <1>4, EndsEffect, EstablishedEffect
    <2> QED BY <1>0, <2>2, <2>3, StillInStep DEF Installed, SessionOps
  <1>5. ASSUME NEW c \in CPFs, NEW t \in Threads, TimeoutLost(c, t) PROVE RulesInStep'
    <2>1. GiveUp(c, t) /\ requests' = requests
      BY <1>5 DEF TimeoutLost
    <2>2. cpSess' = cpSess /\ upSess' = upSess
      BY <2>1, GaveUp
    <2> QED BY <2>1, <2>2, StillInStep DEF Installed
  <1>6. ASSUME NEW c \in CPFs, NEW t \in Threads, TimeoutLate(c, t) PROVE FALSE
    BY <1>6 DEF TimeoutLate
  <1>7. ASSUME NEW m \in requests, Clears(m) PROVE RulesInStep'
    <2>1. /\ Answer(m, "accepted", 0) /\ m.op # "modify"
          /\ \A u \in UPFs, s \in Seids : upSess'[u][s] \in {upSess[u][s], NoSession}
      BY <1>7, ClearsEffect
    <2>2. requests' = requests \ {m} /\ cpSess' = cpSess
      BY <2>1, Answered DEF Causes
    <2>3. ASSUME NEW u \in UPFs, NEW s \in Seids, Installed(u, s)'
          PROVE  Installed(u, s) /\ upSess'[u][s] = upSess[u][s]
      BY <2>1, <2>3, ClearedInstalled
    <2> QED BY <2>1, <2>2, <2>3, StillInStep
  <1>8. ASSUME NEW m \in requests, ServeModify(m) PROVE RulesInStep'
    <2>1. PICK a \in Causes : Answer(m, a, 0)
      BY <1>8, ServeModifyEffect
    <2>2. requests' = requests \ {m} /\ cpSess' = cpSess
      BY <2>1, Answered
    <2>3. /\ m.op = "modify" /\ m.seid \in Seids
          /\ \A u \in UPFs, s \in Seids :
                /\ Installed(u, s)' <=> Installed(u, s)
                /\ upSess'[u][s] # upSess[u][s] => u = m.upf /\ s = m.seid
          /\ Installed(m.upf, m.seid) =>
                upSess'[m.upf][m.seid].pdrs = upSess[m.upf][m.seid].pdrs \cup m.pdrs
      BY <1>8, ServeModifyEffect
    <2>4. ASSUME NEW u \in UPFs, Installed(u, m.seid)
          PROVE  cpSess'[m.seid].pdrs = upSess'[u][m.seid].pdrs
      <3>1. u = m.upf
        BY <2>3, <2>4 DEF AtHome, SessionOps
      <3>2. \A n \in requests : n.op = "modify" /\ n.seid = m.seid => n = m
        BY <1>0, <2>3, OneRequest DEF SessionOps
      <3>3. \/ cpSess[m.seid].pdrs = upSess[u][m.seid].pdrs
            \/ cpSess[m.seid].pdrs = upSess[u][m.seid].pdrs \cup m.pdrs
        BY <2>3, <2>4, <3>2 DEF RulesInStep
      <3>4. m.pdrs \subseteq cpSess[m.seid].pdrs
        BY <2>3 DEF RulesSent
      <3>5. upSess'[u][m.seid].pdrs = upSess[u][m.seid].pdrs \cup m.pdrs
        BY <2>3, <2>4, <3>1
      <3> QED BY <2>2, <3>3, <3>4, <3>5
    <2>5. \A u \in UPFs, s \in Seids : s # m.seid => upSess'[u][s] = upSess[u][s]
      BY <2>3
    <2> QED BY <2>2, <2>3, <2>4, <2>5, StillInStep
  <1>9. ASSUME NEW m \in requests, ServeEstablish(m) PROVE RulesInStep'
    <2>1. /\ m.op = "establish" /\ m.seid \in Seids
          /\ Answer(m, "accepted", teid[m.upf] + 1) /\ teid[m.upf] + 1 \in Nat
          /\ upSess'[m.upf][m.seid].pdrs = m.pdrs
          /\ \A u \in UPFs, s \in Seids :
                u # m.upf \/ s # m.seid => upSess'[u][s] = upSess[u][s]
      BY <1>9, ServeEstablishEffect
    <2>2. requests' = requests \ {m} /\ cpSess' = cpSess
      BY <2>1, Answered DEF Causes
    <2>3. cpSess[m.seid].pdrs = m.pdrs
      BY <2>1 DEF RulesInStep
    <2>4. \A u \in UPFs, s \in Seids : Installed(u, s)' =>
             \/ cpSess'[s].pdrs = upSess'[u][s].pdrs
             \/ Installed(u, s) /\ upSess'[u][s].pdrs = upSess[u][s].pdrs
      BY <2>1, <2>2, <2>3 DEF Installed
    <2> QED BY <2>1, <2>2, <2>4, StillInStep
  <1>10. ASSUME NEW n \in replies, ReceiveReply(n) PROVE RulesInStep'
    <2>1. requests' = requests /\ cpSess' = cpSess /\ upSess' = upSess
      BY <1>10, Received
    <2> QED BY <2>1, StillInStep DEF Installed
  <1>11. ASSUME NEW m \in updates, ReceiveUpdate(m) PROVE RulesInStep'
    <2>1. requests' = requests /\ cpSess' = cpSess /\ upSess' = upSess
      BY <1>11, Updated
    <2> QED BY <2>1, StillInStep DEF Installed
  <1>12. ASSUME NEW u \in UPFs, Restart(u) PROVE RulesInStep'
    <2>1. /\ requests' = requests /\ cpSess' = cpSess
          /\ \A v \in UPFs, s \in Seids : upSess'[v][s] \in {upSess[v][s], NoSession}
      BY <1>12, RestartEffect
    <2> QED BY <2>1, ClearedInstalled, StillInStep
  <1>13. ASSUME Lose PROVE FALSE
    BY <1>13 DEF Lose
  <1>14. ASSUME UNCHANGED <<cpSess, upSess, requests>> PROVE RulesInStep'
    BY <1>14, StillInStep DEF Installed
  <1> QED
    BY <1>1, <1>2, <1>3, <1>4, <1>5, <1>6, <1>7, <1>8, <1>9, <1>10, <1>11, <1>12, <1>13, <1>14,
       StepKinds

(* One worker to a CPF, and no message lost or served late: between        *)
(* procedures both sides have the same rules for a session, across guard   *)
(* timers, services that change and restarts, for any number of CPFs.      *)
THEOREM RulesAgreeHolds ==
  ASSUME \A t, x \in Workers : t = x, Lossy = FALSE, Strays = {}
  PROVE  Spec => []RulesAgree
  <1>1. Init => TimersRelease /\ RulesInStep
    BY CallTypes DEF Init, TimersRelease, RulesInStep, Installed, Threads
  <1>2. IInv /\ TimersRelease /\ RulesInStep /\ [Next]_vars => TimersRelease' /\ RulesInStep'
    BY TimersStep, InStepStep DEF IInv
  <1>3. IInv /\ RulesInStep => RulesAgree
    <2> SUFFICES ASSUME IInv, RulesInStep, NEW u \in UPFs, NEW s \in Seids, Installed(u, s),
                        ~ Busy(s)
                 PROVE  cpSess[s].pdrs = upSess[u][s].pdrs
      BY DEF RulesAgree
    <2>1. ASSUME NEW m \in requests, m.op = "modify", m.seid = s PROVE FALSE
      <3>1. m.tag \in Threads /\ m.cpf = s[1]
        BY <2>1 DEF IInv, TypeOK, Request, Tags, AtHome, SessionOps
      <3>2. call[s[1]][m.tag].seid = s
        BY <2>1, <3>1 DEF IInv, AwaitedByCaller
      <3> QED BY <3>1, <3>2 DEF Busy
    <2> QED BY <2>1 DEF RulesInStep
  <1> QED BY <1>1, <1>2, <1>3, Invariant, PTL DEF Spec

---------------------------------------------------------------------------
(* One worker to a CPF, no service changes, no message lost or late: a UPF *)
(* has only sessions that their CPF has.                                   *)

(* Without service changes no update is sent and no timer starts. *)
LEMMA TimersIdleStep ==
  ASSUME TypeOK, AtHome, TimersIdle, AdminStates = {}, [Next]_vars
  PROVE  TimersIdle'
  <1>1. updates' \subseteq updates
    <2>1. CASE \E c \in CPFs, t \in Workers : Start(c, t)
      <3>1. PICK c \in CPFs, t \in Workers : Start(c, t)
        BY <2>1
      <3>2. ASSUME NEW u \in UPFs,
                   StartSetup(c, t, u) \/ StartRelease(c, t, u) \/ StartEstablish(c, t, u)
            PROVE  updates' = updates
        BY Zenon, <3>2 DEF StartSetup, StartRelease, StartEstablish, Call
      <3>3. ASSUME NEW s \in Seids, NEW p \in ExtraPdrs, StartModify(c, t, s, p)
            PROVE  updates' = updates
        BY Zenon, <3>3 DEF StartModify, Call
      <3>4. ASSUME NEW s \in Seids, StartDelete(c, t, s)
            PROVE  updates' = updates
        BY Zenon, <3>4 DEF StartDelete, Call
      <3> QED BY Zenon, <3>1, <3>2, <3>3, <3>4 DEF Start
    <2>2. CASE \E c \in CPFs, t \in Timers : GuardExpires(c, t)
      BY Zenon, <2>2 DEF GuardExpires, Call
    <2>3. CASE \E c \in CPFs, t \in Threads : End(c, t) \/ Timeout(c, t)
      BY <2>3 DEF End, EndSetup, EndRelease, EndEstablish, EndModify, EndDelete, Returning,
                  Timeout, TimeoutLost, TimeoutLate, GiveUp, netVars
    <2>4. CASE \E m \in requests : Serve(m)
      BY <2>4 DEF Serve, ServeSetup, ServeRelease, ServeEstablish, ServeModify, ServeDelete, Answer
    <2>5. CASE \/ \E m \in replies : ReceiveReply(m)
               \/ \E m \in updates : ReceiveUpdate(m)
               \/ \E m \in reports : ReceiveReport(m)
               \/ \E u \in UPFs, s \in Seids : Report(u, s)
               \/ \E u \in UPFs : Restart(u)
               \/ Lose
               \/ UNCHANGED vars
      BY <2>5 DEF ReceiveReply, ReceiveUpdate, ReceiveReport, Report, Restart, Lose, vars, netVars
    <2> QED BY <2>1, <2>2, <2>3, <2>4, <2>5 DEF Next
  <1> QED BY <1>1, TimerMoves DEF TimersIdle

(* While nothing is lost a request turns into the response, and a response *)
(* stays until it is received.                                             *)
LEMMA ComingStep ==
  ASSUME TypeOK, OneInFlight, AwaitedByCaller, AtHome, AnswerComing, Lossy = FALSE, Strays = {},
         [Next]_vars
  PROVE  AnswerComing'
  <1>1. ASSUME NEW c \in CPFs, NEW t \in Threads, NEW op \in Ops, NEW u \in UPFs,
               NEW s \in Seids \cup {None}, NEW P \in SUBSET Pdrs, Call(c, t, op, u, s, P)
        PROVE  AnswerComing'
    <2>1. /\ \A d \in CPFs, x \in Threads : d # c \/ x # t => call'[d][x] = call[d][x]
          /\ replies' = replies
          /\ \E r \in Request : r.cpf = c /\ r.tag = t /\ requests' = requests \cup {r}
      BY <1>1, Sent
    <2> QED BY <2>1 DEF AnswerComing, InFlight, Mine
  <1>2. ASSUME NEW c \in CPFs, NEW t \in Threads, Asks(c, t) PROVE AnswerComing'
    <2>1. PICK op \in {"setup", "release", "delete"}, u \in UPFs, s \in Seids \cup {None} :
             Call(c, t, op, u, s, {})
      BY <1>2, AsksEffect
    <2>2. op \in Ops /\ {} \in SUBSET Pdrs
      BY DEF Ops
    <2> QED BY <1>1, <2>1, <2>2
  <1>3. ASSUME NEW c \in CPFs, NEW t \in Threads, NEW u \in UPFs, StartEstablish(c, t, u)
        PROVE  AnswerComing'
    <2>1. PICK s \in Seids : Call(c, t, "establish", u, s, BasePdrs)
      BY <1>3, CreateEffect
    <2>2. "establish" \in Ops /\ BasePdrs \in SUBSET Pdrs
      BY DEF Ops, Pdrs
    <2> QED BY <1>1, <2>1, <2>2
  <1>4. ASSUME NEW c \in CPFs, NEW t \in Threads, NEW s \in Seids, NEW p \in ExtraPdrs,
               StartModify(c, t, s, p)
        PROVE  AnswerComing'
    <2>1. /\ cpSess[s].upf \in UPFs /\ {p} \in SUBSET Pdrs
          /\ Call(c, t, "modify", cpSess[s].upf, s, {p})
      BY <1>4, ModifyEffect
    <2>2. "modify" \in Ops
      BY DEF Ops
    <2> QED BY <1>1, <2>1, <2>2
  <1>5. ASSUME NEW c \in CPFs, NEW t \in Threads, Ends(c, t) \/ EndEstablish(c, t)
        PROVE  AnswerComing'
    <2>1. PICK op \in Ops : Returning(c, t, op)
      BY <1>5, EndsEffect DEF EndEstablish, Ops
    <2>2. /\ call'[c][t].op = "idle" /\ requests' = requests /\ replies' = replies
          /\ \A d \in CPFs, x \in Threads : d # c \/ x # t => call'[d][x] = call[d][x]
      BY <2>1, Returned, CallTypes
    <2> QED BY <2>2 DEF AnswerComing, InFlight, Ops
  <1>6. ASSUME NEW c \in CPFs, NEW t \in Threads, TimeoutLost(c, t) \/ TimeoutLate(c, t)
        PROVE  FALSE
    BY <1>6 DEF TimeoutLost, TimeoutLate, GiveUp, AnswerComing
  <1>7. ASSUME NEW m \in requests, NEW a \in Causes, NEW f \in Nat, Answer(m, a, f)
        PROVE  AnswerComing'
    <2>1. /\ call' = call /\ requests' = requests \ {m}
          /\ \E r \in Reply : r.cpf = m.cpf /\ r.tag = m.tag /\ replies' = replies \cup {r}
      BY <1>7, Answered
    <2> QED BY <2>1 DEF AnswerComing, InFlight, Mine
  <1>8. ASSUME NEW m \in requests, Clears(m) \/ ServeModify(m) PROVE AnswerComing'
    BY <1>7, <1>8, ClearsEffect, ServeModifyEffect DEF Causes
  <1>9. ASSUME NEW m \in requests, ServeEstablish(m) PROVE AnswerComing'
    <2>1. Answer(m, "accepted", teid[m.upf] + 1) /\ teid[m.upf] + 1 \in Nat
      BY <1>9, ServeEstablishEffect
    <2> QED BY <1>7, <2>1 DEF Causes
  <1>10. ASSUME NEW n \in replies, ReceiveReply(n) PROVE AnswerComing'
    <2>1. /\ replies' = replies \ {n} /\ requests' = requests
          /\ \A d \in CPFs, x \in Threads : d # n.cpf \/ x # n.tag => call'[d][x] = call[d][x]
          /\ n.tag \in Threads => call'[n.cpf][n.tag].answer = n.cause
          /\ n \in Reply
      BY <1>10, Received
    <2>2. n.cause # "pending"
      BY <2>1 DEF Reply, Causes
    <2> QED BY <2>1, <2>2 DEF AnswerComing, InFlight, Mine
  <1>11. ASSUME NEW m \in updates, ReceiveUpdate(m) PROVE AnswerComing'
    <2>1. /\ requests' = requests /\ replies' = replies
          /\ \A d \in CPFs, x \in Threads :
                call'[d][x].op = "armed" \/ call'[d][x] = call[d][x]
      BY <1>11, Updated DEF Threads
    <2> QED BY <2>1 DEF AnswerComing, InFlight, Ops
  <1>12. ASSUME UNCHANGED <<call, requests, replies>> PROVE AnswerComing'
    BY <1>12 DEF AnswerComing, InFlight
  <1>13. ASSUME NEW u \in UPFs, Restart(u) PROVE AnswerComing'
    BY <1>12, <1>13, RestartEffect
  <1>14. ASSUME Lose PROVE FALSE
    BY <1>14 DEF Lose
  <1> QED
    BY <1>2, <1>3, <1>4, <1>5, <1>6, <1>8, <1>9, <1>10, <1>11, <1>12, <1>13, <1>14, StepKinds

(* The one worker is the one thread of a CPF that is in a procedure. *)
LEMMA OneAtWork ==
  ASSUME TimersIdle, \A t, x \in Workers : t = x, NEW c \in CPFs,
         NEW t \in Threads, call[c][t].op # "idle", NEW x \in Threads, call[c][x].op # "idle"
  PROVE  t = x
  BY DEF TimersIdle, Threads

(* Steps that install nothing and drop from the store only what is gone    *)
(* from the UPFs.                                                          *)
LEMMA StillKept ==
  ASSUME TypeOK', AtHome', Kept,
         \A u \in UPFs, s \in Seids : Installed(u, s)' => Installed(u, s) /\ s \in cpStore',
         \A d \in CPFs, x \in Threads :
             LET k == call[d][x]
                 l == call'[d][x] IN
             /\ l.op = "establish" =>
                   /\ l.seid \in cpStore'
                   /\ \/ k.op = "establish" /\ l.answer = k.answer
                      \/ l.answer \in {"pending", "accepted"}
             /\ l.op \in {"delete", "release"} /\ Served(d, x)' =>
                   \/ l.op = k.op /\ l.seid = k.seid /\ l.upf = k.upf /\ Served(d, x)
                   \/ l.op = "delete" /\ \A u \in UPFs : upSess'[u][l.seid] = NoSession
                   \/ l.op = "release" /\ \A s \in Seids : s[1] = d => upSess'[l.upf][s] = NoSession,
         \A m \in requests' : m.op = "establish" => m.seid \in cpStore',
         \A m \in replies' : m.tag \in Threads /\ call'[m.cpf][m.tag].op = "establish" =>
             \/ m \in replies /\ call[m.cpf][m.tag].op = "establish"
             \/ m.cause = "accepted"
  PROVE  Kept'
  <1>1. ASSUME NEW d \in CPFs, NEW x \in Threads, call'[d][x].op = "establish"
        PROVE  call'[d][x].seid \in cpStore' /\ call'[d][x].answer \in {"pending", "accepted"}
    BY <1>1 DEF Kept
  <1>2. ASSUME NEW d \in CPFs, NEW x \in Threads, call'[d][x].op = "delete", Served(d, x)',
               NEW u \in UPFs
        PROVE  upSess'[u][call'[d][x].seid] = NoSession
    <2>1. call'[d][x].seid \in Seids
      BY <1>2 DEF AtHome, SessionOps
    <2>2. CASE call[d][x].op = "delete" /\ call[d][x].seid = call'[d][x].seid /\ Served(d, x)
      BY <2>1, <2>2 DEF Kept, Installed
    <2> QED BY <1>2, <2>2
  <1>3. ASSUME NEW d \in CPFs, NEW x \in Threads, call'[d][x].op = "release", Served(d, x)',
               NEW s \in Seids, s[1] = d
        PROVE  upSess'[call'[d][x].upf][s] = NoSession
    <2>1. call'[d][x].upf \in UPFs
      BY <1>3 DEF TypeOK, CallsOK
    <2>2. CASE call[d][x].op = "release" /\ call[d][x].upf = call'[d][x].upf /\ Served(d, x)
      BY <1>3, <2>1, <2>2 DEF Kept, Installed
    <2> QED BY <1>3, <2>2
  <1>4. \A m \in replies' : m.tag \in Threads /\ call'[m.cpf][m.tag].op = "establish" =>
           m.cause = "accepted"
    BY DEF Kept
  <1>5. \A u \in UPFs, s \in Seids : Installed(u, s)' => s \in cpStore'
    OBVIOUS
  <1> QED BY <1>1, <1>2, <1>3, <1>4, <1>5 DEF Kept, Installed

(* Sending a request to delete or release, or about a session in the       *)
(* store, keeps the UPFs within the stores.                                *)
LEMMA SendingKeeps ==
  ASSUME TypeOK, TypeOK', AtHome', AwaitedByCaller, Kept,
         NEW c \in CPFs, NEW t \in Threads, NEW op \in Ops, NEW u \in UPFs,
         NEW s \in Seids \cup {None}, NEW P \in SUBSET Pdrs, Call(c, t, op, u, s, P),
         call[c][t].op \in {"idle", "armed"}, upSess' = upSess,
         cpStore \subseteq cpStore', op = "establish" => s \in cpStore'
  PROVE  Kept'
  <1>1. /\ call'[c][t].op = op /\ call'[c][t].seid = s /\ call'[c][t].answer = "pending"
        /\ \A d \in CPFs, x \in Threads : d # c \/ x # t => call'[d][x] = call[d][x]
        /\ replies' = replies
        /\ \E r \in Request : r.op = op /\ r.seid = s /\ requests' = requests \cup {r}
    BY Sent
  <1>2. \A n \in replies : ~ Mine(n, c, t)
    BY NothingAwaited DEF Ops
  <1>3. ~ Served(c, t)'
    BY <1>1, <1>2 DEF Served
  <1>4. \A d \in CPFs, x \in Threads : d # c \/ x # t => Served(d, x)' = Served(d, x)
    BY <1>1 DEF Served
  <1>5. \A u1 \in UPFs, s1 \in Seids : Installed(u1, s1)' => Installed(u1, s1) /\ s1 \in cpStore'
    BY DEF Kept, Installed
  <1>6. ASSUME NEW d \in CPFs, NEW x \in Threads, d # c \/ x # t
        PROVE  /\ call'[d][x] = call[d][x]
               /\ call'[d][x].op = "establish" => call'[d][x].seid \in cpStore'
    BY <1>1, <1>6 DEF Kept
  <1>7. \A m \in requests' : m.op = "establish" => m.seid \in cpStore'
    BY <1>1 DEF Kept
  <1>8. \A m \in replies' : m.tag \in Threads /\ call'[m.cpf][m.tag].op = "establish" =>
           m \in replies /\ call[m.cpf][m.tag].op = "establish"
    BY <1>1, <1>2, MessageFields DEF Mine
  <1> HIDE DEF Installed, Served
  <1> QED BY <1>1, <1>3, <1>4, <1>5, <1>6, <1>7, <1>8, StillKept

(* The end of a deletion or a release takes out of the store what the UPF  *)
(* no longer has, and no establishment that is under way.                  *)
LEMMA EndingKeeps ==
  ASSUME IInv, IInv', TimersIdle, Kept, Strays = {}, \A t, x \in Workers : t = x,
         NEW c \in CPFs, NEW t \in Threads, Ends(c, t) \/ EndEstablish(c, t)
  PROVE  Kept'
  <1> USE DEF IInv
  <1>1. PICK op \in Ops : Returning(c, t, op)
    BY EndsEffect DEF EndEstablish, Ops
  <1>2. /\ call[c][t].op = op /\ call[c][t].answer # "pending" /\ call'[c][t].op = "idle"
        /\ \A d \in CPFs, x \in Threads : d # c \/ x # t => call'[d][x] = call[d][x]
        /\ requests' = requests /\ replies' = replies /\ upSess' = upSess
    BY <1>1, Returned, CallTypes
  <1>3. Served(c, t) /\ call[c][t].op # "idle"
    BY <1>2 DEF Served, Ops
  <1> DEFINE Gone(s) == s \in cpStore /\ s \notin cpStore'
  <1>4. ASSUME NEW s \in Seids, Gone(s)
        PROVE  s[1] = c /\ op # "establish" /\ \A u \in UPFs : ~ Installed(u, s)
    <2>1. CASE EndSetup(c, t) \/ EndModify(c, t)
      BY <1>4, <2>1 DEF EndSetup, EndModify, cpVars
    <2>2. CASE EndRelease(c, t)
      <3>1. call[c][t].op = "release" /\ s[1] = c /\ cpSess[s].upf = call[c][t].upf
        BY <1>4, <2>2 DEF EndRelease, Returning, SessionsWith
      <3>2. ~ Installed(call[c][t].upf, s)
        BY <1>3, <3>1 DEF Kept
      <3> QED BY <1>2, <3>1, <3>2 DEF AtHome
    <2>3. CASE EndDelete(c, t)
      <3>1. call[c][t].op = "delete" /\ s = call[c][t].seid
        BY <1>4, <2>3 DEF EndDelete, Returning
      <3> QED BY <1>2, <1>3, <3>1 DEF Kept, AtHome, SessionOps
    <2>4. CASE EndEstablish(c, t)
      <3>1. call[c][t].op = "establish"
        BY <2>4 DEF EndEstablish, Returning
      <3>2. call[c][t].answer = "accepted"
        BY <1>2, <3>1 DEF Kept
      <3> QED BY <1>4, <2>4, <3>2 DEF EndEstablish
    <2> QED BY <2>1, <2>2, <2>3, <2>4 DEF Ends
  <1>5. cpStore' \subseteq cpStore
    BY EndsEffect, EstablishedEffect
  <1>6. ASSUME NEW d \in CPFs, NEW x \in Threads, call[d][x].op = "establish", x # t \/ d # c
        PROVE  call[d][x].seid \in cpStore'
    <2>1. /\ call[d][x].seid \in cpStore /\ call[d][x].seid \in Seids
          /\ call[d][x].seid[1] = d
      BY <1>6 DEF Kept, AtHome, SessionOps
    <2>2. d # c
      BY <1>3, <1>6, OneAtWork
    <2> QED BY <1>4, <2>1, <2>2
  <1>7. ASSUME NEW m \in requests', m.op = "establish" PROVE m.seid \in cpStore'
    <2>1. m.tag \in Threads /\ m.cpf \in CPFs
      BY <1>2, <1>7 DEF TypeOK, Request, Tags
    <2>2. /\ call[m.cpf][m.tag].op = "establish" /\ call[m.cpf][m.tag].answer = "pending"
          /\ call[m.cpf][m.tag].seid = m.seid
      BY <1>2, <1>7, <2>1 DEF AwaitedByCaller
    <2> QED BY <1>2, <1>6, <2>1, <2>2
  <1>8. \A u \in UPFs, s \in Seids : Installed(u, s)' => Installed(u, s) /\ s \in cpStore'
    BY <1>2, <1>4 DEF Kept, Installed
  <1>9. \A d \in CPFs, x \in Threads : d # c \/ x # t => Served(d, x)' = Served(d, x)
    BY <1>2 DEF Served
  <1>10. \A m \in replies' : m.tag \in Threads /\ call'[m.cpf][m.tag].op = "establish" =>
            m \in replies /\ call[m.cpf][m.tag].op = "establish"
    BY <1>2, MessageFields
  <1> HIDE DEF Installed, Served, Gone
  <1> QED BY <1>2, <1>6, <1>7, <1>8, <1>9, <1>10, StillKept

(* Serving a deletion or a release empties what it says it empties. *)
LEMMA ClearingKeeps ==
  ASSUME IInv, IInv', Kept, Strays = {}, NEW m \in requests, Clears(m)
  PROVE  Kept'
  <1> USE DEF IInv
  <1>1. /\ m.op \in {"setup", "release", "delete"}
        /\ \A u \in UPFs, s \in Seids : upSess'[u][s] \in {upSess[u][s], NoSession}
        /\ m.upf \in UPFs /\ upSess \in [UPFs -> [Seids -> UpSession]]
    BY ClearsEffect, MessageFields DEF TypeOK
  <1>2. /\ requests' = requests \ {m} /\ call' = call /\ cpStore' = cpStore
        /\ \E r \in Reply : r.cpf = m.cpf /\ r.tag = m.tag /\ replies' = replies \cup {r}
    BY ClearsEffect, Answered DEF Causes
  <1>3. /\ m.tag \in Threads /\ m.cpf \in CPFs
        /\ call[m.cpf][m.tag].op = m.op /\ call[m.cpf][m.tag].upf = m.upf
        /\ call[m.cpf][m.tag].seid = m.seid
    BY DEF TypeOK, Request, Tags, AwaitedByCaller
  <1>4. \A u \in UPFs, s \in Seids : Installed(u, s)' => Installed(u, s) /\ s \in cpStore'
    BY <1>1, <1>2, ClearedInstalled DEF Kept
  <1>5. \A d \in CPFs, x \in Threads : d # m.cpf \/ x # m.tag => Served(d, x)' = Served(d, x)
    BY <1>2 DEF Served, Mine
  <1>6. ASSUME m.op = "delete", NEW u \in UPFs PROVE upSess'[u][m.seid] = NoSession
    <2>1. ServeDelete(m)
      BY <1>6 DEF Clears, ServeSetup, ServeRelease
    <2>2. m.seid \in Seids /\ cpSess[m.seid].upf = m.upf
      BY <1>6 DEF AtHome, SessionOps
    <2>3. CASE u = m.upf
      BY <1>1, <2>1, <2>2, <2>3 DEF ServeDelete
    <2>4. CASE u # m.upf
      BY <1>1, <2>2, <2>4 DEF AtHome, Installed
    <2> QED BY <2>3, <2>4
  <1>7. ASSUME m.op = "release", NEW s \in Seids PROVE upSess'[m.upf][s] = NoSession
    <2>1. ServeRelease(m)
      BY <1>7 DEF Clears, ServeSetup, ServeDelete
    <2> QED BY <1>1, <2>1 DEF ServeRelease
  <1>8. \A d \in CPFs, x \in Threads : call[d][x].op = "establish" => call[d][x].seid \in cpStore
    BY DEF Kept
  <1>9. \A n \in requests' : n.op = "establish" => n.seid \in cpStore'
    BY <1>2 DEF Kept
  <1>10. \A n \in replies' : n.tag \in Threads /\ call'[n.cpf][n.tag].op = "establish" =>
            n \in replies /\ call[n.cpf][n.tag].op = "establish"
    BY <1>1, <1>2, <1>3
  <1> HIDE DEF Installed, Served
  <1> QED BY <1>1, <1>2, <1>3, <1>4, <1>5, <1>6, <1>7, <1>8, <1>9, <1>10, StillKept, SMTT(30)

(* An establishment is served while the one worker waits for it: no        *)
(* deletion or release is under way that has been answered already.        *)
LEMMA InstallingKeeps ==
  ASSUME IInv, TimersIdle, Kept, Strays = {}, \A t, x \in Workers : t = x,
         NEW m \in requests, ServeEstablish(m)
  PROVE  Kept'
  <1> USE DEF IInv
  <1>1. /\ m.op = "establish" /\ m.seid \in Seids /\ m.upf \in UPFs
        /\ Answer(m, "accepted", teid[m.upf] + 1) /\ teid[m.upf] + 1 \in Nat
        /\ \A u \in UPFs, s \in Seids :
              u # m.upf \/ s # m.seid => upSess'[u][s] = upSess[u][s]
    BY ServeEstablishEffect
  <1>2. /\ requests' = requests \ {m} /\ call' = call /\ cpStore' = cpStore
        /\ \E r \in Reply : /\ r.cpf = m.cpf /\ r.tag = m.tag /\ r.cause = "accepted"
                            /\ replies' = replies \cup {r}
    BY <1>1, Answered DEF Causes
  <1>3. m.tag \in Threads /\ m.cpf \in CPFs /\ call[m.cpf][m.tag].op = "establish"
    BY <1>1 DEF TypeOK, Request, Tags, AwaitedByCaller
  <1>4. m.seid \in cpStore /\ m.seid[1] = m.cpf
    BY <1>1 DEF Kept, AtHome, SessionOps
  <1>5. ASSUME NEW d \in CPFs, NEW x \in Threads, call[d][x].op \in {"delete", "release"}
        PROVE  d # m.cpf /\ Served(d, x)' = Served(d, x)
    <2>1. d # m.cpf
      BY <1>3, <1>5, OneAtWork
    <2> QED BY <1>2, <2>1 DEF Served, Mine
  <1>6. \A u \in UPFs, s \in Seids : Installed(u, s)' => s \in cpStore'
    BY <1>1, <1>2, <1>4 DEF Kept, Installed
  <1>7. ASSUME NEW c \in CPFs, NEW t \in Threads
        PROVE  /\ call'[c][t].op = "establish" =>
                     call'[c][t].seid \in cpStore' /\ call'[c][t].answer \in {"pending", "accepted"}
               /\ call'[c][t].op = "delete" /\ Served(c, t)' =>
                     \A u \in UPFs : upSess'[u][call'[c][t].seid] = NoSession
               /\ call'[c][t].op = "release" /\ Served(c, t)' =>
                     \A s \in Seids : s[1] = c => upSess'[call'[c][t].upf][s] = NoSession
    <2>1. CASE call[c][t].op = "establish"
      BY <1>2, <2>1 DEF Kept
    <2>2. CASE call[c][t].op = "delete"
      <3>1. call[c][t].seid \in Seids /\ call[c][t].seid[1] = c
        BY <2>2 DEF AtHome, SessionOps
      <3> QED BY <1>1, <1>2, <1>4, <1>5, <2>2, <3>1 DEF Kept, Installed
    <2>3. CASE call[c][t].op = "release"
      <3>1. call[c][t].upf \in UPFs
        BY <2>3 DEF TypeOK, CallsOK
      <3> QED BY <1>1, <1>2, <1>4, <1>5, <2>3, <3>1 DEF Kept, Installed
    <2> QED BY <1>2, <2>1, <2>2, <2>3
  <1>8. \A n \in requests' : n.op = "establish" => n.seid \in cpStore'
    BY <1>2 DEF Kept
  <1>9. \A n \in replies' : n.tag \in Threads /\ call'[n.cpf][n.tag].op = "establish" =>
           n.cause = "accepted"
    BY <1>2 DEF Kept
  <1> QED BY <1>6, <1>7, <1>8, <1>9 DEF Kept, Installed

(* Under these conditions every step keeps the UPFs within the stores. *)
LEMMA KeptStep ==
  ASSUME IInv, TimersIdle, AnswerComing, Kept, Strays = {}, Lossy = FALSE,
         \A t, x \in Workers : t = x, [Next]_vars
  PROVE  Kept'
  <1> USE DEF IInv
  <1>0. IInv'
    BY InvariantStep
  <1>1. ASSUME NEW c \in CPFs, NEW t \in Threads, Asks(c, t) PROVE Kept'
    <2>1. PICK op \in {"setup", "release", "delete"}, u \in UPFs, s \in Seids \cup {None} :
             Call(c, t, op, u, s, {})
      BY <1>1, AsksEffect
    <2>2. op \in Ops /\ {} \in SUBSET Pdrs /\ op # "establish"
      BY DEF Ops
    <2>3. cpStore' = cpStore /\ upSess' = upSess /\ call[c][t].op \in {"idle", "armed"}
      BY <1>1, AsksEffect
    <2> QED BY <1>0, <2>1, <2>2, <2>3, SendingKeeps
  <1>2. ASSUME NEW c \in CPFs, NEW t \in Threads, NEW u \in UPFs, StartEstablish(c, t, u)
        PROVE  Kept'
    <2>1. PICK s \in Seids :
             /\ call[c][t].op = "idle" /\ Call(c, t, "establish", u, s, BasePdrs)
             /\ cpStore' = cpStore \cup {s} /\ upSess' = upSess
      BY <1>2, CreateEffect
    <2>2. "establish" \in Ops /\ BasePdrs \in SUBSET Pdrs
      BY DEF Ops, Pdrs
    <2> QED BY <1>0, <2>1, <2>2, SendingKeeps
  <1>3. ASSUME NEW c \in CPFs, NEW t \in Threads, NEW s \in Seids, NEW p \in ExtraPdrs,
               StartModify(c, t, s, p)
        PROVE  Kept'
    <2>1. /\ cpSess[s].upf \in UPFs /\ {p} \in SUBSET Pdrs /\ call[c][t].op = "idle"
          /\ Call(c, t, "modify", cpSess[s].upf, s, {p})
          /\ upSess' = upSess /\ cpStore' = cpStore
      BY <1>3, ModifyEffect
    <2>2. "modify" \in Ops
      BY DEF Ops
    <2> QED BY <1>0, <2>1, <2>2, SendingKeeps
  <1>4. ASSUME NEW c \in CPFs, NEW t \in Threads, Ends(c, t) \/ EndEstablish(c, t)
        PROVE  Kept'
    BY <1>0, <1>4, EndingKeeps
  <1>5. ASSUME NEW c \in CPFs, NEW t \in Threads, TimeoutLost(c, t) \/ TimeoutLate(c, t)
        PROVE  FALSE
    BY <1>5 DEF TimeoutLost, TimeoutLate, GiveUp, AnswerComing
  <1>6. ASSUME NEW m \in requests, Clears(m) PROVE Kept'
    BY <1>0, <1>6, ClearingKeeps
  <1>7. ASSUME cpStore' = cpStore, \A u \in UPFs, s \in Seids : Installed(u, s)' => Installed(u, s),
               requests' \subseteq requests,
               \A d \in CPFs, x \in Threads :
                   LET k == call[d][x]
                       l == call'[d][x] IN
                   /\ l.op = k.op /\ l.seid = k.seid /\ l.upf = k.upf
                   /\ l.op = "establish" => l.answer \in {k.answer, "accepted"}
                   /\ l.op \in {"delete", "release"} => (Served(d, x)' => Served(d, x)),
               \A m \in replies' : m.tag \in Threads /\ call[m.cpf][m.tag].op = "establish" =>
                   m \in replies
        PROVE  Kept'
    <2>1. \A u \in UPFs, s \in Seids : Installed(u, s)' => Installed(u, s) /\ s \in cpStore'
      BY <1>7 DEF Kept
    <2>2. \A d \in CPFs, x \in Threads : call'[d][x].op = "establish" =>
             call'[d][x].seid \in cpStore'
      BY <1>7 DEF Kept
    <2>3. \A m \in requests' : m.op = "establish" => m.seid \in cpStore'
      BY <1>7 DEF Kept
    <2>4. \A m \in replies' : m.tag \in Threads /\ call'[m.cpf][m.tag].op = "establish" =>
             m \in replies /\ call[m.cpf][m.tag].op = "establish"
      <3>1. \A m \in replies' : m.cpf \in CPFs
        BY <1>0, MessageFields DEF TypeOK, Reply
      <3> QED BY <1>7, <3>1
    <2> HIDE DEF Installed, Served
    <2> QED BY <1>0, <1>7, <2>1, <2>2, <2>3, <2>4, StillKept
  <1>8. ASSUME NEW m \in requests, ServeModify(m) PROVE Kept'
    <2>1. PICK a \in Causes : Answer(m, a, 0)
      BY <1>8, ServeModifyEffect
    <2>2. /\ m.op = "modify"
          /\ \A u \in UPFs, s \in Seids : Installed(u, s)' <=> Installed(u, s)
      BY <1>8, ServeModifyEffect
    <2>3. /\ requests' = requests \ {m} /\ call' = call /\ cpStore' = cpStore
          /\ \E r \in Reply : r.cpf = m.cpf /\ r.tag = m.tag /\ replies' = replies \cup {r}
      BY <2>1, Answered
    <2>4. m.tag \in Threads => call[m.cpf][m.tag].op = "modify"
      BY <2>2 DEF AwaitedByCaller
    <2> QED BY <1>7, <2>2, <2>3, <2>4 DEF Served, Mine
  <1>9. ASSUME NEW m \in requests, ServeEstablish(m) PROVE Kept'
    BY <1>9, InstallingKeeps
  <1>10. ASSUME NEW n \in replies, ReceiveReply(n) PROVE Kept'
    <2>1. /\ replies' = replies \ {n} /\ requests' = requests /\ cpStore' = cpStore
          /\ upSess' = upSess
          /\ \A d \in CPFs, x \in Threads : d # n.cpf \/ x # n.tag => call'[d][x] = call[d][x]
          /\ n.tag \in Threads =>
                LET k == call[n.cpf][n.tag]
                    l == call'[n.cpf][n.tag] IN
                l.op = k.op /\ l.upf = k.upf /\ l.seid = k.seid /\ l.answer = n.cause
      BY <1>10, Received
    <2>2. n.tag \in Threads /\ call[n.cpf][n.tag].op = "establish" => n.cause = "accepted"
      BY DEF Kept
    <2>3. \A u \in UPFs, s \in Seids : Installed(u, s)' => Installed(u, s)
      BY <2>1 DEF Installed
    <2>4. \A d \in CPFs, x \in Threads : Served(d, x)' => Served(d, x)
      BY <2>1 DEF Served, Mine
    <2> QED BY <1>7, <2>1, <2>2, <2>3, <2>4
  <1>11. ASSUME NEW m \in updates PROVE FALSE
    BY <1>11 DEF TimersIdle
  <1>12. ASSUME NEW u \in UPFs, Restart(u) PROVE Kept'
    <2>1. /\ replies' = replies /\ requests' = requests /\ call' = call /\ cpStore' = cpStore
          /\ \A v \in UPFs, s \in Seids : upSess'[v][s] \in {upSess[v][s], NoSession}
      BY <1>12, RestartEffect
    <2> QED BY <1>7, <2>1, ClearedInstalled DEF Served
  <1>13. ASSUME Lose PROVE FALSE
    BY <1>13 DEF Lose
  <1>14. ASSUME UNCHANGED <<cpStore, call, upSess, requests, replies>> PROVE Kept'
    BY <1>7, <1>14 DEF Installed, Served
  <1> QED
    BY <1>1, <1>2, <1>3, <1>4, <1>5, <1>6, <1>8, <1>9, <1>10, <1>11, <1>12, <1>13, <1>14, StepKinds

(* One worker to a CPF, no service changes, and no message lost or served  *)
(* late: no session is left behind on a UPF, for any number of CPFs and    *)
(* restarts.                                                               *)
THEOREM NoOrphanHolds ==
  ASSUME \A t, x \in Workers : t = x, AdminStates = {}, Lossy = FALSE, Strays = {}
  PROVE  Spec => []NoOrphan
  <1>1. Init => TimersIdle /\ AnswerComing /\ Kept
    BY CallTypes DEF Init, TimersIdle, AnswerComing, Kept, Installed, Threads, Ops
  <1>2. /\ IInv /\ TimersIdle /\ AnswerComing /\ Kept /\ [Next]_vars
              => TimersIdle' /\ AnswerComing' /\ Kept'
    BY TimersIdleStep, ComingStep, KeptStep DEF IInv
  <1>3. Kept => NoOrphan
    BY DEF Kept, NoOrphan
  <1> QED BY <1>1, <1>2, <1>3, Invariant, PTL DEF Spec

=============================================================================
