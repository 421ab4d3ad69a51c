------------------------- MODULE SessionSetupProofs -------------------------
(***************************************************************************)
(* Proofs about SessionSetup for any set of subscribers and any number of  *)
(* procedures: type correctness, exclusive addresses and the Sx sessions   *)
(* that back the contexts, with any number of faults; without one, the     *)
(* contexts that agree and the bearers that work; and that it implements   *)
(* BearerService, with and without.                                        *)
(***************************************************************************)
EXTENDS SessionSetup, TLAPS

---------------------------------------------------------------------------
(* What the Sx procedures do to the counters and the UPFs' stores. *)

SxTypes ==
    seid \in [Nodes -> Nat] /\ upf \in [Nodes -> [store : SUBSET Nat, teid : Nat]]

(* An establishment draws a fresh SEID, and a fresh TEID if it is served;  *)
(* no session goes.                                                        *)
LEMMA Established ==
  ASSUME SxTypes, NEW n \in Nodes, NEW o \in Outcomes, Establish(n, o)
  PROVE  /\ SxTypes'
         /\ seid'[n] = seid[n] + 1
         /\ \A m \in Nodes :
               /\ seid[m] <= seid'[m]
               /\ upf[m].store \subseteq upf'[m].store
               /\ upf[m].teid <= upf'[m].teid
               /\ m # n => upf'[m] = upf[m] /\ seid'[m] = seid[m]
         /\ o = "done" => /\ NextSeid(n) \in upf'[n].store
                          /\ upf'[n].teid = NextTeid(n)
         /\ NextSeid(n) = seid[n] + 1 /\ NextTeid(n) = upf[n].teid + 1
         /\ NextSeid(n) \in Nat /\ NextTeid(n) \in Nat
  <1>1. NextSeid(n) = seid[n] + 1 /\ NextTeid(n) = upf[n].teid + 1
    BY DEF NextSeid, NextTeid
  <1>2. seid[n] \in Nat /\ upf[n] \in [store : SUBSET Nat, teid : Nat]
    BY DEF SxTypes
  <1>3. seid' = [seid EXCEPT ![n] = seid[n] + 1]
    BY <1>1 DEF Establish
  <1>4. seid' \in [Nodes -> Nat]
    BY <1>2, <1>3 DEF SxTypes
  <1>5. CASE o = "unserved"
    BY <1>1, <1>2, <1>3, <1>4, <1>5 DEF Establish, SxTypes
  <1>6. CASE o # "unserved"
    <2>1. upf' = [upf EXCEPT ![n] = [store |-> upf[n].store \cup {seid[n] + 1},
                                     teid |-> upf[n].teid + 1]]
      BY <1>1, <1>6 DEF Establish
    <2>2. upf' \in [Nodes -> [store : SUBSET Nat, teid : Nat]]
      BY <1>2, <2>1 DEF SxTypes
    <2> QED BY <1>1, <1>2, <1>3, <1>4, <2>1, <2>2 DEF SxTypes
  <1> QED BY <1>5, <1>6

(* A deletion takes away one session at most, the one it names.            *)
LEMMA Released ==
  ASSUME SxTypes, NEW n \in Nodes, NEW s \in Nat, NEW o \in Outcomes, Release(n, s, o)
  PROVE  /\ SxTypes'
         /\ seid' = seid
         /\ \A m \in Nodes :
               /\ upf'[m].teid = upf[m].teid
               /\ upf[m].store \ {s} \subseteq upf'[m].store
               /\ m # n => upf'[m] = upf[m]
  <1>1. upf[n] \in [store : SUBSET Nat, teid : Nat]
    BY DEF SxTypes
  <1>2. CASE o = "unserved"
    BY <1>1, <1>2 DEF Release, SxTypes
  <1>3. CASE o # "unserved"
    <2>1. upf' = [upf EXCEPT ![n].store = upf[n].store \ {s}]
      BY <1>3 DEF Release
    <2>2. upf' \in [Nodes -> [store : SUBSET Nat, teid : Nat]]
      BY <1>1, <2>1 DEF SxTypes
    <2> QED BY <1>1, <2>1, <2>2 DEF Release, SxTypes
  <1> QED BY <1>2, <1>3

---------------------------------------------------------------------------
(* Type correctness. *)

(* The messages and contexts the steps build have their types.             *)
LEMMA Built ==
    /\ Bare \in Answers
    /\ \A t, a \in Nat \cup {None} : Answer(t, a) \in Answers
    /\ \A r \in Answers : PgwTeid(r) \in Nat /\ UeIp(r) \in Nat
    /\ \A op \in {"create", "modify", "delete"}, i \in Imsis :
          [op |-> op, imsi |-> i] \in S11Requests
    /\ \A op \in {"create", "delete"}, i \in Imsis, t \in Nat :
          [op |-> op, imsi |-> i, s5u |-> t] \in S5Requests
    /\ \A c \in SgwContexts : [c EXCEPT !.enb = TRUE] \in SgwContexts
  BY SetupAssumption DEF Bare, Answer, Answers, PgwTeid, UeIp, S11Requests, S5Requests,
     SgwContexts

(* A socket that is read, or written to, holds what it may hold.           *)
LEMMA Sockets ==
  ASSUME NEW T, NEW q \in Seq(T)
  PROVE  /\ q # <<>> => Head(q) \in T /\ Tail(q) \in Seq(T)
         /\ \A m \in T : Append(q, m) \in Seq(T)
  OBVIOUS

(* What a fault budget allows stays within it.                             *)
LEMMA FaultsFit ==
  ASSUME faults \in 0..MaxFaults, NEW n \in Nat, Faults(n)
  PROVE  faults' \in 0..MaxFaults
  BY SetupAssumption DEF Faults

(* The initial states are of the right types. *)
LEMMA InitTypeOK == Init => TypeOK
  <1> SUFFICES ASSUME Init PROVE TypeOK
    OBVIOUS
  <1>1. \A T : <<>> \in Seq(T)
    OBVIOUS
  <1> QED
    BY <1>1, Built, SetupAssumption DEF Init, TypeOK, Nodes

(* The steps of the MME. *)
LEMMA MmeType == TypeOK /\ (Start \/ Mme) => TypeOK'
  <1> SUFFICES ASSUME TypeOK, Start \/ Mme PROVE TypeOK'
    OBVIOUS
  <1>1. ASSUME NEW op \in {"create", "modify", "delete"}, NEW i \in Imsis, Ask(op, i),
               bearer' \in [Imsis -> Answers], setup' \subseteq Imsis
        PROVE  TypeOK'
    <2>1. toSgwc' \in Seq(S11Requests) /\ mme' \in S11Requests
      BY <1>1, Built, Sockets DEF Ask, TypeOK
    <2>2. procs' \in 0..MaxProcs
      BY <1>1, SetupAssumption DEF Ask, TypeOK
    <2> QED BY <1>1, <2>1, <2>2 DEF Ask, TypeOK, sgwcVars, pgwcVars, sxVars, routeVars
  <1>2. ASSUME NEW i \in Imsis, StartCreate(i) \/ StartModify(i) \/ StartDelete(i)
        PROVE  TypeOK'
    <2>1. bearer \in [Imsis -> Answers] /\ setup \subseteq Imsis
      BY DEF TypeOK
    <2>2. CASE StartCreate(i)
      BY <1>1, <2>1, <2>2, Built DEF StartCreate
    <2>3. CASE StartModify(i)
      BY <1>1, <2>1, <2>3 DEF StartModify
    <2>4. CASE StartDelete(i)
      BY <1>1, <2>1, <2>4 DEF StartDelete
    <2> QED BY <1>2, <2>2, <2>3, <2>4
  <1>3. CASE MmeAnswered
    <2>1. Head(fromSgwc) \in Answers /\ fromSgwc' \in Seq(Answers)
      BY <1>3, Sockets DEF MmeAnswered, TypeOK
    <2>2. mme.imsi \in Imsis
      BY <1>3 DEF MmeAnswered, TypeOK, S11Requests, MmeIdle
    <2>3. bearer' \in [Imsis -> Answers] /\ setup' \subseteq Imsis
      BY <1>3, <2>1, <2>2 DEF MmeAnswered, TypeOK
    <2> QED
      BY <1>3, <2>1, <2>3 DEF MmeAnswered, TypeOK, sgwcVars, pgwcVars, sxVars, routeVars
  <1>4. CASE MmeTimeout
    <2>1. faults' \in 0..MaxFaults
      BY <1>4, FaultsFit DEF MmeTimeout, TypeOK
    <2> QED
      BY <1>4, <2>1 DEF MmeTimeout, TypeOK, sgwcVars, pgwcVars, sxVars, routeVars, netVars
  <1> QED BY <1>2, <1>3, <1>4 DEF Start, Mme

(* Whom a request is for. *)
LEMMA SgwcHead ==
  ASSUME TypeOK, NEW op, SgwcTakes(op)
  PROVE  Subscriber \in Imsis /\ toSgwc # <<>> /\ Tail(toSgwc) \in Seq(S11Requests)
  <1>1. toSgwc # <<>> /\ Head(toSgwc) \in S11Requests /\ Tail(toSgwc) \in Seq(S11Requests)
    BY Sockets DEF TypeOK, SgwcTakes
  <1> QED BY <1>1 DEF Subscriber, S11Requests

(* The message the PGW-C takes from its socket is of the right type. *)
LEMMA PgwcHead ==
  ASSUME TypeOK, NEW op, PgwcTakes(op)
  PROVE  Head(toPgwc) \in S5Requests /\ Tail(toPgwc) \in Seq(S5Requests)
  BY Sockets DEF TypeOK, PgwcTakes

(* What is known of an SGW-C that waits for the PGW-C. *)
LEMMA SgwcWaits ==
  ASSUME TypeOK, sgwc.op # "idle"
  PROVE  sgwc.imsi \in Imsis /\ sgwc.s5u \in Nat
  BY DEF TypeOK, S5Requests, SgwcIdle

(* The steps of the SGW-C. *)
LEMMA SgwcType == TypeOK /\ Sgwc => TypeOK'
  <1> SUFFICES ASSUME TypeOK, Sgwc PROVE TypeOK'
    OBVIOUS
  <1> USE DEF mmeVars, pgwcVars, sxVars, routeVars
  <1>0. SxTypes /\ (SxTypes' <=> (/\ seid' \in [Nodes -> Nat]
                                 /\ upf' \in [Nodes -> [store : SUBSET Nat, teid : Nat]]))
    BY DEF TypeOK, SxTypes
  <1>a. \A o \in Outcomes : Cost(o) \in Nat
    BY DEF Cost
  <1>b. "sgw" \in Nodes
    BY DEF Nodes
  <1>c. \A a \in Answers : Append(fromSgwc, a) \in Seq(Answers)
    BY Sockets DEF TypeOK
  <1>1. CASE SgwcCreate
    <2>1. Subscriber \in Imsis /\ toSgwc' \in Seq(S11Requests)
      BY <1>1, SgwcHead DEF SgwcCreate
    <2>2. s5u + 1 \in Nat
      BY DEF TypeOK
    <2>3. [op |-> "create", imsi |-> Subscriber, s5u |-> s5u + 1] \in S5Requests
      BY <2>1, <2>2, Built
    <2>4. s5u' \in Nat /\ sgwc' \in S5Requests
      BY <1>1, <2>2, <2>3 DEF SgwcCreate
    <2>5. toPgwc' \in Seq(S5Requests)
      BY <1>1, <2>3, Sockets DEF SgwcCreate, TypeOK
    <2> QED BY <1>1, <2>1, <2>4, <2>5 DEF SgwcCreate, TypeOK
  <1>2. CASE SgwcCreated
    <2>1. Head(fromPgwc) \in Answers /\ fromPgwc' \in Seq(Answers)
      BY <1>2, Sockets DEF SgwcCreated, TypeOK
    <2>2. PICK o \in Outcomes, routed \in BOOLEAN :
              /\ Faults(Cost(o) + IF routed THEN 0 ELSE 1)
              /\ Establish("sgw", o)
              /\ IF o = "done"
                 THEN /\ sgwCtx' = [sgwCtx EXCEPT ![sgwc.imsi] =
                             [seid |-> NextSeid("sgw"), s1u |-> NextTeid("sgw"),
                              s5u |-> sgwc.s5u, pgw |-> PgwTeid(Head(fromPgwc)),
                              ip |-> UeIp(Head(fromPgwc)), enb |-> FALSE]]
                      /\ sgwUp' = IF routed THEN sgwUp \cup {UplinkRoute(Head(fromPgwc))}
                                  ELSE sgwUp
                      /\ fromSgwc' = Append(fromSgwc,
                                            Answer(NextTeid("sgw"), UeIp(Head(fromPgwc))))
                 ELSE /\ fromSgwc' = Append(fromSgwc, Bare)
                      /\ UNCHANGED <<sgwCtx, sgwUp>>
      BY <1>2, Zenon DEF SgwcCreated
    <2>3. faults' \in 0..MaxFaults
      <3>1. Cost(o) + (IF routed THEN 0 ELSE 1) \in Nat
        BY <1>a
      <3> QED BY <2>2, <3>1, FaultsFit DEF TypeOK
    <2>4. SxTypes' /\ NextSeid("sgw") \in Nat /\ NextTeid("sgw") \in Nat
      BY <1>0, <1>b, <2>2, Established
    <2>5. PgwTeid(Head(fromPgwc)) \in Nat /\ UeIp(Head(fromPgwc)) \in Nat
      BY <2>1, Built
    <2>6. sgwCtx' \in [Imsis -> SgwContexts \cup {None}]
      <3>1. sgwc.imsi \in Imsis /\ sgwc.s5u \in Nat
        BY <1>2, SgwcWaits DEF SgwcCreated
      <3>2. [seid |-> NextSeid("sgw"), s1u |-> NextTeid("sgw"), s5u |-> sgwc.s5u,
             pgw |-> PgwTeid(Head(fromPgwc)), ip |-> UeIp(Head(fromPgwc)), enb |-> FALSE]
               \in SgwContexts
        BY <2>4, <2>5, <3>1 DEF SgwContexts
      <3> QED BY <2>2, <3>1, <3>2 DEF TypeOK
    <2>7. sgwUp' \subseteq Nat \X Nat
      <3>1. UplinkRoute(Head(fromPgwc)) \in Nat \X Nat
        BY <2>4, <2>5 DEF UplinkRoute
      <3> QED BY <2>2, <3>1 DEF TypeOK
    <2>8. fromSgwc' \in Seq(Answers)
      <3>1. Answer(NextTeid("sgw"), UeIp(Head(fromPgwc))) \in Answers
        BY <2>4, <2>5, Built
      <3> QED BY <1>c, <2>2, <3>1, Built
    <2> QED
      BY <1>0, <1>2, <2>1, <2>3, <2>4, <2>6, <2>7, <2>8 DEF SgwcCreated, TypeOK
  <1>3. CASE SgwcTimeout
    <2>1. faults' \in 0..MaxFaults
      BY <1>3, FaultsFit DEF SgwcTimeout, TypeOK
    <2>2. fromSgwc' \in Seq(Answers)
      BY <1>3, Built, Sockets DEF SgwcTimeout, TypeOK
    <2> QED BY <1>3, <2>1, <2>2 DEF SgwcTimeout, TypeOK
  <1>4. CASE SgwcModify
    <2>1. Subscriber \in Imsis /\ toSgwc' \in Seq(S11Requests)
      BY <1>4, SgwcHead DEF SgwcModify
    <2>2. CASE sgwCtx[Subscriber] = None
      <3>1. fromSgwc' \in Seq(Answers)
        BY <1>4, <1>c, <2>2, Built DEF SgwcModify
      <3> QED BY <1>4, <2>1, <2>2, <3>1 DEF SgwcModify, TypeOK
    <2>3. CASE sgwCtx[Subscriber] # None
      <3>1. sgwCtx[Subscriber] \in SgwContexts
        BY <2>1, <2>3 DEF TypeOK
      <3>2. sgwCtx[Subscriber].s5u \in Nat /\ sgwCtx[Subscriber].s1u \in Nat
        BY <3>1 DEF SgwContexts
      <3>3. PICK routed \in BOOLEAN :
                /\ Faults(IF routed THEN 0 ELSE 1)
                /\ sgwCtx' = [sgwCtx EXCEPT ![Subscriber].enb = TRUE]
                /\ sgwDown' = IF routed THEN sgwDown \cup {sgwCtx[Subscriber].s5u} ELSE sgwDown
                /\ fromSgwc' = Append(fromSgwc, Answer(sgwCtx[Subscriber].s1u, None))
        BY <1>4, <2>3, Zenon DEF SgwcModify
      <3>4. faults' \in 0..MaxFaults
        BY <3>3, FaultsFit DEF TypeOK
      <3>5. sgwCtx' \in [Imsis -> SgwContexts \cup {None}]
        <4>1. sgwCtx' = [sgwCtx EXCEPT ![Subscriber] =
                            [sgwCtx[Subscriber] EXCEPT !.enb = TRUE]]
          BY <2>1, <3>3 DEF TypeOK
        <4>2. [sgwCtx[Subscriber] EXCEPT !.enb = TRUE] \in SgwContexts
          BY <3>1, Built
        <4> QED BY <2>1, <4>1, <4>2 DEF TypeOK
      <3>6. sgwDown' \subseteq Nat
        BY <3>2, <3>3 DEF TypeOK
      <3>7. fromSgwc' \in Seq(Answers)
        <4>1. Answer(sgwCtx[Subscriber].s1u, None) \in Answers
          BY <3>2, Built
        <4> QED BY <3>3, <4>1, Sockets DEF TypeOK
      <3> QED BY <1>4, <2>1, <3>4, <3>5, <3>6, <3>7 DEF SgwcModify, TypeOK
    <2> QED BY <2>2, <2>3
  <1>5. CASE SgwcDelete
    <2>1. Subscriber \in Imsis /\ toSgwc' \in Seq(S11Requests)
      BY <1>5, SgwcHead DEF SgwcDelete
    <2>2. CASE sgwCtx[Subscriber] = None
      <3>1. fromSgwc' \in Seq(Answers)
        BY <1>5, <1>c, <2>2, Built DEF SgwcDelete
      <3> QED BY <1>5, <2>1, <2>2, <3>1 DEF SgwcDelete, TypeOK
    <2>3. CASE sgwCtx[Subscriber] # None
      <3>1. sgwCtx[Subscriber].seid \in Nat
        BY <2>1, <2>3 DEF TypeOK, SgwContexts
      <3>2. PICK o \in Outcomes : Faults(Cost(o)) /\ Release("sgw", sgwCtx[Subscriber].seid, o)
        BY <1>5, <2>3, Zenon DEF SgwcDelete
      <3>3. SxTypes'
        BY <1>0, <1>b, <3>1, <3>2, Released
      <3>4. faults' \in 0..MaxFaults
        BY <1>a, <3>2, FaultsFit DEF TypeOK
      <3>5. sgwCtx' \in [Imsis -> SgwContexts \cup {None}]
        BY <1>5, <2>1, <2>3 DEF SgwcDelete, TypeOK
      <3>6. [op |-> "delete", imsi |-> Subscriber, s5u |-> 0] \in S5Requests
        BY <2>1, Built
      <3>7. sgwc' \in S5Requests /\ toPgwc' \in Seq(S5Requests)
        <4>1. \A m \in S5Requests : Append(toPgwc, m) \in Seq(S5Requests)
          BY Sockets DEF TypeOK
        <4> QED BY <1>5, <2>3, <3>6, <4>1 DEF SgwcDelete
      <3> QED
        BY <1>0, <1>5, <2>1, <2>3, <3>3, <3>4, <3>5, <3>7 DEF SgwcDelete, TypeOK
    <2> QED BY <2>2, <2>3
  <1>6. CASE SgwcDeleted
    <2>1. fromPgwc' \in Seq(Answers) /\ fromSgwc' \in Seq(Answers)
      BY <1>6, Built, Sockets DEF SgwcDeleted, TypeOK
    <2> QED BY <1>6, <2>1 DEF SgwcDeleted, TypeOK
  <1> QED BY <1>1, <1>2, <1>3, <1>4, <1>5, <1>6 DEF Sgwc

(* The steps of the PGW-C. *)
LEMMA PgwcType == TypeOK /\ Pgwc => TypeOK'
  <1> SUFFICES ASSUME TypeOK, Pgwc PROVE TypeOK'
    OBVIOUS
  <1> USE DEF mmeVars, sgwcVars, sxVars, routeVars
  <1>0. SxTypes /\ (SxTypes' <=> (/\ seid' \in [Nodes -> Nat]
                                 /\ upf' \in [Nodes -> [store : SUBSET Nat, teid : Nat]]))
    BY DEF TypeOK, SxTypes
  <1>a. \A o \in Outcomes : Cost(o) \in Nat
    BY DEF Cost
  <1>b. "pgw" \in Nodes
    BY DEF Nodes
  <1>c. \A a \in Answers : Append(fromPgwc, a) \in Seq(Answers)
    BY Sockets DEF TypeOK
  <1>1. CASE PgwcCreate
    <2> DEFINE M == Head(toPgwc)
    <2>1. M \in S5Requests /\ toPgwc' \in Seq(S5Requests)
      BY <1>1, PgwcHead DEF PgwcCreate
    <2>2. M.imsi \in Imsis /\ M.s5u \in Nat
      BY <2>1 DEF S5Requests
    <2>3. PICK o \in Outcomes, routed \in BOOLEAN, linked \in BOOLEAN :
              /\ Faults(Cost(o) + (IF routed THEN 0 ELSE 1) + (IF linked THEN 0 ELSE 1))
              /\ Establish("pgw", o)
              /\ IF o = "done"
                 THEN /\ pgwCtx' = [pgwCtx EXCEPT ![M.imsi] =
                             [seid |-> NextSeid("pgw"), teid |-> NextTeid("pgw"),
                              sgw |-> M.s5u, ip |-> UeAddress]]
                      /\ pgwUp' = IF routed THEN pgwUp \cup {NextTeid("pgw")} ELSE pgwUp
                      /\ sgi' = IF linked THEN M.s5u ELSE sgi
                      /\ fromPgwc' = Append(fromPgwc, Answer(NextTeid("pgw"), UeAddress))
                 ELSE /\ fromPgwc' = Append(fromPgwc, Bare)
                      /\ UNCHANGED <<pgwCtx, pgwUp, sgi>>
      BY <1>1, Zenon DEF PgwcCreate
    <2>4. faults' \in 0..MaxFaults
      <3>1. Cost(o) + (IF routed THEN 0 ELSE 1) + (IF linked THEN 0 ELSE 1) \in Nat
        BY <1>a
      <3> QED BY <2>3, <3>1, FaultsFit DEF TypeOK
    <2>5. SxTypes' /\ NextSeid("pgw") \in Nat /\ NextTeid("pgw") \in Nat
      BY <1>0, <1>b, <2>3, Established
    <2>6. UeAddress \in Nat /\ ueN' \in Nat
      BY <1>1 DEF PgwcCreate, UeAddress, TypeOK
    <2>7. pgwCtx' \in [Imsis -> PgwContexts \cup {None}]
      <3>1. [seid |-> NextSeid("pgw"), teid |-> NextTeid("pgw"), sgw |-> M.s5u,
             ip |-> UeAddress] \in PgwContexts
        BY <2>2, <2>5, <2>6 DEF PgwContexts
      <3> QED BY <2>2, <2>3, <3>1 DEF TypeOK
    <2>8. pgwUp' \subseteq Nat /\ sgi' \in Nat \cup {None}
      BY <2>2, <2>3, <2>5 DEF TypeOK
    <2>9. fromPgwc' \in Seq(Answers)
      <3>1. Answer(NextTeid("pgw"), UeAddress) \in Answers
        BY <2>5, <2>6, Built
      <3> QED BY <1>c, <2>3, <3>1, Built
    <2> QED
      BY <1>0, <1>1, <2>1, <2>4, <2>5, <2>6, <2>7, <2>8, <2>9 DEF PgwcCreate, TypeOK
  <1>2. CASE PgwcDelete
    <2> DEFINE I == Head(toPgwc).imsi
    <2>1. Head(toPgwc) \in S5Requests /\ toPgwc' \in Seq(S5Requests)
      BY <1>2, PgwcHead DEF PgwcDelete
    <2>2. I \in Imsis
      BY <2>1 DEF S5Requests
    <2>3. fromPgwc' \in Seq(Answers)
      BY <1>2, <1>c, Built DEF PgwcDelete
    <2>4. CASE pgwCtx[I] = None
      BY <1>2, <2>1, <2>3, <2>4 DEF PgwcDelete, TypeOK
    <2>5. CASE pgwCtx[I] # None
      <3>1. pgwCtx[I].seid \in Nat
        BY <2>2, <2>5 DEF TypeOK, PgwContexts
      <3>2. PICK o \in Outcomes : Faults(Cost(o)) /\ Release("pgw", pgwCtx[I].seid, o)
        BY <1>2, <2>5, Zenon DEF PgwcDelete
      <3>3. SxTypes'
        BY <1>0, <1>b, <3>1, <3>2, Released
      <3>4. faults' \in 0..MaxFaults
        BY <1>a, <3>2, FaultsFit DEF TypeOK
      <3>5. pgwCtx' \in [Imsis -> PgwContexts \cup {None}]
        BY <1>2, <2>2, <2>5 DEF PgwcDelete, TypeOK
      <3> QED BY <1>0, <1>2, <2>1, <2>3, <3>3, <3>4, <3>5 DEF PgwcDelete, TypeOK
    <2> QED BY <2>4, <2>5
  <1> QED BY <1>1, <1>2 DEF Pgwc

(* Losing a message keeps the types. *)
LEMMA LoseType == TypeOK /\ Lose => TypeOK'
  <1> SUFFICES ASSUME TypeOK, Lose PROVE TypeOK'
    OBVIOUS
  <1>1. faults' \in 0..MaxFaults
    BY FaultsFit DEF Lose, TypeOK
  <1>a. /\ toSgwc \in Seq(S11Requests) /\ fromSgwc \in Seq(Answers)
        /\ toPgwc \in Seq(S5Requests) /\ fromPgwc \in Seq(Answers)
    BY DEF TypeOK
  <1>b. /\ toSgwc # <<>> => Tail(toSgwc) \in Seq(S11Requests)
        /\ fromSgwc # <<>> => Tail(fromSgwc) \in Seq(Answers)
        /\ toPgwc # <<>> => Tail(toPgwc) \in Seq(S5Requests)
        /\ fromPgwc # <<>> => Tail(fromPgwc) \in Seq(Answers)
    BY <1>a, Sockets
  <1>2. toSgwc' \in Seq(S11Requests) /\ fromSgwc' \in Seq(Answers)
    BY <1>a, <1>b DEF Lose
  <1>3. toPgwc' \in Seq(S5Requests) /\ fromPgwc' \in Seq(Answers)
    BY <1>a, <1>b DEF Lose
  <1> QED
    BY <1>1, <1>2, <1>3 DEF Lose, TypeOK, mmeVars, sgwcVars, pgwcVars, sxVars, routeVars

(* Every step keeps the types. *)
LEMMA TypeStep == TypeOK /\ [Next]_vars => TypeOK'
  <1>1. TypeOK /\ UNCHANGED vars => TypeOK'
    BY DEF TypeOK, vars, mmeVars, sgwcVars, pgwcVars, sxVars, routeVars, netVars
  <1> QED BY <1>1, MmeType, SgwcType, PgwcType, LoseType DEF Next

(* The state of the whole chain keeps its types, for any subscribers and   *)
(* any faults: in particular the defaults the SGW-C fills in (TEID 0,      *)
(* 10.10.0.2) make every context complete.                                 *)
THEOREM TypeCorrect == Spec => []TypeOK
  BY InitTypeOK, TypeStep, PTL DEF Spec

---------------------------------------------------------------------------
(* Contexts and the Sx sessions behind them. *)

(* The two halves of the invariant, for the SGW-C and for the PGW-C.       *)
SgwBacked ==
    \A i \in Imsis : sgwCtx[i] # None =>
        /\ sgwCtx[i].seid <= seid["sgw"]
        /\ sgwCtx[i].seid \in upf["sgw"].store
        /\ \A j \in Imsis \ {i} : sgwCtx[j] # None => sgwCtx[i].seid # sgwCtx[j].seid

PgwBacked ==
    \A i \in Imsis : pgwCtx[i] # None =>
        /\ pgwCtx[i].seid <= seid["pgw"]
        /\ pgwCtx[i].seid \in upf["pgw"].store
        /\ pgwCtx[i].teid <= upf["pgw"].teid
        /\ pgwCtx[i].ip < ueN
        /\ \A j \in Imsis \ {i} : pgwCtx[j] # None =>
              /\ pgwCtx[i].seid # pgwCtx[j].seid
              /\ pgwCtx[i].teid # pgwCtx[j].teid
              /\ pgwCtx[i].ip # pgwCtx[j].ip

(* The invariant is the types and one half for each gateway. *)
LEMMA Halves == IInv <=> TypeOK /\ SgwBacked /\ PgwBacked
  <1>1. SgwBacked /\ PgwBacked <=>
        SgwDrawn /\ PgwDrawn /\ ContextBacked /\ AddressExclusive
    BY DEF SgwDrawn, PgwDrawn, ContextBacked, AddressExclusive, SgwBacked, PgwBacked
  <1> QED BY <1>1 DEF IInv

(* A new context on a fresh SEID, and the loss of one with its session.    *)
LEMMA SgwStep == TypeOK /\ SgwBacked /\ [Next]_vars => SgwBacked'
  <1> SUFFICES ASSUME TypeOK, SgwBacked, [Next]_vars PROVE SgwBacked'
    OBVIOUS
  <1>0. SxTypes /\ "sgw" \in Nodes /\ "pgw" \in Nodes
    BY DEF TypeOK, SxTypes, Nodes
  <1>1. seid["sgw"] \in Nat
    BY <1>0 DEF SxTypes
  <1>2. \A i \in Imsis : sgwCtx[i] # None => sgwCtx[i].seid \in Nat
    BY DEF TypeOK, SgwContexts
  <1>3. CASE SgwcCreated
    <2>1. PICK o \in Outcomes :
              /\ Establish("sgw", o)
              /\ IF o = "done"
                 THEN sgwCtx' = [sgwCtx EXCEPT ![sgwc.imsi] =
                             [seid |-> NextSeid("sgw"), s1u |-> NextTeid("sgw"),
                              s5u |-> sgwc.s5u, pgw |-> PgwTeid(Head(fromPgwc)),
                              ip |-> UeIp(Head(fromPgwc)), enb |-> FALSE]]
                 ELSE sgwCtx' = sgwCtx
      BY <1>3, Zenon DEF SgwcCreated
    <2>2. /\ seid'["sgw"] = seid["sgw"] + 1
          /\ upf["sgw"].store \subseteq upf'["sgw"].store
          /\ NextSeid("sgw") = seid["sgw"] + 1
          /\ o = "done" => NextSeid("sgw") \in upf'["sgw"].store
      BY <1>0, <2>1, Established
    <2>3. sgwc.imsi \in Imsis
      BY <1>3, SgwcWaits DEF SgwcCreated
    <2>4. CASE o = "done"
      <3>1. /\ sgwCtx'[sgwc.imsi].seid = seid["sgw"] + 1
            /\ \A i \in Imsis \ {sgwc.imsi} : sgwCtx'[i] = sgwCtx[i]
        BY <2>1, <2>2, <2>3, <2>4 DEF TypeOK
      <3> QED BY <1>1, <1>2, <2>2, <2>4, <3>1 DEF SgwBacked
    <2>5. CASE o # "done"
      BY <1>1, <1>2, <2>1, <2>2, <2>5 DEF SgwBacked
    <2> QED BY <2>4, <2>5
  <1>4. CASE SgwcModify
    <2>1. seid' = seid /\ upf' = upf
      BY <1>4 DEF SgwcModify, sxVars
    <2>2. Subscriber \in Imsis
      BY <1>4, SgwcHead DEF SgwcModify
    <2>3. sgwCtx' = sgwCtx \/ (/\ sgwCtx[Subscriber] # None
                               /\ sgwCtx' = [sgwCtx EXCEPT ![Subscriber].enb = TRUE])
      BY <1>4, Zenon DEF SgwcModify
    <2>4. \A i \in Imsis : /\ sgwCtx[i] = None => sgwCtx'[i] = None
                           /\ sgwCtx[i] # None => sgwCtx'[i].seid = sgwCtx[i].seid
      <3>1. \A c \in SgwContexts : [c EXCEPT !.enb = TRUE].seid = c.seid
        BY DEF SgwContexts
      <3>2. sgwCtx[Subscriber] # None => sgwCtx[Subscriber] \in SgwContexts
        BY <2>2 DEF TypeOK
      <3>3. CASE sgwCtx' # sgwCtx
        <4>1. /\ sgwCtx'[Subscriber] = [sgwCtx[Subscriber] EXCEPT !.enb = TRUE]
              /\ \A i \in Imsis \ {Subscriber} : sgwCtx'[i] = sgwCtx[i]
          BY <2>2, <2>3, <3>3 DEF TypeOK
        <4> QED BY <2>3, <3>1, <3>2, <3>3, <4>1, ZenonT(30)
      <3> QED BY <3>3
    <2> QED BY <2>1, <2>4 DEF SgwBacked
  <1>5. CASE SgwcDelete
    <2>1. Subscriber \in Imsis
      BY <1>5, SgwcHead DEF SgwcDelete
    <2>2. CASE sgwCtx[Subscriber] = None
      BY <1>5, <2>2 DEF SgwcDelete, sxVars, SgwBacked
    <2>3. CASE sgwCtx[Subscriber] # None
      <3>1. PICK o \in Outcomes : Release("sgw", sgwCtx[Subscriber].seid, o)
        BY <1>5, <2>3, Zenon DEF SgwcDelete
      <3>2. /\ seid' = seid
            /\ upf["sgw"].store \ {sgwCtx[Subscriber].seid} \subseteq upf'["sgw"].store
        BY <1>0, <1>2, <2>1, <2>3, <3>1, Released
      <3>3. /\ sgwCtx'[Subscriber] = None
            /\ \A i \in Imsis \ {Subscriber} : sgwCtx'[i] = sgwCtx[i]
        BY <1>5, <2>1, <2>3 DEF SgwcDelete, TypeOK
      <3> QED BY <1>2, <2>1, <2>3, <3>2, <3>3 DEF SgwBacked
    <2> QED BY <2>2, <2>3
  <1>6. CASE Pgwc
    <2>1. sgwCtx' = sgwCtx
      BY <1>6 DEF Pgwc, PgwcCreate, PgwcDelete, sgwcVars
    <2>2. seid'["sgw"] = seid["sgw"] /\ upf'["sgw"] = upf["sgw"]
      <3>1. CASE PgwcCreate
        <4>1. PICK o \in Outcomes : Establish("pgw", o)
          BY <3>1, Zenon DEF PgwcCreate
        <4> QED BY <1>0, <4>1, Established
      <3>2. CASE PgwcDelete
        <4>1. CASE pgwCtx[Head(toPgwc).imsi] = None
          BY <3>2, <4>1 DEF PgwcDelete, sxVars
        <4>2. CASE pgwCtx[Head(toPgwc).imsi] # None
          <5>1. PICK o \in Outcomes : Release("pgw", pgwCtx[Head(toPgwc).imsi].seid, o)
            BY <3>2, <4>2, Zenon DEF PgwcDelete
          <5>2. Head(toPgwc) \in S5Requests
            BY <3>2, PgwcHead DEF PgwcDelete
          <5>3. pgwCtx[Head(toPgwc).imsi].seid \in Nat
            BY <4>2, <5>2 DEF TypeOK, S5Requests, PgwContexts
          <5> QED BY <1>0, <5>1, <5>3, Released
        <4> QED BY <4>1, <4>2
      <3> QED BY <1>6, <3>1, <3>2 DEF Pgwc
    <2> QED BY <2>1, <2>2 DEF SgwBacked
  <1>7. CASE UNCHANGED <<sgwCtx, seid, upf>>
    BY <1>7 DEF SgwBacked
  <1> QED
    BY <1>3, <1>4, <1>5, <1>6, <1>7 DEF Next, Start, Mme, Sgwc, StartCreate, StartModify,
       StartDelete, Ask, MmeAnswered, MmeTimeout, SgwcCreate, SgwcTimeout, SgwcDeleted, Lose,
       vars, sgwcVars, sxVars

(* Every step keeps the PGW-C's half. *)
LEMMA PgwStep == TypeOK /\ PgwBacked /\ [Next]_vars => PgwBacked'
  <1> SUFFICES ASSUME TypeOK, PgwBacked, [Next]_vars PROVE PgwBacked'
    OBVIOUS
  <1>0. SxTypes /\ "sgw" \in Nodes /\ "pgw" \in Nodes
    BY DEF TypeOK, SxTypes, Nodes
  <1>1. seid["pgw"] \in Nat /\ upf["pgw"].teid \in Nat /\ ueN \in Nat
    BY <1>0 DEF SxTypes, TypeOK
  <1>2. \A i \in Imsis : pgwCtx[i] # None =>
            pgwCtx[i].seid \in Nat /\ pgwCtx[i].teid \in Nat /\ pgwCtx[i].ip \in Nat
    BY DEF TypeOK, PgwContexts
  <1>3. CASE PgwcCreate
    <2> DEFINE M == Head(toPgwc)
    <2>1. PICK o \in Outcomes :
              /\ Establish("pgw", o)
              /\ IF o = "done"
                 THEN pgwCtx' = [pgwCtx EXCEPT ![M.imsi] =
                             [seid |-> NextSeid("pgw"), teid |-> NextTeid("pgw"),
                              sgw |-> M.s5u, ip |-> UeAddress]]
                 ELSE pgwCtx' = pgwCtx
      BY <1>3, Zenon DEF PgwcCreate
    <2>2. /\ seid'["pgw"] = seid["pgw"] + 1
          /\ upf["pgw"].store \subseteq upf'["pgw"].store
          /\ upf["pgw"].teid <= upf'["pgw"].teid
          /\ upf'["pgw"].teid \in Nat
          /\ NextSeid("pgw") = seid["pgw"] + 1
          /\ NextTeid("pgw") = upf["pgw"].teid + 1
          /\ o = "done" => /\ NextSeid("pgw") \in upf'["pgw"].store
                           /\ upf'["pgw"].teid = NextTeid("pgw")
      BY <1>0, <2>1, Established DEF SxTypes
    <2>3. ueN' = ueN + 1
      BY <1>3 DEF PgwcCreate
    <2>4. CASE o = "done"
      <3>1. M.imsi \in Imsis
        BY <1>3, PgwcHead DEF PgwcCreate, S5Requests
      <3>2. /\ pgwCtx'[M.imsi].seid = seid["pgw"] + 1
            /\ pgwCtx'[M.imsi].teid = upf["pgw"].teid + 1
            /\ pgwCtx'[M.imsi].ip = ueN
            /\ \A i \in Imsis \ {M.imsi} : pgwCtx'[i] = pgwCtx[i]
        BY <2>1, <2>2, <2>4, <3>1 DEF TypeOK, UeAddress
      <3>3. /\ seid["pgw"] + 1 \in upf'["pgw"].store
            /\ upf'["pgw"].teid = upf["pgw"].teid + 1
        BY <2>2, <2>4
      <3> HIDE DEF M
      <3>4. ASSUME NEW i \in Imsis, pgwCtx'[i] # None
            PROVE  /\ pgwCtx'[i].seid <= seid'["pgw"]
                   /\ pgwCtx'[i].seid \in upf'["pgw"].store
                   /\ pgwCtx'[i].teid <= upf'["pgw"].teid
                   /\ pgwCtx'[i].ip < ueN'
        BY <1>1, <1>2, <2>2, <2>3, <3>2, <3>3, <3>4 DEF PgwBacked
      <3>5. ASSUME NEW i \in Imsis, NEW j \in Imsis \ {i}, pgwCtx'[i] # None, pgwCtx'[j] # None
            PROVE  /\ pgwCtx'[i].seid # pgwCtx'[j].seid
                   /\ pgwCtx'[i].teid # pgwCtx'[j].teid
                   /\ pgwCtx'[i].ip # pgwCtx'[j].ip
        BY <1>1, <1>2, <3>2, <3>5 DEF PgwBacked
      <3> QED BY <3>4, <3>5 DEF PgwBacked
    <2>5. CASE o # "done"
      BY <1>1, <1>2, <2>1, <2>2, <2>3, <2>5 DEF PgwBacked
    <2> QED BY <2>4, <2>5
  <1>4. CASE PgwcDelete
    <2> DEFINE I == Head(toPgwc).imsi
    <2>1. I \in Imsis
      BY <1>4, PgwcHead DEF PgwcDelete, S5Requests
    <2>2. ueN' = ueN
      BY <1>4 DEF PgwcDelete
    <2>3. CASE pgwCtx[I] = None
      BY <1>4, <2>2, <2>3 DEF PgwcDelete, sxVars, PgwBacked
    <2>4. CASE pgwCtx[I] # None
      <3>1. PICK o \in Outcomes : Release("pgw", pgwCtx[I].seid, o)
        BY <1>4, <2>4, Zenon DEF PgwcDelete
      <3>2. /\ seid' = seid /\ upf'["pgw"].teid = upf["pgw"].teid
            /\ upf["pgw"].store \ {pgwCtx[I].seid} \subseteq upf'["pgw"].store
        BY <1>0, <1>2, <2>1, <2>4, <3>1, Released
      <3>3. pgwCtx'[I] = None /\ \A i \in Imsis \ {I} : pgwCtx'[i] = pgwCtx[i]
        BY <1>4, <2>1, <2>4 DEF PgwcDelete, TypeOK
      <3> HIDE DEF I
      <3> QED BY <1>2, <2>1, <2>2, <2>4, <3>2, <3>3 DEF PgwBacked
    <2> QED BY <2>3, <2>4
  <1>5. CASE SgwcCreated \/ SgwcDelete
    <2>1. pgwCtx' = pgwCtx /\ ueN' = ueN
      BY <1>5 DEF SgwcCreated, SgwcDelete, pgwcVars
    <2>2. seid'["pgw"] = seid["pgw"] /\ upf'["pgw"] = upf["pgw"]
      <3>1. CASE SgwcCreated
        <4>1. PICK o \in Outcomes : Establish("sgw", o)
          BY <3>1, Zenon DEF SgwcCreated
        <4> QED BY <1>0, <4>1, Established
      <3>2. CASE SgwcDelete
        <4>1. CASE sgwCtx[Subscriber] = None
          BY <3>2, <4>1 DEF SgwcDelete, sxVars
        <4>2. CASE sgwCtx[Subscriber] # None
          <5>1. PICK o \in Outcomes : Release("sgw", sgwCtx[Subscriber].seid, o)
            BY <3>2, <4>2, Zenon DEF SgwcDelete
          <5>2. Subscriber \in Imsis
            BY <3>2, SgwcHead DEF SgwcDelete
          <5>3. sgwCtx[Subscriber].seid \in Nat
            BY <4>2, <5>2 DEF TypeOK, SgwContexts
          <5> QED BY <1>0, <5>1, <5>3, Released
        <4> QED BY <4>1, <4>2
      <3> QED BY <1>5, <3>1, <3>2
    <2> QED BY <2>1, <2>2 DEF PgwBacked
  <1>6. CASE UNCHANGED <<pgwCtx, ueN, seid, upf>>
    BY <1>6 DEF PgwBacked
  <1> QED
    BY <1>3, <1>4, <1>5, <1>6 DEF Next, Start, Mme, Sgwc, Pgwc, StartCreate, StartModify,
       StartDelete, Ask, MmeAnswered, MmeTimeout, SgwcCreate, SgwcModify, SgwcTimeout,
       SgwcDeleted, Lose, vars, pgwcVars, sxVars

(* The inductive invariant holds initially. *)
LEMMA InitIInv == Init => IInv
  BY InitTypeOK DEF Init, IInv, SgwDrawn, PgwDrawn, ContextBacked, AddressExclusive

(* Every step keeps the inductive invariant. *)
LEMMA IInvStep == IInv /\ [Next]_vars => IInv'
  <1>1. IInv' <=> TypeOK' /\ SgwBacked' /\ PgwBacked'
    BY Halves, PTL
  <1> QED BY <1>1, Halves, TypeStep, SgwStep, PgwStep

(* IInv holds throughout: what the properties below follow from. *)
THEOREM Invariant == Spec => []IInv
  BY InitIInv, IInvStep, PTL DEF Spec

(* No two subscribers have one address or one S5-U TEID at the PGW-C.      *)
THEOREM AddressExclusiveHolds == Spec => []AddressExclusive
  <1>1. IInv => AddressExclusive
    BY DEF IInv
  <1> QED BY <1>1, Invariant, PTL

(* The Sx session of every context is in the UPF and is nobody else's.     *)
THEOREM ContextBackedHolds == Spec => []ContextBacked
  <1>1. IInv => ContextBacked
    BY DEF IInv
  <1> QED BY <1>1, Invariant, PTL

---------------------------------------------------------------------------
(* As long as nothing is lost or late, the contexts of the SGW-C and the   *)
(* PGW-C agree, and a subscriber's bearer works.  Neither is inductive.    *)
(* What keeps them is that the three nodes, each of which would take any   *)
(* datagram for its answer, go in step as long as every answer comes in    *)
(* time: one procedure is under way, and it is at one of four places.      *)

(* The contexts of a subscriber agree.                                     *)
Agree(i) ==
    /\ sgwCtx[i] = None <=> pgwCtx[i] = None
    /\ sgwCtx[i] # None =>
           /\ sgwCtx[i].pgw = pgwCtx[i].teid
           /\ sgwCtx[i].s5u = pgwCtx[i].sgw
           /\ sgwCtx[i].ip = pgwCtx[i].ip

(* The MME has passed on what the SGW-C has.                               *)
Told(i) == sgwCtx[i] # None => bearer[i] = Answer(sgwCtx[i].s1u, sgwCtx[i].ip)

(* No S11 procedure is under way.                                          *)
Between ==
    /\ mme = MmeIdle /\ sgwc = SgwcIdle
    /\ toSgwc = <<>> /\ fromSgwc = <<>> /\ toPgwc = <<>> /\ fromPgwc = <<>>

(* The one of subscriber i: the request is on its way to the SGW-C ...     *)
Asked(i) ==
    /\ mme.op # "idle" /\ mme.imsi = i /\ sgwc = SgwcIdle
    /\ toSgwc = <<mme>> /\ fromSgwc = <<>> /\ toPgwc = <<>> /\ fromPgwc = <<>>
    /\ Agree(i) /\ (mme.op # "create" => Told(i))

(* ... has been passed on to the PGW-C ...                                 *)
PassedOn(i) ==
    /\ mme.op # "idle" /\ mme.imsi = i /\ sgwc.op = mme.op /\ sgwc.imsi = i
    /\ toSgwc = <<>> /\ fromSgwc = <<>> /\ toPgwc = <<sgwc>> /\ fromPgwc = <<>>
    /\ mme.op = "delete" => sgwCtx[i] = None

(* ... the PGW-C has answered ...                                          *)
Returned(i) ==
    /\ mme.op \in {"create", "delete"} /\ mme.imsi = i /\ sgwc.op = mme.op /\ sgwc.imsi = i
    /\ toSgwc = <<>> /\ fromSgwc = <<>> /\ toPgwc = <<>>
    /\ mme.op = "delete" =>
           fromPgwc = <<Bare>> /\ sgwCtx[i] = None /\ pgwCtx[i] = None
    /\ mme.op = "create" =>
           /\ pgwCtx[i] # None /\ pgwCtx[i].sgw = sgwc.s5u
           /\ fromPgwc = <<Answer(pgwCtx[i].teid, pgwCtx[i].ip)>>

(* ... and so has the SGW-C.                                               *)
Answered(i) ==
    /\ mme.op # "idle" /\ mme.imsi = i /\ sgwc = SgwcIdle
    /\ toSgwc = <<>> /\ toPgwc = <<>> /\ fromPgwc = <<>>
    /\ Agree(i) /\ (mme.op # "create" => Told(i))
    /\ fromSgwc # <<>> /\ Tail(fromSgwc) = <<>>
    /\ mme.op = "create" =>
           /\ sgwCtx[i] # None
           /\ Head(fromSgwc) = Answer(sgwCtx[i].s1u, sgwCtx[i].ip)

Phase ==
    Between \/ \E i \in Imsis : Asked(i) \/ PassedOn(i) \/ Returned(i) \/ Answered(i)

Others == \A i \in Imsis : i # mme.imsi => Agree(i) /\ Told(i)

(* The routes of the contexts of a subscriber are there.                   *)
RoutesThere(i) ==
    /\ sgwCtx[i] # None => /\ <<sgwCtx[i].s1u, sgwCtx[i].pgw>> \in sgwUp
                           /\ sgwCtx[i].enb => sgwCtx[i].s5u \in sgwDown
    /\ pgwCtx[i] # None => pgwCtx[i].teid \in pgwUp

InStep == Phase /\ Others /\ \A i \in Imsis : RoutesThere(i)

Lockstep == faults = 0 => InStep

(* The SGW-U routes an S1-U TEID once: it is drawn for one session only.   *)
(* This holds whatever is lost or late.                                    *)
RoutedOnce ==
    /\ \A r \in sgwUp : r[1] <= upf["sgw"].teid
    /\ \A r, q \in sgwUp : r[1] = q[1] => r = q

---------------------------------------------------------------------------
(* Where the one procedure is. *)

(* A socket with one datagram.                                             *)
LEMMA One == \A x : /\ <<x>> # <<>> /\ Head(<<x>>) = x /\ Tail(<<x>>) = <<>>
                    /\ Append(<<>>, x) = <<x>>
  OBVIOUS

(* What a node that is not idle is doing.                                  *)
LEMMA Busy ==
  ASSUME TypeOK
  PROVE  /\ mme.op # "idle" => mme \in S11Requests
         /\ mme.op = "idle" => mme = MmeIdle
         /\ mme = MmeIdle => mme.op = "idle" /\ mme.imsi \notin Imsis
         /\ sgwc.op # "idle" => sgwc \in S5Requests
         /\ sgwc = SgwcIdle => sgwc.op = "idle"
  BY SetupAssumption DEF TypeOK, S11Requests, S5Requests, MmeIdle, SgwcIdle

(* In lockstep a socket tells where the procedure is. *)
LEMMA Places ==
  ASSUME TypeOK, Phase
  PROVE  /\ mme = MmeIdle => Between
         /\ toSgwc # <<>> => \E i \in Imsis : Asked(i)
         /\ toPgwc # <<>> => \E i \in Imsis : PassedOn(i)
         /\ fromPgwc # <<>> => \E i \in Imsis : Returned(i)
         /\ fromSgwc # <<>> => \E i \in Imsis : Answered(i)
         /\ sgwc.op # "idle" => toPgwc # <<>> \/ fromPgwc # <<>>
         /\ \/ mme.op = "idle" \/ sgwc.op # "idle"
            \/ toSgwc # <<>> \/ fromSgwc # <<>>
  <1>1. CASE Between
    BY <1>1, Busy DEF Between
  <1>2. ASSUME NEW i \in Imsis, Asked(i) \/ PassedOn(i) \/ Returned(i) \/ Answered(i)
        PROVE  /\ mme # MmeIdle
               /\ toSgwc # <<>> => Asked(i)
               /\ toPgwc # <<>> => PassedOn(i)
               /\ fromPgwc # <<>> => Returned(i)
               /\ fromSgwc # <<>> => Answered(i)
               /\ sgwc.op # "idle" => toPgwc # <<>> \/ fromPgwc # <<>>
               /\ sgwc.op # "idle" \/ toSgwc # <<>> \/ fromSgwc # <<>>
    <2>1. CASE Asked(i)
      BY <2>1, Busy, One DEF Asked
    <2>2. CASE PassedOn(i)
      BY <2>2, Busy, One DEF PassedOn
    <2>3. CASE Returned(i)
      BY <2>3, Busy, One DEF Returned
    <2>4. CASE Answered(i)
      BY <2>4, Busy, One DEF Answered
    <2> QED BY <1>2, <2>1, <2>2, <2>3, <2>4
  <1>3. CASE \E i \in Imsis : Asked(i) \/ PassedOn(i) \/ Returned(i) \/ Answered(i)
    <2>1. PICK i \in Imsis : Asked(i) \/ PassedOn(i) \/ Returned(i) \/ Answered(i)
      BY <1>3
    <2> QED BY <1>2, <2>1
  <1> QED BY <1>1, <1>3 DEF Phase

(* The contexts, and what the MME has passed on, stay as they were.        *)
LEMMA Unmoved ==
  ASSUME NEW i, sgwCtx'[i] = sgwCtx[i], pgwCtx'[i] = pgwCtx[i], bearer'[i] = bearer[i]
  PROVE  (Agree(i)' <=> Agree(i)) /\ (Told(i)' <=> Told(i))
  BY DEF Agree, Told

(* No step gives faults back.                                              *)
LEMMA FaultsStay ==
  ASSUME TypeOK, NEW n \in Nat, Faults(n), faults' = 0
  PROVE  faults = 0 /\ n = 0
  BY DEF TypeOK, Faults

(* A step for subscriber i leaves the others in agreement ...              *)
LEMMA OthersKept ==
  ASSUME Others, NEW i \in Imsis, mme.imsi = i \/ mme.imsi \notin Imsis,
         \A j \in Imsis \ {i} :
            sgwCtx'[j] = sgwCtx[j] /\ pgwCtx'[j] = pgwCtx[j] /\ bearer'[j] = bearer[j],
         mme'.imsi = i \/ (Agree(i)' /\ Told(i)')
  PROVE  Others'
  <1>1. ASSUME NEW j \in Imsis \ {i} PROVE Agree(j)' /\ Told(j)'
    <2>1. Agree(j) /\ Told(j)
      BY DEF Others
    <2> QED BY <2>1, Unmoved
  <1> QED BY <1>1 DEF Others

(* ... and their routes in place.                                          *)
LEMMA RoutesKept ==
  ASSUME NEW i \in Imsis, \A j \in Imsis : RoutesThere(j),
         sgwUp \subseteq sgwUp', sgwDown \subseteq sgwDown', pgwUp \subseteq pgwUp',
         \A j \in Imsis \ {i} : sgwCtx'[j] = sgwCtx[j] /\ pgwCtx'[j] = pgwCtx[j],
         RoutesThere(i)'
  PROVE  \A j \in Imsis : RoutesThere(j)'
  <1> SUFFICES ASSUME NEW j \in Imsis \ {i} PROVE RoutesThere(j)'
    OBVIOUS
  <1>1. RoutesThere(j)
    OBVIOUS
  <1> QED BY <1>1 DEF RoutesThere

(* When neither gateway's contexts nor routes change.                      *)
LEMMA RoutesSame ==
  ASSUME \A j \in Imsis : RoutesThere(j), UNCHANGED <<sgwCtx, pgwCtx, routeVars>>
  PROVE  \A j \in Imsis : RoutesThere(j)'
  BY DEF RoutesThere, routeVars

---------------------------------------------------------------------------
(* The steps. *)

(* A procedure starts: there was none, so the subscriber is in agreement.  *)
LEMMA StartInStep ==
  ASSUME TypeOK, InStep, Start
  PROVE  InStep'
  <1>1. PICK i \in Imsis : StartCreate(i) \/ StartModify(i) \/ StartDelete(i)
    BY DEF Start
  <1>2. PICK op \in {"create", "modify", "delete"} :
            /\ Ask(op, i)
            /\ op # "create" => bearer' = bearer
            /\ \A j \in Imsis \ {i} : bearer'[j] = bearer[j]
    <2>1. CASE StartCreate(i)
      BY <2>1 DEF StartCreate, TypeOK
    <2>2. CASE StartModify(i) \/ StartDelete(i)
      BY <2>2 DEF StartModify, StartDelete
    <2> QED BY <1>1, <2>1, <2>2
  <1>3. mme = MmeIdle /\ Between /\ mme.imsi \notin Imsis
    BY <1>2, Places, Busy DEF Ask, InStep
  <1>4. mme' = [op |-> op, imsi |-> i] /\ toSgwc' = <<mme'>>
    BY <1>2, <1>3, One DEF Ask, Between
  <1>5. /\ UNCHANGED <<sgwCtx, pgwCtx, routeVars>>
        /\ UNCHANGED <<sgwc, fromSgwc, toPgwc, fromPgwc>>
    BY <1>2 DEF Ask, sgwcVars, pgwcVars
  <1>6. Agree(i) /\ Told(i)
    BY <1>3 DEF InStep, Others
  <1>7. Agree(i)' /\ (op # "create" => Told(i)')
    BY <1>2, <1>5, <1>6 DEF Agree, Told
  <1>8. Asked(i)'
    BY <1>3, <1>4, <1>5, <1>7 DEF Asked, Between
  <1>9. Others'
    BY <1>2, <1>3, <1>4, <1>5, OthersKept DEF InStep
  <1>10. \A j \in Imsis : RoutesThere(j)'
    BY <1>5, RoutesSame DEF InStep
  <1> QED BY <1>8, <1>9, <1>10 DEF InStep, Phase

(* The answer the MME takes is the one to its request.                     *)
LEMMA MmeInStep ==
  ASSUME TypeOK, InStep, MmeAnswered
  PROVE  InStep'
  <1>1. PICK i \in Imsis : Answered(i)
    BY Places DEF MmeAnswered, InStep
  <1>2. /\ UNCHANGED <<sgwCtx, pgwCtx, routeVars>>
        /\ UNCHANGED <<sgwc, toSgwc, toPgwc, fromPgwc>>
        /\ mme' = MmeIdle /\ fromSgwc' = <<>>
    BY <1>1 DEF MmeAnswered, Answered, sgwcVars, pgwcVars
  <1>3. Between'
    BY <1>1, <1>2 DEF Between, Answered
  <1>4. /\ \A j \in Imsis \ {i} : bearer'[j] = bearer[j]
        /\ mme.op # "create" => bearer'[i] = bearer[i]
        /\ mme.op = "create" => bearer'[i] = Answer(sgwCtx[i].s1u, sgwCtx[i].ip)
    BY <1>1 DEF MmeAnswered, Answered, TypeOK
  <1>5. Agree(i)' /\ Told(i)'
    BY <1>1, <1>2, <1>4 DEF Agree, Told, Answered
  <1>6. mme.imsi = i
    BY <1>1 DEF Answered
  <1>7. Others'
    BY <1>2, <1>4, <1>5, <1>6, OthersKept DEF InStep
  <1>8. \A j \in Imsis : RoutesThere(j)'
    BY <1>2, RoutesSame DEF InStep
  <1> QED BY <1>3, <1>7, <1>8 DEF InStep, Phase

(* The request the SGW-C takes is the one under way.                       *)
LEMMA TakenIsAsked ==
  ASSUME TypeOK, InStep, NEW op, SgwcTakes(op)
  PROVE  \E i \in Imsis :
            /\ Asked(i) /\ Subscriber = i /\ mme.op = op /\ Tail(toSgwc) = <<>>
            /\ op \in {"create", "modify", "delete"}
  <1>1. PICK i \in Imsis : Asked(i)
    BY Places DEF SgwcTakes, InStep
  <1>2. Head(toSgwc) = mme /\ Tail(toSgwc) = <<>>
    BY <1>1, One DEF Asked
  <1>3. mme \in S11Requests
    BY <1>1, Busy DEF Asked
  <1> QED BY <1>1, <1>2, <1>3 DEF Asked, SgwcTakes, Subscriber, S11Requests

(* A creation is passed on to the PGW-C. *)
LEMMA SgwcCreateInStep ==
  ASSUME TypeOK, InStep, SgwcCreate
  PROVE  InStep'
  <1>1. PICK i \in Imsis : /\ Asked(i) /\ Subscriber = i /\ mme.op = "create"
                           /\ Tail(toSgwc) = <<>>
    BY TakenIsAsked DEF SgwcCreate
  <1>2. /\ UNCHANGED <<sgwCtx, pgwCtx, routeVars, mme, bearer, fromSgwc, fromPgwc>>
        /\ toSgwc' = <<>>
        /\ sgwc' = [op |-> "create", imsi |-> i, s5u |-> s5u + 1]
        /\ toPgwc' = <<sgwc'>>
    BY <1>1, One DEF SgwcCreate, Asked, mmeVars, pgwcVars
  <1>3. PassedOn(i)'
    BY <1>1, <1>2 DEF PassedOn, Asked
  <1>4. mme'.imsi = i
    BY <1>1, <1>2 DEF Asked
  <1>5. Others'
    BY <1>2, <1>4, OthersKept DEF InStep
  <1>6. \A j \in Imsis : RoutesThere(j)'
    BY <1>2, RoutesSame DEF InStep
  <1> QED BY <1>3, <1>5, <1>6 DEF InStep, Phase

(* The SGW-C sets up its half with what the PGW-C has written down.        *)
LEMMA SgwcCreatedEffect ==
  ASSUME TypeOK, InStep, SgwcCreated, faults' = 0
  PROVE  \E i \in Imsis :
            /\ Returned(i) /\ mme.op = "create" /\ sgwc.op = "create"
            /\ pgwCtx[i] # None /\ pgwCtx[i].sgw = sgwc.s5u
            /\ fromPgwc = <<Answer(pgwCtx[i].teid, pgwCtx[i].ip)>> /\ fromPgwc' = <<>>
            /\ Establish("sgw", "done")
            /\ sgwCtx' = [sgwCtx EXCEPT ![i] =
                   [seid |-> NextSeid("sgw"), s1u |-> NextTeid("sgw"), s5u |-> sgwc.s5u,
                    pgw |-> pgwCtx[i].teid, ip |-> pgwCtx[i].ip, enb |-> FALSE]]
            /\ sgwCtx'[i] \in SgwContexts
            /\ sgwUp' = sgwUp \cup {<<NextTeid("sgw"), pgwCtx[i].teid>>}
            /\ fromSgwc' = <<Answer(NextTeid("sgw"), pgwCtx[i].ip)>>
            /\ sgwc' = SgwcIdle
            /\ UNCHANGED <<mme, bearer, s5u, pgwCtx, ueN, sgwDown, pgwUp, sgi, toSgwc, toPgwc>>
  <1> DEFINE C(i) == [seid |-> NextSeid("sgw"), s1u |-> NextTeid("sgw"), s5u |-> sgwc.s5u,
                      pgw |-> pgwCtx[i].teid, ip |-> pgwCtx[i].ip, enb |-> FALSE]
  <1>1. PICK i \in Imsis : Returned(i)
    BY Places DEF SgwcCreated, InStep
  <1>2. /\ mme.op = "create" /\ mme.imsi = i /\ sgwc.imsi = i /\ sgwc.op = "create"
        /\ fromPgwc = <<Answer(pgwCtx[i].teid, pgwCtx[i].ip)>>
        /\ pgwCtx[i] # None /\ pgwCtx[i].sgw = sgwc.s5u
    BY <1>1 DEF Returned, SgwcCreated
  <1>3. pgwCtx[i].teid \in Nat /\ pgwCtx[i].ip \in Nat
    BY <1>2 DEF TypeOK, PgwContexts
  <1>4. /\ PgwTeid(Head(fromPgwc)) = pgwCtx[i].teid
        /\ UeIp(Head(fromPgwc)) = pgwCtx[i].ip
    <2>1. Head(fromPgwc) = Answer(pgwCtx[i].teid, pgwCtx[i].ip)
      BY <1>2, One
    <2> QED BY <1>3, <2>1, SetupAssumption DEF PgwTeid, UeIp, Answer
  <1>5. /\ Establish("sgw", "done")
        /\ sgwCtx' = [sgwCtx EXCEPT ![i] = C(i)]
        /\ sgwUp' = sgwUp \cup {<<NextTeid("sgw"), pgwCtx[i].teid>>}
        /\ fromSgwc' = Append(fromSgwc, Answer(NextTeid("sgw"), pgwCtx[i].ip))
    <2>1. PICK o \in Outcomes, routed \in BOOLEAN :
              /\ Faults(Cost(o) + IF routed THEN 0 ELSE 1)
              /\ Establish("sgw", o)
              /\ IF o = "done"
                 THEN /\ sgwCtx' = [sgwCtx EXCEPT ![sgwc.imsi] =
                             [seid |-> NextSeid("sgw"), s1u |-> NextTeid("sgw"),
                              s5u |-> sgwc.s5u, pgw |-> PgwTeid(Head(fromPgwc)),
                              ip |-> UeIp(Head(fromPgwc)), enb |-> FALSE]]
                      /\ sgwUp' = IF routed THEN sgwUp \cup {UplinkRoute(Head(fromPgwc))}
                                  ELSE sgwUp
                      /\ fromSgwc' = Append(fromSgwc,
                                            Answer(NextTeid("sgw"), UeIp(Head(fromPgwc))))
                 ELSE TRUE
      BY Zenon DEF SgwcCreated
    <2>2. Cost(o) + (IF routed THEN 0 ELSE 1) \in Nat
      BY DEF Cost
    <2>3. Cost(o) + (IF routed THEN 0 ELSE 1) = 0
      BY <2>1, <2>2, FaultsStay
    <2>4. o = "done" /\ routed
      BY <2>3 DEF Cost, Outcomes
    <2> QED BY <1>2, <1>4, <2>1, <2>4 DEF UplinkRoute
  <1>6. fromSgwc' = <<Answer(NextTeid("sgw"), pgwCtx[i].ip)>>
    BY <1>1, <1>5, One DEF Returned
  <1>7. /\ UNCHANGED <<mme, bearer, s5u, pgwCtx, ueN, sgwDown, pgwUp, sgi, toSgwc, toPgwc>>
        /\ sgwc' = SgwcIdle /\ fromPgwc' = <<>>
    BY <1>2, One DEF SgwcCreated, mmeVars, pgwcVars
  <1>8. sgwCtx'[i] \in SgwContexts
    <2>1. NextSeid("sgw") \in Nat /\ NextTeid("sgw") \in Nat
      BY DEF TypeOK, NextSeid, NextTeid, Nodes
    <2>2. sgwc.s5u \in Nat
      BY SgwcWaits DEF SgwcCreated
    <2>3. C(i) \in SgwContexts
      BY <1>3, <2>1, <2>2 DEF SgwContexts
    <2> QED BY <1>5, <2>3 DEF TypeOK
  <1> QED BY <1>1, <1>2, <1>5, <1>6, <1>7, <1>8

(* ... and the two halves agree. *)
LEMMA SgwcCreatedInStep ==
  ASSUME TypeOK, InStep, SgwcCreated, faults' = 0
  PROVE  InStep'
  <1>1. PICK i \in Imsis :
            /\ Returned(i) /\ mme.op = "create"
            /\ pgwCtx[i] # None /\ pgwCtx[i].sgw = sgwc.s5u /\ fromPgwc' = <<>>
            /\ sgwCtx' = [sgwCtx EXCEPT ![i] =
                   [seid |-> NextSeid("sgw"), s1u |-> NextTeid("sgw"), s5u |-> sgwc.s5u,
                    pgw |-> pgwCtx[i].teid, ip |-> pgwCtx[i].ip, enb |-> FALSE]]
            /\ sgwCtx'[i] \in SgwContexts
            /\ sgwUp' = sgwUp \cup {<<NextTeid("sgw"), pgwCtx[i].teid>>}
            /\ fromSgwc' = <<Answer(NextTeid("sgw"), pgwCtx[i].ip)>>
            /\ sgwc' = SgwcIdle
            /\ UNCHANGED <<mme, bearer, pgwCtx, sgwDown, pgwUp, toSgwc, toPgwc>>
    BY SgwcCreatedEffect
  <1>2. /\ sgwCtx'[i].s1u = NextTeid("sgw") /\ sgwCtx'[i].s5u = pgwCtx[i].sgw
        /\ sgwCtx'[i].pgw = pgwCtx[i].teid /\ sgwCtx'[i].ip = pgwCtx[i].ip
        /\ ~sgwCtx'[i].enb /\ sgwCtx'[i] # None
        /\ \A j \in Imsis \ {i} : sgwCtx'[j] = sgwCtx[j]
    BY <1>1, ContextAssumption DEF TypeOK
  <1>3. Agree(i)'
    BY <1>1, <1>2 DEF Agree
  <1>4. Answered(i)'
    BY <1>1, <1>2, <1>3, One DEF Answered, Returned
  <1>5. Others'
    BY <1>1, <1>2, OthersKept DEF InStep, Returned
  <1>6. RoutesThere(i)'
    <2>1. pgwCtx[i].teid \in pgwUp
      BY <1>1 DEF InStep, RoutesThere
    <2> QED BY <1>1, <1>2, <2>1 DEF RoutesThere
  <1>7. \A j \in Imsis : RoutesThere(j)'
    BY <1>1, <1>2, <1>6, RoutesKept DEF InStep
  <1> QED BY <1>4, <1>5, <1>7 DEF InStep, Phase

(* The route to the eNB is set up with the mark that it has been.          *)
LEMMA SgwcModifyEffect ==
  ASSUME TypeOK, InStep, SgwcModify, faults' = 0
  PROVE  \E i \in Imsis :
            /\ Asked(i) /\ mme.op = "modify" /\ toSgwc' = <<>>
            /\ UNCHANGED <<mme, bearer, pgwCtx, sgwc, s5u, ueN, seid, upf, sgwUp, pgwUp, sgi,
                           toPgwc, fromPgwc>>
            /\ \/ /\ sgwCtx[i] = None /\ fromSgwc' = <<Bare>>
                  /\ UNCHANGED <<sgwCtx, sgwDown>>
               \/ /\ sgwCtx[i] # None
                  /\ fromSgwc' = <<Answer(sgwCtx[i].s1u, None)>>
                  /\ sgwCtx' = [sgwCtx EXCEPT ![i].enb = TRUE]
                  /\ sgwDown' = sgwDown \cup {sgwCtx[i].s5u}
  <1>1. PICK i \in Imsis : /\ Asked(i) /\ Subscriber = i /\ mme.op = "modify"
                           /\ Tail(toSgwc) = <<>>
    BY TakenIsAsked DEF SgwcModify
  <1>2. /\ UNCHANGED <<mme, bearer, pgwCtx, sgwc, s5u, ueN, seid, upf, sgwUp, pgwUp, sgi,
                       toPgwc, fromPgwc>>
        /\ toSgwc' = <<>> /\ fromSgwc = <<>>
    BY <1>1 DEF SgwcModify, Asked, mmeVars, pgwcVars, sxVars
  <1>3. CASE sgwCtx[i] = None
    BY <1>1, <1>2, <1>3, One DEF SgwcModify
  <1>4. CASE sgwCtx[i] # None
    <2>1. PICK routed \in BOOLEAN :
              /\ Faults(IF routed THEN 0 ELSE 1)
              /\ sgwCtx' = [sgwCtx EXCEPT ![i].enb = TRUE]
              /\ sgwDown' = IF routed THEN sgwDown \cup {sgwCtx[i].s5u} ELSE sgwDown
              /\ fromSgwc' = Append(fromSgwc, Answer(sgwCtx[i].s1u, None))
      BY <1>1, <1>4, Zenon DEF SgwcModify
    <2>2. (IF routed THEN 0 ELSE 1) \in Nat
      OBVIOUS
    <2>3. routed
      BY <2>1, <2>2, FaultsStay
    <2> QED BY <1>1, <1>2, <1>4, <2>1, <2>3, One
  <1> QED BY <1>3, <1>4

(* Nothing else of the context changes. *)
LEMMA Marked ==
  ASSUME TypeOK, NEW i \in Imsis, sgwCtx[i] # None, sgwCtx' = [sgwCtx EXCEPT ![i].enb = TRUE]
  PROVE  /\ sgwCtx'[i] # None /\ sgwCtx'[i] \in SgwContexts
         /\ \A f \in {"seid", "s1u", "s5u", "pgw", "ip"} : sgwCtx'[i][f] = sgwCtx[i][f]
         /\ \A j \in Imsis \ {i} : sgwCtx'[j] = sgwCtx[j]
  <1>1. sgwCtx[i] \in SgwContexts
    BY DEF TypeOK
  <1>2. /\ sgwCtx'[i] = [sgwCtx[i] EXCEPT !.enb = TRUE]
        /\ \A j \in Imsis \ {i} : sgwCtx'[j] = sgwCtx[j]
    BY DEF TypeOK
  <1>3. sgwCtx'[i] \in SgwContexts
    BY <1>1, <1>2, Built
  <1>4. \A f \in {"seid", "s1u", "s5u", "pgw", "ip"} : sgwCtx'[i][f] = sgwCtx[i][f]
    BY <1>1, <1>2 DEF SgwContexts
  <1> QED BY <1>2, <1>3, <1>4, ContextAssumption

(* ... and the halves still agree. *)
LEMMA SgwcModifyInStep ==
  ASSUME TypeOK, InStep, SgwcModify, faults' = 0
  PROVE  InStep'
  <1>1. PICK i \in Imsis :
            /\ Asked(i) /\ mme.op = "modify" /\ toSgwc' = <<>>
            /\ UNCHANGED <<mme, bearer, pgwCtx, sgwc, sgwUp, pgwUp, toPgwc, fromPgwc>>
            /\ \/ /\ sgwCtx[i] = None /\ fromSgwc' = <<Bare>>
                  /\ UNCHANGED <<sgwCtx, sgwDown>>
               \/ /\ sgwCtx[i] # None
                  /\ fromSgwc' = <<Answer(sgwCtx[i].s1u, None)>>
                  /\ sgwCtx' = [sgwCtx EXCEPT ![i].enb = TRUE]
                  /\ sgwDown' = sgwDown \cup {sgwCtx[i].s5u}
    BY SgwcModifyEffect
  <1>2. mme.imsi = i /\ mme'.imsi = i
    BY <1>1 DEF Asked
  <1>3. /\ Agree(i)' /\ Told(i)' /\ RoutesThere(i)'
        /\ \A j \in Imsis \ {i} : sgwCtx'[j] = sgwCtx[j]
    <2>1. Agree(i) /\ Told(i) /\ RoutesThere(i)
      BY <1>1 DEF Asked, InStep
    <2>2. CASE sgwCtx' = sgwCtx /\ sgwDown' = sgwDown
      BY <1>1, <2>1, <2>2, Unmoved DEF RoutesThere
    <2>3. CASE /\ sgwCtx[i] # None
               /\ sgwCtx' = [sgwCtx EXCEPT ![i].enb = TRUE]
               /\ sgwDown' = sgwDown \cup {sgwCtx[i].s5u}
      <3>1. /\ sgwCtx'[i] # None
            /\ \A f \in {"seid", "s1u", "s5u", "pgw", "ip"} : sgwCtx'[i][f] = sgwCtx[i][f]
            /\ \A j \in Imsis \ {i} : sgwCtx'[j] = sgwCtx[j]
        BY <2>3, Marked
      <3>2. Agree(i)' /\ Told(i)'
        BY <1>1, <2>1, <2>3, <3>1 DEF Agree, Told
      <3>3. RoutesThere(i)'
        BY <1>1, <2>1, <2>3, <3>1 DEF RoutesThere
      <3> QED BY <3>1, <3>2, <3>3
    <2> QED BY <1>1, <2>2, <2>3
  <1>4. Answered(i)'
    BY <1>1, <1>3, One DEF Answered, Asked
  <1>5. Others'
    BY <1>1, <1>2, <1>3, OthersKept DEF InStep
  <1>6. \A j \in Imsis : RoutesThere(j)'
    <2>1. sgwDown \subseteq sgwDown'
      BY <1>1
    <2> QED BY <1>1, <1>3, <2>1, RoutesKept DEF InStep
  <1> QED BY <1>4, <1>5, <1>6 DEF InStep, Phase

(* The SGW-C deletes its half, and has the PGW-C delete the other.         *)
LEMMA SgwcDeleteInStep ==
  ASSUME TypeOK, InStep, SgwcDelete
  PROVE  InStep'
  <1>1. PICK i \in Imsis : /\ Asked(i) /\ Subscriber = i /\ mme.op = "delete"
                           /\ Tail(toSgwc) = <<>>
    BY TakenIsAsked DEF SgwcDelete
  <1>2. UNCHANGED <<mme, bearer, pgwCtx, routeVars, fromPgwc>> /\ toSgwc' = <<>>
    BY <1>1 DEF SgwcDelete, mmeVars, pgwcVars
  <1>3. mme.imsi = i /\ mme'.imsi = i
    BY <1>1, <1>2 DEF Asked
  <1>4. CASE sgwCtx[i] = None
    <2>1. UNCHANGED <<sgwCtx, sgwc, toPgwc>> /\ fromSgwc' = <<Bare>>
      BY <1>1, <1>4, One DEF SgwcDelete, Asked
    <2>2. Agree(i)' /\ Told(i)'
      BY <1>1, <1>2, <2>1, Unmoved DEF Asked
    <2>3. Answered(i)'
      BY <1>1, <1>2, <2>1, <2>2, One DEF Answered, Asked
    <2>4. Others'
      BY <1>2, <1>3, <2>1, OthersKept DEF InStep
    <2>5. \A j \in Imsis : RoutesThere(j)'
      BY <1>2, <2>1, RoutesSame DEF InStep
    <2> QED BY <2>3, <2>4, <2>5 DEF InStep, Phase
  <1>5. CASE sgwCtx[i] # None
    <2>1. /\ sgwCtx' = [sgwCtx EXCEPT ![i] = None]
          /\ sgwc' = [op |-> "delete", imsi |-> i, s5u |-> 0]
          /\ toPgwc' = <<sgwc'>> /\ fromSgwc' = fromSgwc
      BY <1>1, <1>5, One DEF SgwcDelete, Asked
    <2>2. sgwCtx'[i] = None /\ \A j \in Imsis \ {i} : sgwCtx'[j] = sgwCtx[j]
      BY <2>1 DEF TypeOK
    <2>3. PassedOn(i)'
      BY <1>1, <1>2, <2>1, <2>2 DEF PassedOn, Asked
    <2>4. Others'
      BY <1>2, <1>3, <2>2, OthersKept DEF InStep
    <2>5. RoutesThere(i)'
      BY <1>2, <2>2 DEF InStep, RoutesThere, routeVars
    <2>6. \A j \in Imsis : RoutesThere(j)'
      BY <1>2, <2>2, <2>5, RoutesKept DEF InStep, routeVars
    <2> QED BY <2>3, <2>4, <2>6 DEF InStep, Phase
  <1> QED BY <1>4, <1>5

(* The deletion is confirmed when both halves are gone. *)
LEMMA SgwcDeletedInStep ==
  ASSUME TypeOK, InStep, SgwcDeleted
  PROVE  InStep'
  <1>1. PICK i \in Imsis : Returned(i)
    BY Places DEF SgwcDeleted, InStep
  <1>2. mme.op = "delete" /\ mme.imsi = i /\ sgwCtx[i] = None /\ pgwCtx[i] = None
    BY <1>1 DEF Returned, SgwcDeleted
  <1>3. /\ UNCHANGED <<mme, bearer, sgwCtx, pgwCtx, routeVars, toSgwc, toPgwc>>
        /\ sgwc' = SgwcIdle /\ fromPgwc' = <<>> /\ fromSgwc' = <<Bare>>
    BY <1>1, <1>2, One DEF SgwcDeleted, Returned, mmeVars, pgwcVars
  <1>4. Agree(i)' /\ Told(i)'
    BY <1>2, <1>3 DEF Agree, Told
  <1>5. Answered(i)'
    BY <1>1, <1>2, <1>3, <1>4, One DEF Answered, Returned
  <1>6. Others'
    BY <1>2, <1>3, OthersKept DEF InStep
  <1>7. \A j \in Imsis : RoutesThere(j)'
    BY <1>3, RoutesSame DEF InStep
  <1> QED BY <1>5, <1>6, <1>7 DEF InStep, Phase

(* The PGW-C serves the request that is under way.                         *)
LEMMA ServedIsPassedOn ==
  ASSUME TypeOK, InStep, NEW op, PgwcTakes(op)
  PROVE  \E i \in Imsis :
            /\ PassedOn(i) /\ mme.op = op /\ Tail(toPgwc) = <<>>
            /\ Head(toPgwc).imsi = i /\ Head(toPgwc).s5u = sgwc.s5u
            /\ mme.imsi = i /\ fromPgwc = <<>>
  <1>1. PICK i \in Imsis : PassedOn(i)
    BY Places DEF PgwcTakes, InStep
  <1>2. Head(toPgwc) = sgwc /\ Tail(toPgwc) = <<>>
    BY <1>1, One DEF PassedOn
  <1> QED BY <1>1, <1>2 DEF PassedOn, PgwcTakes

(* The PGW-C sets up its half; the answer says what its context does.      *)
LEMMA PgwcCreateEffect ==
  ASSUME TypeOK, InStep, PgwcCreate, faults' = 0
  PROVE  \E i \in Imsis :
            /\ PassedOn(i) /\ mme.op = "create"
            /\ Establish("pgw", "done") /\ ueN' = ueN + 1
            /\ pgwCtx' = [pgwCtx EXCEPT ![i] =
                   [seid |-> NextSeid("pgw"), teid |-> NextTeid("pgw"), sgw |-> sgwc.s5u,
                    ip |-> ueN]]
            /\ pgwCtx'[i] \in PgwContexts
            /\ pgwUp' = pgwUp \cup {NextTeid("pgw")} /\ sgi' = sgwc.s5u
            /\ fromPgwc' = <<Answer(NextTeid("pgw"), ueN)>> /\ toPgwc' = <<>>
            /\ UNCHANGED <<mme, bearer, sgwc, s5u, sgwCtx, sgwUp, sgwDown, toSgwc, fromSgwc>>
  <1> DEFINE C == [seid |-> NextSeid("pgw"), teid |-> NextTeid("pgw"), sgw |-> sgwc.s5u,
                   ip |-> ueN]
  <1>1. PICK i \in Imsis : /\ PassedOn(i) /\ mme.op = "create" /\ Tail(toPgwc) = <<>>
                           /\ Head(toPgwc).imsi = i /\ Head(toPgwc).s5u = sgwc.s5u
                           /\ mme.imsi = i /\ fromPgwc = <<>>
    BY ServedIsPassedOn DEF PgwcCreate
  <1>2. /\ Establish("pgw", "done")
        /\ pgwCtx' = [pgwCtx EXCEPT ![i] = C]
        /\ pgwUp' = pgwUp \cup {NextTeid("pgw")} /\ sgi' = sgwc.s5u
        /\ fromPgwc' = <<Answer(NextTeid("pgw"), ueN)>>
    <2>1. PICK o \in Outcomes, routed \in BOOLEAN, linked \in BOOLEAN :
              /\ Faults(Cost(o) + (IF routed THEN 0 ELSE 1) + (IF linked THEN 0 ELSE 1))
              /\ Establish("pgw", o)
              /\ IF o = "done"
                 THEN /\ pgwCtx' = [pgwCtx EXCEPT ![Head(toPgwc).imsi] =
                             [seid |-> NextSeid("pgw"), teid |-> NextTeid("pgw"),
                              sgw |-> Head(toPgwc).s5u, ip |-> UeAddress]]
                      /\ pgwUp' = IF routed THEN pgwUp \cup {NextTeid("pgw")} ELSE pgwUp
                      /\ sgi' = IF linked THEN Head(toPgwc).s5u ELSE sgi
                      /\ fromPgwc' = Append(fromPgwc, Answer(NextTeid("pgw"), UeAddress))
                 ELSE TRUE
      BY Zenon DEF PgwcCreate
    <2>2. Cost(o) + (IF routed THEN 0 ELSE 1) + (IF linked THEN 0 ELSE 1) \in Nat
      BY DEF Cost
    <2>3. Cost(o) + (IF routed THEN 0 ELSE 1) + (IF linked THEN 0 ELSE 1) = 0
      BY <2>1, <2>2, FaultsStay
    <2>4. o = "done" /\ routed /\ linked
      BY <2>3 DEF Cost, Outcomes
    <2> QED BY <1>1, <2>1, <2>4, One DEF UeAddress
  <1>3. /\ UNCHANGED <<mme, bearer, sgwc, s5u, sgwCtx, sgwUp, sgwDown, toSgwc, fromSgwc>>
        /\ toPgwc' = <<>> /\ ueN' = ueN + 1
    BY <1>1 DEF PgwcCreate, mmeVars, sgwcVars
  <1>4. pgwCtx'[i] \in PgwContexts
    <2>1. NextSeid("pgw") \in Nat /\ NextTeid("pgw") \in Nat /\ ueN \in Nat
      BY DEF TypeOK, NextSeid, NextTeid, Nodes
    <2>2. sgwc.s5u \in Nat
      BY <1>1, SgwcWaits DEF PassedOn
    <2>3. C \in PgwContexts
      BY <2>1, <2>2 DEF PgwContexts
    <2> QED BY <1>2, <2>3 DEF TypeOK
  <1> QED BY <1>1, <1>2, <1>3, <1>4

(* ... and the SGW-C waits for that answer. *)
LEMMA PgwcCreateInStep ==
  ASSUME TypeOK, InStep, PgwcCreate, faults' = 0
  PROVE  InStep'
  <1>1. PICK i \in Imsis :
            /\ PassedOn(i) /\ mme.op = "create"
            /\ pgwCtx' = [pgwCtx EXCEPT ![i] =
                   [seid |-> NextSeid("pgw"), teid |-> NextTeid("pgw"), sgw |-> sgwc.s5u,
                    ip |-> ueN]]
            /\ pgwCtx'[i] \in PgwContexts
            /\ pgwUp' = pgwUp \cup {NextTeid("pgw")}
            /\ fromPgwc' = <<Answer(NextTeid("pgw"), ueN)>> /\ toPgwc' = <<>>
            /\ UNCHANGED <<mme, bearer, sgwc, sgwCtx, sgwUp, sgwDown, toSgwc, fromSgwc>>
    BY PgwcCreateEffect
  <1>2. /\ pgwCtx'[i].teid = NextTeid("pgw") /\ pgwCtx'[i].sgw = sgwc.s5u
        /\ pgwCtx'[i].ip = ueN /\ pgwCtx'[i] # None
        /\ \A j \in Imsis \ {i} : pgwCtx'[j] = pgwCtx[j]
    BY <1>1, ContextAssumption DEF TypeOK
  <1>3. mme.imsi = i
    BY <1>1 DEF PassedOn
  <1>4. Returned(i)'
    BY <1>1, <1>2 DEF Returned, PassedOn
  <1>5. Others'
    BY <1>1, <1>2, <1>3, OthersKept DEF InStep
  <1>6. RoutesThere(i)'
    <2>1. RoutesThere(i)
      BY DEF InStep
    <2> QED BY <1>1, <1>2, <2>1 DEF RoutesThere
  <1>7. \A j \in Imsis : RoutesThere(j)'
    BY <1>1, <1>2, <1>6, RoutesKept DEF InStep
  <1> QED BY <1>4, <1>5, <1>7 DEF InStep, Phase

(* The PGW-C deletes its half; the SGW-C's is gone already.                *)
LEMMA PgwcDeleteInStep ==
  ASSUME TypeOK, InStep, PgwcDelete
  PROVE  InStep'
  <1>1. PICK i \in Imsis : /\ PassedOn(i) /\ mme.op = "delete" /\ Tail(toPgwc) = <<>>
                           /\ Head(toPgwc).imsi = i /\ mme.imsi = i /\ fromPgwc = <<>>
    BY ServedIsPassedOn DEF PgwcDelete
  <1>2. /\ UNCHANGED <<mme, bearer, sgwc, sgwCtx, routeVars, toSgwc, fromSgwc>>
        /\ toPgwc' = <<>> /\ fromPgwc' = <<Bare>>
    BY <1>1, One DEF PgwcDelete, mmeVars, sgwcVars
  <1>3. pgwCtx'[i] = None /\ \A j \in Imsis \ {i} : pgwCtx'[j] = pgwCtx[j]
    BY <1>1 DEF PgwcDelete, TypeOK
  <1>4. Returned(i)'
    BY <1>1, <1>2, <1>3 DEF Returned, PassedOn
  <1>5. Others'
    BY <1>1, <1>2, <1>3, OthersKept DEF InStep
  <1>6. RoutesThere(i)'
    <2>1. RoutesThere(i)
      BY DEF InStep
    <2> QED BY <1>2, <1>3, <2>1 DEF RoutesThere, routeVars
  <1>7. \A j \in Imsis : RoutesThere(j)'
    BY <1>2, <1>3, <1>6, RoutesKept DEF InStep, routeVars
  <1> QED BY <1>4, <1>5, <1>7 DEF InStep, Phase

(* Nobody gives up waiting for an answer that is in time.                  *)
LEMMA NoTimeout ==
  ASSUME TypeOK, InStep, faults' = 0
  PROVE  ~MmeTimeout /\ ~SgwcTimeout /\ ~Lose
  <1>1. ASSUME MmeTimeout PROVE FALSE
    <2>1. (IF toSgwc = <<>> /\ sgwc = SgwcIdle THEN 0 ELSE 1) \in Nat
      OBVIOUS
    <2>2. toSgwc = <<>> /\ sgwc = SgwcIdle
      BY <1>1, <2>1, FaultsStay DEF MmeTimeout
    <2> QED BY <1>1, <2>2, Places, Busy DEF MmeTimeout, InStep
  <1>2. ASSUME SgwcTimeout PROVE FALSE
    <2>1. (IF toPgwc = <<>> THEN 0 ELSE 1) \in Nat
      OBVIOUS
    <2>2. toPgwc = <<>>
      BY <1>2, <2>1, FaultsStay DEF SgwcTimeout
    <2> QED BY <1>2, <2>2, Places DEF SgwcTimeout, InStep
  <1>3. ASSUME Lose PROVE FALSE
    BY <1>3, FaultsStay DEF Lose
  <1> QED BY <1>1, <1>2, <1>3

(* A state without a fault comes from one without, and a step costs none.  *)
LEMMA Faultless ==
  ASSUME TypeOK, [Next]_vars, faults' = 0
  PROVE  faults = 0
  <1>1. CASE \E n \in Nat : Faults(n)
    BY <1>1, FaultsStay
  <1>2. CASE faults' = faults
    BY <1>2
  <1>3. CASE MmeTimeout \/ SgwcTimeout \/ Lose
    BY <1>1, <1>3 DEF MmeTimeout, SgwcTimeout, Lose
  <1>4. CASE SgwcCreated
    <2>1. PICK o \in Outcomes, routed \in BOOLEAN : Faults(Cost(o) + IF routed THEN 0 ELSE 1)
      BY <1>4, Zenon DEF SgwcCreated
    <2>2. Cost(o) + (IF routed THEN 0 ELSE 1) \in Nat
      BY DEF Cost
    <2> QED BY <1>1, <2>1, <2>2
  <1>5. CASE SgwcModify
    <2>1. \/ faults' = faults
          \/ \E routed \in BOOLEAN : Faults(IF routed THEN 0 ELSE 1)
      BY <1>5, Zenon DEF SgwcModify
    <2> QED BY <1>1, <1>2, <2>1
  <1>6. CASE SgwcDelete
    <2>1. faults' = faults \/ \E o \in Outcomes : Faults(Cost(o))
      BY <1>6, Zenon DEF SgwcDelete
    <2>2. \A o \in Outcomes : Cost(o) \in Nat
      BY DEF Cost
    <2> QED BY <1>1, <1>2, <2>1, <2>2
  <1>7. CASE PgwcCreate
    <2>1. PICK o \in Outcomes, routed \in BOOLEAN, linked \in BOOLEAN :
              Faults(Cost(o) + (IF routed THEN 0 ELSE 1) + (IF linked THEN 0 ELSE 1))
      BY <1>7, Zenon DEF PgwcCreate
    <2>2. Cost(o) + (IF routed THEN 0 ELSE 1) + (IF linked THEN 0 ELSE 1) \in Nat
      BY DEF Cost
    <2> QED BY <1>1, <2>1, <2>2
  <1>8. CASE PgwcDelete
    <2>1. faults' = faults \/ \E o \in Outcomes : Faults(Cost(o))
      BY <1>8, Zenon DEF PgwcDelete
    <2>2. \A o \in Outcomes : Cost(o) \in Nat
      BY DEF Cost
    <2> QED BY <1>1, <1>2, <2>1, <2>2
  <1>9. CASE Start \/ MmeAnswered \/ SgwcCreate \/ SgwcDeleted \/ UNCHANGED vars
    BY <1>2, <1>9, Zenon
    DEF Start, StartCreate, StartModify, StartDelete, Ask, MmeAnswered, SgwcCreate, SgwcDeleted,
        vars
  <1> QED
    BY <1>3, <1>4, <1>5, <1>6, <1>7, <1>8, <1>9, Zenon DEF Next, Mme, Sgwc, Pgwc

(* Initially no procedure is under way and there is no context. *)
LEMMA InitLockstep == Init => Lockstep /\ RoutedOnce
  BY DEF Init, Lockstep, InStep, Phase, Between, Others, Agree, Told, RoutesThere, RoutedOnce

(* Every step that costs no fault keeps the nodes in step. *)
LEMMA LockstepStep == TypeOK /\ Lockstep /\ [Next]_vars => Lockstep'
  <1> SUFFICES ASSUME TypeOK, Lockstep, [Next]_vars, faults' = 0 PROVE InStep'
    BY DEF Lockstep
  <1>1. InStep
    BY Faultless DEF Lockstep
  <1>2. CASE UNCHANGED vars
    BY <1>1, <1>2
    DEF InStep, Phase, Between, Asked, PassedOn, Returned, Answered, Others, Agree, Told,
        RoutesThere, vars, mmeVars, sgwcVars, pgwcVars, routeVars, netVars
  <1>3. CASE Next
    BY <1>1, <1>3, StartInStep, MmeInStep, SgwcCreateInStep, SgwcCreatedInStep,
       SgwcModifyInStep, SgwcDeleteInStep, SgwcDeletedInStep, PgwcCreateInStep,
       PgwcDeleteInStep, NoTimeout DEF Next, Mme, Sgwc, Pgwc
  <1> QED BY <1>2, <1>3

(* No S1-U TEID is given back.                                             *)
LEMMA GrantsUp ==
  ASSUME TypeOK, [Next]_vars
  PROVE  upf["sgw"].teid <= upf'["sgw"].teid
  <1>1. SxTypes /\ "sgw" \in Nodes /\ "pgw" \in Nodes /\ upf["sgw"].teid \in Nat
    BY DEF TypeOK, SxTypes, Nodes
  <1>2. CASE upf' = upf
    BY <1>1, <1>2
  <1>3. CASE \E n \in Nodes, o \in Outcomes : Establish(n, o)
    BY <1>1, <1>3, Established
  <1>4. CASE \E n \in Nodes, s \in Nat, o \in Outcomes : Release(n, s, o)
    <2>1. upf'["sgw"].teid = upf["sgw"].teid
      BY <1>1, <1>4, Released
    <2> QED BY <1>1, <2>1
  <1>5. CASE SgwcCreated \/ PgwcCreate
    <2>1. \E n \in Nodes, o \in Outcomes : Establish(n, o)
      BY <1>1, <1>5, Zenon DEF SgwcCreated, PgwcCreate
    <2> QED BY <1>3, <2>1
  <1>6. CASE SgwcDelete
    <2>1. Subscriber \in Imsis
      BY <1>6, SgwcHead DEF SgwcDelete
    <2>2. sgwCtx[Subscriber] # None => sgwCtx[Subscriber].seid \in Nat
      BY <2>1 DEF TypeOK, SgwContexts
    <2>3. \/ upf' = upf
          \/ /\ sgwCtx[Subscriber] # None
             /\ \E o \in Outcomes : Release("sgw", sgwCtx[Subscriber].seid, o)
      BY <1>6, Zenon DEF SgwcDelete, sxVars
    <2> QED BY <1>1, <1>2, <1>4, <2>2, <2>3
  <1>7. CASE PgwcDelete
    <2>1. Head(toPgwc).imsi \in Imsis
      BY <1>7, PgwcHead DEF PgwcDelete, S5Requests
    <2>2. pgwCtx[Head(toPgwc).imsi] # None => pgwCtx[Head(toPgwc).imsi].seid \in Nat
      BY <2>1 DEF TypeOK, PgwContexts
    <2>3. \/ upf' = upf
          \/ /\ pgwCtx[Head(toPgwc).imsi] # None
             /\ \E o \in Outcomes : Release("pgw", pgwCtx[Head(toPgwc).imsi].seid, o)
      BY <1>7, Zenon DEF PgwcDelete, sxVars
    <2> QED BY <1>1, <1>2, <1>4, <2>2, <2>3
  <1>8. CASE Start \/ Mme \/ SgwcCreate \/ SgwcModify \/ SgwcDeleted \/ SgwcTimeout \/ Lose
             \/ UNCHANGED vars
    <2>1. UNCHANGED upf
      BY <1>8, Zenon
      DEF Start, StartCreate, StartModify, StartDelete, Ask, Mme, MmeAnswered, MmeTimeout,
          SgwcCreate, SgwcModify, SgwcDeleted, SgwcTimeout, Lose, vars, sxVars
    <2> QED BY <1>2, <2>1
  <1> QED BY <1>5, <1>6, <1>7, <1>8 DEF Next, Sgwc, Pgwc

(* The S1-U TEID of a route is drawn with it. *)
LEMMA RoutedOnceStep == TypeOK /\ RoutedOnce /\ [Next]_vars => RoutedOnce'
  <1> SUFFICES ASSUME TypeOK, RoutedOnce, [Next]_vars PROVE RoutedOnce'
    OBVIOUS
  <1>1. SxTypes /\ SxTypes' /\ "sgw" \in Nodes
    BY TypeStep DEF TypeOK, SxTypes, Nodes
  <1>2. /\ upf["sgw"].teid \in Nat /\ upf'["sgw"].teid \in Nat
        /\ upf["sgw"].teid <= upf'["sgw"].teid
        /\ \A r \in sgwUp : r \in Nat \X Nat
    BY <1>1, GrantsUp DEF SxTypes, TypeOK
  <1>3. CASE sgwUp' = sgwUp
    BY <1>2, <1>3 DEF RoutedOnce
  <1>4. CASE SgwcCreated
    <2>1. PICK o \in Outcomes :
              /\ Establish("sgw", o)
              /\ \/ sgwUp' = sgwUp
                 \/ o = "done" /\ sgwUp' = sgwUp \cup {UplinkRoute(Head(fromPgwc))}
      BY <1>4, Zenon DEF SgwcCreated
    <2>2. /\ o = "done" => upf'["sgw"].teid = upf["sgw"].teid + 1
          /\ NextTeid("sgw") = upf["sgw"].teid + 1
      BY <1>1, <2>1, Established
    <2>3. CASE o = "done" /\ sgwUp' = sgwUp \cup {UplinkRoute(Head(fromPgwc))}
      <3>1. UplinkRoute(Head(fromPgwc))[1] = upf["sgw"].teid + 1
        BY <2>2 DEF UplinkRoute
      <3> QED BY <1>2, <2>2, <2>3, <3>1 DEF RoutedOnce
    <2> QED BY <1>3, <2>1, <2>3
  <1>5. CASE Start \/ Mme \/ SgwcCreate \/ SgwcModify \/ SgwcDelete \/ SgwcDeleted \/ SgwcTimeout
             \/ Pgwc \/ Lose \/ UNCHANGED vars
    <2>1. UNCHANGED sgwUp
      BY <1>5, Zenon
      DEF Start, StartCreate, StartModify, StartDelete, Ask, Mme, MmeAnswered, MmeTimeout,
          SgwcCreate, SgwcModify, SgwcDelete, SgwcDeleted, SgwcTimeout, Pgwc, PgwcCreate,
          PgwcDelete, Lose, vars, routeVars
    <2> QED BY <1>3, <2>1
  <1> QED BY <1>4, <1>5 DEF Next, Sgwc

---------------------------------------------------------------------------
(* As long as nothing is lost or late, the MME, the SGW-C and the PGW-C go *)
(* in step, and no S1-U TEID is ever routed twice.                         *)
THEOREM LockstepHolds == Spec => [](TypeOK /\ Lockstep /\ RoutedOnce)
  BY InitTypeOK, InitLockstep, TypeStep, LockstepStep, RoutedOnceStep, PTL DEF Spec

(* Without a fault the SGW-C and the PGW-C have contexts for the same      *)
(* subscribers, and each has the TEIDs and the address of the other.       *)
THEOREM ContextsAgreeHolds == Spec => []ContextsAgree
  <1>1. Lockstep => ContextsAgree
    BY DEF Lockstep, InStep, Others, Agree, ContextsAgree
  <1> QED BY <1>1, LockstepHolds, PTL

(* Without a fault the TEID the MME has passed on leads through both       *)
(* relays to the subscriber's own PDN session and address, and back.       *)
THEOREM BearerWorksHolds == Spec => []BearerWorks
  <1>1. TypeOK /\ Lockstep /\ RoutedOnce => BearerWorks
    <2> SUFFICES ASSUME TypeOK, InStep, RoutedOnce,
                        NEW i \in Imsis \ {mme.imsi}, sgwCtx[i] # None
                 PROVE  /\ {t \in pgwUp : <<bearer[i].teid, t>> \in sgwUp} = {pgwCtx[i].teid}
                        /\ bearer[i].ip = pgwCtx[i].ip
                        /\ sgi = pgwCtx[i].sgw /\ sgwCtx[i].enb => sgi \in sgwDown
      BY DEF BearerWorks, Lockstep
    <2>1. Agree(i) /\ Told(i) /\ RoutesThere(i)
      BY DEF InStep, Others
    <2>2. bearer[i].teid = sgwCtx[i].s1u /\ bearer[i].ip = sgwCtx[i].ip
      BY <2>1 DEF Told, Answer
    <2>3. /\ pgwCtx[i].teid \in pgwUp
          /\ <<bearer[i].teid, pgwCtx[i].teid>> \in sgwUp
      BY <2>1, <2>2 DEF Agree, RoutesThere
    <2>4. \A t : <<bearer[i].teid, t>> \in sgwUp => t = pgwCtx[i].teid
      <3> SUFFICES ASSUME NEW t, <<bearer[i].teid, t>> \in sgwUp PROVE t = pgwCtx[i].teid
        OBVIOUS
      <3>1. <<bearer[i].teid, t>> = <<bearer[i].teid, pgwCtx[i].teid>>
        BY <2>3 DEF RoutedOnce
      <3> QED BY <3>1
    <2> QED BY <2>1, <2>2, <2>3, <2>4 DEF Agree, RoutesThere
  <1> QED BY <1>1, LockstepHolds, PTL

---------------------------------------------------------------------------
(* Refinement of BearerService.  It needs more than lockstep: all that is  *)
(* drawn for the n-th session is the n-th.                                 *)

(* The S1-U TEIDs of contexts, and those on their way to the MME, have     *)
(* been drawn, whatever is lost or late.                                   *)
Drawn(r) == r.teid # None => r.teid <= upf["sgw"].teid

TeidsDrawn ==
    /\ \A i \in Imsis : sgwCtx[i] # None => sgwCtx[i].s1u <= upf["sgw"].teid
    /\ \A k \in DOMAIN fromSgwc : Drawn(fromSgwc[k])

(* All that has been drawn for a session has its number ...                *)
SgwNumbered(i) ==
    sgwCtx[i] # None =>
        /\ sgwCtx[i].s5u = sgwCtx[i].s1u /\ sgwCtx[i].pgw = sgwCtx[i].s1u
        /\ sgwCtx[i].ip + 1 = sgwCtx[i].s1u

PgwNumbered(i) ==
    pgwCtx[i] # None =>
        /\ pgwCtx[i].sgw = pgwCtx[i].teid /\ pgwCtx[i].ip + 1 = pgwCtx[i].teid
        /\ pgwCtx[i].teid <= upf["pgw"].teid

(* ... since the SGW-C counts an S5-U TEID when it passes a creation on,   *)
(* the PGW-C a TEID and an address when it serves it, and the SGW-U an     *)
(* S1-U TEID when it has been answered: the counters go round in step.     *)
Counters ==
    /\ s5u = upf["sgw"].teid + (IF sgwc.op = "create" THEN 1 ELSE 0)
    /\ ueN = upf["sgw"].teid + (IF sgwc.op = "create" /\ fromPgwc # <<>> THEN 1 ELSE 0)
    /\ upf["pgw"].teid = ueN
    /\ sgwc.op = "create" => sgwc.s5u = s5u

Numbered == Counters /\ \A i \in Imsis : SgwNumbered(i) /\ PgwNumbered(i)

(* An answer that is read or sent, and a context that is set up or goes.   *)
LEMMA DrawnKept ==
  ASSUME TypeOK, TypeOK', TeidsDrawn, [Next]_vars,
         \A i \in Imsis :
            \/ sgwCtx'[i] = None
            \/ sgwCtx[i] # None /\ sgwCtx'[i].s1u = sgwCtx[i].s1u
            \/ sgwCtx'[i].s1u <= upf'["sgw"].teid,
         \/ fromSgwc' = fromSgwc
         \/ fromSgwc # <<>> /\ fromSgwc' = Tail(fromSgwc)
         \/ \E r \in Answers :
               /\ fromSgwc' = Append(fromSgwc, r)
               /\ r.teid # None => r.teid <= upf'["sgw"].teid
  PROVE  TeidsDrawn'
  <1>1. /\ upf["sgw"].teid \in Nat /\ upf'["sgw"].teid \in Nat
        /\ upf["sgw"].teid <= upf'["sgw"].teid
    BY GrantsUp DEF TypeOK, Nodes
  <1>2. fromSgwc \in Seq(Answers) /\ \A r \in Answers : r.teid \in Nat \cup {None}
    BY DEF TypeOK, Answers
  <1>3. ASSUME NEW i \in Imsis, sgwCtx'[i] # None
        PROVE  sgwCtx'[i].s1u <= upf'["sgw"].teid
    <2>1. CASE sgwCtx[i] # None /\ sgwCtx'[i].s1u = sgwCtx[i].s1u
      <3>1. sgwCtx[i].s1u \in Nat /\ sgwCtx[i].s1u <= upf["sgw"].teid
        BY <2>1 DEF TypeOK, SgwContexts, TeidsDrawn
      <3> QED BY <1>1, <2>1, <3>1
    <2> QED BY <1>3, <2>1
  <1>4. ASSUME NEW r \in Answers, Drawn(r) PROVE r.teid # None => r.teid <= upf'["sgw"].teid
    BY <1>1, <1>2, <1>4 DEF Drawn
  <1>5. \A k \in DOMAIN fromSgwc' :
           fromSgwc'[k].teid # None => fromSgwc'[k].teid <= upf'["sgw"].teid
    <2>1. \A k \in DOMAIN fromSgwc : fromSgwc[k] \in Answers /\ Drawn(fromSgwc[k])
      BY <1>2 DEF TeidsDrawn
    <2>2. CASE fromSgwc' = fromSgwc
      BY <1>4, <2>1, <2>2
    <2>3. CASE fromSgwc # <<>> /\ fromSgwc' = Tail(fromSgwc)
      <3>1. \A k \in DOMAIN fromSgwc' : \E l \in DOMAIN fromSgwc : fromSgwc'[k] = fromSgwc[l]
        BY <1>2, <2>3
      <3> QED BY <1>4, <2>1, <3>1
    <2>4. ASSUME NEW r \in Answers, fromSgwc' = Append(fromSgwc, r),
                 r.teid # None => r.teid <= upf'["sgw"].teid
          PROVE  \A k \in DOMAIN fromSgwc' :
                    fromSgwc'[k].teid # None => fromSgwc'[k].teid <= upf'["sgw"].teid
      <3>1. \A k \in DOMAIN fromSgwc' :
               fromSgwc'[k] = r \/ \E l \in DOMAIN fromSgwc : fromSgwc'[k] = fromSgwc[l]
        BY <1>2, <2>4
      <3> QED BY <1>4, <2>1, <2>4, <3>1
    <2> QED BY <2>2, <2>3, <2>4
  <1> QED BY <1>3, <1>5 DEF TeidsDrawn, Drawn

(* What the SGW-C answers with has been drawn for that answer or before.   *)
LEMMA DrawnStep == TypeOK /\ TeidsDrawn /\ [Next]_vars => TeidsDrawn'
  <1> SUFFICES ASSUME TypeOK, TeidsDrawn, [Next]_vars PROVE TeidsDrawn'
    OBVIOUS
  <1>1. TypeOK' /\ upf["sgw"].teid <= upf'["sgw"].teid
    BY TypeStep, GrantsUp
  <1>2. Bare \in Answers /\ Bare.teid = None
    BY Built DEF Bare, Answer
  <1>3. CASE sgwCtx' = sgwCtx /\ (fromSgwc' = fromSgwc \/ fromSgwc' = Append(fromSgwc, Bare))
    BY <1>1, <1>2, <1>3, DrawnKept
  <1>4. CASE UNCHANGED <<sgwCtx, fromSgwc>> \/ MmeAnswered \/ Lose
    <2>1. /\ sgwCtx' = sgwCtx
          /\ \/ fromSgwc' = fromSgwc
             \/ fromSgwc # <<>> /\ fromSgwc' = Tail(fromSgwc)
      BY <1>4 DEF MmeAnswered, Lose, sgwcVars
    <2> QED BY <1>1, <2>1, DrawnKept
  <1>5. CASE SgwcCreated
    <2>1. PICK o \in Outcomes :
              /\ Establish("sgw", o)
              /\ IF o = "done"
                 THEN /\ sgwCtx' = [sgwCtx EXCEPT ![sgwc.imsi] =
                             [seid |-> NextSeid("sgw"), s1u |-> NextTeid("sgw"),
                              s5u |-> sgwc.s5u, pgw |-> PgwTeid(Head(fromPgwc)),
                              ip |-> UeIp(Head(fromPgwc)), enb |-> FALSE]]
                      /\ fromSgwc' = Append(fromSgwc,
                                            Answer(NextTeid("sgw"), UeIp(Head(fromPgwc))))
                 ELSE fromSgwc' = Append(fromSgwc, Bare) /\ sgwCtx' = sgwCtx
      BY <1>5, Zenon DEF SgwcCreated
    <2>2. CASE o = "done"
      <3> DEFINE R == Answer(NextTeid("sgw"), UeIp(Head(fromPgwc)))
      <3>1. SxTypes /\ "sgw" \in Nodes
        BY DEF TypeOK, SxTypes, Nodes
      <3>2. /\ upf'["sgw"].teid = NextTeid("sgw") /\ NextTeid("sgw") \in Nat
            /\ NextTeid("sgw") <= upf'["sgw"].teid
        BY <2>1, <2>2, <3>1, Established
      <3>3. UeIp(Head(fromPgwc)) \in Nat
        BY <1>5, Built, Sockets DEF SgwcCreated, TypeOK
      <3>4. R \in Answers /\ R.teid = NextTeid("sgw")
        BY <3>2, <3>3, Built DEF Answer
      <3>5. \A j \in Imsis : \/ sgwCtx'[j] = sgwCtx[j]
                             \/ sgwCtx'[j].s1u = NextTeid("sgw")
        BY <2>1, <2>2 DEF TypeOK
      <3>6. fromSgwc' = Append(fromSgwc, R)
        BY <2>1, <2>2
      <3> HIDE DEF R
      <3> QED BY <1>1, <3>2, <3>4, <3>5, <3>6, DrawnKept
    <2> QED BY <1>3, <2>1, <2>2
  <1>6. CASE SgwcModify
    <2>1. Subscriber \in Imsis
      BY <1>6, SgwcHead DEF SgwcModify
    <2>2. \/ sgwCtx' = sgwCtx /\ fromSgwc' = Append(fromSgwc, Bare)
          \/ /\ sgwCtx[Subscriber] # None
             /\ sgwCtx' = [sgwCtx EXCEPT ![Subscriber].enb = TRUE]
             /\ fromSgwc' = Append(fromSgwc, Answer(sgwCtx[Subscriber].s1u, None))
      BY <1>6, Zenon DEF SgwcModify
    <2>3. CASE /\ sgwCtx[Subscriber] # None
               /\ sgwCtx' = [sgwCtx EXCEPT ![Subscriber].enb = TRUE]
               /\ fromSgwc' = Append(fromSgwc, Answer(sgwCtx[Subscriber].s1u, None))
      <3> DEFINE R == Answer(sgwCtx[Subscriber].s1u, None)
      <3>1. /\ sgwCtx[Subscriber].s1u \in Nat /\ sgwCtx[Subscriber].s1u <= upf["sgw"].teid
            /\ upf["sgw"].teid \in Nat /\ upf'["sgw"].teid \in Nat
        BY <1>1, <2>1, <2>3 DEF TypeOK, SgwContexts, TeidsDrawn, Nodes
      <3>2. R \in Answers /\ R.teid <= upf'["sgw"].teid
        BY <1>1, <3>1, Built DEF Answer
      <3>3. \A j \in Imsis : \/ sgwCtx'[j] = sgwCtx[j]
                             \/ sgwCtx[j] # None /\ sgwCtx'[j].s1u = sgwCtx[j].s1u
        BY <2>1, <2>3, Marked
      <3>4. fromSgwc' = Append(fromSgwc, R)
        BY <2>3
      <3> HIDE DEF R
      <3> QED BY <1>1, <3>2, <3>3, <3>4, DrawnKept
    <2> QED BY <1>3, <2>2, <2>3
  <1>7. CASE SgwcDelete
    <2>1. Subscriber \in Imsis
      BY <1>7, SgwcHead DEF SgwcDelete
    <2>2. \/ sgwCtx' = sgwCtx /\ fromSgwc' = Append(fromSgwc, Bare)
          \/ sgwCtx' = [sgwCtx EXCEPT ![Subscriber] = None] /\ fromSgwc' = fromSgwc
      BY <1>7, Zenon DEF SgwcDelete
    <2>3. CASE sgwCtx' = [sgwCtx EXCEPT ![Subscriber] = None] /\ fromSgwc' = fromSgwc
      <3>1. \A j \in Imsis : sgwCtx'[j] = sgwCtx[j] \/ sgwCtx'[j] = None
        BY <2>1, <2>3 DEF TypeOK
      <3> QED BY <1>1, <2>3, <3>1, DrawnKept
    <2> QED BY <1>3, <2>2, <2>3
  <1>8. CASE SgwcDeleted \/ SgwcTimeout
    BY <1>3, <1>8 DEF SgwcDeleted, SgwcTimeout
  <1>9. CASE Start \/ MmeTimeout \/ SgwcCreate \/ Pgwc \/ UNCHANGED vars
    <2>1. UNCHANGED <<sgwCtx, fromSgwc>>
      BY <1>9, Zenon
      DEF Start, StartCreate, StartModify, StartDelete, Ask, MmeTimeout, SgwcCreate, Pgwc,
          PgwcCreate, PgwcDelete, vars, sgwcVars, netVars
    <2> QED BY <1>4, <2>1
  <1> QED BY <1>4, <1>5, <1>6, <1>7, <1>8, <1>9 DEF Next, Mme, Sgwc

(* The types of what is numbered. *)
LEMMA Numbers ==
  ASSUME TypeOK
  PROVE  /\ "sgw" \in Nodes /\ "pgw" \in Nodes /\ SxTypes
         /\ upf["sgw"].teid \in Nat /\ upf["pgw"].teid \in Nat /\ ueN \in Nat /\ s5u \in Nat
         /\ \A i \in Imsis : sgwCtx[i] # None => sgwCtx[i] \in SgwContexts
         /\ \A i \in Imsis : pgwCtx[i] # None => pgwCtx[i] \in PgwContexts
  BY DEF TypeOK, SxTypes, Nodes

(* When no context is set up.                                              *)
LEMMA CountersKept ==
  ASSUME TypeOK, Counters,
         upf'["sgw"].teid = upf["sgw"].teid, upf'["pgw"].teid = upf["pgw"].teid,
         UNCHANGED <<s5u, ueN>>,
         \/ UNCHANGED <<sgwc, fromPgwc>>
         \/ sgwc.op # "create" /\ sgwc'.op # "create"
  PROVE  Counters'
  BY DEF Counters

(* A context that stays, in what is numbered, stays numbered.              *)
LEMMA NumberedKept ==
  ASSUME TypeOK, NEW i \in Imsis, SgwNumbered(i), PgwNumbered(i),
         upf["pgw"].teid <= upf'["pgw"].teid, upf'["pgw"].teid \in Nat,
         \/ sgwCtx'[i] = None
         \/ /\ sgwCtx[i] # None
            /\ \A f \in {"s1u", "s5u", "pgw", "ip"} : sgwCtx'[i][f] = sgwCtx[i][f],
         pgwCtx'[i] \in {None, pgwCtx[i]}
  PROVE  SgwNumbered(i)' /\ PgwNumbered(i)'
  <1>1. SgwNumbered(i)'
    BY DEF SgwNumbered
  <1>2. ASSUME pgwCtx[i] # None PROVE PgwNumbered(i)'
    <2>1. pgwCtx[i].teid \in Nat
      BY <1>2, Numbers DEF PgwContexts
    <2>2. upf["pgw"].teid \in Nat /\ pgwCtx[i].teid <= upf["pgw"].teid
      BY <1>2, Numbers DEF PgwNumbered
    <2>3. pgwCtx[i].teid <= upf'["pgw"].teid
      BY <2>1, <2>2
    <2> QED BY <1>2, <2>3 DEF PgwNumbered
  <1>3. CASE pgwCtx[i] = None
    BY <1>1, <1>3 DEF PgwNumbered
  <1> QED BY <1>1, <1>2, <1>3

(* Without a fault the counters go round in step.                          *)
LEMMA NumberedStep ==
  ASSUME TypeOK, InStep, Numbered, [Next]_vars, faults' = 0
  PROVE  Numbered'
  <1> USE Numbers
  <1>1. TypeOK'
    BY TypeStep
  <1>2. ~MmeTimeout /\ ~SgwcTimeout /\ ~Lose
    BY NoTimeout
  <1>3. ASSUME Counters', upf["pgw"].teid <= upf'["pgw"].teid, upf'["pgw"].teid \in Nat,
               \A i \in Imsis :
                  /\ \/ sgwCtx'[i] = None
                     \/ /\ sgwCtx[i] # None
                        /\ \A f \in {"s1u", "s5u", "pgw", "ip"} : sgwCtx'[i][f] = sgwCtx[i][f]
                  /\ pgwCtx'[i] \in {None, pgwCtx[i]}
        PROVE  Numbered'
    BY <1>3, NumberedKept DEF Numbered
  <1>4. CASE Start \/ MmeAnswered \/ UNCHANGED vars
    <2>1. UNCHANGED <<upf, sgwc, fromPgwc, s5u, ueN, sgwCtx, pgwCtx>>
      BY <1>4, Zenon
      DEF Start, StartCreate, StartModify, StartDelete, Ask, MmeAnswered, vars, sgwcVars,
          pgwcVars, sxVars, netVars
    <2> QED BY <2>1 DEF Numbered, Counters, SgwNumbered, PgwNumbered
  <1>5. CASE SgwcCreate
    <2>1. PICK i \in Imsis : Asked(i)
      BY <1>5, TakenIsAsked DEF SgwcCreate
    <2>2. /\ sgwc.op = "idle" /\ fromPgwc = <<>>
      BY <2>1, Busy DEF Asked
    <2>3. /\ UNCHANGED <<upf, fromPgwc, ueN, sgwCtx, pgwCtx>>
          /\ s5u' = s5u + 1 /\ sgwc'.op = "create" /\ sgwc'.s5u = s5u + 1
      BY <1>5 DEF SgwcCreate, pgwcVars, sxVars
    <2>4. Counters'
      BY <2>2, <2>3 DEF Numbered, Counters
    <2> QED BY <1>3, <2>3, <2>4
  <1>6. CASE SgwcCreated
    <2>1. PICK i \in Imsis :
              /\ sgwc.op = "create" /\ fromPgwc # <<>>
              /\ pgwCtx[i] # None /\ pgwCtx[i].sgw = sgwc.s5u
              /\ Establish("sgw", "done") /\ sgwc'.op = "idle"
              /\ sgwCtx' = [sgwCtx EXCEPT ![i] =
                     [seid |-> NextSeid("sgw"), s1u |-> NextTeid("sgw"), s5u |-> sgwc.s5u,
                      pgw |-> pgwCtx[i].teid, ip |-> pgwCtx[i].ip, enb |-> FALSE]]
              /\ UNCHANGED <<s5u, pgwCtx, ueN>>
      BY <1>6, SgwcCreatedEffect, One DEF SgwcIdle, SgwcCreated
    <2>2. /\ upf'["sgw"].teid = upf["sgw"].teid + 1 /\ NextTeid("sgw") = upf["sgw"].teid + 1
          /\ upf'["pgw"] = upf["pgw"]
      BY <2>1, Established DEF Outcomes
    <2>3. Counters'
      BY <2>1, <2>2 DEF Numbered, Counters
    <2>4. pgwCtx[i].teid = sgwc.s5u /\ pgwCtx[i].ip + 1 = sgwc.s5u
          /\ sgwc.s5u = upf["sgw"].teid + 1
      BY <2>1 DEF Numbered, Counters, PgwNumbered
    <2>5. SgwNumbered(i)'
      <3>1. /\ sgwCtx'[i].s1u = NextTeid("sgw") /\ sgwCtx'[i].s5u = sgwc.s5u
            /\ sgwCtx'[i].pgw = pgwCtx[i].teid /\ sgwCtx'[i].ip = pgwCtx[i].ip
        BY <2>1 DEF TypeOK
      <3> QED BY <2>2, <2>4, <3>1 DEF SgwNumbered
    <2>6. \A j \in Imsis : PgwNumbered(j)'
      BY <2>1, <2>2 DEF Numbered, PgwNumbered
    <2>7. \A j \in Imsis \ {i} : SgwNumbered(j)'
      BY <2>1 DEF TypeOK, Numbered, SgwNumbered
    <2> QED BY <2>3, <2>5, <2>6, <2>7 DEF Numbered
  <1>7. CASE SgwcModify
    <2>1. PICK i \in Imsis :
              /\ UNCHANGED <<pgwCtx, sgwc, s5u, ueN, upf, fromPgwc>>
              /\ \/ UNCHANGED sgwCtx
                 \/ sgwCtx[i] # None /\ sgwCtx' = [sgwCtx EXCEPT ![i].enb = TRUE]
      BY <1>7, SgwcModifyEffect
    <2>2. \A j \in Imsis :
             \/ sgwCtx'[j] = sgwCtx[j]
             \/ /\ sgwCtx[j] # None
                /\ \A f \in {"seid", "s1u", "s5u", "pgw", "ip"} : sgwCtx'[j][f] = sgwCtx[j][f]
      BY <2>1, Marked
    <2>3. Counters'
      BY <2>1 DEF Numbered, Counters
    <2> QED BY <1>3, <2>1, <2>2, <2>3
  <1>8. CASE SgwcDelete
    <2>1. PICK i \in Imsis : Asked(i) /\ Subscriber = i
      BY <1>8, TakenIsAsked DEF SgwcDelete
    <2>2. sgwc.op # "create" /\ sgwc'.op # "create"
      BY <1>8, <2>1, Busy DEF Asked, SgwcDelete
    <2>3. UNCHANGED <<s5u, ueN, pgwCtx>>
      BY <1>8 DEF SgwcDelete, pgwcVars
    <2>4. /\ upf'["sgw"].teid = upf["sgw"].teid /\ upf'["pgw"] = upf["pgw"]
          /\ \A j \in Imsis : sgwCtx'[j] \in {None, sgwCtx[j]}
      <3>1. CASE sgwCtx[i] = None
        BY <1>8, <2>1, <3>1 DEF SgwcDelete, sxVars
      <3>2. CASE sgwCtx[i] # None
        <4>1. PICK o \in Outcomes : /\ Release("sgw", sgwCtx[i].seid, o)
                                    /\ sgwCtx' = [sgwCtx EXCEPT ![i] = None]
          BY <1>8, <2>1, <3>2, Zenon DEF SgwcDelete
        <4>2. sgwCtx[i].seid \in Nat
          BY <3>2 DEF SgwContexts
        <4>3. upf'["sgw"].teid = upf["sgw"].teid /\ upf'["pgw"] = upf["pgw"]
          BY <4>1, <4>2, Released
        <4> QED BY <4>1, <4>3 DEF TypeOK
      <3> QED BY <3>1, <3>2
    <2>5. Counters'
      BY <2>2, <2>3, <2>4, CountersKept DEF Numbered
    <2> QED BY <1>3, <2>3, <2>4, <2>5
  <1>9. CASE SgwcDeleted
    <2>1. /\ UNCHANGED <<upf, s5u, ueN, sgwCtx, pgwCtx>>
          /\ sgwc.op = "delete" /\ sgwc'.op = "idle"
      BY <1>9 DEF SgwcDeleted, SgwcIdle, pgwcVars, sxVars
    <2>2. Counters'
      BY <2>1, CountersKept DEF Numbered
    <2> QED BY <1>3, <2>1, <2>2
  <1>10. CASE PgwcCreate
    <2>1. PICK i \in Imsis :
              /\ PassedOn(i) /\ mme.op = "create"
              /\ Establish("pgw", "done") /\ ueN' = ueN + 1
              /\ pgwCtx' = [pgwCtx EXCEPT ![i] =
                     [seid |-> NextSeid("pgw"), teid |-> NextTeid("pgw"), sgw |-> sgwc.s5u,
                      ip |-> ueN]]
              /\ fromPgwc' = <<Answer(NextTeid("pgw"), ueN)>>
              /\ UNCHANGED <<sgwc, s5u, sgwCtx>>
      BY <1>10, PgwcCreateEffect
    <2>2. sgwc.op = "create" /\ fromPgwc = <<>> /\ fromPgwc' # <<>>
      BY <2>1, One DEF PassedOn
    <2>3. /\ upf'["pgw"].teid = upf["pgw"].teid + 1 /\ NextTeid("pgw") = upf["pgw"].teid + 1
          /\ upf'["sgw"] = upf["sgw"]
      BY <2>1, Established DEF Outcomes
    <2>4. Counters'
      BY <2>1, <2>2, <2>3 DEF Numbered, Counters
    <2>5. PgwNumbered(i)'
      <3>1. /\ pgwCtx'[i].teid = NextTeid("pgw") /\ pgwCtx'[i].sgw = sgwc.s5u
            /\ pgwCtx'[i].ip = ueN
        BY <2>1 DEF TypeOK
      <3> QED BY <2>2, <2>3, <3>1 DEF Numbered, Counters, PgwNumbered
    <2>6. \A j \in Imsis \ {i} : PgwNumbered(j)'
      <3> SUFFICES ASSUME NEW j \in Imsis \ {i} PROVE PgwNumbered(j)'
        OBVIOUS
      <3>1. pgwCtx'[j] = pgwCtx[j] /\ (pgwCtx[j] # None => pgwCtx[j].teid \in Nat)
        BY <2>1 DEF TypeOK, PgwContexts
      <3> QED BY <2>3, <3>1 DEF Numbered, PgwNumbered
    <2>7. \A j \in Imsis : SgwNumbered(j)'
      BY <2>1 DEF Numbered, SgwNumbered
    <2> QED BY <2>4, <2>5, <2>6, <2>7 DEF Numbered
  <1>11. CASE PgwcDelete
    <2>1. PICK i \in Imsis : PassedOn(i) /\ mme.op = "delete" /\ Head(toPgwc).imsi = i
      BY <1>11, ServedIsPassedOn DEF PgwcDelete
    <2>2. sgwc.op = "delete" /\ UNCHANGED <<sgwc, s5u, ueN, sgwCtx>>
      BY <1>11, <2>1 DEF PassedOn, PgwcDelete, sgwcVars
    <2>3. /\ upf'["pgw"].teid = upf["pgw"].teid /\ upf'["sgw"] = upf["sgw"]
          /\ \A j \in Imsis : pgwCtx'[j] \in {None, pgwCtx[j]}
      <3>1. CASE pgwCtx[i] = None
        BY <1>11, <2>1, <3>1 DEF PgwcDelete, sxVars
      <3>2. CASE pgwCtx[i] # None
        <4>1. PICK o \in Outcomes : /\ Release("pgw", pgwCtx[i].seid, o)
                                    /\ pgwCtx' = [pgwCtx EXCEPT ![i] = None]
          BY <1>11, <2>1, <3>2, Zenon DEF PgwcDelete
        <4>2. pgwCtx[i].seid \in Nat
          BY <3>2 DEF PgwContexts
        <4>3. upf'["pgw"].teid = upf["pgw"].teid /\ upf'["sgw"] = upf["sgw"]
          BY <4>1, <4>2, Released
        <4> QED BY <4>1, <4>3 DEF TypeOK
      <3> QED BY <3>1, <3>2
    <2>4. Counters'
      BY <2>2, <2>3, CountersKept DEF Numbered
    <2> QED BY <1>3, <2>2, <2>3, <2>4
  <1> QED
    BY <1>2, <1>4, <1>5, <1>6, <1>7, <1>8, <1>9, <1>10, <1>11 DEF Next, Mme, Sgwc, Pgwc

(* What the refinement rests on. *)
Faultfree == InStep /\ Numbered

RInv == TypeOK /\ ContextBacked /\ TeidsDrawn /\ (faults = 0 => Faultfree)

LEMMA InitRInv == Init => TeidsDrawn /\ Faultfree
  <1> SUFFICES ASSUME Init PROVE TeidsDrawn /\ Faultfree
    OBVIOUS
  <1>1. TeidsDrawn /\ Numbered
    BY DEF Init, TeidsDrawn, Numbered, Counters, SgwNumbered, PgwNumbered, SgwcIdle, Nodes
  <1>2. InStep
    BY InitLockstep DEF Init, Lockstep
  <1> QED BY <1>1, <1>2 DEF Faultfree

(* Every step keeps it. *)
LEMMA RInvStep == IInv /\ RInv /\ [Next]_vars => RInv'
  <1> SUFFICES ASSUME IInv, RInv, [Next]_vars PROVE RInv'
    OBVIOUS
  <1>1. TypeOK' /\ ContextBacked'
    BY IInvStep DEF IInv
  <1>2. TeidsDrawn'
    BY DrawnStep DEF RInv
  <1>3. ASSUME faults' = 0 PROVE Faultfree'
    <2>1. faults = 0
      BY <1>3, Faultless DEF RInv
    <2>2. InStep /\ Numbered /\ TypeOK
      BY <2>1 DEF RInv, Faultfree
    <2>3. InStep'
      BY <1>3, <2>1, <2>2, LockstepStep DEF Lockstep
    <2>4. Numbered'
      BY <1>3, <2>2, NumberedStep
    <2> QED BY <2>3, <2>4 DEF Faultfree
  <1> QED BY <1>1, <1>2, <1>3 DEF RInv

(* The session of a subscriber, in short: the halves that are there have   *)
(* the same number.                                                        *)
Joint(i) ==
    IF sgwCtx[i] # None /\ pgwCtx[i] # None /\ sgwCtx[i].s1u = pgwCtx[i].teid
    THEN sgwCtx[i].s1u ELSE None

LEMMA SessionIsJoint == RInv /\ faults = 0 => \A i \in Imsis : SessionOf(i) = Joint(i)
  <1> SUFFICES ASSUME RInv, faults = 0, NEW i \in Imsis PROVE SessionOf(i) = Joint(i)
    OBVIOUS
  <1>1. TypeOK /\ ContextBacked /\ RoutesThere(i) /\ SgwNumbered(i) /\ PgwNumbered(i)
    BY DEF RInv, Faultfree, InStep, Numbered
  <1>2. ASSUME sgwCtx[i] # None, pgwCtx[i] # None, sgwCtx[i].s1u = pgwCtx[i].teid
        PROVE  Whole(i, sgwCtx[i].s1u)
    BY <1>1, <1>2 DEF Whole, ContextBacked, RoutesThere, SgwNumbered, PgwNumbered
  <1>3. ASSUME sgwCtx[i] # None, Whole(i, sgwCtx[i].s1u)
        PROVE  pgwCtx[i] # None /\ sgwCtx[i].s1u = pgwCtx[i].teid
    BY <1>3 DEF Whole
  <1> QED BY <1>2, <1>3 DEF SessionOf, Joint

(* Where the halves agree there is a session just when there is a half.    *)
LEMMA AgreedIsJoint ==
  ASSUME RInv, faults = 0, NEW i \in Imsis, Agree(i)
  PROVE  Joint(i) = IF sgwCtx[i] = None THEN None ELSE sgwCtx[i].s1u
  <1>1. SgwNumbered(i)
    BY DEF RInv, Faultfree, Numbered
  <1> QED BY <1>1 DEF Agree, Joint, SgwNumbered

---------------------------------------------------------------------------
(* The steps, without a fault, as steps of BearerService. *)

(* How far the procedure is, by its place.                                 *)
LEMMA Stages ==
  /\ Between => Stage = "none"
  /\ \A i \in Imsis :
        /\ mme # MmeIdle /\ Asked(i) => Stage = "asked"
        /\ mme # MmeIdle /\ PassedOn(i) => Stage = "asked"
        /\ mme # MmeIdle /\ Returned(i) /\ mme.op = "delete" => Stage = "asked"
        /\ mme # MmeIdle /\ Returned(i) /\ mme.op = "create" => Stage = "prepared"
        /\ mme # MmeIdle /\ Answered(i) => Stage = "done"
  <1>1. Between => Stage = "none"
    BY DEF Between, Stage
  <1> SUFFICES ASSUME NEW i \in Imsis, mme # MmeIdle
               PROVE  /\ Asked(i) => Stage = "asked"
                      /\ PassedOn(i) => Stage = "asked"
                      /\ Returned(i) /\ mme.op = "delete" => Stage = "asked"
                      /\ Returned(i) /\ mme.op = "create" => Stage = "prepared"
                      /\ Answered(i) => Stage = "done"
    BY <1>1
  <1>2. Asked(i) \/ PassedOn(i) => Stage = "asked"
    BY DEF Asked, PassedOn, Stage
  <1>3. Returned(i) /\ mme.op = "delete" => Stage = "asked"
    BY DEF Returned, Stage
  <1>4. Returned(i) /\ mme.op = "create" => Stage = "prepared"
    BY One DEF Returned, Stage
  <1>5. Answered(i) => Stage = "done"
    BY DEF Answered, Stage
  <1> QED BY <1>2, <1>3, <1>4, <1>5

(* The same of the next state. *)
LEMMA SessionIsJointNext ==
  RInv' /\ faults' = 0 => \A i \in Imsis : SessionOf(i)' = Joint(i)'
  <1>1. (RInv /\ faults = 0 => \A i \in Imsis : SessionOf(i) = Joint(i))'
    BY SessionIsJoint, PTL
  <1> QED BY <1>1, Zenon

(* A step for subscriber i changes no other session.                       *)
LEMMA SessionsMove ==
  ASSUME RInv, RInv', faults = 0, faults' = 0, NEW i \in Imsis, NEW n,
         \A j \in Imsis \ {i} : Joint(j)' = Joint(j),
         Joint(i)' = n
  PROVE  [j \in Imsis |-> SessionOf(j)]' = [[j \in Imsis |-> SessionOf(j)] EXCEPT ![i] = n]
  <1>1. \A j \in Imsis : SessionOf(j)' = Joint(j)'
    BY SessionIsJointNext
  <1>2. \A j \in Imsis : SessionOf(j) = Joint(j)
    BY SessionIsJoint
  <1> QED BY <1>1, <1>2

LEMMA SessionsStay ==
  ASSUME RInv, RInv', faults = 0, faults' = 0, \A j \in Imsis : Joint(j)' = Joint(j)
  PROVE  [j \in Imsis |-> SessionOf(j)]' = [j \in Imsis |-> SessionOf(j)]
  <1>1. \A j \in Imsis : SessionOf(j)' = Joint(j)'
    BY SessionIsJointNext
  <1>2. \A j \in Imsis : SessionOf(j) = Joint(j)
    BY SessionIsJoint
  <1> QED BY <1>1, <1>2

(* What RInv says of a state without a fault.                              *)
LEMMA Plainly ==
  ASSUME RInv, faults = 0
  PROVE  TypeOK /\ InStep /\ Numbered /\ ContextBacked
  BY DEF RInv, Faultfree

(* The procedure the MME starts is the one that is asked for.              *)
LEMMA StartRefines ==
  ASSUME RInv, RInv', faults = 0, faults' = 0, Start
  PROVE  Service!Start
  <1>0. TypeOK /\ InStep
    BY Plainly
  <1>1. PICK i \in Imsis : StartCreate(i) \/ StartModify(i) \/ StartDelete(i)
    BY DEF Start
  <1>2. PICK op \in {"create", "modify", "delete"} :
            /\ Ask(op, i)
            /\ op = "create" => bearer' = [bearer EXCEPT ![i] = Bare]
            /\ op # "create" => bearer' = bearer
    BY <1>1 DEF StartCreate, StartModify, StartDelete
  <1>3. mme = MmeIdle /\ mme' = [op |-> op, imsi |-> i] /\ mme' # MmeIdle
    BY <1>2 DEF Ask, MmeIdle
  <1>4. Between /\ UNCHANGED <<sgwc, fromSgwc, fromPgwc, sgwCtx, pgwCtx, upf, sgwDown, sgi>>
    BY <1>0, <1>2, <1>3, Places DEF Ask, InStep, sgwcVars, pgwcVars, sxVars, routeVars
  <1>5. Stage' = "asked"
    BY <1>3, <1>4 DEF Stage, Between, SgwcIdle
  <1>6. [j \in Imsis |-> SessionOf(j)]' = [j \in Imsis |-> SessionOf(j)]
    <2>1. \A j \in Imsis : Joint(j)' = Joint(j)
      BY <1>4 DEF Joint
    <2> QED BY <2>1, SessionsStay
  <1>7. [j \in Imsis |-> NumberOf(bearer[j])]'
          = IF op = "create" THEN [[j \in Imsis |-> NumberOf(bearer[j])] EXCEPT ![i] = None]
            ELSE [j \in Imsis |-> NumberOf(bearer[j])]
    <2>1. NumberOf(Bare) = None
      BY DEF NumberOf, Bare, Answer
    <2>2. bearer \in [Imsis -> Answers]
      BY <1>0 DEF TypeOK
    <2> QED BY <1>2, <2>1, <2>2
  <1>8. Service!Ask(op, i)
    BY <1>3, <1>4, <1>5, <1>6, <1>7 DEF Service!Ask, Service!Idle, MmeIdle
  <1> QED BY <1>8 DEF Service!Start

(* The answer the MME takes is its report.                                 *)
LEMMA MmeRefines ==
  ASSUME RInv, RInv', faults = 0, faults' = 0, MmeAnswered
  PROVE  Service!Carry
  <1>0. TypeOK /\ InStep /\ Numbered
    BY Plainly
  <1>1. PICK i \in Imsis : Answered(i)
    BY <1>0, Places DEF MmeAnswered, InStep
  <1>2. mme.imsi = i /\ mme # MmeIdle /\ mme' = MmeIdle
    BY <1>0, <1>1, Busy DEF Answered, MmeAnswered
  <1>3. Stage = "done" /\ Stage' = "none"
    BY <1>1, <1>2, Stages DEF Stage
  <1>4. UNCHANGED <<sgwCtx, pgwCtx, upf, sgwDown, sgi>>
    BY DEF MmeAnswered, sgwcVars, pgwcVars, sxVars, routeVars
  <1>5. [j \in Imsis |-> SessionOf(j)]' = [j \in Imsis |-> SessionOf(j)]
    <2>1. \A j \in Imsis : Joint(j)' = Joint(j)
      BY <1>4 DEF Joint
    <2> QED BY <2>1, SessionsStay
  <1>6. [j \in Imsis |-> NumberOf(bearer[j])]'
          = IF mme.op = "create"
            THEN [[j \in Imsis |-> NumberOf(bearer[j])] EXCEPT ![i] = SessionOf(i)]
            ELSE [j \in Imsis |-> NumberOf(bearer[j])]
    <2>1. CASE mme.op # "create"
      <3>1. bearer' = bearer
        BY <2>1 DEF MmeAnswered
      <3> QED BY <2>1, <3>1
    <2>2. CASE mme.op = "create"
      <3>1. /\ sgwCtx[i] # None /\ Agree(i)
            /\ Head(fromSgwc) = Answer(sgwCtx[i].s1u, sgwCtx[i].ip)
        BY <1>1, <2>2 DEF Answered
      <3>2. bearer' = [bearer EXCEPT ![i] = Answer(sgwCtx[i].s1u, sgwCtx[i].ip)]
        BY <1>2, <2>2, <3>1 DEF MmeAnswered
      <3>3. SessionOf(i) = sgwCtx[i].s1u
        BY <3>1, SessionIsJoint, AgreedIsJoint
      <3>4. /\ sgwCtx[i].ip + 1 = sgwCtx[i].s1u
            /\ sgwCtx[i].s1u \in Nat /\ sgwCtx[i].ip \in Nat
        BY <1>0, <3>1 DEF TypeOK, Numbered, SgwNumbered, SgwContexts
      <3>5. NumberOf(Answer(sgwCtx[i].s1u, sgwCtx[i].ip)) = SessionOf(i)
        BY <3>3, <3>4, SetupAssumption DEF NumberOf, Answer
      <3>6. bearer \in [Imsis -> Answers]
        BY <1>0 DEF TypeOK
      <3> QED BY <2>2, <3>2, <3>5, <3>6
    <2> QED BY <2>1, <2>2
  <1>7. Service!Report
    BY <1>2, <1>3, <1>4, <1>5, <1>6 DEF Service!Report, Service!Idle, MmeIdle
  <1> QED BY <1>7 DEF Service!Carry

(* A creation or a deletion that is passed on changes nothing yet.         *)
LEMMA SgwcCreateRefines ==
  ASSUME RInv, RInv', faults = 0, faults' = 0, SgwcCreate
  PROVE  UNCHANGED Service!serviceVars
  <1>0. TypeOK /\ InStep
    BY Plainly
  <1>1. PICK i \in Imsis : Asked(i) /\ mme.op = "create"
    BY <1>0, TakenIsAsked DEF SgwcCreate
  <1>2. mme # MmeIdle /\ fromSgwc = <<>> /\ fromPgwc = <<>>
    BY <1>0, <1>1, Busy DEF Asked
  <1>3. UNCHANGED <<mme, bearer, sgwCtx, pgwCtx, upf, sgwDown, sgi, fromSgwc, fromPgwc>>
    BY DEF SgwcCreate, mmeVars, pgwcVars, sxVars, routeVars
  <1>4. Stage' = Stage
    BY <1>2, <1>3 DEF Stage
  <1>5. [j \in Imsis |-> SessionOf(j)]' = [j \in Imsis |-> SessionOf(j)]
    <2>1. \A j \in Imsis : Joint(j)' = Joint(j)
      BY <1>3 DEF Joint
    <2> QED BY <2>1, SessionsStay
  <1> QED BY <1>3, <1>4, <1>5 DEF Service!serviceVars

(* The SGW-C's half is the last of a creation: the session is granted.     *)
LEMMA SgwcCreatedRefines ==
  ASSUME RInv, RInv', faults = 0, faults' = 0, SgwcCreated
  PROVE  Service!Carry
  <1>0. TypeOK /\ InStep /\ Numbered
    BY Plainly
  <1> DEFINE n == upf["sgw"].teid + 1
  <1>1. PICK i \in Imsis :
            /\ Returned(i) /\ mme.op = "create" /\ sgwc.op = "create"
            /\ fromPgwc = <<Answer(pgwCtx[i].teid, pgwCtx[i].ip)>>
            /\ pgwCtx[i] # None /\ pgwCtx[i].sgw = sgwc.s5u
            /\ Establish("sgw", "done")
            /\ sgwCtx' = [sgwCtx EXCEPT ![i] =
                   [seid |-> NextSeid("sgw"), s1u |-> NextTeid("sgw"), s5u |-> sgwc.s5u,
                    pgw |-> pgwCtx[i].teid, ip |-> pgwCtx[i].ip, enb |-> FALSE]]
            /\ sgwCtx'[i] \in SgwContexts
            /\ fromSgwc' = <<Answer(NextTeid("sgw"), pgwCtx[i].ip)>>
            /\ UNCHANGED <<mme, bearer, pgwCtx, sgwDown, sgi>>
    BY <1>0, SgwcCreatedEffect
  <1>2. mme.imsi = i /\ mme # MmeIdle
    BY <1>0, <1>1, Busy DEF Returned
  <1>3. Stage = "prepared" /\ Stage' = "done"
    BY <1>1, <1>2, Stages, One DEF Stage
  <1>4. upf'["sgw"].teid = n /\ NextTeid("sgw") = n
    BY <1>0, <1>1, Established, Numbers DEF Outcomes
  <1>5. [j \in Imsis |-> SessionOf(j)]' = [[j \in Imsis |-> SessionOf(j)] EXCEPT ![i] = n]
    <2>1. pgwCtx[i].teid = n
      BY <1>0, <1>1, Numbers DEF Numbered, Counters, PgwNumbered
    <2>2. sgwCtx'[i] # None /\ sgwCtx'[i].s1u = n /\ \A j \in Imsis \ {i} : sgwCtx'[j] = sgwCtx[j]
      BY <1>0, <1>1, <1>4, ContextAssumption DEF TypeOK
    <2>3. Joint(i)' = n
      BY <1>1, <2>1, <2>2 DEF Joint
    <2>4. \A j \in Imsis \ {i} : Joint(j)' = Joint(j)
      BY <1>1, <2>2 DEF Joint
    <2> HIDE DEF n
    <2> QED BY <2>3, <2>4, SessionsMove
  <1>6. Service!Grant
    BY <1>1, <1>2, <1>3, <1>4, <1>5 DEF Service!Grant, Service!At
  <1> QED BY <1>6 DEF Service!Carry

(* A modification leads the downlink of the session, if any, to the eNB.   *)
LEMMA SgwcModifyRefines ==
  ASSUME RInv, RInv', faults = 0, faults' = 0, SgwcModify
  PROVE  Service!Carry
  <1>0. TypeOK /\ InStep /\ Numbered
    BY Plainly
  <1>1. PICK i \in Imsis :
            /\ Asked(i) /\ mme.op = "modify"
            /\ UNCHANGED <<mme, bearer, pgwCtx, upf, sgi>>
            /\ \/ sgwCtx[i] = None /\ fromSgwc' = <<Bare>> /\ UNCHANGED <<sgwCtx, sgwDown>>
               \/ /\ sgwCtx[i] # None
                  /\ fromSgwc' = <<Answer(sgwCtx[i].s1u, None)>>
                  /\ sgwCtx' = [sgwCtx EXCEPT ![i].enb = TRUE]
                  /\ sgwDown' = sgwDown \cup {sgwCtx[i].s5u}
    BY <1>0, SgwcModifyEffect
  <1>2. mme.imsi = i /\ mme # MmeIdle /\ Agree(i)
    BY <1>0, <1>1, Busy DEF Asked
  <1>3. Stage = "asked" /\ Stage' = "done"
    BY <1>1, <1>2, Stages, One DEF Stage
  <1>4. [j \in Imsis |-> SessionOf(j)]' = [j \in Imsis |-> SessionOf(j)]
    <2>1. \A j \in Imsis :
             \/ sgwCtx'[j] = sgwCtx[j]
             \/ sgwCtx[j] # None /\ sgwCtx'[j] # None /\ sgwCtx'[j].s1u = sgwCtx[j].s1u
      BY <1>0, <1>1, Marked
    <2>2. \A j \in Imsis : Joint(j)' = Joint(j)
      BY <1>1, <2>1 DEF Joint
    <2> QED BY <2>2, SessionsStay
  <1>5. SessionOf(i) = IF sgwCtx[i] = None THEN None ELSE sgwCtx[i].s5u
    <2>1. SessionOf(i) = IF sgwCtx[i] = None THEN None ELSE sgwCtx[i].s1u
      BY <1>2, SessionIsJoint, AgreedIsJoint
    <2> QED BY <1>0, <2>1 DEF Numbered, SgwNumbered
  <1>6. sgwDown' = IF SessionOf(i) = None THEN sgwDown ELSE sgwDown \cup {SessionOf(i)}
    <2>1. sgwCtx[i] # None => sgwCtx[i].s5u # None
      BY <1>0, Numbers, SetupAssumption DEF SgwContexts
    <2> QED BY <1>1, <1>5, <2>1
  <1>7. Service!Connect
    BY <1>1, <1>2, <1>3, <1>4, <1>6 DEF Service!Connect, Service!At
  <1> QED BY <1>7 DEF Service!Carry

(* The SGW-C's half is the first to go in a deletion: with it the session  *)
(* is no more; and without it nothing is left to be deleted.               *)
LEMMA SgwcDeleteRefines ==
  ASSUME RInv, RInv', faults = 0, faults' = 0, SgwcDelete
  PROVE  Service!Carry
  <1>0. TypeOK /\ InStep
    BY Plainly
  <1>1. PICK i \in Imsis : Asked(i) /\ Subscriber = i /\ mme.op = "delete"
    BY <1>0, TakenIsAsked DEF SgwcDelete
  <1>2. mme.imsi = i /\ mme # MmeIdle /\ fromSgwc = <<>>
    BY <1>0, <1>1, Busy DEF Asked
  <1>3. Stage = "asked" /\ UNCHANGED <<mme, bearer, pgwCtx, sgwDown, sgi>>
    BY <1>1, <1>2, Stages DEF SgwcDelete, mmeVars, pgwcVars, routeVars
  <1>4. CASE sgwCtx[i] = None
    <2>1. UNCHANGED <<sgwCtx, upf>> /\ fromSgwc' = <<Bare>>
      BY <1>1, <1>2, <1>4, One DEF SgwcDelete, sxVars
    <2>2. Stage' = "done"
      BY <1>2, <1>3, <2>1, One DEF Stage
    <2>3. [j \in Imsis |-> SessionOf(j)]' = [j \in Imsis |-> SessionOf(j)]
      <3>1. \A j \in Imsis : Joint(j)' = Joint(j)
        BY <1>3, <2>1 DEF Joint
      <3> QED BY <3>1, SessionsStay
    <2>4. SessionOf(i) = None
      BY <1>4 DEF SessionOf
    <2>5. Service!Confirm
      BY <1>1, <1>2, <1>3, <2>1, <2>2, <2>3, <2>4 DEF Service!Confirm, Service!At
    <2> QED BY <2>5 DEF Service!Carry
  <1>5. CASE sgwCtx[i] # None
    <2>1. PICK o \in Outcomes :
              /\ Release("sgw", sgwCtx[i].seid, o) /\ sgwCtx' = [sgwCtx EXCEPT ![i] = None]
              /\ sgwc' = [op |-> "delete", imsi |-> i, s5u |-> 0] /\ fromSgwc' = fromSgwc
      BY <1>1, <1>5, Zenon DEF SgwcDelete
    <2>2. upf'["sgw"].teid = upf["sgw"].teid
      <3>1. sgwCtx[i].seid \in Nat
        BY <1>0, <1>5, Numbers DEF SgwContexts
      <3> QED BY <1>0, <2>1, <3>1, Released, Numbers
    <2>3. Stage' = "asked"
      BY <1>2, <1>3, <2>1 DEF Stage
    <2>4. [j \in Imsis |-> SessionOf(j)]' = [[j \in Imsis |-> SessionOf(j)] EXCEPT ![i] = None]
      <3>1. sgwCtx'[i] = None /\ \A j \in Imsis \ {i} : sgwCtx'[j] = sgwCtx[j]
        BY <1>0, <2>1 DEF TypeOK
      <3>2. Joint(i)' = None /\ \A j \in Imsis \ {i} : Joint(j)' = Joint(j)
        BY <1>3, <3>1 DEF Joint
      <3> QED BY <3>2, SessionsMove
    <2>5. Service!Withdraw
      BY <1>1, <1>2, <1>3, <2>2, <2>3, <2>4 DEF Service!Withdraw, Service!At
    <2> QED BY <2>5 DEF Service!Carry
  <1> QED BY <1>4, <1>5

(* The PGW-C has deleted its half, too: the deletion is done.              *)
LEMMA SgwcDeletedRefines ==
  ASSUME RInv, RInv', faults = 0, faults' = 0, SgwcDeleted
  PROVE  Service!Carry
  <1>0. TypeOK /\ InStep
    BY Plainly
  <1>1. PICK i \in Imsis : Returned(i) /\ mme.op = "delete"
    BY <1>0, Places DEF SgwcDeleted, InStep, Returned
  <1>2. mme.imsi = i /\ mme # MmeIdle /\ fromSgwc = <<>> /\ sgwCtx[i] = None
    BY <1>0, <1>1, Busy DEF Returned
  <1>3. UNCHANGED <<mme, bearer, sgwCtx, pgwCtx, upf, sgwDown, sgi>> /\ fromSgwc' = <<Bare>>
    BY <1>2, One DEF SgwcDeleted, mmeVars, pgwcVars, sxVars, routeVars
  <1>4. Stage = "asked" /\ Stage' = "done"
    BY <1>1, <1>2, <1>3, Stages, One DEF Stage
  <1>5. [j \in Imsis |-> SessionOf(j)]' = [j \in Imsis |-> SessionOf(j)]
    <2>1. \A j \in Imsis : Joint(j)' = Joint(j)
      BY <1>3 DEF Joint
    <2> QED BY <2>1, SessionsStay
  <1>6. SessionOf(i) = None
    BY <1>2 DEF SessionOf
  <1>7. Service!Confirm
    BY <1>1, <1>2, <1>3, <1>4, <1>5, <1>6 DEF Service!Confirm, Service!At
  <1> QED BY <1>7 DEF Service!Carry

(* The PGW-C's half is the first of a creation.  Its number is higher than *)
(* that of any session there is: the one the subscriber may have had is    *)
(* no longer whole, and SGi leads to the next.                             *)
LEMMA PgwcCreateRefines ==
  ASSUME RInv, RInv', faults = 0, faults' = 0, PgwcCreate
  PROVE  Service!Carry
  <1>0. TypeOK /\ InStep /\ Numbered /\ TeidsDrawn
    BY Plainly DEF RInv
  <1>1. PICK i \in Imsis :
            /\ PassedOn(i) /\ mme.op = "create" /\ Establish("pgw", "done")
            /\ pgwCtx' = [pgwCtx EXCEPT ![i] =
                   [seid |-> NextSeid("pgw"), teid |-> NextTeid("pgw"), sgw |-> sgwc.s5u,
                    ip |-> ueN]]
            /\ sgi' = sgwc.s5u /\ fromPgwc' = <<Answer(NextTeid("pgw"), ueN)>>
            /\ UNCHANGED <<mme, bearer, sgwc, sgwCtx, sgwDown, fromSgwc>>
    BY <1>0, PgwcCreateEffect
  <1>2. /\ mme.imsi = i /\ mme # MmeIdle /\ sgwc.op = "create"
        /\ fromSgwc = <<>> /\ fromPgwc = <<>>
    BY <1>0, <1>1, Busy DEF PassedOn
  <1>3. Stage = "asked" /\ Stage' = "prepared"
    BY <1>1, <1>2, Stages, One DEF Stage
  <1>4. upf'["sgw"] = upf["sgw"]
    BY <1>0, <1>1, Established, Numbers DEF Outcomes
  <1>5. sgi' = upf["sgw"].teid + 1 /\ NextTeid("pgw") = upf["sgw"].teid + 1
    <2>1. NextTeid("pgw") = upf["pgw"].teid + 1
      BY DEF NextTeid
    <2> QED BY <1>0, <1>1, <1>2, <2>1, Numbers DEF Numbered, Counters
  <1>6. [j \in Imsis |-> SessionOf(j)]' = [[j \in Imsis |-> SessionOf(j)] EXCEPT ![i] = None]
    <2>1. pgwCtx'[i].teid = NextTeid("pgw") /\ \A j \in Imsis \ {i} : pgwCtx'[j] = pgwCtx[j]
      BY <1>0, <1>1 DEF TypeOK
    <2>2. sgwCtx[i] # None => sgwCtx[i].s1u \in Nat /\ sgwCtx[i].s1u <= upf["sgw"].teid
      BY <1>0, Numbers DEF TeidsDrawn, SgwContexts
    <2>3. sgwCtx[i] # None => sgwCtx[i].s1u # pgwCtx'[i].teid
      BY <1>0, <1>5, <2>1, <2>2, Numbers
    <2>4. Joint(i)' = None
      BY <1>1, <2>3 DEF Joint
    <2>5. \A j \in Imsis \ {i} : Joint(j)' = Joint(j)
      BY <1>1, <2>1 DEF Joint
    <2> QED BY <2>4, <2>5, SessionsMove
  <1>7. Service!Prepare
    BY <1>1, <1>2, <1>3, <1>4, <1>5, <1>6 DEF Service!Prepare, Service!At
  <1> QED BY <1>7 DEF Service!Carry

(* A deletion by the PGW-C is of a half that was the only one.             *)
LEMMA PgwcDeleteRefines ==
  ASSUME RInv, RInv', faults = 0, faults' = 0, PgwcDelete
  PROVE  UNCHANGED Service!serviceVars
  <1>0. TypeOK /\ InStep
    BY Plainly
  <1>1. PICK i \in Imsis : PassedOn(i) /\ mme.op = "delete" /\ Head(toPgwc).imsi = i
    BY <1>0, ServedIsPassedOn DEF PgwcDelete
  <1>2. mme # MmeIdle /\ sgwc.op = "delete" /\ fromSgwc = <<>> /\ sgwCtx[i] = None
    BY <1>0, <1>1, Busy DEF PassedOn
  <1>3. UNCHANGED <<mme, bearer, sgwc, sgwCtx, sgwDown, sgi, fromSgwc>>
    BY DEF PgwcDelete, mmeVars, sgwcVars, routeVars
  <1>4. Stage' = Stage
    BY <1>2, <1>3 DEF Stage
  <1>5. upf'["sgw"] = upf["sgw"] /\ \A j \in Imsis \ {i} : pgwCtx'[j] = pgwCtx[j]
    <2>1. CASE pgwCtx[i] = None
      BY <1>1, <2>1 DEF PgwcDelete, sxVars
    <2>2. CASE pgwCtx[i] # None
      <3>1. PICK o \in Outcomes : /\ Release("pgw", pgwCtx[i].seid, o)
                                  /\ pgwCtx' = [pgwCtx EXCEPT ![i] = None]
        BY <1>1, <2>2, Zenon DEF PgwcDelete
      <3>2. pgwCtx[i].seid \in Nat
        BY <1>0, <2>2, Numbers DEF PgwContexts
      <3>3. upf'["sgw"] = upf["sgw"]
        BY <1>0, <3>1, <3>2, Released, Numbers
      <3> QED BY <1>0, <3>1, <3>3 DEF TypeOK
    <2> QED BY <2>1, <2>2
  <1>6. [j \in Imsis |-> SessionOf(j)]' = [j \in Imsis |-> SessionOf(j)]
    <2>1. \A j \in Imsis : Joint(j)' = Joint(j)
      BY <1>2, <1>3, <1>5 DEF Joint
    <2> QED BY <2>1, SessionsStay
  <1> QED BY <1>3, <1>4, <1>5, <1>6 DEF Service!serviceVars

(* After a fault, and in the step of the first, the MME may be told of the *)
(* session of another procedure, but of none that has not been granted.    *)
LEMMA MuddleRefines ==
  ASSUME RInv, RInv', [Next]_vars, faults' # 0
  PROVE  Service!Muddle
  <1>0. TypeOK /\ TeidsDrawn /\ faults' \in Nat
    <2>1. faults' \in 0..MaxFaults
      BY DEF RInv, TypeOK
    <2> QED BY <2>1, SetupAssumption DEF RInv
  <1>1. upf["sgw"].teid \in Nat /\ upf'["sgw"].teid \in Nat /\ upf["sgw"].teid <= upf'["sgw"].teid
    BY GrantsUp, Numbers DEF RInv, TypeOK
  <1>2. bearer \in [Imsis -> Answers]
    BY <1>0 DEF TypeOK
  <1>3. ASSUME NEW i \in Imsis
        PROVE  NumberOf(bearer'[i]) \in {NumberOf(bearer[i]), None} \cup 1..upf'["sgw"].teid
    <2>1. CASE bearer'[i] = bearer[i]
      BY <2>1
    <2>2. CASE MmeAnswered /\ bearer'[i] # bearer[i]
      <3>1. fromSgwc # <<>> /\ bearer'[i] = Head(fromSgwc)
        BY <1>2, <2>2 DEF MmeAnswered
      <3>2. Head(fromSgwc) \in Answers /\ Drawn(Head(fromSgwc))
        <4>1. fromSgwc \in Seq(Answers)
          BY <1>0 DEF TypeOK
        <4>2. 1 \in DOMAIN fromSgwc /\ Head(fromSgwc) = fromSgwc[1]
          BY <3>1, <4>1
        <4> QED BY <1>0, <3>1, <4>1, <4>2 DEF TeidsDrawn
      <3>3. bearer'[i] \in Answers /\ Drawn(bearer'[i])
        BY <3>1, <3>2
      <3>4. NumberOf(bearer'[i]) \in {None} \cup 1..upf["sgw"].teid
        BY <1>1, <3>3 DEF NumberOf, Answers, Drawn
      <3> QED BY <1>1, <3>4
    <2>3. CASE Start /\ bearer'[i] # bearer[i]
      <3>1. bearer'[i] = Bare
        BY <1>2, <2>3 DEF Start, StartCreate, StartModify, StartDelete
      <3> QED BY <3>1 DEF NumberOf, Bare, Answer
    <2>4. CASE MmeTimeout \/ Sgwc \/ Pgwc \/ Lose \/ UNCHANGED vars
      <3>1. bearer' = bearer
        BY <2>4, Zenon
        DEF MmeTimeout, Sgwc, SgwcCreate, SgwcCreated, SgwcModify, SgwcDelete, SgwcDeleted,
            SgwcTimeout, Pgwc, PgwcCreate, PgwcDelete, Lose, vars, mmeVars
      <3> QED BY <2>1, <3>1
    <2> QED BY <2>1, <2>2, <2>3, <2>4 DEF Next, Mme
  <1>4. \A i \in Imsis :
           [j \in Imsis |-> NumberOf(bearer[j])]'[i]
             \in {[j \in Imsis |-> NumberOf(bearer[j])][i], None} \cup 1..upf'["sgw"].teid
    BY <1>3
  <1> QED BY <1>0, <1>1, <1>4 DEF Service!Muddle

(* Every step is one of BearerService, or leaves its state alone.          *)
LEMMA NextRefines == RInv /\ RInv' /\ [Next]_vars => [Service!Next]_(Service!serviceVars)
  <1> SUFFICES ASSUME RInv, RInv', [Next]_vars PROVE [Service!Next]_(Service!serviceVars)
    OBVIOUS
  <1>1. CASE faults' # 0
    BY <1>1, MuddleRefines DEF Service!Next
  <1>2. CASE faults' = 0
    <2>1. TypeOK /\ faults = 0
      BY <1>2, Faultless DEF RInv
    <2>2. ~MmeTimeout /\ ~SgwcTimeout /\ ~Lose
      BY <1>2, <2>1, NoTimeout, Plainly
    <2>3. CASE Start
      BY <1>2, <2>1, <2>3, StartRefines DEF Service!Next
    <2>4. CASE MmeAnswered
      BY <1>2, <2>1, <2>4, MmeRefines DEF Service!Next
    <2>5. CASE SgwcCreate
      BY <1>2, <2>1, <2>5, SgwcCreateRefines
    <2>6. CASE SgwcCreated
      BY <1>2, <2>1, <2>6, SgwcCreatedRefines DEF Service!Next
    <2>7. CASE SgwcModify
      BY <1>2, <2>1, <2>7, SgwcModifyRefines DEF Service!Next
    <2>8. CASE SgwcDelete
      BY <1>2, <2>1, <2>8, SgwcDeleteRefines DEF Service!Next
    <2>9. CASE SgwcDeleted
      BY <1>2, <2>1, <2>9, SgwcDeletedRefines DEF Service!Next
    <2>10. CASE PgwcCreate
      BY <1>2, <2>1, <2>10, PgwcCreateRefines DEF Service!Next
    <2>11. CASE PgwcDelete
      BY <1>2, <2>1, <2>11, PgwcDeleteRefines
    <2>12. CASE UNCHANGED vars
      <3>1. UNCHANGED <<mme, bearer, sgwc, sgwCtx, pgwCtx, upf, sgwDown, sgi, fromSgwc, fromPgwc>>
        BY <2>12 DEF vars, mmeVars, sgwcVars, pgwcVars, sxVars, routeVars, netVars
      <3>2. Stage' = Stage
        BY <3>1 DEF Stage
      <3>3. [j \in Imsis |-> SessionOf(j)]' = [j \in Imsis |-> SessionOf(j)]
        <4>1. \A j \in Imsis : Joint(j)' = Joint(j)
          BY <3>1 DEF Joint
        <4> QED BY <1>2, <2>1, <4>1, SessionsStay
      <3> QED BY <1>2, <2>1, <3>1, <3>2, <3>3 DEF Service!serviceVars
    <2> QED
      BY <2>2, <2>3, <2>4, <2>5, <2>6, <2>7, <2>8, <2>9, <2>10, <2>11, <2>12
      DEF Next, Mme, Sgwc, Pgwc
  <1> QED BY <1>1, <1>2

LEMMA InitRefines == Init => Service!Init
  <1> SUFFICES ASSUME Init PROVE Service!Init
    OBVIOUS
  <1>1. Stage = "none" /\ \A i \in Imsis : SessionOf(i) = None /\ NumberOf(bearer[i]) = None
    BY DEF Init, Stage, SessionOf, NumberOf, Bare, Answer
  <1>2. mme = Service!Idle /\ upf["sgw"].teid = 0
    BY DEF Init, Service!Idle, MmeIdle, Nodes
  <1> QED BY <1>1, <1>2 DEF Init, Service!Init

(* To the MME, the SGW-C and all behind it are one gateway: without a      *)
(* fault it serves one procedure at a time, gives a subscriber the next    *)
(* session whole, links it, ends it and tells of it, and of no other; and  *)
(* whatever is lost or late, the MME is told of no session that was not    *)
(* granted.                                                                *)
THEOREM Refinement == Spec => Service!SafeSpec
  <1>1. Init => RInv
    BY InitIInv, InitRInv DEF IInv, RInv
  <1>2. IInv /\ RInv /\ [Next]_vars => RInv' /\ [Service!Next]_(Service!serviceVars)
    BY RInvStep, NextRefines
  <1> QED BY Invariant, InitRefines, <1>1, <1>2, PTL DEF Spec, Service!SafeSpec

=============================================================================
