---------------------------- MODULE SxInvariants ----------------------------
(***************************************************************************)
(* What holds in every state of Sx, in the form in which it is preserved   *)
(* by every step: the inductive invariants behind the invariants of Sx.    *)
(***************************************************************************)
EXTENDS Sx

SessionOps == {"establish", "modify", "delete"}

(* A CPF has at most one message in flight under a tag, going or coming. *)
OneInFlight ==
    /\ \A m, n \in requests : m.cpf = n.cpf /\ m.tag = n.tag => m = n
    /\ \A m, n \in replies : m.cpf = n.cpf /\ m.tag = n.tag => m = n
    /\ \A m \in requests, n \in replies : ~ (m.cpf = n.cpf /\ m.tag = n.tag)

(* A message awaited by a thread belongs to the procedure it is running. *)
AwaitedByCaller ==
    /\ \A m \in requests : m.tag \in Threads =>
          LET k == call[m.cpf][m.tag] IN
              k.op = m.op /\ k.upf = m.upf /\ k.seid = m.seid /\ k.answer = "pending"
    /\ \A m \in replies : m.tag \in Threads =>
          LET k == call[m.cpf][m.tag] IN
              k.op \in Ops /\ k.upf = m.upf /\ k.answer = "pending"

(* What is about a session is about one of its own CPF, on the UPF where   *)
(* the CPF has put it.                                                     *)
AtHome ==
    /\ \A c \in CPFs, t \in Threads : call[c][t].op \in SessionOps =>
          LET s == call[c][t].seid IN
              s \in Seids /\ s[1] = c /\ cpSess[s].upf = call[c][t].upf
    /\ \A m \in requests : m.op \in SessionOps =>
          m.seid \in Seids /\ m.seid[1] = m.cpf /\ cpSess[m.seid].upf = m.upf
    /\ \A u \in UPFs, s \in Seids : Installed(u, s) => cpSess[s].upf = u

(* A session not yet created appears nowhere. *)
Uncreated ==
    \A s \in Seids : s[2] > created[s[1]] =>
        /\ s \notin cpStore /\ cpSess[s].fteid = 0
        /\ \A u \in UPFs : ~ Installed(u, s)
        /\ \A m \in requests : m.seid # s
        /\ \A c \in CPFs, t \in Threads : call[c][t].seid # s

(* A session is established by one thread, which created it, and once:     *)
(* until the UPF serves the request it has no F-TEID anywhere.             *)
EstablishOnce ==
    /\ \A c \in CPFs, t \in Threads : call[c][t].op = "establish" =>
          /\ cpSess[call[c][t].seid].fteid = 0
          /\ \A x \in Threads :
                call[c][x].op = "establish" /\ call[c][x].seid = call[c][t].seid => x = t
    /\ \A m \in requests : m.op = "establish" =>
          /\ cpSess[m.seid].fteid = 0
          /\ \A u \in UPFs : ~ Installed(u, m.seid)
          /\ \A n \in requests : n.op = "establish" /\ n.seid = m.seid => n = m
          /\ \A t \in Threads :
                call[m.cpf][t].op = "establish" /\ call[m.cpf][t].seid = m.seid
                    => m.tag = t \/ call[m.cpf][t].answer = "timeout"

(* The F-TEIDs that session s has had from UPF u and that still stand: at  *)
(* the UPF, in the answer to the establishment, in the slot of the thread  *)
(* that waits for it, and with the CPF.                                    *)
Held(u, s) ==
    LET establishes(k) == k.op = "establish" /\ k.seid = s
        answers == {m \in replies : m.tag \in Threads /\ m.upf = u
                                        /\ establishes(call[m.cpf][m.tag])}
        slots == {k \in {call[s[1]][t] : t \in Threads} :
                     establishes(k) /\ k.upf = u /\ k.answer = "accepted"}
        sessions == {x \in {cpSess[s]} : x.upf = u /\ x.fteid # 0}
    IN  {x.fteid : x \in ({upSess[u][s]} \ {NoSession}) \cup answers \cup slots \cup sessions}

(* Wherever an F-TEID of an installed session stands, it is the same.      *)
FteidCarried ==
    \A u \in UPFs, s \in Seids : Installed(u, s) => Held(u, s) = {upSess[u][s].fteid}

(* The rules in a request are among those the CPF has for the session. *)
RulesSent ==
    \A m \in requests : m.op \in {"establish", "modify"} => m.pdrs \subseteq cpSess[m.seid].pdrs

IInv ==
    /\ TypeOK
    /\ OneInFlight
    /\ AwaitedByCaller
    /\ AtHome
    /\ Uncreated
    /\ EstablishOnce
    /\ FteidCarried
    /\ RulesSent
    /\ RulesKnown

---------------------------------------------------------------------------
(* While no UPF restarts. *)

(* The F-TEIDs that stand anywhere were drawn, each for one session.       *)
FteidsDrawn ==
    \A u \in UPFs, s1, s2 \in Seids :
        Held(u, s1) \subseteq 1 .. teid[u] /\ (s1 # s2 => Held(u, s1) \cap Held(u, s2) = {})

---------------------------------------------------------------------------
(* While every message is served before its thread gives up on it. *)

(* The UPF has accepted the establishment of s, as the CPF knows or is     *)
(* about to know.                                                          *)
Accepted(s) ==
    \/ cpSess[s].fteid # 0
    \/ \E t \in Threads :
          /\ call[s[1]][t].op = "establish" /\ call[s[1]][t].seid = s
          /\ \/ call[s[1]][t].answer = "accepted"
             \/ \E n \in replies : Mine(n, s[1], t)

(* One CPF: an accepted session is there, or a thread is taking it away.   *)
AcceptedThere ==
    \A s \in Seids : s \in cpStore /\ Accepted(s) /\ ~ Leaving(s) => Installed(cpSess[s].upf, s)

(* Timers release and nothing else. *)
TimersRelease ==
    \A c \in CPFs, t \in Timers : call[c][t].op \in {"idle", "armed", "release"}

(* One worker to a CPF: the UPF has the rules of the CPF but for those of  *)
(* a request that is on its way.                                           *)
RulesInStep ==
    /\ \A m \in requests : m.op = "establish" => cpSess[m.seid].pdrs = m.pdrs
    /\ \A u \in UPFs, s \in Seids : Installed(u, s) =>
          \/ cpSess[s].pdrs = upSess[u][s].pdrs
          \/ \E m \in requests :
                /\ m.op = "modify" /\ m.seid = s
                /\ cpSess[s].pdrs = upSess[u][s].pdrs \cup m.pdrs

(* A thread that waits has a message on its way. *)
AnswerComing ==
    \A c \in CPFs, t \in Threads :
        call[c][t].op \in Ops /\ call[c][t].answer = "pending" => InFlight(c, t)

(* No service changes: no update is sent and no guard timer started.       *)
TimersIdle == updates = {} /\ \A c \in CPFs, t \in Timers : call[c][t].op = "idle"

(* One worker to a CPF and no service changes: a UPF has only sessions     *)
(* that their CPF has, and once it has answered a deletion or a release    *)
(* not even those.                                                         *)
Served(c, t) == call[c][t].answer # "pending" \/ \E n \in replies : Mine(n, c, t)

Kept ==
    /\ \A u \in UPFs, s \in Seids : Installed(u, s) => s \in cpStore
    /\ \A c \in CPFs, t \in Threads :
          /\ call[c][t].op = "establish" =>
                call[c][t].seid \in cpStore /\ call[c][t].answer \in {"pending", "accepted"}
          /\ call[c][t].op = "delete" /\ Served(c, t) =>
                \A u \in UPFs : ~ Installed(u, call[c][t].seid)
          /\ call[c][t].op = "release" /\ Served(c, t) =>
                \A s \in Seids : s[1] = c => ~ Installed(call[c][t].upf, s)
    /\ \A m \in requests : m.op = "establish" => m.seid \in cpStore
    /\ \A m \in replies : m.tag \in Threads /\ call[m.cpf][m.tag].op = "establish" =>
          m.cause = "accepted"
=============================================================================
