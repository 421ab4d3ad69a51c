# Formal models of vEPC_CUPS

TLA+ models, TLC runs and TLAPS proofs for the CUPS virtual EPC in `src/`: the
control-plane functions (CPF: SGW-C, PGW-C), the user-plane functions (UPF: SGW-U,
PGW-U), and the nodes around them. The reference is always the code; line numbers in
`PROJECT.json` ("map") say which lines each definition stands for.

    tlc -workers 2 -config SxShared.cfg MCSx.tla      # one run
    tlapm AttachProofs.tla                            # the proofs of one module

## 1. Inventory

Every node is one process. It has one thread per UDP socket (`network/udp_server.py`),
which calls a handler per datagram, swallows its exceptions and sends what it returns;
plus timer threads. There is no shared memory between nodes and nothing is persisted but
the subscriber database.

| component | state | operations | talks to | what is hard | what makes it correct |
|---|---|---|---|---|---|
| PFCP transactions (`core/cpf.py` 59-128, 179-187) | `seq`, `pending`: number -> [Event, Message] | `_next_seq`, `_send`, response branch of `handle`, `_heartbeat_loop` | UPF over UDP | blocking calls on several threads, filled by one receive thread; late and lost answers; wrap-around | an answer reaches its own call or nobody; no slot is left behind; every call returns |
| CPF procedures (`core/cpf.py` 131-330) | `Peer.associated`, session store, guard timers | association setup / release / update, session establish / modify / delete, reports, control commands | UPF (PFCP), SGW-C / PGW-C code, control socket | state changes before and after a blocking call; guard timers; control thread against receive thread | CPF and UPF agree on which sessions exist, on their F-TEIDs and their rules |
| UPF procedures (`core/upf.py`) | `Peer.associated`, session store, F-TEID pool, `user_plane_service` | the PFCP handlers, `set_admin_state`, `report` | CPFs | shared by several CPFs; restarts with an empty store | no F-TEID twice; sessions of other CPFs untouched |
| sessions and rules (`sxcups/`) | PDR/FAR/QER/URR tables, usage, buffer | `add_rules`, `remove`, `classify`, `apply`, PFCP encoding | CPF, UPF | rules lose fields on the way; both sides keep a copy | the rule the CPF meant is the one the UPF applies |
| UDP (`network/`) | sockets | receive loop, `request` | everything | a reply after its time-out stays in the socket | a reply answers its own request |
| MME, UE, eNB (`core/mme.py`, `ue.py`, `enb.py`) | UE contexts, NAS state, radio tables | attach, authentication, detach, S1AP / NAS relay | HSS, SGW-C, each other | handlers that block on S11 and S6a; crossing messages | attach ends in a registered UE with a working bearer or in none |
| SGW-C, PGW-C, PCRF (`core/epc_sgw_c.py`, `epc_pgw_c.py`, `pcrf.py`) | bearer contexts, address pool, Gx sessions | create / modify / delete session, CCR | MME, UPFs through CPF | chains of calls that fail half-way; repeated attach | no context, address or Gx session without an owner |
| HSS (`core/hss.py`) | subscribers, vector counter | AIR, ULR (no node sends it) | MME | vectors in groups of groups | only a subscriber is given vectors |
| GTP-U relay, PDN (`core/gtpu.py`, `pdn.py`) | TEID routes, SGi uplink | add route, forward | CPFs configure it through control commands | one uplink for all, routes never removed | a packet leaves by its own bearer |
| codecs (`protocols/`) | none | encode, decode | all | lengths, padding, odd digits, widths | what is decoded is what was meant |
| drivers, tools (`run_*.py`, `capture_pfcp.py`, `webdash.py`, `simulators/`) | - | start nodes, send commands | control sockets | - | - |

## 2. Plan

Ordered by how much of the system's behaviour hangs on the part. All items are done.

1. `Rpc`, `PfcpTransaction` (+ proofs): the blocking call and its abstract promise.
2. `Sx` (+ proofs): CPF and UPF procedures over a lossy network.
3. `SessionSetup` (+ proofs): the create / modify / delete chain over S11 and S5-C, with
   contexts, addresses, routes, and replies that outlive their time-out.
4. `Attach` (+ proofs): UE, eNB, MME and HSS: NAS and S1AP, crossing attach and detach, lost
   and late messages; `Registration`, the abstract promise to a UE that it implements.
5. `Bytes`, the codecs and `Rules`: what messages and rules become on the wire.
6. `Gtpu`, `SxNodes`, `Core`, `Wire`: the nodes composed over those bytes, with the packets
   through the relays.
7. `SxInvariants` and its proofs: the invariants of `Sx` for all constants.
8. `AttachPromiseProofs`: the refinement of `Registration` by `Attach`.
9. `Lockstep` in `SessionSetupProofs`: what the chain promises while nothing is lost or late.
10. `AttachSettledProofs`: `Settled` for `Attach`.
11. `BearerService`, the abstract promise behind S11, and its refinement by `SessionSetup`.

Faults and interleaving on the one hand and bytes on the other are modelled apart: `Sx`,
`SessionSetup` and `Attach` carry messages as records and split every step at which another
thread or a fault may come in between; `Wire` carries what the encoders make of them and
runs every handler to its end.

## 3. Modules

| module | role |
|---|---|
| `Rpc` | what a caller of `_request` is promised: its own answer or none, after at most one execution |
| `PfcpTransaction` | the detailed machinery, one step per shared access; refines `Rpc` |
| `MCPfcpTransaction` | the instance TLC checks |
| `PfcpTransactionProofs` | inductive invariant, safety theorems, refinement |
| `Sx` | CPFs, UPFs and the network between them |
| `MCSx` | the instances TLC checks |
| `SxInvariants` | the inductive invariants behind the invariants of `Sx` |
| `SxProofs` | type correctness for all constants |
| `SxSafetyProofs` | the inductive invariant, `FteidAgreement` and `RulesKnown` for all constants |
| `SxConditionProofs` | `FteidExclusive`, `NoGhost`, `RulesAgree` and `NoOrphan`, each under its conditions |
| `BearerService` | what the SGW-C and all behind it promise an MME: one gateway, one procedure at a time, the n-th session everywhere |
| `SessionSetup` | MME (S11 side), SGW-C, PGW-C, their UPFs' stores and routes, and the sockets between them; implements `BearerService` |
| `MCSessionSetup` | the instances TLC checks |
| `SessionSetupProofs` | type correctness, `ContextBacked`, `AddressExclusive`, `ContextsAgree`, `BearerWorks` and the refinement of `BearerService` for all constants |
| `Registration` | what the network promises a UE: an answer for each question at most, and with it the address of a later grant, fresh or the default |
| `Attach` | UE, eNB, MME and HSS with their sockets, the SGW-C and the answers it takes from the PGW-C; implements `Registration` |
| `MCAttach` | the instances TLC checks |
| `AttachProofs` | type correctness and `SessionsVerified` for all constants |
| `AttachPromiseProofs` | `InOrder` and the refinement of `Registration` for all constants |
| `AttachSettledProofs` | `Settled` for any number of commands |
| `Bytes` | `struct`, slices, and lists of type, length and value |
| `Pfcp`, `GtpC`, `Diameter`, `Nas`, `S1ap` | the codecs of `protocols/`, one module each |
| `Gtpu` | the G-PDU and the relay of `core/gtpu.py` |
| `Rules` | PDRs and FARs, their PFCP form, and the session that applies them |
| `SxNodes` | the session procedures of CPF and UPF over PFCP |
| `Core` | HSS, PCRF, PGW-C and SGW-C over Diameter, GTP-C and PFCP |
| `Wire` | UE, eNB and MME over NAS and S1AP in front of `Core`, and the user plane |
| `MCWire` | the instance TLC checks |

`PfcpTransaction`. A member of `Calls` is one execution of `_send` and names its slot;
`Beats` are heartbeats, which take numbers but wait for nothing. `Alloc`, `Insert`,
`Transmit`, `Wake` / `Timeout` and `Pop` are lines 83, 89, 90, 91 and 92. `Receive`,
`Fill`, `Signal` are lines 124, 126 and 127 on the receive thread: a call can time out
between any two of them. `Live` and `Fresh` state the one timing assumption: 2^24
requests are not sent within the life of a datagram or a wait.

`Sx` takes the result of `PfcpTransaction` as given (a call is handed its own answer or
none), so a message carries the thread that waits for it and no number. Each procedure of
the CPF is a `Start` action (everything up to `ev.wait`) and an `End` action (everything
after), with any other thread's steps between. A time-out is `TimeoutLost` (nothing of the
call is in flight any more) or `TimeoutLate`: the message lives on under a tag of
`Strays`, which no thread waits for. `call[c][t]` is the program counter and the locals
of a thread; an armed guard timer is a thread too. `cpSess` holds the Session objects and
outlives `cpStore`, since `session_establish` writes to its object after others may have
deleted it. A restart of a UPF re-runs `__init__`. Sequence numbers, IEs, addresses, FARs,
QERs and URRs, PFD management (stateless on both sides) and `remove_pdr_ids` (no caller
passes any) are left out; F-TEIDs are counted from 1 instead of 0x10000.

`SessionSetup` composes the controllers. Each node serves one request at a time: `toSgwc` and
`toPgwc` are the server sockets of SGW-C and PGW-C, `fromSgwc` and `fromPgwc` the client
sockets of MME and SGW-C, in FIFO order. `UDPClient.request` takes whatever datagram comes
first, so an answer carries no trace of its request. `SgwcCreate` is `_create_session` up to
the S5-C request, `SgwcCreated` or `SgwcTimeout` the rest; `SgwcDelete` pops the context,
deletes the Sx session and asks, `SgwcDeleted` answers; the PGW-C's handlers are one step
each, since nobody else touches its state while it waits. An Sx procedure is one step with
three outcomes: done, not served, or served but not heard. A relay command is served or lost.
`faults` counts losses and time-outs that come before their answer; time-outs whose answer
cannot come any more are free. Left out: Gx (the PGW-C ignores a missing answer), QoS,
association management and restarts (see `Sx`).

`BearerService` is the same without nodes, sockets, UPFs and routes: a subscriber has a session,
which is a number, or none. `SessionSetup` implements it with `SessionOf`: there is a session
when both contexts, both routes and both Sx sessions are there and all that was drawn for it
(three TEIDs and the address, from a counter each on four nodes) is the n-th. `NumberOf` is what
the MME believes. The PGW-C's creation is `Prepare`: from then on a session from before is no
longer whole, and the packets from the PDN go to the new one; the SGW-C's is `Grant`. `Muddle`
says how little is left after a fault (finding 4): the MME may be told of somebody else's
session, but not of one that was never granted.

`Attach` opens what `SessionSetup` takes for granted: whence the S11 requests come. The UE's
control thread and its NAS handler are two threads (`attach` notes, then sends; `detach`
sends, then notes); the eNB relays, and sends the Attach Accept before it answers the MME
(`EnbSetsUp`, `EnbConfirms`); the MME has one S1AP thread, whose wait for the HSS or
the SGW-C is the variable `mme`. A message is its type and the number of a vector or a session;
the S1AP message that carries NAS is one with it. The eNB has room for one UE and the MME a
context per eNB UE id, so there is one UE, and ids and IMSIs are left out. `sessions` and
`verified` count; `verified` is history, and the number of a session names its TEID.

The SGW-C serves a request in one step, as its only S11 thread does while nobody else reads or
writes its contexts, but with every outcome of `_create_session`. The PGW-C confirms with the
next address of its pool (`addresses`), rejects without one, or does not answer; the answer may
come after the time-out and is then left in the S5-C socket (`s5`), where the next creation or
deletion takes it for its own. The SGW-C looks for an address in what it takes and never at the
Cause: without one it creates the session all the same, with 10.10.0.2 (`First`), and it
refuses only when nothing came or its own Sx session failed. `given` has the address of each
session. So what the model says of addresses is what a PGW-C that rejects, and a UE that is
handed 10.10.0.2 again, make of it. The PGW-C draws an address before it asks its UPF, so
rejected ones are used up; the request may also be lost before it draws.

`Wire` is the same system in bytes. Each codec module has the encoder and the decoder of one
file of `protocols/` for the messages in use, and each handler decodes what the other side has
encoded (`Received` is the one after the other), so nothing is known of a message but its
bytes. Sockets of NAS and S1AP are queues, packets are a set. Every handler runs to its end in
one step, with all the calls and sends it makes: what may come between the two sends of the
eNB's set-up, or into a wait of the MME, is `Attach`'s. Simplifications: SEID bases and the eNB's TEID 0xE0000001 are shortened to
TLC's 31 bits; names of hosts and realms in Diameter count by their lengths; a digest is a sum
that tells its inputs apart; usage, buffers and statistics are left out. `Host`, which names
the node behind an address, stands for the network. That a PFCP type 42 is both Destination
Interface and Volume Measurement in `pfcp.py` is kept: a received FAR's destination is never
read.

## 4. Runs

| run | instance | shows |
|---|---|---|
| `PfcpTransaction.cfg` | 3 calls, 1 heartbeat, 3 sequence numbers | `TypeOK`, `Correlation`, `WokenWithAnswer`, `PendingExact`; `CallsReturn`; `ImplementsRpc` (with fairness) |
| `SxConcurrent.cfg` | 1 CPF, 2 command threads, 1 guard timer, 2 sessions, service goes down, no loss | `NoGhost`, `GuardReleases` |
| `SxLossy.cfg` | 1 CPF, 1 command thread, 1 timer, 1 stray, 2 sessions, modification, loss, 1 restart | `TypeOK`, `FteidAgreement`, `RulesKnown`, and `IInv`, the inductive invariant |
| `SxShared.cfg` | 2 CPFs, 1 command thread each, 2 sessions each, modification, no loss | `FteidExclusive`, `NoOrphan`, `RulesAgree` |
| `SxReleaseSparesOthers.cfg` | 2 CPFs, 1 session each | violated, finding 1 |
| `SessionSetup.cfg` | 2 subscribers, 4 procedures, 2 faults | `TypeOK`, `ContextBacked`, `AddressExclusive`, `S11Returns`; `ContextsAgree`, `BearerWorks` while there is no fault; `ImplementsService` (with fairness) |
| `SessionDetachClears.cfg` | 3 procedures, no fault | violated, finding 2 |
| `SessionRejectedMeansNone.cfg` | 2 procedures, 1 fault | violated, finding 3 |
| `SessionOwnBearer.cfg` | 3 procedures, 1 fault | violated, finding 4 |
| `Attach.cfg` | 3 commands, 1 fault, UE known or not | `TypeOK`, `SessionsVerified`, `InOrder`; `Settled` while there is no fault; `AttachAnswered`, `ImplementsRegistration` (with fairness) |
| `AttachDetachEnds.cfg` | 2 commands, no fault | violated, finding 5 |
| `Wire.cfg` | identities of 15 and 14 digits, known or not, 3 policies, 1 payload, 2 commands out of attach, detach and modify | `TypeOK`, `IdentityKept`, `BearerKept`, `RulesKept`, `Echoed`, `LateNotServed`, `UplinkAnswered`, `AttachTold` |

Bounds. Three calls are two that collide on a wrapped number and a third whose late answer
may hit either. With three numbers and four requests the counter wraps. Two sessions on one
UPF are enough for one to be released, deleted or late while the other is established; one
stray lets one late message cross a whole later procedure. `MaxReports` and one admin change
in flight per UPF bound messages that change no session twice. A run may stop when all
sessions and calls are used up, so `PfcpTransaction.cfg` switches deadlock checking off; in
`Sx` commands and reports stay possible and it stays on. In `SessionSetup` four procedures are
two attaches, a detach and a repeated attach in any order, or one subscriber's late answer
crossing three procedures of another; two faults are one to be late and one to be lost. The
system stops when the procedures are used up: deadlock checking is off. Five procedures with
two faults (1.4 million states) hold as well.

In `Attach` three commands let an attach, a detach and a second attach cross in any order, and
a UE attach three times. One fault is enough for what is hard in it: one rejection hands
10.10.0.2 to a UE that had it before, and one answer late on S5-C is taken by the next request,
whose own is taken by the one after. Two faults (728774 states) hold as well, and the proofs
are for any number. In `Wire` two commands are an attach crossing another or a detach, or a
modification at either controller on top of an attach; a first packet may be sent at any time.
Of the policies one has rates that two bytes hold once they are divided by 1000 (one of them
also as it is), the other one that does not fit even then; the third is the default. After an
attach there is room for one modification, so `RulesKept` sees the establishment and PDR 9
(precedence 50) put before PDR 1 (100); no two PDRs of a direction have one precedence, since
no caller adds such. It does not compare where a FAR leads, which a UPF does not read, and
`BearerKept` compares rates at SGW-C and PGW-C only: UE and eNB are told them divided by 1000
and keep none. Its properties that something comes are stated of the states where all is quiet:
decoding bytes is too slow for TLC to evaluate fairness, which `Attach` has. Both systems stop
when the commands are used up: deadlock checking is off.

Where a property is stated only for some runs, the others really violate it; TLC shows:
- `NoGhost` fails once releases may be lost or late, or a UPF restarts: the CPF is not told.
- `NoOrphan` fails with operator updates: an Association Update handled by a CPF whose
  association is not yet, or no longer, in place drops the sessions and starts no timer
  (cpf.py:173-177). It also fails with two command threads (a release that races an
  establishment) and, of course, when messages are lost.
- `RulesAgree` fails with two command threads: a modification can overtake the
  establishment of its session.
- `FteidExclusive` fails across a restart of the UPF, whose pool starts again.

Fairness. `PfcpTransaction`: a thread inside `_send` keeps running and its wait is bounded
by 3.0 s; nothing is assumed of the network. `Sx` (`FairSpec`): receive loops keep reading,
every queued datagram is eventually handled (sockets are FIFO, hence one condition per tag,
not one for the whole set), a thread that has its answer, or whose message is gone, goes on,
and a guard timer expires. No operator has to act. `SessionSetup`: the threads of MME, SGW-C
and PGW-C go on when they can, since every wait has a time-out; the network may lose what
`faults` allows. That is enough for `WF` on `Carry` of `BearerService`, which is enabled only
while nothing is lost or late. `Attach`: the threads of UE, eNB, MME, HSS and SGW-C go on, the network may
lose, and the user need not give a command.

## 5. Findings

1. `upf.py:148`: an Association Release removes the sessions of every CPF; `cpf.py:4-5`
   says a UPF may be shared by several.
2. `epc_sgw_c.py:121`, `epc_pgw_c.py:138`: a repeated attach replaces the contexts; the Sx
   sessions of the first stay in both UPFs for good. README.md:273 promises their deletion.
3. `epc_sgw_c.py:104`: the SGW-C does not read the Cause. A rejected creation is confirmed,
   with TEID 0 and the address 10.10.0.2, which is the first subscriber's.
4. `udp_client.py:25`: a late reply is taken for the next one; a subscriber is given the
   bearer of another, and all later replies are off by one.
5. `ue.py:71`: the answer to a detach may be handled between the request and the note that it
   was sent; the UE then stays in DETACH_SENT.

Read off the code while modelling, without a run: the MME divides the rates by 1000 before it
tells UE and eNB (`mme.py:206`, `mme.py:211`), though the PCRF that authorizes them
(`pcrf.py:80`), the HSS (`hss.py:26`) and both fields (`nas.py:57`, `s1ap.py:47`) have them in
kbps, so that 500 becomes 0; reports look up the UPF's own address and go to the first
configured CPF (`upf.py:245`); an update that says the service is up again drops the sessions
as one that says it is down (`cpf.py:170`); every challenge is vector 0, as `vec_counter` is
not used (`hss.py:126`); rates that need more than two bytes even when divided by 1000 raise in
the MME after the session has been created, and the UE hears nothing (`mme.py:206`, the
precondition of `AttachTold`); a GTP-U length counts the header in the encoder and half of it
in the decoder, which a slice cuts right (`gtp.py:23`, `Echoed`).

## 6. Proofs

`PfcpTransactionProofs`, for any sets of calls and heartbeats and any number of sequence
numbers: `IInv` is inductive, hence `TypeCorrect`, `CorrelationHolds`, `PendingExactHolds`,
`WokenWithAnswerHolds`. `Correlation` alone is not inductive: it needs that live numbers are
distinct (`DistinctNumbers`), that what the receive thread has in hand belongs to the slot it
looked up (`RxOwnSlot`), that a slot holds only its own answer (`SlotOwnAnswer`) and that the
table is exact. `Refinement`: every step is a step of `Rpc` or leaves its state alone; it also
needs `ExecutedOnce`. `WF` on `Return` is left to TLC (`ImplementsRpc`).

`SxProofs`: `TypeCorrect`, for any numbers of CPFs, UPFs, threads, timers and sessions. More
than types: a session in a store and a thread that is not idle have a UPF, an installed
session has an F-TEID and only known PDRs.

`SxSafetyProofs`, for any constants: `Invariant` proves `IInv` of `SxInvariants`. The F-TEID
of a session passes from the UPF's store through the response and the slot of the waiting
thread to the Session object, while the session may be released, deleted or lost with its
UPF; `FteidCarried` says that wherever it stands (`Held`) it is the one installed. For that a
response must be the answer to the establishment its thread waits for (`OneInFlight`,
`AwaitedByCaller`: late messages have become strays), an establishment must be the only one
of its session and unserved (`EstablishOnce`, `Uncreated`), and all that is about a session
must be about one UPF (`AtHome`). Hence `FteidAgreementHolds`; and `RulesKnownHolds`, since
no request carries a rule the CPF has not recorded (`RulesSent`). The proof first reduces the
steps to fourteen kinds (`StepKinds`), says what each does field by field (`...Effect`), and
then has a step per kind for every part of the invariant.

`SxConditionProofs` proves the invariants that need conditions (section 4 says what breaks
each without them). The conditions are assumptions of the theorem, not of the module:

| theorem | conditions | free | argument |
|---|---|---|---|
| `FteidExclusiveHolds` | no UPF restarts | CPFs, threads, network | `FteidsDrawn`: what is held was drawn, once |
| `NoGhostHolds` | one CPF, no restarts, no late messages | threads, timers, updates, loss | `AcceptedThere`: what the UPF has accepted is there unless a thread waits for its removal |
| `RulesAgreeHolds` | one command thread to a CPF, no loss, no late messages | CPFs, timers, updates, restarts | `RulesInStep`: the sides differ by one modification on its way at most |
| `NoOrphanHolds` | as before, and no service changes | CPFs, restarts | `Kept`: stores contain what UPFs have, and answered removals are done |

A late message is one whose thread has given up before it was served (`Strays`): no part of
the code prevents it. One command thread is how an operator works who waits for each
command to end; one CPF to a UPF and unchanged services are deployments. `NoGhostHolds` and
`NoOrphanHolds` cover more than their runs: loss, and restarts.

`SessionSetupProofs`, for any subscribers, procedures and faults: `TypeCorrect`,
`ContextBackedHolds`, `AddressExclusiveHolds`. Neither of the last two is inductive: a fresh
SEID, TEID or address differs from those in use because all of those have been drawn
(`SgwDrawn`, `PgwDrawn`) and the counters only go up. The proof works on the two halves
(`SgwStep`, `PgwStep`) that the nodes change separately.

Its second part, for any subscribers and procedures and as long as there is no fault, proves
`ContextsAgreeHolds` and `BearerWorksHolds` from `Lockstep`. Neither is inductive, because
nothing in a message or a socket ties an answer to its request (`OwnBearer` is violated for
that reason). What does it instead, while every answer comes in time, is that the three nodes
go in step: one procedure is under way, for one subscriber, and it is asked, passed on,
returned or answered (`Phase`, `Places`); all others have contexts that agree, of which the MME
has been told (`Others`), and whose routes are there (`RoutesThere`). There is a step for each
action, and `NoTimeout` says that no node gives up. `RoutedOnce`, that an S1-U TEID is routed
once, needs no such condition.

Its third part, for any subscribers, procedures and faults, proves `Refinement`, that
`SessionSetup` implements the safety part of `BearerService`. `Lockstep` is not enough for it:
`Numbered` says that the S5-U TEIDs, S1-U TEIDs, PGW-U TEIDs and addresses go round in step,
though each is drawn by another node at another stage of a procedure (`Counters`), so that the
two contexts of a subscriber name one session. `TeidsDrawn`, which holds whatever is lost, says
that the S1-U TEIDs of contexts and answers have been drawn; hence the session a creation
prepares is newer than any there is, and `Muddle` is all that a fault leaves. With these
`SessionOf` comes down to `Joint`, the number of the two halves, and a step to what it does to
one of them; `...Refines` says for each action which step of `BearerService` it is, or that it
is none (`SgwcCreate` and `PgwcDelete`: before the first half is there, after it is gone).

`AttachProofs`, for any numbers of commands and faults: `TypeCorrect` says that a message has
the value its handler reads, split into truth values, values, radio sockets and core sockets,
each kept by every step. `SessionsVerifiedHolds`: `SessionsVerified` is not inductive, since a
session is created long after its RES was checked. `Paid` is: sessions, plus Security Mode
Commands and Completes and creation requests on their way, are no more than verified RES.
`OnTheWay` counts them with `Occurs`, and the lemmas `OccursAppend`, `OccursTail` and
`OccursMoves` say how a count changes as a socket does.

`AttachPromiseProofs`, for the same: `Refinement`, that `Attach` implements the safety part of
`Registration`. Two things make it hold. What is open and closing must be counted right:
`Open` and `Closing` are what a thread is in the middle of and what is on the `Way`; the
lemmas `WayOf...` say what a handler puts on the way and takes off it, for any types of
messages, and `...Counts` that the two tallies change as an action of `Registration` wants
(`Count` is reduced to `Occurs`). And the UE must never be handed an address from before, but for the default: `InOrder`, which
is inductive and a property of its own (`AddressesInOrder`), has two halves. `OfferedInOrder`
says that the sessions in the answers of the SGW-C, in the eNB's socket and in the UE's rise
from the UE to the SGW-C. `GivenInOrder` says that each session has an address above those of
all before it or is one with 10.10.0.2, and that what is left in the S5-C socket is above all
that was given, so that a late answer taken for another's is fresh all the same. A lost answer
is a step `GiveUp`, so nothing is assumed of the network.

`AttachSettledProofs`, for any number of commands and as long as there is no fault:
`SettledHolds`. `Settled` speaks of quiet states only; `InPace` says what leads there. The
sockets on the way down are queues, so what counts in them is the last word of a kind: `After`
and `Final` are what the reader will believe once it has read one socket, or two in a row, and
`FinalMoves` says that passing a message on does not change it and reading it makes it the
reader's own. The MME says the word when the SGW-C has answered, so the last word is of the
session there is (`BearerFollows`, `AddressFollows`), except while the MME holds the answer
back (`Told`). The UE's state is not so simple, because `attach` and `detach` write it too:
it may lag behind as long as an attach is on its way (`Coming`), and `StateFollows` needs that
such an attach ends in an accept. That is why the invariant has `Waits` (no answer is late, so
no wait times out) and `Challenges` (a known UE's RES is right, even when attaches cross: the
HSS hands out the same vector every time, `Vector`).

Assumptions: the ASSUMEs of the modules, evaluated by TLC in every run. Liveness
(`CallsReturn`, `GuardReleases`, `S11Returns`, `AttachAnswered`) and the fairness half of
`ImplementsRpc`, `ImplementsRegistration` and `ImplementsService` are only model-checked; so is
all of `Wire`, whose properties are about recursive decoders over data.

## 7. Not modelled

- Logging, database access, drivers and tools (`run_*.py`, `simulators/`, `capture_pfcp.py`,
  `webdash.py`): I/O without behaviour of their own.
- PFD management (changes no state), Update-Location (`HSS._ul`: no node sends it, and it
  changes no state), the PGW-C's modification handler and `remove_pdr_ids` (no caller),
  `set_policy` and `add_subscriber` after the start (no caller in the tree).
- Usage counts, buffers and URR reports of a session (`forward`, `reporting.py`): read by a
  report's log line only; GTP-U statistics.
- Crash and restart of nodes other than UPFs: they start empty like a UPF, and no code takes
  notice.
- The messages of associations, reports, heartbeats and echo in bytes; `Sx` has them as
  records.

Hazards without a property, and why, are in `PROJECT.json`.
