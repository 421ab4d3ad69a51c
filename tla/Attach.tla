------------------------------- MODULE Attach -------------------------------
(***************************************************************************)
(* A UE attaches and detaches: UE (core/ue.py), eNB (core/enb.py), MME     *)
(* (core/mme.py) and HSS (core/hss.py), over NAS, S1AP and S6a.            *)
(*                                                                         *)
(* The UE's commands run on its control thread, its NAS handler on         *)
(* another.  The MME has one S1AP thread, which blocks while it waits for  *)
(* the HSS or the SGW-C.  NAS repeats nothing, and nobody checks that a    *)
(* message belongs to the attach under way: procedures may cross.          *)
(*                                                                         *)
(* There is one UE, as the eNB has room for one; its messages carry an     *)
(* IMSI and UE ids that nobody compares, so they are left out.  A message  *)
(* is its type and one value: the number of an authentication vector, or   *)
(* of a session, which stands for the TEID and the UE address that come    *)
(* with it: given[n] is the address of session n.  NAS and the S1AP        *)
(* message that carries it are one.                                        *)
(*                                                                         *)
(* The SGW-C (core/epc_sgw_c.py) serves a request in one step: it has one  *)
(* S11 thread, and nobody but the MME talks to it.  The PGW-C behind it    *)
(* (core/epc_pgw_c.py) is a counter of addresses, and what comes back from *)
(* it: an address, a rejection, nothing, or either too late.  Their Sx     *)
(* sessions are in module SessionSetup.                                    *)
(***************************************************************************)
EXTENDS Integers, Sequences, FiniteSets

CONSTANTS
    MaxCommands,  \* bound on the commands given to the UE
    MaxFaults,    \* bound on losses, rejections and answers later than a time-out
    None          \* Python's None

ASSUME AttachAssumption ==
    /\ MaxCommands \in Nat /\ MaxFaults \in Nat
    /\ None \notin Nat

VARIABLES
    ue,         \* UE.state
    ueIp,       \* UE.assigned_ip, by the number of the session it came with
    command,    \* the command the UE's control thread is in the middle of
    uuUp, uuDown,   \* datagrams in the Uu NAS sockets of the eNB and the UE
    s1Up, s1Down,   \* datagrams in the S1AP sockets of the MME and the eNB
    bearer,     \* ENB.sgw_s1u_teid
    attached,   \* ENB.attached
    enb,        \* what the eNB's S1AP thread is in the middle of
    mme,        \* what the MME's S1AP thread waits for
    ctx,        \* is there a context in MME.ctx?
    xres,       \* ... and its "xres"
    known,      \* is the UE's IMSI in HSS.subscribers?
    vectors,    \* HSS.vec_counter
    s6aIn, s6aOut,  \* datagrams in the S6a sockets of the HSS and the MME
    s11In, s11Out,  \* datagrams in the S11 sockets of the SGW-C and the MME
    session,    \* the session the SGW-C has for the UE
    sessions,   \* sessions it has created
    given,      \* ... and the address beside each of them in its answer
    addresses,  \* PGW_C._ue_n: addresses drawn from the pool
    s5,         \* what came too late, left in the SGW-C's S5-C socket
    verified,   \* history: how often the MME found RES equal to XRES
    commands, faults

ueVars == <<ue, ueIp, command, commands>>
enbVars == <<bearer, attached, enb>>
mmeVars == <<mme, ctx, xres, verified>>
coreVars == <<known, vectors, session, sessions, given, addresses, s5>>
coreNet == <<s6aIn, s6aOut, s11In, s11Out>>
radioNet == <<uuUp, uuDown, s1Up, s1Down>>
vars == <<ueVars, enbVars, mmeVars, coreVars, coreNet, radioNet, faults>>

Msg(t) == [t |-> t, v |-> None]
MsgOf(t, v) == [t |-> t, v |-> v]

Init ==
    /\ ue = "IDLE" /\ ueIp = None /\ command = "none"
    /\ uuUp = <<>> /\ uuDown = <<>> /\ s1Up = <<>> /\ s1Down = <<>>
    /\ bearer = None /\ attached = FALSE /\ enb = "idle"
    /\ mme = "idle" /\ ctx = FALSE /\ xres = None
    /\ known \in BOOLEAN /\ vectors = 0
    /\ s6aIn = <<>> /\ s6aOut = <<>> /\ s11In = <<>> /\ s11Out = <<>>
    /\ session = None /\ sessions = 0 /\ given = <<>> /\ addresses = 0 /\ s5 = <<>>
    /\ verified = 0 /\ commands = 0 /\ faults = 0

(* A step that n faults are needed for. *)
Faults(n) == faults + n <= MaxFaults /\ faults' = faults + n

---------------------------------------------------------------------------
(* The UE's control thread: attach notes, then sends; detach sends, then   *)
(* notes.  The NAS handler may run in between.                             *)

Begin(c) ==
    /\ command = "none" /\ commands < MaxCommands
    /\ command' = c /\ commands' = commands + 1

NoteAttach ==
    /\ Begin("attach")
    /\ ue' = "ATTACH_SENT"
    /\ UNCHANGED <<ueIp, radioNet, enbVars, mmeVars, coreVars, coreNet, faults>>

SendAttach ==
    /\ command = "attach" /\ command' = "none"
    /\ uuUp' = Append(uuUp, Msg("ATTACH_REQUEST"))
    /\ UNCHANGED <<ue, ueIp, commands, uuDown, s1Up, s1Down, enbVars, mmeVars, coreVars,
                   coreNet, faults>>

SendDetach ==
    /\ Begin("detach")
    /\ uuUp' = Append(uuUp, Msg("DETACH_REQUEST"))
    /\ UNCHANGED <<ue, ueIp, uuDown, s1Up, s1Down, enbVars, mmeVars, coreVars, coreNet, faults>>

NoteDetach ==
    /\ command = "detach" /\ command' = "none"
    /\ ue' = "DETACH_SENT"
    /\ UNCHANGED <<ueIp, commands, radioNet, enbVars, mmeVars, coreVars, coreNet, faults>>

---------------------------------------------------------------------------
(* The UE's NAS handler, on_nas. *)

UeReads(t) == uuDown # <<>> /\ Head(uuDown).t = t /\ uuDown' = Tail(uuDown)
UeSends(m) == uuUp' = Append(uuUp, m)

(* RES is computed from the RAND of the vector, so it is the vector's. *)
UeAuthenticates ==
    /\ UeReads("AUTH_REQUEST")
    /\ UeSends(MsgOf("AUTH_RESPONSE", Head(uuDown).v))
    /\ UNCHANGED <<ue, ueIp>>

UeSecures ==
    /\ UeReads("SECURITY_MODE_COMMAND")
    /\ UeSends(Msg("SECURITY_MODE_COMPLETE"))
    /\ UNCHANGED <<ue, ueIp>>

UeAccepted ==
    /\ UeReads("ATTACH_ACCEPT")
    /\ ue' = "ATTACHED" /\ ueIp' = Head(uuDown).v
    /\ UeSends(Msg("ATTACH_COMPLETE"))

UeRefused ==
    /\ UeReads("ATTACH_REJECT")
    /\ ue' = "REJECTED"
    /\ UNCHANGED <<ueIp, uuUp>>

UeReleased ==
    /\ UeReads("DETACH_ACCEPT")
    /\ ue' = "DETACHED"
    /\ UNCHANGED <<ueIp, uuUp>>

UeNas ==
    /\ UeAuthenticates \/ UeSecures \/ UeAccepted \/ UeRefused \/ UeReleased
    /\ UNCHANGED <<command, commands, s1Up, s1Down, enbVars, mmeVars, coreVars, coreNet, faults>>

---------------------------------------------------------------------------
(* The eNB: on_uu_nas wraps what comes from the UE, on_s1ap unwraps. *)

EnbUplink ==
    /\ uuUp # <<>>
    /\ uuUp' = Tail(uuUp)
    /\ s1Up' = Append(s1Up, Head(uuUp))
    /\ UNCHANGED <<uuDown, s1Down, ueVars, enbVars, mmeVars, coreVars, coreNet, faults>>

(* Initial Context Setup Request: the Attach Accept in it goes to the UE   *)
(* first ...                                                               *)
EnbSetsUp ==
    /\ Head(s1Down).t = "ATTACH_ACCEPT"
    /\ bearer' = Head(s1Down).v
    /\ uuDown' = Append(uuDown, Head(s1Down))
    /\ enb' = "setup"
    /\ UNCHANGED <<attached, s1Up>>

(* ... and the answer to the MME after it: the UE may be heard in between. *)
EnbConfirms ==
    /\ enb = "setup" /\ enb' = "idle"
    /\ s1Up' = Append(s1Up, Msg("SETUP_RESPONSE"))
    /\ attached' = TRUE
    /\ UNCHANGED <<bearer, uuUp, uuDown, s1Down, ueVars, mmeVars, coreVars, coreNet, faults>>

(* Mutant: the bearer outlives the context. *)
EnbReleasesKeepsTeid ==
    /\ Head(s1Down).t = "RELEASE_COMMAND"
    /\ attached' = FALSE
    /\ s1Up' = Append(s1Up, Msg("RELEASE_COMPLETE"))
    /\ UNCHANGED <<bearer, enb, uuDown>>

EnbReleases ==
    /\ Head(s1Down).t = "RELEASE_COMMAND"
    /\ bearer' = None /\ attached' = FALSE
    /\ s1Up' = Append(s1Up, Msg("RELEASE_COMPLETE"))
    /\ UNCHANGED <<enb, uuDown>>

EnbRelays ==
    /\ Head(s1Down).t \notin {"ATTACH_ACCEPT", "RELEASE_COMMAND"}
    /\ uuDown' = Append(uuDown, Head(s1Down))
    /\ UNCHANGED <<enbVars, s1Up>>

EnbDownlink ==
    /\ enb = "idle"
    /\ s1Down # <<>>
    /\ s1Down' = Tail(s1Down)
    /\ EnbSetsUp \/ EnbReleases \/ EnbRelays
    /\ UNCHANGED <<uuUp, ueVars, mmeVars, coreVars, coreNet, faults>>

---------------------------------------------------------------------------
(* The MME, on_s1ap: it takes a datagram when it waits for nothing. *)

MmeReads(t) ==
    /\ mme = "idle"
    /\ s1Up # <<>> /\ Head(s1Up).t = t
    /\ s1Up' = Tail(s1Up)
    /\ UNCHANGED <<uuUp, uuDown, ueVars, enbVars, coreVars, faults>>

(* UDPClient.request: a datagram out; the next one in the socket is taken  *)
(* for the answer.                                                         *)
AsksHss == s6aIn' = Append(s6aIn, "AIR") /\ UNCHANGED <<s6aOut, s11In, s11Out>>
AsksSgwc(op) == s11In' = Append(s11In, op) /\ UNCHANGED <<s11Out, s6aIn, s6aOut>>

(* _on_initial_ue, up to the request to the HSS. *)
OnAttachRequest ==
    /\ MmeReads("ATTACH_REQUEST")
    /\ ctx' = TRUE /\ xres' = None
    /\ mme' = "air" /\ AsksHss
    /\ UNCHANGED <<verified, s1Down>>

(* Mutant: a wrong RES is let through. *)
OnAuthResponseAnyway ==
    /\ MmeReads("AUTH_RESPONSE")
    /\ ctx
    /\ s1Down' = Append(s1Down, Msg("SECURITY_MODE_COMMAND"))
    /\ verified' = IF Head(s1Up).v = xres THEN verified + 1 ELSE verified
    /\ UNCHANGED <<mme, ctx, xres, coreNet>>

(* _on_ul_nas *)
OnAuthResponse ==
    /\ MmeReads("AUTH_RESPONSE")
    /\ ctx
    /\ IF Head(s1Up).v = xres
       THEN /\ s1Down' = Append(s1Down, Msg("SECURITY_MODE_COMMAND"))
            /\ verified' = verified + 1
       ELSE /\ s1Down' = Append(s1Down, Msg("ATTACH_REJECT"))
            /\ UNCHANGED verified
    /\ UNCHANGED <<mme, ctx, xres, coreNet>>

OnSecurityComplete ==
    /\ MmeReads("SECURITY_MODE_COMPLETE")
    /\ ctx
    /\ mme' = "create" /\ AsksSgwc("create")
    /\ UNCHANGED <<ctx, xres, verified, s1Down>>

OnDetachRequest ==
    /\ MmeReads("DETACH_REQUEST")
    /\ ctx
    /\ mme' = "delete" /\ AsksSgwc("delete")
    /\ UNCHANGED <<ctx, xres, verified, s1Down>>

(* _on_ctx_setup_resp *)
OnSetupResponse ==
    /\ MmeReads("SETUP_RESPONSE")
    /\ ctx
    /\ mme' = "modify" /\ AsksSgwc("modify")
    /\ UNCHANGED <<ctx, xres, verified, s1Down>>

(* What it has no use for, or no context. *)
OnOther ==
    /\ \E t \in {"ATTACH_COMPLETE", "RELEASE_COMPLETE", "DETACH_REQUEST"} :
           MmeReads(t) /\ (t = "DETACH_REQUEST" => ~ctx)
    /\ UNCHANGED <<mmeVars, s1Down, coreNet>>

(* The end of a wait. *)
MmeResumes(op) ==
    /\ mme = op /\ mme' = "idle"
    /\ UNCHANGED <<ctx, verified, uuUp, uuDown, s1Up, ueVars, enbVars, coreVars, s6aIn, s11In>>

HssAnswered ==
    /\ s6aOut # <<>> /\ s6aOut' = Tail(s6aOut)
    /\ UNCHANGED <<s11Out, faults>>

SgwcAnswered ==
    /\ s11Out # <<>> /\ s11Out' = Tail(s11Out)
    /\ UNCHANGED <<s6aOut, faults>>

(* No datagram within the time-out: none is coming, or it is late. *)
TimedOut(in, out) ==
    /\ out = <<>>
    /\ Faults(IF in = <<>> THEN 0 ELSE 1)
    /\ UNCHANGED <<s6aOut, s11Out>>

(* Mutant: the result code is not looked at. *)
ChallengedUnchecked ==
    /\ MmeResumes("air") /\ HssAnswered
    /\ xres' = Head(s6aOut)
    /\ s1Down' = Append(s1Down, MsgOf("AUTH_REQUEST", Head(s6aOut)))

Challenged ==
    /\ MmeResumes("air") /\ HssAnswered
    /\ Head(s6aOut) # None
    /\ xres' = Head(s6aOut)
    /\ s1Down' = Append(s1Down, MsgOf("AUTH_REQUEST", Head(s6aOut)))

(* Mutant: an unknown subscriber is not told. *)
NotChallengedSilent ==
    /\ MmeResumes("air")
    /\ \/ HssAnswered /\ Head(s6aOut) = None
       \/ TimedOut(s6aIn, s6aOut)
    /\ UNCHANGED <<xres, s1Down>>

NotChallenged ==
    /\ MmeResumes("air")
    /\ \/ HssAnswered /\ Head(s6aOut) = None
       \/ TimedOut(s6aIn, s6aOut)
    /\ s1Down' = Append(s1Down, Msg("ATTACH_REJECT"))
    /\ UNCHANGED xres

Created ==
    /\ MmeResumes("create") /\ SgwcAnswered
    /\ Head(s11Out) # None
    /\ s1Down' = Append(s1Down, MsgOf("ATTACH_ACCEPT", Head(s11Out)))
    /\ UNCHANGED xres

(* An answer without an address: ie_ue_ip(None) raises, and nothing is sent. *)
CreatedWithoutAddress ==
    /\ MmeResumes("create") /\ SgwcAnswered
    /\ Head(s11Out) = None
    /\ UNCHANGED <<xres, s1Down>>

(* Mutant: the UE is turned away, and the answer still awaited. *)
NotCreatedYet ==
    /\ mme = "create" /\ TimedOut(s11In, s11Out)
    /\ s1Down' = Append(s1Down, Msg("ATTACH_REJECT"))
    /\ UNCHANGED <<mmeVars, uuUp, uuDown, s1Up, ueVars, enbVars, coreVars, s6aIn, s11In>>

NotCreated ==
    /\ MmeResumes("create") /\ TimedOut(s11In, s11Out)
    /\ s1Down' = Append(s1Down, Msg("ATTACH_REJECT"))
    /\ UNCHANGED xres

(* Deleted or not: _s11_delete returns nothing. *)
Deleted ==
    /\ MmeResumes("delete")
    /\ SgwcAnswered \/ TimedOut(s11In, s11Out)
    /\ s1Down' = s1Down \o <<Msg("DETACH_ACCEPT"), Msg("RELEASE_COMMAND")>>
    /\ UNCHANGED xres

Modified ==
    /\ MmeResumes("modify")
    /\ SgwcAnswered \/ TimedOut(s11In, s11Out)
    /\ UNCHANGED <<xres, s1Down>>

Mme ==
    \/ OnAttachRequest \/ OnAuthResponse \/ OnSecurityComplete \/ OnDetachRequest
    \/ OnSetupResponse \/ OnOther
    \/ Challenged \/ NotChallenged \/ Created \/ CreatedWithoutAddress \/ NotCreated
    \/ Deleted \/ Modified

---------------------------------------------------------------------------
(* The HSS: _ai.  The n vectors of an answer are numbered from 0, and the  *)
(* MME asks for one: it is the same vector every time.                     *)
Vector == 0

Hss ==
    /\ s6aIn # <<>> /\ s6aIn' = Tail(s6aIn)
    /\ IF known
       THEN /\ vectors' = vectors + 1
            /\ s6aOut' = Append(s6aOut, Vector)
       ELSE /\ s6aOut' = Append(s6aOut, None)
            /\ UNCHANGED vectors
    /\ UNCHANGED <<known, session, sessions, given, addresses, s5, s11In, s11Out, radioNet,
                   ueVars, enbVars, mmeVars, faults>>

---------------------------------------------------------------------------
(* The SGW-C, and the PGW-C behind it. *)

(* The first address of the pool, and the one the SGW-C gives when the     *)
(* answer it takes from S5-C has none: 10.10.0.2.                          *)
First == 1

AddressIn(answer) == IF answer = None THEN First ELSE answer

Cost(b) == IF b THEN 1 ELSE 0

(* UDPClient.request on S5-C.  The socket is not emptied first, so what    *)
(* was late for an earlier request is taken for the answer, and the answer *)
(* is left.  A late one finds an empty socket, and a wait that is over.    *)
InTime(answer, late) == IF late THEN <<>> ELSE s5 \o answer

Left(answer, late) ==
    IF late THEN answer ELSE IF s5 \o answer = <<>> THEN <<>> ELSE Tail(s5 \o answer)

MayBeLate(answer) == {late \in BOOLEAN : late => s5 = <<>> /\ answer # <<>>}

(* A session in place of the one the UE may have ... *)
Confirms(address) ==
    /\ sessions' = sessions + 1 /\ session' = sessions + 1
    /\ given' = Append(given, address)
    /\ s11Out' = Append(s11Out, sessions + 1)

(* ... or a refusal, which leaves that one alone. *)
Refuses ==
    /\ s11Out' = Append(s11Out, None)
    /\ UNCHANGED <<session, sessions, given>>

(* Mutant: the new session keeps the address of the one it replaces. *)
SgwcCreatesSameAddress ==
    /\ \/ Confirms(IF session = None THEN addresses + 1 ELSE given[session]) /\ UNCHANGED faults
       \/ Faults(1) /\ Refuses
    /\ addresses' = addresses + 1 /\ UNCHANGED s5

(* _create_session.  The PGW-C draws an address before it asks for its Sx  *)
(* session; a rejection carries none, and request or answer may be lost.   *)
(* The SGW-C looks for an address in what it takes, never at the Cause,    *)
(* and refuses only when there was no answer or its own Sx session failed. *)
SgwcCreates ==
    \E answer \in {<<addresses + 1>>, <<None>>, <<>>}, sx \in BOOLEAN :
    \E late \in MayBeLate(answer) :
        /\ addresses' = addresses + 1 \/ (answer = <<>> /\ addresses' = addresses)
        /\ s5' = Left(answer, late)
        /\ Faults(Cost(answer # <<addresses + 1>>) + Cost(late) + Cost(~sx))
        /\ IF sx /\ InTime(answer, late) # <<>>
           THEN Confirms(AddressIn(Head(InTime(answer, late))))
           ELSE Refuses

(* _delete_session: the answer, an old address perhaps, is not looked at.  *)
SgwcDeletes ==
    /\ session' = None
    /\ s11Out' = Append(s11Out, None)
    /\ \/ session = None /\ UNCHANGED <<s5, faults>>
       \/ /\ session # None
          /\ \E answer \in {<<None>>, <<>>} : \E late \in MayBeLate(answer) :
                 /\ s5' = Left(answer, late)
                 /\ Faults(Cost(answer = <<>>) + Cost(late))
    /\ UNCHANGED <<sessions, given, addresses>>

SgwcModifies ==
    /\ s11Out' = Append(s11Out, None)
    /\ UNCHANGED <<session, sessions, given, addresses, s5, faults>>

Sgwc ==
    /\ s11In # <<>> /\ s11In' = Tail(s11In)
    /\ \/ Head(s11In) = "create" /\ SgwcCreates
       \/ Head(s11In) = "delete" /\ SgwcDeletes
       \/ Head(s11In) = "modify" /\ SgwcModifies
    /\ UNCHANGED <<known, vectors, s6aIn, s6aOut, radioNet, ueVars, enbVars, mmeVars>>

---------------------------------------------------------------------------
(* The network loses the next datagram of a socket. *)
Lose ==
    /\ Faults(1)
    /\ \/ uuUp # <<>> /\ uuUp' = Tail(uuUp) /\ UNCHANGED <<uuDown, s1Up, s1Down, coreNet>>
       \/ uuDown # <<>> /\ uuDown' = Tail(uuDown) /\ UNCHANGED <<uuUp, s1Up, s1Down, coreNet>>
       \/ s1Up # <<>> /\ s1Up' = Tail(s1Up) /\ UNCHANGED <<uuUp, uuDown, s1Down, coreNet>>
       \/ s1Down # <<>> /\ s1Down' = Tail(s1Down) /\ UNCHANGED <<uuUp, uuDown, s1Up, coreNet>>
       \/ s6aIn # <<>> /\ s6aIn' = Tail(s6aIn) /\ UNCHANGED <<s6aOut, s11In, s11Out, radioNet>>
       \/ s6aOut # <<>> /\ s6aOut' = Tail(s6aOut) /\ UNCHANGED <<s6aIn, s11In, s11Out, radioNet>>
       \/ s11In # <<>> /\ s11In' = Tail(s11In) /\ UNCHANGED <<s6aIn, s6aOut, s11Out, radioNet>>
       \/ s11Out # <<>> /\ s11Out' = Tail(s11Out) /\ UNCHANGED <<s6aIn, s6aOut, s11In, radioNet>>
    /\ UNCHANGED <<ueVars, enbVars, mmeVars, coreVars>>

Control == SendAttach \/ NoteDetach

Next ==
    \/ NoteAttach \/ SendDetach \/ Control \/ UeNas
    \/ EnbUplink \/ EnbDownlink \/ EnbConfirms \/ Mme \/ Hss \/ Sgwc \/ Lose

Spec == Init /\ [][Next]_vars

(* Every thread that has something to do goes on. *)
FairSpec ==
    /\ Spec
    /\ WF_vars(Control) /\ WF_vars(UeNas) /\ WF_vars(EnbUplink)
    /\ WF_vars(EnbDownlink) /\ WF_vars(EnbConfirms)
    /\ WF_vars(Mme) /\ WF_vars(Hss) /\ WF_vars(Sgwc)

---------------------------------------------------------------------------
(* Properties. *)

UeStates == {"IDLE", "ATTACH_SENT", "ATTACHED", "REJECTED", "DETACH_SENT", "DETACHED"}
Plain(T) == [t : T, v : {None}]
UpTypes == {"ATTACH_REQUEST", "SECURITY_MODE_COMPLETE", "ATTACH_COMPLETE", "DETACH_REQUEST"}
DownTypes == {"SECURITY_MODE_COMMAND", "ATTACH_REJECT", "DETACH_ACCEPT"}
UuUpMsgs == Plain(UpTypes) \cup [t : {"AUTH_RESPONSE"}, v : Nat]
UuDownMsgs == Plain(DownTypes) \cup [t : {"AUTH_REQUEST", "ATTACH_ACCEPT"}, v : Nat]
S1UpMsgs == UuUpMsgs \cup Plain({"SETUP_RESPONSE", "RELEASE_COMPLETE"})
S1DownMsgs == UuDownMsgs \cup Plain({"RELEASE_COMMAND"})
Addresses == Nat \ {0}

(* The state has the types the code gives it; every message has the value  *)
(* its handler reads.                                                      *)
TypeOK ==
    /\ ue \in UeStates /\ ueIp \in Nat \cup {None} /\ command \in {"none", "attach", "detach"}
    /\ uuUp \in Seq(UuUpMsgs) /\ uuDown \in Seq(UuDownMsgs)
    /\ s1Up \in Seq(S1UpMsgs) /\ s1Down \in Seq(S1DownMsgs)
    /\ bearer \in Nat \cup {None} /\ attached \in BOOLEAN /\ enb \in {"idle", "setup"}
    /\ mme \in {"idle", "air", "create", "modify", "delete"}
    /\ ctx \in BOOLEAN /\ xres \in Nat \cup {None}
    /\ known \in BOOLEAN /\ vectors \in Nat
    /\ s6aIn \in Seq({"AIR"}) /\ s6aOut \in Seq(Nat \cup {None})
    /\ s11In \in Seq({"create", "modify", "delete"}) /\ s11Out \in Seq(Nat \cup {None})
    /\ session \in Nat \cup {None} /\ sessions \in Nat /\ verified \in Nat
    /\ given \in Seq(Addresses) /\ Len(given) = sessions
    /\ addresses \in Nat /\ s5 \in Seq(Addresses \cup {None})
    /\ commands \in 0..MaxCommands /\ faults \in 0..MaxFaults

Quiet ==
    /\ command = "none" /\ mme = "idle" /\ enb = "idle"
    /\ uuUp = <<>> /\ uuDown = <<>> /\ s1Up = <<>> /\ s1Down = <<>>

(* When all is quiet and nothing went wrong, UE, eNB and SGW-C agree: the  *)
(* UE takes itself for attached just when there is a session, the eNB has  *)
(* the TEID and the UE the address of that one, and without a session the  *)
(* eNB has no bearer; whatever attaches and detaches crossed on the way.   *)
(* A UE whose last word is its own late note of a detach is left out.      *)
Settled ==
    Quiet /\ faults = 0 =>
        /\ attached <=> session # None
        /\ bearer = session
        /\ ue # "DETACH_SENT" => (ue = "ATTACHED" <=> session # None)
        /\ session # None => ueIp = session

(* Every session is paid for: the network creates no more of them than RES *)
(* was found right, whatever is lost, late, refused or crossing.  The MME  *)
(* checks neither order nor state when a Security Mode Complete comes in.  *)
SessionsVerified == sessions <= verified

(* What is offered, in q, rises and is above lo and not above hi. *)
Rising(q, lo, hi) ==
    /\ \A i \in DOMAIN q : q[i] # None => q[i] \in lo + 1 .. hi
    /\ \A i, j \in DOMAIN q : i < j /\ q[i] # None /\ q[j] # None => q[i] < q[j]

(* A session comes with an address above those of all sessions before it,  *)
(* or with First, whatever is late at S5-C or lost: what is still to be    *)
(* taken there is above all that was given.                                *)
GivenInOrder ==
    /\ \A m, n \in DOMAIN given : m < n => given[n] = First \/ given[m] < given[n]
    /\ \E d \in 0 .. addresses :
          /\ \A n \in DOMAIN given : given[n] = First \/ given[n] <= d
          /\ Rising(s5, d, addresses)

(* The sessions on the way to the UE, in the answers of the SGW-C and in   *)
(* the Attach Accepts, are on the way in the order they were created, and  *)
(* all of them after the one the UE has.                                   *)
OfferIn(m) == IF m.t = "ATTACH_ACCEPT" THEN m.v ELSE None
Offers(q) == [i \in DOMAIN q |-> OfferIn(q[i])]

OfferedInOrder ==
    \E a \in 0 .. sessions, b \in 0 .. sessions, c \in 0 .. sessions :
        /\ a <= b /\ b <= c
        /\ ueIp # None => ueIp \in 1 .. a
        /\ Rising(Offers(uuDown), a, b) /\ Rising(Offers(s1Down), b, c)
        /\ Rising(s11Out, c, sessions)

(* So the UE never goes back to an address it had, or to one below it,     *)
(* whatever crosses, is late, rejected or lost: but for 10.10.0.2, which   *)
(* the SGW-C gives again whenever the PGW-C rejects.                       *)
InOrder == GivenInOrder /\ OfferedInOrder

(* A UE that has asked to attach is told yes or no, unless something went  *)
(* wrong: NAS repeats nothing.                                             *)
AttachAnswered == ue = "ATTACH_SENT" /\ faults = 0 ~> ue # "ATTACH_SENT" \/ faults > 0

(* A Detach Accept goes back to the UE (README.md:274), which then is      *)
(* DETACHED (ue.py:115).  Violated: detach sends before it notes           *)
(* DETACH_SENT, the answer may come in between, and the note overwrites it.*)
DetachEnds == ctx /\ ue = "DETACH_SENT" /\ faults = 0 ~> ue # "DETACH_SENT" \/ faults > 0

(* This module implements Registration: the attaches open are those whose  *)
(* message, or whose turn at the MME, is somewhere on the way.             *)
Count(q, T) == Cardinality({i \in DOMAIN q : q[i].t \in T})
AttachUp == {"ATTACH_REQUEST", "AUTH_RESPONSE", "SECURITY_MODE_COMPLETE"}
AttachDown == {"AUTH_REQUEST", "SECURITY_MODE_COMMAND", "ATTACH_ACCEPT", "ATTACH_REJECT"}
Open ==
    (IF command = "attach" THEN 1 ELSE 0) + (IF mme \in {"air", "create"} THEN 1 ELSE 0)
    + Count(uuUp, AttachUp) + Count(s1Up, AttachUp)
    + Count(uuDown, AttachDown) + Count(s1Down, AttachDown)
Closing ==
    (IF mme = "delete" THEN 1 ELSE 0)
    + Count(uuUp, {"DETACH_REQUEST"}) + Count(s1Up, {"DETACH_REQUEST"})
    + Count(uuDown, {"DETACH_ACCEPT"}) + Count(s1Down, {"DETACH_ACCEPT"})

Promise == INSTANCE Registration WITH
    status <- ue, held <- ueIp, open <- Open, closing <- Closing

ImplementsRegistration == Promise!Spec
=============================================================================
