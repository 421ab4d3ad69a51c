---------------------------- MODULE AttachProofs ----------------------------
(***************************************************************************)
(* Proofs about Attach for any number of commands and of faults: type      *)
(* correctness, and that no session is created for which no RES was found  *)
(* right.                                                                  *)
(***************************************************************************)
EXTENDS Attach, FiniteSetTheorems, FunctionTheorems, TLAPS

---------------------------------------------------------------------------
(* Type correctness. *)

(* What the handlers send, and what they find in what they read.           *)
LEMMA Built ==
    /\ \A t \in UpTypes : Msg(t) \in UuUpMsgs
    /\ \A n \in Nat : MsgOf("AUTH_RESPONSE", n) \in UuUpMsgs
    /\ \A t \in {"SETUP_RESPONSE", "RELEASE_COMPLETE"} : Msg(t) \in S1UpMsgs
    /\ \A t \in DownTypes \cup {"RELEASE_COMMAND"} : Msg(t) \in S1DownMsgs
    /\ \A t \in {"AUTH_REQUEST", "ATTACH_ACCEPT"}, n \in Nat : MsgOf(t, n) \in S1DownMsgs
    /\ UuUpMsgs \subseteq S1UpMsgs
    /\ \A m \in S1DownMsgs : m.t # "RELEASE_COMMAND" => m \in UuDownMsgs
    /\ \A m \in S1DownMsgs \cup UuDownMsgs :
          /\ m.t \in {"AUTH_REQUEST", "ATTACH_ACCEPT"} => m.v \in Nat
          /\ m.t = "SECURITY_MODE_COMMAND" => m = Msg("SECURITY_MODE_COMMAND")
    /\ \A m \in S1UpMsgs :
          m.t = "SECURITY_MODE_COMPLETE" => m = Msg("SECURITY_MODE_COMPLETE")
  BY DEF Msg, MsgOf, UpTypes, DownTypes, Plain, UuUpMsgs, UuDownMsgs, S1UpMsgs, S1DownMsgs

(* TypeOK in five parts: truth values, what nodes hold, the addresses of   *)
(* the sessions, and the sockets of the radio side and of the core side.   *)
Flags == attached \in BOOLEAN /\ ctx \in BOOLEAN /\ known \in BOOLEAN

Values ==
    /\ ue \in UeStates /\ ueIp \in Nat \cup {None} /\ command \in {"none", "attach", "detach"}
    /\ bearer \in Nat \cup {None} /\ enb \in {"idle", "setup"}
    /\ mme \in {"idle", "air", "create", "modify", "delete"} /\ xres \in Nat \cup {None}
    /\ vectors \in Nat /\ session \in Nat \cup {None} /\ sessions \in Nat /\ verified \in Nat
    /\ commands \in 0..MaxCommands /\ faults \in 0..MaxFaults

Grants ==
    /\ given \in Seq(Addresses) /\ Len(given) = sessions
    /\ addresses \in Nat /\ s5 \in Seq(Addresses \cup {None})

Radio ==
    /\ uuUp \in Seq(UuUpMsgs) /\ uuDown \in Seq(UuDownMsgs)
    /\ s1Up \in Seq(S1UpMsgs) /\ s1Down \in Seq(S1DownMsgs)

CoreSockets ==
    /\ s6aIn \in Seq({"AIR"}) /\ s6aOut \in Seq(Nat \cup {None})
    /\ s11In \in Seq({"create", "modify", "delete"}) /\ s11Out \in Seq(Nat \cup {None})

(* TypeOK in the five parts that its proof treats one by one. *)
LEMMA Parts == TypeOK <=> Flags /\ Values /\ Grants /\ Radio /\ CoreSockets
  BY DEF TypeOK, Flags, Values, Grants, Radio, CoreSockets

(* What the SGW-C takes for the PGW-C's answer, and what it leaves.        *)
LEMMA Taken ==
  ASSUME Grants, NEW late \in BOOLEAN,
         NEW answer \in {<<addresses + 1>>, <<None>>, <<>>}
  PROVE  /\ InTime(answer, late) \in Seq(Addresses \cup {None})
         /\ InTime(answer, late) # <<>> =>
               AddressIn(Head(InTime(answer, late))) \in Addresses
         /\ Left(answer, late) \in Seq(Addresses \cup {None})
         /\ ~late /\ answer # <<>> => InTime(answer, late) # <<>>
  <1>1. answer \in Seq(Addresses \cup {None})
    <2>1. addresses + 1 \in Addresses \cup {None} /\ None \in Addresses \cup {None}
      BY DEF Grants, Addresses
    <2>2. \A v \in Addresses \cup {None} : <<v>> \in Seq(Addresses \cup {None})
      OBVIOUS
    <2>3. <<>> \in Seq(Addresses \cup {None})
      OBVIOUS
    <2> QED BY Zenon, <2>1, <2>2, <2>3
  <1>2. s5 \o answer \in Seq(Addresses \cup {None})
    BY <1>1 DEF Grants
  <1>3. answer # <<>> => s5 \o answer # <<>>
    BY <1>1 DEF Grants
  <1>4. Head(s5 \o answer) \in Addresses \cup {None} \/ s5 \o answer = <<>>
    BY <1>2
  <1>5. First \in Addresses
    BY DEF First, Addresses
  <1> QED BY <1>1, <1>2, <1>3, <1>4, <1>5 DEF InTime, Left, AddressIn

(* A creation confirms an address or refuses; without a fault it confirms. *)
LEMMA Creates ==
  ASSUME Values, Grants, SgwcCreates
  PROVE  /\ (\E a \in Addresses : Confirms(a)) \/ Refuses
         /\ faults' = faults => \E a \in Addresses : Confirms(a)
         /\ faults' \in faults..MaxFaults
         /\ addresses' \in Nat /\ s5' \in Seq(Addresses \cup {None})
  <1>1. PICK answer \in {<<addresses + 1>>, <<None>>, <<>>}, sx \in BOOLEAN :
          \E late \in MayBeLate(answer) :
            /\ addresses' = addresses + 1 \/ (answer = <<>> /\ addresses' = addresses)
            /\ s5' = Left(answer, late)
            /\ Faults(Cost(answer # <<addresses + 1>>) + Cost(late) + Cost(~sx))
            /\ IF sx /\ InTime(answer, late) # <<>>
               THEN Confirms(AddressIn(Head(InTime(answer, late))))
               ELSE Refuses
    BY Zenon DEF SgwcCreates
  <1>2. PICK late \in MayBeLate(answer) :
          /\ addresses' = addresses + 1 \/ (answer = <<>> /\ addresses' = addresses)
          /\ s5' = Left(answer, late)
          /\ Faults(Cost(answer # <<addresses + 1>>) + Cost(late) + Cost(~sx))
          /\ IF sx /\ InTime(answer, late) # <<>>
             THEN Confirms(AddressIn(Head(InTime(answer, late))))
             ELSE Refuses
    BY Zenon, <1>1
  <1>3. late \in BOOLEAN
    BY DEF MayBeLate
  <1>4. /\ InTime(answer, late) # <<>> => AddressIn(Head(InTime(answer, late))) \in Addresses
        /\ Left(answer, late) \in Seq(Addresses \cup {None})
        /\ ~late /\ answer # <<>> => InTime(answer, late) # <<>>
    BY <1>3, Taken
  <1>5. (\E a \in Addresses : Confirms(a)) \/ Refuses
    BY Zenon, <1>2, <1>4
  <1>6. /\ faults' \in faults..MaxFaults
        /\ faults' = faults => answer = <<addresses + 1>> /\ ~late /\ sx
    BY <1>2, <1>3, AttachAssumption DEF Faults, Cost, Values
  <1>7. <<addresses + 1>> # <<>>
    OBVIOUS
  <1>8. faults' = faults => \E a \in Addresses : Confirms(a)
    BY Zenon, <1>2, <1>4, <1>6, <1>7
  <1> QED BY <1>2, <1>4, <1>5, <1>6, <1>8 DEF Grants

(* A deletion changes neither the addresses given nor the pool.            *)
LEMMA Deletes ==
  ASSUME Values, Grants, SgwcDeletes
  PROVE  /\ session' = None /\ s11Out' = Append(s11Out, None)
         /\ UNCHANGED <<sessions, given, addresses>>
         /\ faults' \in faults..MaxFaults /\ s5' \in Seq(Addresses \cup {None})
  <1>1. CASE UNCHANGED <<s5, faults>>
    BY <1>1 DEF SgwcDeletes, Values, Grants
  <1>2. CASE \E answer \in {<<None>>, <<>>} : \E late \in MayBeLate(answer) :
                /\ s5' = Left(answer, late)
                /\ Faults(Cost(answer = <<>>) + Cost(late))
    <2>1. PICK answer \in {<<None>>, <<>>} :
             \E late \in MayBeLate(answer) :
                /\ s5' = Left(answer, late)
                /\ Faults(Cost(answer = <<>>) + Cost(late))
      BY Zenon, <1>2
    <2>2. PICK late \in MayBeLate(answer) :
             /\ s5' = Left(answer, late)
             /\ Faults(Cost(answer = <<>>) + Cost(late))
      BY Zenon, <2>1
    <2>3. late \in BOOLEAN
      BY DEF MayBeLate
    <2>4. Left(answer, late) \in Seq(Addresses \cup {None})
      BY <2>3, Taken
    <2>5. faults' \in faults..MaxFaults
      BY <2>2, <2>3, AttachAssumption DEF Faults, Cost, Values
    <2> QED BY <2>2, <2>4, <2>5 DEF SgwcDeletes
  <1> QED BY <1>1, <1>2 DEF SgwcDeletes

(* The SGW-C's step, by the request it serves.                             *)
LEMMA Served ==
  ASSUME Values, Grants, Sgwc
  PROVE  /\ s11In # <<>> /\ s11In' = Tail(s11In)
         /\ UNCHANGED <<known, vectors, s6aIn, s6aOut, radioNet, ueVars, enbVars, mmeVars>>
         /\ faults' \in faults..MaxFaults
         /\ addresses' \in Nat /\ s5' \in Seq(Addresses \cup {None})
         /\ \/ /\ Head(s11In) = "create"
               /\ (\E a \in Addresses : Confirms(a)) \/ Refuses
               /\ faults' = faults => \E a \in Addresses : Confirms(a)
            \/ /\ Head(s11In) = "delete"
               /\ session' = None
               /\ s11Out' = Append(s11Out, None)
               /\ UNCHANGED <<sessions, given>>
            \/ /\ Head(s11In) = "modify"
               /\ s11Out' = Append(s11Out, None)
               /\ UNCHANGED <<session, sessions, given, addresses, s5, faults>>
  <1>1. /\ s11In # <<>> /\ s11In' = Tail(s11In)
        /\ UNCHANGED <<known, vectors, s6aIn, s6aOut, radioNet, ueVars, enbVars, mmeVars>>
    BY Zenon DEF Sgwc
  <1>2. CASE Head(s11In) = "create" /\ SgwcCreates
    BY <1>1, <1>2, Creates
  <1>3. CASE Head(s11In) = "delete" /\ SgwcDeletes
    BY <1>1, <1>3, Deletes DEF Grants
  <1>4. CASE Head(s11In) = "modify" /\ SgwcModifies
    BY <1>1, <1>4 DEF SgwcModifies, Values, Grants
  <1> QED BY Zenon, <1>2, <1>3, <1>4 DEF Sgwc

(* The initial states are of the right types. *)
LEMMA TypeInit == Init => TypeOK
  <1> SUFFICES ASSUME Init PROVE TypeOK
    OBVIOUS
  <1>1. Flags
    BY Zenon DEF Init, Flags
  <1>2. Values /\ Grants /\ Radio /\ CoreSockets
    BY AttachAssumption DEF Init, Values, Grants, Radio, CoreSockets, UeStates
  <1> QED BY <1>1, <1>2, Parts

(* Every step keeps the types of the flags. *)
LEMMA FlagsStep == Flags /\ [Next]_vars => Flags'
  <1> SUFFICES ASSUME Flags, [Next]_vars PROVE Flags'
    OBVIOUS
  <1>1. known' = known /\ (ctx' = ctx \/ ctx' = TRUE)
    BY Zenon DEF Next, NoteAttach, SendDetach, Control, SendAttach, NoteDetach, UeNas, EnbUplink,
        EnbDownlink, EnbConfirms, Mme, OnAttachRequest, OnAuthResponse, OnSecurityComplete, OnDetachRequest,
        OnSetupResponse, OnOther, MmeReads, Challenged, NotChallenged, Created,
        CreatedWithoutAddress, NotCreated, Deleted, Modified, MmeResumes, Hss, Sgwc, Lose,
        vars, mmeVars, coreVars
  <1>2. attached' \in {attached, TRUE, FALSE}
    BY Zenon DEF Next, NoteAttach, SendDetach, Control, SendAttach, NoteDetach, UeNas, EnbUplink,
        EnbDownlink, EnbConfirms, EnbSetsUp, EnbReleases, EnbRelays, Mme, OnAttachRequest, OnAuthResponse,
        OnSecurityComplete, OnDetachRequest, OnSetupResponse, OnOther, MmeReads, Challenged,
        NotChallenged, Created, CreatedWithoutAddress, NotCreated, Deleted, Modified, MmeResumes,
        Hss, Sgwc, Lose, vars, enbVars
  <1> QED BY Zenon, <1>1, <1>2 DEF Flags

(* Every step keeps the types of the values. *)
LEMMA ValuesStep ==
    Values /\ Grants /\ Radio /\ CoreSockets /\ [Next]_vars => Values'
  <1> SUFFICES ASSUME Values, Grants, Radio, CoreSockets, [Next]_vars PROVE Values'
    OBVIOUS
  <1> USE AttachAssumption
  <1>1. /\ uuDown # <<>> => Head(uuDown) \in UuDownMsgs
        /\ s1Down # <<>> => Head(s1Down) \in S1DownMsgs
        /\ s6aOut # <<>> => Head(s6aOut) \in Nat \cup {None}
        /\ s11In # <<>> => Head(s11In) \in {"create", "modify", "delete"}
    BY DEF Radio, CoreSockets
  <1>2. CASE NoteAttach \/ SendDetach \/ Control \/ EnbUplink \/ UNCHANGED vars
    <2>1. CASE NoteAttach \/ SendDetach
      BY <2>1, SMTT(30)
      DEF NoteAttach, SendDetach, Begin, Values, UeStates, enbVars, mmeVars, coreVars
    <2>2. CASE Control
      BY <2>2 DEF Control, SendAttach, NoteDetach, Values, UeStates, enbVars, mmeVars, coreVars
    <2>3. CASE EnbUplink
      BY <2>3 DEF EnbUplink, Values, ueVars, enbVars, mmeVars, coreVars
    <2>4. CASE UNCHANGED vars
      BY <2>4 DEF Values, vars, ueVars, enbVars, mmeVars, coreVars
    <2> QED BY <1>2, <2>1, <2>2, <2>3, <2>4
  <1>3. CASE UeNas
    BY <1>1, <1>3, Built
    DEF UeNas, UeAuthenticates, UeSecures, UeAccepted, UeRefused, UeReleased, UeReads,
        Values, UeStates, enbVars, mmeVars, coreVars
  <1>4. CASE EnbDownlink \/ EnbConfirms
    <2>1. CASE EnbDownlink
      BY <1>1, <2>1, Built, SMTT(30)
      DEF EnbDownlink, EnbSetsUp, EnbReleases, EnbRelays, Values, ueVars, enbVars, mmeVars, coreVars
    <2>2. CASE EnbConfirms
      BY <1>1, <2>2, Built DEF EnbConfirms, Values, ueVars, enbVars, mmeVars, coreVars
    <2> QED BY <1>4, <2>1, <2>2
  <1>5. CASE OnAttachRequest \/ OnAuthResponse \/ OnSecurityComplete \/ OnDetachRequest
             \/ OnSetupResponse \/ OnOther
    <2>1. CASE OnAttachRequest
      BY <2>1 DEF OnAttachRequest, MmeReads, Values, ueVars, enbVars, coreVars
    <2>2. CASE OnAuthResponse
      BY <2>2 DEF OnAuthResponse, MmeReads, Values, ueVars, enbVars, coreVars
    <2>3. CASE OnSecurityComplete
      BY <2>3 DEF OnSecurityComplete, MmeReads, Values, ueVars, enbVars, coreVars
    <2>4. CASE OnDetachRequest
      BY <2>4 DEF OnDetachRequest, MmeReads, Values, ueVars, enbVars, coreVars
    <2>5. CASE OnSetupResponse
      BY <2>5 DEF OnSetupResponse, MmeReads, Values, ueVars, enbVars, coreVars
    <2>6. CASE OnOther
      <3>1. UNCHANGED <<ueVars, enbVars, mmeVars, coreVars, faults>>
        BY <2>6, Zenon DEF OnOther, MmeReads
      <3> QED BY <3>1 DEF Values, ueVars, enbVars, mmeVars, coreVars
    <2> QED BY <1>5, <2>1, <2>2, <2>3, <2>4, <2>5, <2>6
  <1>6. CASE Challenged \/ NotChallenged \/ Created \/ CreatedWithoutAddress \/ NotCreated
             \/ Deleted \/ Modified
    <2>1. CASE Challenged
      BY <1>1, <2>1 DEF Challenged, MmeResumes, HssAnswered, Values, ueVars, enbVars, coreVars
    <2>2. CASE NotChallenged
      BY <2>2
      DEF NotChallenged, MmeResumes, HssAnswered, TimedOut, Faults, Values, ueVars, enbVars,
          coreVars
    <2>3. CASE Created \/ CreatedWithoutAddress
      BY <2>3
      DEF Created, CreatedWithoutAddress, MmeResumes, SgwcAnswered, Values, ueVars, enbVars,
          coreVars
    <2>4. CASE NotCreated
      BY <2>4 DEF NotCreated, MmeResumes, TimedOut, Faults, Values, ueVars, enbVars, coreVars
    <2>5. CASE Deleted
      BY <2>5 DEF Deleted, MmeResumes, SgwcAnswered, TimedOut, Faults, Values, ueVars, enbVars,
          coreVars
    <2>6. CASE Modified
      BY <2>6
      DEF Modified, MmeResumes, SgwcAnswered, TimedOut, Faults, Values, ueVars, enbVars,
          coreVars
    <2> QED BY <1>6, <2>1, <2>2, <2>3, <2>4, <2>5, <2>6
  <1>7. CASE Hss \/ Sgwc
    <2>1. CASE Hss
      BY <1>1, <2>1 DEF Hss, Values, ueVars, enbVars, mmeVars
    <2>2. CASE Sgwc
      <3>1. /\ faults' \in faults..MaxFaults /\ UNCHANGED <<vectors, ueVars, enbVars, mmeVars>>
            /\ \/ \E a \in Addresses : Confirms(a)
               \/ Refuses
               \/ session' = None /\ UNCHANGED sessions
               \/ UNCHANGED <<session, sessions>>
        BY Zenon, <2>2, Served
      <3>2. session' \in Nat \cup {None} /\ sessions' \in Nat
        BY <3>1 DEF Confirms, Refuses, Values
      <3> QED BY <3>1, <3>2 DEF Values, ueVars, enbVars, mmeVars
    <2> QED BY <1>7, <2>1, <2>2
  <1>8. CASE Lose
    BY <1>8 DEF Lose, Faults, Values, ueVars, enbVars, mmeVars, coreVars
  <1> QED BY <1>2, <1>3, <1>4, <1>5, <1>6, <1>7, <1>8 DEF Next, Mme

(* Every step keeps the types of the radio and S1 sockets. *)
LEMMA RadioStep == Radio /\ CoreSockets /\ [Next]_vars => Radio'
  <1> SUFFICES ASSUME Radio, CoreSockets, [Next]_vars PROVE Radio'
    OBVIOUS
  <1>1. /\ uuUp # <<>> => Head(uuUp) \in UuUpMsgs /\ Tail(uuUp) \in Seq(UuUpMsgs)
        /\ uuDown # <<>> => Head(uuDown) \in UuDownMsgs /\ Tail(uuDown) \in Seq(UuDownMsgs)
        /\ s1Up # <<>> => Tail(s1Up) \in Seq(S1UpMsgs)
        /\ s1Down # <<>> => Head(s1Down) \in S1DownMsgs /\ Tail(s1Down) \in Seq(S1DownMsgs)
        /\ s6aOut # <<>> => Head(s6aOut) \in Nat \cup {None}
        /\ s11Out # <<>> => Head(s11Out) \in Nat \cup {None}
    BY DEF Radio, CoreSockets
  <1>2. /\ \A m \in UuUpMsgs : Append(uuUp, m) \in Seq(UuUpMsgs)
        /\ \A m \in UuDownMsgs : Append(uuDown, m) \in Seq(UuDownMsgs)
        /\ \A m \in S1UpMsgs : Append(s1Up, m) \in Seq(S1UpMsgs)
        /\ \A m \in S1DownMsgs : Append(s1Down, m) \in Seq(S1DownMsgs)
    BY DEF Radio
  <1>3. CASE NoteAttach \/ SendDetach \/ Control \/ Hss \/ Sgwc \/ UNCHANGED vars
    BY <1>2, <1>3, Built
    DEF NoteAttach, SendDetach, Control, SendAttach, NoteDetach, Hss, Sgwc, Radio, UpTypes,
        radioNet, vars
  <1>4. CASE UeNas
    BY <1>1, <1>2, <1>4, Built
    DEF UeNas, UeAuthenticates, UeSecures, UeAccepted, UeRefused, UeReleased, UeReads, UeSends,
        Radio, UpTypes
  <1>5. CASE EnbUplink \/ EnbDownlink \/ EnbConfirms
    BY <1>1, <1>2, <1>5, Built
    DEF EnbUplink, EnbDownlink, EnbConfirms, EnbSetsUp, EnbReleases, EnbRelays, Radio
  <1>6. CASE OnAttachRequest \/ OnAuthResponse \/ OnSecurityComplete \/ OnDetachRequest
             \/ OnSetupResponse \/ OnOther
    BY <1>1, <1>2, <1>6, Built
    DEF OnAttachRequest, OnAuthResponse, OnSecurityComplete, OnDetachRequest, OnSetupResponse,
        OnOther, MmeReads, Radio, DownTypes
  <1>7. CASE Challenged \/ NotChallenged \/ Created \/ CreatedWithoutAddress \/ NotCreated
             \/ Deleted \/ Modified
    <2>1. s1Down \o <<Msg("DETACH_ACCEPT"), Msg("RELEASE_COMMAND")>> \in Seq(S1DownMsgs)
      BY Built DEF Radio, DownTypes
    <2> QED
      BY <1>1, <1>2, <1>7, <2>1, Built
      DEF Challenged, NotChallenged, Created, CreatedWithoutAddress, NotCreated, Deleted, Modified,
          MmeResumes, HssAnswered, SgwcAnswered, Radio, DownTypes
  <1>8. CASE Lose
    BY <1>1, <1>8 DEF Lose, Radio, radioNet
  <1> QED BY <1>3, <1>4, <1>5, <1>6, <1>7, <1>8 DEF Next, Mme

(* Every step keeps the types of the sockets between the core's nodes. *)
LEMMA CoreStep == Values /\ Grants /\ CoreSockets /\ [Next]_vars => CoreSockets'
  <1> SUFFICES ASSUME Values, Grants, CoreSockets, [Next]_vars PROVE CoreSockets'
    OBVIOUS
  <1>1. /\ s6aIn # <<>> => Tail(s6aIn) \in Seq({"AIR"})
        /\ s6aOut # <<>> => Tail(s6aOut) \in Seq(Nat \cup {None})
        /\ s11In # <<>> => /\ Head(s11In) \in {"create", "modify", "delete"}
                           /\ Tail(s11In) \in Seq({"create", "modify", "delete"})
        /\ s11Out # <<>> => Tail(s11Out) \in Seq(Nat \cup {None})
    BY DEF CoreSockets
  <1>2. /\ Append(s6aIn, "AIR") \in Seq({"AIR"})
        /\ \A m \in Nat \cup {None} : Append(s6aOut, m) \in Seq(Nat \cup {None})
        /\ \A m \in {"create", "modify", "delete"} :
              Append(s11In, m) \in Seq({"create", "modify", "delete"})
        /\ \A m \in Nat \cup {None} : Append(s11Out, m) \in Seq(Nat \cup {None})
    BY DEF CoreSockets
  <1>3. CASE NoteAttach \/ SendDetach \/ Control \/ UeNas \/ EnbUplink \/ EnbDownlink
             \/ EnbConfirms \/ UNCHANGED vars
    BY <1>3
    DEF NoteAttach, SendDetach, Control, SendAttach, NoteDetach, UeNas, EnbUplink, EnbDownlink,
        EnbConfirms, CoreSockets, coreNet, vars
  <1>4. CASE OnAttachRequest \/ OnAuthResponse \/ OnSecurityComplete \/ OnDetachRequest
             \/ OnSetupResponse \/ OnOther
    BY <1>2, <1>4
    DEF OnAttachRequest, OnAuthResponse, OnSecurityComplete, OnDetachRequest, OnSetupResponse,
        OnOther, AsksHss, AsksSgwc, CoreSockets, coreNet
  <1>5. CASE Challenged \/ NotChallenged \/ Created \/ CreatedWithoutAddress \/ NotCreated
             \/ Deleted \/ Modified
    BY <1>1, <1>5
    DEF Challenged, NotChallenged, Created, CreatedWithoutAddress, NotCreated, Deleted, Modified,
        MmeResumes, HssAnswered, SgwcAnswered, TimedOut, CoreSockets
  <1>6. CASE Hss \/ Sgwc
    <2>1. CASE Hss
      BY <1>1, <1>2, <2>1 DEF Hss, Vector, CoreSockets
    <2>2. CASE Sgwc
      <3>1. s11In' \in Seq({"create", "modify", "delete"}) /\ UNCHANGED <<s6aIn, s6aOut>>
        BY <1>1, <2>2, Served
      <3>2. sessions + 1 \in Nat \cup {None}
        BY DEF Values
      <3>3. s11Out' \in Seq(Nat \cup {None})
        <4>1. \/ \E a \in Addresses : Confirms(a)
              \/ Refuses
              \/ s11Out' = Append(s11Out, None)
          BY Zenon, <2>2, Served
        <4> QED BY <1>2, <3>2, <4>1 DEF Confirms, Refuses
      <3> QED BY <3>1, <3>3 DEF CoreSockets
    <2> QED BY <1>6, <2>1, <2>2
  <1>7. CASE Lose
    BY <1>1, <1>7 DEF Lose, CoreSockets, coreNet
  <1> QED BY <1>3, <1>4, <1>5, <1>6, <1>7 DEF Next, Mme

(* Only the SGW-C gives addresses.                                         *)
LEMMA GrantsKept == [Next]_vars => Sgwc \/ UNCHANGED <<given, sessions, addresses, s5>>
  BY Zenon
  DEF Next, NoteAttach, SendDetach, Control, SendAttach, NoteDetach, UeNas, EnbUplink,
      EnbDownlink, EnbConfirms, Mme, OnAttachRequest, OnAuthResponse, OnSecurityComplete,
      OnDetachRequest, OnSetupResponse, OnOther, MmeReads, Challenged, NotChallenged,
      Created, CreatedWithoutAddress, NotCreated, Deleted, Modified, MmeResumes, Hss, Lose,
      vars, coreVars

(* Every step keeps the types of the addresses. *)
LEMMA GrantsStep == Values /\ Grants /\ [Next]_vars => Grants'
  <1> SUFFICES ASSUME Values, Grants, [Next]_vars PROVE Grants'
    OBVIOUS
  <1>1. CASE Sgwc
    <2>1. addresses' \in Nat /\ s5' \in Seq(Addresses \cup {None})
      BY Zenon, <1>1, Served
    <2>2. \/ \E a \in Addresses : Confirms(a)
          \/ UNCHANGED <<given, sessions>>
      BY <1>1, Served DEF Refuses
    <2>3. given' \in Seq(Addresses) /\ Len(given') = sessions'
      <3>1. CASE UNCHANGED <<given, sessions>>
        BY <3>1 DEF Grants
      <3>2. ASSUME NEW a \in Addresses, Confirms(a)
            PROVE  given' \in Seq(Addresses) /\ Len(given') = sessions'
        <4>1. given' = Append(given, a) /\ sessions' = sessions + 1
          BY <3>2 DEF Confirms
        <4> QED BY <4>1 DEF Grants
      <3> QED BY Zenon, <2>2, <3>1, <3>2
    <2> QED BY <2>1, <2>3 DEF Grants
  <1>2. CASE UNCHANGED <<given, sessions, addresses, s5>>
    BY <1>2 DEF Grants
  <1> QED BY <1>1, <1>2, GrantsKept

(* The same split of TypeOK in the next state. *)
LEMMA PartsPrimed == TypeOK' <=> Flags' /\ Values' /\ Grants' /\ Radio' /\ CoreSockets'
  BY DEF TypeOK, Flags, Values, Grants, Radio, CoreSockets

(* Every step keeps the types. *)
LEMMA TypeStep == TypeOK /\ [Next]_vars => TypeOK'
  BY Parts, PartsPrimed, FlagsStep, ValuesStep, GrantsStep, RadioStep, CoreStep

(* The state of UE, eNB, MME, HSS and their sockets keeps its type: a      *)
(* message has the value that its handler reads, for any number of         *)
(* commands and faults.                                                    *)
THEOREM TypeCorrect == Spec => []TypeOK
  BY TypeInit, TypeStep, PTL DEF Spec

---------------------------------------------------------------------------
(* How often a datagram is in a socket, and how that changes. *)

Occurs(q, x) == Cardinality({i \in DOMAIN q : q[i] = x})

(* An occurrence count is a natural number. *)
LEMMA OccursNat ==
  ASSUME NEW S, NEW q \in Seq(S), NEW x
  PROVE  IsFiniteSet({i \in DOMAIN q : q[i] = x}) /\ Occurs(q, x) \in Nat
  <1>1. IsFiniteSet(1..Len(q))
    BY FS_Interval
  <1>2. {i \in DOMAIN q : q[i] = x} \in SUBSET (1..Len(q))
    OBVIOUS
  <1>3. IsFiniteSet({i \in DOMAIN q : q[i] = x})
    BY <1>1, <1>2, FS_Subset
  <1> QED BY <1>3, FS_CardinalityType DEF Occurs

(* Nothing occurs in the empty sequence. *)
LEMMA OccursEmpty == \A x : Occurs(<<>>, x) = 0
  BY FS_EmptySet DEF Occurs

(* Appending an element adds an occurrence of it and of nothing else. *)
LEMMA OccursAppend ==
  ASSUME NEW S, NEW q \in Seq(S), NEW m \in S, NEW x
  PROVE  Occurs(Append(q, m), x) = Occurs(q, x) + (IF m = x THEN 1 ELSE 0)
  <1> DEFINE A == {i \in DOMAIN q : q[i] = x}
             B == {i \in DOMAIN Append(q, m) : Append(q, m)[i] = x}
  <1>1. IsFiniteSet(A) /\ Cardinality(A) \in Nat
    BY OccursNat, FS_CardinalityType
  <1>2. B = IF m = x THEN A \cup {Len(q) + 1} ELSE A
    OBVIOUS
  <1>3. Len(q) + 1 \notin A
    OBVIOUS
  <1>4. Cardinality(B) = Cardinality(A) + (IF m = x THEN 1 ELSE 0)
    <2> HIDE DEF A, B
    <2>1. Cardinality(A \cup {Len(q) + 1}) = Cardinality(A) + 1
      BY <1>1, <1>3, FS_AddElement
    <2> QED BY <1>1, <1>2, <2>1
  <1> QED BY <1>4 DEF Occurs

(* Removing the head removes an occurrence of it and of nothing else. *)
LEMMA OccursTail ==
  ASSUME NEW S, NEW q \in Seq(S), q # <<>>, NEW x
  PROVE  /\ Occurs(Tail(q), x) \in Nat
         /\ Occurs(q, x) = Occurs(Tail(q), x) + (IF Head(q) = x THEN 1 ELSE 0)
  <1> DEFINE A == {i \in DOMAIN Tail(q) : Tail(q)[i] = x}
             B == {i \in DOMAIN q : q[i] = x}
             C == B \ {1}
             F == [i \in A |-> i + 1]
  <1>1. Tail(q) \in Seq(S)
    OBVIOUS
  <1>2. IsFiniteSet(A) /\ IsFiniteSet(B) /\ Cardinality(A) \in Nat
    BY <1>1, OccursNat, FS_CardinalityType
  <1>3. \A i \in A : i \in Nat /\ i + 1 \in C
    OBVIOUS
  <1>4. \A j \in C : j - 1 \in A /\ j = (j - 1) + 1
    OBVIOUS
  <1>5. F \in Bijection(A, C)
    <2> HIDE DEF A, C
    <2>1. F \in [A -> C] /\ \A a, b \in A : F[a] = F[b] => a = b
      BY <1>3
    <2>2. \A c \in C : \E a \in A : F[a] = c
      BY <1>4
    <2> HIDE DEF F
    <2> QED BY <2>1, <2>2, Fun_IsBij
  <1>6. Cardinality(C) = Cardinality(A)
    <2> HIDE DEF A, C, F
    <2> QED BY <1>2, <1>5, FS_Bijection, Fun_ExistsBij
  <1>7. Cardinality(C) = IF 1 \in B THEN Cardinality(B) - 1 ELSE Cardinality(B)
    BY <1>2, FS_RemoveElement
  <1>8. 1 \in B <=> Head(q) = x
    OBVIOUS
  <1>9. Cardinality(B) \in Nat
    BY <1>2, FS_CardinalityType
  <1>10. Cardinality(B) = Cardinality(A) + (IF Head(q) = x THEN 1 ELSE 0)
    <2> HIDE DEF A, B, C
    <2> QED BY <1>2, <1>6, <1>7, <1>8, <1>9
  <1> QED BY <1>2, <1>10 DEF Occurs

---------------------------------------------------------------------------
(* No session without a RES that was right.  The order to create one       *)
(* travels as a Security Mode Command, is answered by a Security Mode      *)
(* Complete, and reaches the SGW-C as a request: there are never more      *)
(* sessions and such orders on the way than the MME has verified.          *)

SMCommand == Msg("SECURITY_MODE_COMMAND")
SMComplete == Msg("SECURITY_MODE_COMPLETE")

OnTheWay ==
    Occurs(s1Down, SMCommand) + Occurs(uuDown, SMCommand)
    + Occurs(uuUp, SMComplete) + Occurs(s1Up, SMComplete) + Occurs(s11In, "create")

Paid == sessions + OnTheWay <= verified

(* The accounting holds initially: nothing was sent and nothing is owed. *)
LEMMA PaidInit == Init => Paid
  BY OccursEmpty DEF Init, Paid, OnTheWay

(* Which messages are orders.                                              *)
LEMMA Orders ==
    /\ SMCommand \in S1DownMsgs \cap UuDownMsgs /\ SMComplete \in UuUpMsgs \cap S1UpMsgs
    /\ \A t \in {"ATTACH_REJECT", "DETACH_ACCEPT", "RELEASE_COMMAND"} :
          Msg(t) \in S1DownMsgs /\ Msg(t) # SMCommand
    /\ \A t \in {"AUTH_REQUEST", "ATTACH_ACCEPT"}, n \in Nat :
          MsgOf(t, n) \in S1DownMsgs /\ MsgOf(t, n) # SMCommand
    /\ \A t \in {"ATTACH_REQUEST", "ATTACH_COMPLETE", "DETACH_REQUEST"} :
          Msg(t) \in UuUpMsgs /\ Msg(t) # SMComplete
    /\ \A t \in {"SETUP_RESPONSE", "RELEASE_COMPLETE"} : Msg(t) \in S1UpMsgs /\ Msg(t) # SMComplete
    /\ \A n \in Nat : MsgOf("AUTH_RESPONSE", n) \in UuUpMsgs
          /\ MsgOf("AUTH_RESPONSE", n) # SMComplete
    /\ \A m \in S1DownMsgs \cup UuDownMsgs : m.t = "SECURITY_MODE_COMMAND" <=> m = SMCommand
    /\ \A m \in S1UpMsgs : m.t = "SECURITY_MODE_COMPLETE" <=> m = SMComplete
  BY DEF SMCommand, SMComplete, Msg, MsgOf, UpTypes, DownTypes, Plain, UuUpMsgs, UuDownMsgs,
      S1UpMsgs, S1DownMsgs

(* A socket from one state to the next. *)
LEMMA OccursMoves ==
  ASSUME NEW S, NEW q \in Seq(S), NEW r \in Seq(S), NEW x
  PROVE  /\ Occurs(q, x) \in Nat /\ Occurs(r, x) \in Nat
         /\ r = q => Occurs(r, x) = Occurs(q, x)
         /\ \A m \in S : r = Append(q, m) => Occurs(r, x) = Occurs(q, x) + (IF m = x THEN 1 ELSE 0)
         /\ q # <<>> => Head(q) \in S
         /\ q # <<>> /\ r = Tail(q) => Occurs(q, x) = Occurs(r, x) + (IF Head(q) = x THEN 1 ELSE 0)
  <1>1. Occurs(q, x) \in Nat /\ Occurs(r, x) \in Nat
    BY OccursNat
  <1>2. \A m \in S : Occurs(Append(q, m), x) = Occurs(q, x) + (IF m = x THEN 1 ELSE 0)
    BY OccursAppend
  <1>3. q # <<>> => /\ Head(q) \in S
                   /\ Occurs(q, x) = Occurs(Tail(q), x) + (IF Head(q) = x THEN 1 ELSE 0)
    BY OccursTail
  <1> QED BY <1>1, <1>2, <1>3

(* Every step keeps the accounting. *)
LEMMA PaidStep == TypeOK /\ TypeOK' /\ Paid /\ [Next]_vars => Paid'
  <1> SUFFICES ASSUME Values, Grants, Radio, CoreSockets, Values', Radio', CoreSockets', Paid,
                      [Next]_vars
               PROVE  Paid'
    BY Parts, PartsPrimed
  <1>1. SMCommand' = SMCommand /\ SMComplete' = SMComplete
    BY DEF SMCommand, SMComplete, Msg
  <1>3. PICK a \in Nat, an \in Nat :
            /\ a = Occurs(s1Down, SMCommand) /\ an = Occurs(s1Down', SMCommand)
            /\ s1Down' = s1Down => an = a
            /\ \A m \in S1DownMsgs : s1Down' = Append(s1Down, m) =>
                  an = a + (IF m = SMCommand THEN 1 ELSE 0)
            /\ s1Down # <<>> => Head(s1Down) \in S1DownMsgs
            /\ s1Down # <<>> /\ s1Down' = Tail(s1Down) =>
                  a = an + (IF Head(s1Down) = SMCommand THEN 1 ELSE 0)
    <2>1. s1Down \in Seq(S1DownMsgs) /\ s1Down' \in Seq(S1DownMsgs)
      BY DEF Radio
    <2> QED BY <2>1, OccursMoves
  <1>4. PICK b \in Nat, bn \in Nat :
            /\ b = Occurs(uuDown, SMCommand) /\ bn = Occurs(uuDown', SMCommand)
            /\ uuDown' = uuDown => bn = b
            /\ \A m \in UuDownMsgs : uuDown' = Append(uuDown, m) =>
                  bn = b + (IF m = SMCommand THEN 1 ELSE 0)
            /\ uuDown # <<>> => Head(uuDown) \in UuDownMsgs
            /\ uuDown # <<>> /\ uuDown' = Tail(uuDown) =>
                  b = bn + (IF Head(uuDown) = SMCommand THEN 1 ELSE 0)
    <2>1. uuDown \in Seq(UuDownMsgs) /\ uuDown' \in Seq(UuDownMsgs)
      BY DEF Radio
    <2> QED BY <2>1, OccursMoves
  <1>5. PICK c \in Nat, cn \in Nat :
            /\ c = Occurs(uuUp, SMComplete) /\ cn = Occurs(uuUp', SMComplete)
            /\ uuUp' = uuUp => cn = c
            /\ \A m \in UuUpMsgs : uuUp' = Append(uuUp, m) =>
                  cn = c + (IF m = SMComplete THEN 1 ELSE 0)
            /\ uuUp # <<>> => Head(uuUp) \in UuUpMsgs
            /\ uuUp # <<>> /\ uuUp' = Tail(uuUp) =>
                  c = cn + (IF Head(uuUp) = SMComplete THEN 1 ELSE 0)
    <2>1. uuUp \in Seq(UuUpMsgs) /\ uuUp' \in Seq(UuUpMsgs)
      BY DEF Radio
    <2> QED BY <2>1, OccursMoves
  <1>6. PICK d \in Nat, dn \in Nat :
            /\ d = Occurs(s1Up, SMComplete) /\ dn = Occurs(s1Up', SMComplete)
            /\ s1Up' = s1Up => dn = d
            /\ \A m \in S1UpMsgs : s1Up' = Append(s1Up, m) =>
                  dn = d + (IF m = SMComplete THEN 1 ELSE 0)
            /\ s1Up # <<>> => Head(s1Up) \in S1UpMsgs
            /\ s1Up # <<>> /\ s1Up' = Tail(s1Up) =>
                  d = dn + (IF Head(s1Up) = SMComplete THEN 1 ELSE 0)
    <2>1. s1Up \in Seq(S1UpMsgs) /\ s1Up' \in Seq(S1UpMsgs)
      BY DEF Radio
    <2> QED BY <2>1, OccursMoves
  <1>7. PICK e \in Nat, en \in Nat :
            /\ e = Occurs(s11In, "create") /\ en = Occurs(s11In', "create")
            /\ s11In' = s11In => en = e
            /\ \A m \in {"create", "modify", "delete"} : s11In' = Append(s11In, m) =>
                  en = e + (IF m = "create" THEN 1 ELSE 0)
            /\ s11In # <<>> => Head(s11In) \in {"create", "modify", "delete"}
            /\ s11In # <<>> /\ s11In' = Tail(s11In) =>
                  e = en + (IF Head(s11In) = "create" THEN 1 ELSE 0)
    <2>1. /\ s11In \in Seq({"create", "modify", "delete"})
          /\ s11In' \in Seq({"create", "modify", "delete"})
      BY DEF CoreSockets
    <2> QED BY <2>1, OccursMoves, SMTT(30)
  <1>8. PICK p \in Nat, pn \in Nat, r \in Nat, rn \in Nat :
            p = sessions /\ pn = sessions' /\ r = verified /\ rn = verified'
    BY DEF Values
  <1>9. p + (a + b + c + d + e) <= r
    BY <1>3, <1>4, <1>5, <1>6, <1>7, <1>8 DEF Paid, OnTheWay
  <1>10. SUFFICES pn + (an + bn + cn + dn + en) <= rn
    BY <1>1, <1>3, <1>4, <1>5, <1>6, <1>7, <1>8 DEF Paid, OnTheWay
  <1>11. CASE NoteAttach \/ SendDetach \/ Control \/ UNCHANGED vars
    <2>1. an = a /\ bn = b /\ dn = d /\ en = e /\ pn = p /\ rn = r
      BY <1>3, <1>4, <1>6, <1>7, <1>8, <1>11
      DEF NoteAttach, SendDetach, Control, SendAttach, NoteDetach, radioNet, coreNet, coreVars,
          mmeVars, vars
    <2>2. \/ uuUp' = uuUp
          \/ \E t \in {"ATTACH_REQUEST", "DETACH_REQUEST"} : uuUp' = Append(uuUp, Msg(t))
      BY <1>11 DEF NoteAttach, SendDetach, Control, SendAttach, NoteDetach, radioNet, vars
    <2>3. cn = c
      BY <1>5, <2>2, Orders
    <2> QED BY <1>9, <2>1, <2>3
  <1>12. CASE UeNas
    <2>1. bn + cn <= b + c
      <3>1. /\ uuDown # <<>> /\ Head(uuDown) \in UuDownMsgs
            /\ b = bn + (IF Head(uuDown) = SMCommand THEN 1 ELSE 0)
        BY <1>4, <1>12
        DEF UeNas, UeAuthenticates, UeSecures, UeAccepted, UeRefused, UeReleased, UeReads
      <3>2. CASE UeSecures
        <4>1. Head(uuDown) = SMCommand
          BY <3>1, <3>2, Orders DEF UeSecures, UeReads
        <4>2. cn = c + 1
          BY <1>5, <3>2, Orders DEF UeSecures, UeSends, SMComplete
        <4> QED BY <3>1, <4>1, <4>2
      <3>3. CASE UeAuthenticates
        <4>1. Head(uuDown).v \in Nat
          BY <3>1, <3>3, Built DEF UeAuthenticates, UeReads
        <4>2. cn = c
          BY <1>5, <3>3, <4>1, Orders DEF UeAuthenticates, UeSends
        <4> QED BY <3>1, <4>2
      <3>4. CASE UeAccepted \/ UeRefused \/ UeReleased
        <4>1. cn = c
          BY <1>5, <3>4, Orders DEF UeAccepted, UeRefused, UeReleased, UeSends
        <4> QED BY <3>1, <4>1
      <3> QED BY <1>12, <3>2, <3>3, <3>4 DEF UeNas
    <2>2. an = a /\ dn = d /\ en = e /\ pn = p /\ rn = r
      BY <1>3, <1>6, <1>7, <1>8, <1>12 DEF UeNas, coreNet, coreVars, mmeVars
    <2> QED BY <1>9, <2>1, <2>2
  <1>13. CASE EnbUplink
    <2>1. cn + dn = c + d
      <3>1. /\ uuUp # <<>> /\ uuUp' = Tail(uuUp) /\ s1Up' = Append(s1Up, Head(uuUp))
            /\ Head(uuUp) \in S1UpMsgs
        BY <1>5, <1>13, Built DEF EnbUplink
      <3>2. c = cn + (IF Head(uuUp) = SMComplete THEN 1 ELSE 0)
        BY <1>5, <3>1
      <3>3. dn = d + (IF Head(uuUp) = SMComplete THEN 1 ELSE 0)
        BY <1>6, <3>1
      <3> QED BY <3>2, <3>3
    <2>2. an = a /\ bn = b /\ en = e /\ pn = p /\ rn = r
      BY <1>3, <1>4, <1>7, <1>8, <1>13 DEF EnbUplink, coreNet, coreVars, mmeVars
    <2> QED BY <1>9, <2>1, <2>2
  <1>14. CASE EnbDownlink
    <2>1. an + bn = a + b /\ dn = d
      <3>1. /\ s1Down # <<>> /\ Head(s1Down) \in S1DownMsgs
            /\ a = an + (IF Head(s1Down) = SMCommand THEN 1 ELSE 0)
        BY <1>3, <1>14 DEF EnbDownlink
      <3>2. CASE EnbReleases
        <4>1. Head(s1Down) # SMCommand /\ bn = b
          BY <1>4, <3>1, <3>2, Orders DEF EnbReleases
        <4>2. dn = d
          BY <1>6, <3>2, Orders DEF EnbReleases
        <4> QED BY <3>1, <4>1, <4>2
      <3>3. CASE EnbSetsUp \/ EnbRelays
        <4>1. Head(s1Down) \in UuDownMsgs /\ uuDown' = Append(uuDown, Head(s1Down))
          BY <3>1, <3>3, Built DEF EnbSetsUp, EnbRelays
        <4>2. bn = b + (IF Head(s1Down) = SMCommand THEN 1 ELSE 0)
          BY <1>4, <4>1
        <4>3. dn = d
          BY <1>6, <3>3, Orders DEF EnbSetsUp, EnbRelays
        <4> QED BY <3>1, <4>2, <4>3
      <3> QED BY <1>14, <3>2, <3>3 DEF EnbDownlink
    <2>2. cn = c /\ en = e /\ pn = p /\ rn = r
      BY <1>5, <1>7, <1>8, <1>14 DEF EnbDownlink, coreNet, coreVars, mmeVars
    <2> QED BY <1>9, <2>1, <2>2
  <1>15. CASE EnbConfirms
    <2>1. dn = d
      BY <1>6, <1>15, Orders DEF EnbConfirms
    <2>2. an = a /\ bn = b /\ cn = c /\ en = e /\ pn = p /\ rn = r
      BY <1>3, <1>4, <1>5, <1>7, <1>8, <1>15 DEF EnbConfirms, coreNet, coreVars, mmeVars
    <2> QED BY <1>9, <2>1, <2>2
  <1>16. CASE OnAttachRequest \/ OnSecurityComplete \/ OnDetachRequest \/ OnSetupResponse \/ OnOther
    <2>1. dn + en <= d + e
      <3>1. /\ s1Up # <<>> /\ Head(s1Up) \in S1UpMsgs
            /\ d = dn + (IF Head(s1Up) = SMComplete THEN 1 ELSE 0)
        BY <1>6, <1>16
        DEF OnAttachRequest, OnSecurityComplete, OnDetachRequest, OnSetupResponse, OnOther, MmeReads
      <3>2. CASE OnSecurityComplete
        <4>1. Head(s1Up) = SMComplete
          BY <3>1, <3>2, Orders DEF OnSecurityComplete, MmeReads
        <4>2. en = e + 1
          BY <1>7, <3>2 DEF OnSecurityComplete, AsksSgwc
        <4> QED BY <3>1, <4>1, <4>2
      <3>3. CASE OnDetachRequest \/ OnSetupResponse
        <4>1. en = e
          BY <1>7, <3>3 DEF OnDetachRequest, OnSetupResponse, AsksSgwc
        <4> QED BY <3>1, <4>1
      <3>4. CASE OnAttachRequest \/ OnOther
        <4>1. en = e
          BY <1>7, <3>4 DEF OnAttachRequest, OnOther, AsksHss, coreNet
        <4> QED BY <3>1, <4>1
      <3> QED BY <1>16, <3>2, <3>3, <3>4
    <2>2. an = a /\ bn = b /\ cn = c /\ pn = p /\ rn = r
      BY <1>3, <1>4, <1>5, <1>8, <1>16
      DEF OnAttachRequest, OnSecurityComplete, OnDetachRequest, OnSetupResponse, OnOther, MmeReads,
          coreVars, mmeVars
    <2> QED BY <1>9, <2>1, <2>2
  <1>17. CASE OnAuthResponse
    <2>1. dn <= d /\ ((an = a /\ rn = r) \/ (an = a + 1 /\ rn = r + 1))
      <3>1. dn <= d
        BY <1>6, <1>17 DEF OnAuthResponse, MmeReads
      <3>2. \/ s1Down' = Append(s1Down, SMCommand) /\ rn = r + 1
            \/ s1Down' = Append(s1Down, Msg("ATTACH_REJECT")) /\ rn = r
        BY <1>8, <1>17 DEF OnAuthResponse, SMCommand
      <3>3. /\ SMCommand \in S1DownMsgs
            /\ Msg("ATTACH_REJECT") \in S1DownMsgs /\ Msg("ATTACH_REJECT") # SMCommand
        BY Orders
      <3>4. s1Down' = Append(s1Down, SMCommand) => an = a + 1
        BY <1>3, <3>3
      <3>5. s1Down' = Append(s1Down, Msg("ATTACH_REJECT")) => an = a
        BY <1>3, <3>3
      <3>6. (an = a /\ rn = r) \/ (an = a + 1 /\ rn = r + 1)
        BY Zenon, <3>2, <3>4, <3>5
      <3> QED BY <3>1, <3>6
    <2>2. bn = b /\ cn = c /\ en = e /\ pn = p
      BY <1>4, <1>5, <1>7, <1>8, <1>17 DEF OnAuthResponse, MmeReads, coreNet, coreVars
    <2> QED BY <1>9, <2>1, <2>2
  <1>18. CASE Challenged \/ NotChallenged
    <2>1. s6aOut # <<>> => Head(s6aOut) \in Nat \cup {None}
      BY DEF CoreSockets
    <2>2. an = a
      BY <1>3, <1>18, <2>1, Orders DEF Challenged, NotChallenged, MmeResumes, HssAnswered
    <2>3. bn = b /\ cn = c /\ dn = d /\ en = e /\ pn = p /\ rn = r
      BY <1>4, <1>5, <1>6, <1>7, <1>8, <1>18 DEF Challenged, NotChallenged, MmeResumes, coreVars
    <2> QED BY <1>9, <2>2, <2>3
  <1>19. CASE Created \/ CreatedWithoutAddress \/ NotCreated \/ Modified
    <2>1. s11Out # <<>> => Head(s11Out) \in Nat \cup {None}
      BY DEF CoreSockets
    <2>2. an = a
      BY <1>3, <1>19, <2>1, Orders
      DEF Created, CreatedWithoutAddress, NotCreated, Modified, MmeResumes, SgwcAnswered
    <2>3. bn = b /\ cn = c /\ dn = d /\ en = e /\ pn = p /\ rn = r
      BY <1>4, <1>5, <1>6, <1>7, <1>8, <1>19
      DEF Created, CreatedWithoutAddress, NotCreated, Modified, MmeResumes, coreVars
    <2> QED BY <1>9, <2>2, <2>3
  <1>20. CASE Deleted
    <2> DEFINE q == Append(s1Down, Msg("DETACH_ACCEPT"))
    <2>1. /\ s1Down \in Seq(S1DownMsgs) /\ q \in Seq(S1DownMsgs)
          /\ s1Down' = Append(q, Msg("RELEASE_COMMAND"))
          /\ s1Down' \in Seq(S1DownMsgs)
      BY <1>20, Orders DEF Radio, Deleted
    <2>2. Occurs(q, SMCommand) = Occurs(s1Down, SMCommand)
      <3>1. Msg("DETACH_ACCEPT") \in S1DownMsgs /\ Msg("DETACH_ACCEPT") # SMCommand
        BY Orders
      <3> HIDE DEF q
      <3>2. q = Append(s1Down, Msg("DETACH_ACCEPT"))
        BY DEF q
      <3>3. Occurs(s1Down, SMCommand) \in Nat
        BY <1>3
      <3> QED BY <2>1, <3>1, <3>2, <3>3, OccursAppend
    <2>3. Occurs(s1Down', SMCommand) = Occurs(q, SMCommand)
      <3>1. Msg("RELEASE_COMMAND") \in S1DownMsgs /\ Msg("RELEASE_COMMAND") # SMCommand
        BY Orders
      <3>2. Occurs(q, SMCommand) \in Nat
        BY <1>3, <2>2
      <3> HIDE DEF q
      <3> QED BY <2>1, <3>1, <3>2, OccursAppend
    <2>4. bn = b /\ cn = c /\ dn = d /\ en = e /\ pn = p /\ rn = r
      BY <1>4, <1>5, <1>6, <1>7, <1>8, <1>20 DEF Deleted, MmeResumes, coreVars
    <2>5. an = a
      BY <1>3, <2>2, <2>3
    <2> QED BY <1>9, <2>4, <2>5
  <1>21. CASE Hss
    <2>1. an = a /\ bn = b /\ cn = c /\ dn = d /\ en = e /\ pn = p /\ rn = r
      BY <1>3, <1>4, <1>5, <1>6, <1>7, <1>8, <1>21 DEF Hss, radioNet, mmeVars
    <2> QED BY <1>9, <2>1
  <1>22. CASE Sgwc
    <2>1. en + pn <= e + p
      <3>1. e = en + (IF Head(s11In) = "create" THEN 1 ELSE 0)
        BY <1>7, <1>22, Served
      <3>2. sessions' = sessions \/ (Head(s11In) = "create" /\ sessions' = sessions + 1)
        BY <1>22, Served DEF Confirms, Refuses
      <3> QED BY <1>7, <1>8, <3>1, <3>2
    <2>2. an = a /\ bn = b /\ cn = c /\ dn = d /\ rn = r
      BY <1>3, <1>4, <1>5, <1>6, <1>8, <1>22, Served DEF radioNet, mmeVars
    <2> QED BY <1>9, <2>1, <2>2
  <1>23. CASE Lose
    <2>1. an <= a
      <3>1. s1Down' = s1Down \/ (s1Down # <<>> /\ s1Down' = Tail(s1Down))
        BY <1>23 DEF Lose, radioNet
      <3> QED BY <1>3, <3>1
    <2>2. bn <= b
      <3>1. uuDown' = uuDown \/ (uuDown # <<>> /\ uuDown' = Tail(uuDown))
        BY <1>23 DEF Lose, radioNet
      <3> QED BY <1>4, <3>1
    <2>3. cn <= c
      <3>1. uuUp' = uuUp \/ (uuUp # <<>> /\ uuUp' = Tail(uuUp))
        BY <1>23 DEF Lose, radioNet
      <3> QED BY <1>5, <3>1
    <2>4. dn <= d
      <3>1. s1Up' = s1Up \/ (s1Up # <<>> /\ s1Up' = Tail(s1Up))
        BY <1>23 DEF Lose, radioNet
      <3> QED BY <1>6, <3>1
    <2>5. en <= e /\ pn = p /\ rn = r
      BY <1>7, <1>8, <1>23 DEF Lose, coreNet, coreVars, mmeVars
    <2> QED BY <1>9, <2>1, <2>2, <2>3, <2>4, <2>5
  <1> QED
    BY <1>11, <1>12, <1>13, <1>14, <1>15, <1>16, <1>17, <1>18, <1>19, <1>20, <1>21, <1>22,
       <1>23
    DEF Next, Mme

(* The accounting implies that sessions are verified. *)
LEMMA PaidEnough == TypeOK /\ Paid => SessionsVerified
  <1> SUFFICES ASSUME Values, Radio, CoreSockets, Paid PROVE SessionsVerified
    BY Parts
  <1>1. OnTheWay \in Nat
    <2>1. /\ Occurs(s1Down, SMCommand) \in Nat /\ Occurs(uuDown, SMCommand) \in Nat
          /\ Occurs(uuUp, SMComplete) \in Nat /\ Occurs(s1Up, SMComplete) \in Nat
          /\ Occurs(s11In, "create") \in Nat
      BY OccursNat DEF Radio, CoreSockets
    <2> QED BY <2>1 DEF OnTheWay
  <1> QED BY <1>1 DEF Values, Paid, SessionsVerified

(* The network never creates more sessions than the MME found RES right,   *)
(* for any number of commands and faults: a replayed, late or crossing     *)
(* Security Mode Complete never makes a second session out of one RES.     *)
THEOREM SessionsVerifiedHolds == Spec => []SessionsVerified
  <1>1. Init => TypeOK /\ Paid
    BY TypeInit, PaidInit
  <1>2. (TypeOK /\ Paid) /\ [Next]_vars => (TypeOK /\ Paid)'
    BY TypeStep, PaidStep
  <1>3. TypeOK /\ Paid => SessionsVerified
    BY PaidEnough
  <1> QED BY <1>1, <1>2, <1>3, PTL DEF Spec
=============================================================================
