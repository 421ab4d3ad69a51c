------------------------ MODULE AttachSettledProofs -------------------------
(***************************************************************************)
(* Proof that UE, eNB and SGW-C agree when all is quiet and nothing has    *)
(* gone wrong, for any number of commands, whatever attaches and detaches  *)
(* cross on the way.                                                       *)
(*                                                                         *)
(* The sockets on the way down are queues, so what counts is the last word *)
(* on its way: once it is read, it is what the reader believes.  The MME   *)
(* says it when the SGW-C has answered, and the invariant relates it to    *)
(* the session the SGW-C has.                                              *)
(***************************************************************************)
EXTENDS AttachPromiseProofs

---------------------------------------------------------------------------
(* The last message of the types T in a queue, as a set of one or none;    *)
(* and what stands after the queue is read, if x stands before.            *)

Silent(q, T) == \A i \in DOMAIN q : q[i].t \notin T

Lasts(q, T) ==
    {q[i] : i \in {k \in DOMAIN q : /\ q[k].t \in T
                                    /\ \A j \in DOMAIN q : j > k => q[j].t \notin T}}

After(x, q, T) == Lasts(q, T) \cup (IF Silent(q, T) THEN {x} ELSE {})

(* What stands after first q and then r is read, when r flows into q.      *)
Final(x, q, r, T) == Lasts(r, T) \cup (IF Silent(r, T) THEN After(x, q, T) ELSE {})

---------------------------------------------------------------------------
(* The invariant. *)

(* What the eNB and the UE would believe, had they just been told it.      *)
Bearing == {"ATTACH_ACCEPT", "RELEASE_COMMAND"}
Word(b) == IF b = None THEN Msg("RELEASE_COMMAND") ELSE MsgOf("ATTACH_ACCEPT", b)

Offering == {"ATTACH_ACCEPT"}

Verdicts == {"ATTACH_ACCEPT", "ATTACH_REJECT", "DETACH_ACCEPT"}
Verdict ==
    CASE ue = "ATTACHED" -> Msg("ATTACH_ACCEPT")
      [] ue = "REJECTED" -> Msg("ATTACH_REJECT")
      [] ue = "DETACHED" -> Msg("DETACH_ACCEPT")
      [] OTHER -> Msg(ue)

(* The request the MME waits for is in one socket, or its answer in the    *)
(* other: no datagram is late or too many.                                 *)
AwaitsHss ==
    \/ s6aIn = <<"AIR">> /\ s6aOut = <<>>
    \/ s6aIn = <<>> /\ s6aOut = <<IF known THEN Vector ELSE None>>

(* What the SGW-C has done when it has answered.                           *)
Done(a) ==
    /\ mme = "create" => a = session /\ session # None
    /\ mme = "delete" => session = None

AwaitsSgwc ==
    \/ s11In = <<mme>> /\ s11Out = <<>>
    \/ s11In = <<>> /\ s11Out # <<>> /\ Tail(s11Out) = <<>> /\ Done(Head(s11Out))

Waits ==
    /\ mme = "air" => AwaitsHss
    /\ mme # "air" => s6aIn = <<>> /\ s6aOut = <<>>
    /\ mme \in {"create", "modify", "delete"} => AwaitsSgwc
    /\ mme \notin {"create", "modify", "delete"} => s11In = <<>> /\ s11Out = <<>>

(* The SGW-C has answered a creation or a deletion, and the MME has not    *)
(* passed it on.                                                           *)
Told == mme \in {"create", "delete"} /\ s11In = <<>>

(* Nobody gets anywhere whom the HSS does not know, and whoever it does   *)
(* know has the right answer: no RES is turned away.                       *)
Asking == {"AUTH_REQUEST", "AUTH_RESPONSE"}
Securing == {"SECURITY_MODE_COMMAND", "SECURITY_MODE_COMPLETE"}
Due(m, k) ==
    /\ m.t \in Asking \cup Securing => k
    /\ m.t \in Asking => m.v = Vector
AllDue(q, k) == \A i \in DOMAIN q : Due(q[i], k)

Challenges ==
    /\ AllDue(uuUp, known) /\ AllDue(s1Up, known)
    /\ AllDue(uuDown, known) /\ AllDue(s1Down, known)
    /\ ~known => session = None /\ mme # "create"
    /\ known /\ ctx /\ mme # "air" => xres = Vector

(* The last word the eNB will get is of the session the SGW-C has ...      *)
BearerFollows == ~Told => After(Word(bearer), s1Down, Bearing) \subseteq {Word(session)}

(* ... so is the address the UE will have ...                              *)
AddressFollows ==
    session # None /\ ~Told =>
        \A m \in Final(MsgOf("ATTACH_ACCEPT", ueIp), uuDown, s1Down, Offering) : m.v = session

(* ... and the state it will be in, unless an attach is still on its way   *)
(* to be accepted, or the UE notes last that it has detached.              *)
ComingDown == {"AUTH_REQUEST", "SECURITY_MODE_COMMAND"}
Coming ==
    \/ command = "attach" \/ mme \in {"air", "create"}
    \/ ~Silent(uuUp, AttachUp) \/ ~Silent(s1Up, AttachUp)
    \/ ~Silent(uuDown, ComingDown) \/ ~Silent(s1Down, ComingDown)

StateFollows ==
    \A m \in Final(Verdict, uuDown, s1Down, Verdicts) :
        /\ m.t = "ATTACH_ACCEPT" => session # None \/ Told
        /\ m.t \notin {"ATTACH_ACCEPT", "DETACH_SENT"} => session = None \/ Coming

(* The eNB takes the UE for attached when it has confirmed the bearer.     *)
BearerMarked ==
    /\ enb = "setup" => bearer # None
    /\ enb = "idle" => (attached <=> bearer # None)

InPace ==
    faults = 0 => Waits /\ Challenges /\ BearerFollows /\ AddressFollows /\ StateFollows

---------------------------------------------------------------------------
(* Queues. *)

(* A message at the end of a queue.                                        *)
LEMMA LastsAppend ==
  ASSUME NEW S, NEW q \in Seq(S), NEW n \in S, NEW T
  PROVE  /\ Silent(Append(q, n), T) <=> Silent(q, T) /\ n.t \notin T
         /\ Lasts(Append(q, n), T) = IF n.t \in T THEN {n} ELSE Lasts(q, T)
  <1> DEFINE r == Append(q, n)
  <1>1. /\ DOMAIN q = 1 .. Len(q) /\ DOMAIN r = 1 .. Len(q) + 1 /\ Len(q) \in Nat
        /\ \A i \in DOMAIN q : r[i] = q[i]
        /\ r[Len(q) + 1] = n
    OBVIOUS
  <1> HIDE DEF r
  <1>2. \A i \in DOMAIN r : i \in DOMAIN q \/ i = Len(q) + 1
    BY <1>1
  <1>3. Silent(r, T) <=> Silent(q, T) /\ n.t \notin T
    BY <1>1, <1>2 DEF Silent
  <1>4. ASSUME n.t \in T PROVE Lasts(r, T) = {n}
    <2>1. n \in Lasts(r, T)
      <3>1. Len(q) + 1 \in DOMAIN r /\ \A j \in DOMAIN r : ~(j > Len(q) + 1)
        BY <1>1
      <3> QED BY <1>1, <1>4, <3>1 DEF Lasts
    <2>2. ASSUME NEW m \in Lasts(r, T) PROVE m = n
      <3>1. PICK i \in DOMAIN r : m = r[i] /\ \A j \in DOMAIN r : j > i => r[j].t \notin T
        BY <2>2 DEF Lasts
      <3>2. CASE i \in DOMAIN q
        <4>1. Len(q) + 1 \in DOMAIN r /\ Len(q) + 1 > i
          BY <1>1, <3>2
        <4> QED BY <1>1, <1>4, <3>1, <4>1
      <3> QED BY <1>1, <1>2, <3>1, <3>2
    <2> QED BY <2>1, <2>2
  <1>5. ASSUME n.t \notin T PROVE Lasts(r, T) = Lasts(q, T)
    <2>1. ASSUME NEW m \in Lasts(r, T) PROVE m \in Lasts(q, T)
      <3>1. PICK i \in DOMAIN r : /\ m = r[i] /\ r[i].t \in T
                                  /\ \A j \in DOMAIN r : j > i => r[j].t \notin T
        BY <2>1 DEF Lasts
      <3>2. i \in DOMAIN q
        BY <1>1, <1>2, <1>5, <3>1
      <3>3. \A j \in DOMAIN q : j > i => q[j].t \notin T
        BY <1>1, <3>1
      <3> QED BY <1>1, <3>1, <3>2, <3>3 DEF Lasts
    <2>2. ASSUME NEW m \in Lasts(q, T) PROVE m \in Lasts(r, T)
      <3>1. PICK i \in DOMAIN q : /\ m = q[i] /\ q[i].t \in T
                                  /\ \A j \in DOMAIN q : j > i => q[j].t \notin T
        BY <2>2 DEF Lasts
      <3>2. i \in DOMAIN r /\ \A j \in DOMAIN r : j > i => r[j].t \notin T
        BY <1>1, <1>2, <1>5, <3>1
      <3> QED BY <1>1, <3>1, <3>2 DEF Lasts
    <2> QED BY <2>1, <2>2
  <1>6. Lasts(r, T) = IF n.t \in T THEN {n} ELSE Lasts(q, T)
    BY <1>4, <1>5
  <1> QED BY <1>3, <1>6 DEF r

(* A message at the head of a queue.                                       *)
LEMMA LastsTail ==
  ASSUME NEW S, NEW q \in Seq(S), q # <<>>, NEW T
  PROVE  /\ Silent(q, T) <=> Head(q).t \notin T /\ Silent(Tail(q), T)
         /\ Silent(q, T) => Lasts(q, T) = {}
         /\ Lasts(q, T) = IF ~Silent(Tail(q), T) THEN Lasts(Tail(q), T)
                          ELSE IF Head(q).t \in T THEN {Head(q)} ELSE {}
  <1> DEFINE r == Tail(q)
  <1>1. /\ DOMAIN q = 1 .. Len(q) /\ DOMAIN r = 1 .. Len(q) - 1 /\ Len(q) \in Nat \ {0}
        /\ \A i \in DOMAIN r : r[i] = q[i + 1]
        /\ q[1] = Head(q)
    OBVIOUS
  <1> HIDE DEF r
  <1>2. /\ \A i \in DOMAIN q : i = 1 \/ (i - 1 \in DOMAIN r /\ r[i - 1] = q[i])
        /\ \A i \in DOMAIN r : i + 1 \in DOMAIN q /\ q[i + 1] = r[i] /\ i + 1 # 1
        /\ 1 \in DOMAIN q
    BY <1>1
  <1>3. Silent(q, T) <=> Head(q).t \notin T /\ Silent(r, T)
    BY <1>1, <1>2 DEF Silent
  <1>4. Silent(q, T) => Lasts(q, T) = {}
    BY DEF Silent, Lasts
  <1>5. ASSUME ~Silent(r, T) PROVE Lasts(q, T) = Lasts(r, T)
    <2>1. ASSUME NEW m \in Lasts(q, T) PROVE m \in Lasts(r, T)
      <3>1. PICK i \in DOMAIN q : /\ m = q[i] /\ q[i].t \in T
                                  /\ \A j \in DOMAIN q : j > i => q[j].t \notin T
        BY <2>1 DEF Lasts
      <3>2. PICK k \in DOMAIN r : r[k].t \in T
        BY <1>5 DEF Silent
      <3>3. i # 1
        <4>1. k + 1 \in DOMAIN q /\ k + 1 > 1 /\ q[k + 1].t \in T
          BY <1>1, <1>2, <3>2
        <4> QED BY <3>1, <4>1
      <3>4. i - 1 \in DOMAIN r /\ r[i - 1] = q[i]
        BY <1>2, <3>3
      <3>5. ASSUME NEW j \in DOMAIN r, j > i - 1 PROVE r[j].t \notin T
        <4>1. j + 1 \in DOMAIN q /\ j + 1 > i /\ q[j + 1] = r[j]
          BY <1>1, <1>2, <3>5
        <4> QED BY <3>1, <4>1
      <3> QED BY <3>1, <3>4, <3>5 DEF Lasts
    <2>2. ASSUME NEW m \in Lasts(r, T) PROVE m \in Lasts(q, T)
      <3>1. PICK i \in DOMAIN r : /\ m = r[i] /\ r[i].t \in T
                                  /\ \A j \in DOMAIN r : j > i => r[j].t \notin T
        BY <2>2 DEF Lasts
      <3>2. i + 1 \in DOMAIN q /\ q[i + 1] = r[i]
        BY <1>2
      <3>3. ASSUME NEW j \in DOMAIN q, j > i + 1 PROVE q[j].t \notin T
        <4>1. j - 1 \in DOMAIN r /\ r[j - 1] = q[j] /\ j - 1 > i
          BY <1>1, <1>2, <3>3
        <4> QED BY <3>1, <4>1
      <3> QED BY <3>1, <3>2, <3>3 DEF Lasts
    <2> QED BY <2>1, <2>2
  <1>6. ASSUME Silent(r, T), Head(q).t \in T PROVE Lasts(q, T) = {Head(q)}
    <2>1. Head(q) \in Lasts(q, T)
      <3>1. \A j \in DOMAIN q : j > 1 => q[j].t \notin T
        BY <1>1, <1>2, <1>6 DEF Silent
      <3> QED BY <1>1, <1>2, <1>6, <3>1 DEF Lasts
    <2>2. ASSUME NEW m \in Lasts(q, T) PROVE m = Head(q)
      BY <1>1, <1>2, <1>6, <2>2 DEF Lasts, Silent
    <2> QED BY <2>1, <2>2
  <1>7. Lasts(q, T) = IF ~Silent(r, T) THEN Lasts(r, T)
                      ELSE IF Head(q).t \in T THEN {Head(q)} ELSE {}
    BY <1>3, <1>4, <1>5, <1>6
  <1> QED BY <1>3, <1>4, <1>7 DEF r

(* What stands after a queue, as it is written to and read.                *)
LEMMA AfterMoves ==
  ASSUME NEW S, NEW q \in Seq(S), NEW T, NEW x
  PROVE  /\ \A n \in S : After(x, Append(q, n), T) = IF n.t \in T THEN {n} ELSE After(x, q, T)
         /\ q # <<>> => /\ Head(q).t \in T => After(x, q, T) = After(Head(q), Tail(q), T)
                        /\ Head(q).t \notin T => After(x, q, T) = After(x, Tail(q), T)
         /\ After(x, <<>>, T) = {x}
  <1>1. ASSUME NEW n \in S
        PROVE  After(x, Append(q, n), T) = IF n.t \in T THEN {n} ELSE After(x, q, T)
    <2>1. /\ Silent(Append(q, n), T) <=> Silent(q, T) /\ n.t \notin T
          /\ Lasts(Append(q, n), T) = IF n.t \in T THEN {n} ELSE Lasts(q, T)
      BY LastsAppend
    <2> QED BY <2>1 DEF After
  <1>2. ASSUME q # <<>>
        PROVE  /\ Head(q).t \in T => After(x, q, T) = After(Head(q), Tail(q), T)
               /\ Head(q).t \notin T => After(x, q, T) = After(x, Tail(q), T)
    <2>0. Tail(q) \in Seq(S)
      BY <1>2
    <2>1. Silent(Tail(q), T) => Lasts(Tail(q), T) = {}
      BY DEF Silent, Lasts
    <2>2. /\ Silent(q, T) <=> Head(q).t \notin T /\ Silent(Tail(q), T)
          /\ Lasts(q, T) = IF ~Silent(Tail(q), T) THEN Lasts(Tail(q), T)
                           ELSE IF Head(q).t \in T THEN {Head(q)} ELSE {}
      BY <1>2, LastsTail
    <2> QED BY <2>1, <2>2 DEF After
  <1>3. After(x, <<>>, T) = {x}
    BY DEF After, Silent, Lasts
  <1> QED BY <1>1, <1>2, <1>3

(* What stands after two queues, when the second is written to, the first  *)
(* is read, or a message passes from the second to the first or away.      *)
LEMMA FinalMoves ==
  ASSUME NEW S, NEW q \in Seq(S), NEW R, NEW r \in Seq(R), NEW T, NEW x
  PROVE  /\ \A n \in R : Final(x, q, Append(r, n), T)
                            = IF n.t \in T THEN {n} ELSE Final(x, q, r, T)
         /\ q # <<>> =>
               /\ Head(q).t \in T => Final(x, q, r, T) = Final(Head(q), Tail(q), r, T)
               /\ Head(q).t \notin T => Final(x, q, r, T) = Final(x, Tail(q), r, T)
         /\ r # <<>> =>
               /\ Head(r) \in S => Final(x, Append(q, Head(r)), Tail(r), T) = Final(x, q, r, T)
               /\ Head(r).t \notin T => Final(x, q, Tail(r), T) = Final(x, q, r, T)
         /\ Final(x, <<>>, <<>>, T) = {x}
  <1>1. ASSUME NEW n \in R
        PROVE  Final(x, q, Append(r, n), T) = IF n.t \in T THEN {n} ELSE Final(x, q, r, T)
    <2>1. /\ Silent(Append(r, n), T) <=> Silent(r, T) /\ n.t \notin T
          /\ Lasts(Append(r, n), T) = IF n.t \in T THEN {n} ELSE Lasts(r, T)
      BY LastsAppend
    <2> QED BY <2>1 DEF Final
  <1>2. ASSUME q # <<>>
        PROVE  /\ Head(q).t \in T => Final(x, q, r, T) = Final(Head(q), Tail(q), r, T)
               /\ Head(q).t \notin T => Final(x, q, r, T) = Final(x, Tail(q), r, T)
    <2>1. /\ Head(q).t \in T => After(x, q, T) = After(Head(q), Tail(q), T)
          /\ Head(q).t \notin T => After(x, q, T) = After(x, Tail(q), T)
      BY <1>2, AfterMoves
    <2> QED BY <2>1 DEF Final
  <1>3. ASSUME r # <<>>
        PROVE  /\ Head(r) \in S => Final(x, Append(q, Head(r)), Tail(r), T) = Final(x, q, r, T)
               /\ Head(r).t \notin T => Final(x, q, Tail(r), T) = Final(x, q, r, T)
    <2>1. /\ Silent(r, T) <=> Head(r).t \notin T /\ Silent(Tail(r), T)
          /\ Lasts(r, T) = IF ~Silent(Tail(r), T) THEN Lasts(Tail(r), T)
                           ELSE IF Head(r).t \in T THEN {Head(r)} ELSE {}
      BY <1>3, LastsTail
    <2>2. Silent(Tail(r), T) => Lasts(Tail(r), T) = {}
      BY DEF Silent, Lasts
    <2>3. Head(r) \in S => After(x, Append(q, Head(r)), T)
                              = IF Head(r).t \in T THEN {Head(r)} ELSE After(x, q, T)
      BY AfterMoves
    <2> QED BY <2>1, <2>2, <2>3 DEF Final
  <1>4. Final(x, <<>>, <<>>, T) = {x}
    BY DEF Final, After, Silent, Lasts
  <1> QED BY <1>1, <1>2, <1>3, <1>4

(* What a queue says to the reader who has read its head himself.          *)
LEMMA FinalSwap ==
  ASSUME NEW q, NEW r, NEW T, NEW x, NEW y, NEW m \in Final(y, q, r, T)
  PROVE  m \in Final(x, q, r, T) \/ (m = y /\ x \in Final(x, q, r, T))
  BY DEF Final, After

(* Messages that are due stay so, as they are sent and read.               *)
LEMMA DueMoves ==
  ASSUME NEW S, NEW q \in Seq(S), NEW k, AllDue(q, k)
  PROVE  /\ q # <<>> => AllDue(Tail(q), k) /\ Due(Head(q), k)
         /\ \A n \in S : Due(n, k) => AllDue(Append(q, n), k)
  <1>1. ASSUME q # <<>> PROVE AllDue(Tail(q), k) /\ Due(Head(q), k)
    <2>1. /\ 1 \in DOMAIN q /\ Head(q) = q[1]
          /\ \A i \in DOMAIN Tail(q) : i + 1 \in DOMAIN q /\ Tail(q)[i] = q[i + 1]
      BY <1>1
    <2> QED BY <2>1 DEF AllDue
  <1>2. ASSUME NEW n \in S, Due(n, k) PROVE AllDue(Append(q, n), k)
    <2>1. \A i \in DOMAIN Append(q, n) :
              Append(q, n)[i] = n \/ (i \in DOMAIN q /\ Append(q, n)[i] = q[i])
      OBVIOUS
    <2> QED BY <1>2, <2>1 DEF AllDue
  <1> QED BY <1>1, <1>2

---------------------------------------------------------------------------
(* Steps when nothing has gone wrong. *)

(* Nothing had gone wrong before, and nothing is lost now.                 *)
LEMMA StillNone ==
  ASSUME TypeOK, [Next]_vars, faults' = 0
  PROVE  faults = 0 /\ ~Lose
  <1>1. faults \in Nat /\ \A n \in Nat : Faults(n) => faults' = faults + n
    BY Parts DEF Values, Faults
  <1>2. faults' = faults \/ Faults(1) \/ Faults(0) \/ Sgwc
    <2>1. CASE Mme
      <3>1. CASE NotChallenged
        BY <3>1 DEF NotChallenged, HssAnswered, TimedOut
      <3>2. CASE NotCreated
        BY <3>2 DEF NotCreated, TimedOut
      <3>3. CASE Deleted
        BY <3>3 DEF Deleted, SgwcAnswered, TimedOut
      <3>4. CASE Modified
        BY <3>4 DEF Modified, SgwcAnswered, TimedOut
      <3>5. CASE Challenged \/ Created \/ CreatedWithoutAddress
        BY <3>5 DEF Challenged, Created, CreatedWithoutAddress, HssAnswered, SgwcAnswered
      <3>6. CASE OnAttachRequest \/ OnAuthResponse \/ OnSecurityComplete \/ OnDetachRequest
                 \/ OnSetupResponse \/ OnOther
        BY <3>6 DEF OnAttachRequest, OnAuthResponse, OnSecurityComplete, OnDetachRequest,
             OnSetupResponse, OnOther, MmeReads
      <3> QED BY <2>1, <3>1, <3>2, <3>3, <3>4, <3>5, <3>6 DEF Mme
    <2>2. CASE Sgwc
      BY <2>2
    <2>3. CASE Lose
      BY <2>3 DEF Lose
    <2>4. CASE Hss
      BY <2>4 DEF Hss
    <2>5. CASE NoteAttach \/ SendDetach \/ Control \/ UeNas \/ EnbUplink \/ EnbDownlink
               \/ EnbConfirms
      BY <2>5 DEF NoteAttach, SendDetach, Control, SendAttach, NoteDetach, UeNas, EnbUplink,
           EnbDownlink, EnbConfirms
    <2>6. CASE UNCHANGED vars
      BY <2>6 DEF vars
    <2> QED BY <2>1, <2>2, <2>3, <2>4, <2>5, <2>6 DEF Next
  <1>3. Lose => Faults(1)
    BY DEF Lose
  <1>4. Sgwc => faults <= faults'
    BY Served, Parts DEF Values
  <1> QED BY <1>1, <1>2, <1>3, <1>4

(* What the MME does not touch.                                            *)
Apart == UNCHANGED <<uuUp, uuDown, ue, ueIp, command, bearer, attached, known, session>>

(* It waits for what it has just asked, or for nothing.                    *)
AsksOnly ==
    /\ s6aIn' = (IF mme' = "air" THEN <<"AIR">> ELSE <<>>) /\ s6aOut' = <<>>
    /\ s11In' = (IF mme' \in {"create", "modify", "delete"} THEN <<mme'>> ELSE <<>>)
    /\ s11Out' = <<>>

Kept == UNCHANGED <<ctx, xres>>

(* The MME takes a datagram: whoever gets this far is known, and right.    *)
MmeTakes ==
    /\ mme = "idle" /\ s1Up # <<>> /\ s1Up' = Tail(s1Up)
    /\ \/ Head(s1Up).t = "ATTACH_REQUEST" /\ mme' = "air" /\ s1Down' = s1Down
       \/ /\ Head(s1Up).t = "AUTH_RESPONSE" /\ mme' = "idle"
          /\ s1Down' = Append(s1Down, Msg("SECURITY_MODE_COMMAND")) /\ Kept
       \/ Head(s1Up).t = "SECURITY_MODE_COMPLETE" /\ mme' = "create" /\ s1Down' = s1Down /\ Kept
       \/ /\ Head(s1Up).t \notin AttachUp /\ mme' \in {"idle", "modify", "delete"}
          /\ s1Down' = s1Down /\ Kept

LEMMA MmeReading ==
  ASSUME TypeOK, Waits, Challenges,
         OnAttachRequest \/ OnAuthResponse \/ OnSecurityComplete \/ OnDetachRequest
         \/ OnSetupResponse \/ OnOther
  PROVE  MmeTakes /\ AsksOnly /\ Apart
  <1>1. mme = "idle" =>
            s6aIn = <<>> /\ s6aOut = <<>> /\ s11In = <<>> /\ s11Out = <<>>
    BY DEF Waits
  <1>2. AttachUp = {"ATTACH_REQUEST", "AUTH_RESPONSE", "SECURITY_MODE_COMPLETE"}
    BY DEF AttachUp
  <1>3. CASE OnAttachRequest
    BY <1>1, <1>3 DEF OnAttachRequest, MmeReads, AsksHss, MmeTakes, AsksOnly, Apart, ueVars,
         enbVars, coreVars
  <1>4. CASE OnAuthResponse
    <2>1. MmeReads("AUTH_RESPONSE") /\ ctx /\ UNCHANGED <<mme, ctx, xres, coreNet>>
      BY <1>4 DEF OnAuthResponse
    <2>2. mme = "idle" /\ s1Up # <<>> /\ Head(s1Up).t = "AUTH_RESPONSE"
      BY <2>1 DEF MmeReads
    <2>3. Due(Head(s1Up), known)
      BY <2>2, DueMoves, Parts DEF Radio, Challenges
    <2>4. Head(s1Up).v = xres
      BY <2>1, <2>2, <2>3 DEF Due, Asking, Challenges
    <2>5. s1Down' = Append(s1Down, Msg("SECURITY_MODE_COMMAND"))
      BY <1>4, <2>4 DEF OnAuthResponse
    <2> QED BY <1>1, <2>1, <2>2, <2>5 DEF MmeReads, MmeTakes, AsksOnly, Apart, Kept, ueVars,
                enbVars, coreVars, coreNet
  <1>5. CASE OnSecurityComplete
    BY <1>1, <1>5 DEF OnSecurityComplete, MmeReads, AsksSgwc, MmeTakes, AsksOnly, Apart, Kept,
         ueVars, enbVars, coreVars
  <1>6. CASE OnDetachRequest
    BY <1>1, <1>2, <1>6 DEF OnDetachRequest, MmeReads, AsksSgwc, MmeTakes, AsksOnly, Apart,
         Kept, ueVars, enbVars, coreVars
  <1>7. CASE OnSetupResponse
    BY <1>1, <1>2, <1>7 DEF OnSetupResponse, MmeReads, AsksSgwc, MmeTakes, AsksOnly, Apart,
         Kept, ueVars, enbVars, coreVars
  <1>8. CASE OnOther
    BY <1>1, <1>2, <1>8 DEF OnOther, MmeReads, MmeTakes, AsksOnly, Apart, Kept, mmeVars,
         coreNet, ueVars, enbVars, coreVars
  <1> QED BY <1>3, <1>4, <1>5, <1>6, <1>7, <1>8

(* The MME has its answer, and it is the right one.                        *)
MmeTells ==
    /\ mme # "idle" /\ mme' = "idle" /\ s1Up' = s1Up /\ ctx' = ctx
    /\ \/ /\ mme = "air" /\ known /\ xres' = Vector
          /\ s1Down' = Append(s1Down, MsgOf("AUTH_REQUEST", Vector))
       \/ /\ mme = "air" /\ ~known /\ xres' = xres
          /\ s1Down' = Append(s1Down, Msg("ATTACH_REJECT"))
       \/ /\ mme = "create" /\ s11In = <<>> /\ session # None /\ xres' = xres
          /\ s1Down' = Append(s1Down, MsgOf("ATTACH_ACCEPT", session))
       \/ /\ mme = "delete" /\ s11In = <<>> /\ session = None /\ xres' = xres
          /\ s1Down' = s1Down \o <<Msg("DETACH_ACCEPT"), Msg("RELEASE_COMMAND")>>
       \/ mme = "modify" /\ xres' = xres /\ s1Down' = s1Down

LEMMA MmeHearing ==
  ASSUME TypeOK, Waits, Challenges, faults = 0, faults' = 0,
         Challenged \/ NotChallenged \/ Created \/ CreatedWithoutAddress \/ NotCreated
         \/ Deleted \/ Modified
  PROVE  MmeTells /\ AsksOnly /\ Apart
  <1>1. ASSUME NEW in, NEW out, TimedOut(in, out) PROVE in = <<>> /\ out = <<>>
    BY <1>1 DEF TimedOut, Faults
  <1>2. ASSUME mme = "air"
        PROVE  /\ ~TimedOut(s6aIn, s6aOut) /\ s11In = <<>> /\ s11Out = <<>>
               /\ s6aOut # <<>> => /\ s6aIn = <<>> /\ Tail(s6aOut) = <<>>
                                   /\ Head(s6aOut) = IF known THEN Vector ELSE None
    <2>1. s11In = <<>> /\ s11Out = <<>> /\ AwaitsHss
      BY <1>2 DEF Waits
    <2>2. CASE s6aIn = <<"AIR">> /\ s6aOut = <<>>
      BY <1>1, <2>1, <2>2
    <2>3. CASE s6aIn = <<>> /\ s6aOut = <<IF known THEN Vector ELSE None>>
      BY <1>1, <2>1, <2>3
    <2> QED BY <2>1, <2>2, <2>3 DEF AwaitsHss
  <1>3. ASSUME mme \in {"create", "modify", "delete"}
        PROVE  /\ ~TimedOut(s11In, s11Out) /\ s6aIn = <<>> /\ s6aOut = <<>>
               /\ s11Out # <<>> => s11In = <<>> /\ Tail(s11Out) = <<>> /\ Done(Head(s11Out))
    BY <1>1, <1>3 DEF Waits, AwaitsSgwc
  <1>4. Vector # None
    BY AttachAssumption DEF Vector
  <1>5. CASE Challenged
    <2>1. mme = "air" /\ s6aOut # <<>> /\ known
      BY <1>2, <1>5 DEF Challenged, MmeResumes, HssAnswered
    <2> QED BY <1>2, <1>5, <2>1 DEF Challenged, MmeResumes, HssAnswered, MmeTells, AsksOnly, Apart,
                ueVars, enbVars, coreVars
  <1>6. CASE NotChallenged
    <2>1. /\ MmeResumes("air") /\ HssAnswered /\ Head(s6aOut) = None
          /\ s1Down' = Append(s1Down, Msg("ATTACH_REJECT")) /\ UNCHANGED xres
      BY <1>2, <1>6 DEF NotChallenged, MmeResumes
    <2>2. mme = "air" /\ s6aOut # <<>> /\ ~known
      BY <1>2, <1>4, <2>1 DEF MmeResumes, HssAnswered
    <2> QED BY <1>2, <2>1, <2>2 DEF MmeResumes, HssAnswered, MmeTells, AsksOnly, Apart,
                ueVars, enbVars, coreVars
  <1>7. CASE Created
    <2>1. mme = "create" /\ s11Out # <<>>
      BY <1>7 DEF Created, MmeResumes, SgwcAnswered
    <2>2. Head(s11Out) = session /\ session # None
      BY <1>3, <2>1 DEF Done
    <2> QED BY <1>3, <1>7, <2>1, <2>2 DEF Created, MmeResumes, SgwcAnswered, MmeTells, AsksOnly,
                Apart, ueVars, enbVars, coreVars
  <1>8. CASE CreatedWithoutAddress
    <2>1. mme = "create" /\ s11Out # <<>> /\ Head(s11Out) = None
      BY <1>8 DEF CreatedWithoutAddress, MmeResumes, SgwcAnswered
    <2> QED BY <1>3, <2>1 DEF Done
  <1>9. CASE NotCreated
    BY <1>3, <1>9 DEF NotCreated, MmeResumes
  <1>10. CASE Deleted
    <2>1. /\ MmeResumes("delete") /\ SgwcAnswered /\ UNCHANGED xres
          /\ s1Down' = s1Down \o <<Msg("DETACH_ACCEPT"), Msg("RELEASE_COMMAND")>>
      BY <1>3, <1>10 DEF Deleted, MmeResumes
    <2>2. mme = "delete" /\ s11Out # <<>> /\ session = None
      BY <1>3, <2>1 DEF MmeResumes, SgwcAnswered, Done
    <2> QED BY <1>3, <2>1, <2>2 DEF MmeResumes, SgwcAnswered, MmeTells, AsksOnly, Apart,
                ueVars, enbVars, coreVars
  <1>11. CASE Modified
    <2>1. /\ MmeResumes("modify") /\ SgwcAnswered /\ UNCHANGED <<xres, s1Down>>
      BY <1>3, <1>11 DEF Modified, MmeResumes
    <2>2. mme = "modify" /\ s11Out # <<>>
      BY <2>1 DEF MmeResumes, SgwcAnswered
    <2> QED BY <1>3, <2>1, <2>2 DEF MmeResumes, SgwcAnswered, MmeTells, AsksOnly, Apart,
                ueVars, enbVars, coreVars
  <1> QED BY <1>5, <1>6, <1>7, <1>8, <1>9, <1>10, <1>11

(* The HSS and the SGW-C serve the one request that is there.              *)
RadioApart == UNCHANGED <<radioNet, ue, ueIp, command, bearer, attached, mme, ctx, xres, known>>

HssServes ==
    /\ mme = "air" /\ s6aIn' = <<>> /\ s6aOut' = <<IF known THEN Vector ELSE None>>
    /\ RadioApart /\ UNCHANGED <<session, s11In, s11Out>>

SgwcServes ==
    /\ mme \in {"create", "modify", "delete"} /\ s11In = <<mme>> /\ s11In' = <<>>
    /\ s11Out' = <<IF mme = "create" THEN session' ELSE None>>
    /\ mme = "create" => session' # None
    /\ mme = "delete" => session' = None
    /\ mme = "modify" => session' = session
    /\ RadioApart /\ UNCHANGED <<s6aIn, s6aOut>>

(* UE and eNB.                                                             *)
RadioSteps ==
    NoteAttach \/ SendAttach \/ SendDetach \/ NoteDetach \/ UeNas \/ EnbUplink \/ EnbDownlink
    \/ EnbConfirms

CoreApart == UNCHANGED <<mme, ctx, xres, known, session, coreNet>>

LEMMA Serving ==
  ASSUME TypeOK, Waits, faults = 0, faults' = 0
  PROVE  (Hss => HssServes) /\ (Sgwc => SgwcServes)
  <1>1. ASSUME Hss PROVE HssServes
    <2>1. s6aIn # <<>>
      BY <1>1 DEF Hss
    <2>2. mme = "air" /\ s6aIn = <<"AIR">> /\ s6aOut = <<>>
      BY <2>1 DEF Waits, AwaitsHss
    <2>3. s6aIn' = <<>>
      BY <1>1, <2>2 DEF Hss
    <2>4. s6aOut' = <<IF known THEN Vector ELSE None>>
      BY <1>1, <2>2 DEF Hss
    <2>5. RadioApart /\ UNCHANGED <<session, s11In, s11Out>>
      BY <1>1 DEF Hss, RadioApart, ueVars, enbVars, mmeVars
    <2> QED BY <2>2, <2>3, <2>4, <2>5 DEF HssServes
  <1>2. ASSUME Sgwc PROVE SgwcServes
    <2>1. /\ s11In # <<>> /\ s11In' = Tail(s11In)
          /\ UNCHANGED <<known, vectors, s6aIn, s6aOut, radioNet, ueVars, enbVars, mmeVars>>
          /\ \/ Head(s11In) = "create" /\ \E a \in Addresses : Confirms(a)
             \/ /\ Head(s11In) = "delete"
                /\ session' = None
                /\ s11Out' = Append(s11Out, None)
             \/ /\ Head(s11In) = "modify"
                /\ s11Out' = Append(s11Out, None)
                /\ UNCHANGED session
      BY <1>2, Served, Parts
    <2>2. mme \in {"create", "modify", "delete"} /\ s11In = <<mme>> /\ s11Out = <<>>
      BY <2>1 DEF Waits, AwaitsSgwc
    <2>3. Head(s11In) = mme /\ s11In' = <<>>
      BY <2>1, <2>2
    <2>4. RadioApart /\ UNCHANGED <<s6aIn, s6aOut>>
      BY <2>1 DEF RadioApart, ueVars, enbVars, mmeVars
    <2>5. CASE mme = "create"
      <3>1. session' = sessions + 1 /\ s11Out' = Append(s11Out, sessions + 1)
        BY <2>1, <2>3, <2>5 DEF Confirms
      <3>2. session' # None
        BY <3>1, AttachAssumption, Parts DEF Values
      <3> QED BY <2>2, <2>3, <2>4, <2>5, <3>1, <3>2 DEF SgwcServes
    <2>6. CASE mme # "create"
      BY <2>1, <2>2, <2>3, <2>4, <2>6 DEF SgwcServes
    <2> QED BY <2>5, <2>6
  <1> QED BY <1>1, <1>2

(* Every step, when nothing goes wrong.                                    *)
LEMMA Steps ==
  ASSUME TypeOK, Waits, Challenges, [Next]_vars, faults = 0, faults' = 0
  PROVE  \/ MmeTakes /\ AsksOnly /\ Apart
         \/ MmeTells /\ AsksOnly /\ Apart
         \/ HssServes \/ SgwcServes
         \/ RadioSteps /\ CoreApart
         \/ UNCHANGED vars
  <1>1. CASE Mme
    <2>1. CASE OnAttachRequest \/ OnAuthResponse \/ OnSecurityComplete \/ OnDetachRequest
               \/ OnSetupResponse \/ OnOther
      BY <2>1, MmeReading
    <2>2. CASE Challenged \/ NotChallenged \/ Created \/ CreatedWithoutAddress \/ NotCreated
               \/ Deleted \/ Modified
      BY <2>2, MmeHearing
    <2> QED BY <1>1, <2>1, <2>2 DEF Mme
  <1>2. CASE Hss \/ Sgwc
    BY <1>2, Serving
  <1>3. CASE NoteAttach \/ SendDetach \/ Control \/ UeNas \/ EnbUplink \/ EnbDownlink
             \/ EnbConfirms
    BY <1>3 DEF NoteAttach, SendDetach, Control, SendAttach, NoteDetach, UeNas, EnbUplink,
         EnbDownlink, EnbConfirms, RadioSteps, CoreApart, mmeVars, coreVars
  <1>4. ~Lose
    BY StillNone
  <1> QED BY <1>1, <1>2, <1>3, <1>4 DEF Next

---------------------------------------------------------------------------
(* The invariant is kept. *)

(* No answer is late or too many.                                          *)
LEMMA WaitsStep ==
  ASSUME TypeOK, Waits, Challenges, [Next]_vars, faults = 0, faults' = 0
  PROVE  Waits'
  <1>1. CASE AsksOnly
    BY <1>1 DEF AsksOnly, Waits, AwaitsHss, AwaitsSgwc
  <1>2. CASE HssServes
    BY <1>2 DEF HssServes, RadioApart, Waits, AwaitsHss, AwaitsSgwc, Done
  <1>3. CASE SgwcServes
    <2>1. mme' \in {"create", "modify", "delete"} /\ s6aIn' = <<>> /\ s6aOut' = <<>>
      BY <1>3 DEF SgwcServes, RadioApart, Waits
    <2>2. PICK a : s11Out' = <<a>> /\ a = IF mme = "create" THEN session' ELSE None
      BY <1>3 DEF SgwcServes
    <2>3. Done(Head(s11Out))'
      BY <1>3, <2>2 DEF SgwcServes, RadioApart, Done
    <2> QED BY <1>3, <2>1, <2>2, <2>3 DEF SgwcServes, Waits, AwaitsSgwc
  <1>4. CASE CoreApart
    BY <1>4 DEF CoreApart, coreNet, Waits, AwaitsHss, AwaitsSgwc, Done
  <1>5. CASE UNCHANGED vars
    BY <1>5 DEF vars, mmeVars, coreVars, coreNet, Waits, AwaitsHss, AwaitsSgwc, Done
  <1> QED BY <1>1, <1>2, <1>3, <1>4, <1>5, Steps

(* Two messages at the end of a queue, one after the other.                *)
LEMMA Twice ==
  ASSUME TypeOK
  PROVE  LET n == Msg("DETACH_ACCEPT")
             m == Msg("RELEASE_COMMAND")
         IN  /\ s1Down \o <<n, m>> = Append(Append(s1Down, n), m)
             /\ n \in S1DownMsgs /\ m \in S1DownMsgs
             /\ Append(s1Down, n) \in Seq(S1DownMsgs)
  <1> DEFINE n == Msg("DETACH_ACCEPT")
             m == Msg("RELEASE_COMMAND")
  <1>1. n \in S1DownMsgs /\ m \in S1DownMsgs
    BY Sendable DEF DownTypes
  <1>2. s1Down \in Seq(S1DownMsgs)
    BY Parts DEF Radio
  <1> HIDE DEF n, m
  <1>3. s1Down \o <<n, m>> = Append(Append(s1Down, n), m)
    BY <1>1, <1>2
  <1>4. Append(s1Down, n) \in Seq(S1DownMsgs)
    BY <1>1, <1>2
  <1> QED BY <1>1, <1>3, <1>4 DEF n, m

(* Only who is known is challenged, and the challenge is met.              *)
LEMMA ChallengesStep ==
  ASSUME TypeOK, Waits, Challenges, [Next]_vars, faults = 0, faults' = 0
  PROVE  Challenges'
  <1>1. /\ uuUp \in Seq(UuUpMsgs) /\ s1Up \in Seq(S1UpMsgs)
        /\ uuDown \in Seq(UuDownMsgs) /\ s1Down \in Seq(S1DownMsgs)
    BY Parts DEF Radio
  <1>2. /\ AllDue(uuUp, known) /\ AllDue(s1Up, known)
        /\ AllDue(uuDown, known) /\ AllDue(s1Down, known)
    BY DEF Challenges
  <1>3. /\ uuUp # <<>> => AllDue(Tail(uuUp), known) /\ Due(Head(uuUp), known)
        /\ s1Up # <<>> => AllDue(Tail(s1Up), known) /\ Due(Head(s1Up), known)
        /\ uuDown # <<>> => AllDue(Tail(uuDown), known) /\ Due(Head(uuDown), known)
        /\ s1Down # <<>> => AllDue(Tail(s1Down), known) /\ Due(Head(s1Down), known)
    BY <1>1, <1>2, DueMoves
  <1>4. /\ \A n \in UuUpMsgs : Due(n, known) => AllDue(Append(uuUp, n), known)
        /\ \A n \in S1UpMsgs : Due(n, known) => AllDue(Append(s1Up, n), known)
        /\ \A n \in UuDownMsgs : Due(n, known) => AllDue(Append(uuDown, n), known)
        /\ \A n \in S1DownMsgs : Due(n, known) => AllDue(Append(s1Down, n), known)
    BY <1>1, <1>2, DueMoves
  <1>5. \A t, v : t \notin Asking \cup Securing => Due(Msg(t), known) /\ Due(MsgOf(t, v), known)
    BY DEF Due, Msg, MsgOf
  <1>6. /\ known => Due(MsgOf("AUTH_REQUEST", Vector), known)
        /\ known => Due(MsgOf("AUTH_RESPONSE", Vector), known)
        /\ known => Due(Msg("SECURITY_MODE_COMMAND"), known)
        /\ known => Due(Msg("SECURITY_MODE_COMPLETE"), known)
    BY DEF Due, Asking, Securing, Msg, MsgOf
  <1>7. /\ uuUp # <<>> => Head(uuUp) \in S1UpMsgs
        /\ s1Down # <<>> /\ Head(s1Down).t # "RELEASE_COMMAND" => Head(s1Down) \in UuDownMsgs
        /\ \A n \in Nat : MsgOf("AUTH_REQUEST", n) \in S1DownMsgs
                          /\ MsgOf("ATTACH_ACCEPT", n) \in S1DownMsgs
    BY <1>1, Built
  <1>8. Vector \in Nat /\ session \in Nat \cup {None}
    BY Parts DEF Vector, Values
  <1> DEFINE Queues == /\ AllDue(uuUp', known') /\ AllDue(s1Up', known')
                       /\ AllDue(uuDown', known') /\ AllDue(s1Down', known')
  <1>9. ASSUME Queues,
               ~known' => session' = None /\ mme' # "create",
               known' /\ ctx' /\ mme' # "air" => xres' = Vector
        PROVE  Challenges'
    BY <1>9 DEF Challenges
  <1> HIDE DEF Queues
  <1>10. CASE MmeTakes /\ Apart
    <2>1. Due(Head(s1Up), known) /\ AllDue(Tail(s1Up), known)
      BY <1>3, <1>10 DEF MmeTakes
    <2>2. Head(s1Up).t \in Asking \cup Securing => known
      BY <2>1 DEF Due
    <2>3. \/ s1Down' = s1Down
          \/ known /\ s1Down' = Append(s1Down, Msg("SECURITY_MODE_COMMAND"))
      BY <1>10, <2>2 DEF MmeTakes, Asking
    <2>4. AllDue(s1Down', known)
      <3>1. Msg("SECURITY_MODE_COMMAND") \in S1DownMsgs
        BY Built DEF DownTypes
      <3> QED BY <1>2, <1>4, <1>6, <2>3, <3>1
    <2>5. Queues
      BY <1>2, <1>10, <2>1, <2>4 DEF MmeTakes, Apart, Queues
    <2>6. ~known => mme' # "create"
      BY <1>10, <2>2 DEF MmeTakes, Asking, Securing
    <2>7. known /\ ctx' /\ mme' # "air" => xres' = Vector
      BY <1>10 DEF MmeTakes, Kept, Challenges
    <2> QED BY <1>9, <1>10, <2>5, <2>6, <2>7 DEF Apart, Challenges
  <1>11. CASE MmeTells /\ Apart
    <2>1. AllDue(s1Down', known)
      <3>1. CASE known /\ s1Down' = Append(s1Down, MsgOf("AUTH_REQUEST", Vector))
        BY <1>4, <1>6, <1>7, <1>8, <3>1
      <3>2. CASE s1Down' = Append(s1Down, Msg("ATTACH_REJECT"))
        <4>1. Msg("ATTACH_REJECT") \in S1DownMsgs
          BY Built DEF DownTypes
        <4>2. Due(Msg("ATTACH_REJECT"), known)
          BY <1>5 DEF Asking, Securing
        <4> QED BY <1>4, <3>2, <4>1, <4>2
      <3>3. CASE session # None /\ s1Down' = Append(s1Down, MsgOf("ATTACH_ACCEPT", session))
        <4>1. Due(MsgOf("ATTACH_ACCEPT", session), known)
          BY <1>5 DEF Asking, Securing
        <4> QED BY <1>4, <1>7, <1>8, <3>3, <4>1
      <3>4. CASE s1Down' = s1Down \o <<Msg("DETACH_ACCEPT"), Msg("RELEASE_COMMAND")>>
        <4> DEFINE n == Msg("DETACH_ACCEPT")
                   m == Msg("RELEASE_COMMAND")
        <4>1. Due(n, known) /\ Due(m, known)
          BY <1>5 DEF Asking, Securing
        <4>2. /\ s1Down' = Append(Append(s1Down, n), m)
              /\ n \in S1DownMsgs /\ m \in S1DownMsgs
              /\ Append(s1Down, n) \in Seq(S1DownMsgs)
          BY <3>4, Twice
        <4> HIDE DEF n, m
        <4>3. AllDue(Append(s1Down, n), known)
          BY <1>4, <4>1, <4>2
        <4> QED BY <4>1, <4>2, <4>3, DueMoves
      <3>5. CASE s1Down' = s1Down
        BY <1>2, <3>5
      <3> QED BY <1>11, <3>1, <3>2, <3>3, <3>4, <3>5 DEF MmeTells
    <2>2. Queues
      BY <1>2, <1>11, <2>1 DEF MmeTells, Apart, Queues
    <2>3. known /\ ctx' => xres' = Vector
      BY <1>11 DEF MmeTells, Challenges
    <2> QED BY <1>9, <1>11, <2>2, <2>3 DEF MmeTells, Apart, Challenges
  <1>12. CASE HssServes
    BY <1>2, <1>9, <1>12 DEF HssServes, RadioApart, radioNet, Queues, Challenges
  <1>13. CASE SgwcServes
    <2>1. ~known => session' = None /\ mme' # "create"
      BY <1>13 DEF SgwcServes, RadioApart, Challenges
    <2> QED BY <1>2, <1>9, <1>13, <2>1 DEF SgwcServes, RadioApart, radioNet, Queues, Challenges
  <1>14. CASE RadioSteps /\ CoreApart
    <2>1. ASSUME Queues PROVE Challenges'
      BY <1>9, <1>14, <2>1 DEF CoreApart, Challenges
    <2>2. known' = known
      BY <1>14 DEF CoreApart
    <2>3. CASE NoteAttach \/ NoteDetach
      BY <1>2, <2>1, <2>2, <2>3 DEF NoteAttach, NoteDetach, radioNet, Queues
    <2>4. CASE SendAttach \/ SendDetach
      <3>1. PICK t \in {"ATTACH_REQUEST", "DETACH_REQUEST"} : uuUp' = Append(uuUp, Msg(t))
        BY <2>4 DEF SendAttach, SendDetach
      <3>2. Msg(t) \in UuUpMsgs /\ Due(Msg(t), known)
        BY <1>5, Built DEF UpTypes, Asking, Securing
      <3>3. AllDue(uuUp', known)
        BY <1>4, <3>1, <3>2
      <3>4. UNCHANGED <<s1Up, uuDown, s1Down>>
        BY <2>4 DEF SendAttach, SendDetach
      <3> QED BY <1>2, <2>1, <2>2, <3>3, <3>4 DEF Queues
    <2>5. CASE UeNas
      <3>1. uuDown # <<>> /\ uuDown' = Tail(uuDown) /\ UNCHANGED <<s1Up, s1Down>>
        BY <2>5 DEF UeNas, UeAuthenticates, UeSecures, UeAccepted, UeRefused, UeReleased, UeReads
      <3>2. Due(Head(uuDown), known) /\ Head(uuDown) \in UuDownMsgs
        BY <1>1, <1>3, <3>1
      <3>3. AllDue(uuUp', known)
        <4>1. CASE UeAuthenticates
          <5>1. known /\ Head(uuDown).v = Vector
            BY <3>2, <4>1 DEF UeAuthenticates, UeReads, Due, Asking
          <5>2. uuUp' = Append(uuUp, MsgOf("AUTH_RESPONSE", Vector))
            BY <4>1, <5>1 DEF UeAuthenticates, UeSends
          <5>3. MsgOf("AUTH_RESPONSE", Vector) \in UuUpMsgs
            BY <1>8, Built
          <5> QED BY <1>4, <1>6, <5>1, <5>2, <5>3
        <4>2. CASE UeSecures
          <5>1. known
            BY <3>2, <4>2 DEF UeSecures, UeReads, Due, Securing
          <5>2. Msg("SECURITY_MODE_COMPLETE") \in UuUpMsgs
            BY Built DEF UpTypes
          <5> QED BY <1>4, <1>6, <4>2, <5>1, <5>2 DEF UeSecures, UeSends
        <4>3. CASE UeAccepted
          <5>1. Msg("ATTACH_COMPLETE") \in UuUpMsgs /\ Due(Msg("ATTACH_COMPLETE"), known)
            BY <1>5, Built DEF UpTypes, Asking, Securing
          <5> QED BY <1>4, <4>3, <5>1 DEF UeAccepted, UeSends
        <4>4. CASE UeRefused \/ UeReleased
          BY <1>2, <4>4 DEF UeRefused, UeReleased
        <4> QED BY <2>5, <4>1, <4>2, <4>3, <4>4 DEF UeNas
      <3> QED BY <1>2, <1>3, <2>1, <2>2, <3>1, <3>3 DEF Queues
    <2>6. CASE EnbUplink
      BY <1>2, <1>3, <1>4, <1>7, <2>1, <2>2, <2>6 DEF EnbUplink, Queues
    <2>7. CASE EnbDownlink
      <3>1. s1Down # <<>> /\ s1Down' = Tail(s1Down) /\ uuUp' = uuUp
        BY <2>7 DEF EnbDownlink
      <3>2. Due(Head(s1Down), known)
        BY <1>3, <3>1
      <3>3. uuDown' = uuDown
            \/ (Head(s1Down).t # "RELEASE_COMMAND" /\ uuDown' = Append(uuDown, Head(s1Down)))
        BY <2>7 DEF EnbDownlink, EnbSetsUp, EnbReleases, EnbRelays
      <3>4. AllDue(uuDown', known)
        BY <1>2, <1>4, <1>7, <3>1, <3>2, <3>3
      <3>5. \/ s1Up' = s1Up
            \/ \E t \in {"SETUP_RESPONSE", "RELEASE_COMPLETE"} : s1Up' = Append(s1Up, Msg(t))
        BY <2>7 DEF EnbDownlink, EnbSetsUp, EnbReleases, EnbRelays
      <3>6. \A t \in {"SETUP_RESPONSE", "RELEASE_COMPLETE"} :
                Msg(t) \in S1UpMsgs /\ Due(Msg(t), known)
        BY <1>5, Built DEF Asking, Securing
      <3>7. AllDue(s1Up', known)
        BY <1>2, <1>4, <3>5, <3>6
      <3> QED BY <1>2, <1>3, <2>1, <2>2, <3>1, <3>4, <3>7 DEF Queues
    <2>8. CASE EnbConfirms
      <3>1. s1Up' = Append(s1Up, Msg("SETUP_RESPONSE")) /\ UNCHANGED <<uuUp, uuDown, s1Down>>
        BY <2>8 DEF EnbConfirms
      <3>2. Msg("SETUP_RESPONSE") \in S1UpMsgs /\ Due(Msg("SETUP_RESPONSE"), known)
        BY <1>5, Built DEF Asking, Securing
      <3>3. AllDue(s1Up', known)
        BY <1>2, <1>4, <3>1, <3>2
      <3> QED BY <1>2, <2>1, <2>2, <3>1, <3>3 DEF Queues
    <2> QED BY <1>14, <2>3, <2>4, <2>5, <2>6, <2>7, <2>8 DEF RadioSteps
  <1>15. CASE UNCHANGED vars
    BY <1>2, <1>9, <1>15 DEF vars, radioNet, mmeVars, coreVars, Queues, Challenges
  <1> QED BY <1>10, <1>11, <1>12, <1>13, <1>14, <1>15, Steps

(* What the MME says, by the types that matter to a reader.                *)
LEMMA Saying ==
  ASSUME TypeOK, NEW T
  PROVE  /\ MmeTakes /\ "SECURITY_MODE_COMMAND" \notin T =>
               \/ s1Down' = s1Down
               \/ \E n \in S1DownMsgs : n.t \notin T /\ s1Down' = Append(s1Down, n)
         /\ MmeTells =>
               \/ mme = "modify" /\ s1Down' = s1Down
               \/ mme = "air" /\ known
                  /\ \E n \in S1DownMsgs : n.t = "AUTH_REQUEST" /\ s1Down' = Append(s1Down, n)
               \/ mme = "air" /\ ~known
                  /\ \E n \in S1DownMsgs : n.t = "ATTACH_REJECT" /\ s1Down' = Append(s1Down, n)
               \/ /\ mme = "create" /\ session # None
                  /\ Word(session) \in S1DownMsgs /\ Word(session).t = "ATTACH_ACCEPT"
                  /\ Word(session).v = session
                  /\ s1Down' = Append(s1Down, Word(session))
               \/ /\ mme = "delete" /\ session = None
                  /\ Word(session) \in S1DownMsgs /\ Word(session).t = "RELEASE_COMMAND"
                  /\ \E n \in S1DownMsgs :
                        /\ n.t = "DETACH_ACCEPT"
                        /\ Append(s1Down, n) \in Seq(S1DownMsgs)
                        /\ s1Down' = Append(Append(s1Down, n), Word(session))
  <1>1. ASSUME MmeTakes, "SECURITY_MODE_COMMAND" \notin T
        PROVE  \/ s1Down' = s1Down
               \/ \E n \in S1DownMsgs : n.t \notin T /\ s1Down' = Append(s1Down, n)
    <2>1. /\ Msg("SECURITY_MODE_COMMAND") \in S1DownMsgs
          /\ Msg("SECURITY_MODE_COMMAND").t = "SECURITY_MODE_COMMAND"
      BY Sendable DEF DownTypes
    <2> QED BY <1>1, <2>1 DEF MmeTakes
  <1>2. session \in Nat \cup {None} /\ Vector \in Nat
    BY Parts DEF Values, Vector
  <1>3. CASE mme = "air"
    <2>1. /\ MsgOf("AUTH_REQUEST", Vector) \in S1DownMsgs
          /\ MsgOf("AUTH_REQUEST", Vector).t = "AUTH_REQUEST"
      BY <1>2, Sendable
    <2>2. Msg("ATTACH_REJECT") \in S1DownMsgs /\ Msg("ATTACH_REJECT").t = "ATTACH_REJECT"
      BY Sendable DEF DownTypes
    <2> QED BY <1>1, <1>3, <2>1, <2>2 DEF MmeTells
  <1>4. CASE mme = "create"
    <2>1. ASSUME MmeTells
          PROVE  session # None /\ s1Down' = Append(s1Down, MsgOf("ATTACH_ACCEPT", session))
      BY <1>4, <2>1 DEF MmeTells
    <2>2. ASSUME session # None
          PROVE  /\ Word(session) = MsgOf("ATTACH_ACCEPT", session)
                 /\ Word(session) \in S1DownMsgs /\ Word(session).t = "ATTACH_ACCEPT"
                 /\ Word(session).v = session
      <3>1. Word(session) = MsgOf("ATTACH_ACCEPT", session)
        BY <2>2 DEF Word
      <3>2. MsgOf("ATTACH_ACCEPT", session).v = session
        BY DEF MsgOf
      <3> QED BY <1>2, <2>2, <3>1, <3>2, Sendable
    <2> QED BY <1>1, <1>4, <2>1, <2>2
  <1>5. CASE mme = "delete"
    <2>1. ASSUME MmeTells
          PROVE  /\ session = None
                 /\ s1Down' = s1Down \o <<Msg("DETACH_ACCEPT"), Msg("RELEASE_COMMAND")>>
      BY <1>5, <2>1 DEF MmeTells
    <2>2. /\ Msg("DETACH_ACCEPT") \in S1DownMsgs /\ Msg("DETACH_ACCEPT").t = "DETACH_ACCEPT"
          /\ Msg("RELEASE_COMMAND") \in S1DownMsgs
          /\ Msg("RELEASE_COMMAND").t = "RELEASE_COMMAND"
      BY Sendable DEF DownTypes
    <2>3. session = None => Word(session) = Msg("RELEASE_COMMAND")
      BY DEF Word
    <2> QED BY <1>1, <1>5, <2>1, <2>2, <2>3, Twice
  <1>6. CASE mme \notin {"air", "create", "delete"}
    BY <1>1, <1>6 DEF MmeTells
  <1> QED BY <1>3, <1>4, <1>5, <1>6

(* The eNB's last word is of the session there is.                         *)
LEMMA BearerStep ==
  ASSUME TypeOK, Waits, Challenges, BearerFollows, [Next]_vars, faults = 0, faults' = 0
  PROVE  BearerFollows'
  <1>1. s1Down \in Seq(S1DownMsgs)
    BY Parts DEF Radio
  <1>2. ASSUME ~Told' => After(Word(bearer'), s1Down', Bearing) \subseteq {Word(session')}
        PROVE  BearerFollows'
    BY <1>2 DEF BearerFollows
  <1>3. ~Told => After(Word(bearer), s1Down, Bearing) \subseteq {Word(session)}
    BY DEF BearerFollows
  <1>4. ASSUME NEW n \in S1DownMsgs, n.t \notin Bearing, ~Told
        PROVE  After(Word(bearer), Append(s1Down, n), Bearing) \subseteq {Word(session)}
    BY <1>1, <1>3, <1>4, AfterMoves
  <1>5. ASSUME NEW q \in Seq(S1DownMsgs), Word(session) \in S1DownMsgs,
               Word(session).t \in Bearing
        PROVE  After(Word(bearer), Append(q, Word(session)), Bearing) = {Word(session)}
    <2>1. \A x : \A n \in S1DownMsgs :
              After(x, Append(q, n), Bearing)
                  = IF n.t \in Bearing THEN {n} ELSE After(x, q, Bearing)
      BY <1>5, AfterMoves
    <2> QED BY <1>5, <2>1
  <1>6. CASE MmeTakes /\ Apart
    <2>1. ~Told /\ bearer' = bearer /\ session' = session
      BY <1>6 DEF MmeTakes, Apart, Told
    <2>2. \/ s1Down' = s1Down
          \/ \E n \in S1DownMsgs : n.t \notin Bearing /\ s1Down' = Append(s1Down, n)
      BY <1>6, Saying DEF Bearing
    <2> QED BY <1>2, <1>3, <1>4, <2>1, <2>2
  <1>7. CASE MmeTells /\ Apart
    <2>1. bearer' = bearer /\ session' = session
      BY <1>7 DEF Apart
    <2>2. CASE mme \notin {"create", "delete"}
      <3>1. \/ s1Down' = s1Down
            \/ \E n \in S1DownMsgs : n.t \notin Bearing /\ s1Down' = Append(s1Down, n)
        BY <1>7, <2>2, Saying DEF Bearing
      <3> QED BY <1>2, <1>3, <1>4, <2>1, <2>2, <3>1 DEF Told
    <2>3. CASE mme = "create"
      <3>1. /\ Word(session) \in S1DownMsgs /\ Word(session).t \in Bearing
            /\ s1Down' = Append(s1Down, Word(session))
        BY <1>7, <2>3, Saying DEF Bearing
      <3> QED BY <1>1, <1>2, <1>5, <2>1, <3>1
    <2>4. CASE mme = "delete"
      <3>1. PICK n \in S1DownMsgs :
                /\ Word(session) \in S1DownMsgs /\ Word(session).t \in Bearing
                /\ Append(s1Down, n) \in Seq(S1DownMsgs)
                /\ s1Down' = Append(Append(s1Down, n), Word(session))
        BY <1>7, <2>4, Saying DEF Bearing
      <3> QED BY <1>2, <1>5, <2>1, <3>1
    <2> QED BY <2>2, <2>3, <2>4
  <1>8. CASE HssServes
    BY <1>2, <1>3, <1>8 DEF HssServes, RadioApart, radioNet, Told
  <1>9. CASE SgwcServes
    <2>1. CASE mme = "modify"
      BY <1>2, <1>3, <1>9, <2>1 DEF SgwcServes, RadioApart, radioNet, Told
    <2>2. CASE mme # "modify"
      BY <1>2, <1>9, <2>2 DEF SgwcServes, RadioApart, Told
    <2> QED BY <2>1, <2>2
  <1>10. CASE RadioSteps /\ CoreApart
    <2>1. session' = session /\ Told' = Told
      BY <1>10 DEF CoreApart, coreNet, Told
    <2>2. CASE EnbDownlink
      <3>1. s1Down # <<>> /\ s1Down' = Tail(s1Down) /\ Head(s1Down) \in S1DownMsgs
        BY <1>1, <2>2 DEF EnbDownlink
      <3>2. /\ Head(s1Down).t \in Bearing =>
                   After(Word(bearer), s1Down, Bearing) = After(Head(s1Down), s1Down', Bearing)
            /\ Head(s1Down).t \notin Bearing =>
                   After(Word(bearer), s1Down, Bearing) = After(Word(bearer), s1Down', Bearing)
        BY <1>1, <3>1, AfterMoves
      <3>3. CASE EnbSetsUp
        <4>1. Head(s1Down).t = "ATTACH_ACCEPT" /\ bearer' = Head(s1Down).v
          BY <3>3 DEF EnbSetsUp
        <4>2. Head(s1Down).v \in Nat
          BY <3>1, <4>1, Built
        <4>3. Head(s1Down) = MsgOf("ATTACH_ACCEPT", Head(s1Down).v)
          BY <3>1, <4>1 DEF S1DownMsgs, UuDownMsgs, Plain, DownTypes, MsgOf
        <4>4. Word(bearer') = Head(s1Down)
          BY <4>1, <4>2, <4>3, AttachAssumption DEF Word
        <4> QED BY <1>2, <1>3, <2>1, <3>2, <4>1, <4>4 DEF Bearing
      <3>4. CASE EnbReleases
        <4>1. Head(s1Down).t = "RELEASE_COMMAND" /\ bearer' = None
          BY <3>4 DEF EnbReleases
        <4>2. Head(s1Down) = Msg("RELEASE_COMMAND")
          BY <3>1, <4>1 DEF S1DownMsgs, UuDownMsgs, Plain, DownTypes, Msg
        <4>3. Word(bearer') = Head(s1Down)
          BY <4>1, <4>2 DEF Word
        <4> QED BY <1>2, <1>3, <2>1, <3>2, <4>1, <4>3 DEF Bearing
      <3>5. CASE EnbRelays
        <4>1. Head(s1Down).t \notin Bearing /\ bearer' = bearer
          BY <3>5 DEF EnbRelays, enbVars, Bearing
        <4> QED BY <1>2, <1>3, <2>1, <3>2, <4>1
      <3> QED BY <2>2, <3>3, <3>4, <3>5 DEF EnbDownlink
    <2>3. CASE ~EnbDownlink
      <3>1. UNCHANGED <<bearer, s1Down>>
        BY <1>10, <2>3 DEF RadioSteps, NoteAttach, SendAttach, SendDetach, NoteDetach, UeNas,
             EnbUplink, EnbConfirms, enbVars, radioNet
      <3> QED BY <1>2, <1>3, <2>1, <3>1
    <2> QED BY <2>2, <2>3
  <1>11. CASE UNCHANGED vars
    BY <1>2, <1>3, <1>11 DEF vars, enbVars, mmeVars, coreVars, radioNet, coreNet, Told
  <1> QED BY <1>6, <1>7, <1>8, <1>9, <1>10, <1>11, Steps

(* What the steps of UE and eNB make of the last word to the UE: it is     *)
(* passed on, until the UE reads it.                                       *)
LEMMA Passing ==
  ASSUME TypeOK, NEW T, "RELEASE_COMMAND" \notin T, NEW x
  PROVE  /\ RadioSteps /\ ~UeNas =>
               Final(x, uuDown', s1Down', T) = Final(x, uuDown, s1Down, T)
         /\ UeNas =>
               /\ uuDown # <<>> /\ Head(uuDown) \in UuDownMsgs
               /\ Head(uuDown).t \in T =>
                     Final(x, uuDown, s1Down, T) = Final(Head(uuDown), uuDown', s1Down', T)
               /\ Head(uuDown).t \notin T =>
                     Final(x, uuDown', s1Down', T) = Final(x, uuDown, s1Down, T)
  <1>1. uuDown \in Seq(UuDownMsgs) /\ s1Down \in Seq(S1DownMsgs)
    BY Parts DEF Radio
  <1>2. /\ uuDown # <<>> =>
               /\ Head(uuDown).t \in T =>
                     Final(x, uuDown, s1Down, T) = Final(Head(uuDown), Tail(uuDown), s1Down, T)
               /\ Head(uuDown).t \notin T =>
                     Final(x, uuDown, s1Down, T) = Final(x, Tail(uuDown), s1Down, T)
        /\ s1Down # <<>> =>
               /\ Head(s1Down) \in UuDownMsgs =>
                     Final(x, Append(uuDown, Head(s1Down)), Tail(s1Down), T)
                         = Final(x, uuDown, s1Down, T)
               /\ Head(s1Down).t \notin T =>
                     Final(x, uuDown, Tail(s1Down), T) = Final(x, uuDown, s1Down, T)
    BY <1>1, FinalMoves
  <1>3. ASSUME UeNas
        PROVE  /\ uuDown # <<>> /\ uuDown' = Tail(uuDown) /\ s1Down' = s1Down
               /\ Head(uuDown) \in UuDownMsgs
    <2>1. uuDown # <<>> /\ uuDown' = Tail(uuDown) /\ s1Down' = s1Down
      BY <1>3 DEF UeNas, UeAuthenticates, UeSecures, UeAccepted, UeRefused, UeReleased, UeReads
    <2> QED BY <1>1, <2>1
  <1>4. ASSUME EnbDownlink
        PROVE  Final(x, uuDown', s1Down', T) = Final(x, uuDown, s1Down, T)
    <2>1. s1Down # <<>> /\ s1Down' = Tail(s1Down) /\ Head(s1Down) \in S1DownMsgs
      BY <1>1, <1>4 DEF EnbDownlink
    <2>2. \/ Head(s1Down).t = "RELEASE_COMMAND" /\ uuDown' = uuDown
          \/ Head(s1Down).t # "RELEASE_COMMAND" /\ uuDown' = Append(uuDown, Head(s1Down))
      BY <1>4 DEF EnbDownlink, EnbSetsUp, EnbReleases, EnbRelays
    <2>3. Head(s1Down).t # "RELEASE_COMMAND" => Head(s1Down) \in UuDownMsgs
      BY <2>1, Built
    <2>4. Head(s1Down).t = "RELEASE_COMMAND" => Head(s1Down).t \notin T
      OBVIOUS
    <2>5. CASE Head(s1Down).t = "RELEASE_COMMAND"
      BY <1>2, <2>1, <2>2, <2>4, <2>5
    <2>6. CASE Head(s1Down).t # "RELEASE_COMMAND"
      BY <1>2, <2>1, <2>2, <2>3, <2>6
    <2> QED BY <2>5, <2>6
  <1>5. ASSUME RadioSteps, ~UeNas, ~EnbDownlink PROVE uuDown' = uuDown /\ s1Down' = s1Down
    BY <1>5 DEF RadioSteps, NoteAttach, SendAttach, SendDetach, NoteDetach, EnbUplink, EnbConfirms,
         radioNet
  <1> QED BY <1>2, <1>3, <1>4, <1>5

(* What the words of the MME make of it.                                   *)
LEMMA LastWord ==
  ASSUME TypeOK, NEW T, NEW x, NEW n \in S1DownMsgs
  PROVE  /\ n.t \in T => Final(x, uuDown, Append(s1Down, n), T) = {n}
         /\ n.t \notin T =>
               Final(x, uuDown, Append(s1Down, n), T) = Final(x, uuDown, s1Down, T)
  <1>1. uuDown \in Seq(UuDownMsgs) /\ s1Down \in Seq(S1DownMsgs)
    BY Parts DEF Radio
  <1>2. Final(x, uuDown, Append(s1Down, n), T)
            = IF n.t \in T THEN {n} ELSE Final(x, uuDown, s1Down, T)
    BY <1>1, FinalMoves
  <1> QED BY <1>2

(* Words of other types make nothing of it.                                *)
LEMMA OtherWords ==
  ASSUME TypeOK, NEW T, NEW x, uuDown' = uuDown,
         \/ s1Down' = s1Down
         \/ \E n \in S1DownMsgs : n.t \notin T /\ s1Down' = Append(s1Down, n)
  PROVE  Final(x, uuDown', s1Down', T) = Final(x, uuDown, s1Down, T)
  <1>1. CASE s1Down' = s1Down
    BY <1>1
  <1>2. CASE \E n \in S1DownMsgs : n.t \notin T /\ s1Down' = Append(s1Down, n)
    <2>1. PICK n \in S1DownMsgs : n.t \notin T /\ s1Down' = Append(s1Down, n)
      BY <1>2
    <2>2. Final(x, uuDown, Append(s1Down, n), T) = Final(x, uuDown, s1Down, T)
      BY <2>1, LastWord
    <2> QED BY <2>1, <2>2
  <1> QED BY <1>1, <1>2

(* The UE's last address is that of the session there is.                  *)
LEMMA AddressStep ==
  ASSUME TypeOK, Waits, Challenges, AddressFollows, [Next]_vars, faults = 0, faults' = 0
  PROVE  AddressFollows'
  <1> DEFINE x == MsgOf("ATTACH_ACCEPT", ueIp)
             y == MsgOf("ATTACH_ACCEPT", ueIp')
  <1>1. ASSUME session' # None /\ ~Told' =>
                   \A m \in Final(y, uuDown', s1Down', Offering) : m.v = session'
        PROVE  AddressFollows'
    BY <1>1 DEF AddressFollows
  <1>2. session # None /\ ~Told => \A m \in Final(x, uuDown, s1Down, Offering) : m.v = session
    BY DEF AddressFollows
  <1>3. ueIp' = ueIp => y = x
    OBVIOUS
  <1> HIDE DEF x, y
  <1>4. ASSUME session # None => session' = session, Told => Told', y = x,
               Final(x, uuDown', s1Down', Offering) = Final(x, uuDown, s1Down, Offering),
               session = None => session' = None
        PROVE  AddressFollows'
    BY <1>1, <1>2, <1>4
  <1>5. CASE MmeTakes /\ Apart
    <2>1. ~Told /\ y = x /\ session' = session /\ uuDown' = uuDown
      BY <1>3, <1>5 DEF MmeTakes, Apart, Told
    <2>2. \/ s1Down' = s1Down
          \/ \E n \in S1DownMsgs : n.t \notin Offering /\ s1Down' = Append(s1Down, n)
      BY <1>5, Saying DEF Offering
    <2>3. Final(x, uuDown', s1Down', Offering) = Final(x, uuDown, s1Down, Offering)
      BY <2>1, <2>2, OtherWords
    <2> QED BY <1>4, <2>1, <2>3
  <1>6. CASE MmeTells /\ Apart
    <2>1. y = x /\ session' = session /\ uuDown' = uuDown
      BY <1>3, <1>6 DEF Apart
    <2>2. CASE mme \notin {"create", "delete"}
      <3>1. \/ s1Down' = s1Down
            \/ \E n \in S1DownMsgs : n.t \notin Offering /\ s1Down' = Append(s1Down, n)
        BY <1>6, <2>2, Saying DEF Offering
      <3>2. Final(x, uuDown', s1Down', Offering) = Final(x, uuDown, s1Down, Offering)
        BY <2>1, <3>1, OtherWords
      <3> QED BY <1>4, <2>1, <2>2, <3>2 DEF Told
    <2>3. CASE mme = "create"
      <3>1. /\ Word(session) \in S1DownMsgs /\ Word(session).t \in Offering
            /\ Word(session).v = session /\ s1Down' = Append(s1Down, Word(session))
        BY <1>6, <2>3, Saying DEF Offering
      <3>2. Final(y, uuDown, Append(s1Down, Word(session)), Offering) = {Word(session)}
        BY <3>1, LastWord
      <3> QED BY <1>1, <2>1, <3>1, <3>2
    <2>4. CASE mme = "delete"
      BY <1>1, <1>6, <2>1, <2>4 DEF MmeTells
    <2> QED BY <2>2, <2>3, <2>4
  <1>7. CASE HssServes
    BY <1>3, <1>4, <1>7 DEF HssServes, RadioApart, radioNet, Told
  <1>8. CASE SgwcServes
    <2>1. CASE mme = "modify"
      BY <1>3, <1>4, <1>8, <2>1 DEF SgwcServes, RadioApart, radioNet, Told
    <2>2. CASE mme # "modify"
      BY <1>1, <1>8, <2>2 DEF SgwcServes, RadioApart, Told
    <2> QED BY <2>1, <2>2
  <1>9. CASE RadioSteps /\ CoreApart
    <2>1. session' = session /\ Told' = Told
      BY <1>9 DEF CoreApart, coreNet, Told
    <2>2. "RELEASE_COMMAND" \notin Offering
      BY DEF Offering
    <2>3. CASE ~UeNas
      <3>1. Final(x, uuDown', s1Down', Offering) = Final(x, uuDown, s1Down, Offering)
        BY <1>9, <2>2, <2>3, Passing
      <3>2. ueIp' = ueIp
        BY <1>9, <2>3 DEF RadioSteps, NoteAttach, SendAttach, SendDetach, NoteDetach, EnbUplink,
             EnbDownlink, EnbConfirms, ueVars
      <3> QED BY <1>3, <1>4, <2>1, <3>1, <3>2
    <2>4. CASE UeNas /\ ~UeAccepted
      <3>1. Head(uuDown).t \notin Offering /\ ueIp' = ueIp
        BY <2>4 DEF UeNas, UeAuthenticates, UeSecures, UeRefused, UeReleased, UeReads, Offering
      <3>2. Final(x, uuDown', s1Down', Offering) = Final(x, uuDown, s1Down, Offering)
        BY <2>2, <2>4, <3>1, Passing
      <3> QED BY <1>3, <1>4, <2>1, <3>1, <3>2
    <2>5. CASE UeNas /\ UeAccepted
      <3>1. Head(uuDown).t = "ATTACH_ACCEPT" /\ ueIp' = Head(uuDown).v
        BY <2>5 DEF UeAccepted, UeReads
      <3>2. /\ Head(uuDown) \in UuDownMsgs
            /\ Final(x, uuDown, s1Down, Offering)
                   = Final(Head(uuDown), uuDown', s1Down', Offering)
        BY <2>2, <2>5, <3>1, Passing DEF Offering
      <3>3. Head(uuDown) = y
        BY <3>1, <3>2 DEF y, MsgOf, UuDownMsgs, Plain, DownTypes
      <3> QED BY <1>1, <1>2, <2>1, <3>2, <3>3
    <2> QED BY <2>3, <2>4, <2>5
  <1>10. CASE UNCHANGED vars
    BY <1>3, <1>4, <1>10 DEF vars, ueVars, mmeVars, coreVars, radioNet, coreNet, Told
  <1> QED BY <1>5, <1>6, <1>7, <1>8, <1>9, <1>10, Steps

(* An attach that is on its way stays so until the MME accepts it, or      *)
(* turns away whom the HSS does not know.                                  *)
LEMMA ComingStep ==
  ASSUME TypeOK, Waits, Challenges, Coming, [Next]_vars, faults = 0, faults' = 0
  PROVE  Coming' \/ (MmeTells /\ (mme = "create" \/ (mme = "air" /\ ~known)))
  <1>1. /\ uuUp \in Seq(UuUpMsgs) /\ s1Up \in Seq(S1UpMsgs)
        /\ uuDown \in Seq(UuDownMsgs) /\ s1Down \in Seq(S1DownMsgs)
    BY Parts DEF Radio
  <1>2. /\ \A n \in UuUpMsgs : Silent(Append(uuUp, n), AttachUp)
                                   <=> Silent(uuUp, AttachUp) /\ n.t \notin AttachUp
        /\ \A n \in S1UpMsgs : Silent(Append(s1Up, n), AttachUp)
                                   <=> Silent(s1Up, AttachUp) /\ n.t \notin AttachUp
        /\ \A n \in UuDownMsgs : Silent(Append(uuDown, n), ComingDown)
                                   <=> Silent(uuDown, ComingDown) /\ n.t \notin ComingDown
        /\ \A n \in S1DownMsgs : Silent(Append(s1Down, n), ComingDown)
                                   <=> Silent(s1Down, ComingDown) /\ n.t \notin ComingDown
    BY <1>1, LastsAppend
  <1>3. /\ uuUp # <<>> => (Silent(uuUp, AttachUp)
                               <=> Head(uuUp).t \notin AttachUp /\ Silent(Tail(uuUp), AttachUp))
        /\ s1Up # <<>> => (Silent(s1Up, AttachUp)
                               <=> Head(s1Up).t \notin AttachUp /\ Silent(Tail(s1Up), AttachUp))
        /\ uuDown # <<>> =>
               (Silent(uuDown, ComingDown)
                    <=> Head(uuDown).t \notin ComingDown /\ Silent(Tail(uuDown), ComingDown))
        /\ s1Down # <<>> =>
               (Silent(s1Down, ComingDown)
                    <=> Head(s1Down).t \notin ComingDown /\ Silent(Tail(s1Down), ComingDown))
    BY <1>1, LastsTail
  <1> DEFINE On == \/ command' = "attach" \/ mme' \in {"air", "create"}
                   \/ ~Silent(uuUp', AttachUp) \/ ~Silent(s1Up', AttachUp)
                   \/ ~Silent(uuDown', ComingDown) \/ ~Silent(s1Down', ComingDown)
  <1>4. On => Coming'
    BY DEF Coming
  <1>5. \/ command = "attach" \/ mme \in {"air", "create"}
        \/ ~Silent(uuUp, AttachUp) \/ ~Silent(s1Up, AttachUp)
        \/ ~Silent(uuDown, ComingDown) \/ ~Silent(s1Down, ComingDown)
    BY DEF Coming
  <1>6. CASE MmeTakes /\ Apart
    <2>1. /\ s1Up # <<>> /\ s1Up' = Tail(s1Up) /\ mme = "idle"
          /\ UNCHANGED <<command, uuUp, uuDown>>
      BY <1>6 DEF MmeTakes, Apart
    <2>2. /\ Msg("SECURITY_MODE_COMMAND") \in S1DownMsgs
          /\ Msg("SECURITY_MODE_COMMAND").t \in ComingDown
      BY Sendable DEF DownTypes, ComingDown
    <2>3. \/ mme' \in {"air", "create"}
          \/ s1Down' = Append(s1Down, Msg("SECURITY_MODE_COMMAND"))
          \/ Head(s1Up).t \notin AttachUp /\ s1Down' = s1Down
      BY <1>6 DEF MmeTakes
    <2> QED BY <1>2, <1>3, <1>4, <1>5, <2>1, <2>2, <2>3
  <1>7. CASE MmeTells /\ Apart
    <2>1. CASE mme = "air" /\ known
      <3>1. PICK n \in S1DownMsgs : n.t = "AUTH_REQUEST" /\ s1Down' = Append(s1Down, n)
        BY <1>7, <2>1, Saying
      <3> QED BY <1>2, <1>4, <3>1 DEF ComingDown
    <2>2. CASE mme \notin {"air", "create"}
      <3>1. \/ s1Down' = s1Down
            \/ \E n \in S1DownMsgs :
                  /\ Append(s1Down, n) \in Seq(S1DownMsgs) /\ Word(session) \in S1DownMsgs
                  /\ s1Down' = Append(Append(s1Down, n), Word(session))
        BY <1>7, <2>2, Saying
      <3>2. ~Silent(s1Down, ComingDown) => ~Silent(s1Down', ComingDown)
        <4>1. ASSUME NEW n \in S1DownMsgs, NEW m \in S1DownMsgs,
                     Append(s1Down, n) \in Seq(S1DownMsgs), ~Silent(s1Down, ComingDown)
              PROVE  ~Silent(Append(Append(s1Down, n), m), ComingDown)
          BY <1>2, <4>1, LastsAppend
        <4> QED BY <3>1, <4>1
      <3> QED BY <1>4, <1>5, <1>7, <2>2, <3>2 DEF MmeTells, Apart
    <2>3. CASE mme = "create" \/ (mme = "air" /\ ~known)
      BY ONLY <1>7, <2>3
    <2> QED BY ONLY <2>1, <2>2, <2>3
  <1>8. CASE HssServes \/ SgwcServes
    BY <1>4, <1>5, <1>8 DEF HssServes, SgwcServes, RadioApart, radioNet
  <1>9. CASE RadioSteps /\ CoreApart
    <2>1. mme' = mme
      BY <1>9 DEF CoreApart
    <2>2. CASE NoteAttach
      BY <1>4, <2>2 DEF NoteAttach, Begin
    <2>3. CASE SendAttach
      <3>1. Msg("ATTACH_REQUEST") \in UuUpMsgs /\ Msg("ATTACH_REQUEST").t \in AttachUp
        BY Sendable DEF UpTypes, AttachUp
      <3> QED BY <1>2, <1>4, <2>3, <3>1 DEF SendAttach
    <2>4. CASE SendDetach
      <3>1. Msg("DETACH_REQUEST") \in UuUpMsgs
        BY Sendable DEF UpTypes
      <3> QED BY <1>2, <1>4, <1>5, <2>1, <2>4, <3>1 DEF SendDetach, Begin
    <2>5. CASE NoteDetach
      BY <1>4, <1>5, <2>1, <2>5 DEF NoteDetach, radioNet
    <2>6. CASE UeNas
      <3>1. /\ uuDown # <<>> /\ uuDown' = Tail(uuDown) /\ Head(uuDown) \in UuDownMsgs
            /\ UNCHANGED <<command, s1Up, s1Down>>
        BY <1>1, <2>6
           DEF UeNas, UeAuthenticates, UeSecures, UeAccepted, UeRefused, UeReleased, UeReads
      <3>2. CASE UeAuthenticates
        <4>1. Head(uuDown).v \in Nat
          BY <3>1, <3>2, Built DEF UeAuthenticates, UeReads
        <4>2. /\ MsgOf("AUTH_RESPONSE", Head(uuDown).v) \in UuUpMsgs
              /\ MsgOf("AUTH_RESPONSE", Head(uuDown).v).t = "AUTH_RESPONSE"
          BY <4>1, Sendable
        <4> QED BY <1>2, <1>4, <3>2, <4>2 DEF UeAuthenticates, UeSends, AttachUp
      <3>3. CASE UeSecures
        <4>1. /\ Msg("SECURITY_MODE_COMPLETE") \in UuUpMsgs
              /\ Msg("SECURITY_MODE_COMPLETE").t \in AttachUp
          BY Sendable DEF UpTypes, AttachUp
        <4> QED BY <1>2, <1>4, <3>3, <4>1 DEF UeSecures, UeSends
      <3>4. CASE UeAccepted \/ UeRefused \/ UeReleased
        <4>1. Head(uuDown).t \notin ComingDown
          BY <3>4 DEF UeAccepted, UeRefused, UeReleased, UeReads, ComingDown
        <4>2. uuUp' = uuUp \/ uuUp' = Append(uuUp, Msg("ATTACH_COMPLETE"))
          BY <3>4 DEF UeAccepted, UeRefused, UeReleased, UeSends
        <4>3. Msg("ATTACH_COMPLETE") \in UuUpMsgs
          BY Sendable DEF UpTypes
        <4> QED BY <1>2, <1>3, <1>4, <1>5, <2>1, <3>1, <4>1, <4>2, <4>3
      <3> QED BY <2>6, <3>2, <3>3, <3>4 DEF UeNas
    <2>7. CASE EnbUplink
      <3>1. uuUp # <<>> => Head(uuUp) \in S1UpMsgs
        BY <1>1, Built
      <3>2. /\ uuUp # <<>> /\ uuUp' = Tail(uuUp) /\ s1Up' = Append(s1Up, Head(uuUp))
            /\ UNCHANGED <<command, uuDown, s1Down>>
        BY <2>7 DEF EnbUplink, ueVars
      <3> QED BY <1>2, <1>3, <1>4, <1>5, <2>1, <3>1, <3>2
    <2>8. CASE EnbDownlink
      <3>1. /\ s1Down # <<>> /\ s1Down' = Tail(s1Down) /\ Head(s1Down) \in S1DownMsgs
            /\ UNCHANGED <<command, uuUp>>
        BY <1>1, <2>8 DEF EnbDownlink, ueVars
      <3>2. CASE EnbRelays
        <4>1. Head(s1Down).t # "RELEASE_COMMAND" /\ s1Up' = s1Up
              /\ uuDown' = Append(uuDown, Head(s1Down))
          BY <3>2 DEF EnbRelays
        <4>2. Head(s1Down) \in UuDownMsgs
          BY <3>1, <4>1, Built
        <4> QED BY <1>2, <1>3, <1>4, <1>5, <2>1, <3>1, <4>1, <4>2
      <3>3. CASE EnbSetsUp \/ EnbReleases
        <4>1. /\ Head(s1Down).t \notin ComingDown
              /\ uuDown' = uuDown
                 \/ (Head(s1Down).t = "ATTACH_ACCEPT" /\ uuDown' = Append(uuDown, Head(s1Down)))
              /\ s1Up' = s1Up \/ s1Up' = Append(s1Up, Msg("RELEASE_COMPLETE"))
          BY <3>3 DEF EnbSetsUp, EnbReleases, ComingDown
        <4>2. Head(s1Down).t = "ATTACH_ACCEPT" => Head(s1Down) \in UuDownMsgs
          BY <3>1, Built
        <4>3. ~Silent(uuDown, ComingDown) => ~Silent(uuDown', ComingDown)
          BY <1>2, <4>1, <4>2
        <4>4. ~Silent(s1Up, AttachUp) => ~Silent(s1Up', AttachUp)
          BY <1>2, <4>1, Sendable
        <4> QED BY <1>3, <1>4, <1>5, <2>1, <3>1, <4>1, <4>3, <4>4
      <3> QED BY <2>8, <3>2, <3>3 DEF EnbDownlink
    <2>9. CASE EnbConfirms
      <3>1. /\ s1Up' = Append(s1Up, Msg("SETUP_RESPONSE"))
            /\ UNCHANGED <<command, uuUp, uuDown, s1Down>>
        BY <2>9 DEF EnbConfirms, ueVars
      <3>2. ~Silent(s1Up, AttachUp) => ~Silent(s1Up', AttachUp)
        BY <1>2, <3>1, Sendable
      <3> QED BY <1>4, <1>5, <2>1, <3>1, <3>2
    <2> QED BY <1>9, <2>2, <2>3, <2>4, <2>5, <2>6, <2>7, <2>8, <2>9 DEF RadioSteps
  <1>10. CASE UNCHANGED vars
    BY <1>4, <1>5, <1>10 DEF vars, ueVars, mmeVars, radioNet
  <1> HIDE DEF On
  <1> QED BY <1>6, <1>7, <1>8, <1>9, <1>10, Steps

(* The UE's last state is what the MME told it last, or its own note.      *)
LEMMA StateStep ==
  ASSUME TypeOK, Waits, Challenges, StateFollows, [Next]_vars, faults = 0, faults' = 0
  PROVE  StateFollows'
  <1> DEFINE Stands(m) ==
                 /\ m.t = "ATTACH_ACCEPT" => session # None \/ Told
                 /\ m.t \notin {"ATTACH_ACCEPT", "DETACH_SENT"} => session = None \/ Coming
             StandsThen(m) ==
                 /\ m.t = "ATTACH_ACCEPT" => session' # None \/ Told'
                 /\ m.t \notin {"ATTACH_ACCEPT", "DETACH_SENT"} => session' = None \/ Coming'
  <1>1. ASSUME \A m \in Final(Verdict', uuDown', s1Down', Verdicts) : StandsThen(m)
        PROVE  StateFollows'
    BY <1>1 DEF StateFollows
  <1>2. \A m \in Final(Verdict, uuDown, s1Down, Verdicts) : Stands(m)
    BY DEF StateFollows
  <1>3. ASSUME \A m : Stands(m) => StandsThen(m), Verdict' = Verdict,
               Final(Verdict, uuDown', s1Down', Verdicts)
                   = Final(Verdict, uuDown, s1Down, Verdicts)
        PROVE  StateFollows'
    BY <1>1, <1>2, <1>3
  <1>4. ASSUME session' = session, Told => Told', Coming => Coming'
        PROVE  \A m : Stands(m) => StandsThen(m)
    BY <1>4
  <1>5. ASSUME ~(MmeTells /\ (mme = "create" \/ (mme = "air" /\ ~known)))
        PROVE  Coming => Coming'
    BY <1>5, ComingStep
  <1>6. ue' = ue => Verdict' = Verdict
    BY DEF Verdict
  <1> HIDE DEF Stands, StandsThen
  <1>7. CASE MmeTakes /\ Apart
    <2>1. ~Told /\ session' = session /\ uuDown' = uuDown /\ Verdict' = Verdict /\ ~MmeTells
      BY <1>6, <1>7 DEF MmeTakes, MmeTells, Apart, Told
    <2>2. \/ s1Down' = s1Down
          \/ \E n \in S1DownMsgs : n.t \notin Verdicts /\ s1Down' = Append(s1Down, n)
      BY <1>7, Saying DEF Verdicts
    <2>3. Final(Verdict, uuDown', s1Down', Verdicts) = Final(Verdict, uuDown, s1Down, Verdicts)
      BY <2>1, <2>2, OtherWords
    <2> QED BY <1>3, <1>4, <1>5, <2>1, <2>3
  <1>8. CASE MmeTells /\ Apart
    <2>1. session' = session /\ uuDown' = uuDown /\ Verdict' = Verdict
      BY <1>6, <1>8 DEF Apart
    <2>2. CASE mme = "modify" \/ (mme = "air" /\ known)
      <3>1. \/ s1Down' = s1Down
            \/ \E n \in S1DownMsgs : n.t \notin Verdicts /\ s1Down' = Append(s1Down, n)
        BY <1>8, <2>2, Saying DEF Verdicts
      <3>2. Final(Verdict, uuDown', s1Down', Verdicts)
                = Final(Verdict, uuDown, s1Down, Verdicts)
        BY <2>1, <3>1, OtherWords
      <3> QED BY <1>3, <1>4, <1>5, <2>1, <2>2, <3>2 DEF Told
    <2>3. CASE mme = "air" /\ ~known
      <3>1. PICK n \in S1DownMsgs : n.t = "ATTACH_REJECT" /\ s1Down' = Append(s1Down, n)
        BY <1>8, <2>3, Saying
      <3>2. Final(Verdict, uuDown, Append(s1Down, n), Verdicts) = {n}
        BY <3>1, LastWord DEF Verdicts
      <3>3. session = None
        BY <2>3 DEF Challenges
      <3> QED BY <1>1, <2>1, <3>1, <3>2, <3>3 DEF StandsThen
    <2>4. CASE mme = "create"
      <3>1. /\ session # None /\ Word(session) \in S1DownMsgs
            /\ Word(session).t = "ATTACH_ACCEPT" /\ s1Down' = Append(s1Down, Word(session))
        BY <1>8, <2>4, Saying
      <3>2. Final(Verdict, uuDown, Append(s1Down, Word(session)), Verdicts) = {Word(session)}
        BY <3>1, LastWord DEF Verdicts
      <3> QED BY <1>1, <2>1, <3>1, <3>2 DEF StandsThen
    <2>5. CASE mme = "delete"
      <3>1. PICK n \in S1DownMsgs :
                /\ session = None /\ Word(session) \in S1DownMsgs
                /\ Word(session).t = "RELEASE_COMMAND" /\ n.t = "DETACH_ACCEPT"
                /\ Append(s1Down, n) \in Seq(S1DownMsgs)
                /\ s1Down' = Append(Append(s1Down, n), Word(session))
        BY <1>8, <2>5, Saying
      <3>2. Final(Verdict, uuDown, Append(s1Down, n), Verdicts) = {n}
        BY <3>1, LastWord DEF Verdicts
      <3>3. uuDown \in Seq(UuDownMsgs) /\ Word(session).t \notin Verdicts
        BY <3>1, Parts DEF Radio, Verdicts
      <3>4. ASSUME NEW x, NEW r \in Seq(S1DownMsgs), NEW m \in S1DownMsgs, m.t \notin Verdicts
            PROVE  Final(x, uuDown, Append(r, m), Verdicts) = Final(x, uuDown, r, Verdicts)
        BY <3>3, <3>4, FinalMoves
      <3>5. Final(Verdict, uuDown, Append(Append(s1Down, n), Word(session)), Verdicts) = {n}
        BY <3>1, <3>2, <3>3, <3>4
      <3> QED BY <1>1, <2>1, <3>1, <3>5 DEF StandsThen
    <2> QED BY <1>8, <2>2, <2>3, <2>4, <2>5 DEF MmeTells
  <1>9. CASE HssServes
    BY <1>3, <1>4, <1>5, <1>6, <1>9 DEF HssServes, MmeTells, RadioApart, radioNet, Told
  <1>10. CASE SgwcServes
    <2>1. /\ Verdict' = Verdict /\ (Coming => Coming')
          /\ Final(Verdict, uuDown', s1Down', Verdicts)
                 = Final(Verdict, uuDown, s1Down, Verdicts)
      BY <1>5, <1>6, <1>10 DEF SgwcServes, MmeTells, RadioApart, radioNet
    <2>2. CASE mme = "modify"
      <3>1. session' = session /\ ~Told
        BY <1>10, <2>2 DEF SgwcServes, Told
      <3> QED BY <1>3, <1>4, <2>1, <3>1
    <2>3. CASE mme \in {"create", "delete"}
      <3>1. Told' /\ (session' = None \/ Coming')
        BY <1>10, <2>3 DEF SgwcServes, RadioApart, Told, Coming
      <3> QED BY <1>1, <3>1 DEF StandsThen
    <2> QED BY <1>10, <2>2, <2>3 DEF SgwcServes
  <1>11. CASE RadioSteps /\ CoreApart
    <2>1. session' = session /\ Told' = Told /\ ~MmeTells
      BY <1>11 DEF CoreApart, coreNet, Told, MmeTells
    <2>2. \A m : Stands(m) => StandsThen(m)
      BY <1>4, <1>5, <2>1
    <2>3. "RELEASE_COMMAND" \notin Verdicts
      BY DEF Verdicts
    <2>4. ~UeNas => Final(Verdict, uuDown', s1Down', Verdicts)
                        = Final(Verdict, uuDown, s1Down, Verdicts)
      BY <1>11, <2>3, Passing
    <2>5. CASE NoteAttach \/ NoteDetach
      <3>1. Final(Verdict, uuDown', s1Down', Verdicts)
                = Final(Verdict, uuDown, s1Down, Verdicts)
        BY <2>5 DEF NoteAttach, NoteDetach, radioNet
      <3>2. \/ Verdict'.t = "DETACH_SENT"
            \/ Verdict'.t = "ATTACH_SENT" /\ Coming'
        BY <2>5 DEF NoteAttach, NoteDetach, Begin, Verdict, Msg, Coming
      <3>3. StandsThen(Verdict')
        BY <3>2 DEF StandsThen
      <3>4. ASSUME NEW m \in Final(Verdict', uuDown', s1Down', Verdicts) PROVE StandsThen(m)
        <4>1. m \in Final(Verdict, uuDown', s1Down', Verdicts) \/ m = Verdict'
          BY <3>4, FinalSwap
        <4> QED BY <1>2, <2>2, <3>1, <3>3, <4>1
      <3> QED BY <1>1, <3>4
    <2>6. CASE ~UeNas /\ (SendAttach \/ SendDetach \/ EnbUplink \/ EnbDownlink \/ EnbConfirms)
      <3>1. Verdict' = Verdict
        BY <1>6, <2>6 DEF SendAttach, SendDetach, EnbUplink, EnbDownlink, EnbConfirms, ueVars
      <3> QED BY <1>3, <2>2, <2>4, <2>6, <3>1
    <2>7. CASE UeNas /\ (UeAuthenticates \/ UeSecures)
      <3>1. Head(uuDown).t \notin Verdicts /\ ue' = ue
        BY <2>7 DEF UeAuthenticates, UeSecures, UeReads, Verdicts
      <3>2. Final(Verdict, uuDown', s1Down', Verdicts)
                = Final(Verdict, uuDown, s1Down, Verdicts)
        BY <2>3, <2>7, <3>1, Passing
      <3> QED BY <1>3, <1>6, <2>2, <3>1, <3>2
    <2>8. CASE UeNas /\ (UeAccepted \/ UeRefused \/ UeReleased)
      <3>1. Head(uuDown).t \in Verdicts /\ Verdict'.t = Head(uuDown).t
        BY <2>8 DEF UeAccepted, UeRefused, UeReleased, UeReads, Verdicts, Verdict, Msg
      <3>2. Final(Verdict, uuDown, s1Down, Verdicts)
                = Final(Head(uuDown), uuDown', s1Down', Verdicts)
        BY <2>3, <2>8, <3>1, Passing
      <3>3. ASSUME NEW m \in Final(Verdict', uuDown', s1Down', Verdicts) PROVE StandsThen(m)
        <4>1. \/ m \in Final(Head(uuDown), uuDown', s1Down', Verdicts)
              \/ /\ m = Verdict'
                 /\ Head(uuDown) \in Final(Head(uuDown), uuDown', s1Down', Verdicts)
          BY <3>3, FinalSwap
        <4>2. StandsThen(Head(uuDown)) => StandsThen(Verdict')
          BY <3>1 DEF StandsThen
        <4> QED BY <1>2, <2>2, <3>2, <4>1, <4>2
      <3> QED BY <1>1, <3>3
    <2> QED BY <1>11, <2>5, <2>6, <2>7, <2>8 DEF RadioSteps, UeNas
  <1>12. CASE UNCHANGED vars
    <2>1. /\ session' = session /\ Told' = Told /\ Verdict' = Verdict /\ ~MmeTells
          /\ uuDown' = uuDown /\ s1Down' = s1Down
      BY <1>6, <1>12 DEF vars, ueVars, mmeVars, coreVars, radioNet, coreNet, Told, MmeTells
    <2> QED BY <1>3, <1>4, <1>5, <2>1
  <1> QED BY <1>7, <1>8, <1>9, <1>10, <1>11, <1>12, Steps

(* The eNB has a bearer just when it takes the UE for attached.            *)
LEMMA MarkStep == TypeOK /\ BearerMarked /\ [Next]_vars => BearerMarked'
  <1> SUFFICES ASSUME TypeOK, BearerMarked, [Next]_vars PROVE BearerMarked'
    OBVIOUS
  <1>1. CASE EnbDownlink
    <2>1. s1Down # <<>> /\ Head(s1Down) \in S1DownMsgs /\ enb = "idle"
      BY <1>1, Parts DEF EnbDownlink, Radio
    <2>2. CASE EnbSetsUp
      <3>1. Head(s1Down).v \in Nat
        BY <2>1, <2>2, Built DEF EnbSetsUp
      <3> QED BY <2>2, <3>1, AttachAssumption DEF EnbSetsUp, BearerMarked
    <2>3. CASE EnbReleases \/ EnbRelays
      BY <2>1, <2>3 DEF EnbReleases, EnbRelays, enbVars, BearerMarked
    <2> QED BY <1>1, <2>2, <2>3 DEF EnbDownlink
  <1>2. CASE EnbConfirms
    BY <1>2 DEF EnbConfirms, BearerMarked
  <1>3. Mme => UNCHANGED enbVars
    BY Zenon DEF Mme, OnAttachRequest, OnAuthResponse, OnSecurityComplete,
         OnDetachRequest, OnSetupResponse, OnOther, MmeReads, Challenged, NotChallenged, Created,
         CreatedWithoutAddress, NotCreated, Deleted, Modified, MmeResumes
  <1>4. CASE ~EnbDownlink /\ ~EnbConfirms
    <2>1. UNCHANGED enbVars
      BY <1>3, <1>4, Zenon DEF Next, NoteAttach, SendAttach, SendDetach, NoteDetach, Control, UeNas,
         EnbUplink, Hss, Sgwc, Lose, vars
    <2> QED BY <2>1 DEF enbVars, BearerMarked
  <1> QED BY <1>1, <1>2, <1>4

(* The initial states.                                                     *)
LEMMA PaceInit == Init => BearerMarked /\ InPace
  <1> SUFFICES ASSUME Init PROVE BearerMarked /\ InPace
    OBVIOUS
  <1>1. \A x, T : After(x, <<>>, T) = {x} /\ Final(x, <<>>, <<>>, T) = {x}
    BY DEF After, Final, Silent, Lasts
  <1>2. BearerMarked
    BY DEF Init, BearerMarked
  <1>3. Waits
    BY DEF Init, Waits
  <1>4. Challenges
    BY DEF Init, Challenges, AllDue
  <1>5. BearerFollows /\ AddressFollows
    BY <1>1 DEF Init, BearerFollows, AddressFollows
  <1>6. StateFollows
    <2>1. Verdict = Msg("IDLE") /\ session = None
      BY DEF Init, Verdict
    <2>2. Final(Verdict, uuDown, s1Down, Verdicts) = {Verdict}
      BY <1>1 DEF Init
    <2> QED BY <2>1, <2>2 DEF StateFollows, Msg
  <1> QED BY <1>2, <1>3, <1>4, <1>5, <1>6 DEF InPace

(* Every step keeps the pace, as long as nothing goes wrong.               *)
LEMMA PaceStep == TypeOK /\ InPace /\ [Next]_vars => InPace'
  <1> SUFFICES ASSUME TypeOK, InPace, [Next]_vars, faults' = 0
               PROVE  (Waits /\ Challenges /\ BearerFollows /\ AddressFollows /\ StateFollows)'
    BY DEF InPace
  <1>1. faults = 0
    BY StillNone
  <1>2. Waits /\ Challenges /\ BearerFollows /\ AddressFollows /\ StateFollows
    BY <1>1 DEF InPace
  <1> QED BY <1>1, <1>2, WaitsStep, ChallengesStep, BearerStep, AddressStep, StateStep

(* When all is quiet, the last word has been read.                         *)
LEMMA PaceSettles == TypeOK /\ BearerMarked /\ InPace => Settled
  <1> SUFFICES ASSUME TypeOK, BearerMarked, InPace, Quiet, faults = 0
               PROVE  /\ attached <=> session # None
                      /\ bearer = session
                      /\ ue # "DETACH_SENT" => (ue = "ATTACHED" <=> session # None)
                      /\ session # None => ueIp = session
    BY DEF Settled
  <1>1. \A x, T : After(x, <<>>, T) = {x} /\ Final(x, <<>>, <<>>, T) = {x}
    BY DEF After, Final, Silent, Lasts
  <1>2. /\ mme = "idle" /\ command = "none"
        /\ uuUp = <<>> /\ uuDown = <<>> /\ s1Up = <<>> /\ s1Down = <<>>
    BY DEF Quiet
  <1>3. ~Told /\ ~Coming
    BY <1>2 DEF Told, Coming, Silent
  <1>4. bearer = session
    <2>1. Word(bearer) = Word(session)
      BY <1>1, <1>2, <1>3 DEF InPace, BearerFollows
    <2> QED BY <2>1 DEF Word, Msg, MsgOf
  <1>5. session # None => ueIp = session
    <2>1. session # None => MsgOf("ATTACH_ACCEPT", ueIp).v = session
      BY <1>1, <1>2, <1>3 DEF InPace, AddressFollows
    <2> QED BY <2>1 DEF MsgOf
  <1>6. ue # "DETACH_SENT" => (ue = "ATTACHED" <=> session # None)
    <2>1. /\ Verdict.t = "ATTACH_ACCEPT" => session # None
          /\ Verdict.t \notin {"ATTACH_ACCEPT", "DETACH_SENT"} => session = None
      BY <1>1, <1>2, <1>3 DEF InPace, StateFollows
    <2>2. ue \in UeStates
      BY Parts DEF Values
    <2>3. /\ ue = "ATTACHED" <=> Verdict.t = "ATTACH_ACCEPT"
          /\ ue # "DETACH_SENT" => Verdict.t # "DETACH_SENT"
      BY <2>2 DEF Verdict, Msg, UeStates
    <2> QED BY <2>1, <2>3
  <1> QED BY <1>4, <1>5, <1>6 DEF BearerMarked, Quiet

(* When all is quiet and nothing went wrong, the UE takes itself for       *)
(* attached just when the SGW-C has a session for it, and the eNB and the  *)
(* UE hold the TEID and the address of that session, however many attaches *)
(* and detaches were begun and crossed (UE.on_nas, ENB.on_s1ap, MME's      *)
(* handlers).                                                              *)
THEOREM SettledHolds == Spec => []Settled
  <1>1. Init => TypeOK /\ BearerMarked /\ InPace
    BY TypeInit, PaceInit
  <1>2. (TypeOK /\ BearerMarked /\ InPace) /\ [Next]_vars => (TypeOK /\ BearerMarked /\ InPace)'
    BY TypeStep, MarkStep, PaceStep
  <1>3. TypeOK /\ BearerMarked /\ InPace => Settled
    BY PaceSettles
  <1> QED BY <1>1, <1>2, <1>3, PTL DEF Spec

=============================================================================
