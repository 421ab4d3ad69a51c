------------------------- MODULE AttachPromiseProofs -------------------------
(***************************************************************************)
(* Proof that Attach implements the safety part of Registration, for any   *)
(* number of commands and faults: what is open and closing is counted      *)
(* right by every handler and by every loss, and the addresses on the way  *)
(* to the UE are on the way in the order of their grants.                  *)
(***************************************************************************)
EXTENDS AttachProofs

---------------------------------------------------------------------------
(* How many messages of some types are in a socket, and how that changes. *)

In(t, T) == IF t \in T THEN 1 ELSE 0

Flags01(q, T) == [i \in DOMAIN q |-> In(q[i].t, T)]

(* Messages are counted by counting the flags that mark them. *)
LEMMA CountFlags ==
  ASSUME NEW S, NEW q \in Seq(S), NEW T
  PROVE  /\ Flags01(q, T) \in Seq({0, 1})
         /\ Count(q, T) = Occurs(Flags01(q, T), 1)
         /\ \A m \in S : Flags01(Append(q, m), T) = Append(Flags01(q, T), In(m.t, T))
         /\ q # <<>> => /\ Flags01(q, T) # <<>>
                        /\ Head(Flags01(q, T)) = In(Head(q).t, T)
                        /\ Flags01(Tail(q), T) = Tail(Flags01(q, T))
  <1>1. Flags01(q, T) \in Seq({0, 1}) /\ Len(Flags01(q, T)) = Len(q)
    BY DEF Flags01, In
  <1>2. {i \in DOMAIN q : q[i].t \in T}
           = {i \in DOMAIN Flags01(q, T) : Flags01(q, T)[i] = 1}
    BY DEF Flags01, In
  <1>3. ASSUME NEW m \in S
        PROVE  Flags01(Append(q, m), T) = Append(Flags01(q, T), In(m.t, T))
    BY DEF Flags01, In
  <1>4. q # <<>> => /\ Flags01(q, T) # <<>>
                    /\ Head(Flags01(q, T)) = In(Head(q).t, T)
                    /\ Flags01(Tail(q), T) = Tail(Flags01(q, T))
    BY DEF Flags01, In
  <1> QED BY <1>1, <1>2, <1>3, <1>4 DEF Count, Occurs

(* A socket q that is r in the next state holds n messages that count, and *)
(* then k.                                                                 *)
Moves(q, r, S, T, n, k) ==
    /\ r = q => k = n
    /\ \A m \in S : r = Append(q, m) => k = n + In(m.t, T)
    /\ q # <<>> /\ r = Tail(q) => n = k + In(Head(q).t, T)

(* A message read or lost counts no more, and one sent does. *)
LEMMA CountMoves ==
  ASSUME NEW S, NEW q \in Seq(S), NEW r \in Seq(S), NEW T
  PROVE  /\ Count(q, T) \in Nat /\ Count(r, T) \in Nat
         /\ Moves(q, r, S, T, Count(q, T), Count(r, T))
  <1>1. /\ Flags01(q, T) \in Seq({0, 1}) /\ Flags01(r, T) \in Seq({0, 1})
        /\ Count(q, T) = Occurs(Flags01(q, T), 1) /\ Count(r, T) = Occurs(Flags01(r, T), 1)
    BY CountFlags
  <1>2. Count(q, T) \in Nat /\ Count(r, T) \in Nat
    BY <1>1, OccursNat
  <1>3. ASSUME NEW m \in S, r = Append(q, m)
        PROVE  Count(r, T) = Count(q, T) + In(m.t, T)
    <2>1. Flags01(r, T) = Append(Flags01(q, T), In(m.t, T)) /\ In(m.t, T) \in {0, 1}
      BY <1>3, CountFlags DEF In
    <2>2. Occurs(Append(Flags01(q, T), In(m.t, T)), 1)
             = Occurs(Flags01(q, T), 1) + (IF In(m.t, T) = 1 THEN 1 ELSE 0)
      BY <1>1, <2>1, OccursAppend
    <2> QED BY <1>1, <2>1, <2>2
  <1>4. ASSUME q # <<>>, r = Tail(q)
        PROVE  Count(q, T) = Count(r, T) + In(Head(q).t, T)
    <2>1. /\ Flags01(q, T) # <<>> /\ Head(Flags01(q, T)) = In(Head(q).t, T)
          /\ Flags01(r, T) = Tail(Flags01(q, T)) /\ In(Head(q).t, T) \in {0, 1}
      BY <1>4, CountFlags DEF In
    <2>2. Occurs(Flags01(q, T), 1)
             = Occurs(Tail(Flags01(q, T)), 1) + (IF Head(Flags01(q, T)) = 1 THEN 1 ELSE 0)
      BY <1>1, <2>1, OccursTail
    <2> QED BY <1>1, <2>1, <2>2
  <1> QED BY <1>2, <1>3, <1>4 DEF Moves

---------------------------------------------------------------------------
(* The messages of the types U on the way up and of the types D on the way *)
(* down, between the UE and the MME.                                       *)

Way(U, D) == Count(uuUp, U) + Count(s1Up, U) + Count(uuDown, D) + Count(s1Down, D)

(* What the four sockets of the way hold, before and after a step. *)
LEMMA WayMoves ==
  ASSUME Radio, Radio', NEW U, NEW D
  PROVE  \E a \in Nat, b \in Nat, c \in Nat, d \in Nat,
            an \in Nat, bn \in Nat, cn \in Nat, dn \in Nat :
             /\ Way(U, D) = a + b + c + d /\ Way(U, D)' = an + bn + cn + dn
             /\ Moves(uuUp, uuUp', UuUpMsgs, U, a, an)
             /\ Moves(s1Up, s1Up', S1UpMsgs, U, b, bn)
             /\ Moves(uuDown, uuDown', UuDownMsgs, D, c, cn)
             /\ Moves(s1Down, s1Down', S1DownMsgs, D, d, dn)
  <1>1. /\ Count(uuUp, U) \in Nat /\ Count(uuUp', U) \in Nat
        /\ Moves(uuUp, uuUp', UuUpMsgs, U, Count(uuUp, U), Count(uuUp', U))
    BY CountMoves DEF Radio
  <1>2. /\ Count(s1Up, U) \in Nat /\ Count(s1Up', U) \in Nat
        /\ Moves(s1Up, s1Up', S1UpMsgs, U, Count(s1Up, U), Count(s1Up', U))
    BY CountMoves DEF Radio
  <1>3. /\ Count(uuDown, D) \in Nat /\ Count(uuDown', D) \in Nat
        /\ Moves(uuDown, uuDown', UuDownMsgs, D, Count(uuDown, D), Count(uuDown', D))
    BY CountMoves DEF Radio
  <1>4. /\ Count(s1Down, D) \in Nat /\ Count(s1Down', D) \in Nat
        /\ Moves(s1Down, s1Down', S1DownMsgs, D, Count(s1Down, D), Count(s1Down', D))
    BY CountMoves DEF Radio
  <1> QED BY <1>1, <1>2, <1>3, <1>4 DEF Way

(* What the handlers send is of the types of the sockets, whatever value   *)
(* comes with it, and what they pass on is so too.                         *)
LEMMA Sendable ==
    /\ \A t \in UpTypes : Msg(t) \in UuUpMsgs /\ Msg(t).t = t
    /\ \A n \in Nat : MsgOf("AUTH_RESPONSE", n) \in UuUpMsgs
                      /\ MsgOf("AUTH_RESPONSE", n).t = "AUTH_RESPONSE"
    /\ \A t \in {"SETUP_RESPONSE", "RELEASE_COMPLETE"} : Msg(t) \in S1UpMsgs /\ Msg(t).t = t
    /\ \A t \in DownTypes \cup {"RELEASE_COMMAND"} : Msg(t) \in S1DownMsgs /\ Msg(t).t = t
    /\ \A t \in {"AUTH_REQUEST", "ATTACH_ACCEPT"}, n \in Nat :
          MsgOf(t, n) \in S1DownMsgs /\ MsgOf(t, n).t = t
  BY Built DEF Msg, MsgOf

(* The messages that the UE's two threads send and take. *)
LEMMA WayOfUe ==
  ASSUME Radio, Radio', NEW U, NEW D
  PROVE  /\ NoteAttach \/ NoteDetach => Way(U, D)' = Way(U, D)
         /\ SendAttach => Way(U, D)' = Way(U, D) + In("ATTACH_REQUEST", U)
         /\ SendDetach => Way(U, D)' = Way(U, D) + In("DETACH_REQUEST", U)
         /\ UeNas /\ UeAuthenticates =>
               Way(U, D)' = Way(U, D) - In("AUTH_REQUEST", D) + In("AUTH_RESPONSE", U)
         /\ UeNas /\ UeSecures =>
               Way(U, D)' = Way(U, D) - In("SECURITY_MODE_COMMAND", D)
                                      + In("SECURITY_MODE_COMPLETE", U)
         /\ UeNas /\ UeAccepted =>
               Way(U, D)' = Way(U, D) - In("ATTACH_ACCEPT", D) + In("ATTACH_COMPLETE", U)
         /\ UeNas /\ UeRefused => Way(U, D)' = Way(U, D) - In("ATTACH_REJECT", D)
         /\ UeNas /\ UeReleased => Way(U, D)' = Way(U, D) - In("DETACH_ACCEPT", D)
  <1>1. PICK a \in Nat, b \in Nat, c \in Nat, d \in Nat,
             an \in Nat, bn \in Nat, cn \in Nat, dn \in Nat :
                 /\ Way(U, D) = a + b + c + d /\ Way(U, D)' = an + bn + cn + dn
                 /\ Moves(uuUp, uuUp', UuUpMsgs, U, a, an)
                 /\ Moves(s1Up, s1Up', S1UpMsgs, U, b, bn)
                 /\ Moves(uuDown, uuDown', UuDownMsgs, D, c, cn)
                 /\ Moves(s1Down, s1Down', S1DownMsgs, D, d, dn)
    BY WayMoves
  <1>2. uuDown # <<>> => Head(uuDown) \in UuDownMsgs
    BY DEF Radio
  <1>3. UpTypes = {"ATTACH_REQUEST", "SECURITY_MODE_COMPLETE", "ATTACH_COMPLETE",
                   "DETACH_REQUEST"}
    BY DEF UpTypes
  <1>4. NoteAttach \/ NoteDetach => Way(U, D)' = Way(U, D)
    BY <1>1 DEF NoteAttach, NoteDetach, radioNet, Moves, In
  <1>5. SendAttach => Way(U, D)' = Way(U, D) + In("ATTACH_REQUEST", U)
    BY <1>1, <1>3, Sendable DEF SendAttach, Moves, In
  <1>6. SendDetach => Way(U, D)' = Way(U, D) + In("DETACH_REQUEST", U)
    BY <1>1, <1>3, Sendable DEF SendDetach, Moves, In
  <1>7. ASSUME UeNas, UeAuthenticates
        PROVE  Way(U, D)' = Way(U, D) - In("AUTH_REQUEST", D) + In("AUTH_RESPONSE", U)
    BY <1>1, <1>2, <1>3, <1>7, Built, Sendable, SMTT(30) DEF UeNas, UeAuthenticates, UeReads, UeSends, Moves, In
  <1>8. ASSUME UeNas, UeSecures
        PROVE  Way(U, D)' = Way(U, D) - In("SECURITY_MODE_COMMAND", D)
                                      + In("SECURITY_MODE_COMPLETE", U)
    BY <1>1, <1>2, <1>3, <1>8, Sendable DEF UeNas, UeSecures, UeReads, UeSends, Moves, In
  <1>9. ASSUME UeNas, UeAccepted
        PROVE  Way(U, D)' = Way(U, D) - In("ATTACH_ACCEPT", D) + In("ATTACH_COMPLETE", U)
    BY <1>1, <1>2, <1>3, <1>9, Sendable, SMTT(30) DEF UeNas, UeAccepted, UeReads, UeSends, Moves, In
  <1>10. ASSUME UeNas, UeRefused
         PROVE  Way(U, D)' = Way(U, D) - In("ATTACH_REJECT", D)
    BY <1>1, <1>3, <1>10 DEF UeNas, UeRefused, UeReads, Moves, In
  <1>11. ASSUME UeNas, UeReleased
         PROVE  Way(U, D)' = Way(U, D) - In("DETACH_ACCEPT", D)
    BY <1>1, <1>3, <1>11 DEF UeNas, UeReleased, UeReads, Moves, In
  <1> QED BY <1>4, <1>5, <1>6, <1>7, <1>8, <1>9, <1>10, <1>11

(* The messages that the eNB passes on, and those it sends itself. *)
LEMMA WayOfEnb ==
  ASSUME Radio, Radio', NEW U, NEW D
  PROVE  /\ EnbUplink => Way(U, D)' = Way(U, D)
         /\ EnbDownlink /\ EnbSetsUp => Way(U, D)' = Way(U, D)
         /\ EnbConfirms => Way(U, D)' = Way(U, D) + In("SETUP_RESPONSE", U)
         /\ EnbDownlink /\ EnbReleases =>
               Way(U, D)' = Way(U, D) - In("RELEASE_COMMAND", D) + In("RELEASE_COMPLETE", U)
         /\ EnbDownlink /\ EnbRelays => Way(U, D)' = Way(U, D)
  <1>1. PICK a \in Nat, b \in Nat, c \in Nat, d \in Nat,
             an \in Nat, bn \in Nat, cn \in Nat, dn \in Nat :
                 /\ Way(U, D) = a + b + c + d /\ Way(U, D)' = an + bn + cn + dn
                 /\ Moves(uuUp, uuUp', UuUpMsgs, U, a, an)
                 /\ Moves(s1Up, s1Up', S1UpMsgs, U, b, bn)
                 /\ Moves(uuDown, uuDown', UuDownMsgs, D, c, cn)
                 /\ Moves(s1Down, s1Down', S1DownMsgs, D, d, dn)
    BY WayMoves
  <1>2. /\ uuUp # <<>> => Head(uuUp) \in UuUpMsgs /\ Head(uuUp) \in S1UpMsgs
        /\ s1Down # <<>> => /\ Head(s1Down) \in S1DownMsgs
                            /\ Head(s1Down).t # "RELEASE_COMMAND" => Head(s1Down) \in UuDownMsgs
    BY Built DEF Radio
  <1>3. ASSUME EnbUplink PROVE Way(U, D)' = Way(U, D)
    <2>1. PICK k \in {0, 1} : k = In(Head(uuUp).t, U)
      BY DEF In
    <2>2. a = an + k /\ cn = c /\ dn = d
      BY <1>1, <1>3, <2>1 DEF EnbUplink, Moves
    <2>3. bn = b + k
      BY <1>1, <1>2, <1>3, <2>1 DEF EnbUplink, Moves
    <2> QED BY <1>1, <2>2, <2>3
  <1>4. ASSUME EnbDownlink, EnbSetsUp
        PROVE  Way(U, D)' = Way(U, D)
    BY <1>1, <1>2, <1>4, Sendable, SMTT(30) DEF EnbDownlink, EnbSetsUp, Moves, In
  <1>5. ASSUME EnbDownlink, EnbReleases
        PROVE  Way(U, D)' = Way(U, D) - In("RELEASE_COMMAND", D) + In("RELEASE_COMPLETE", U)
    BY <1>1, <1>2, <1>5, Sendable, SMTT(30) DEF EnbDownlink, EnbReleases, Moves, In
  <1>6. ASSUME EnbDownlink, EnbRelays
        PROVE  Way(U, D)' = Way(U, D)
    BY <1>1, <1>2, <1>6, SMTT(30) DEF EnbDownlink, EnbRelays, Moves, In
  <1>7. ASSUME EnbConfirms
        PROVE  Way(U, D)' = Way(U, D) + In("SETUP_RESPONSE", U)
    BY <1>1, <1>7, Sendable, SMTT(30) DEF EnbConfirms, Moves, In
  <1> QED BY <1>3, <1>4, <1>5, <1>6, <1>7

(* A message that is taken off the way, by its reader or lost. *)
LEMMA WayTakes ==
  ASSUME Radio, Radio', NEW U, NEW D
  PROVE  /\ UNCHANGED radioNet => Way(U, D)' = Way(U, D)
         /\ uuUp # <<>> /\ uuUp' = Tail(uuUp) /\ UNCHANGED <<uuDown, s1Up, s1Down>> =>
               Way(U, D)' = Way(U, D) - In(Head(uuUp).t, U)
         /\ s1Up # <<>> /\ s1Up' = Tail(s1Up) /\ UNCHANGED <<uuUp, uuDown, s1Down>> =>
               Way(U, D)' = Way(U, D) - In(Head(s1Up).t, U)
         /\ uuDown # <<>> /\ uuDown' = Tail(uuDown) /\ UNCHANGED <<uuUp, s1Up, s1Down>> =>
               Way(U, D)' = Way(U, D) - In(Head(uuDown).t, D)
         /\ s1Down # <<>> /\ s1Down' = Tail(s1Down) /\ UNCHANGED <<uuUp, uuDown, s1Up>> =>
               Way(U, D)' = Way(U, D) - In(Head(s1Down).t, D)
  <1>1. PICK a \in Nat, b \in Nat, c \in Nat, d \in Nat,
             an \in Nat, bn \in Nat, cn \in Nat, dn \in Nat :
                 /\ Way(U, D) = a + b + c + d /\ Way(U, D)' = an + bn + cn + dn
                 /\ Moves(uuUp, uuUp', UuUpMsgs, U, a, an)
                 /\ Moves(s1Up, s1Up', S1UpMsgs, U, b, bn)
                 /\ Moves(uuDown, uuDown', UuDownMsgs, D, c, cn)
                 /\ Moves(s1Down, s1Down', S1DownMsgs, D, d, dn)
    BY WayMoves
  <1>2. UNCHANGED radioNet => Way(U, D)' = Way(U, D)
    BY <1>1 DEF Moves, radioNet
  <1>3. ASSUME uuUp # <<>>, uuUp' = Tail(uuUp), UNCHANGED <<uuDown, s1Up, s1Down>>
        PROVE  Way(U, D)' = Way(U, D) - In(Head(uuUp).t, U)
    <2>1. PICK k \in {0, 1} : k = In(Head(uuUp).t, U)
      BY DEF In
    <2>2. a = an + k /\ bn = b /\ cn = c /\ dn = d
      BY <1>1, <1>3, <2>1 DEF Moves
    <2> QED BY <1>1, <2>1, <2>2
  <1>4. ASSUME s1Up # <<>>, s1Up' = Tail(s1Up), UNCHANGED <<uuUp, uuDown, s1Down>>
        PROVE  Way(U, D)' = Way(U, D) - In(Head(s1Up).t, U)
    <2>1. PICK k \in {0, 1} : k = In(Head(s1Up).t, U)
      BY DEF In
    <2>2. an = a /\ b = bn + k /\ cn = c /\ dn = d
      BY <1>1, <1>4, <2>1 DEF Moves
    <2> QED BY <1>1, <2>1, <2>2
  <1>5. ASSUME uuDown # <<>>, uuDown' = Tail(uuDown), UNCHANGED <<uuUp, s1Up, s1Down>>
        PROVE  Way(U, D)' = Way(U, D) - In(Head(uuDown).t, D)
    <2>1. PICK k \in {0, 1} : k = In(Head(uuDown).t, D)
      BY DEF In
    <2>2. an = a /\ bn = b /\ c = cn + k /\ dn = d
      BY <1>1, <1>5, <2>1 DEF Moves
    <2> QED BY <1>1, <2>1, <2>2
  <1>6. ASSUME s1Down # <<>>, s1Down' = Tail(s1Down), UNCHANGED <<uuUp, uuDown, s1Up>>
        PROVE  Way(U, D)' = Way(U, D) - In(Head(s1Down).t, D)
    <2>1. PICK k \in {0, 1} : k = In(Head(s1Down).t, D)
      BY DEF In
    <2>2. an = a /\ bn = b /\ cn = c /\ d = dn + k
      BY <1>1, <1>6, <2>1 DEF Moves
    <2> QED BY <1>1, <2>1, <2>2
  <1> QED BY <1>2, <1>3, <1>4, <1>5, <1>6

(* The messages that the MME takes off the way, and the answers it puts on *)
(* it at once.                                                             *)
LEMMA WayOfMmeReads ==
  ASSUME Radio, Radio', NEW U, NEW D
  PROVE  /\ OnAttachRequest => Way(U, D)' = Way(U, D) - In("ATTACH_REQUEST", U)
         /\ OnAuthResponse =>
               \E t \in {"SECURITY_MODE_COMMAND", "ATTACH_REJECT"} :
                   Way(U, D)' = Way(U, D) - In("AUTH_RESPONSE", U) + In(t, D)
         /\ OnSecurityComplete => Way(U, D)' = Way(U, D) - In("SECURITY_MODE_COMPLETE", U)
         /\ OnDetachRequest => Way(U, D)' = Way(U, D) - In("DETACH_REQUEST", U)
         /\ OnSetupResponse => Way(U, D)' = Way(U, D) - In("SETUP_RESPONSE", U)
  <1>1. PICK a \in Nat, b \in Nat, c \in Nat, d \in Nat,
             an \in Nat, bn \in Nat, cn \in Nat, dn \in Nat :
                 /\ Way(U, D) = a + b + c + d /\ Way(U, D)' = an + bn + cn + dn
                 /\ Moves(uuUp, uuUp', UuUpMsgs, U, a, an)
                 /\ Moves(s1Up, s1Up', S1UpMsgs, U, b, bn)
                 /\ Moves(uuDown, uuDown', UuDownMsgs, D, c, cn)
                 /\ Moves(s1Down, s1Down', S1DownMsgs, D, d, dn)
    BY WayMoves
  <1>2. OnAttachRequest => Way(U, D)' = Way(U, D) - In("ATTACH_REQUEST", U)
    BY WayTakes DEF OnAttachRequest, MmeReads
  <1>3. OnSecurityComplete => Way(U, D)' = Way(U, D) - In("SECURITY_MODE_COMPLETE", U)
    BY WayTakes DEF OnSecurityComplete, MmeReads
  <1>4. OnDetachRequest => Way(U, D)' = Way(U, D) - In("DETACH_REQUEST", U)
    BY WayTakes DEF OnDetachRequest, MmeReads
  <1>5. OnSetupResponse => Way(U, D)' = Way(U, D) - In("SETUP_RESPONSE", U)
    BY WayTakes DEF OnSetupResponse, MmeReads
  <1>6. ASSUME OnAuthResponse
        PROVE  \E t \in {"SECURITY_MODE_COMMAND", "ATTACH_REJECT"} :
                   Way(U, D)' = Way(U, D) - In("AUTH_RESPONSE", U) + In(t, D)
    <2>1. PICK t \in {"SECURITY_MODE_COMMAND", "ATTACH_REJECT"} : s1Down' = Append(s1Down, Msg(t))
      BY <1>6 DEF OnAuthResponse
    <2>2. Msg(t) \in S1DownMsgs /\ Msg(t).t = t
      BY Sendable DEF DownTypes
    <2>3. Way(U, D)' = Way(U, D) - In("AUTH_RESPONSE", U) + In(t, D)
      BY <1>1, <1>6, <2>1, <2>2 DEF OnAuthResponse, MmeReads, Moves, In
    <2> QED BY <2>3
  <1> QED BY <1>2, <1>3, <1>4, <1>5, <1>6

(* The answers that the MME puts on the way when its wait is over. *)
LEMMA WayOfMmeResumes ==
  ASSUME Radio, Radio', CoreSockets, NEW U, NEW D
  PROVE  /\ Challenged => Way(U, D)' = Way(U, D) + In("AUTH_REQUEST", D)
         /\ NotChallenged \/ NotCreated => Way(U, D)' = Way(U, D) + In("ATTACH_REJECT", D)
         /\ Created => Way(U, D)' = Way(U, D) + In("ATTACH_ACCEPT", D)
         /\ CreatedWithoutAddress \/ Modified => Way(U, D)' = Way(U, D)
  <1>1. PICK a \in Nat, b \in Nat, c \in Nat, d \in Nat,
             an \in Nat, bn \in Nat, cn \in Nat, dn \in Nat :
                 /\ Way(U, D) = a + b + c + d /\ Way(U, D)' = an + bn + cn + dn
                 /\ Moves(uuUp, uuUp', UuUpMsgs, U, a, an)
                 /\ Moves(s1Up, s1Up', S1UpMsgs, U, b, bn)
                 /\ Moves(uuDown, uuDown', UuDownMsgs, D, c, cn)
                 /\ Moves(s1Down, s1Down', S1DownMsgs, D, d, dn)
    BY WayMoves
  <1>2. /\ s6aOut # <<>> => Head(s6aOut) \in Nat \cup {None}
        /\ s11Out # <<>> => Head(s11Out) \in Nat \cup {None}
    BY DEF CoreSockets
  <1>3. Msg("ATTACH_REJECT") \in S1DownMsgs /\ Msg("ATTACH_REJECT").t = "ATTACH_REJECT"
    BY Sendable DEF DownTypes
  <1>4. Challenged => Way(U, D)' = Way(U, D) + In("AUTH_REQUEST", D)
    BY <1>1, <1>2, Sendable DEF Challenged, MmeResumes, HssAnswered, Moves, In
  <1>5. NotChallenged \/ NotCreated => Way(U, D)' = Way(U, D) + In("ATTACH_REJECT", D)
    <2>1. NotChallenged \/ NotCreated =>
              s1Down' = Append(s1Down, Msg("ATTACH_REJECT")) /\ UNCHANGED <<uuUp, uuDown, s1Up>>
      BY DEF NotChallenged, NotCreated, MmeResumes
    <2> QED BY <1>1, <1>3, <2>1 DEF Moves, In
  <1>6. Created => Way(U, D)' = Way(U, D) + In("ATTACH_ACCEPT", D)
    BY <1>1, <1>2, Sendable DEF Created, MmeResumes, SgwcAnswered, Moves, In
  <1>7. CreatedWithoutAddress \/ Modified => Way(U, D)' = Way(U, D)
    BY <1>1 DEF CreatedWithoutAddress, Modified, MmeResumes, Moves, In
  <1> QED BY <1>4, <1>5, <1>6, <1>7

(* The end of a detach puts two messages on the way. *)
LEMMA WayOfDeleted ==
  ASSUME Radio, Radio', NEW U, NEW D, Deleted
  PROVE  Way(U, D)' = Way(U, D) + In("DETACH_ACCEPT", D) + In("RELEASE_COMMAND", D)
  <1> DEFINE q == Append(s1Down, Msg("DETACH_ACCEPT"))
  <1>1. /\ \A t \in {"DETACH_ACCEPT", "RELEASE_COMMAND"} : Msg(t) \in S1DownMsgs /\ Msg(t).t = t
        /\ s1Down \in Seq(S1DownMsgs) /\ s1Down' \in Seq(S1DownMsgs)
    BY Sendable DEF DownTypes, Radio
  <1>2. /\ q \in Seq(S1DownMsgs) /\ s1Down' = Append(q, Msg("RELEASE_COMMAND"))
        /\ UNCHANGED <<uuUp, uuDown, s1Up>>
    BY <1>1 DEF Deleted, MmeResumes
  <1>3. /\ Count(s1Down, D) \in Nat
        /\ Count(q, D) = Count(s1Down, D) + In("DETACH_ACCEPT", D)
    <2>1. Moves(s1Down, q, S1DownMsgs, D, Count(s1Down, D), Count(q, D))
      BY <1>1, <1>2, CountMoves
    <2>2. Count(s1Down, D) \in Nat
      BY <1>1, CountMoves
    <2> QED BY <1>1, <2>1, <2>2 DEF Moves
  <1>4. Count(s1Down', D) = Count(q, D) + In("RELEASE_COMMAND", D)
    <2> HIDE DEF q
    <2>1. Moves(q, s1Down', S1DownMsgs, D, Count(q, D), Count(s1Down', D))
      BY <1>1, <1>2, CountMoves
    <2> QED BY <1>1, <1>2, <2>1 DEF Moves
  <1>5. /\ Count(uuUp, U) \in Nat /\ Count(uuUp', U) = Count(uuUp, U)
        /\ Count(s1Up, U) \in Nat /\ Count(s1Up', U) = Count(s1Up, U)
        /\ Count(uuDown, D) \in Nat /\ Count(uuDown', D) = Count(uuDown, D)
    BY <1>2, CountMoves DEF Radio
  <1> HIDE DEF q
  <1> QED BY <1>3, <1>4, <1>5 DEF Way, In

---------------------------------------------------------------------------
(* What is open and closing: what is on the way, and what a thread is in   *)
(* the middle of.                                                          *)

LeaveUp == {"DETACH_REQUEST"}
LeaveDown == {"DETACH_ACCEPT"}
OpenHere == (IF command = "attach" THEN 1 ELSE 0) + (IF mme \in {"air", "create"} THEN 1 ELSE 0)
ClosingHere == IF mme = "delete" THEN 1 ELSE 0

(* The attaches open and the detaches closing are counted by what is here  *)
(* and what is on the way, in either state.                                *)
LEMMA CountedParts ==
  ASSUME Radio, Radio'
  PROVE  /\ Open = OpenHere + Way(AttachUp, AttachDown)
         /\ Open' = OpenHere' + Way(AttachUp, AttachDown)'
         /\ Closing = ClosingHere + Way(LeaveUp, LeaveDown)
         /\ Closing' = ClosingHere' + Way(LeaveUp, LeaveDown)'
         /\ Open \in Nat /\ Open' \in Nat /\ Closing \in Nat /\ Closing' \in Nat
         /\ Way(AttachUp, AttachDown) \in Nat /\ Way(AttachUp, AttachDown)' \in Nat
         /\ Way(LeaveUp, LeaveDown) \in Nat /\ Way(LeaveUp, LeaveDown)' \in Nat
  <1>1. ASSUME NEW T
        PROVE  /\ Count(uuUp, T) \in Nat /\ Count(uuUp', T) \in Nat
               /\ Count(s1Up, T) \in Nat /\ Count(s1Up', T) \in Nat
               /\ Count(uuDown, T) \in Nat /\ Count(uuDown', T) \in Nat
               /\ Count(s1Down, T) \in Nat /\ Count(s1Down', T) \in Nat
    BY CountMoves DEF Radio
  <1>2. /\ Open = OpenHere + Way(AttachUp, AttachDown) /\ Open \in Nat
        /\ Way(AttachUp, AttachDown) \in Nat
    BY <1>1 DEF Open, OpenHere, Way
  <1>3. /\ Open' = OpenHere' + Way(AttachUp, AttachDown)' /\ Open' \in Nat
        /\ Way(AttachUp, AttachDown)' \in Nat
    BY <1>1 DEF Open, OpenHere, Way
  <1>4. /\ Closing = ClosingHere + Way(LeaveUp, LeaveDown) /\ Closing \in Nat
        /\ Way(LeaveUp, LeaveDown) \in Nat
    BY <1>1 DEF Closing, ClosingHere, Way, LeaveUp, LeaveDown
  <1>5. /\ Closing' = ClosingHere' + Way(LeaveUp, LeaveDown)' /\ Closing' \in Nat
        /\ Way(LeaveUp, LeaveDown)' \in Nat
    BY <1>1 DEF Closing, ClosingHere, Way, LeaveUp, LeaveDown
  <1> QED BY <1>2, <1>3, <1>4, <1>5

(* The UE's commands open and close, its handler ends what it is told the  *)
(* end of, and passes on the rest.                                         *)
LEMMA UeCounts ==
  ASSUME Radio, Radio'
  PROVE  /\ NoteAttach => Open' = Open + 1 /\ Closing' = Closing
         /\ SendAttach \/ NoteDetach => Open' = Open /\ Closing' = Closing
         /\ SendDetach => Open' = Open /\ Closing' = Closing + 1
         /\ UeNas /\ (UeAuthenticates \/ UeSecures) => Open' = Open /\ Closing' = Closing
         /\ UeNas /\ (UeAccepted \/ UeRefused) => Open' = Open - 1 /\ Closing' = Closing
         /\ UeNas /\ UeReleased => Open' = Open /\ Closing' = Closing - 1
  <1> DEFINE o == Way(AttachUp, AttachDown)
             p == Way(LeaveUp, LeaveDown)
  <1>1. /\ Open = OpenHere + o /\ Open' = OpenHere' + o' /\ o \in Nat /\ o' \in Nat
        /\ Closing = ClosingHere + p /\ Closing' = ClosingHere' + p' /\ p \in Nat /\ p' \in Nat
    BY CountedParts
  <1>2. OpenHere \in Nat /\ ClosingHere \in Nat
    BY DEF OpenHere, ClosingHere
  <1> USE DEF In, AttachUp, AttachDown, LeaveUp, LeaveDown
  <1>3. ASSUME NoteAttach PROVE Open' = Open + 1 /\ Closing' = Closing
    <2>1. o' = o /\ p' = p
      BY <1>1, <1>3, WayOfUe
    <2>2. OpenHere' = OpenHere + 1 /\ ClosingHere' = ClosingHere
      BY <1>3 DEF NoteAttach, Begin, mmeVars, OpenHere, ClosingHere
    <2> HIDE DEF o, p
    <2> QED BY <1>1, <1>2, <2>1, <2>2
  <1>4. ASSUME SendAttach PROVE Open' = Open /\ Closing' = Closing
    <2>1. o' = o + 1 /\ p' = p
      BY <1>1, <1>4, WayOfUe
    <2>2. OpenHere' = OpenHere - 1 /\ ClosingHere' = ClosingHere
      BY <1>4 DEF SendAttach, mmeVars, OpenHere, ClosingHere
    <2> HIDE DEF o, p
    <2> QED BY <1>1, <1>2, <2>1, <2>2
  <1>5. ASSUME NoteDetach PROVE Open' = Open /\ Closing' = Closing
    <2>1. o' = o /\ p' = p
      BY <1>1, <1>5, WayOfUe
    <2>2. OpenHere' = OpenHere /\ ClosingHere' = ClosingHere
      BY <1>5 DEF NoteDetach, mmeVars, OpenHere, ClosingHere
    <2> HIDE DEF o, p
    <2> QED BY <1>1, <1>2, <2>1, <2>2
  <1>6. ASSUME SendDetach PROVE Open' = Open /\ Closing' = Closing + 1
    <2>1. o' = o /\ p' = p + 1
      BY <1>1, <1>6, WayOfUe
    <2>2. OpenHere' = OpenHere /\ ClosingHere' = ClosingHere
      BY <1>6 DEF SendDetach, Begin, mmeVars, OpenHere, ClosingHere
    <2> HIDE DEF o, p
    <2> QED BY <1>1, <1>2, <2>1, <2>2
  <1>7. ASSUME UeNas, UeAuthenticates PROVE Open' = Open /\ Closing' = Closing
    <2>1. o' = o /\ p' = p
      BY <1>1, <1>7, WayOfUe
    <2>2. OpenHere' = OpenHere /\ ClosingHere' = ClosingHere
      BY <1>7 DEF UeNas, mmeVars, OpenHere, ClosingHere
    <2> HIDE DEF o, p
    <2> QED BY <1>1, <1>2, <2>1, <2>2
  <1>8. ASSUME UeNas, UeSecures PROVE Open' = Open /\ Closing' = Closing
    <2>1. o' = o /\ p' = p
      BY <1>1, <1>8, WayOfUe
    <2>2. OpenHere' = OpenHere /\ ClosingHere' = ClosingHere
      BY <1>8 DEF UeNas, mmeVars, OpenHere, ClosingHere
    <2> HIDE DEF o, p
    <2> QED BY <1>1, <1>2, <2>1, <2>2
  <1>9. ASSUME UeNas, UeAccepted PROVE Open' = Open - 1 /\ Closing' = Closing
    <2>1. o' = o - 1 /\ p' = p
      BY <1>1, <1>9, WayOfUe
    <2>2. OpenHere' = OpenHere /\ ClosingHere' = ClosingHere
      BY <1>9 DEF UeNas, mmeVars, OpenHere, ClosingHere
    <2> HIDE DEF o, p
    <2> QED BY <1>1, <1>2, <2>1, <2>2
  <1>10. ASSUME UeNas, UeRefused PROVE Open' = Open - 1 /\ Closing' = Closing
    <2>1. o' = o - 1 /\ p' = p
      BY <1>1, <1>10, WayOfUe
    <2>2. OpenHere' = OpenHere /\ ClosingHere' = ClosingHere
      BY <1>10 DEF UeNas, mmeVars, OpenHere, ClosingHere
    <2> HIDE DEF o, p
    <2> QED BY <1>1, <1>2, <2>1, <2>2
  <1>11. ASSUME UeNas, UeReleased PROVE Open' = Open /\ Closing' = Closing - 1
    <2>1. o' = o /\ p' = p - 1
      BY <1>1, <1>11, WayOfUe
    <2>2. OpenHere' = OpenHere /\ ClosingHere' = ClosingHere
      BY <1>11 DEF UeNas, mmeVars, OpenHere, ClosingHere
    <2> HIDE DEF o, p
    <2> QED BY <1>1, <1>2, <2>1, <2>2
  <1> QED BY <1>3, <1>4, <1>5, <1>6, <1>7, <1>8, <1>9, <1>10, <1>11

(* The eNB passes on what counts, and what it sends itself does not.       *)
LEMMA EnbCounts ==
  ASSUME Radio, Radio', EnbUplink \/ EnbDownlink \/ EnbConfirms
  PROVE  Open' = Open /\ Closing' = Closing
  <1> DEFINE o == Way(AttachUp, AttachDown)
             p == Way(LeaveUp, LeaveDown)
  <1>1. /\ Open = OpenHere + o /\ Open' = OpenHere' + o' /\ o \in Nat /\ o' \in Nat
        /\ Closing = ClosingHere + p /\ Closing' = ClosingHere' + p' /\ p \in Nat /\ p' \in Nat
    BY CountedParts
  <1>2. OpenHere \in Nat /\ ClosingHere \in Nat
    BY DEF OpenHere, ClosingHere
  <1> USE DEF In, AttachUp, AttachDown, LeaveUp, LeaveDown
  <1>3. ASSUME EnbUplink PROVE Open' = Open /\ Closing' = Closing
    <2>1. o' = o /\ p' = p
      BY <1>1, <1>3, WayOfEnb
    <2>2. OpenHere' = OpenHere /\ ClosingHere' = ClosingHere
      BY <1>3 DEF EnbUplink, mmeVars, ueVars, OpenHere, ClosingHere
    <2> HIDE DEF o, p
    <2> QED BY <1>1, <1>2, <2>1, <2>2
  <1>4. ASSUME EnbDownlink, EnbSetsUp PROVE Open' = Open /\ Closing' = Closing
    <2>1. o' = o /\ p' = p
      BY <1>1, <1>4, WayOfEnb
    <2>2. OpenHere' = OpenHere /\ ClosingHere' = ClosingHere
      BY <1>4 DEF EnbDownlink, mmeVars, ueVars, OpenHere, ClosingHere
    <2> HIDE DEF o, p
    <2> QED BY <1>1, <1>2, <2>1, <2>2
  <1>5. ASSUME EnbDownlink, EnbReleases PROVE Open' = Open /\ Closing' = Closing
    <2>1. o' = o /\ p' = p
      BY <1>1, <1>5, WayOfEnb
    <2>2. OpenHere' = OpenHere /\ ClosingHere' = ClosingHere
      BY <1>5 DEF EnbDownlink, mmeVars, ueVars, OpenHere, ClosingHere
    <2> HIDE DEF o, p
    <2> QED BY <1>1, <1>2, <2>1, <2>2
  <1>6. ASSUME EnbDownlink, EnbRelays PROVE Open' = Open /\ Closing' = Closing
    <2>1. o' = o /\ p' = p
      BY <1>1, <1>6, WayOfEnb
    <2>2. OpenHere' = OpenHere /\ ClosingHere' = ClosingHere
      BY <1>6 DEF EnbDownlink, mmeVars, ueVars, OpenHere, ClosingHere
    <2> HIDE DEF o, p
    <2> QED BY <1>1, <1>2, <2>1, <2>2
  <1>7. ASSUME EnbConfirms PROVE Open' = Open /\ Closing' = Closing
    <2>1. o' = o /\ p' = p
      BY <1>1, <1>7, WayOfEnb
    <2>2. OpenHere' = OpenHere /\ ClosingHere' = ClosingHere
      BY <1>7 DEF EnbConfirms, mmeVars, ueVars, OpenHere, ClosingHere
    <2> HIDE DEF o, p
    <2> QED BY <1>1, <1>2, <2>1, <2>2
  <1> QED BY <1>3, <1>4, <1>5, <1>6, <1>7 DEF EnbDownlink


(* What the MME takes off the way it holds while it waits, or answers at   *)
(* once.                                                                   *)
LEMMA MmeReadsCounts ==
  ASSUME Radio, Radio'
  PROVE  OnAttachRequest \/ OnAuthResponse \/ OnSecurityComplete \/ OnDetachRequest
         \/ OnSetupResponse => Open' = Open /\ Closing' = Closing
  <1> DEFINE o == Way(AttachUp, AttachDown)
             p == Way(LeaveUp, LeaveDown)
  <1>1. /\ Open = OpenHere + o /\ Open' = OpenHere' + o' /\ o \in Nat /\ o' \in Nat
        /\ Closing = ClosingHere + p /\ Closing' = ClosingHere' + p' /\ p \in Nat /\ p' \in Nat
    BY CountedParts
  <1>2. OpenHere \in Nat /\ ClosingHere \in Nat
    BY DEF OpenHere, ClosingHere
  <1> USE DEF In, AttachUp, AttachDown, LeaveUp, LeaveDown
  <1>3. ASSUME OnAttachRequest PROVE Open' = Open /\ Closing' = Closing
    <2>1. o' = o - 1 /\ p' = p
      BY <1>1, <1>3, WayOfMmeReads
    <2>2. OpenHere' = OpenHere + 1 /\ ClosingHere' = ClosingHere
      BY <1>3 DEF OnAttachRequest, MmeReads, ueVars, OpenHere, ClosingHere
    <2> HIDE DEF o, p
    <2> QED BY <1>1, <1>2, <2>1, <2>2
  <1>4. ASSUME OnAuthResponse PROVE Open' = Open /\ Closing' = Closing
    <2>1. o' = o /\ p' = p
      BY <1>1, <1>4, WayOfMmeReads
    <2>2. OpenHere' = OpenHere /\ ClosingHere' = ClosingHere
      BY <1>4 DEF OnAuthResponse, MmeReads, ueVars, OpenHere, ClosingHere
    <2> HIDE DEF o, p
    <2> QED BY <1>1, <1>2, <2>1, <2>2
  <1>5. ASSUME OnSecurityComplete PROVE Open' = Open /\ Closing' = Closing
    <2>1. o' = o - 1 /\ p' = p
      BY <1>1, <1>5, WayOfMmeReads
    <2>2. OpenHere' = OpenHere + 1 /\ ClosingHere' = ClosingHere
      BY <1>5 DEF OnSecurityComplete, MmeReads, ueVars, OpenHere, ClosingHere
    <2> HIDE DEF o, p
    <2> QED BY <1>1, <1>2, <2>1, <2>2
  <1>6. ASSUME OnDetachRequest PROVE Open' = Open /\ Closing' = Closing
    <2>1. o' = o /\ p' = p - 1
      BY <1>1, <1>6, WayOfMmeReads
    <2>2. OpenHere' = OpenHere /\ ClosingHere' = ClosingHere + 1
      BY <1>6 DEF OnDetachRequest, MmeReads, ueVars, OpenHere, ClosingHere
    <2> HIDE DEF o, p
    <2> QED BY <1>1, <1>2, <2>1, <2>2
  <1>7. ASSUME OnSetupResponse PROVE Open' = Open /\ Closing' = Closing
    <2>1. o' = o /\ p' = p
      BY <1>1, <1>7, WayOfMmeReads
    <2>2. OpenHere' = OpenHere /\ ClosingHere' = ClosingHere
      BY <1>7 DEF OnSetupResponse, MmeReads, ueVars, OpenHere, ClosingHere
    <2> HIDE DEF o, p
    <2> QED BY <1>1, <1>2, <2>1, <2>2
  <1> QED BY <1>3, <1>4, <1>5, <1>6, <1>7


(* What the MME holds goes back on the way when the wait is over: only an  *)
(* answer without an address leaves nothing of the attach.                 *)
LEMMA MmeResumesCounts ==
  ASSUME Radio, Radio', CoreSockets
  PROVE  /\ Challenged \/ NotChallenged \/ Created \/ NotCreated \/ Deleted \/ Modified =>
               Open' = Open /\ Closing' = Closing
         /\ CreatedWithoutAddress => Open' = Open - 1 /\ Closing' = Closing
  <1> DEFINE o == Way(AttachUp, AttachDown)
             p == Way(LeaveUp, LeaveDown)
  <1>1. /\ Open = OpenHere + o /\ Open' = OpenHere' + o' /\ o \in Nat /\ o' \in Nat
        /\ Closing = ClosingHere + p /\ Closing' = ClosingHere' + p' /\ p \in Nat /\ p' \in Nat
    BY CountedParts
  <1>2. OpenHere \in Nat /\ ClosingHere \in Nat
    BY DEF OpenHere, ClosingHere
  <1> USE DEF In, AttachUp, AttachDown, LeaveUp, LeaveDown
  <1>3. ASSUME Challenged PROVE Open' = Open /\ Closing' = Closing
    <2>1. o' = o + 1 /\ p' = p
      BY <1>1, <1>3, WayOfMmeResumes
    <2>2. OpenHere' = OpenHere - 1 /\ ClosingHere' = ClosingHere
      BY <1>3 DEF Challenged, MmeResumes, ueVars, OpenHere, ClosingHere
    <2> HIDE DEF o, p
    <2> QED BY <1>1, <1>2, <2>1, <2>2
  <1>4. ASSUME NotChallenged PROVE Open' = Open /\ Closing' = Closing
    <2>1. o' = o + 1 /\ p' = p
      BY <1>1, <1>4, WayOfMmeResumes
    <2>2. OpenHere' = OpenHere - 1 /\ ClosingHere' = ClosingHere
      BY <1>4 DEF NotChallenged, MmeResumes, ueVars, OpenHere, ClosingHere
    <2> HIDE DEF o, p
    <2> QED BY <1>1, <1>2, <2>1, <2>2
  <1>5. ASSUME Created PROVE Open' = Open /\ Closing' = Closing
    <2>1. o' = o + 1 /\ p' = p
      BY <1>1, <1>5, WayOfMmeResumes
    <2>2. OpenHere' = OpenHere - 1 /\ ClosingHere' = ClosingHere
      BY <1>5 DEF Created, MmeResumes, ueVars, OpenHere, ClosingHere
    <2> HIDE DEF o, p
    <2> QED BY <1>1, <1>2, <2>1, <2>2
  <1>6. ASSUME NotCreated PROVE Open' = Open /\ Closing' = Closing
    <2>1. o' = o + 1 /\ p' = p
      BY <1>1, <1>6, WayOfMmeResumes
    <2>2. OpenHere' = OpenHere - 1 /\ ClosingHere' = ClosingHere
      BY <1>6 DEF NotCreated, MmeResumes, ueVars, OpenHere, ClosingHere
    <2> HIDE DEF o, p
    <2> QED BY <1>1, <1>2, <2>1, <2>2
  <1>7. ASSUME Deleted PROVE Open' = Open /\ Closing' = Closing
    <2>1. o' = o /\ p' = p + 1
      BY <1>1, <1>7, WayOfDeleted
    <2>2. OpenHere' = OpenHere /\ ClosingHere' = ClosingHere - 1
      BY <1>7 DEF Deleted, MmeResumes, ueVars, OpenHere, ClosingHere
    <2> HIDE DEF o, p
    <2> QED BY <1>1, <1>2, <2>1, <2>2
  <1>8. ASSUME Modified PROVE Open' = Open /\ Closing' = Closing
    <2>1. o' = o /\ p' = p
      BY <1>1, <1>8, WayOfMmeResumes
    <2>2. OpenHere' = OpenHere /\ ClosingHere' = ClosingHere
      BY <1>8 DEF Modified, MmeResumes, ueVars, OpenHere, ClosingHere
    <2> HIDE DEF o, p
    <2> QED BY <1>1, <1>2, <2>1, <2>2
  <1>9. ASSUME CreatedWithoutAddress PROVE Open' = Open - 1 /\ Closing' = Closing
    <2>1. o' = o /\ p' = p
      BY <1>1, <1>9, WayOfMmeResumes
    <2>2. OpenHere' = OpenHere - 1 /\ ClosingHere' = ClosingHere
      BY <1>9 DEF CreatedWithoutAddress, MmeResumes, ueVars, OpenHere, ClosingHere
    <2> HIDE DEF o, p
    <2> QED BY <1>1, <1>2, <2>1, <2>2
  <1> QED BY <1>3, <1>4, <1>5, <1>6, <1>7, <1>8, <1>9

(* A message lost, or one the MME has no use for, takes at most one attach *)
(* or one detach with it.                                                  *)
LEMMA LossCounts ==
  ASSUME Radio, Radio', Lose \/ OnOther
  PROVE  \/ Open' = Open /\ Closing' = Closing
         \/ Open' = Open - 1 /\ Closing' = Closing
         \/ Open' = Open /\ Closing' = Closing - 1
  <1> DEFINE o == Way(AttachUp, AttachDown)
             p == Way(LeaveUp, LeaveDown)
  <1>1. /\ Open = OpenHere + o /\ Open' = OpenHere' + o' /\ o \in Nat /\ o' \in Nat
        /\ Closing = ClosingHere + p /\ Closing' = ClosingHere' + p' /\ p \in Nat /\ p' \in Nat
    BY CountedParts
  <1>2. /\ OpenHere \in Nat /\ ClosingHere \in Nat
        /\ OpenHere' = OpenHere /\ ClosingHere' = ClosingHere
    BY DEF Lose, OnOther, MmeReads, ueVars, mmeVars, OpenHere, ClosingHere
  <1>3. \/ UNCHANGED radioNet
        \/ uuUp # <<>> /\ uuUp' = Tail(uuUp) /\ UNCHANGED <<uuDown, s1Up, s1Down>>
        \/ s1Up # <<>> /\ s1Up' = Tail(s1Up) /\ UNCHANGED <<uuUp, uuDown, s1Down>>
        \/ uuDown # <<>> /\ uuDown' = Tail(uuDown) /\ UNCHANGED <<uuUp, s1Up, s1Down>>
        \/ s1Down # <<>> /\ s1Down' = Tail(s1Down) /\ UNCHANGED <<uuUp, uuDown, s1Up>>
    BY DEF Lose, OnOther, MmeReads, radioNet
  <1>4. \/ o' = o /\ p' = p
        \/ \E t : o' = o - In(t, AttachUp) /\ p' = p - In(t, LeaveUp)
        \/ \E t : o' = o - In(t, AttachDown) /\ p' = p - In(t, LeaveDown)
    <2>1. CASE UNCHANGED radioNet
      BY <2>1, WayTakes
    <2>2. CASE uuUp # <<>> /\ uuUp' = Tail(uuUp) /\ UNCHANGED <<uuDown, s1Up, s1Down>>
      BY <2>2, WayTakes
    <2>3. CASE s1Up # <<>> /\ s1Up' = Tail(s1Up) /\ UNCHANGED <<uuUp, uuDown, s1Down>>
      BY <2>3, WayTakes
    <2>4. CASE uuDown # <<>> /\ uuDown' = Tail(uuDown) /\ UNCHANGED <<uuUp, s1Up, s1Down>>
      BY <2>4, WayTakes
    <2>5. CASE s1Down # <<>> /\ s1Down' = Tail(s1Down) /\ UNCHANGED <<uuUp, uuDown, s1Up>>
      BY <2>5, WayTakes
    <2> QED BY <1>3, <2>1, <2>2, <2>3, <2>4, <2>5
  <1>5. \/ o' = o /\ p' = p
        \/ o' = o - 1 /\ p' = p
        \/ o' = o /\ p' = p - 1
    <2> HIDE DEF o, p
    <2> QED BY <1>1, <1>4 DEF In, AttachUp, AttachDown, LeaveUp, LeaveDown
  <1> HIDE DEF o, p
  <1>6. /\ Open = OpenHere + o /\ Open' = OpenHere + o'
        /\ Closing = ClosingHere + p /\ Closing' = ClosingHere + p'
    BY <1>1, <1>2
  <1>7. CASE o' = o /\ p' = p
    BY <1>6, <1>7
  <1>8. CASE o' = o - 1 /\ p' = p
    BY <1>1, <1>2, <1>6, <1>8
  <1>9. CASE o' = o /\ p' = p - 1
    BY <1>1, <1>2, <1>6, <1>9
  <1> QED BY <1>5, <1>7, <1>8, <1>9

(* The core's nodes neither open nor close. *)
LEMMA CoreCounts ==
  ASSUME Radio, Radio', Hss \/ Sgwc \/ UNCHANGED vars
  PROVE  Open' = Open /\ Closing' = Closing
  <1>1. UNCHANGED <<radioNet, command, mme>>
    BY Zenon DEF Hss, Sgwc, vars, ueVars, mmeVars, radioNet
  <1>2. Way(AttachUp, AttachDown)' = Way(AttachUp, AttachDown)
        /\ Way(LeaveUp, LeaveDown)' = Way(LeaveUp, LeaveDown)
    BY <1>1, WayTakes
  <1>3. OpenHere' = OpenHere /\ ClosingHere' = ClosingHere
    BY <1>1 DEF OpenHere, ClosingHere
  <1> QED BY <1>2, <1>3, CountedParts

---------------------------------------------------------------------------
(* InOrder: none overtakes another, as every socket is a queue and every   *)
(* node reads it with one thread.                                          *)

Values0 == Nat \cup {None}

(* What a socket offers when a message is sent or taken. *)
LEMMA OffersMove ==
  ASSUME NEW S, NEW q \in Seq(S), \A m \in S : OfferIn(m) \in Values0
  PROVE  /\ Offers(q) \in Seq(Values0)
         /\ \A m \in S : Offers(Append(q, m)) = Append(Offers(q), OfferIn(m))
         /\ q # <<>> => /\ Offers(q) # <<>> /\ Head(Offers(q)) = OfferIn(Head(q))
                        /\ Offers(Tail(q)) = Tail(Offers(q))
  <1>1. Offers(q) \in Seq(Values0) /\ Len(Offers(q)) = Len(q)
    BY DEF Offers
  <1>2. ASSUME NEW m \in S
        PROVE  Offers(Append(q, m)) = Append(Offers(q), OfferIn(m))
    BY DEF Offers
  <1>3. q # <<>> => /\ Offers(q) # <<>> /\ Head(Offers(q)) = OfferIn(Head(q))
                    /\ Offers(Tail(q)) = Tail(Offers(q))
    BY DEF Offers
  <1> QED BY <1>1, <1>2, <1>3

(* The messages on the way down offer an address or nothing. *)
LEMMA OffersTyped ==
  /\ \A m \in S1DownMsgs : OfferIn(m) \in Values0
  /\ \A m \in UuDownMsgs : OfferIn(m) \in Values0
  BY Built DEF OfferIn, Values0

(* Offers still rise when the first is taken, and those behind an offer    *)
(* are above it.                                                           *)
LEMMA RisingTail ==
  ASSUME NEW q \in Seq(Values0), q # <<>>, NEW lo \in Nat, NEW hi \in Nat, Rising(q, lo, hi)
  PROVE  /\ Rising(Tail(q), lo, hi)
         /\ Head(q) # None => /\ Head(q) \in Nat /\ lo < Head(q) /\ Head(q) <= hi
                              /\ Rising(Tail(q), Head(q), hi)
  <1>1. \A i \in DOMAIN Tail(q) : i \in Nat /\ i + 1 \in DOMAIN q /\ Tail(q)[i] = q[i + 1] /\ 1 < i + 1
    OBVIOUS
  <1>2. 1 \in DOMAIN q /\ Head(q) = q[1] /\ Head(q) \in Values0
    OBVIOUS
  <1>3. \A i \in DOMAIN q : q[i] \in Values0
    OBVIOUS
  <1>4. Rising(Tail(q), lo, hi)
    BY <1>1 DEF Rising
  <1>5. ASSUME Head(q) # None
        PROVE  /\ Head(q) \in Nat /\ lo < Head(q) /\ Head(q) <= hi
               /\ Rising(Tail(q), Head(q), hi)
    <2>1. Head(q) \in Nat /\ lo < Head(q) /\ Head(q) <= hi
      BY <1>2, <1>5 DEF Rising
    <2>2. ASSUME NEW i \in DOMAIN Tail(q), Tail(q)[i] # None
          PROVE  Tail(q)[i] \in Head(q) + 1 .. hi
      BY <1>1, <1>2, <1>5, <2>1, <2>2 DEF Rising
    <2> QED BY <1>4, <2>1, <2>2 DEF Rising
  <1> QED BY <1>4, <1>5

(* Offers still rise when nothing is added, or one that is above them all. *)
LEMMA RisingAppend ==
  ASSUME NEW q \in Seq(Values0), NEW lo \in Nat, NEW hi \in Nat, NEW up \in Nat,
         NEW v \in Values0, Rising(q, lo, hi), lo <= hi, hi <= up,
         v # None => hi < v /\ v <= up
  PROVE  Rising(Append(q, v), lo, up)
  <1> DEFINE r == Append(q, v)
  <1>1. /\ DOMAIN r = 1 .. Len(q) + 1 /\ Len(q) \in Nat /\ DOMAIN q = 1 .. Len(q)
        /\ \A i \in DOMAIN q : r[i] = q[i]
        /\ r[Len(q) + 1] = v
    OBVIOUS
  <1>2. \A i \in DOMAIN r : i \in DOMAIN q \/ i = Len(q) + 1
    BY <1>1
  <1>3. \A i \in DOMAIN q : q[i] # None => q[i] \in Nat /\ lo + 1 <= q[i] /\ q[i] <= hi
    BY DEF Rising
  <1>4. v # None => v \in Nat
    BY DEF Values0
  <1> HIDE DEF r
  <1>5. ASSUME NEW i \in DOMAIN r, r[i] # None PROVE r[i] \in lo + 1 .. up
    BY <1>1, <1>2, <1>3, <1>4, <1>5
  <1>6. ASSUME NEW i \in DOMAIN r, NEW j \in DOMAIN r, i < j, r[i] # None, r[j] # None
        PROVE  r[i] < r[j]
    <2>1. CASE j \in DOMAIN q
      BY <1>1, <1>2, <1>6, <2>1 DEF Rising
    <2>2. CASE j = Len(q) + 1
      <3>1. i \in DOMAIN q /\ r[i] = q[i] /\ r[j] = v
        BY <1>1, <1>2, <1>6, <2>2
      <3> QED BY <1>3, <1>4, <1>6, <3>1
    <2> QED BY <1>2, <2>1, <2>2
  <1>7. Rising(r, lo, up)
    BY <1>5, <1>6 DEF Rising
  <1> QED BY <1>7 DEF r

(* A step that offers nothing, or nothing more: a socket is as it was, has *)
(* lost its first datagram, or has got some that offer no address.         *)
Drifts(q, r) ==
    \/ r = q
    \/ q # <<>> /\ r = Tail(q)
    \/ r = Append(q, None)
    \/ r = Append(Append(q, None), None)

(* Offers that drift rise as they did. *)
LEMMA RisingDrifts ==
  ASSUME NEW q \in Seq(Values0), NEW r, NEW lo \in Nat, NEW hi \in Nat, lo <= hi,
         Rising(q, lo, hi), Drifts(q, r)
  PROVE  Rising(r, lo, hi)
  <1>1. None \in Values0
    BY DEF Values0
  <1>2. \A p \in Seq(Values0) : Rising(p, lo, hi) =>
           Append(p, None) \in Seq(Values0) /\ Rising(Append(p, None), lo, hi)
    BY <1>1, RisingAppend
  <1>3. Rising(Append(q, None), lo, hi) /\ Rising(Append(Append(q, None), None), lo, hi)
    BY <1>2
  <1>4. q # <<>> => Rising(Tail(q), lo, hi)
    BY RisingTail
  <1> QED BY <1>3, <1>4 DEF Drifts

(* The messages of a socket drift when the one sent offers nothing. *)
LEMMA MessagesDrift ==
  ASSUME NEW S, NEW q \in Seq(S), NEW r, \A m \in S : OfferIn(m) \in Values0,
         \/ r = q
         \/ q # <<>> /\ r = Tail(q)
         \/ \E m \in S : OfferIn(m) = None /\ r = Append(q, m)
  PROVE  Drifts(Offers(q), Offers(r))
  <1>1. CASE r = q
    BY <1>1 DEF Drifts
  <1>2. CASE q # <<>> /\ r = Tail(q)
    BY <1>2, OffersMove DEF Drifts
  <1>3. CASE \E m \in S : OfferIn(m) = None /\ r = Append(q, m)
    BY <1>3, OffersMove DEF Drifts
  <1> QED BY <1>1, <1>2, <1>3

(* The sockets of the way of an address, and the UE's, in one state. *)
LEMMA OrderTyped ==
  ASSUME Values, Radio, CoreSockets
  PROVE  /\ Offers(uuDown) \in Seq(Values0) /\ Offers(s1Down) \in Seq(Values0)
         /\ s11Out \in Seq(Values0) /\ sessions \in Nat
  BY OffersMove, OffersTyped DEF Radio, CoreSockets, Values, Values0

(* While all sockets drift the order stays. *)
LEMMA OrderDrifts ==
  ASSUME Values, Radio, CoreSockets, OfferedInOrder, UNCHANGED <<ueIp, sessions>>,
         Drifts(Offers(uuDown), Offers(uuDown')), Drifts(Offers(s1Down), Offers(s1Down')),
         Drifts(s11Out, s11Out')
  PROVE  OfferedInOrder'
  <1>1. PICK a \in 0 .. sessions, b \in 0 .. sessions, c \in 0 .. sessions :
            /\ a <= b /\ b <= c
            /\ ueIp # None => ueIp \in 1 .. a
            /\ Rising(Offers(uuDown), a, b) /\ Rising(Offers(s1Down), b, c)
            /\ Rising(s11Out, c, sessions)
    BY DEF OfferedInOrder
  <1>2. /\ Offers(uuDown) \in Seq(Values0) /\ Offers(s1Down) \in Seq(Values0)
        /\ s11Out \in Seq(Values0) /\ sessions \in Nat
    BY OrderTyped
  <1>3. a \in Nat /\ b \in Nat /\ c \in Nat /\ c <= sessions
    BY <1>2
  <1>4. Rising(Offers(uuDown'), a, b)
    BY <1>1, <1>2, <1>3, RisingDrifts
  <1>5. Rising(Offers(s1Down'), b, c)
    BY <1>1, <1>2, <1>3, RisingDrifts
  <1>6. Rising(s11Out', c, sessions)
    BY <1>1, <1>2, <1>3, RisingDrifts
  <1> QED BY <1>1, <1>4, <1>5, <1>6 DEF OfferedInOrder

(* Nothing is on the way at first. *)
LEMMA OrderInit == Init => OfferedInOrder
  <1> SUFFICES ASSUME Init PROVE OfferedInOrder
    OBVIOUS
  <1>1. sessions = 0 /\ ueIp = None /\ uuDown = <<>> /\ s1Down = <<>> /\ s11Out = <<>>
    BY DEF Init
  <1>2. Offers(<<>>) = <<>> /\ Rising(<<>>, 0, 0)
    BY DEF Offers, Rising
  <1>3. 0 \in 0 .. sessions /\ 0 <= 0
    BY <1>1
  <1> QED BY <1>1, <1>2, <1>3 DEF OfferedInOrder

(* The SGW-C grants an address above all that are on the way; the MME, the *)
(* eNB and the UE each take the first of those that are on the way to it,  *)
(* which is below the others and above all that went before.               *)
LEMMA OrderMoves ==
  ASSUME Values, Grants, Radio, CoreSockets, OfferedInOrder,
         \/ UeNas /\ UeAccepted
         \/ EnbDownlink /\ EnbSetsUp
         \/ Created
         \/ Sgwc
  PROVE  OfferedInOrder'
  <1>1. PICK a \in 0 .. sessions, b \in 0 .. sessions, c \in 0 .. sessions :
            /\ a <= b /\ b <= c
            /\ ueIp # None => ueIp \in 1 .. a
            /\ Rising(Offers(uuDown), a, b) /\ Rising(Offers(s1Down), b, c)
            /\ Rising(s11Out, c, sessions)
    BY DEF OfferedInOrder
  <1>2. /\ Offers(uuDown) \in Seq(Values0) /\ Offers(s1Down) \in Seq(Values0)
        /\ s11Out \in Seq(Values0) /\ sessions \in Nat
    BY OrderTyped
  <1>3. /\ a \in Nat /\ b \in Nat /\ c \in Nat /\ c <= sessions
        /\ None \notin Nat
    BY <1>2, AttachAssumption
  <1>4. CASE UeNas /\ UeAccepted
    <2>1. /\ uuDown # <<>> /\ uuDown' = Tail(uuDown) /\ Head(uuDown).t = "ATTACH_ACCEPT"
          /\ ueIp' = Head(uuDown).v /\ UNCHANGED <<s1Down, s11Out, sessions>>
          /\ Head(uuDown) \in UuDownMsgs
      BY <1>4 DEF UeNas, UeAccepted, UeReads, coreVars, coreNet, Radio
    <2>2. PICK v \in Nat : v = Head(uuDown).v /\ v = OfferIn(Head(uuDown))
      BY <2>1, Built DEF OfferIn
    <2>3. /\ Offers(uuDown) # <<>> /\ Head(Offers(uuDown)) = v
          /\ Offers(uuDown') = Tail(Offers(uuDown))
      BY <2>1, <2>2, OffersMove, OffersTyped DEF Radio
    <2>4. a < v /\ v <= b /\ Rising(Offers(uuDown'), v, b)
      BY <1>1, <1>2, <1>3, <2>3, RisingTail
    <2>5. v \in 0 .. sessions' /\ v <= b /\ ueIp' \in 1 .. v
      BY <1>1, <1>2, <1>3, <2>1, <2>2, <2>4
    <2> QED BY <1>1, <2>1, <2>4, <2>5 DEF OfferedInOrder
  <1>5. CASE EnbDownlink /\ EnbSetsUp
    <2>1. /\ s1Down # <<>> /\ s1Down' = Tail(s1Down) /\ Head(s1Down).t = "ATTACH_ACCEPT"
          /\ uuDown' = Append(uuDown, Head(s1Down)) /\ UNCHANGED <<ueIp, s11Out, sessions>>
          /\ Head(s1Down) \in S1DownMsgs /\ Head(s1Down) \in UuDownMsgs
      BY <1>5, Built DEF EnbDownlink, EnbSetsUp, coreVars, coreNet, ueVars, Radio
    <2>2. PICK v \in Nat : v = OfferIn(Head(s1Down))
      BY <2>1, Built DEF OfferIn
    <2>3. /\ Offers(s1Down) # <<>> /\ Head(Offers(s1Down)) = v
          /\ Offers(s1Down') = Tail(Offers(s1Down))
          /\ Offers(uuDown') = Append(Offers(uuDown), v)
      BY <2>1, <2>2, OffersMove, OffersTyped DEF Radio
    <2>4. b < v /\ v <= c /\ Rising(Offers(s1Down'), v, c)
      BY <1>1, <1>2, <1>3, <2>3, RisingTail
    <2>5. Rising(Offers(uuDown'), a, v)
      <3>1. v \in Values0 /\ b <= v
        BY <1>3, <2>4 DEF Values0
      <3> QED BY <1>1, <1>2, <1>3, <2>3, <2>4, <3>1, RisingAppend
    <2>6. v \in 0 .. sessions' /\ a <= v /\ v <= c
      BY <1>1, <1>2, <1>3, <2>1, <2>4
    <2> QED BY <1>1, <2>1, <2>4, <2>5, <2>6 DEF OfferedInOrder
  <1>6. CASE Created
    <2>1. /\ s11Out # <<>> /\ s11Out' = Tail(s11Out) /\ Head(s11Out) # None
          /\ s1Down' = Append(s1Down, MsgOf("ATTACH_ACCEPT", Head(s11Out)))
          /\ UNCHANGED <<ueIp, uuDown, sessions>>
      BY <1>6 DEF Created, MmeResumes, SgwcAnswered, coreVars, ueVars
    <2>2. PICK v \in Nat : v = Head(s11Out)
      BY <1>2, <2>1 DEF Values0
    <2>3. c < v /\ v <= sessions /\ Rising(s11Out', v, sessions)
      BY <1>1, <1>2, <1>3, <2>1, <2>2, RisingTail
    <2>4. Offers(s1Down') = Append(Offers(s1Down), v)
      <3>1. MsgOf("ATTACH_ACCEPT", v) \in S1DownMsgs /\ OfferIn(MsgOf("ATTACH_ACCEPT", v)) = v
        BY Built DEF OfferIn, MsgOf
      <3> QED BY <2>1, <2>2, <3>1, OffersMove, OffersTyped, ZenonT(30) DEF Radio
    <2>5. Rising(Offers(s1Down'), b, v)
      <3>1. v \in Values0 /\ c <= v
        BY <1>3, <2>3 DEF Values0
      <3> QED BY <1>1, <1>2, <1>3, <2>3, <2>4, <3>1, RisingAppend
    <2>6. v \in 0 .. sessions' /\ b <= v
      BY <1>1, <1>2, <1>3, <2>1, <2>3
    <2> QED BY <1>1, <2>1, <2>3, <2>5, <2>6 DEF OfferedInOrder
  <1>7. CASE Sgwc
    <2>1. /\ UNCHANGED <<ueIp, uuDown, s1Down>>
          /\ \/ sessions' = sessions + 1 /\ s11Out' = Append(s11Out, sessions + 1)
             \/ sessions' = sessions /\ s11Out' = Append(s11Out, None)
      BY <1>7, Served DEF Confirms, Refuses, radioNet, ueVars
    <2>2. Rising(s11Out', c, sessions')
      <3>1. CASE sessions' = sessions + 1 /\ s11Out' = Append(s11Out, sessions + 1)
        <4>1. sessions + 1 \in Values0 /\ sessions + 1 \in Nat /\ sessions <= sessions + 1
          BY <1>2 DEF Values0
        <4> QED BY <1>1, <1>2, <1>3, <3>1, <4>1, RisingAppend
      <3>2. CASE sessions' = sessions /\ s11Out' = Append(s11Out, None)
        BY <1>1, <1>2, <1>3, <3>2, RisingDrifts DEF Drifts
      <3> QED BY <2>1, <3>1, <3>2
    <2>3. a \in 0 .. sessions' /\ b \in 0 .. sessions' /\ c \in 0 .. sessions'
      BY <1>1, <1>2, <1>3, <2>1
    <2> QED BY <1>1, <2>1, <2>2, <2>3 DEF OfferedInOrder
  <1> QED BY <1>4, <1>5, <1>6, <1>7

(* Every other step lets the offers drift, and grants and takes nothing. *)
LEMMA OrderQuiet ==
  ASSUME Values, Radio, CoreSockets,
         \/ NoteAttach \/ SendDetach \/ Control \/ EnbUplink \/ EnbConfirms \/ Hss \/ Lose
         \/ UNCHANGED vars
         \/ UeNas /\ (UeAuthenticates \/ UeSecures \/ UeRefused \/ UeReleased)
         \/ EnbDownlink /\ (EnbReleases \/ EnbRelays)
         \/ OnAttachRequest \/ OnAuthResponse \/ OnSecurityComplete \/ OnDetachRequest
         \/ OnSetupResponse \/ OnOther
         \/ Challenged \/ NotChallenged \/ CreatedWithoutAddress \/ NotCreated
         \/ Deleted \/ Modified
  PROVE  /\ UNCHANGED <<ueIp, sessions>>
         /\ Drifts(Offers(uuDown), Offers(uuDown')) /\ Drifts(Offers(s1Down), Offers(s1Down'))
         /\ Drifts(s11Out, s11Out')
  <1>1. /\ \A t : OfferIn(Msg(t)) = None
        /\ \A n : OfferIn(MsgOf("AUTH_REQUEST", n)) = None
    BY DEF OfferIn, Msg, MsgOf
  <1>2. /\ \A t \in DownTypes \cup {"RELEASE_COMMAND"} : Msg(t) \in S1DownMsgs
        /\ \A n \in Nat : MsgOf("AUTH_REQUEST", n) \in S1DownMsgs
        /\ uuDown \in Seq(UuDownMsgs) /\ s1Down \in Seq(S1DownMsgs)
    BY Built DEF Radio
  <1>3. /\ (\/ uuDown' = uuDown
            \/ uuDown # <<>> /\ uuDown' = Tail(uuDown)
            \/ \E m \in UuDownMsgs : OfferIn(m) = None /\ uuDown' = Append(uuDown, m))
           => Drifts(Offers(uuDown), Offers(uuDown'))
        /\ (\/ s1Down' = s1Down
            \/ s1Down # <<>> /\ s1Down' = Tail(s1Down)
            \/ \E m \in S1DownMsgs : OfferIn(m) = None /\ s1Down' = Append(s1Down, m))
           => Drifts(Offers(s1Down), Offers(s1Down'))
    BY <1>2, MessagesDrift, OffersTyped
  <1>4. s11Out' = s11Out \/ (s11Out # <<>> /\ s11Out' = Tail(s11Out)) => Drifts(s11Out, s11Out')
    BY DEF Drifts
  <1>5. CASE NoteAttach \/ SendDetach \/ Control \/ EnbUplink \/ EnbConfirms \/ Hss
             \/ UNCHANGED vars
    <2>1. UNCHANGED <<ueIp, sessions, uuDown, s1Down, s11Out>>
      BY Zenon, <1>5
      DEF NoteAttach, SendDetach, Control, SendAttach, NoteDetach, EnbUplink, EnbConfirms, Hss,
          vars, ueVars, coreVars, coreNet, radioNet
    <2> QED BY <1>3, <1>4, <2>1
  <1>6. CASE UeNas /\ (UeAuthenticates \/ UeSecures \/ UeRefused \/ UeReleased)
    <2>1. /\ UNCHANGED <<ueIp, sessions, s1Down, s11Out>>
          /\ uuDown # <<>> /\ uuDown' = Tail(uuDown)
      BY <1>6
      DEF UeNas, UeAuthenticates, UeSecures, UeRefused, UeReleased, UeReads, coreVars, coreNet
    <2> QED BY <1>3, <1>4, <2>1
  <1>7. CASE EnbDownlink /\ EnbReleases
    <2>1. /\ UNCHANGED <<ueIp, sessions, uuDown, s11Out>>
          /\ s1Down # <<>> /\ s1Down' = Tail(s1Down)
      BY <1>7 DEF EnbDownlink, EnbReleases, coreVars, coreNet, ueVars
    <2> QED BY <1>3, <1>4, <2>1
  <1>8. CASE EnbDownlink /\ EnbRelays
    <2>1. /\ UNCHANGED <<ueIp, sessions, s11Out>>
          /\ s1Down # <<>> /\ s1Down' = Tail(s1Down)
          /\ uuDown' = Append(uuDown, Head(s1Down))
          /\ Head(s1Down).t \notin {"ATTACH_ACCEPT", "RELEASE_COMMAND"}
      BY <1>8 DEF EnbDownlink, EnbRelays, coreVars, coreNet, ueVars
    <2>2. Head(s1Down) \in UuDownMsgs /\ OfferIn(Head(s1Down)) = None
      BY <1>2, <2>1, Built DEF OfferIn
    <2> QED BY <1>3, <1>4, <2>1, <2>2
  <1>9. CASE OnAttachRequest \/ OnSecurityComplete \/ OnDetachRequest \/ OnSetupResponse \/ OnOther
    <2>1. UNCHANGED <<ueIp, sessions, uuDown, s1Down, s11Out>>
      BY <1>9
      DEF OnAttachRequest, OnSecurityComplete, OnDetachRequest, OnSetupResponse, OnOther, MmeReads,
          AsksHss, AsksSgwc, ueVars, coreVars, coreNet
    <2> QED BY <1>3, <1>4, <2>1
  <1>10. CASE OnAuthResponse
    <2>1. UNCHANGED <<ueIp, sessions, uuDown, s11Out>>
      BY <1>10 DEF OnAuthResponse, MmeReads, ueVars, coreVars, coreNet
    <2>2. PICK t \in {"SECURITY_MODE_COMMAND", "ATTACH_REJECT"} : s1Down' = Append(s1Down, Msg(t))
      BY <1>10 DEF OnAuthResponse
    <2>3. Msg(t) \in S1DownMsgs
      BY <1>2 DEF DownTypes
    <2> QED BY <1>1, <1>3, <1>4, <2>1, <2>2, <2>3
  <1>11. CASE Challenged \/ NotChallenged \/ CreatedWithoutAddress \/ NotCreated \/ Modified
    <2>1. UNCHANGED <<ueIp, sessions, uuDown>>
      BY <1>11
      DEF Challenged, NotChallenged, CreatedWithoutAddress, NotCreated, Modified, MmeResumes,
          ueVars, coreVars
    <2>2. s11Out' = s11Out \/ (s11Out # <<>> /\ s11Out' = Tail(s11Out))
      BY <1>11
      DEF Challenged, NotChallenged, CreatedWithoutAddress, NotCreated, Modified, HssAnswered,
          SgwcAnswered, TimedOut
    <2>3. \/ s1Down' = s1Down
          \/ s1Down' = Append(s1Down, Msg("ATTACH_REJECT"))
          \/ \E n \in Nat : s1Down' = Append(s1Down, MsgOf("AUTH_REQUEST", n))
      <3>1. s6aOut # <<>> /\ Head(s6aOut) # None => Head(s6aOut) \in Nat
        BY DEF CoreSockets
      <3> QED BY <1>11, <3>1
          DEF Challenged, NotChallenged, CreatedWithoutAddress, NotCreated, Modified, HssAnswered
    <2>4. Msg("ATTACH_REJECT") \in S1DownMsgs
      BY <1>2 DEF DownTypes
    <2> QED BY <1>1, <1>2, <1>3, <1>4, <2>1, <2>2, <2>3, <2>4
  <1>12. CASE Deleted
    <2>1. UNCHANGED <<ueIp, sessions, uuDown>>
      BY <1>12 DEF Deleted, MmeResumes, ueVars, coreVars
    <2>2. s11Out' = s11Out \/ (s11Out # <<>> /\ s11Out' = Tail(s11Out))
      BY <1>12 DEF Deleted, SgwcAnswered, TimedOut
    <2>3. \A t \in {"DETACH_ACCEPT", "RELEASE_COMMAND"} : Msg(t) \in S1DownMsgs
      BY <1>2 DEF DownTypes
    <2> DEFINE p == Append(s1Down, Msg("DETACH_ACCEPT"))
    <2>4. p \in Seq(S1DownMsgs) /\ s1Down' = Append(p, Msg("RELEASE_COMMAND"))
      BY <1>2, <1>12, <2>3 DEF Deleted
    <2>5. Offers(p) = Append(Offers(s1Down), None)
      <3>1. Offers(p) = Append(Offers(s1Down), OfferIn(Msg("DETACH_ACCEPT")))
        BY <1>2, <2>3, OffersMove, OffersTyped
      <3> QED BY <1>1, <3>1
    <2>6. Offers(s1Down') = Append(Offers(p), None)
      <3> HIDE DEF p
      <3>1. Offers(s1Down') = Append(Offers(p), OfferIn(Msg("RELEASE_COMMAND")))
        BY <2>3, <2>4, OffersMove, OffersTyped
      <3> QED BY <1>1, <3>1
    <2> HIDE DEF p
    <2>7. Drifts(Offers(s1Down), Offers(s1Down'))
      BY <2>5, <2>6 DEF Drifts
    <2> QED BY <1>3, <1>4, <2>1, <2>2, <2>7
  <1>13. CASE Lose
    <2>1. /\ UNCHANGED <<ueIp, sessions>>
          /\ uuDown' = uuDown \/ (uuDown # <<>> /\ uuDown' = Tail(uuDown))
          /\ s1Down' = s1Down \/ (s1Down # <<>> /\ s1Down' = Tail(s1Down))
          /\ s11Out' = s11Out \/ (s11Out # <<>> /\ s11Out' = Tail(s11Out))
      BY <1>13 DEF Lose, ueVars, coreVars, coreNet, radioNet
    <2> QED BY <1>3, <1>4, <2>1
  <1> QED BY <1>5, <1>6, <1>7, <1>8, <1>9, <1>10, <1>11, <1>12, <1>13

(* At first no address was given. *)
LEMMA GivenInit == Init => GivenInOrder
  <1> SUFFICES ASSUME Init PROVE GivenInOrder
    OBVIOUS
  <1>1. given = <<>> /\ addresses = 0 /\ s5 = <<>>
    BY DEF Init
  <1>2. Rising(<<>>, 0, 0) /\ 0 \in 0 .. 0
    BY DEF Rising
  <1> QED BY <1>1, <1>2 DEF GivenInOrder

(* What the SGW-C takes at S5-C, and what it leaves there, rises as what   *)
(* was there: an answer that comes has the newest address or none.         *)
LEMMA TakenInOrder ==
  ASSUME Grants, NEW d \in 0 .. addresses, Rising(s5, d, addresses), NEW top \in Nat,
         addresses <= top, NEW answer \in {<<addresses + 1>>, <<None>>, <<>>},
         answer = <<addresses + 1>> => addresses + 1 <= top,
         NEW late \in MayBeLate(answer), NEW taken, taken = InTime(answer, late)
  PROVE  /\ Rising(Left(answer, late), d, top)
         /\ taken # <<>> /\ Head(taken) # None =>
               /\ Head(taken) \in d + 1 .. top
               /\ Rising(Left(answer, late), Head(taken), top)
  <1> DEFINE q == s5 \o answer
  <1>1. /\ s5 \in Seq(Values0) /\ addresses \in Nat /\ d \in Nat /\ d <= addresses
        /\ None \in Values0 /\ addresses + 1 \in Values0
    BY DEF Grants, Addresses, Values0
  <1>2. q \in Seq(Values0) /\ Rising(q, d, top)
    <2>1. CASE answer = <<addresses + 1>>
      <3>1. q = Append(s5, addresses + 1) /\ q \in Seq(Values0)
        BY <1>1, <2>1
      <3>2. Rising(Append(s5, addresses + 1), d, top)
        BY <1>1, <2>1, RisingAppend
      <3> QED BY <3>1, <3>2
    <2>2. CASE answer = <<None>>
      <3>1. q = Append(s5, None) /\ q \in Seq(Values0)
        BY <1>1, <2>2
      <3>2. Rising(Append(s5, None), d, top)
        BY <1>1, RisingAppend
      <3> QED BY <3>1, <3>2
    <2>3. CASE answer = <<>>
      <3>1. q = s5
        BY <1>1, <2>3
      <3>2. \A v \in d + 1 .. addresses : v \in d + 1 .. top
        BY <1>1
      <3> QED BY <1>1, <3>1, <3>2 DEF Rising
    <2> QED BY <2>1, <2>2, <2>3
  <1>3. late \in BOOLEAN /\ (late => s5 = <<>>)
    BY DEF MayBeLate
  <1>4. /\ late => taken = <<>> /\ Left(answer, late) = q
        /\ ~late => /\ taken = q
                    /\ Left(answer, late) = IF q = <<>> THEN <<>> ELSE Tail(q)
    <2>1. late => q = answer
      <3>1. <<>> \o <<addresses + 1>> = <<addresses + 1>>
        OBVIOUS
      <3>2. <<>> \o <<None>> = <<None>> /\ <<>> \o <<>> = <<>>
        OBVIOUS
      <3> QED BY Zenon, <1>3, <3>1, <3>2
    <2> QED BY <1>3, <2>1 DEF InTime, Left
  <1> HIDE DEF q
  <1>5. q # <<>> => /\ Rising(Tail(q), d, top)
                    /\ Head(q) # None => /\ Head(q) \in Nat /\ d < Head(q) /\ Head(q) <= top
                                         /\ Rising(Tail(q), Head(q), top)
    BY <1>1, <1>2, RisingTail
  <1>6. Rising(Left(answer, late), d, top)
    BY <1>2, <1>3, <1>4, <1>5
  <1>7. taken # <<>> => ~late /\ taken = q /\ Left(answer, late) = Tail(q)
    BY <1>3, <1>4
  <1>8. q # <<>> /\ Head(q) # None => Head(q) \in d + 1 .. top
    BY <1>1, <1>5
  <1> QED BY Zenon, <1>5, <1>6, <1>7, <1>8

(* A new session comes with First or with an address above all the others, *)
(* and what is left at S5-C is above that one.                             *)
LEMMA GivenMoves ==
  ASSUME Values, Grants, Grants', GivenInOrder, Sgwc
  PROVE  /\ GivenInOrder'
         /\ \/ given' = given
            \/ \E a \in Addresses :
                  /\ given' = Append(given, a)
                  /\ a = First \/ \A n \in DOMAIN given : given[n] < a
  <1>1. PICK d \in 0 .. addresses :
            /\ \A n \in DOMAIN given : given[n] = First \/ given[n] <= d
            /\ Rising(s5, d, addresses)
    BY DEF GivenInOrder
  <1>2. /\ \A m, n \in DOMAIN given : m < n => given[n] = First \/ given[m] < given[n]
        /\ given \in Seq(Addresses) /\ addresses \in Nat /\ addresses' \in Nat /\ First \in Nat
        /\ \A n \in DOMAIN given : given[n] \in Nat
        /\ d \in Nat /\ d <= addresses
    BY DEF GivenInOrder, Grants, Addresses, First
  <1>3. ASSUME given' = given, addresses <= addresses', Rising(s5', d, addresses')
        PROVE  GivenInOrder'
    <2>1. d \in 0 .. addresses'
      BY <1>2, <1>3
    <2> QED BY <1>1, <1>2, <1>3, <2>1 DEF GivenInOrder
  <1>4. CASE SgwcCreates
    <2>1. PICK answer \in {<<addresses + 1>>, <<None>>, <<>>}, sx \in BOOLEAN :
            \E late \in MayBeLate(answer) :
              /\ addresses' = addresses + 1 \/ (answer = <<>> /\ addresses' = addresses)
              /\ s5' = Left(answer, late)
              /\ IF sx /\ InTime(answer, late) # <<>>
                 THEN Confirms(AddressIn(Head(InTime(answer, late))))
                 ELSE Refuses
      BY Zenon, <1>4 DEF SgwcCreates
    <2>2. PICK late \in MayBeLate(answer) :
              /\ addresses' = addresses + 1 \/ (answer = <<>> /\ addresses' = addresses)
              /\ s5' = Left(answer, late)
              /\ IF sx /\ InTime(answer, late) # <<>>
                 THEN Confirms(AddressIn(Head(InTime(answer, late))))
                 ELSE Refuses
      BY Zenon, <2>1
    <2>3. PICK taken : taken = InTime(answer, late)
      OBVIOUS
    <2>4. addresses <= addresses' /\ (answer = <<addresses + 1>> => addresses + 1 <= addresses')
      <3>1. <<addresses + 1>> # <<>>
        OBVIOUS
      <3>2. addresses' = addresses + 1 \/ (answer # <<addresses + 1>> /\ addresses' = addresses)
        BY Zenon, <2>2, <3>1
      <3> QED BY <1>2, <3>2
    <2>5. /\ Rising(s5', d, addresses')
          /\ taken # <<>> /\ Head(taken) # None =>
                Head(taken) \in d + 1 .. addresses' /\ Rising(s5', Head(taken), addresses')
      BY <1>1, <1>2, <2>2, <2>3, <2>4, TakenInOrder
    <2>6. CASE given' = given
      BY <1>3, <2>4, <2>5, <2>6
    <2>7. CASE taken # <<>> /\ Head(taken) = None /\ given' = Append(given, First)
      <3>1. d \in 0 .. addresses'
        BY <1>2, <2>4
      <3>2. \A n \in DOMAIN given' :
             given'[n] = First \/ (n \in DOMAIN given /\ given'[n] = given[n])
        BY <1>2, <2>7
      <3>3. \A m, n \in DOMAIN given' : m < n => given'[n] = First \/ given'[m] < given'[n]
        BY <1>2, <2>7
      <3>4. \A n \in DOMAIN given' : given'[n] = First \/ given'[n] <= d
        BY <1>1, <3>2
      <3>5. First \in Addresses
        BY DEF First, Addresses
      <3> QED BY <2>5, <2>7, <3>1, <3>3, <3>4, <3>5 DEF GivenInOrder
    <2>8. CASE taken # <<>> /\ Head(taken) # None /\ given' = Append(given, Head(taken))
      <3>1. PICK v \in Nat : v = Head(taken) /\ d < v /\ v <= addresses'
        BY <1>2, <2>5, <2>8
      <3>2. given' = Append(given, v) /\ v \in 0 .. addresses' /\ v \in Addresses
        BY <1>2, <2>8, <3>1 DEF Addresses
      <3>3. \A n \in DOMAIN given : given[n] = First \/ given[n] < v
        BY <1>1, <1>2, <3>1
      <3>4. v = First \/ \A n \in DOMAIN given : given[n] < v
        BY <1>2, <3>1, <3>2, <3>3 DEF First, Addresses
      <3>5. \A n \in DOMAIN given' :
             given'[n] = v \/ (n \in DOMAIN given /\ given'[n] = given[n])
        BY <1>2, <3>2
      <3>6. \A m, n \in DOMAIN given' : m < n => given'[n] = First \/ given'[m] < given'[n]
        BY <1>2, <3>2, <3>4
      <3>7. \A n \in DOMAIN given' : given'[n] = First \/ given'[n] <= v
        BY <1>2, <3>1, <3>3, <3>5
      <3> QED BY <2>5, <2>8, <3>1, <3>2, <3>4, <3>6, <3>7 DEF GivenInOrder
    <2> QED BY <2>2, <2>3, <2>6, <2>7, <2>8 DEF Confirms, Refuses, AddressIn
  <1>5. CASE SgwcDeletes
    <2>1. UNCHANGED <<given, addresses>>
      BY <1>5 DEF SgwcDeletes
    <2>2. CASE UNCHANGED s5
      BY <1>1, <1>2, <1>3, <2>1, <2>2
    <2>3. CASE \E answer \in {<<None>>, <<>>} : \E late \in MayBeLate(answer) :
                  s5' = Left(answer, late)
      <3>1. PICK answer \in {<<None>>, <<>>} :
               \E late \in MayBeLate(answer) : s5' = Left(answer, late)
        BY Zenon, <2>3
      <3>2. PICK late \in MayBeLate(answer) : s5' = Left(answer, late)
        BY Zenon, <3>1
      <3>3. PICK taken : taken = InTime(answer, late)
        OBVIOUS
      <3>4. answer # <<addresses + 1>>
        <4>1. <<None>> # <<addresses + 1>>
          <5>1. <<None>>[1] = None /\ <<addresses + 1>>[1] = addresses + 1
            OBVIOUS
          <5> QED BY <1>2, <5>1, AttachAssumption
        <4>2. <<>> # <<addresses + 1>>
          OBVIOUS
        <4> QED BY Zenon, <4>1, <4>2
      <3>5. Rising(s5', d, addresses)
        BY <1>1, <1>2, <3>2, <3>3, <3>4, TakenInOrder
      <3> QED BY <1>2, <1>3, <2>1, <3>5
    <2> QED BY Zenon, <1>5, <2>2, <2>3 DEF SgwcDeletes
  <1>6. CASE SgwcModifies
    BY <1>1, <1>2, <1>3, <1>6 DEF SgwcModifies
  <1> QED BY Zenon, <1>4, <1>5, <1>6 DEF Sgwc

(* Every step keeps the addresses in order. *)
LEMMA OrderStep ==
  ASSUME Values, Grants, Grants', Radio, CoreSockets, InOrder, [Next]_vars
  PROVE  InOrder'
  <1>1. ASSUME \/ UeNas /\ UeAccepted
               \/ EnbDownlink /\ EnbSetsUp
               \/ Created
               \/ Sgwc
        PROVE  OfferedInOrder'
    BY <1>1, OrderMoves DEF InOrder
  <1>2. ASSUME \/ NoteAttach \/ SendDetach \/ Control \/ EnbUplink \/ EnbConfirms \/ Hss \/ Lose
               \/ UNCHANGED vars
               \/ UeNas /\ (UeAuthenticates \/ UeSecures \/ UeRefused \/ UeReleased)
               \/ EnbDownlink /\ (EnbReleases \/ EnbRelays)
               \/ OnAttachRequest \/ OnAuthResponse \/ OnSecurityComplete \/ OnDetachRequest
               \/ OnSetupResponse \/ OnOther
               \/ Challenged \/ NotChallenged \/ CreatedWithoutAddress \/ NotCreated
               \/ Deleted \/ Modified
        PROVE  OfferedInOrder'
    BY <1>2, OrderQuiet, OrderDrifts DEF InOrder
  <1>3. UeNas => UeAuthenticates \/ UeSecures \/ UeAccepted \/ UeRefused \/ UeReleased
    BY DEF UeNas
  <1>4. EnbDownlink => EnbSetsUp \/ EnbReleases \/ EnbRelays
    BY DEF EnbDownlink
  <1>5. OfferedInOrder'
    BY <1>1, <1>2, <1>3, <1>4 DEF Next, Mme
  <1>6. GivenInOrder'
    <2>1. CASE Sgwc
      BY <2>1, GivenMoves DEF InOrder
    <2>2. CASE UNCHANGED <<given, sessions, addresses, s5>>
      BY <2>2 DEF InOrder, GivenInOrder
    <2> QED BY <2>1, <2>2, GrantsKept
  <1> QED BY <1>5, <1>6 DEF InOrder

(* Every session comes with First or with an address above those of all    *)
(* sessions before it, though answers are late at S5-C; and the sessions   *)
(* on the way to the UE, from the SGW-C through the MME and the eNB, are   *)
(* in the order of their creation and after the one it has.                *)
THEOREM AddressesInOrder == Spec => [](TypeOK /\ InOrder)
  <1>1. Init => TypeOK /\ InOrder
    BY TypeInit, OrderInit, GivenInit DEF InOrder
  <1>2. (TypeOK /\ InOrder) /\ [Next]_vars => (TypeOK /\ InOrder)'
    BY TypeStep, OrderStep, Parts, PartsPrimed
  <1> QED BY <1>1, <1>2, PTL DEF Spec

---------------------------------------------------------------------------
(* Refinement of Registration. *)

(* At first nothing is asked for or granted. *)
LEMMA InitRefines == Init => Promise!Init
  <1> SUFFICES ASSUME Init PROVE Promise!Init
    OBVIOUS
  <1>1. \A T : Count(<<>>, T) = 0
    BY FS_EmptySet DEF Count
  <1> QED BY <1>1 DEF Init, Promise!Init, Open, Closing

(* The UE is handed an address that was granted, above the one it has.     *)
LEMMA AcceptRefines ==
  ASSUME Values, Grants, Radio, Radio', CoreSockets, OfferedInOrder, UeNas, UeAccepted
  PROVE  Promise!Accept
  <1>1. PICK a \in 0 .. sessions, b \in 0 .. sessions, c \in 0 .. sessions :
            /\ a <= b /\ b <= c
            /\ ueIp # None => ueIp \in 1 .. a
            /\ Rising(Offers(uuDown), a, b)
    BY DEF OfferedInOrder
  <1>2. /\ Offers(uuDown) \in Seq(Values0) /\ sessions \in Nat /\ None \notin Nat
        /\ a \in Nat /\ b \in Nat /\ b <= sessions
    BY OrderTyped, AttachAssumption
  <1>3. /\ uuDown # <<>> /\ Head(uuDown).t = "ATTACH_ACCEPT" /\ Head(uuDown) \in UuDownMsgs
        /\ ueIp' = Head(uuDown).v /\ ue' = "ATTACHED" /\ UNCHANGED given
    BY DEF UeNas, UeAccepted, UeReads, coreVars, Radio
  <1>4. PICK v \in Nat : v = Head(uuDown).v /\ v = OfferIn(Head(uuDown))
    BY <1>3, Built DEF OfferIn
  <1>5. Offers(uuDown) # <<>> /\ Head(Offers(uuDown)) = v
    BY <1>3, <1>4, OffersMove, OffersTyped DEF Radio
  <1>6. a < v /\ v <= b
    BY <1>1, <1>2, <1>5, RisingTail
  <1>7. v \in 1 .. sessions /\ (ueIp # None => v > ueIp)
    BY <1>1, <1>2, <1>6
  <1>8. Open' = Open - 1 /\ Closing' = Closing
    BY UeCounts
  <1>9. Open \in Nat /\ Open' \in Nat
    BY CountedParts
  <1>10. Open > 0
    BY <1>8, <1>9
  <1>11. DOMAIN given = 1 .. sessions
    BY DEF Grants
  <1> QED BY <1>3, <1>4, <1>7, <1>8, <1>10, <1>11 DEF Promise!Accept

(* A step that leaves the UE alone, grants nothing and takes at most one   *)
(* attach or one detach with it gives up or stutters.                      *)
LEMMA GivesUp ==
  ASSUME Radio, Radio', UNCHANGED <<ue, ueIp, given>>,
         \/ Open' = Open /\ Closing' = Closing
         \/ Open' = Open - 1 /\ Closing' = Closing
         \/ Open' = Open /\ Closing' = Closing - 1
  PROVE  [Promise!Next]_(Promise!regVars)
  <1>1. Open \in Nat /\ Open' \in Nat /\ Closing \in Nat /\ Closing' \in Nat
    BY CountedParts
  <1>2. CASE Open' = Open /\ Closing' = Closing
    BY <1>2 DEF Promise!regVars
  <1>3. CASE Open' = Open - 1 /\ Closing' = Closing
    <2>1. Open > 0
      BY <1>1, <1>3
    <2> QED BY <1>3, <2>1 DEF Promise!Next, Promise!End, Promise!GiveUp
  <1>4. CASE Open' = Open /\ Closing' = Closing - 1
    <2>1. Closing > 0
      BY <1>1, <1>4
    <2> QED BY <1>4, <2>1 DEF Promise!Next, Promise!End, Promise!GiveUp
  <1> QED BY <1>2, <1>3, <1>4

(* Every step of UE, eNB, MME and core is a step of the promise, or leaves *)
(* its state alone.                                                        *)
LEMMA NextRefines ==
  TypeOK /\ TypeOK' /\ InOrder /\ [Next]_vars => [Promise!Next]_(Promise!regVars)
  <1> SUFFICES ASSUME Values, Grants, Grants', Radio, Radio', CoreSockets, InOrder, [Next]_vars
               PROVE  [Promise!Next]_(Promise!regVars)
    BY Parts, PartsPrimed
  <1>1. CASE NoteAttach
    <2>1. ue' = "ATTACH_SENT" /\ UNCHANGED <<ueIp, given>>
      BY <1>1 DEF NoteAttach, coreVars
    <2>2. Open' = Open + 1 /\ Closing' = Closing
      BY <1>1, UeCounts
    <2> QED BY <2>1, <2>2 DEF Promise!Next, Promise!Ask
  <1>2. CASE SendDetach
    <2>1. UNCHANGED <<ue, ueIp, given>>
      BY <1>2 DEF SendDetach, coreVars
    <2>2. Open' = Open /\ Closing' = Closing + 1
      BY <1>2, UeCounts
    <2> QED BY <2>1, <2>2 DEF Promise!Next, Promise!AskLeave
  <1>3. CASE SendAttach
    <2>1. UNCHANGED <<ue, ueIp, given>>
      BY <1>3 DEF SendAttach, coreVars
    <2>2. Open' = Open /\ Closing' = Closing
      BY <1>3, UeCounts
    <2> QED BY <2>1, <2>2 DEF Promise!regVars
  <1>4. CASE NoteDetach
    <2>1. ue' = "DETACH_SENT" /\ UNCHANGED <<ueIp, given>>
      BY <1>4 DEF NoteDetach, coreVars
    <2>2. Open' = Open /\ Closing' = Closing
      BY <1>4, UeCounts
    <2> QED BY <2>1, <2>2 DEF Promise!Next, Promise!NoteLeave
  <1>5. CASE UeNas
    <2>1. CASE UeAuthenticates \/ UeSecures
      <3>1. UNCHANGED <<ue, ueIp, given>>
        BY <1>5, <2>1 DEF UeNas, UeAuthenticates, UeSecures, coreVars
      <3>2. Open' = Open /\ Closing' = Closing
        BY <1>5, <2>1, UeCounts
      <3> QED BY <3>1, <3>2 DEF Promise!regVars
    <2>2. CASE UeAccepted
      BY <1>5, <2>2, AcceptRefines DEF InOrder, Promise!Next, Promise!End
    <2>3. CASE UeRefused
      <3>1. ue' = "REJECTED" /\ UNCHANGED <<ueIp, given>>
        BY <1>5, <2>3 DEF UeNas, UeRefused, coreVars
      <3>2. Open' = Open - 1 /\ Closing' = Closing
        BY <1>5, <2>3, UeCounts
      <3>3. Open \in Nat /\ Open' \in Nat
        BY CountedParts
      <3>4. Open > 0
        BY <3>2, <3>3
      <3> QED BY <3>1, <3>2, <3>4 DEF Promise!Next, Promise!End, Promise!Reject
    <2>4. CASE UeReleased
      <3>1. ue' = "DETACHED" /\ UNCHANGED <<ueIp, given>>
        BY <1>5, <2>4 DEF UeNas, UeReleased, coreVars
      <3>2. Open' = Open /\ Closing' = Closing - 1
        BY <1>5, <2>4, UeCounts
      <3>3. Closing \in Nat /\ Closing' \in Nat
        BY CountedParts
      <3>4. Closing > 0
        BY <3>2, <3>3
      <3> QED BY <3>1, <3>2, <3>4 DEF Promise!Next, Promise!End, Promise!Leave
    <2> QED BY <1>5, <2>1, <2>2, <2>3, <2>4 DEF UeNas
  <1>6. CASE EnbUplink \/ EnbDownlink \/ EnbConfirms
    <2>1. UNCHANGED <<ue, ueIp, given>>
      BY <1>6 DEF EnbUplink, EnbDownlink, EnbConfirms, ueVars, coreVars
    <2>2. Open' = Open /\ Closing' = Closing
      BY <1>6, EnbCounts
    <2> QED BY <2>1, <2>2 DEF Promise!regVars
  <1>7. CASE OnAttachRequest \/ OnAuthResponse \/ OnSecurityComplete \/ OnDetachRequest
             \/ OnSetupResponse
    <2>1. UNCHANGED <<ue, ueIp, given>>
      BY <1>7
      DEF OnAttachRequest, OnAuthResponse, OnSecurityComplete, OnDetachRequest, OnSetupResponse,
          MmeReads, ueVars, coreVars
    <2>2. Open' = Open /\ Closing' = Closing
      BY <1>7, MmeReadsCounts
    <2> QED BY <2>1, <2>2 DEF Promise!regVars
  <1>8. CASE Challenged \/ NotChallenged \/ Created \/ CreatedWithoutAddress \/ NotCreated
             \/ Deleted \/ Modified
    <2>1. UNCHANGED <<ue, ueIp, given>>
      BY <1>8
      DEF Challenged, NotChallenged, Created, CreatedWithoutAddress, NotCreated, Deleted, Modified,
          MmeResumes, ueVars, coreVars
    <2>2. \/ Open' = Open /\ Closing' = Closing
          \/ Open' = Open - 1 /\ Closing' = Closing
      BY <1>8, MmeResumesCounts
    <2> QED BY <2>1, <2>2, GivesUp
  <1>9. CASE Lose \/ OnOther
    <2>1. UNCHANGED <<ue, ueIp, given>>
      BY <1>9 DEF Lose, OnOther, MmeReads, ueVars, coreVars
    <2> QED BY <1>9, <2>1, LossCounts, GivesUp
  <1>10. CASE Hss \/ UNCHANGED vars
    <2>1. UNCHANGED <<ue, ueIp, given>>
      BY <1>10 DEF Hss, vars, ueVars, coreVars
    <2>2. Open' = Open /\ Closing' = Closing
      BY <1>10, CoreCounts
    <2> QED BY <2>1, <2>2 DEF Promise!regVars
  <1>11. CASE Sgwc
    <2>1. /\ UNCHANGED <<ue, ueIp>>
          /\ \/ given' = given
             \/ \E a \in Addresses :
                   /\ given' = Append(given, a)
                   /\ a = First \/ \A n \in DOMAIN given : given[n] < a
      BY <1>11, Served, GivenMoves DEF InOrder, ueVars
    <2>2. Open' = Open /\ Closing' = Closing
      BY <1>11, CoreCounts
    <2>3. ASSUME NEW a \in Addresses, given' = Append(given, a)
          PROVE  a \in {given'[i] : i \in DOMAIN given'}
      <3>1. Len(given) + 1 \in DOMAIN given' /\ given'[Len(given) + 1] = a
        BY <2>3 DEF Grants
      <3> QED BY <3>1
    <2> QED BY <2>1, <2>2, <2>3 DEF Promise!Next, Promise!Grant, Promise!regVars
  <1> QED
    BY <1>1, <1>2, <1>3, <1>4, <1>5, <1>6, <1>7, <1>8, <1>9, <1>10, <1>11
    DEF Next, Mme, Control

(* UE, eNB, MME, HSS and SGW-C keep the promise of Registration: every     *)
(* accept, reject and detach accept answers one attach or detach that was  *)
(* asked for, and the address handed over is that of a session later than  *)
(* all those handed over before, so above all their addresses or First,    *)
(* whatever is lost, late, rejected or crossing.                           *)
THEOREM Refinement == Spec => Promise!SafeSpec
  <1>1. (TypeOK /\ InOrder) /\ (TypeOK /\ InOrder)' /\ [Next]_vars
            => [Promise!Next]_(Promise!regVars)
    BY NextRefines
  <1> QED BY AddressesInOrder, InitRefines, <1>1, PTL DEF Spec, Promise!SafeSpec

=============================================================================
