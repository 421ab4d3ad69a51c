---------------------------- MODULE BearerService ----------------------------
(***************************************************************************)
(* What the SGW-C and all behind it promise an MME that creates, modifies  *)
(* and deletes sessions over S11: one procedure is carried out at a time,  *)
(* for its own subscriber, and is reported when it has been; the n-th      *)
(* session granted is the n-th everywhere, and the MME is told of the      *)
(* session there is.  Once a message is lost or late, only this is left:   *)
(* sessions are counted up, and the MME is told of none not yet granted.   *)
(* Nothing is said of the PGW-C, of the UPFs or of any socket: module      *)
(* SessionSetup implements this one.                                       *)
(***************************************************************************)
EXTENDS Naturals

CONSTANTS Imsis,   \* subscribers
          None     \* no session

VARIABLES proc,     \* the procedure the MME is in
          stage,    \* how far it is
          session,  \* session[i]: the session of subscriber i, whole at both gateways
          told,     \* told[i]: the session the MME was last told of for i
          granted,  \* sessions granted so far
          linked,   \* sessions whose downlink leads on to the eNB
          target,   \* the session all packets from the PDN go to
          broken    \* something was lost or late

serviceVars == <<proc, stage, session, told, granted, linked, target, broken>>

Idle == [op |-> "idle", imsi |-> None]

Init ==
    /\ proc = Idle /\ stage = "none"
    /\ session = [i \in Imsis |-> None] /\ told = [i \in Imsis |-> None]
    /\ granted = 0 /\ linked = {} /\ target = None
    /\ broken = FALSE

(* At stage s of a procedure op. *)
At(op, s) == proc.op = op /\ stage = s

(* A creation starts with a subscriber that has been told of nothing. *)
Ask(op, i) ==
    /\ proc = Idle
    /\ proc' = [op |-> op, imsi |-> i] /\ stage' = "asked"
    /\ told' = IF op = "create" THEN [told EXCEPT ![i] = None] ELSE told
    /\ UNCHANGED <<session, granted, linked, target>>

(* A creation ends the session there may be, and turns the packets from    *)
(* the PDN to the new one before it is there ...                           *)
Prepare ==
    /\ At("create", "asked") /\ stage' = "prepared"
    /\ session' = [session EXCEPT ![proc.imsi] = None]
    /\ target' = granted + 1
    /\ UNCHANGED <<proc, told, granted, linked>>

(* ... and grants it. *)
Grant ==
    /\ At("create", "prepared") /\ stage' = "done"
    /\ granted' = granted + 1
    /\ session' = [session EXCEPT ![proc.imsi] = granted + 1]
    /\ UNCHANGED <<proc, told, linked, target>>

(* A modification leads the downlink of the session, if any, to the eNB. *)
Connect ==
    /\ At("modify", "asked") /\ stage' = "done"
    /\ linked' = IF session[proc.imsi] = None THEN linked
                 ELSE linked \cup {session[proc.imsi]}
    /\ UNCHANGED <<proc, session, told, granted, target>>

(* A deletion ends the session, if any ... *)
Withdraw ==
    /\ At("delete", "asked")
    /\ session' = [session EXCEPT ![proc.imsi] = None]
    /\ UNCHANGED <<proc, stage, told, granted, linked, target>>

(* ... and is done when there is none. *)
Confirm ==
    /\ At("delete", "asked") /\ stage' = "done"
    /\ session[proc.imsi] = None
    /\ UNCHANGED <<proc, session, told, granted, linked, target>>

(* The MME is told of the session it had created. *)
Report ==
    /\ stage = "done" /\ proc' = Idle /\ stage' = "none"
    /\ told' = IF proc.op = "create"
               THEN [told EXCEPT ![proc.imsi] = session[proc.imsi]]
               ELSE told
    /\ UNCHANGED <<session, granted, linked, target>>

Carry ==
    /\ ~broken /\ UNCHANGED broken
    /\ Prepare \/ Grant \/ Connect \/ Withdraw \/ Confirm \/ Report

Start ==
    /\ ~broken /\ UNCHANGED broken
    /\ \E op \in {"create", "modify", "delete"}, i \in Imsis : Ask(op, i)

(* What may still be relied on. *)
Muddle ==
    /\ broken'
    /\ granted <= granted'
    /\ \A i \in Imsis : told'[i] \in {told[i], None} \cup 1..granted'

Next == Start \/ Carry \/ Muddle

SafeSpec == Init /\ [][Next]_serviceVars

(* As long as nothing is lost or late a procedure is carried to its end. *)
Spec == SafeSpec /\ WF_serviceVars(Carry)
=============================================================================
