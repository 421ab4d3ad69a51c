---------------------------- MODULE Registration ----------------------------
(***************************************************************************)
(* What the network promises a UE that attaches and detaches: an attach or *)
(* detach it asks for is answered at most once, and not unless it asked;   *)
(* an accept hands it an address the network has granted for an attach,    *)
(* and none it has been handed before: but for one, First, which the       *)
(* network falls back on when it has no other.  Nothing is said of the     *)
(* eNB, the MME, NAS or S1AP: module Attach implements this one.           *)
(***************************************************************************)
EXTENDS Naturals, Sequences

CONSTANTS None, First

VARIABLES status,   \* what the UE takes itself to be
          held,     \* the number of the grant whose address it has
          given,    \* the addresses granted, in the order of the grants
          open,     \* attaches asked for and neither answered nor given up
          closing   \* the same for detaches

regVars == <<status, held, given, open, closing>>

Init ==
    /\ status = "IDLE" /\ held = None
    /\ given = <<>> /\ open = 0 /\ closing = 0

Ask ==
    /\ status' = "ATTACH_SENT"
    /\ open' = open + 1
    /\ UNCHANGED <<held, given, closing>>

(* The network grants an address, for an attach that may be given up since: *)
(* one above all it granted before, or First.                               *)
Grant ==
    /\ \E a \in {given'[i] : i \in DOMAIN given'} :
          /\ given' = Append(given, a)
          /\ a = First \/ \A n \in DOMAIN given : given[n] < a
    /\ UNCHANGED <<status, held, open, closing>>

(* The UE is handed the address of a grant, later than the one it has: what *)
(* became of the grants between them it never learns.                       *)
Accept ==
    /\ open > 0
    /\ open' = open - 1
    /\ status' = "ATTACHED"
    /\ held' \in {n \in DOMAIN given : held # None => n > held}
    /\ UNCHANGED <<given, closing>>

Reject ==
    /\ open > 0
    /\ open' = open - 1
    /\ status' = "REJECTED"
    /\ UNCHANGED <<held, given, closing>>

(* No answer will come. *)
GiveUp ==
    /\ \/ open > 0 /\ open' = open - 1 /\ UNCHANGED closing
       \/ closing > 0 /\ closing' = closing - 1 /\ UNCHANGED open
    /\ UNCHANGED <<status, held, given>>

(* A detach is asked for in one step and noted in another. *)
AskLeave ==
    /\ closing' = closing + 1
    /\ UNCHANGED <<status, held, given, open>>

NoteLeave ==
    /\ status' = "DETACH_SENT"
    /\ UNCHANGED <<held, given, open, closing>>

Leave ==
    /\ closing > 0
    /\ closing' = closing - 1
    /\ status' = "DETACHED"
    /\ UNCHANGED <<held, given, open>>

End == Accept \/ Reject \/ Leave \/ GiveUp

Next == Ask \/ Grant \/ AskLeave \/ NoteLeave \/ End

SafeSpec == Init /\ [][Next]_regVars

(* Whatever is asked for comes to an end. *)
Spec == SafeSpec /\ WF_regVars(End)
=============================================================================
