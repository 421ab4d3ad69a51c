-------------------------------- MODULE Rpc --------------------------------
(***************************************************************************)
(* What a caller of CPF._request is promised: every call is handed either  *)
(* no answer at all or the answer to the very request it sent, an answer   *)
(* only after the peer has executed that request, and the peer executes a  *)
(* request at most once.  Nothing is said of sequence numbers, of the      *)
(* pending table, of threads or of the network: module PfcpTransaction     *)
(* implements this one.                                                    *)
(***************************************************************************)
EXTENDS Naturals

CONSTANTS Calls,     \* the calls ever made
          NoAnswer   \* what a call that has not returned an answer holds

VARIABLES phase,     \* phase[c]: has call c been made, has it returned?
          executed,  \* executed[c]: how often the peer executed the request of c
          outcome    \* outcome[c]: the call whose answer c was handed

rpcVars == <<phase, executed, outcome>>

Init ==
    /\ phase = [c \in Calls |-> "idle"]
    /\ executed = [c \in Calls |-> 0]
    /\ outcome = [c \in Calls |-> NoAnswer]

(* A caller makes call c. *)
Invoke(c) ==
    /\ phase[c] = "idle"
    /\ phase' = [phase EXCEPT ![c] = "active"]
    /\ UNCHANGED <<executed, outcome>>

(* The peer executes the request of c: once, and perhaps after c gave up.  *)
Execute(c) ==
    /\ phase[c] # "idle"
    /\ executed[c] = 0
    /\ executed' = [executed EXCEPT ![c] = 1]
    /\ UNCHANGED <<phase, outcome>>

(* c returns: with the answer to its own request, or with none. *)
Return(c) ==
    /\ phase[c] = "active"
    /\ phase' = [phase EXCEPT ![c] = "returned"]
    /\ \/ executed[c] = 1 /\ outcome' = [outcome EXCEPT ![c] = c]
       \/ UNCHANGED outcome
    /\ UNCHANGED executed

Next == \E c \in Calls : Invoke(c) \/ Execute(c) \/ Return(c)

SafeSpec == Init /\ [][Next]_rpcVars

(* A call that was made does return: CPF._send waits 3.0 seconds at most.  *)
Spec == SafeSpec /\ \A c \in Calls : WF_rpcVars(Return(c))
=============================================================================
