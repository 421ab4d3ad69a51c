-------------------------- MODULE PfcpTransaction --------------------------
(***************************************************************************)
(* The request/response machinery of core/cpf.py: _next_seq, _send, the    *)
(* response branch of handle, and the heartbeats that draw on the same     *)
(* sequence numbers.  Any number of threads (S11 or S5-C receive thread,   *)
(* control thread, guard timers) are inside _send at once, while the one   *)
(* PFCP receive thread fills their slots; the steps below are the points   *)
(* between which those threads interleave.                                 *)
(*                                                                         *)
(* A member of Calls is one execution of _send and names the slot          *)
(* [Event, Message] that execution creates; a member of Beats is one       *)
(* heartbeat request.  The peer copies the sequence number of a request    *)
(* into its response (upf.py _reply), so a response is identified by the   *)
(* request it answers and carries that request's number.                   *)
(***************************************************************************)
EXTENDS Integers

CONSTANTS Calls,      \* executions of _send
          Beats,      \* heartbeat requests
          SeqMod,     \* number of sequence numbers (2^24 in the code)
          None        \* Python's None

ASSUME TransactionAssumption ==
    /\ SeqMod \in Nat \ {0}
    /\ Calls \cap Beats = {}
    /\ None \notin Calls \cup Beats

Msgs == Calls \cup Beats
Seqs == 0 .. SeqMod - 1

VARIABLES
    seq,       \* CPF.seq, the last number handed out
    seqOf,     \* seqOf[m]: the number of request m, once it has one
    pc,        \* where each execution of _send stands
    pending,   \* CPF.pending: number -> slot (None: no such key)
    resp,      \* resp[c]: the Message field of the slot of c
    ev,        \* ev[c]: is the Event of the slot of c set?
    result,    \* result[c]: what _send returned to its caller
    requests,  \* requests in flight to the peer
    replies,   \* responses in flight to the CPF
    executed,  \* executed[m]: how often the peer has handled request m
    rx         \* the receive thread inside handle: what it read, what is next

vars == <<seq, seqOf, pc, pending, resp, ev, result,
          requests, replies, executed, rx>>

RxIdle == [at |-> "recv", msg |-> None, slot |-> None]

Init ==
    /\ seq = 0
    /\ seqOf = [m \in Msgs |-> 0]
    /\ pc = [m \in Msgs |-> "idle"]
    /\ pending = [k \in Seqs |-> None]
    /\ resp = [c \in Calls |-> None]
    /\ ev = [c \in Calls |-> FALSE]
    /\ result = [c \in Calls |-> None]
    /\ requests = {}
    /\ replies = {}
    /\ executed = [m \in Msgs |-> 0]
    /\ rx = RxIdle

(* The number of m is still in use: by a thread inside _send, by a message *)
(* in flight, or by the response the receive thread has in hand.           *)
Live(m) ==
    \/ pc[m] \in {"insert", "send", "wait", "pop"}
    \/ m \in requests \cup replies
    \/ rx.msg = m

(* Mutant: the mask is forgotten. *)
NextSeqUnmasked == seq + 1

(* A number comes round again after 2^24 requests, long after the 3.0      *)
(* seconds its holder waits and the lifetime of a datagram: NextSeq is     *)
(* taken only when its value is free.  This is the module's one assumption *)
(* on timing.                                                              *)
NextSeq == (seq + 1) % SeqMod
Fresh(k) == \A m \in Msgs : Live(m) => seqOf[m] # k

---------------------------------------------------------------------------
(* The calling thread: _send, one step per shared access. *)

Alloc(c) ==
    /\ pc[c] = "idle"
    /\ Fresh(NextSeq)
    /\ seq' = NextSeq
    /\ seqOf' = [seqOf EXCEPT ![c] = NextSeq]
    /\ pc' = [pc EXCEPT ![c] = "insert"]
    /\ UNCHANGED <<pending, resp, ev, result, requests, replies, executed, rx>>

Insert(c) ==
    /\ pc[c] = "insert"
    /\ pending' = [pending EXCEPT ![seqOf[c]] = c]
    /\ pc' = [pc EXCEPT ![c] = "send"]
    /\ UNCHANGED <<seq, seqOf, resp, ev, result, requests, replies, executed, rx>>

Transmit(c) ==
    /\ pc[c] = "send"
    /\ requests' = requests \cup {c}
    /\ pc' = [pc EXCEPT ![c] = "wait"]
    /\ UNCHANGED <<seq, seqOf, pending, resp, ev, result, replies, executed, rx>>

(* ev.wait(3.0) comes back because the event is set ... *)
Wake(c) ==
    /\ pc[c] = "wait"
    /\ ev[c]
    /\ pc' = [pc EXCEPT ![c] = "pop"]
    /\ UNCHANGED <<seq, seqOf, pending, resp, ev, result,
                   requests, replies, executed, rx>>

(* Mutant: the wait has no time limit. *)
TimeoutNever(c) ==
    /\ pc[c] = "wait"
    /\ ev[c]
    /\ pc' = [pc EXCEPT ![c] = "pop"]
    /\ UNCHANGED <<seq, seqOf, pending, resp, ev, result,
                   requests, replies, executed, rx>>

(* Mutant: a call that times out sends its request again and waits on. *)
TimeoutResend(c) ==
    /\ pc[c] = "wait"
    /\ ~ ev[c]
    /\ requests' = requests \cup {c}
    /\ UNCHANGED <<seq, seqOf, pc, pending, resp, ev, result, replies, executed, rx>>

(* ... or because the time is up, whatever is still in flight. *)
Timeout(c) ==
    /\ pc[c] = "wait"
    /\ ~ ev[c]
    /\ pc' = [pc EXCEPT ![c] = "pop"]
    /\ UNCHANGED <<seq, seqOf, pending, resp, ev, result,
                   requests, replies, executed, rx>>

(* pending.pop(seq, [None, None]): the response is read from the slot that *)
(* the table holds under the number, not from the slot of c as such.       *)
Popped(k) == IF pending[k] = None THEN None ELSE resp[pending[k]]

(* Mutant: the slot is read but stays in the table. *)
PopGet(c) ==
    /\ pc[c] = "pop"
    /\ result' = [result EXCEPT ![c] = Popped(seqOf[c])]
    /\ pc' = [pc EXCEPT ![c] = "done"]
    /\ UNCHANGED <<seq, seqOf, pending, resp, ev, requests, replies, executed, rx>>

Pop(c) ==
    /\ pc[c] = "pop"
    /\ result' = [result EXCEPT ![c] = Popped(seqOf[c])]
    /\ pending' = [pending EXCEPT ![seqOf[c]] = None]
    /\ pc' = [pc EXCEPT ![c] = "done"]
    /\ UNCHANGED <<seq, seqOf, resp, ev, requests, replies, executed, rx>>

(* _heartbeat_loop sends a request of its own number and awaits nothing. *)
Beat(b) ==
    /\ pc[b] = "idle"
    /\ Fresh(NextSeq)
    /\ seq' = NextSeq
    /\ seqOf' = [seqOf EXCEPT ![b] = NextSeq]
    /\ requests' = requests \cup {b}
    /\ pc' = [pc EXCEPT ![b] = "done"]
    /\ UNCHANGED <<pending, resp, ev, result, replies, executed, rx>>

---------------------------------------------------------------------------
(* The receive thread: handle, in the branch for responses. *)

(* Mutant: the answer is given to the latest call, whatever its number. *)
ReceiveLatest(m) ==
    /\ rx.at = "recv"
    /\ m \in replies
    /\ replies' = replies \ {m}
    /\ rx' = IF pending[seq] = None
             THEN RxIdle
             ELSE [at |-> "fill", msg |-> m, slot |-> pending[seq]]
    /\ UNCHANGED <<seq, seqOf, pc, pending, resp, ev, result, requests, executed>>

Receive(m) ==
    /\ rx.at = "recv"
    /\ m \in replies
    /\ replies' = replies \ {m}
    /\ rx' = IF pending[seqOf[m]] = None
             THEN RxIdle
             ELSE [at |-> "fill", msg |-> m, slot |-> pending[seqOf[m]]]
    /\ UNCHANGED <<seq, seqOf, pc, pending, resp, ev, result, requests, executed>>

(* Mutant: the event is set before the message is stored. *)
FillSignalsFirst ==
    /\ rx.at = "fill"
    /\ ev' = [ev EXCEPT ![rx.slot] = TRUE]
    /\ rx' = [rx EXCEPT !.at = "signal"]
    /\ UNCHANGED <<seq, seqOf, pc, pending, resp, result, requests, replies, executed>>

Fill ==
    /\ rx.at = "fill"
    /\ resp' = [resp EXCEPT ![rx.slot] = rx.msg]
    /\ rx' = [rx EXCEPT !.at = "signal"]
    /\ UNCHANGED <<seq, seqOf, pc, pending, ev, result, requests, replies, executed>>

Signal ==
    /\ rx.at = "signal"
    /\ ev' = [ev EXCEPT ![rx.slot] = TRUE]
    /\ rx' = RxIdle
    /\ UNCHANGED <<seq, seqOf, pc, pending, resp, result, requests, replies, executed>>

---------------------------------------------------------------------------
(* The peer and the network: UDP may lose, delay and reorder. *)

Serve(m) ==
    /\ m \in requests
    /\ requests' = requests \ {m}
    /\ replies' = replies \cup {m}
    /\ executed' = [executed EXCEPT ![m] = @ + 1]
    /\ UNCHANGED <<seq, seqOf, pc, pending, resp, ev, result, rx>>

LoseRequest(m) ==
    /\ m \in requests
    /\ requests' = requests \ {m}
    /\ UNCHANGED <<seq, seqOf, pc, pending, resp, ev, result, replies, executed, rx>>

LoseReply(m) ==
    /\ m \in replies
    /\ replies' = replies \ {m}
    /\ UNCHANGED <<seq, seqOf, pc, pending, resp, ev, result, requests, executed, rx>>

---------------------------------------------------------------------------
CallStep(c) == Alloc(c) \/ Insert(c) \/ Transmit(c) \/ Wake(c) \/ Timeout(c) \/ Pop(c)

NetStep(m) == Receive(m) \/ Serve(m) \/ LoseRequest(m) \/ LoseReply(m)

Next ==
    \/ \E c \in Calls : CallStep(c)
    \/ \E b \in Beats : Beat(b)
    \/ \E m \in Msgs : NetStep(m)
    \/ Fill
    \/ Signal

(* A thread that has entered _send keeps running, and its wait is bounded. *)
Progress(c) == Insert(c) \/ Transmit(c) \/ Wake(c) \/ Timeout(c) \/ Pop(c)

Spec == Init /\ [][Next]_vars

FairSpec == Spec /\ \A c \in Calls : WF_vars(Progress(c))

---------------------------------------------------------------------------
TypeOK ==
    /\ seq \in Seqs
    /\ seqOf \in [Msgs -> Seqs]
    /\ pc \in [Msgs -> {"idle", "insert", "send", "wait", "pop", "done"}]
    /\ pending \in [Seqs -> Calls \cup {None}]
    /\ resp \in [Calls -> Msgs \cup {None}]
    /\ ev \in [Calls -> BOOLEAN]
    /\ result \in [Calls -> Msgs \cup {None}]
    /\ requests \subseteq Msgs
    /\ replies \subseteq Msgs
    /\ executed \in [Msgs -> Nat]
    /\ rx \in [at : {"recv", "fill", "signal"},
               msg : Msgs \cup {None}, slot : Calls \cup {None}]

(* No call is ever handed the answer to another request, a heartbeat's     *)
(* included, however late that answer arrives: the "unexpected response"   *)
(* branch of CPF._request is never taken.                                  *)
Correlation == \A c \in Calls : result[c] \in {c, None}

(* A call woken by its event, not by the clock, returns an answer: handle  *)
(* stores the message before it sets the event, and the slot is in the     *)
(* table before the request leaves.                                        *)
WokenWithAnswer ==
    \A c \in Calls : ev[c] /\ pc[c] \in {"wait", "pop"} => Popped(seqOf[c]) = c

(* The table holds exactly the slots of the threads between insertion and  *)
(* pop: no thread removes another's slot, and none is left behind.         *)
PendingExact ==
    \A k \in Seqs, c \in Calls :
        pending[k] = c <=> pc[c] \in {"send", "wait", "pop"} /\ seqOf[c] = k

(* Every execution of _send ends: no call waits for ever on a lost answer. *)
CallsReturn == \A c \in Calls : pc[c] = "insert" ~> pc[c] = "done"

---------------------------------------------------------------------------
(* The strengthening that makes the above inductive, part by part. *)

(* Two requests whose numbers are both in use have different numbers. *)
DistinctNumbers ==
    \A m, n \in Msgs : Live(m) /\ Live(n) /\ seqOf[m] = seqOf[n] => m = n

(* What the receive thread has in hand is the answer to the call whose     *)
(* slot it has looked up: never a heartbeat's, never another call's.       *)
RxOwnSlot ==
    /\ rx.at = "recv" => rx = RxIdle
    /\ rx.at # "recv" => rx.msg \in Calls /\ rx.slot = rx.msg
    /\ rx.at = "signal" => resp[rx.slot] = rx.slot

(* A slot holds nothing or its own answer, and the event follows it. *)
SlotOwnAnswer ==
    \A c \in Calls : resp[c] \in {c, None} /\ (ev[c] => resp[c] = c)

(* Answers exist only for executed requests, and a request still on its    *)
(* way, or not yet sent, has not been executed.                            *)
ExecutedOnce ==
    /\ \A m \in Msgs :
          /\ executed[m] \in {0, 1}
          /\ m \in replies \/ rx.msg = m => executed[m] = 1
          /\ m \in requests => executed[m] = 0 /\ pc[m] \in {"wait", "pop", "done"}
          /\ pc[m] \in {"idle", "insert", "send"} => executed[m] = 0
    /\ \A c \in Calls : resp[c] = c => executed[c] = 1

(* A call has no result before it ends, and a heartbeat never waits. *)
ResultAtEnd ==
    /\ \A c \in Calls : result[c] # None => pc[c] = "done"
    /\ \A b \in Beats : pc[b] \in {"idle", "done"}

IInv ==
    /\ TypeOK
    /\ DistinctNumbers
    /\ PendingExact
    /\ RxOwnSlot
    /\ SlotOwnAnswer
    /\ ExecutedOnce
    /\ ResultAtEnd
    /\ Correlation

---------------------------------------------------------------------------
(* The abstract specification, and the state of it this one stands for. *)

PhaseOf(c) == IF pc[c] = "idle" THEN "idle"
              ELSE IF pc[c] = "done" THEN "returned" ELSE "active"

Abstract == INSTANCE Rpc WITH
    NoAnswer <- None,
    phase    <- [c \in Calls |-> PhaseOf(c)],
    executed <- [c \in Calls |-> executed[c]],
    outcome  <- result

(* CPF._send implements Rpc: its fine-grained steps, with any number of    *)
(* threads and the receive thread interleaved, look to a caller like one   *)
(* remote call that is answered once, by its own answer, or not at all.    *)
ImplementsRpc == Abstract!Spec
=============================================================================
