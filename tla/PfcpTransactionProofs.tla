----------------------- MODULE PfcpTransactionProofs -----------------------
(***************************************************************************)
(* Proofs about PfcpTransaction, for any sets of calls and heartbeats and  *)
(* any number of sequence numbers: type correctness, the correlation of    *)
(* answers with requests, the exactness of the pending table, and that     *)
(* every step of CPF._send and CPF.handle is a step of Rpc or stutters.    *)
(***************************************************************************)
EXTENDS PfcpTransaction, TLAPS

(* The next number is one of the numbers. *)
LEMMA NextSeqType == seq \in Seqs => NextSeq \in Seqs
  <1>1. SUFFICES ASSUME seq \in Seqs PROVE (seq + 1) % SeqMod \in 0 .. SeqMod - 1
    BY DEF NextSeq, Seqs
  <1>2. SeqMod \in Nat \ {0} /\ seq + 1 \in Int
    BY <1>1, TransactionAssumption DEF Seqs
  <1> QED BY <1>2

(* The initial state satisfies the inductive invariant. *)
LEMMA InitInv == Init => IInv
  <1> SUFFICES ASSUME Init PROVE IInv
    OBVIOUS
  <1> USE TransactionAssumption DEF Init, Msgs, RxIdle
  <1>1. TypeOK
    BY DEF TypeOK, Seqs
  <1>2. DistinctNumbers
    BY DEF DistinctNumbers, Live
  <1>3. PendingExact
    BY DEF PendingExact
  <1>4. RxOwnSlot /\ SlotOwnAnswer /\ ExecutedOnce /\ ResultAtEnd /\ Correlation
    BY DEF RxOwnSlot, SlotOwnAnswer, ExecutedOnce, ResultAtEnd, Correlation
  <1> QED BY <1>1, <1>2, <1>3, <1>4 DEF IInv

(* Every step preserves the inductive invariant. *)
LEMMA NextInv == IInv /\ [Next]_vars => IInv'
  <1> SUFFICES ASSUME IInv, [Next]_vars PROVE IInv'
    OBVIOUS
  <1> USE TransactionAssumption
          DEF IInv, TypeOK, DistinctNumbers, PendingExact, RxOwnSlot, SlotOwnAnswer,
              ExecutedOnce, ResultAtEnd, Correlation, Live, Msgs, RxIdle
  <1>1. ASSUME NEW c \in Calls, Alloc(c) PROVE IInv'
    BY <1>1, NextSeqType DEF Alloc, Fresh
  <1>2. ASSUME NEW c \in Calls, Insert(c) PROVE IInv'
    BY <1>2 DEF Insert
  <1>3. ASSUME NEW c \in Calls, Transmit(c) PROVE IInv'
    BY <1>3 DEF Transmit
  <1>4. ASSUME NEW c \in Calls, Wake(c) PROVE IInv'
    BY <1>4 DEF Wake
  <1>5. ASSUME NEW c \in Calls, Timeout(c) PROVE IInv'
    BY <1>5 DEF Timeout
  <1>6. ASSUME NEW c \in Calls, Pop(c) PROVE IInv'
    BY <1>6 DEF Pop, Popped
  <1>7. ASSUME NEW b \in Beats, Beat(b) PROVE IInv'
    BY <1>7, NextSeqType DEF Beat, Fresh
  <1>8. ASSUME NEW m \in Msgs, Receive(m) PROVE IInv'
    BY <1>8 DEF Receive
  <1>9. ASSUME Fill PROVE IInv'
    BY <1>9 DEF Fill
  <1>10. ASSUME Signal PROVE IInv'
    BY <1>10 DEF Signal
  <1>11. ASSUME NEW m \in Msgs, Serve(m) PROVE IInv'
    BY <1>11 DEF Serve
  <1>12. ASSUME NEW m \in Msgs, LoseRequest(m) PROVE IInv'
    BY <1>12 DEF LoseRequest
  <1>13. ASSUME NEW m \in Msgs, LoseReply(m) PROVE IInv'
    BY <1>13 DEF LoseReply
  <1>14. CASE UNCHANGED vars
    BY <1>14 DEF vars
  <1> QED
    BY <1>1, <1>2, <1>3, <1>4, <1>5, <1>6, <1>7, <1>8, <1>9, <1>10, <1>11, <1>12,
       <1>13, <1>14 DEF Next, CallStep, NetStep

(* The strengthened invariant holds in every reachable state. *)
THEOREM Invariant == Spec => []IInv
  BY InitInv, NextInv, PTL DEF Spec

(* Every variable keeps the type the code gives it. *)
THEOREM TypeCorrect == Spec => []TypeOK
  <1>1. IInv => TypeOK
    BY DEF IInv
  <1> QED BY Invariant, <1>1, PTL

(* No call of CPF._send ever returns the answer to another request, whatever *)
(* the network loses, delays or reorders.                                    *)
THEOREM CorrelationHolds == Spec => []Correlation
  <1>1. IInv => Correlation
    BY DEF IInv
  <1> QED BY Invariant, <1>1, PTL

(* CPF.pending holds exactly the slots of the threads waiting in _send. *)
THEOREM PendingExactHolds == Spec => []PendingExact
  <1>1. IInv => PendingExact
    BY DEF IInv
  <1> QED BY Invariant, <1>1, PTL

(* A thread of _send whose event is set finds its own answer in the table. *)
THEOREM WokenWithAnswerHolds == Spec => []WokenWithAnswer
  <1>1. IInv => WokenWithAnswer
    BY TransactionAssumption
       DEF IInv, TypeOK, PendingExact, SlotOwnAnswer, WokenWithAnswer, Popped, Msgs
  <1> QED BY Invariant, <1>1, PTL

---------------------------------------------------------------------------
(* Refinement of Rpc. *)

(* The initial state is an initial state of Rpc. *)
LEMMA InitRefines == Init => Abstract!Init
  BY DEF Init, Abstract!Init, PhaseOf, Msgs

(* Each step of the threads, the peer and the network is a step of Rpc that *)
(* invokes, executes or returns one call, or leaves the state of Rpc alone. *)
LEMMA NextRefines == IInv /\ [Next]_vars => [Abstract!Next]_(Abstract!rpcVars)
  <1> SUFFICES ASSUME IInv, [Next]_vars
               PROVE  Abstract!Next \/ UNCHANGED Abstract!rpcVars
    OBVIOUS
  <1> USE TransactionAssumption
          DEF IInv, TypeOK, Msgs, PhaseOf, Abstract!rpcVars
  <1>1. ASSUME NEW c \in Calls, Alloc(c) PROVE Abstract!Invoke(c)
    BY <1>1 DEF Alloc, Abstract!Invoke
  <1>2. ASSUME NEW c \in Calls, Insert(c) \/ Transmit(c) \/ Wake(c) \/ Timeout(c)
        PROVE  UNCHANGED Abstract!rpcVars
    BY <1>2 DEF Insert, Transmit, Wake, Timeout
  <1>3. ASSUME NEW c \in Calls, Pop(c) PROVE Abstract!Return(c)
    <2>1. pc[c] = "pop" /\ pc' = [pc EXCEPT ![c] = "done"]
      BY <1>3 DEF Pop
    <2>2. [d \in Calls |-> PhaseOf(d)]'
            = [[d \in Calls |-> PhaseOf(d)] EXCEPT ![c] = "returned"]
      BY <2>1
    <2>3. \/ executed[c] = 1 /\ result' = [result EXCEPT ![c] = c]
          \/ UNCHANGED result
      <3>1. pending[seqOf[c]] = c /\ c # None
        BY <2>1 DEF PendingExact
      <3>2. result' = [result EXCEPT ![c] = resp[c]]
        BY <1>3, <3>1 DEF Pop, Popped
      <3>3. result[c] = None
        BY <2>1 DEF ResultAtEnd
      <3>4. resp[c] = None \/ (resp[c] = c /\ executed[c] = 1)
        BY DEF SlotOwnAnswer, ExecutedOnce
      <3>5. resp[c] = None => UNCHANGED result
        BY <3>2, <3>3
      <3> QED BY <3>2, <3>4, <3>5
    <2>4. UNCHANGED executed
      BY <1>3 DEF Pop
    <2> QED BY <2>1, <2>2, <2>3, <2>4 DEF Abstract!Return
  <1>4. ASSUME NEW b \in Beats, Beat(b) PROVE UNCHANGED Abstract!rpcVars
    BY <1>4 DEF Beat
  <1>5. ASSUME NEW m \in Msgs, Receive(m) \/ LoseRequest(m) \/ LoseReply(m)
        PROVE  UNCHANGED Abstract!rpcVars
    BY <1>5 DEF Receive, LoseRequest, LoseReply
  <1>6. ASSUME NEW c \in Calls, Serve(c) PROVE Abstract!Execute(c)
    <2>1. pc[c] # "idle" /\ executed[c] = 0 /\ executed' = [executed EXCEPT ![c] = 1]
      <3>1. c \in Msgs /\ c \in requests /\ executed' = [executed EXCEPT ![c] = executed[c] + 1]
        BY <1>6 DEF Serve
      <3>2. executed[c] = 0 /\ pc[c] # "idle"
        BY <3>1 DEF ExecutedOnce
      <3> QED BY <3>1, <3>2
    <2>2. [d \in Calls |-> executed[d]]' = [[d \in Calls |-> executed[d]] EXCEPT ![c] = 1]
      BY <2>1
    <2>3. UNCHANGED <<pc, result>>
      BY <1>6 DEF Serve
    <2>4. UNCHANGED [d \in Calls |-> PhaseOf(d)]
      BY <2>3
    <2> QED BY <2>1, <2>2, <2>3, <2>4 DEF Abstract!Execute
  <1>7. ASSUME NEW b \in Beats, Serve(b) PROVE UNCHANGED Abstract!rpcVars
    BY <1>7 DEF Serve
  <1>8. ASSUME Fill \/ Signal PROVE UNCHANGED Abstract!rpcVars
    BY <1>8 DEF Fill, Signal
  <1>9. CASE UNCHANGED vars
    BY <1>9 DEF vars
  <1> QED
    BY <1>1, <1>2, <1>3, <1>4, <1>5, <1>6, <1>7, <1>8, <1>9
       DEF Next, CallStep, NetStep, Abstract!Next

(* CPF._send and CPF.handle implement the safety part of Rpc. *)
THEOREM Refinement == Spec => Abstract!SafeSpec
  BY Invariant, InitRefines, NextRefines, PTL DEF Spec, Abstract!SafeSpec
=============================================================================
