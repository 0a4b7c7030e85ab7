--------------------------- MODULE DataQueueProofs ---------------------------
(***************************************************************************)
(* Proofs about DataQueue for any number of connection threads and items.   *)
(*                                                                          *)
(* TypeOK, Linked and Ownership together are inductive.  The pointers alone *)
(* (Linked) are not: that append hangs a fresh item on the end of the list, *)
(* and that shift returns an item that occurs nowhere else on it, is what   *)
(* Ownership says.  The implementation of Fifo follows from Linked: what    *)
(* `first' points to is the oldest item not yet received.                   *)
(***************************************************************************)
EXTENDS DataQueue, TLAPS

DInv == TypeOK /\ Linked /\ Ownership

(* The process thread reads the data queue and nothing else does.           *)
LEMMA ProcessorQueue ==
  /\ Processor \in Thread
  /\ Processor \in Reader
  /\ DataQ \in Queue
  /\ Home[Processor] = DataQ
  /\ \A u \in Reader : u = Processor
  /\ NULL \notin Item
BY QueueAssumption, DataQueueAssumption

(* Whoever queue_list_shift(queue, NULL) is called by gets the first item.  *)
LEMMA CandidateIsFirst == ASSUME NEW q PROVE Candidate(q, NULL) = first[q]
BY DEF Candidate

(* Nothing is on the list before the first append.                          *)
LEMMA InitDInv == DataInit => DInv
<1> SUFFICES ASSUME DataInit PROVE DInv
  OBVIOUS
<1> USE ProcessorQueue DEF DataInit, QueueInit
<1>1. TypeOK
  BY DEF TypeOK, QueueTypeOK, QueuePoint
<1>2. Linked
  BY DEF Linked, OnList
<1>3. Ownership
  BY DEF Ownership
<1>4. QED
  BY <1>1, <1>2, <1>3 DEF DInv

(* queue_list_append hangs a fresh item behind the newest one.              *)
LEMMA DeliverDInv ==
  ASSUME DInv, NEW t \in Conn, Deliver(t)
  PROVE  DInv'
<1> USE ProcessorQueue DEF DInv
<1>1. PICK i \in pending :
        /\ LinkLast(t, DataQ, i)
        /\ pending' = pending \ {i}
        /\ sent' = Append(sent, i)
  BY DEF Deliver
<1>2. /\ t \in Thread
      /\ t # Processor
      /\ i \in Item
      /\ UNCHANGED <<failed, held, destroyed, received>>
  BY DEF Deliver, Conn, TypeOK
<1> DEFINE N == Len(sent)
           R == Len(received)
<1>3. /\ N \in Nat
      /\ R \in Nat
      /\ R <= N
      /\ Len(sent') = N + 1
      /\ sent'[N + 1] = i
      /\ \A n \in 1 .. N : sent'[n] = sent[n] /\ sent[n] \in Item
      /\ sent' \in Seq(Item)
  BY <1>1, <1>2 DEF TypeOK, Linked
<1>4. \A n \in 1 .. N : sent[n] # i
  BY <1>1 DEF Ownership
<1>5. TypeOK'
  BY <1>1, <1>2, <1>3 DEF TypeOK, QueueTypeOK, QueuePoint, LinkLast, Goto
<1>6. Linked'
  <2>1. first'[DataQ] = IF first[DataQ] = NULL THEN i ELSE first[DataQ]
    BY <1>1 DEF LinkLast, TypeOK, QueueTypeOK
  <2>2. last'[DataQ] = i
    BY <1>1 DEF LinkLast, TypeOK, QueueTypeOK
  <2>3. \A j \in Item : next'[j] = IF j = last[DataQ] THEN i ELSE next[j]
    BY <1>1 DEF LinkLast
  <2>4. CASE R = N
    <3>1. first[DataQ] = NULL /\ last[DataQ] = NULL
      BY <2>4, <1>3 DEF Linked, OnList
    <3>2. next'[i] = NULL
      BY <3>1, <2>3, <1>1, <1>2 DEF Ownership
    <3>3. /\ Len(received') = N
          /\ OnList' = {N + 1}
      BY <2>4, <1>2, <1>3 DEF OnList
    <3>4. first'[DataQ] = i
      BY <2>1, <3>1
    <3>5. QED
      BY <2>2, <3>2, <3>3, <3>4, <1>3 DEF Linked
  <2>5. CASE R < N
    <3>1. /\ first[DataQ] = sent[R + 1]
          /\ last[DataQ] = sent[N]
          /\ first[DataQ] # NULL
      BY <2>5, <1>3 DEF Linked, OnList
    <3>2. next'[i] = NULL
      BY <3>1, <2>3, <2>5, <1>1, <1>2, <1>3, <1>4 DEF Ownership
    <3>3. next'[sent[N]] = i
      BY <3>1, <2>3, <2>5, <1>3
    <3>4. ASSUME NEW n \in R + 1 .. N, n # N
          PROVE  next'[sent[n]] = sent[n + 1]
      <4>1. sent[n] # sent[N]
        BY <3>4, <2>5, <1>3 DEF Ownership
      <4>2. sent[n] \in Item /\ sent[n] # last[DataQ]
        BY <4>1, <3>1, <3>4, <1>3
      <4>3. next[sent[n]] = sent[n + 1]
        BY <3>4, <1>3 DEF Linked, OnList
      <4>4. QED
        BY <4>2, <4>3, <2>3
    <3>5. \A n \in R + 1 .. N + 1 :
            next'[sent'[n]] = IF n = N + 1 THEN NULL ELSE sent'[n + 1]
      <4> TAKE n \in R + 1 .. N + 1
      <4>1. CASE n = N + 1
        BY <4>1, <3>2, <1>3
      <4>2. CASE n = N
        <5>1. sent'[n] = sent[n] /\ sent'[n + 1] = i
          BY <4>2, <2>5, <1>3
        <5>2. QED
          BY <5>1, <4>2, <3>3, <1>3
      <4>3. CASE n \notin {N, N + 1}
        <5>1. n \in 1 .. N /\ n + 1 \in 1 .. N /\ n \in R + 1 .. N
          BY <4>3, <1>3
        <5>2. sent'[n] = sent[n] /\ sent'[n + 1] = sent[n + 1]
          BY <5>1, <1>3
        <5>3. QED
          BY <5>1, <5>2, <4>3, <3>4
      <4>4. QED
        BY <4>1, <4>2, <4>3
    <3>6. QED
      BY <2>1, <2>2, <2>5, <3>1, <3>5, <1>2, <1>3 DEF Linked, OnList
  <2>6. QED
    BY <2>4, <2>5, <1>3
<1>7. Ownership'
  <2>1. \A m, n \in 1 .. Len(sent') : sent'[m] = sent'[n] => m = n
    BY <1>3, <1>4 DEF Ownership
  <2>2. \A n \in 1 .. Len(sent') : sent'[n] \notin pending'
    BY <1>1, <1>3 DEF Ownership
  <2>3. \A j \in pending' : next'[j] = NULL
    <3>1. \A j \in pending' : j \in pending /\ j \in Item
      BY <1>1 DEF TypeOK
    <3>2. \A j \in pending' : j # last[DataQ]
      BY <3>1, <1>3 DEF Ownership, Linked, OnList
    <3>3. QED
      BY <3>1, <3>2, <1>1 DEF LinkLast, Ownership
  <2>4. \A n \in 1 .. Len(received') : received'[n] = sent'[n]
    BY <1>2, <1>3 DEF Ownership
  <2>5. (pc'[Processor] = "process") <=> (pc[Processor] = "process")
    BY <1>1, <1>2 DEF LinkLast, Goto, TypeOK
  <2>6. QED
    BY <2>1, <2>2, <2>3, <2>4, <2>5, <1>2 DEF Ownership
<1>8. QED
  BY <1>5, <1>6, <1>7

(* queue_list_shift takes the oldest item off the list.                     *)
LEMMA ReceiveDInv == DInv /\ Receive => DInv' /\ F!Get
<1> SUFFICES ASSUME DInv, Receive PROVE DInv' /\ F!Get
  OBVIOUS
<1> USE ProcessorQueue DEF DInv
<1> DEFINE N == Len(sent)
           R == Len(received)
           i == sent[R + 1]
<1>1. /\ Shift(Processor, NULL, "process")
      /\ received' = Append(received, held'[Processor])
      /\ UNCHANGED <<pending, destroyed, sent, failed, target>>
  BY DEF Receive, Shift
<1>2. /\ N \in Nat
      /\ R \in Nat
      /\ R < N
      /\ i \in Item
      /\ first[DataQ] = i
      /\ last[DataQ] = sent[N]
      /\ \A n \in 1 .. N : sent[n] \in Item
  BY <1>1 DEF Shift, Linked, OnList, TypeOK
<1>3. Candidate(DataQ, NULL) = i
  BY <1>2, CandidateIsFirst
<1>4. /\ next' = [j \in Item |-> IF j = i THEN NULL ELSE next[j]]
      /\ prev' = [j \in Item |-> IF j = i THEN NULL ELSE prev[j]]
      /\ first' = [first EXCEPT ![DataQ] = next[i]]
      /\ last' = [last EXCEPT ![DataQ] = IF @ = i THEN NULL ELSE @]
      /\ held' = [held EXCEPT ![Processor] = i]
      /\ pc' = [pc EXCEPT ![Processor] = "process"]
      /\ pc[Processor] = "shift"
  BY <1>1, <1>3 DEF Shift, Goto, FirstAfter, LastAfter, NextAfter, PrevAfter
<1>5. /\ held'[Processor] = i
      /\ received' = Append(received, i)
  BY <1>1, <1>4 DEF TypeOK, QueueTypeOK
<1>6. /\ Len(received') = R + 1
      /\ received'[R + 1] = i
      /\ \A n \in 1 .. R : received'[n] = received[n]
      /\ received' \in Seq(Item)
  BY <1>2, <1>5 DEF TypeOK
<1>7. TypeOK'
  BY <1>1, <1>2, <1>4, <1>6 DEF TypeOK, QueueTypeOK, QueuePoint
<1>8. Linked'
  <2>1. \A n \in R + 2 .. N : sent[n] # i
    BY <1>2 DEF Ownership
  <2>2. first'[DataQ] = IF R + 1 = N THEN NULL ELSE sent[R + 2]
    <3>1. next[i] = IF R + 1 = N THEN NULL ELSE sent[R + 1 + 1]
      BY <1>2 DEF Linked, OnList
    <3>2. QED
      BY <3>1, <1>2, <1>4 DEF TypeOK, QueueTypeOK
  <2>3. last'[DataQ] = IF R + 1 = N THEN NULL ELSE sent[N]
    <3>1. sent[N] = i <=> R + 1 = N
      BY <2>1, <1>2
    <3>2. last'[DataQ] = IF sent[N] = i THEN NULL ELSE sent[N]
      BY <1>2, <1>4 DEF TypeOK, QueueTypeOK
    <3>3. QED
      BY <3>1, <3>2
  <2>4. \A n \in R + 2 .. N :
          next'[sent[n]] = IF n = N THEN NULL ELSE sent[n + 1]
    BY <2>1, <1>2, <1>4 DEF Linked, OnList
  <2>5. QED
    BY <2>2, <2>3, <2>4, <1>1, <1>2, <1>6 DEF Linked, OnList
<1>9. Ownership'
  <2>1. /\ \A m, n \in 1 .. Len(sent') : sent'[m] = sent'[n] => m = n
        /\ \A n \in 1 .. Len(sent') : sent'[n] \notin pending'
    BY <1>1 DEF Ownership
  <2>2. \A j \in pending' : next'[j] = NULL
    BY <1>1, <1>4 DEF Ownership, TypeOK
  <2>3. \A n \in 1 .. Len(received') : received'[n] = sent'[n]
    BY <1>1, <1>2, <1>6 DEF Ownership
  <2>4. pc'[Processor] = "process"
    BY <1>4 DEF TypeOK
  <2>5. held'[Processor] = received'[Len(received')]
    BY <1>5, <1>6
  <2>6. destroyed' = {received'[n] : n \in 1 .. Len(received') - 1}
    <3>1. destroyed = {received[n] : n \in 1 .. R}
      BY <1>4 DEF Ownership
    <3>2. QED
      BY <3>1, <1>1, <1>2, <1>6
  <2>7. QED
    BY <2>1, <2>2, <2>3, <2>4, <2>5, <2>6, <1>2, <1>6 DEF Ownership
<1>10. F!Get
  BY <1>1, <1>2, <1>5 DEF F!Get
<1>11. QED
  BY <1>7, <1>8, <1>9, <1>10

(* queue_item_destroy frees the item received last.                         *)
LEMMA DestroyDInv == DInv /\ Destroy => DInv'
<1> SUFFICES ASSUME DInv, Destroy PROVE DInv'
  OBVIOUS
<1> USE ProcessorQueue DEF DInv
<1> DEFINE R == Len(received)
<1>1. /\ R \in Nat
      /\ R > 0
      /\ held[Processor] = received[R]
      /\ destroyed = {received[n] : n \in 1 .. R - 1}
      /\ \A n \in 1 .. R : received[n] \in Item
  BY DEF Destroy, Ownership, TypeOK
<1>2. TypeOK'
  BY <1>1 DEF Destroy, Goto, TypeOK, QueueTypeOK, QueuePoint, listVars
<1>3. Linked'
  BY DEF Destroy, Linked, OnList, listVars
<1>4. Ownership'
  <2>1. destroyed' = {received[n] : n \in 1 .. R}
    BY <1>1 DEF Destroy
  <2>2. pc'[Processor] = "shift" /\ held'[Processor] = NULL
    BY DEF Destroy, Goto, TypeOK, QueueTypeOK
  <2>3. QED
    BY <2>1, <2>2 DEF Destroy, Ownership, listVars
<1>5. QED
  BY <1>2, <1>3, <1>4

(* The other steps move threads about and touch neither list nor items.     *)
LEMMA MoveDInv ==
  ASSUME DInv,
         UNCHANGED <<first, last, next, prev, failed, held,
                     pending, destroyed, sent, received>>,
         pc' \in [Thread -> QueuePoint \cup {"retrieve", "process"}],
         target' \in [Thread -> Queue \cup {NULL}],
         (pc'[Processor] = "process") <=> (pc[Processor] = "process")
  PROVE  DInv'
<1>1. TypeOK'
  BY DEF DInv, TypeOK, QueueTypeOK
<1>2. Linked'
  BY DEF DInv, Linked, OnList
<1>3. Ownership'
  BY DEF DInv, Ownership
<1>4. QED
  BY <1>1, <1>2, <1>3 DEF DInv

(* A signal moves its sender and at most the sleeping process thread.       *)
LEMMA SignalDInv ==
  ASSUME DInv, NEW t \in Conn, DeliverSignal(t)
  PROVE  DInv'
<1> USE ProcessorQueue
<1>1. t \in Thread /\ t # Processor
  BY DEF Conn
<1>2. /\ UNCHANGED <<first, last, next, prev, failed, held,
                     pending, destroyed, sent, received>>
      /\ target' = [target EXCEPT ![t] = NULL]
  BY DEF DeliverSignal, Signal, listVars
<1>3. target' \in [Thread -> Queue \cup {NULL}]
  BY <1>1, <1>2 DEF DInv, TypeOK, QueueTypeOK
<1>4. pc \in [Thread -> QueuePoint \cup {"retrieve", "process"}]
  BY DEF DInv, TypeOK
<1>5. CASE Sleepers(target[t]) = {}
  <2>1. pc' = [pc EXCEPT ![t] = "retrieve"]
    BY <1>5 DEF DeliverSignal, Signal, Goto
  <2>2. QED
    BY <2>1, <1>1, <1>2, <1>3, <1>4, MoveDInv
<1>6. CASE Sleepers(target[t]) # {}
  <2>1. PICK u \in Sleepers(target[t]) :
          pc' = [pc EXCEPT ![t] = "retrieve", ![u] = "shift"]
    BY <1>6 DEF DeliverSignal, Signal
  <2>2. u = Processor /\ pc[Processor] = "asleep"
    BY DEF Sleepers
  <2>3. /\ pc' \in [Thread -> QueuePoint \cup {"retrieve", "process"}]
        /\ pc'[Processor] = "shift"
    BY <2>1, <2>2, <1>1, <1>4 DEF QueuePoint
  <2>4. QED
    BY <2>2, <2>3, <1>2, <1>3, MoveDInv
<1>7. QED
  BY <1>5, <1>6

LEMMA SleepDInv == DInv /\ (ReceiveNothing \/ WokenForNothing) => DInv'
<1> SUFFICES ASSUME DInv, ReceiveNothing \/ WokenForNothing PROVE DInv'
  OBVIOUS
<1> USE ProcessorQueue
<1>1. PICK p \in {"shift", "unlocked", "asleep"} :
        pc' = [pc EXCEPT ![Processor] = p]
  BY DEF ReceiveNothing, WokenForNothing, ShiftEmpty, Sleep, SpuriousWake, Goto
<1>2. UNCHANGED <<first, last, next, prev, failed, held, target,
                  pending, destroyed, sent, received>>
  BY DEF ReceiveNothing, WokenForNothing, ShiftEmpty, Sleep, SpuriousWake,
         listVars
<1>3. pc[Processor] # "process"
  BY DEF ReceiveNothing, WokenForNothing, ShiftEmpty, Sleep, SpuriousWake
<1>4. pc' \in [Thread -> QueuePoint \cup {"retrieve", "process"}]
  BY <1>1 DEF DInv, TypeOK, QueuePoint
<1>5. pc'[Processor] # "process"
  BY <1>1 DEF DInv, TypeOK
<1>6. target' \in [Thread -> Queue \cup {NULL}]
  BY <1>2 DEF DInv, TypeOK, QueueTypeOK
<1>7. QED
  BY <1>2, <1>3, <1>4, <1>5, <1>6, MoveDInv

-----------------------------------------------------------------------------
(* Every step keeps DInv, and is a step of the abstract queue or a stutter. *)
LEMMA StepDInv == DInv /\ [DataNext]_dataVars => DInv' /\ [F!Next]_<<sent, received>>
<1> SUFFICES ASSUME DInv, [DataNext]_dataVars
             PROVE  DInv' /\ [F!Next]_<<sent, received>>
  OBVIOUS
<1>1. ASSUME NEW t \in Conn, Deliver(t)
      PROVE  DInv' /\ F!Next
  <2>1. PICK i \in pending : sent' = Append(sent, i)
    BY <1>1 DEF Deliver
  <2>2. F!Put(i) /\ i \in Item
    BY <1>1, <2>1 DEF DInv, Ownership, Deliver, F!Put, TypeOK
  <2>3. QED
    BY <1>1, <2>2, DeliverDInv DEF F!Next
<1>2. ASSUME NEW t \in Conn, DeliverSignal(t)
      PROVE  DInv' /\ UNCHANGED <<sent, received>>
  BY <1>2, SignalDInv DEF DeliverSignal
<1>3. CASE Receive
  BY <1>3, ReceiveDInv DEF F!Next
<1>4. CASE ReceiveNothing \/ WokenForNothing
  BY <1>4, SleepDInv DEF ReceiveNothing, WokenForNothing
<1>5. CASE Destroy
  BY <1>5, DestroyDInv DEF Destroy
<1>6. CASE UNCHANGED dataVars
  <2>1. UNCHANGED <<first, last, next, prev, failed, held, pc, target,
                    pending, destroyed, sent, received>>
    BY <1>6 DEF dataVars, queueVars
  <2>2. DInv'
    BY <2>1, MoveDInv DEF DInv, TypeOK, QueueTypeOK
  <2>3. QED
    BY <2>1, <2>2
<1>7. QED
  BY <1>1, <1>2, <1>3, <1>4, <1>5, <1>6
     DEF DataNext, ConnStep, ProcessorStep

(* The invariant of the data queue, for any threads and items.              *)
THEOREM DataInvariant == DataSpec => []DInv
<1>1. DInv /\ [DataNext]_dataVars => DInv'
  BY StepDInv
<1>2. QED
  BY InitDInv, <1>1, PTL DEF DataSpec

(* Every variable of the data queue keeps its type.                         *)
THEOREM DataTypeOK == DataSpec => []TypeOK
<1>1. DInv => TypeOK
  BY DEF DInv
<1>2. QED
  BY DataInvariant, <1>1, PTL

(* The pointers that queue_list_append and queue_list_shift leave behind    *)
(* spell out exactly the items sent and not yet received, in that order.    *)
THEOREM DataLinked == DataSpec => []Linked
<1>1. DInv => Linked
  BY DEF DInv
<1>2. QED
  BY DataInvariant, <1>1, PTL

(* Neither list operation nor the process thread follows a pointer to an    *)
(* item that queue_item_destroy has freed.                                  *)
THEOREM DataNoUseAfterFree == DataSpec => []NoUseAfterFree
<1>1. DInv => NoUseAfterFree
  <2> SUFFICES ASSUME DInv PROVE NoUseAfterFree
    OBVIOUS
  <2> USE ProcessorQueue
  <2>1. /\ Len(sent) \in Nat
        /\ Len(received) \in Nat
        /\ Len(received) <= Len(sent)
        /\ \A n \in 1 .. Len(sent) : sent[n] \in Item
        /\ \A m, n \in 1 .. Len(sent) : sent[m] = sent[n] => m = n
        /\ \A n \in 1 .. Len(received) : received[n] = sent[n]
    BY DEF DInv, TypeOK, Linked, Ownership
  <2>2. \A i \in destroyed : \E n \in 1 .. Len(received) : i = sent[n]
    BY <2>1 DEF DInv, Ownership
  <2>3. NULL \notin destroyed
    BY DEF DInv, TypeOK
  <2>4. \A n \in OnList : sent[n] \notin destroyed
    BY <2>1, <2>2 DEF OnList
  <2>5. held[Processor] \notin destroyed
    <3>1. CASE pc[Processor] = "process"
      <4>1. /\ held[Processor] = received[Len(received)]
            /\ Len(received) > 0
            /\ destroyed = {received[n] : n \in 1 .. Len(received) - 1}
        BY <3>1 DEF DInv, Ownership
      <4>2. QED
        BY <4>1, <2>1
    <3>2. CASE pc[Processor] # "process"
      BY <3>2, <2>3 DEF DInv, Ownership
    <3>3. QED
      BY <3>1, <3>2
  <2>6. first[DataQ] \notin destroyed /\ last[DataQ] \notin destroyed
    BY <2>1, <2>3, <2>4 DEF DInv, Linked, OnList
  <2>7. \A n \in OnList : next[sent[n]] \notin destroyed
    <3> TAKE n \in OnList
    <3>1. next[sent[n]] = IF n = Len(sent) THEN NULL ELSE sent[n + 1]
      BY DEF DInv, Linked
    <3>2. n # Len(sent) => n + 1 \in OnList
      BY <2>1 DEF OnList
    <3>3. QED
      BY <3>1, <3>2, <2>3, <2>4
  <2>8. QED
    BY <2>5, <2>6, <2>7 DEF NoUseAfterFree
<1>2. QED
  BY DataInvariant, <1>1, PTL

(* The linked list under its mutex implements the abstract FIFO queue: the  *)
(* process thread gets every item once, in the order in which the           *)
(* connection threads appended them.                                        *)
THEOREM DataImplementsFifo == DataSpec => ImplementsFifo
<1>1. DataInit => F!Init
  BY DEF DataInit, F!Init
<1>2. DInv /\ [DataNext]_dataVars => [F!Next]_<<sent, received>>
  BY StepDInv
<1>3. QED
  BY <1>1, <1>2, DataInvariant, PTL
     DEF DataSpec, ImplementsFifo, F!Spec, F!fifoVars

=============================================================================
