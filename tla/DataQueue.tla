------------------------------ MODULE DataQueue ------------------------------
(***************************************************************************)
(* The data queue of the fetcher: connection threads append the items they  *)
(* have retrieved (nttp_process_queue), and the one process thread shifts   *)
(* them off and destroys them (process_data_queue).                         *)
(*                                                                          *)
(* `sent' and `received' are history variables: the items in the order in   *)
(* which append linked them and shift returned them.                        *)
(***************************************************************************)
EXTENDS QueueList

CONSTANTS DataQ, Processor

ASSUME DataQueueAssumption ==
  /\ Queue = {DataQ}
  /\ Reader = {Processor}

VARIABLES
  pending,      \* items still in the hands of the connection threads
  destroyed,    \* items given to queue_item_destroy
  sent, received

dataVars == <<queueVars, pending, destroyed, sent, received>>

Conn == Thread \ {Processor}

DataInit ==
  /\ QueueInit
  /\ pc = [t \in Thread |-> IF t = Processor THEN "shift" ELSE "retrieve"]
  /\ pending = Item
  /\ destroyed = {}
  /\ sent = <<>>
  /\ received = <<>>

(* A connection thread has retrieved item i and appends it.                 *)
Deliver(t) ==
  /\ pc[t] = "retrieve"
  /\ \E i \in pending :
       /\ LinkLast(t, DataQ, i)
       /\ pending' = pending \ {i}
       /\ sent' = Append(sent, i)
  /\ UNCHANGED <<failed, held, destroyed, received>>

DeliverSignal(t) ==
  /\ Signal(t, "retrieve")
  /\ UNCHANGED <<pending, destroyed, sent, received>>

(* The process thread's call of queue_list_shift(queue, NULL).              *)
Receive ==
  /\ Shift(Processor, NULL, "process")
  /\ received' = Append(received, held'[Processor])
  /\ UNCHANGED <<pending, destroyed, sent>>

ReceiveNothing ==
  /\ \/ ShiftEmpty(Processor)
     \/ Sleep(Processor)
  /\ UNCHANGED <<pending, destroyed, sent, received>>

WokenForNothing ==
  /\ SpuriousWake(Processor)
  /\ UNCHANGED <<pending, destroyed, sent, received>>

(* A wrong process thread: it frees what it holds without waiting for it.   *)
DestroyEarly ==
  /\ destroyed' = destroyed \cup {held[Processor]}
  /\ held' = [held EXCEPT ![Processor] = NULL]
  /\ Goto(Processor, "shift")
  /\ UNCHANGED <<listVars, failed, target, pending, sent, received>>

(* The process thread is done with the item and frees it.                   *)
Destroy ==
  /\ pc[Processor] = "process"
  /\ destroyed' = destroyed \cup {held[Processor]}
  /\ held' = [held EXCEPT ![Processor] = NULL]
  /\ Goto(Processor, "shift")
  /\ UNCHANGED <<listVars, failed, target, pending, sent, received>>

ConnStep(t) == Deliver(t) \/ DeliverSignal(t)
ProcessorStep == Receive \/ ReceiveNothing \/ Destroy

DataNext ==
  \/ \E t \in Conn : ConnStep(t)
  \/ ProcessorStep
  \/ WokenForNothing

DataSpec == DataInit /\ [][DataNext]_dataVars

(* Every thread keeps being scheduled; nothing promises a spurious wakeup.  *)
FairDataSpec ==
  /\ DataSpec
  /\ \A t \in Conn : WF_dataVars(ConnStep(t))
  /\ WF_dataVars(ProcessorStep)

-----------------------------------------------------------------------------
TypeOK ==
  /\ QueueTypeOK
  /\ pc \in [Thread -> QueuePoint \cup {"retrieve", "process"}]
  /\ pending \subseteq Item
  /\ destroyed \subseteq Item
  /\ sent \in Seq(Item)
  /\ received \in Seq(Item)

(* The positions in `sent' of the items that are on the list.               *)
OnList == Len(received) + 1 .. Len(sent)

(* The pointers spell out exactly the items sent and not yet received, in   *)
(* that order: `first' is the oldest, `next' leads from each to its         *)
(* successor and ends in NULL, and `last' is the newest.                    *)
Linked ==
  /\ Len(received) <= Len(sent)
  /\ first[DataQ] = (IF OnList = {} THEN NULL ELSE sent[Len(received) + 1])
  /\ last[DataQ] = (IF OnList = {} THEN NULL ELSE sent[Len(sent)])
  /\ \A n \in OnList :
       next[sent[n]] = IF n = Len(sent) THEN NULL ELSE sent[n + 1]

(* No pointer that append, shift or the process thread follows leads to an  *)
(* item that queue_item_destroy has freed, and no item is freed twice.      *)
(* (`prev' does lead to freed items: shift for the process thread leaves    *)
(* the new first item pointing back at the one it removed.)                 *)
NoUseAfterFree ==
  /\ held[Processor] \notin destroyed
  /\ first[DataQ] \notin destroyed
  /\ last[DataQ] \notin destroyed
  /\ \A n \in OnList : next[sent[n]] \notin destroyed

(* What is true of the histories and of the items at rest; together with    *)
(* Linked this is inductive.  An item is sent once, and until then nothing  *)
(* points to or from it; what has been received is a prefix of what has     *)
(* been sent; and everything received has been freed, but for the item the  *)
(* process thread is working on.                                            *)
Ownership ==
  /\ \A m, n \in 1 .. Len(sent) : sent[m] = sent[n] => m = n
  /\ \A n \in 1 .. Len(sent) : sent[n] \notin pending
  /\ \A i \in pending : next[i] = NULL
  /\ \A n \in 1 .. Len(received) : received[n] = sent[n]
  /\ IF pc[Processor] = "process"
     THEN /\ Len(received) > 0
          /\ held[Processor] = received[Len(received)]
          /\ destroyed = {received[n] : n \in 1 .. Len(received) - 1}
     ELSE /\ held[Processor] = NULL
          /\ destroyed = {received[n] : n \in 1 .. Len(received)}

(* The data queue is a FIFO: the pointer surgery of append and shift        *)
(* implements the abstract queue on the two histories.                      *)
F == INSTANCE Fifo WITH Item <- Item, sent <- sent, received <- received
ImplementsFifo == F!Spec

(* An item that reaches the list while the process thread is already        *)
(* asleep is followed by a wakeup, even if an earlier signal was missed: a  *)
(* sleeper facing a non-empty list is woken as soon as any connection       *)
(* thread has another item to append.                                       *)
MissedSignalRepaired ==
  (pc[Processor] = "asleep" /\ first[DataQ] # NULL /\ pending # {} /\ Conn # {})
     ~> (pc[Processor] # "asleep")

(* "This function blocks if there is no data" (process.c, at the call of    *)
(* queue_list_shift): while there is data, the process thread does  *)
(* not stay blocked.                                                        *)
BlocksOnlyWithoutData ==
  (first[DataQ] # NULL) ~> (pc[Processor] # "asleep")

=============================================================================
