------------------------------ MODULE QueueList ------------------------------
(***************************************************************************)
(* The work queues of src/queue.c: intrusive doubly linked lists, each      *)
(* under its own mutex, each with one condition variable on which the       *)
(* threads that read it sleep.                                              *)
(*                                                                          *)
(* A critical section of mtx_queue is one action; everything it touches is  *)
(* only touched under that mutex, or belongs to the thread that holds the   *)
(* item.  What lies between two critical sections is a state of its own:    *)
(* a thread that has found the list empty and let go of mtx_queue, but is   *)
(* not yet waiting, is "unlocked".                                          *)
(*                                                                          *)
(* This module has no Init and no Next.  DataQueue and Download extend it   *)
(* and say which thread appends, prepends and shifts on which queue.        *)
(***************************************************************************)
EXTENDS Naturals, Sequences, FiniteSets

CONSTANTS
  Queue,     \* the queue_list_t objects
  Item,      \* the queue_item_t objects
  Server,    \* the server_t objects
  Thread,    \* all threads
  Reader,    \* the threads that call queue_list_shift
  Home,      \* the one queue each reader shifts from
  NULL

ASSUME QueueAssumption ==
  /\ Reader \subseteq Thread
  /\ Home \in [Reader -> Queue]
  /\ NULL \notin Item \cup Server \cup Queue

VARIABLES
  first, last,   \* queue_list_t.first and .last of each queue
  next, prev,    \* queue_item_t.next and .prev of each item
  failed,        \* queue_item_t.failed_servers; its length is num_failed_servers
  pc,            \* where each thread is
  held,          \* the item a thread has taken off a list and not passed on
  target         \* the queue whose cond_item a thread is about to signal

listVars == <<first, last, next, prev>>
queueVars == <<first, last, next, prev, failed, pc, held, target>>

\* The program points of queue_list_shift, append and prepend.
QueuePoint == {"shift", "unlocked", "asleep", "signal"}

QueueInit ==
  /\ first = [q \in Queue |-> NULL]
  /\ last = [q \in Queue |-> NULL]
  /\ next = [i \in Item |-> NULL]
  /\ prev = [i \in Item |-> NULL]
  /\ failed = [i \in Item |-> <<>>]
  /\ held = [t \in Thread |-> NULL]
  /\ target = [t \in Thread |-> NULL]

QueueTypeOK ==
  /\ first \in [Queue -> Item \cup {NULL}]
  /\ last \in [Queue -> Item \cup {NULL}]
  /\ next \in [Item -> Item \cup {NULL}]
  /\ prev \in [Item -> Item \cup {NULL}]
  /\ failed \in [Item -> Seq(Server \cup {NULL})]
  /\ held \in [Thread -> Item \cup {NULL}]
  /\ target \in [Thread -> Queue \cup {NULL}]

-----------------------------------------------------------------------------
(* Thread t moves to program point p.                                       *)
Goto(t, p) == pc' = [pc EXCEPT ![t] = p]

(* A wrong prepend: the item does not lead to the rest of the list.         *)
LinkFirstAlone(t, q, i) ==
  /\ first' = [first EXCEPT ![q] = i]
  /\ target' = [target EXCEPT ![t] = q]
  /\ Goto(t, "signal")
  /\ UNCHANGED <<next, last, prev>>

(* The list surgery of queue_list_prepend: neither `last' nor the `prev' of *)
(* the old first item is touched.                                           *)
LinkFirst(t, q, i) ==
  /\ next' = [next EXCEPT ![i] = first[q]]
  /\ first' = [first EXCEPT ![q] = i]
  /\ target' = [target EXCEPT ![t] = q]
  /\ Goto(t, "signal")
  /\ UNCHANGED <<last, prev>>

(* A wrong append: it leaves out last->next = queue_item.                   *)
LinkLastWithoutNext(t, q, i) ==
  /\ first' = [first EXCEPT ![q] = IF @ = NULL THEN i ELSE @]
  /\ prev' = [prev EXCEPT ![i] = last[q]]
  /\ last' = [last EXCEPT ![q] = i]
  /\ target' = [target EXCEPT ![t] = q]
  /\ Goto(t, "signal")
  /\ UNCHANGED next

(* The list surgery of queue_list_append, and the step to its signal.       *)
LinkLast(t, q, i) ==
  /\ first' = [first EXCEPT ![q] = IF @ = NULL THEN i ELSE @]
  /\ next' = [j \in Item |-> IF j = last[q] THEN i ELSE next[j]]
  /\ prev' = [prev EXCEPT ![i] = last[q]]
  /\ last' = [last EXCEPT ![q] = i]
  /\ target' = [target EXCEPT ![t] = q]
  /\ Goto(t, "signal")

Sleepers(q) == {u \in Reader : pc[u] = "asleep" /\ Home[u] = q}

(* A wrong append or prepend: it signals nobody.                            *)
SignalNobody(t, p) ==
  /\ pc[t] = "signal"
  /\ Goto(t, p)
  /\ target' = [target EXCEPT ![t] = NULL]
  /\ UNCHANGED <<listVars, failed, held>>

(* pthread_cond_signal at the end of append and prepend; t goes on at p.    *)
(* With nobody waiting the signal is lost.                                  *)
Signal(t, p) ==
  /\ pc[t] = "signal"
  /\ IF Sleepers(target[t]) = {}
     THEN Goto(t, p)
     ELSE \E u \in Sleepers(target[t]) :
            pc' = [pc EXCEPT ![t] = p, ![u] = "shift"]
  /\ target' = [target EXCEPT ![t] = NULL]
  /\ UNCHANGED <<listVars, failed, held>>

-----------------------------------------------------------------------------
IsFailed(i, s) == \E n \in DOMAIN failed[i] : failed[i][n] = s

(* The item queue_list_shift settles on: the first one, or, for a server,   *)
(* the first one along `next' that has not failed on it (NULL when the      *)
(* chain ends).                                                             *)
Candidate(q, s) ==
  LET cursor[n \in 0 .. Cardinality(Item)] ==
        IF n = 0 THEN first[q]
        ELSE IF cursor[n-1] = NULL \/ ~ IsFailed(cursor[n-1], s)
             THEN cursor[n-1]
             ELSE next[cursor[n-1]]
  IN IF s = NULL \/ ~ IsFailed(first[q], s)
     THEN first[q]
     ELSE cursor[Cardinality(Item)]

(* queue_list_shift finds the list empty and unlocks mtx_queue.             *)
ShiftEmpty(t) ==
  /\ pc[t] = "shift"
  /\ first[Home[t]] = NULL
  /\ Goto(t, "unlocked")
  /\ UNCHANGED <<listVars, failed, held, target>>

(* queue_list_sleep: the thread starts waiting on cond_item.                *)
Sleep(t) ==
  /\ pc[t] = "unlocked"
  /\ Goto(t, "asleep")
  /\ UNCHANGED <<listVars, failed, held, target>>

(* pthread_cond_wait may return without a signal.                           *)
SpuriousWake(t) ==
  /\ pc[t] = "asleep"
  /\ Goto(t, "shift")
  /\ UNCHANGED <<listVars, failed, held, target>>

(* Wrong ways to take item i off queue q: the front of the list stays, the  *)
(* end of the list stays, or the item keeps its `next'.                     *)
FirstStays(q, i) == first
LastStays(q, i) == last
NextStays(i, s) == [j \in Item |-> IF s # NULL /\ j = prev[i] THEN next[i] ELSE next[j]]

(* The pointers after queue_list_shift has taken item i off queue q for     *)
(* server s (NULL: the neighbours' pointers are left alone).                *)
FirstAfter(q, i) == [first EXCEPT ![q] = next[i]]
LastAfter(q, i) == [last EXCEPT ![q] = IF @ = i THEN NULL ELSE @]
NextAfter(i, s) ==
  [j \in Item |-> IF j = i THEN NULL
                  ELSE IF s # NULL /\ j = prev[i] THEN next[i] ELSE next[j]]
PrevAfter(i, s) ==
  [j \in Item |-> IF j = i THEN NULL
                  ELSE IF s # NULL /\ j = next[i] THEN prev[i] ELSE prev[j]]

(* queue_list_shift returns an item to thread t, which goes on at p.        *)
Shift(t, s, p) ==
  LET q == Home[t]
      i == Candidate(q, s)
  IN /\ pc[t] = "shift"
     /\ first[q] # NULL
     /\ first' = FirstAfter(q, i)
     /\ last' = LastAfter(q, i)
     /\ next' = NextAfter(i, s)
     /\ prev' = PrevAfter(i, s)
     /\ held' = [held EXCEPT ![t] = i]
     /\ Goto(t, p)
     /\ UNCHANGED <<failed, target>>

=============================================================================
