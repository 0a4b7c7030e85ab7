---------------------------- MODULE DownloadProofs ----------------------------
(***************************************************************************)
(* Proofs about Download for any number of servers, of any priorities, of   *)
(* connection threads, posts and segments.                                  *)
(*                                                                          *)
(* The invariant has to say which items are on which list, and the pointers *)
(* do not tell (an item that append linked behind a stale `last' points     *)
(* into a list on which it is not).  So it says that there is a ledger `on' *)
(* that agrees with the pointers: `first' of a list leads to an item on it, *)
(* `next' from one to another, never back to the first.  An item that can   *)
(* no longer be reached is struck off the ledger and is Gone; it may be     *)
(* what `last' or a `prev' points to, but is never taken again.             *)
(*                                                                          *)
(* The last part follows the single segment: where its item is, and how     *)
(* often and where it is requested.  There every step is first told apart   *)
(* by what it does to the lists (ListStep); then the pointers are shown to  *)
(* run through exactly the items the ledger has.                            *)
(***************************************************************************)
EXTENDS Download, Induction, FiniteSetTheorems, TLAPS

ClientPoint == {"idle", "append", "signal"}
ConnPoint == {"connect", "exit", "shift", "unlocked", "asleep", "retrieve", "signal"}
ProcessorPoint == {"shift", "unlocked", "asleep", "decode", "check"}

(* Where each thread can be, and when it holds an item.                     *)
ThreadInv ==
  /\ pc[Client] \in ClientPoint
  /\ \A t \in Conn : pc[t] \in ConnPoint
  /\ pc[Processor] \in ProcessorPoint
  /\ pc[Client] = "append" => appended + 1 \in Item
  /\ pc[Client] # "idle" \/ appended > 0 => file \in NzbFile
  /\ held[Client] = NULL
  /\ \A t \in Conn : held[t] # NULL <=> pc[t] = "retrieve"
  /\ held[Processor] # NULL <=> pc[Processor] \in {"decode", "check"}

(* The segment of the item a thread holds.                                  *)
WorkInv ==
  /\ \A t \in Conn : pc[t] = "retrieve" =>
       held[t] \notin data /\ status[held[t]] = "NEW"
  /\ pc[Processor] = "decode" =>
       held[Processor] \in data /\ status[held[Processor]] = "NEW"
  /\ pc[Processor] = "check" => status[held[Processor]] = "COMPLETE"

(* Only NULL is ever recorded as a server that failed.                      *)
FailedInv == \A i \in Item : \A n \in DOMAIN failed[i] : failed[i][n] = NULL

(* A post is reported once, after its last segment.                         *)
ReportInv ==
  /\ \A m, n \in 1 .. Len(reported) : reported[m] = reported[n] => m = n
  /\ \A n \in 1 .. Len(reported) : AllTried(reported[n])
  /\ pc[Processor] = "check" =>
       \A n \in 1 .. Len(reported) : reported[n] # PostOf[held[Processor]]

Gone(on, i) ==
  /\ i \in Item
  /\ i <= appended
  /\ on[i] = NULL
  /\ i \notin destroyed
  /\ \A t \in Thread : held[t] # i

\* An item in the hands of a thread is on no list and in no other hands.
HeldInv(on) ==
  /\ \A t \in Thread : held[t] # NULL =>
       /\ held[t] <= appended
       /\ on[held[t]] = NULL
       /\ next[held[t]] = NULL
       /\ prev[held[t]] = NULL
       /\ held[t] \notin destroyed
  /\ \A t, u \in Thread : held[t] = held[u] /\ held[t] # NULL => t = u

FreshInv(on) ==
  \A i \in Item : i > appended =>
    /\ on[i] = NULL
    /\ next[i] = NULL
    /\ prev[i] = NULL
    /\ status[i] = "NEW"
    /\ i \notin data
    /\ i \notin destroyed

ListedInv(on) ==
  \A i \in Item : on[i] # NULL =>
    /\ i <= appended
    /\ status[i] = "NEW"
    /\ i \notin destroyed
    /\ i \in data <=> on[i] = DataQ

NextInv(on) ==
  /\ \A q \in Queue : first[q] # NULL => on[first[q]] = q
  /\ \A q \in Queue : first[q] = NULL => \A i \in Item : on[i] # q
  /\ \A i \in Item : on[i] # NULL /\ next[i] # NULL =>
       on[next[i]] = on[i] /\ next[i] # first[on[i]]
  /\ \A i, j \in Item : on[i] # NULL /\ next[i] # NULL /\ on[j] = on[i] =>
       (next[i] = next[j] => i = j)

EndInv(on) ==
  \A q \in Queue : last[q] # NULL =>
    Gone(on, last[q]) \/ (on[last[q]] = q /\ next[last[q]] = NULL)

PrevInv(on) ==
  \A i \in Item : on[i] # NULL /\ on[i] # DataQ /\ prev[i] # NULL =>
    Gone(on, prev[i]) \/ (on[prev[i]] = on[i] /\ next[prev[i]] = i)

Ledger(on) ==
  /\ HeldInv(on)
  /\ FreshInv(on)
  /\ ListedInv(on)
  /\ NextInv(on)
  /\ EndInv(on)
  /\ PrevInv(on)

\* Where a thread can be at all.
Point == QueuePoint \cup ClientPoint \cup ConnPoint \cup ProcessorPoint

DownloadInv ==
  /\ TypeOK
  /\ ThreadInv
  /\ WorkInv
  /\ FailedInv
  /\ ReportInv
  /\ \E on \in [Item -> Queue \cup {NULL}] : Ledger(on)

-----------------------------------------------------------------------------
(* What the assumptions say of the threads, the queues and the items.       *)
LEMMA Threads ==
  /\ Client \in Thread
  /\ Processor \in Thread
  /\ Client # Processor
  /\ Client \notin Conn
  /\ Processor \notin Conn
  /\ Conn \subseteq Thread
  /\ Reader = Conn \cup {Processor}
  /\ Thread = Conn \cup {Client, Processor}
BY DownloadAssumption DEF Conn

LEMMA Queues ==
  /\ Level \subseteq Queue
  /\ 0 \in Level
  /\ DataQ \in Queue
  /\ DataQ \notin Level
  /\ Home[Processor] = DataQ
  /\ \A t \in Conn : Home[t] \in Level /\ ServerOf[t] \in Server
  /\ \A n \in 1 .. Len(ServerList) : Priority[ServerList[n]] \in Level
  /\ NULL \notin Queue
  /\ NULL \notin Server
<1>1. /\ Queue = Level \cup {DataQ}
      /\ DataQ \notin Level
      /\ 0 \in Level
      /\ NULL \notin Queue
      /\ NULL \notin Server
  BY DownloadAssumption, QueueAssumption
<1>2. \A s \in Server : Priority[s] \in Level
  BY DEF Level
<1>3. \A t \in Reader : Home[t] = IF t = Processor THEN DataQ ELSE Priority[ServerOf[t]]
  BY DownloadAssumption
<1>4. \A t \in Conn : ServerOf[t] \in Server
  BY DownloadAssumption
<1>5. \A n \in 1 .. Len(ServerList) : ServerList[n] \in Server
  BY DownloadAssumption
<1>6. QED
  BY <1>1, <1>2, <1>3, <1>4, <1>5, Threads

LEMMA Items ==
  /\ Cardinality(Item) \in Nat
  /\ Item \subseteq Nat
  /\ \A n \in Nat : n \in Item <=> 1 <= n /\ n <= Cardinality(Item)
  /\ NULL \notin Item
  /\ PostOf \in [Item -> Post]
  /\ FileOf \in [Post -> NzbFile]
<1>1. Cardinality(Item) \in Nat /\ Item = 1 .. Cardinality(Item)
  BY DownloadAssumption
<1>2. QED
  BY <1>1, DownloadAssumption, QueueAssumption

(* What is recorded as failed is no server, so every reader gets the first  *)
(* item of its queue.                                                       *)
LEMMA CandidateIsFirst ==
  ASSUME FailedInv, NEW q \in Queue, NEW s \in Server \cup {NULL},
         first[q] \in Item
  PROVE  Candidate(q, s) = first[q]
<1>1. s # NULL => ~ IsFailed(first[q], s)
  BY Queues DEF FailedInv, IsFailed
<1>2. QED
  BY <1>1 DEF Candidate

-----------------------------------------------------------------------------
(* The list operations keep the ledger.                                     *)

(* The ledger after queue_list_shift on queue q: the first item is struck   *)
(* off, and with the last that can be reached the rest of the queue.        *)
AfterShift(on, q) ==
  [j \in Item |-> IF j = first[q] \/ (next[first[q]] = NULL /\ on[j] = q)
                  THEN NULL ELSE on[j]]

(* After queue_list_prepend.                                                *)
AfterPrepend(on, i, q) == [on EXCEPT ![i] = q]

(* After queue_list_append: the item is entered, unless `last' is stale.    *)
AfterAppend(on, i, q) ==
  [j \in Item |-> IF j = i /\ (first[q] = NULL \/ (last[q] # NULL /\ on[last[q]] = q))
                  THEN q ELSE on[j]]

(* `prev' of the first item in the queue of a priority names no item of the *)
(* list.                                                                    *)
LEMMA FrontPrev ==
  ASSUME TypeOK, NEW on \in [Item -> Queue \cup {NULL}], Ledger(on),
         NEW q \in Queue, q # DataQ, first[q] \in Item, prev[first[q]] # NULL
  PROVE  Gone(on, prev[first[q]])
<1> DEFINE i == first[q]
<1>1. on[i] = q /\ q # NULL /\ i # NULL
  BY Queues, Items DEF Ledger, NextInv
<1>2. prev[i] \in Item
  BY DEF TypeOK, QueueTypeOK
<1>3. Gone(on, prev[i]) \/ (on[prev[i]] = on[i] /\ next[prev[i]] = i)
  BY <1>1, <1>2 DEF Ledger, PrevInv
<1>4. ASSUME on[prev[i]] = on[i], next[prev[i]] = i PROVE FALSE
  <2>1. next[prev[i]] # first[on[prev[i]]]
    BY <1>1, <1>2, <1>4 DEF Ledger, NextInv
  <2>2. QED
    BY <2>1, <1>1, <1>4
<1>5. QED
  BY <1>3, <1>4

(* queue_list_shift: the item goes from the ledger into the hands of t.     *)
LEMMA ShiftLedger ==
  ASSUME TypeOK, FailedInv,
         NEW on \in [Item -> Queue \cup {NULL}], Ledger(on),
         NEW t \in Reader, held[t] = NULL,
         NEW s \in Server \cup {NULL}, (s = NULL) <=> (Home[t] = DataQ),
         NEW p, Shift(t, s, p),
         UNCHANGED <<appended, status, data, destroyed>>
  PROVE  /\ held' = [held EXCEPT ![t] = first[Home[t]]]
         /\ first[Home[t]] \in Item
         /\ on[first[Home[t]]] = Home[t]
         /\ \E on1 \in [Item -> Queue \cup {NULL}] :
              on1 = AfterShift(on, Home[t]) /\ Ledger(on1)'
<1> DEFINE q == Home[t]
           i == first[q]
           n == next[i]
<1>1. t \in Thread /\ q \in Queue /\ i \in Item
  BY Threads, Queues DEF Shift, TypeOK, QueueTypeOK
<1>2. /\ first' = [first EXCEPT ![q] = n]
      /\ last' = [last EXCEPT ![q] = IF @ = i THEN NULL ELSE @]
      /\ next' = NextAfter(i, s)
      /\ prev' = PrevAfter(i, s)
      /\ held' = [held EXCEPT ![t] = i]
  BY <1>1, CandidateIsFirst DEF Shift, FirstAfter, LastAfter
<1>3. on[i] = q /\ (n # NULL => n \in Item /\ on[n] = q /\ n # i)
  <2>1. i # NULL /\ q # NULL /\ n \in Item \cup {NULL}
    BY <1>1, Queues, Items DEF TypeOK, QueueTypeOK
  <2>2. on[i] = q
    BY <1>1, <2>1 DEF Ledger, NextInv
  <2>3. n # NULL => on[n] = on[i] /\ n # first[on[i]]
    BY <1>1, <2>1, <2>2 DEF Ledger, NextInv
  <2>4. QED
    BY <2>1, <2>2, <2>3
<1>4. s # NULL /\ prev[i] # NULL => Gone(on, prev[i])
  BY <1>1, FrontPrev
<1>5. PICK on1 \in [Item -> Queue \cup {NULL}] :
        /\ on1 = AfterShift(on, q)
        /\ \A j \in Item : on1[j] = IF j = i \/ (n = NULL /\ on[j] = q)
                                   THEN NULL ELSE on[j]
  <2>1. AfterShift(on, q) \in [Item -> Queue \cup {NULL}]
    BY DEF AfterShift
  <2>2. QED
    BY <2>1 DEF AfterShift
<1>6. \A u \in Thread : held'[u] = IF u = t THEN i ELSE held[u]
  BY <1>1, <1>2 DEF TypeOK, QueueTypeOK
<1>7. \A r \in Queue : /\ first'[r] = (IF r = q THEN n ELSE first[r])
                       /\ last'[r] = (IF r = q /\ last[q] = i THEN NULL ELSE last[r])
  BY <1>1, <1>2 DEF TypeOK, QueueTypeOK
<1>8. \A j \in Item : on[j] # NULL /\ j # i => next'[j] = next[j]
  BY <1>2, <1>4, Items DEF NextAfter, Gone
<1>9. \A j \in Item : ~ Gone(on, j) /\ j # i => next'[j] = next[j]
  BY <1>2, <1>4, Items DEF NextAfter
<1>10. \A j \in Item : prev'[j] = IF j = i THEN NULL
                                  ELSE IF s # NULL /\ j = n THEN prev[i] ELSE prev[j]
  BY <1>2 DEF PrevAfter
<1>11. next'[i] = NULL
  BY <1>1, <1>2 DEF NextAfter
<1>12. \A j \in Item : Gone(on, j) => Gone(on1, j)' /\ j # i
  BY <1>1, <1>3, <1>5, <1>6, Queues DEF Gone
<1>13. HeldInv(on1)'
  <2>1. \A u \in Thread : held[u] # i /\ (held[u] # NULL => held[u] \in Item)
    BY <1>1, <1>3, Queues, Items DEF Ledger, HeldInv, TypeOK, QueueTypeOK
  <2>2. i <= appended /\ i \notin destroyed
    BY <1>1, <1>3, Queues DEF Ledger, ListedInv
  <2>3. \A u \in Thread : held'[u] # NULL =>
          /\ held'[u] <= appended
          /\ on1[held'[u]] = NULL
          /\ next'[held'[u]] = NULL
          /\ prev'[held'[u]] = NULL
          /\ held'[u] \notin destroyed
    <3> SUFFICES ASSUME NEW u \in Thread, held'[u] # NULL
                 PROVE  /\ held'[u] <= appended
                        /\ on1[held'[u]] = NULL
                        /\ next'[held'[u]] = NULL
                        /\ prev'[held'[u]] = NULL
                        /\ held'[u] \notin destroyed
      OBVIOUS
    <3>1. CASE u = t
      BY <3>1, <1>1, <1>5, <1>6, <1>10, <1>11, <2>2
    <3>2. CASE u # t
      <4>1. held'[u] = held[u] /\ held[u] \in Item /\ held[u] # i
        BY <3>2, <1>6, <2>1
      <4>2. /\ held[u] <= appended
            /\ on[held[u]] = NULL
            /\ next[held[u]] = NULL
            /\ prev[held[u]] = NULL
            /\ held[u] \notin destroyed
        BY <4>1, Items DEF Ledger, HeldInv
      <4>3. ~ Gone(on, held[u])
        BY DEF Gone
      <4>4. held[u] # n
        BY <4>1, <4>2, <1>1, <1>3, Items, Queues
      <4>5. QED
        BY <4>1, <4>2, <4>3, <4>4, <1>1, <1>5, <1>9, <1>10, Queues
    <3>3. QED
      BY <3>1, <3>2
  <2>4. \A u, v \in Thread : held'[u] = held'[v] /\ held'[u] # NULL => u = v
    BY <1>6, <2>1 DEF Ledger, HeldInv
  <2>5. QED
    BY <2>3, <2>4 DEF HeldInv
<1>14. FreshInv(on1)'
  <2> SUFFICES ASSUME NEW j \in Item, j > appended
               PROVE  /\ on1[j] = NULL
                      /\ next'[j] = NULL
                      /\ prev'[j] = NULL
                      /\ status[j] = "NEW"
                      /\ j \notin data
                      /\ j \notin destroyed
    BY DEF FreshInv
  <2>1. /\ on[j] = NULL
        /\ next[j] = NULL
        /\ prev[j] = NULL
        /\ status[j] = "NEW"
        /\ j \notin data
        /\ j \notin destroyed
    BY DEF Ledger, FreshInv
  <2>2. ~ Gone(on, j)
    BY Items DEF Gone, TypeOK
  <2>3. j # i /\ j # n
    BY <2>1, <1>1, <1>3, Queues, Items
  <2>4. QED
    BY <2>1, <2>2, <2>3, <1>1, <1>5, <1>9, <1>10, Queues
<1>15. ListedInv(on1)'
  BY <1>5 DEF ListedInv, Ledger
<1>16. NextInv(on1)'
  <2>1. \A r \in Queue : first'[r] # NULL => on1[first'[r]] = r
    <3> SUFFICES ASSUME NEW r \in Queue, first'[r] # NULL PROVE on1[first'[r]] = r
      OBVIOUS
    <3>1. CASE r = q
      BY <3>1, <1>1, <1>3, <1>5, <1>7
    <3>2. CASE r # q
      <4>1. first'[r] = first[r] /\ first[r] \in Item /\ on[first[r]] = r
        BY <3>2, <1>7 DEF Ledger, NextInv, TypeOK, QueueTypeOK
      <4>2. QED
        BY <3>2, <4>1, <1>3, <1>5
    <3>3. QED
      BY <3>1, <3>2
  <2>2. \A r \in Queue : first'[r] = NULL => \A j \in Item : on1[j] # r
    BY <1>1, <1>3, <1>5, <1>7, Queues DEF Ledger, NextInv
  <2>3. \A j \in Item : on1[j] # NULL /\ next'[j] # NULL =>
          on1[next'[j]] = on1[j] /\ next'[j] # first'[on1[j]]
    <3> SUFFICES ASSUME NEW j \in Item, on1[j] # NULL, next'[j] # NULL
                 PROVE  on1[next'[j]] = on1[j] /\ next'[j] # first'[on1[j]]
      OBVIOUS
    <3>1. /\ j # i
          /\ on1[j] = on[j]
          /\ on[j] \in Queue
          /\ next'[j] = next[j]
          /\ next[j] \in Item
          /\ on[j] = q => n # NULL
      BY <1>5, <1>8 DEF TypeOK, QueueTypeOK
    <3>2. on[next[j]] = on[j] /\ next[j] # first[on[j]]
      BY <3>1 DEF Ledger, NextInv
    <3>3. CASE on[j] = q
      <4>1. next[j] # n
        BY <3>1, <3>2, <3>3, <1>1, <1>3, Queues DEF Ledger, NextInv
      <4>2. QED
        BY <3>1, <3>2, <3>3, <4>1, <1>5, <1>7
    <3>4. CASE on[j] # q
      BY <3>1, <3>2, <3>4, <1>1, <1>3, <1>5, <1>7
    <3>5. QED
      BY <3>3, <3>4
  <2>4. \A j, k \in Item : on1[j] # NULL /\ next'[j] # NULL /\ on1[k] = on1[j] =>
          (next'[j] = next'[k] => j = k)
    BY <1>5, <1>8 DEF Ledger, NextInv
  <2>5. QED
    BY <2>1, <2>2, <2>3, <2>4 DEF NextInv
<1>17. EndInv(on1)'
  <2> SUFFICES ASSUME NEW r \in Queue, last'[r] # NULL
               PROVE  \/ Gone(on1, last[r])'
                      \/ on1[last'[r]] = r /\ next'[last'[r]] = NULL
    BY DEF EndInv
  <2>1. last'[r] = last[r] /\ last[r] \in Item /\ (r = q => last[r] # i)
    BY <1>7 DEF TypeOK, QueueTypeOK
  <2>2. Gone(on, last[r]) \/ (on[last[r]] = r /\ next[last[r]] = NULL)
    BY <2>1 DEF Ledger, EndInv
  <2>3. CASE Gone(on, last[r])
    BY <2>1, <2>3, <1>12 DEF Gone
  <2>4. CASE on[last[r]] = r /\ next[last[r]] = NULL /\ ~ (r = q /\ n = NULL)
    <3>1. last[r] # i
      BY <2>1, <2>4, <1>3
    <3>2. QED
      BY <2>1, <2>4, <3>1, <1>5, <1>8, Queues
  <2>5. CASE on[last[r]] = r /\ next[last[r]] = NULL /\ r = q /\ n = NULL
    <3>1. on1[last[r]] = NULL
      BY <2>1, <2>5, <1>5
    <3>2. last[r] <= appended /\ last[r] \notin destroyed
      BY <2>1, <2>5, Queues DEF Ledger, ListedInv
    <3>3. \A u \in Thread : held'[u] # last[r]
      BY <2>1, <2>5, <1>6, Queues, Items DEF Ledger, HeldInv
    <3>4. QED
      BY <2>1, <3>1, <3>2, <3>3 DEF Gone
  <2>6. QED
    BY <2>2, <2>3, <2>4, <2>5
<1>18. PrevInv(on1)'
  <2> SUFFICES ASSUME NEW j \in Item, on1[j] # NULL, on1[j] # DataQ, prev'[j] # NULL
               PROVE  \/ Gone(on1, prev[j])'
                      \/ on1[prev'[j]] = on1[j] /\ next'[prev'[j]] = j
    BY DEF PrevInv
  <2>1. /\ j # i
        /\ on1[j] = on[j]
        /\ on[j] \in Queue
        /\ on[j] = q => n # NULL /\ s # NULL
    BY <1>5
  <2>2. CASE s # NULL /\ j = n
    <3>1. prev'[j] = prev[i] /\ prev[i] \in Item
      BY <2>1, <2>2, <1>1, <1>10 DEF TypeOK, QueueTypeOK
    <3>2. Gone(on, prev[i])
      BY <2>2, <3>1, <1>4
    <3>3. QED
      BY <3>1, <3>2, <1>12 DEF Gone
  <2>3. CASE ~ (s # NULL /\ j = n)
    <3>1. prev'[j] = prev[j] /\ prev[j] \in Item
      BY <2>1, <2>3, <1>10 DEF TypeOK, QueueTypeOK
    <3>2. Gone(on, prev[j]) \/ (on[prev[j]] = on[j] /\ next[prev[j]] = j)
      BY <2>1, <3>1 DEF Ledger, PrevInv
    <3>3. CASE Gone(on, prev[j])
      BY <3>1, <3>3, <1>12 DEF Gone
    <3>4. CASE on[prev[j]] = on[j] /\ next[prev[j]] = j
      <4>1. prev[j] # i
        BY <2>1, <2>3, <3>4, <1>3
      <4>2. on1[prev[j]] = on[j]
        BY <2>1, <3>1, <3>4, <4>1, <1>5
      <4>3. QED
        BY <2>1, <3>1, <3>4, <4>1, <4>2, <1>8, Queues
    <3>5. QED
      BY <3>2, <3>3, <3>4
  <2>4. QED
    BY <2>2, <2>3
<1>19. Ledger(on1)'
  BY <1>13, <1>14, <1>15, <1>16, <1>17, <1>18 DEF Ledger
<1>20. QED
  BY <1>1, <1>2, <1>3, <1>5, <1>19

(* queue_list_prepend: the item goes from the hands of t to the front of    *)
(* the queue of a priority.                                                 *)
LEMMA LinkFirstLedger ==
  ASSUME TypeOK, NEW on \in [Item -> Queue \cup {NULL}], Ledger(on),
         NEW t \in Conn, held[t] # NULL, status[held[t]] = "NEW",
         held[t] \notin data,
         NEW q \in Level, LinkFirst(t, q, held[t]),
         held' = [held EXCEPT ![t] = NULL],
         UNCHANGED <<appended, status, data, destroyed>>
  PROVE  \E on1 \in [Item -> Queue \cup {NULL}] :
           on1 = AfterPrepend(on, held[t], q) /\ Ledger(on1)'
<1> DEFINE i == held[t]
<1>1. t \in Thread /\ q \in Queue /\ q # DataQ /\ i \in Item
  BY Threads, Queues DEF TypeOK, QueueTypeOK
<1>2. /\ i <= appended
      /\ on[i] = NULL
      /\ next[i] = NULL
      /\ prev[i] = NULL
      /\ i \notin destroyed
  BY <1>1 DEF Ledger, HeldInv
<1>3. PICK on1 \in [Item -> Queue \cup {NULL}] :
        /\ on1 = AfterPrepend(on, i, q)
        /\ \A j \in Item : on1[j] = IF j = i THEN q ELSE on[j]
  <2>1. AfterPrepend(on, i, q) \in [Item -> Queue \cup {NULL}]
    BY <1>1 DEF AfterPrepend
  <2>2. QED
    BY <2>1 DEF AfterPrepend
<1>4. \A u \in Thread : held'[u] = IF u = t THEN NULL ELSE held[u]
  BY <1>1 DEF TypeOK, QueueTypeOK
<1>5. /\ \A r \in Queue : first'[r] = IF r = q THEN i ELSE first[r]
      /\ \A j \in Item : next'[j] = IF j = i THEN first[q] ELSE next[j]
      /\ prev' = prev
      /\ last' = last
  BY <1>1 DEF LinkFirst, TypeOK, QueueTypeOK
<1>6. \A j \in Item : Gone(on, j) => Gone(on1, j)' /\ j # i
  BY <1>1, <1>3, <1>4, Items DEF Gone
<1>7. HeldInv(on1)'
  <2>1. \A u \in Thread : u # t /\ held[u] # NULL => held[u] # i /\ held[u] \in Item
    BY <1>1 DEF Ledger, HeldInv, TypeOK, QueueTypeOK
  <2>2. QED
    BY <2>1, <1>1, <1>3, <1>4, <1>5 DEF Ledger, HeldInv
<1>8. FreshInv(on1)'
  <2>1. \A j \in Item : j > appended => j # i
    BY <1>1, <1>2, Items DEF TypeOK
  <2>2. QED
    BY <2>1, <1>3, <1>5 DEF Ledger, FreshInv
<1>9. ListedInv(on1)'
  BY <1>1, <1>2, <1>3 DEF Ledger, ListedInv
<1>10. NextInv(on1)'
  <2>1. \A r \in Queue : first'[r] # NULL => on1[first'[r]] = r
    <3> SUFFICES ASSUME NEW r \in Queue, first'[r] # NULL PROVE on1[first'[r]] = r
      OBVIOUS
    <3>1. CASE r = q
      BY <3>1, <1>1, <1>3, <1>5
    <3>2. CASE r # q
      <4>1. first'[r] = first[r] /\ first[r] \in Item /\ on[first[r]] = r
        BY <3>2, <1>5 DEF Ledger, NextInv, TypeOK, QueueTypeOK
      <4>2. QED
        BY <4>1, <1>2, <1>3, Queues
    <3>3. QED
      BY <3>1, <3>2
  <2>2. \A r \in Queue : first'[r] = NULL => \A j \in Item : on1[j] # r
    BY <1>1, <1>3, <1>5, Items DEF Ledger, NextInv
  <2>3. \A j \in Item : on1[j] # NULL /\ next'[j] # NULL =>
          on1[next'[j]] = on1[j] /\ next'[j] # first'[on1[j]]
    <3> SUFFICES ASSUME NEW j \in Item, on1[j] # NULL, next'[j] # NULL
                 PROVE  on1[next'[j]] = on1[j] /\ next'[j] # first'[on1[j]]
      OBVIOUS
    <3>1. CASE j = i
      <4>1. on1[j] = q /\ next'[j] = first[q] /\ first[q] \in Item
        BY <3>1, <1>1, <1>3, <1>5 DEF TypeOK, QueueTypeOK
      <4>2. on[first[q]] = q
        BY <4>1, <1>1, Items DEF Ledger, NextInv
      <4>3. first[q] # i
        BY <4>2, <1>1, <1>2, Queues
      <4>4. QED
        BY <4>1, <4>2, <4>3, <1>1, <1>3, <1>5
    <3>2. CASE j # i
      <4>1. /\ on1[j] = on[j]
            /\ on[j] \in Queue
            /\ next'[j] = next[j]
            /\ next[j] \in Item
        BY <3>2, <1>3, <1>5 DEF TypeOK, QueueTypeOK
      <4>2. on[next[j]] = on[j] /\ next[j] # first[on[j]]
        BY <4>1 DEF Ledger, NextInv
      <4>3. next[j] # i
        BY <4>1, <4>2, <1>2
      <4>4. QED
        BY <4>1, <4>2, <4>3, <1>1, <1>3, <1>5
    <3>3. QED
      BY <3>1, <3>2
  <2>4. \A j, k \in Item : on1[j] # NULL /\ next'[j] # NULL /\ on1[k] = on1[j] =>
          (next'[j] = next'[k] => j = k)
    <3> SUFFICES ASSUME NEW j \in Item, NEW k \in Item,
                        on1[j] # NULL, next'[j] # NULL, on1[k] = on1[j],
                        next'[j] = next'[k]
                 PROVE  j = k
      OBVIOUS
    <3>1. CASE j # i /\ k # i
      BY <3>1, <1>3, <1>5 DEF Ledger, NextInv
    <3>2. ASSUME NEW l \in Item, l # i, on1[l] = q, next'[l] # NULL
          PROVE  next'[l] # first[q]
      BY <3>2, <1>3, <1>5, Queues, <1>1 DEF Ledger, NextInv
    <3>3. QED
      BY <3>1, <3>2, <1>1, <1>3, <1>5
  <2>5. QED
    BY <2>1, <2>2, <2>3, <2>4 DEF NextInv
<1>11. EndInv(on1)'
  <2> SUFFICES ASSUME NEW r \in Queue, last'[r] # NULL
               PROVE  \/ Gone(on1, last[r])'
                      \/ on1[last'[r]] = r /\ next'[last'[r]] = NULL
    BY DEF EndInv
  <2>1. last'[r] = last[r] /\ last[r] \in Item
    BY <1>5 DEF TypeOK, QueueTypeOK
  <2>2. Gone(on, last[r]) \/ (on[last[r]] = r /\ next[last[r]] = NULL)
    BY <2>1 DEF Ledger, EndInv
  <2>3. CASE Gone(on, last[r])
    BY <2>1, <2>3, <1>6 DEF Gone
  <2>4. CASE on[last[r]] = r /\ next[last[r]] = NULL
    BY <2>1, <2>4, <1>1, <1>2, <1>3, <1>5, Queues
  <2>5. QED
    BY <2>2, <2>3, <2>4
<1>12. PrevInv(on1)'
  <2> SUFFICES ASSUME NEW j \in Item, on1[j] # NULL, on1[j] # DataQ, prev'[j] # NULL
               PROVE  \/ Gone(on1, prev[j])'
                      \/ on1[prev'[j]] = on1[j] /\ next'[prev'[j]] = j
    BY DEF PrevInv
  <2>1. /\ j # i
        /\ on1[j] = on[j]
        /\ prev'[j] = prev[j]
        /\ prev[j] \in Item
    BY <1>2, <1>3, <1>5 DEF TypeOK, QueueTypeOK
  <2>2. Gone(on, prev[j]) \/ (on[prev[j]] = on[j] /\ next[prev[j]] = j)
    BY <2>1 DEF Ledger, PrevInv
  <2>3. CASE Gone(on, prev[j])
    BY <2>1, <2>3, <1>6 DEF Gone
  <2>4. CASE on[prev[j]] = on[j] /\ next[prev[j]] = j
    BY <2>1, <2>4, <1>2, <1>3, <1>5
  <2>5. QED
    BY <2>2, <2>3, <2>4
<1>13. Ledger(on1)'
  BY <1>7, <1>8, <1>9, <1>10, <1>11, <1>12 DEF Ledger
<1>14. QED
  BY <1>3, <1>13

(* queue_list_append: an item that was on no list comes behind `last'.  If  *)
(* `last' points to an item that is Gone, while the list is not empty, the  *)
(* new item is Gone as well.                                                *)
LEMMA LinkLastLedger ==
  ASSUME TypeOK, NEW on \in [Item -> Queue \cup {NULL}], Ledger(on),
         NEW t \in Thread, NEW q \in Queue, NEW i \in Item,
         on[i] = NULL, next[i] = NULL, status[i] = "NEW", i \notin destroyed,
         ~ Gone(on, i), \A u \in Thread : u # t => held[u] # i,
         LinkLast(t, q, i),
         held' = [held EXCEPT ![t] = NULL],
         appended' \in Nat, i <= appended', appended <= appended',
         \A j \in Item : j <= appended' => j <= appended \/ j = i,
         data' \subseteq Item,
         \A j \in Item : j # i => (j \in data' <=> j \in data),
         i \in data' <=> q = DataQ,
         UNCHANGED <<status, destroyed>>
  PROVE  \E on1 \in [Item -> Queue \cup {NULL}] :
           on1 = AfterAppend(on, i, q) /\ Ledger(on1)'
<1> DEFINE l == last[q]
<1>1. /\ q # NULL
      /\ l \in Item \cup {NULL}
      /\ first[q] \in Item \cup {NULL}
      /\ appended \in Nat
      /\ i \in Nat
  BY Queues, Items DEF TypeOK, QueueTypeOK
<1>2. l # NULL => l # i /\ (Gone(on, l) \/ (on[l] = q /\ next[l] = NULL))
  BY <1>1 DEF Ledger, EndInv
<1>3. PICK on1 \in [Item -> Queue \cup {NULL}] :
        /\ on1 = AfterAppend(on, i, q)
        /\ \A j \in Item : on1[j] =
             IF j = i /\ (first[q] = NULL \/ (l # NULL /\ on[l] = q))
             THEN q ELSE on[j]
  <2>1. AfterAppend(on, i, q) \in [Item -> Queue \cup {NULL}]
    BY DEF AfterAppend
  <2>2. QED
    BY <2>1 DEF AfterAppend
<1>4. \A u \in Thread : held'[u] = IF u = t THEN NULL ELSE held[u]
  BY DEF TypeOK, QueueTypeOK
<1>5. /\ \A r \in Queue : /\ first'[r] = (IF r = q /\ first[q] = NULL THEN i ELSE first[r])
                          /\ last'[r] = (IF r = q THEN i ELSE last[r])
      /\ \A j \in Item : /\ next'[j] = (IF j = l THEN i ELSE next[j])
                         /\ prev'[j] = (IF j = i THEN l ELSE prev[j])
  BY DEF LinkLast, TypeOK, QueueTypeOK
<1>6. /\ \A u \in Thread : held'[u] # i
      /\ next'[i] = NULL
  BY <1>1, <1>2, <1>4, <1>5, Items
<1>7. \A j \in Item : Gone(on, j) => Gone(on1, j)' /\ j # i
  <2> SUFFICES ASSUME NEW j \in Item, Gone(on, j) PROVE Gone(on1, j)' /\ j # i
    OBVIOUS
  <2>1. /\ j # i
        /\ j <= appended
        /\ on1[j] = NULL
        /\ j \notin destroyed
        /\ \A u \in Thread : held[u] # j
    BY <1>3 DEF Gone
  <2>2. j <= appended'
    BY <2>1, <1>1, Items
  <2>3. \A u \in Thread : held'[u] # j
    BY <2>1, <1>4, Items
  <2>4. QED
    BY <2>1, <2>2, <2>3 DEF Gone
<1>8. HeldInv(on1)'
  <2>1. ASSUME NEW u \in Thread, held'[u] # NULL
        PROVE  /\ held'[u] <= appended'
               /\ on1[held'[u]] = NULL
               /\ next'[held'[u]] = NULL
               /\ prev'[held'[u]] = NULL
               /\ held'[u] \notin destroyed
    <3>1. /\ held'[u] = held[u]
          /\ held[u] \in Item
          /\ held[u] # i
      BY <2>1, <1>4, <1>6 DEF TypeOK, QueueTypeOK
    <3>2. /\ held[u] <= appended
          /\ on[held[u]] = NULL
          /\ next[held[u]] = NULL
          /\ prev[held[u]] = NULL
          /\ held[u] \notin destroyed
      BY <2>1, <3>1 DEF Ledger, HeldInv
    <3>3. held[u] # l
      BY <2>1, <3>1, <3>2, <1>1, <1>2 DEF Gone
    <3>4. held[u] <= appended'
      <4>1. \A m \in Item : m <= appended => m <= appended'
        BY <1>1, Items
      <4>2. QED
        BY <4>1, <3>1, <3>2
    <3>5. QED
      BY <3>1, <3>2, <3>3, <3>4, <1>3, <1>5
  <2>2. \A u, v \in Thread : held'[u] = held'[v] /\ held'[u] # NULL => u = v
    BY <1>4 DEF Ledger, HeldInv
  <2>3. QED
    BY <2>1, <2>2 DEF HeldInv
<1>9. FreshInv(on1)'
  <2> SUFFICES ASSUME NEW j \in Item, j > appended'
               PROVE  /\ on1[j] = NULL
                      /\ next'[j] = NULL
                      /\ prev'[j] = NULL
                      /\ status[j] = "NEW"
                      /\ j \notin data'
                      /\ j \notin destroyed
    BY DEF FreshInv
  <2>1. j > appended /\ j # i
    BY <1>1, Items
  <2>2. /\ on[j] = NULL
        /\ next[j] = NULL
        /\ prev[j] = NULL
        /\ status[j] = "NEW"
        /\ j \notin data
        /\ j \notin destroyed
    BY <2>1 DEF Ledger, FreshInv
  <2>3. j # l
    <3>1. ~ (j <= appended)
      BY <2>1, <1>1, Items
    <3>2. QED
      BY <3>1, <2>2, <1>1, <1>2, Items DEF Gone
  <2>4. QED
    BY <2>1, <2>2, <2>3, <1>3, <1>5
<1>10. ListedInv(on1)'
  <2> SUFFICES ASSUME NEW j \in Item, on1[j] # NULL
               PROVE  /\ j <= appended'
                      /\ status[j] = "NEW"
                      /\ j \notin destroyed
                      /\ j \in data' <=> on1[j] = DataQ
    BY DEF ListedInv
  <2>1. CASE j = i
    BY <2>1, <1>3
  <2>2. CASE j # i
    <3>1. on1[j] = on[j]
      BY <2>2, <1>3
    <3>2. /\ j <= appended
          /\ status[j] = "NEW"
          /\ j \notin destroyed
          /\ j \in data <=> on[j] = DataQ
      BY <3>1 DEF Ledger, ListedInv
    <3>3. j <= appended'
      BY <3>2, <1>1, Items
    <3>4. QED
      BY <2>2, <3>1, <3>2, <3>3
  <2>3. QED
    BY <2>1, <2>2
<1>11. NextInv(on1)'
  <2>1. \A r \in Queue : first'[r] # NULL => on1[first'[r]] = r
    <3> SUFFICES ASSUME NEW r \in Queue, first'[r] # NULL PROVE on1[first'[r]] = r
      OBVIOUS
    <3>1. CASE r = q /\ first[q] = NULL
      BY <3>1, <1>3, <1>5
    <3>2. CASE ~ (r = q /\ first[q] = NULL)
      <4>1. first'[r] = first[r] /\ first[r] \in Item /\ on[first[r]] = r
        BY <3>2, <1>5 DEF Ledger, NextInv, TypeOK, QueueTypeOK
      <4>2. first[r] # i
        BY <4>1, Queues
      <4>3. QED
        BY <4>1, <4>2, <1>3
    <3>3. QED
      BY <3>1, <3>2
  <2>2. \A r \in Queue : first'[r] = NULL => \A j \in Item : on1[j] # r
    <3> SUFFICES ASSUME NEW r \in Queue, first'[r] = NULL, NEW j \in Item
                 PROVE  on1[j] # r
      OBVIOUS
    <3>1. r # q /\ first[r] = NULL
      BY <1>5, Items
    <3>2. QED
      BY <3>1, <1>3 DEF Ledger, NextInv
  <2>3. \A j \in Item : on1[j] # NULL /\ j # i /\ j # l /\ next'[j] # NULL =>
          /\ on1[j] = on[j]
          /\ next'[j] = next[j]
          /\ next[j] \in Item
          /\ next[j] # i
          /\ on[next[j]] = on[j]
          /\ on1[next[j]] = on1[j]
          /\ next[j] # first[on[j]]
    <3> SUFFICES ASSUME NEW j \in Item, on1[j] # NULL, j # i, j # l, next'[j] # NULL
                 PROVE  /\ on1[j] = on[j]
                        /\ next'[j] = next[j]
                        /\ next[j] \in Item
                        /\ next[j] # i
                        /\ on[next[j]] = on[j]
                        /\ on1[next[j]] = on1[j]
                        /\ next[j] # first[on[j]]
      OBVIOUS
    <3>1. on1[j] = on[j] /\ next'[j] = next[j] /\ next[j] \in Item
      BY <1>3, <1>5 DEF TypeOK, QueueTypeOK
    <3>2. on[next[j]] = on[j] /\ next[j] # first[on[j]]
      BY <3>1 DEF Ledger, NextInv
    <3>3. next[j] # i
      BY <3>1, <3>2
    <3>4. QED
      BY <3>1, <3>2, <3>3, <1>3
  <2>4. \A j \in Item : on1[j] # NULL /\ j = l =>
          /\ on[l] = q
          /\ first[q] # NULL
          /\ first[q] # i
          /\ on1[l] = q
          /\ on1[i] = q
          /\ next'[l] = i
    <3> SUFFICES ASSUME l \in Item, on1[l] # NULL
                 PROVE  /\ on[l] = q
                        /\ first[q] # NULL
                        /\ first[q] # i
                        /\ on1[l] = q
                        /\ on1[i] = q
                        /\ next'[l] = i
      OBVIOUS
    <3>1. l # NULL /\ l # i
      BY <1>2, Items
    <3>2. on1[l] = on[l]
      BY <3>1, <1>3
    <3>3. on[l] = q
      BY <3>1, <3>2, <1>2 DEF Gone
    <3>4. first[q] # NULL
      BY <3>3 DEF Ledger, NextInv
    <3>5. on[first[q]] = q
      BY <3>4 DEF Ledger, NextInv
    <3>6. QED
      BY <3>1, <3>2, <3>3, <3>4, <3>5, <1>1, <1>3, <1>5
  <2>5. \A j \in Item : on1[j] # NULL /\ next'[j] # NULL =>
          on1[next'[j]] = on1[j] /\ next'[j] # first'[on1[j]]
    <3> SUFFICES ASSUME NEW j \in Item, on1[j] # NULL, next'[j] # NULL
                 PROVE  on1[next'[j]] = on1[j] /\ next'[j] # first'[on1[j]]
      OBVIOUS
    <3>1. j # i
      BY <1>6
    <3>2. CASE j = l
      BY <3>2, <2>4, <1>5
    <3>3. CASE j # l
      BY <3>1, <3>3, <2>3, <1>5
    <3>4. QED
      BY <3>2, <3>3
  <2>6. \A j, k \in Item : on1[j] # NULL /\ next'[j] # NULL /\ on1[k] = on1[j] =>
          (next'[j] = next'[k] => j = k)
    <3> SUFFICES ASSUME NEW j \in Item, NEW k \in Item,
                        on1[j] # NULL, next'[j] # NULL, on1[k] = on1[j],
                        next'[j] = next'[k]
                 PROVE  j = k
      OBVIOUS
    <3>1. j # i /\ k # i
      BY <1>6
    <3>2. CASE j = l \/ k = l
      BY <3>1, <3>2, <2>3, <2>4
    <3>3. CASE j # l /\ k # l
      <4>1. on[j] # NULL /\ on[k] = on[j] /\ next[j] # NULL /\ next[j] = next[k]
        BY <3>1, <3>3, <2>3
      <4>2. QED
        BY <4>1 DEF Ledger, NextInv
    <3>4. QED
      BY <3>2, <3>3
  <2>7. QED
    BY <2>1, <2>2, <2>5, <2>6 DEF NextInv
<1>12. EndInv(on1)'
  <2>1. Gone(on1, i)' \/ (on1[i] = q /\ next'[i] = NULL)
    BY <1>3, <1>6 DEF Gone
  <2>2. ASSUME NEW r \in Queue, r # q, last[r] # NULL
        PROVE  Gone(on1, last[r])' \/ (on1[last[r]] = r /\ next'[last[r]] = NULL)
    <3>1. last'[r] = last[r] /\ last[r] \in Item
      BY <2>2, <1>5 DEF TypeOK, QueueTypeOK
    <3>2. Gone(on, last[r]) \/ (on[last[r]] = r /\ next[last[r]] = NULL)
      BY <2>2 DEF Ledger, EndInv
    <3>3. CASE Gone(on, last[r])
      BY <3>1, <3>3, <1>7 DEF Gone
    <3>4. CASE on[last[r]] = r /\ next[last[r]] = NULL
      <4>1. last[r] # i
        BY <3>4, Queues
      <4>2. last[r] # l
        BY <2>2, <3>1, <3>4, <1>2, Queues DEF Gone
      <4>3. QED
        BY <3>1, <3>4, <4>1, <4>2, <1>3, <1>5
    <3>5. QED
      BY <3>2, <3>3, <3>4
  <2>3. QED
    BY <2>1, <2>2, <1>5 DEF EndInv
<1>13. PrevInv(on1)'
  <2> SUFFICES ASSUME NEW j \in Item, on1[j] # NULL, on1[j] # DataQ, prev'[j] # NULL
               PROVE  \/ Gone(on1, prev[j])'
                      \/ on1[prev'[j]] = on1[j] /\ next'[prev'[j]] = j
    BY DEF PrevInv
  <2>1. CASE j = i
    <3>1. prev'[j] = l /\ l # NULL /\ l \in Item
      BY <2>1, <1>1, <1>5
    <3>2. CASE Gone(on, l)
      BY <3>1, <3>2, <1>7 DEF Gone
    <3>3. CASE on[l] = q /\ next[l] = NULL
      BY <2>1, <3>1, <3>3, <1>2, <1>3, <1>5
    <3>4. QED
      BY <3>1, <3>2, <3>3, <1>2
  <2>2. CASE j # i
    <3>1. /\ on1[j] = on[j]
          /\ prev'[j] = prev[j]
          /\ prev[j] \in Item
      BY <2>2, <1>3, <1>5 DEF TypeOK, QueueTypeOK
    <3>2. Gone(on, prev[j]) \/ (on[prev[j]] = on[j] /\ next[prev[j]] = j)
      BY <3>1 DEF Ledger, PrevInv
    <3>3. CASE Gone(on, prev[j])
      BY <3>1, <3>3, <1>7 DEF Gone
    <3>4. CASE on[prev[j]] = on[j] /\ next[prev[j]] = j
      <4>1. prev[j] # i
        BY <3>1, <3>4
      <4>2. prev[j] # l
        BY <3>1, <3>4, <1>2, Items DEF Gone
      <4>3. QED
        BY <3>1, <3>4, <4>1, <4>2, <1>3, <1>5
    <3>5. QED
      BY <3>2, <3>3, <3>4
  <2>3. QED
    BY <2>1, <2>2
<1>14. Ledger(on1)'
  BY <1>8, <1>9, <1>10, <1>11, <1>12, <1>13 DEF Ledger
<1>15. QED
  BY <1>3, <1>14

(* Every other step leaves the lists alone.  It may drop the item in the    *)
(* hands of one thread, and change the segment of that item only.           *)
LEMMA SameLedger ==
  ASSUME TypeOK, NEW on \in [Item -> Queue \cup {NULL}], Ledger(on),
         UNCHANGED <<first, last, next, prev, appended>>,
         NEW t \in Thread,
         \A u \in Thread : u # t => held'[u] = held[u],
         held'[t] \in {held[t], NULL},
         held[t] # NULL /\ held[t] \in destroyed' => held'[t] = NULL,
         \A j \in Item : j # held[t] =>
           /\ status'[j] = status[j]
           /\ j \in data' <=> j \in data
           /\ j \in destroyed' <=> j \in destroyed
  PROVE  Ledger(on)'
<1>1. \A u \in Thread : held'[u] # NULL => held'[u] = held[u]
  OBVIOUS
<1>2. \A j \in Item : on[j] # NULL => j # held[t]
  BY Items DEF Ledger, HeldInv
<1>3. \A j \in Item : Gone(on, j) => j # held[t] /\ Gone(on, j)'
  <2> SUFFICES ASSUME NEW j \in Item, Gone(on, j)
               PROVE  j # held[t] /\ Gone(on, j)'
    OBVIOUS
  <2>1. /\ j <= appended
        /\ on[j] = NULL
        /\ j \notin destroyed
        /\ \A u \in Thread : held[u] # j
    BY DEF Gone
  <2>2. \A u \in Thread : held'[u] # j
    BY <2>1, <1>1, Items
  <2>3. QED
    BY <2>1, <2>2 DEF Gone
<1>4. HeldInv(on)'
  <2>1. ASSUME NEW u \in Thread, held'[u] # NULL
        PROVE  /\ held'[u] <= appended'
               /\ on[held'[u]] = NULL
               /\ next'[held'[u]] = NULL
               /\ prev'[held'[u]] = NULL
               /\ held'[u] \notin destroyed'
    <3>1. held'[u] = held[u] /\ held[u] \in Item
      BY <2>1, <1>1 DEF TypeOK, QueueTypeOK
    <3>2. /\ held[u] <= appended
          /\ on[held[u]] = NULL
          /\ next[held[u]] = NULL
          /\ prev[held[u]] = NULL
          /\ held[u] \notin destroyed
      BY <2>1, <3>1 DEF Ledger, HeldInv
    <3>3. held[u] \notin destroyed'
      <4>1. CASE u = t
        BY <4>1, <2>1, <3>1
      <4>2. CASE u # t
        BY <4>2, <2>1, <3>1, <3>2 DEF Ledger, HeldInv
      <4>3. QED
        BY <4>1, <4>2
    <3>4. QED
      BY <3>1, <3>2, <3>3
  <2>2. \A u, v \in Thread : held'[u] = held'[v] /\ held'[u] # NULL => u = v
    BY <1>1 DEF Ledger, HeldInv
  <2>3. QED
    BY <2>1, <2>2 DEF HeldInv
<1>5. FreshInv(on)'
  <2>1. \A j \in Item : j > appended => j # held[t]
    <3> SUFFICES ASSUME NEW j \in Item, j > appended, j = held[t] PROVE FALSE
      OBVIOUS
    <3>1. j <= appended
      BY Items DEF Ledger, HeldInv
    <3>2. QED
      BY <3>1, Items DEF TypeOK
  <2>2. QED
    BY <2>1 DEF Ledger, FreshInv
<1>6. ListedInv(on)'
  BY <1>2 DEF Ledger, ListedInv
<1>7. NextInv(on)'
  BY DEF Ledger, NextInv
<1>8. EndInv(on)'
  <2> SUFFICES ASSUME NEW q \in Queue, last[q] # NULL
               PROVE  Gone(on, last[q])' \/ (on[last[q]] = q /\ next[last[q]] = NULL)
    BY DEF EndInv
  <2>1. Gone(on, last[q]) \/ (on[last[q]] = q /\ next[last[q]] = NULL)
    BY DEF Ledger, EndInv
  <2>2. last[q] \in Item
    BY DEF TypeOK, QueueTypeOK
  <2>3. QED
    BY <2>1, <2>2, <1>3 DEF Gone
<1>9. PrevInv(on)'
  <2> SUFFICES ASSUME NEW j \in Item, on[j] # NULL, on[j] # DataQ, prev[j] # NULL
               PROVE  Gone(on, prev[j])' \/ (on[prev[j]] = on[j] /\ next[prev[j]] = j)
    BY DEF PrevInv
  <2>1. Gone(on, prev[j]) \/ (on[prev[j]] = on[j] /\ next[prev[j]] = j)
    BY DEF Ledger, PrevInv
  <2>2. prev[j] \in Item
    BY DEF TypeOK, QueueTypeOK
  <2>3. QED
    BY <2>1, <2>2, <1>3 DEF Gone
<1>10. QED
  BY <1>4, <1>5, <1>6, <1>7, <1>8, <1>9 DEF Ledger

-----------------------------------------------------------------------------
(* The steps of the client's thread, and the steps by which any thread goes *)
(* to sleep, is woken or wakes another.  They change no item.               *)
LEMMA MoveInv ==
  ASSUME DownloadInv,
         UNCHANGED <<first, last, next, prev, failed, held, appended, data,
                     chunk, combined, status, reported, destroyed, attempts>>,
         pc' \in [Thread -> Point],
         target' \in [Thread -> Queue \cup {NULL}],
         file' \in NzbFile \cup {NULL},
         ThreadInv',
         \A t \in Conn : pc'[t] = "retrieve" => pc[t] = "retrieve",
         pc'[Processor] = "decode" => pc[Processor] = "decode",
         pc'[Processor] = "check" => pc[Processor] = "check"
  PROVE  DownloadInv'
<1>1. TypeOK'
  BY DEF DownloadInv, TypeOK, QueueTypeOK, Point, QueuePoint, ClientPoint,
         ConnPoint, ProcessorPoint
<1>2. WorkInv' /\ FailedInv'
  BY DEF DownloadInv, WorkInv, FailedInv
<1>3. ReportInv'
  BY DEF DownloadInv, ReportInv, AllTried
<1>4. PICK on \in [Item -> Queue \cup {NULL}] : Ledger(on)
  BY DEF DownloadInv
<1>5. Ledger(on)'
  <2>1. Client \in Thread
    BY Threads
  <2>2. held[Client] = NULL
    BY DEF DownloadInv, ThreadInv
  <2>3. TypeOK
    BY DEF DownloadInv
  <2>4. QED
    BY <1>4, <2>1, <2>2, <2>3, SameLedger
<1>6. QED
  BY <1>1, <1>2, <1>3, <1>5 DEF DownloadInv

LEMMA PointType == DownloadInv => pc \in [Thread -> Point]
BY Threads DEF DownloadInv, TypeOK, Point, QueuePoint, ClientPoint, ConnPoint,
               ProcessorPoint

(* A signal moves its sender, and at most one sleeping reader.              *)
LEMMA SignalMoves ==
  ASSUME DownloadInv, NEW t \in Thread, NEW p \in Point, Signal(t, p)
  PROVE  /\ pc' \in [Thread -> Point]
         /\ target' \in [Thread -> Queue \cup {NULL}]
         /\ pc[t] = "signal"
         /\ pc'[t] = p
         /\ \A u \in Thread : u # t =>
              \/ pc'[u] = pc[u]
              \/ u \in Reader /\ pc[u] = "asleep" /\ pc'[u] = "shift"
<1>1. target' \in [Thread -> Queue \cup {NULL}] /\ pc[t] = "signal"
  BY DEF Signal, DownloadInv, TypeOK, QueueTypeOK
<1>2. CASE pc' = [pc EXCEPT ![t] = p]
  BY <1>1, <1>2, PointType
<1>3. CASE \E u \in Sleepers(target[t]) : pc' = [pc EXCEPT ![t] = p, ![u] = "shift"]
  <2>1. PICK u \in Sleepers(target[t]) : pc' = [pc EXCEPT ![t] = p, ![u] = "shift"]
    BY <1>3
  <2>2. u \in Reader /\ u \in Thread /\ pc[u] = "asleep" /\ u # t
    BY <1>1, Threads DEF Sleepers
  <2>3. "shift" \in Point
    BY DEF Point, QueuePoint
  <2>4. QED
    BY <1>1, <2>1, <2>2, <2>3, PointType
<1>4. QED
  BY <1>2, <1>3 DEF Signal, Goto

LEMMA StartDownloadInv == DownloadInv /\ StartDownload => DownloadInv'
<1> SUFFICES ASSUME DownloadInv, StartDownload PROVE DownloadInv'
  OBVIOUS
<1>1. /\ UNCHANGED <<first, last, next, prev, failed, held, target, appended, data,
                     chunk, combined, status, reported, destroyed, attempts>>
      /\ pc' = [pc EXCEPT ![Client] = "append"]
      /\ file' = FileOf[PostOf[appended + 1]]
  BY DEF StartDownload, Goto, listVars, segmentVars, diskVars
<1>2. appended + 1 \in Item
  BY Items DEF StartDownload, DownloadInv, TypeOK
<1>3. file' \in NzbFile
  BY <1>1, <1>2, Items
<1>4. /\ pc' \in [Thread -> Point]
      /\ \A t \in Thread : pc'[t] = IF t = Client THEN "append" ELSE pc[t]
  BY <1>1, PointType, Threads DEF Point, ClientPoint
<1>5. ThreadInv'
  BY <1>1, <1>2, <1>3, <1>4, Threads DEF DownloadInv, ThreadInv, ClientPoint
<1>6. target' \in [Thread -> Queue \cup {NULL}]
  BY <1>1 DEF DownloadInv, TypeOK, QueueTypeOK
<1>7. QED
  BY <1>1, <1>3, <1>4, <1>5, <1>6, Threads, MoveInv

LEMMA AppendSignalInv == DownloadInv /\ AppendSignal => DownloadInv'
<1> SUFFICES ASSUME DownloadInv, AppendSignal PROVE DownloadInv'
  OBVIOUS
<1>1. PICK p \in {"append", "idle"} :
        /\ Signal(Client, p)
        /\ p = "append" => appended + 1 \in Item
  BY DEF AppendSignal
<1>2. UNCHANGED <<first, last, next, prev, failed, held, appended, file, data,
                  chunk, combined, status, reported, destroyed, attempts>>
  BY <1>1 DEF AppendSignal, Signal, listVars, clientVars, segmentVars, diskVars
<1>3. p \in Point /\ Client \in Thread
  BY Threads DEF Point, ClientPoint
<1>4. /\ pc' \in [Thread -> Point]
      /\ target' \in [Thread -> Queue \cup {NULL}]
      /\ pc[Client] = "signal"
      /\ pc'[Client] = p
      /\ \A u \in Thread : u # Client =>
           \/ pc'[u] = pc[u]
           \/ u \in Reader /\ pc[u] = "asleep" /\ pc'[u] = "shift"
  BY <1>1, <1>3, SignalMoves
<1>5. ThreadInv'
  BY <1>1, <1>2, <1>4, Threads
     DEF DownloadInv, ThreadInv, ClientPoint, ConnPoint, ProcessorPoint
<1>6. file' \in NzbFile \cup {NULL}
  BY <1>2 DEF DownloadInv, TypeOK
<1>7. QED
  BY <1>2, <1>4, <1>5, <1>6, Threads, MoveInv

LEMMA SignalQueueInv ==
  ASSUME DownloadInv, NEW t \in Conn, SignalQueue(t)
  PROVE  DownloadInv'
<1>1. UNCHANGED <<first, last, next, prev, failed, held, appended, file, data,
                  chunk, combined, status, reported, destroyed, attempts>>
  BY DEF SignalQueue, Signal, fetchVars, listVars, clientVars, segmentVars,
         diskVars
<1>2. "shift" \in Point /\ t \in Thread /\ t # Client /\ t # Processor
  BY Threads DEF Point, ConnPoint
<1>3. /\ pc' \in [Thread -> Point]
      /\ target' \in [Thread -> Queue \cup {NULL}]
      /\ pc[t] = "signal"
      /\ pc'[t] = "shift"
      /\ \A u \in Thread : u # t =>
           \/ pc'[u] = pc[u]
           \/ u \in Reader /\ pc[u] = "asleep" /\ pc'[u] = "shift"
  BY <1>2, SignalMoves DEF SignalQueue
<1>4. ThreadInv'
  BY <1>1, <1>2, <1>3, Threads
     DEF DownloadInv, ThreadInv, ClientPoint, ConnPoint, ProcessorPoint
<1>5. file' \in NzbFile \cup {NULL}
  BY <1>1 DEF DownloadInv, TypeOK
<1>6. QED
  BY <1>1, <1>2, <1>3, <1>4, <1>5, Threads, MoveInv

(* A thread that holds nothing moves on alone: Connect, GiveUp, and the     *)
(* ways to sleep and to wake.                                               *)
LEMMA WalkInv ==
  ASSUME DownloadInv, NEW t \in Reader,
         NEW p \in {"shift", "unlocked", "asleep", "exit"},
         p = "exit" => t # Processor,
         pc' = [pc EXCEPT ![t] = p],
         pc[t] \in {"connect", "shift", "unlocked", "asleep"},
         UNCHANGED <<first, last, next, prev, failed, held, target, fetchVars>>
  PROVE  DownloadInv'
<1>1. UNCHANGED <<first, last, next, prev, failed, held, target, appended, file,
                  data, chunk, combined, status, reported, destroyed, attempts>>
  BY DEF fetchVars, clientVars, segmentVars, diskVars
<1>2. t \in Thread /\ t # Client
  BY Threads
<1>3. /\ pc' \in [Thread -> Point]
      /\ \A u \in Thread : pc'[u] = IF u = t THEN p ELSE pc[u]
  BY <1>2, PointType DEF Point, ConnPoint
<1>4. ThreadInv'
  BY <1>1, <1>2, <1>3, Threads
     DEF DownloadInv, ThreadInv, ConnPoint, ProcessorPoint
<1>5. /\ file' \in NzbFile \cup {NULL}
      /\ target' \in [Thread -> Queue \cup {NULL}]
  BY <1>1 DEF DownloadInv, TypeOK, QueueTypeOK
<1>6. QED
  BY <1>1, <1>2, <1>3, <1>4, <1>5, Threads, MoveInv

-----------------------------------------------------------------------------
(* nzb_fetch_download puts the next segment on the main queue.              *)
LEMMA AppendSegmentLedger ==
  ASSUME DownloadInv, AppendSegment,
         NEW on \in [Item -> Queue \cup {NULL}], Ledger(on)
  PROVE  \E on1 \in [Item -> Queue \cup {NULL}] :
           on1 = AfterAppend(on, appended + 1, 0) /\ Ledger(on1)'
<1> DEFINE i == appended + 1
<1>1. /\ LinkLast(Client, 0, i)
      /\ appended' = i
      /\ UNCHANGED <<held, data, status, destroyed>>
  BY DEF AppendSegment, segmentVars
<1>2. /\ i \in Item
      /\ appended \in Nat
      /\ held[Client] = NULL
  BY Items DEF AppendSegment, DownloadInv, ThreadInv, TypeOK
<1>3. 0 \in Queue /\ 0 # DataQ /\ Client \in Thread
  BY Queues, Threads
<1>4. /\ on[i] = NULL
      /\ next[i] = NULL
      /\ status[i] = "NEW"
      /\ i \notin data
      /\ i \notin destroyed
  BY <1>2 DEF Ledger, FreshInv
<1>5. ~ (i <= appended) /\ i <= appended' /\ appended <= appended' /\ appended' \in Nat
  BY <1>1, <1>2
<1>6. \A u \in Thread : held[u] # i
  BY <1>2, <1>5, Items DEF Ledger, HeldInv
<1>7. held' = [held EXCEPT ![Client] = NULL]
  BY <1>1, <1>2, <1>3 DEF DownloadInv, TypeOK, QueueTypeOK
<1>8. \A j \in Item : j <= appended' => j <= appended \/ j = i
  BY <1>1, <1>2, Items
<1>9. ~ Gone(on, i)
  BY <1>5 DEF Gone
<1>10. TypeOK /\ data' \subseteq Item
  BY <1>1 DEF DownloadInv, TypeOK
<1>11. QED
  BY <1>1, <1>2, <1>3, <1>4, <1>5, <1>6, <1>7, <1>8, <1>9, <1>10, LinkLastLedger

LEMMA AppendSegmentInv == DownloadInv /\ AppendSegment => DownloadInv'
<1> SUFFICES ASSUME DownloadInv, AppendSegment PROVE DownloadInv'
  OBVIOUS
<1> DEFINE i == appended + 1
<1>1. /\ LinkLast(Client, 0, i)
      /\ appended' = i
      /\ UNCHANGED <<failed, held, file, data, status, destroyed, attempts, chunk,
                     combined, reported>>
  BY DEF AppendSegment, segmentVars, diskVars
<1>2. /\ i \in Item
      /\ appended \in Nat
      /\ held[Client] = NULL
      /\ file \in NzbFile
  BY Items DEF AppendSegment, DownloadInv, ThreadInv, TypeOK
<1>3. /\ pc' = [pc EXCEPT ![Client] = "signal"]
      /\ target' = [target EXCEPT ![Client] = 0]
      /\ first' = [first EXCEPT ![0] = IF @ = NULL THEN i ELSE @]
      /\ last' = [last EXCEPT ![0] = i]
      /\ next' = [j \in Item |-> IF j = last[0] THEN i ELSE next[j]]
      /\ prev' = [prev EXCEPT ![i] = last[0]]
  BY <1>1 DEF LinkLast, Goto
<1>4. 0 \in Queue /\ 0 # DataQ /\ Client \in Thread /\ 0 \in Level
  BY Queues, Threads
<1>5. TypeOK'
  <2>1. QueueTypeOK'
    BY <1>1, <1>2, <1>3, <1>4 DEF DownloadInv, TypeOK, QueueTypeOK
  <2>2. appended' \in 0 .. Cardinality(Item)
    BY <1>1, <1>2, Items
  <2>3. QED
    BY <2>1, <2>2, <1>1, <1>3 DEF DownloadInv, TypeOK, QueuePoint
<1>6. \A t \in Thread : pc'[t] = IF t = Client THEN "signal" ELSE pc[t]
  BY <1>3, PointType
<1>7. ThreadInv'
  BY <1>1, <1>2, <1>6, Threads DEF DownloadInv, ThreadInv, ClientPoint
<1>8. WorkInv' /\ FailedInv'
  BY <1>1, <1>6, Threads DEF DownloadInv, WorkInv, FailedInv
<1>9. ReportInv'
  BY <1>1, <1>6, Threads DEF DownloadInv, ReportInv, AllTried
<1>10. PICK on \in [Item -> Queue \cup {NULL}] : Ledger(on)
  BY DEF DownloadInv
<1>11. \E on1 \in [Item -> Queue \cup {NULL}] : Ledger(on1)'
  BY <1>10, AppendSegmentLedger
<1>12. QED
  BY <1>5, <1>7, <1>8, <1>9, <1>11 DEF DownloadInv

-----------------------------------------------------------------------------
(* queue_list_shift gives an item to a connection thread or to the process  *)
(* thread.                                                                  *)
LEMMA ShiftTakes ==
  ASSUME DownloadInv, NEW t \in Reader, NEW s \in Server \cup {NULL},
         (s = NULL) <=> (t = Processor), NEW p,
         Shift(t, s, p), UNCHANGED fetchVars,
         NEW on \in [Item -> Queue \cup {NULL}], Ledger(on)
  PROVE  /\ held[t] = NULL
         /\ held' = [held EXCEPT ![t] = first[Home[t]]]
         /\ first[Home[t]] \in Item
         /\ on[first[Home[t]]] = Home[t]
         /\ Candidate(Home[t], s) = first[Home[t]]
         /\ \E on1 \in [Item -> Queue \cup {NULL}] :
              on1 = AfterShift(on, Home[t]) /\ Ledger(on1)'
<1>1. UNCHANGED <<appended, status, data, destroyed>>
  BY DEF fetchVars, clientVars, segmentVars
<1>2. t \in Thread /\ t # Client /\ Home[t] \in Queue /\ (Home[t] = DataQ <=> t = Processor)
  BY Threads, Queues
<1>3. held[t] = NULL
  BY <1>2, Threads DEF Shift, DownloadInv, ThreadInv
<1>4. TypeOK /\ FailedInv
  BY DEF DownloadInv
<1>5. /\ held' = [held EXCEPT ![t] = first[Home[t]]]
      /\ first[Home[t]] \in Item
      /\ on[first[Home[t]]] = Home[t]
      /\ \E on1 \in [Item -> Queue \cup {NULL}] :
           on1 = AfterShift(on, Home[t]) /\ Ledger(on1)'
  BY <1>1, <1>2, <1>3, <1>4, ShiftLedger
<1>6. Candidate(Home[t], s) = first[Home[t]]
  BY <1>2, <1>4, <1>5, CandidateIsFirst
<1>7. QED
  BY <1>3, <1>5, <1>6

LEMMA ShiftInv ==
  ASSUME DownloadInv, NEW t \in Reader, NEW s \in Server \cup {NULL},
         (s = NULL) <=> (t = Processor), NEW p,
         p = IF t = Processor THEN "decode" ELSE "retrieve",
         Shift(t, s, p), UNCHANGED fetchVars
  PROVE  DownloadInv'
<1> DEFINE q == Home[t]
           i == first[q]
<1>1. UNCHANGED <<failed, target, appended, file, data, chunk, combined, status,
                  reported, destroyed, attempts>>
  BY DEF Shift, fetchVars, clientVars, segmentVars, diskVars
<1>2. t \in Thread /\ t # Client /\ q \in Queue /\ (q = DataQ <=> t = Processor)
  BY Threads, Queues
<1>3. pc[t] = "shift" /\ pc' = [pc EXCEPT ![t] = p]
  BY DEF Shift, Goto
<1>4. PICK on \in [Item -> Queue \cup {NULL}] : Ledger(on)
  BY DEF DownloadInv
<1>5. /\ held' = [held EXCEPT ![t] = i]
      /\ i \in Item
      /\ on[i] = q
      /\ Candidate(q, s) = i
      /\ \E on1 \in [Item -> Queue \cup {NULL}] : Ledger(on1)'
  BY <1>2, <1>4, ShiftTakes
<1>6. TypeOK'
  <2>1. /\ first' = [first EXCEPT ![q] = next[i]]
        /\ last' = [last EXCEPT ![q] = IF @ = i THEN NULL ELSE @]
        /\ next' = NextAfter(i, s)
        /\ prev' = PrevAfter(i, s)
    BY <1>5 DEF Shift, FirstAfter, LastAfter
  <2>2. next' \in [Item -> Item \cup {NULL}] /\ prev' \in [Item -> Item \cup {NULL}]
    BY <2>1, <1>5 DEF NextAfter, PrevAfter, DownloadInv, TypeOK, QueueTypeOK
  <2>3. QueueTypeOK'
    BY <2>1, <2>2, <1>1, <1>2, <1>5 DEF DownloadInv, TypeOK, QueueTypeOK
  <2>4. QED
    BY <2>3, <1>1, <1>2, <1>3 DEF DownloadInv, TypeOK, QueuePoint
<1>7. /\ \A u \in Thread : pc'[u] = IF u = t THEN p ELSE pc[u]
      /\ \A u \in Thread : held'[u] = IF u = t THEN i ELSE held[u]
  BY <1>2, <1>3, <1>5, PointType DEF DownloadInv, TypeOK, QueueTypeOK
<1>8. ThreadInv'
  BY <1>1, <1>2, <1>5, <1>7, Threads, Items
     DEF DownloadInv, ThreadInv, ConnPoint, ProcessorPoint
<1>9. WorkInv' /\ FailedInv'
  <2>1. status[i] = "NEW" /\ (i \in data <=> q = DataQ)
    BY <1>2, <1>4, <1>5, Queues DEF Ledger, ListedInv
  <2>2. QED
    BY <2>1, <1>1, <1>2, <1>7, Threads DEF DownloadInv, WorkInv, FailedInv
<1>10. ReportInv'
  BY <1>1, <1>2, <1>7, Threads DEF DownloadInv, ReportInv, AllTried
<1>11. QED
  BY <1>5, <1>6, <1>8, <1>9, <1>10 DEF DownloadInv

-----------------------------------------------------------------------------
(* A connection thread passes on the item it holds, whatever it does with   *)
(* the item's segment.                                                      *)
LEMMA PassInv ==
  ASSUME DownloadInv, NEW t \in Conn, pc[t] = "retrieve",
         NEW p \in {"signal", "shift"},
         pc' = [pc EXCEPT ![t] = p],
         held' = [held EXCEPT ![t] = NULL],
         \A j \in Item : j # held[t] =>
           /\ status'[j] = status[j]
           /\ j \in data' <=> j \in data,
         UNCHANGED <<appended, file, reported>>
  PROVE  ThreadInv' /\ WorkInv' /\ ReportInv'
<1>1. t \in Thread /\ t # Client /\ t # Processor
  BY Threads
<1>2. /\ \A u \in Thread : pc'[u] = IF u = t THEN p ELSE pc[u]
      /\ \A u \in Thread : held'[u] = IF u = t THEN NULL ELSE held[u]
  BY <1>1, PointType DEF DownloadInv, TypeOK, QueueTypeOK
<1>3. ThreadInv'
  BY <1>1, <1>2, Threads DEF DownloadInv, ThreadInv, ConnPoint
<1>4. PICK on \in [Item -> Queue \cup {NULL}] : Ledger(on)
  BY DEF DownloadInv
<1>5. \A u \in Thread : u # t /\ held[u] # NULL => held[u] # held[t] /\ held[u] \in Item
  BY <1>1, <1>4 DEF Ledger, HeldInv, DownloadInv, TypeOK, QueueTypeOK
<1>6. WorkInv'
  <2>1. \A u \in Conn : pc'[u] = "retrieve" =>
          held'[u] \notin data' /\ status'[held'[u]] = "NEW"
    BY <1>2, <1>5, Threads DEF DownloadInv, WorkInv, ThreadInv
  <2>2. pc'[Processor] = "decode" =>
          held'[Processor] \in data' /\ status'[held'[Processor]] = "NEW"
    BY <1>1, <1>2, <1>5, Threads DEF DownloadInv, WorkInv, ThreadInv
  <2>3. pc'[Processor] = "check" => status'[held'[Processor]] = "COMPLETE"
    BY <1>1, <1>2, <1>5, Threads DEF DownloadInv, WorkInv, ThreadInv
  <2>4. QED
    BY <2>1, <2>2, <2>3 DEF WorkInv
<1>7. ReportInv'
  <2>1. status[held[t]] = "NEW"
    BY DEF DownloadInv, WorkInv
  <2>2. \A q \in Post : AllTried(q) => AllTried(q)'
    BY <2>1 DEF AllTried, SegmentsOf
  <2>3. \A n \in 1 .. Len(reported) : reported[n] \in Post
    BY DEF DownloadInv, TypeOK
  <2>4. pc'[Processor] = pc[Processor] /\ held'[Processor] = held[Processor]
    BY <1>1, <1>2, Threads
  <2>5. QED
    BY <2>2, <2>3, <2>4 DEF DownloadInv, ReportInv
<1>8. QED
  BY <1>3, <1>6, <1>7

LEMMA RetrievedLedger ==
  ASSUME DownloadInv, NEW t \in Conn, Retrieved(t),
         NEW on \in [Item -> Queue \cup {NULL}], Ledger(on)
  PROVE  \E on1 \in [Item -> Queue \cup {NULL}] :
           on1 = AfterAppend(on, held[t], DataQ) /\ Ledger(on1)'
<1> DEFINE i == held[t]
<1>1. /\ LinkLast(t, DataQ, i)
      /\ held' = [held EXCEPT ![t] = NULL]
      /\ data' = data \cup {i}
      /\ UNCHANGED <<appended, status, destroyed>>
      /\ pc[t] = "retrieve"
  BY DEF Retrieved, clientVars
<1>2. t \in Thread /\ DataQ \in Queue
  BY Threads, Queues
<1>3. i \in Item /\ i # NULL /\ status[i] = "NEW"
  BY <1>1, <1>2 DEF DownloadInv, ThreadInv, WorkInv, TypeOK, QueueTypeOK
<1>4. /\ on[i] = NULL
      /\ next[i] = NULL
      /\ i <= appended
      /\ i \notin destroyed
      /\ \A u \in Thread : u # t => held[u] # i
  BY <1>2, <1>3 DEF Ledger, HeldInv
<1>5. ~ Gone(on, i)
  BY <1>2 DEF Gone
<1>6. /\ TypeOK
      /\ appended' \in Nat
      /\ appended <= appended'
      /\ i <= appended'
      /\ data' \subseteq Item
      /\ \A j \in Item : j <= appended' => j <= appended
  BY <1>1, <1>3, <1>4 DEF DownloadInv, TypeOK
<1>7. QED
  BY <1>1, <1>2, <1>3, <1>4, <1>5, <1>6, LinkLastLedger

LEMMA RetrievedInv ==
  ASSUME DownloadInv, NEW t \in Conn, Retrieved(t)
  PROVE  DownloadInv'
<1> DEFINE i == held[t]
<1>1. /\ LinkLast(t, DataQ, i)
      /\ held' = [held EXCEPT ![t] = NULL]
      /\ data' = data \cup {i}
      /\ UNCHANGED <<failed, appended, file, chunk, combined, status, reported,
                     destroyed, attempts>>
      /\ pc[t] = "retrieve"
      /\ pc' = [pc EXCEPT ![t] = "signal"]
  BY DEF Retrieved, LinkLast, Goto, clientVars, diskVars
<1>2. t \in Thread /\ DataQ \in Queue
  BY Threads, Queues
<1>3. i \in Item /\ i # NULL /\ status[i] = "NEW"
  BY <1>1, <1>2 DEF DownloadInv, ThreadInv, WorkInv, TypeOK, QueueTypeOK
<1>4. TypeOK'
  <2>1. QueueTypeOK'
    BY <1>1, <1>2, <1>3 DEF LinkLast, DownloadInv, TypeOK, QueueTypeOK
  <2>2. QED
    BY <2>1, <1>1, <1>3 DEF DownloadInv, TypeOK, QueuePoint
<1>5. ThreadInv' /\ WorkInv' /\ ReportInv'
  BY <1>1, PassInv
<1>6. FailedInv'
  BY <1>1 DEF DownloadInv, FailedInv
<1>7. PICK on \in [Item -> Queue \cup {NULL}] : Ledger(on)
  BY DEF DownloadInv
<1>8. \E on1 \in [Item -> Queue \cup {NULL}] : Ledger(on1)'
  BY <1>7, RetrievedLedger
<1>9. QED
  BY <1>4, <1>5, <1>6, <1>8 DEF DownloadInv

(* nttp_handle_retrieve_error puts the item on the queue of a priority, its *)
(* own again or the next.                                                   *)
LEMMA RequeueLedger ==
  ASSUME DownloadInv, NEW t \in Conn, RetrieveFails(t), NEW q \in Level,
         LinkFirst(t, q, held[t]), UNCHANGED status,
         NEW on \in [Item -> Queue \cup {NULL}], Ledger(on)
  PROVE  \E on1 \in [Item -> Queue \cup {NULL}] :
           on1 = AfterPrepend(on, held[t], q) /\ Ledger(on1)'
<1>1. /\ held' = [held EXCEPT ![t] = NULL]
      /\ UNCHANGED <<appended, data, destroyed>>
      /\ pc[t] = "retrieve"
  BY DEF RetrieveFails, clientVars
<1>2. t \in Thread
  BY Threads
<1>3. held[t] # NULL /\ status[held[t]] = "NEW" /\ held[t] \notin data
  BY <1>1, <1>2 DEF DownloadInv, ThreadInv, WorkInv
<1>4. TypeOK
  BY DEF DownloadInv
<1>5. QED
  BY <1>1, <1>3, <1>4, LinkFirstLedger

LEMMA RequeueInv ==
  ASSUME DownloadInv, NEW t \in Conn, RetrieveFails(t), NEW q \in Level,
         LinkFirst(t, q, held[t]),
         failed' = [failed EXCEPT ![held[t]] = <<>>]
           \/ failed' = [failed EXCEPT ![held[t]] = Failures(t)],
         UNCHANGED status
  PROVE  DownloadInv'
<1> DEFINE i == held[t]
<1>1. /\ held' = [held EXCEPT ![t] = NULL]
      /\ attempts' = [attempts EXCEPT ![i] = Append(@, ServerOf[t])]
      /\ UNCHANGED <<appended, file, data, chunk, combined, reported, destroyed>>
      /\ pc[t] = "retrieve"
      /\ pc' = [pc EXCEPT ![t] = "signal"]
  BY DEF RetrieveFails, LinkFirst, Goto, clientVars, diskVars
<1>2. t \in Thread /\ q \in Queue /\ ServerOf[t] \in Server
  BY Threads, Queues
<1>3. i \in Item /\ i # NULL /\ status[i] = "NEW" /\ i \notin data
  BY <1>1, <1>2 DEF DownloadInv, ThreadInv, WorkInv, TypeOK, QueueTypeOK
<1>4. /\ failed' \in [Item -> Seq(Server \cup {NULL})]
      /\ FailedInv'
  <2>1. failed \in [Item -> Seq(Server \cup {NULL})] /\ FailedInv
    BY DEF DownloadInv, TypeOK, QueueTypeOK
  <2>2. CASE failed' = [failed EXCEPT ![i] = <<>>]
    BY <2>1, <2>2, <1>3 DEF FailedInv
  <2>3. CASE failed' = [failed EXCEPT ![i] = Failures(t)]
    <3>1. failed[i] \in Seq(Server \cup {NULL})
      BY <2>1, <1>3
    <3>2. failed' = [failed EXCEPT ![i] = Append(failed[i], NULL)]
      BY <2>3 DEF Failures, FailedServer
    <3>3. /\ Append(failed[i], NULL) \in Seq(Server \cup {NULL})
          /\ \A n \in DOMAIN Append(failed[i], NULL) : Append(failed[i], NULL)[n] = NULL
      BY <2>1, <3>1, <1>3 DEF FailedInv
    <3>4. QED
      BY <2>1, <3>2, <3>3, <1>3 DEF FailedInv
  <2>4. QED
    BY <2>2, <2>3
<1>5. TypeOK'
  <2>1. QueueTypeOK'
    BY <1>1, <1>2, <1>3, <1>4 DEF LinkFirst, DownloadInv, TypeOK, QueueTypeOK
  <2>2. attempts' \in [Item -> Seq(Server)]
    BY <1>1, <1>2, <1>3 DEF DownloadInv, TypeOK
  <2>3. QED
    BY <2>1, <2>2, <1>1 DEF DownloadInv, TypeOK, QueuePoint
<1>6. ThreadInv' /\ WorkInv' /\ ReportInv'
  BY <1>1, PassInv
<1>7. PICK on \in [Item -> Queue \cup {NULL}] : Ledger(on)
  BY DEF DownloadInv
<1>8. \E on1 \in [Item -> Queue \cup {NULL}] : Ledger(on1)'
  BY <1>7, RequeueLedger
<1>9. QED
  BY <1>4, <1>5, <1>6, <1>8 DEF DownloadInv

LEMMA PutBackInv ==
  ASSUME DownloadInv, NEW t \in Conn, PutBack(t)
  PROVE  DownloadInv'
<1>1. Home[t] \in Level
  BY Queues
<1>2. QED
  BY <1>1, RequeueInv DEF PutBack

LEMMA MoveOnInv ==
  ASSUME DownloadInv, NEW t \in Conn, MoveOn(t)
  PROVE  DownloadInv'
<1>1. PICK n \in HigherServers(ServerOf[t]) :
        LinkFirst(t, Priority[ServerList[n]], held[t])
  BY DEF MoveOn
<1>2. Priority[ServerList[n]] \in Level
  BY Queues DEF HigherServers, TotalServers
<1>3. QED
  BY <1>1, <1>2, RequeueInv DEF MoveOn

LEMMA AbandonInv ==
  ASSUME DownloadInv, NEW t \in Conn, Abandon(t)
  PROVE  DownloadInv'
<1> DEFINE i == held[t]
<1>1. /\ held' = [held EXCEPT ![t] = NULL]
      /\ attempts' = [attempts EXCEPT ![i] = Append(@, ServerOf[t])]
      /\ failed' = [failed EXCEPT ![i] = Append(failed[i], NULL)]
      /\ status' = [status EXCEPT ![i] = "ERROR"]
      /\ UNCHANGED <<first, last, next, prev, target, appended, file, data,
                     chunk, combined, reported, destroyed>>
      /\ pc[t] = "retrieve"
      /\ pc' = [pc EXCEPT ![t] = "shift"]
  BY DEF Abandon, RetrieveFails, Goto, clientVars, diskVars, listVars,
         Failures, FailedServer
<1>2. t \in Thread /\ ServerOf[t] \in Server
  BY Threads, Queues
<1>3. i \in Item /\ i # NULL /\ i \notin destroyed
  BY <1>1, <1>2
     DEF DownloadInv, ThreadInv, TypeOK, QueueTypeOK, Ledger, HeldInv
<1>4. /\ failed' \in [Item -> Seq(Server \cup {NULL})]
      /\ FailedInv'
  <2>1. failed \in [Item -> Seq(Server \cup {NULL})] /\ FailedInv
    BY DEF DownloadInv, TypeOK, QueueTypeOK
  <2>2. failed[i] \in Seq(Server \cup {NULL})
    BY <2>1, <1>3
  <2>3. /\ Append(failed[i], NULL) \in Seq(Server \cup {NULL})
        /\ \A n \in DOMAIN Append(failed[i], NULL) : Append(failed[i], NULL)[n] = NULL
    BY <2>1, <2>2, <1>3 DEF FailedInv
  <2>4. QED
    BY <2>1, <2>3, <1>1, <1>3 DEF FailedInv
<1>5. TypeOK'
  <2>1. QueueTypeOK'
    BY <1>1, <1>2, <1>4 DEF DownloadInv, TypeOK, QueueTypeOK
  <2>2. /\ attempts' \in [Item -> Seq(Server)]
        /\ status' \in [Item -> {"NEW", "COMPLETE", "ERROR"}]
    BY <1>1, <1>2, <1>3 DEF DownloadInv, TypeOK
  <2>3. QED
    BY <2>1, <2>2, <1>1 DEF DownloadInv, TypeOK, QueuePoint
<1>6. \A j \in Item : j # i => status'[j] = status[j]
  BY <1>1 DEF DownloadInv, TypeOK
<1>7. ThreadInv' /\ WorkInv' /\ ReportInv'
  BY <1>1, <1>6, PassInv
<1>8. PICK on \in [Item -> Queue \cup {NULL}] : Ledger(on)
  BY DEF DownloadInv
<1>9. Ledger(on)'
  <2>1. /\ TypeOK
        /\ \A u \in Thread : u # t => held'[u] = held[u]
        /\ held'[t] = NULL
    BY <1>1, <1>2 DEF DownloadInv, TypeOK, QueueTypeOK
  <2>2. QED
    BY <2>1, <1>1, <1>2, <1>6, <1>8, SameLedger
<1>10. QED
  BY <1>4, <1>5, <1>7, <1>9 DEF DownloadInv

-----------------------------------------------------------------------------
(* What the process thread does to the one item it holds.                   *)
LEMMA ProcessInv ==
  ASSUME DownloadInv, TypeOK',
         NEW p \in {"shift", "check"},
         pc[Processor] = "decode" \/ (pc[Processor] = "check" /\ p = "shift"),
         pc' = [pc EXCEPT ![Processor] = p],
         held' = IF p = "shift" THEN [held EXCEPT ![Processor] = NULL] ELSE held,
         UNCHANGED <<first, last, next, prev, failed, target, appended, file>>,
         \A j \in Item : j # held[Processor] =>
           /\ status'[j] = status[j]
           /\ j \in data' <=> j \in data
           /\ j \in destroyed' <=> j \in destroyed,
         p = "check" => /\ status'[held[Processor]] = "COMPLETE"
                        /\ UNCHANGED <<destroyed, reported>>,
         ReportInv'
  PROVE  DownloadInv'
<1> DEFINE i == held[Processor]
<1>1. Processor \in Thread /\ Processor # Client /\ Processor \notin Conn
  BY Threads
<1>2. i \in Item /\ i # NULL
  BY <1>1, Items DEF DownloadInv, ThreadInv, TypeOK, QueueTypeOK
<1>3. /\ \A u \in Thread : pc'[u] = IF u = Processor THEN p ELSE pc[u]
      /\ \A u \in Thread : held'[u] = IF u = Processor /\ p = "shift" THEN NULL ELSE held[u]
  BY <1>1, PointType DEF DownloadInv, TypeOK, QueueTypeOK
<1>4. PICK on \in [Item -> Queue \cup {NULL}] : Ledger(on)
  BY DEF DownloadInv
<1>5. \A u \in Thread : u # Processor /\ held[u] # NULL => held[u] # i /\ held[u] \in Item
  BY <1>1, <1>4 DEF Ledger, HeldInv, DownloadInv, TypeOK, QueueTypeOK
<1>6. ThreadInv'
  BY <1>1, <1>2, <1>3, Threads DEF DownloadInv, ThreadInv, ProcessorPoint
<1>7. WorkInv'
  <2>1. \A u \in Conn : pc'[u] = "retrieve" =>
          held'[u] \notin data' /\ status'[held'[u]] = "NEW"
    <3> SUFFICES ASSUME NEW u \in Conn, pc'[u] = "retrieve"
                 PROVE  held'[u] \notin data' /\ status'[held'[u]] = "NEW"
      OBVIOUS
    <3>1. u \in Thread /\ u # Processor /\ pc[u] = "retrieve" /\ held'[u] = held[u]
      BY <1>1, <1>3, Threads
    <3>2. held[u] # NULL /\ held[u] \notin data /\ status[held[u]] = "NEW"
      BY <3>1 DEF DownloadInv, ThreadInv, WorkInv
    <3>3. QED
      BY <3>1, <3>2, <1>5
  <2>2. pc'[Processor] = p
    BY <1>1, <1>3
  <2>3. p = "check" => held'[Processor] = i
    OBVIOUS
  <2>4. QED
    BY <2>1, <2>2, <2>3 DEF WorkInv
<1>8. FailedInv'
  BY DEF DownloadInv, FailedInv
<1>9. Ledger(on)'
  <2>1. i \notin destroyed
    BY <1>1, <1>2, <1>4 DEF Ledger, HeldInv
  <2>2. TypeOK
    BY DEF DownloadInv
  <2>3. \A u \in Thread : u # Processor => held'[u] = held[u]
    BY <1>3
  <2>4. /\ held'[Processor] \in {held[Processor], NULL}
        /\ i \in destroyed' => held'[Processor] = NULL
    BY <2>1, <1>1, <1>3
  <2>5. QED
    BY <2>2, <2>3, <2>4, <1>1, <1>4, SameLedger
<1>10. QED
  BY <1>4, <1>6, <1>7, <1>8, <1>9 DEF DownloadInv

(* The item in the hands of the process thread, and its post.               *)
LEMMA WorkItem ==
  ASSUME DownloadInv, pc[Processor] \in {"decode", "check"}
  PROVE  /\ held[Processor] \in Item
         /\ PostOf[held[Processor]] \in Post
         /\ file \in NzbFile
<1>1. held[Processor] \in Item
  BY Threads DEF DownloadInv, ThreadInv, TypeOK, QueueTypeOK
<1>2. held[Processor] <= appended
  BY <1>1, Threads, Items DEF DownloadInv, Ledger, HeldInv
<1>3. appended > 0
  <2>1. appended \in Nat
    BY Items DEF DownloadInv, TypeOK
  <2>2. \A j \in Item : j \in Nat /\ j >= 1
    BY Items
  <2>3. \A j \in Item : j <= appended => appended > 0
    BY <2>1, <2>2
  <2>4. QED
    BY <2>3, <1>1, <1>2
<1>4. QED
  BY <1>1, <1>3, Items DEF DownloadInv, ThreadInv

(* A segment of a post that has been reported is in nobody's hands.         *)
LEMMA NotReported ==
  ASSUME DownloadInv, pc[Processor] = "decode", NEW n \in 1 .. Len(reported)
  PROVE  reported[n] # PostOf[held[Processor]]
<1>1. held[Processor] \in Item /\ status[held[Processor]] = "NEW"
  BY WorkItem DEF DownloadInv, WorkInv
<1>2. AllTried(reported[n])
  BY DEF DownloadInv, ReportInv
<1>3. QED
  BY <1>1, <1>2 DEF AllTried, SegmentsOf

(* Giving a segment its verdict leaves what has been reported true.         *)
LEMMA VerdictReport ==
  ASSUME DownloadInv, pc[Processor] = "decode",
         NEW verdict \in {"COMPLETE", "ERROR"},
         status' = [status EXCEPT ![held[Processor]] = verdict],
         held'[Processor] \in {NULL, held[Processor]},
         pc'[Processor] = "check" => held'[Processor] = held[Processor],
         UNCHANGED reported
  PROVE  ReportInv'
<1>1. \A n \in 1 .. Len(reported) : AllTried(reported[n])'
  <2> SUFFICES ASSUME NEW n \in 1 .. Len(reported) PROVE AllTried(reported[n])'
    OBVIOUS
  <2>1. AllTried(reported[n])
    BY DEF DownloadInv, ReportInv
  <2>2. \A j \in Item : status[j] # "NEW" => status'[j] # "NEW"
    BY DEF DownloadInv, TypeOK
  <2>3. QED
    BY <2>1, <2>2 DEF AllTried, SegmentsOf
<1>2. QED
  BY <1>1, NotReported DEF DownloadInv, ReportInv

LEMMA DecodeFailsInv == DownloadInv /\ DecodeFails => DownloadInv'
<1> SUFFICES ASSUME DownloadInv, DecodeFails PROVE DownloadInv'
  OBVIOUS
<1> DEFINE i == held[Processor]
<1>1. /\ pc[Processor] = "decode"
      /\ status' = [status EXCEPT ![i] = "ERROR"]
      /\ destroyed' = destroyed \cup {i}
      /\ held' = [held EXCEPT ![Processor] = NULL]
      /\ pc' = [pc EXCEPT ![Processor] = "shift"]
      /\ UNCHANGED <<first, last, next, prev, failed, target, data, attempts,
                     appended, file, chunk, combined, reported>>
  BY DEF DecodeFails, Goto, listVars, clientVars, diskVars
<1>2. Processor \in Thread /\ i \in Item
  BY <1>1, Threads, WorkItem
<1>3. TypeOK'
  BY <1>1, <1>2 DEF DownloadInv, TypeOK, QueueTypeOK, QueuePoint
<1>4. ReportInv'
  <2>1. held'[Processor] = NULL /\ pc'[Processor] = "shift"
    BY <1>1, <1>2 DEF DownloadInv, TypeOK, QueueTypeOK
  <2>2. QED
    BY <2>1, <1>1, VerdictReport
<1>5. \A j \in Item : j # i =>
        /\ status'[j] = status[j]
        /\ j \in data' <=> j \in data
        /\ j \in destroyed' <=> j \in destroyed
  BY <1>1 DEF DownloadInv, TypeOK
<1>6. QED
  BY <1>1, <1>3, <1>4, <1>5, ProcessInv

LEMMA DecodedInv == DownloadInv /\ Decoded => DownloadInv'
<1> SUFFICES ASSUME DownloadInv, Decoded PROVE DownloadInv'
  OBVIOUS
<1> DEFINE i == held[Processor]
<1>1. /\ pc[Processor] = "decode"
      /\ status' = [status EXCEPT ![i] = "COMPLETE"]
      /\ chunk' = chunk \cup {<<file, i>>} \/ chunk' = chunk
      /\ data' = data \ {i}
      /\ pc' = [pc EXCEPT ![Processor] = "check"]
      /\ UNCHANGED <<first, last, next, prev, failed, held, target, attempts,
                     appended, file, combined, reported, destroyed>>
  BY DEF Decoded, Goto, listVars, clientVars
<1>2. Processor \in Thread /\ i \in Item /\ file \in NzbFile
  BY <1>1, Threads, WorkItem
<1>3. TypeOK'
  <2>1. chunk' \subseteq NzbFile \X Item
    BY <1>1, <1>2 DEF DownloadInv, TypeOK
  <2>2. QED
    BY <2>1, <1>1, <1>2 DEF DownloadInv, TypeOK, QueueTypeOK, QueuePoint
<1>4. ReportInv'
  BY <1>1, VerdictReport
<1>5. \A j \in Item : j # i =>
        /\ status'[j] = status[j]
        /\ j \in data' <=> j \in data
        /\ j \in destroyed' <=> j \in destroyed
  BY <1>1 DEF DownloadInv, TypeOK
<1>6. status'[i] = "COMPLETE"
  BY <1>1, <1>2 DEF DownloadInv, TypeOK
<1>7. QED
  BY <1>1, <1>3, <1>4, <1>5, <1>6, ProcessInv

LEMMA CheckPostInv == DownloadInv /\ CheckPost => DownloadInv' /\ [P!Next]_<<status, reported>>
<1> SUFFICES ASSUME DownloadInv, CheckPost
             PROVE  DownloadInv' /\ [P!Next]_<<status, reported>>
  OBVIOUS
<1> DEFINE i == held[Processor]
           p == PostOf[i]
<1>1. /\ pc[Processor] = "check"
      /\ destroyed' = destroyed \cup {i}
      /\ held' = [held EXCEPT ![Processor] = NULL]
      /\ pc' = [pc EXCEPT ![Processor] = "shift"]
      /\ UNCHANGED <<first, last, next, prev, failed, target, chunk, data, status,
                     attempts, appended, file>>
  BY DEF CheckPost, Goto, listVars, clientVars
<1>2. Processor \in Thread /\ i \in Item /\ p \in Post
  BY <1>1, Threads, WorkItem
<1>3. \/ UNCHANGED <<combined, reported>>
      \/ /\ AllTried(p)
         /\ combined' = [combined EXCEPT ![p] =
                             [path |-> file, segments |-> Combinable(p)]]
         /\ reported' = Append(reported, p)
  BY DEF CheckPost
<1>4. /\ reported \in Seq(Post)
      /\ Len(reported) \in Nat
      /\ \A n \in 1 .. Len(reported) : reported[n] # p
  BY <1>1 DEF DownloadInv, ReportInv, TypeOK
<1>5. TypeOK'
  <2>1. reported' \in Seq(Post)
    BY <1>2, <1>3, <1>4
  <2>2. [path |-> file, segments |-> Combinable(p)]
          \in [path : NzbFile \cup {NULL}, segments : SUBSET Item]
    BY DEF DownloadInv, TypeOK, Combinable, SegmentsOf
  <2>3. combined' \in [Post -> [path : NzbFile \cup {NULL}, segments : SUBSET Item]]
    BY <2>2, <1>3 DEF DownloadInv, TypeOK
  <2>4. QED
    BY <2>1, <2>3, <1>1, <1>2 DEF DownloadInv, TypeOK, QueueTypeOK, QueuePoint
<1>6. \A r : AllTried(r)' <=> AllTried(r)
  BY <1>1 DEF AllTried
<1>7. pc'[Processor] = "shift"
  BY <1>1, <1>2 DEF DownloadInv, TypeOK
<1>8. ReportInv'
  <2>1. CASE UNCHANGED <<combined, reported>>
    BY <2>1, <1>1, <1>7 DEF DownloadInv, ReportInv, AllTried
  <2>2. CASE AllTried(p) /\ reported' = Append(reported, p)
    <3>1. /\ Len(reported') = Len(reported) + 1
          /\ \A n \in 1 .. Len(reported) : reported'[n] = reported[n]
          /\ reported'[Len(reported) + 1] = p
      BY <2>2, <1>2, <1>4
    <3>2. \A n \in 1 .. Len(reported') : n \in 1 .. Len(reported) \/ n = Len(reported) + 1
      BY <3>1, <1>4
    <3>3. \A m, n \in 1 .. Len(reported') : reported'[m] = reported'[n] => m = n
      BY <3>1, <3>2, <1>4 DEF DownloadInv, ReportInv
    <3>4. \A n \in 1 .. Len(reported') : AllTried(reported'[n])
      BY <2>2, <3>1, <3>2 DEF DownloadInv, ReportInv
    <3>5. \A n \in 1 .. Len(reported') : AllTried(reported[n])'
      BY <3>4, <1>1 DEF AllTried
    <3>6. QED
      BY <3>3, <3>5, <1>7 DEF ReportInv
  <2>3. QED
    BY <2>1, <2>2, <1>3
<1>9. DownloadInv'
  <2>1. \A j \in Item : j # i =>
          /\ status'[j] = status[j]
          /\ j \in data' <=> j \in data
          /\ j \in destroyed' <=> j \in destroyed
    BY <1>1
  <2>2. QED
    BY <2>1, <1>1, <1>5, <1>8, ProcessInv
<1>10. [P!Next]_<<status, reported>>
  <2>1. CASE UNCHANGED <<combined, reported>>
    BY <2>1, <1>1
  <2>2. CASE AllTried(p) /\ reported' = Append(reported, p)
    <3>1. status[i] = "COMPLETE"
      BY <1>1 DEF DownloadInv, WorkInv
    <3>2. P!Report(p)
      BY <2>2, <3>1, <1>1, <1>2, <1>4
         DEF P!Report, P!SegmentsOf, AllTried, SegmentsOf
    <3>3. QED
      BY <3>2, <1>2 DEF P!Next
  <2>3. QED
    BY <2>1, <2>2, <1>3
<1>11. QED
  BY <1>9, <1>10

-----------------------------------------------------------------------------
(* Nothing is on any list before the first download.                        *)
LEMMA InitInv == DownloadInit => DownloadInv
<1> SUFFICES ASSUME DownloadInit PROVE DownloadInv
  OBVIOUS
<1> USE DEF DownloadInit, QueueInit
<1>1. TypeOK
  BY Threads, Items DEF TypeOK, QueueTypeOK, QueuePoint
<1>2. ThreadInv
  BY Threads DEF ThreadInv, ClientPoint, ConnPoint, ProcessorPoint
<1>3. WorkInv /\ FailedInv /\ ReportInv
  BY Threads DEF WorkInv, FailedInv, ReportInv
<1>4. PICK on \in [Item -> Queue \cup {NULL}] : \A i \in Item : on[i] = NULL
  <2>1. [i \in Item |-> NULL] \in [Item -> Queue \cup {NULL}]
    OBVIOUS
  <2>2. QED
    BY <2>1
<1>5. Ledger(on)
  BY <1>4, Queues DEF Ledger, HeldInv, FreshInv, ListedInv, NextInv, EndInv, PrevInv
<1>6. QED
  BY <1>1, <1>2, <1>3, <1>5 DEF DownloadInv

(* Every step keeps the invariant, and is a step of Posts or a stutter.     *)
LEMMA StepInv ==
  DownloadInv /\ [DownloadNext]_downloadVars
    => DownloadInv' /\ [P!Next]_<<status, reported>>
<1> SUFFICES ASSUME DownloadInv, [DownloadNext]_downloadVars
             PROVE  DownloadInv' /\ [P!Next]_<<status, reported>>
  OBVIOUS
<1>1. CASE ClientStep
  <2>1. UNCHANGED <<status, reported>>
    BY <1>1 DEF ClientStep, StartDownload, AppendSegment, AppendSignal, segmentVars
  <2>2. QED
    BY <2>1, <1>1, StartDownloadInv, AppendSegmentInv, AppendSignalInv DEF ClientStep
<1>2. ASSUME NEW t \in Conn, ConnStep(t)
      PROVE  DownloadInv' /\ [P!Next]_<<status, reported>>
  <2>1. CASE Abandon(t)
    <3>1. held[t] \in Item /\ status[held[t]] = "NEW"
      BY <2>1, Threads
         DEF Abandon, RetrieveFails, DownloadInv, ThreadInv, WorkInv, TypeOK, QueueTypeOK
    <3>2. P!Resolve(held[t], "ERROR")
      BY <2>1, <3>1 DEF Abandon, RetrieveFails, P!Resolve
    <3>3. QED
      BY <2>1, <3>1, <3>2, AbandonInv DEF P!Next
  <2>2. CASE ~ Abandon(t)
    <3>1. UNCHANGED <<status, reported>>
      BY <1>2, <2>2
         DEF ConnStep, Connect, GiveUp, TakeItem, Retrieved, PutBack, MoveOn,
             RetrieveFails, SignalQueue, fetchVars, segmentVars
    <3>2. CASE Connect(t)
      BY <3>1, <3>2, WalkInv, Threads DEF Connect, Goto, listVars
    <3>3. CASE GiveUp(t)
      BY <3>1, <3>3, WalkInv, Threads DEF GiveUp, Goto, listVars
    <3>4. CASE TakeItem(t)
      <4>1. CASE Shift(t, ServerOf[t], "retrieve")
        <5>1. t \in Reader /\ t # Processor /\ ServerOf[t] \in Server /\ ServerOf[t] # NULL
          BY Threads, Queues
        <5>2. UNCHANGED fetchVars
          BY <3>4 DEF TakeItem
        <5>3. QED
          BY <3>1, <4>1, <5>1, <5>2, ShiftInv
      <4>2. CASE ShiftEmpty(t) \/ Sleep(t)
        BY <3>1, <3>4, <4>2, WalkInv, Threads
           DEF TakeItem, ShiftEmpty, Sleep, Goto, listVars
      <4>3. QED
        BY <3>4, <4>1, <4>2 DEF TakeItem
    <3>5. QED
      BY <1>2, <2>2, <3>1, <3>2, <3>3, <3>4, RetrievedInv, PutBackInv, MoveOnInv,
         SignalQueueInv DEF ConnStep
  <2>3. QED
    BY <2>1, <2>2
<1>3. CASE ProcessorStep
  <2>1. CASE ReceiveItem
    <3>1. UNCHANGED fetchVars /\ UNCHANGED <<status, reported>>
      BY <2>1 DEF ReceiveItem, fetchVars, segmentVars
    <3>2. CASE Shift(Processor, NULL, "decode")
      <4>1. Processor \in Reader /\ NULL \in Server \cup {NULL}
        BY Threads
      <4>2. QED
        BY <3>1, <3>2, <4>1, ShiftInv
    <3>3. CASE ShiftEmpty(Processor) \/ Sleep(Processor)
      BY <3>1, <3>3, WalkInv, Threads DEF ShiftEmpty, Sleep, Goto, listVars
    <3>4. QED
      BY <2>1, <3>2, <3>3 DEF ReceiveItem
  <2>2. CASE DecodeFails \/ Decoded
    <3>1. held[Processor] \in Item /\ status[held[Processor]] = "NEW"
      BY <2>2, WorkItem DEF DecodeFails, Decoded, DownloadInv, WorkInv
    <3>2. \E verdict \in {"COMPLETE", "ERROR"} : P!Resolve(held[Processor], verdict)
      BY <2>2, <3>1 DEF DecodeFails, Decoded, P!Resolve
    <3>3. P!Next
      BY <3>1, <3>2 DEF P!Next
    <3>4. QED
      BY <2>2, <3>3, DecodeFailsInv, DecodedInv
  <2>3. CASE CheckPost
    BY <2>3, CheckPostInv
  <2>4. QED
    BY <1>3, <2>1, <2>2, <2>3 DEF ProcessorStep
<1>4. ASSUME NEW t \in Reader, Woken(t)
      PROVE  DownloadInv' /\ [P!Next]_<<status, reported>>
  <2>1. UNCHANGED <<status, reported>>
    BY <1>4 DEF Woken, fetchVars, segmentVars
  <2>2. QED
    BY <1>4, <2>1, WalkInv DEF Woken, SpuriousWake, Goto, listVars
<1>5. CASE UNCHANGED downloadVars
  <2>1. UNCHANGED <<first, last, next, prev, failed, held, pc, target, appended, file,
                    data, chunk, combined, status, reported, destroyed, attempts>>
    BY <1>5 DEF downloadVars, queueVars, diskVars, segmentVars, clientVars
  <2>2. ThreadInv'
    BY <2>1 DEF DownloadInv, ThreadInv
  <2>3. /\ pc' \in [Thread -> Point]
        /\ target' \in [Thread -> Queue \cup {NULL}]
        /\ file' \in NzbFile \cup {NULL}
    BY <2>1, PointType DEF DownloadInv, TypeOK, QueueTypeOK
  <2>4. QED
    BY <2>1, <2>2, <2>3, MoveInv
<1>6. QED
  BY <1>1, <1>2, <1>3, <1>4, <1>5 DEF DownloadNext

(* The ledger always exists, whatever the servers, connections and posts.   *)
THEOREM DownloadInvariant == DownloadSpec => []DownloadInv
<1>1. DownloadInv /\ [DownloadNext]_downloadVars => DownloadInv'
  BY StepInv
<1>2. QED
  BY InitInv, <1>1, PTL DEF DownloadSpec

(* Every variable of the download path keeps its type.                      *)
THEOREM DownloadTypeOK == DownloadSpec => []TypeOK
<1>1. DownloadInv => TypeOK
  BY DEF DownloadInv
<1>2. QED
  BY DownloadInvariant, <1>1, PTL

(* No thread follows a pointer to an item that queue_item_destroy has       *)
(* freed, although `last' and `prev' can be stale: what they then point to  *)
(* has been lost, and is never freed.                                       *)
THEOREM DownloadNoUseAfterFree == DownloadSpec => []NoUseAfterFree
<1>1. DownloadInv => NoUseAfterFree
  <2> SUFFICES ASSUME DownloadInv PROVE NoUseAfterFree
    OBVIOUS
  <2>1. PICK on \in [Item -> Queue \cup {NULL}] : Ledger(on)
    BY DEF DownloadInv
  <2>2. NULL \notin destroyed
    BY Items DEF DownloadInv, TypeOK
  <2>3. \A t \in Thread : held[t] \notin destroyed
    BY <2>1, <2>2 DEF Ledger, HeldInv
  <2>4. \A i \in Item : on[i] # NULL => i \notin destroyed
    BY <2>1 DEF Ledger, ListedInv
  <2>5. ASSUME NEW q \in Queue
        PROVE  last[q] \notin destroyed
    <3>1. last[q] \in Item \cup {NULL}
      BY DEF DownloadInv, TypeOK, QueueTypeOK
    <3>2. QED
      BY <2>1, <2>2, <2>4, <3>1, Queues DEF Ledger, EndInv, Gone
  <2>6. ASSUME NEW q \in Queue, first[q] # NULL
        PROVE  /\ first[q] \notin destroyed
               /\ next[first[q]] \notin destroyed
               /\ q # DataQ => prev[first[q]] \notin destroyed
    <3>1. first[q] \in Item /\ on[first[q]] = q /\ q # NULL
      BY <2>1, <2>6, Queues DEF Ledger, NextInv, DownloadInv, TypeOK, QueueTypeOK
    <3>2. /\ next[first[q]] \in Item \cup {NULL}
          /\ prev[first[q]] \in Item \cup {NULL}
      BY <3>1 DEF DownloadInv, TypeOK, QueueTypeOK
    <3>3. next[first[q]] # NULL => on[next[first[q]]] = q
      BY <2>1, <3>1 DEF Ledger, NextInv
    <3>4. q # DataQ /\ prev[first[q]] # NULL =>
            Gone(on, prev[first[q]]) \/ on[prev[first[q]]] = q
      BY <2>1, <3>1 DEF Ledger, PrevInv
    <3>5. QED
      BY <2>2, <2>4, <3>1, <3>2, <3>3, <3>4 DEF Gone
  <2>7. QED
    BY <2>2, <2>3, <2>5, <2>6 DEF NoUseAfterFree
<1>2. QED
  BY DownloadInvariant, <1>1, PTL

(* No assertion about a segment or an item fails, in nttp_retrieve_segment, *)
(* process_data_queue, queue_list_append or queue_list_prepend.             *)
THEOREM DownloadAssertionsHold == DownloadSpec => []AssertionsHold
<1>1. DownloadInv => AssertionsHold
  <2> SUFFICES ASSUME DownloadInv PROVE AssertionsHold
    OBVIOUS
  <2>1. PICK on \in [Item -> Queue \cup {NULL}] : Ledger(on)
    BY DEF DownloadInv
  <2>2. ASSUME NEW t \in Conn, pc[t] = "retrieve"
        PROVE  held[t] \notin data /\ next[held[t]] = NULL /\ prev[held[t]] = NULL
    <3>1. t \in Thread /\ held[t] # NULL /\ held[t] \notin data
      BY <2>2, Threads DEF DownloadInv, ThreadInv, WorkInv
    <3>2. QED
      BY <2>1, <3>1 DEF Ledger, HeldInv
  <2>3. QED
    BY <2>2 DEF AssertionsHold, DownloadInv, WorkInv
<1>2. QED
  BY DownloadInvariant, <1>1, PTL

(* queue_list_shift never runs off the end of a list that is not empty.     *)
THEOREM DownloadShiftFindsItem == DownloadSpec => []ShiftFindsItem
<1>1. DownloadInv => ShiftFindsItem
  <2> SUFFICES ASSUME DownloadInv, NEW t \in Conn, first[Home[t]] # NULL
               PROVE  Candidate(Home[t], ServerOf[t]) # NULL
    BY DEF ShiftFindsItem
  <2>1. /\ Home[t] \in Queue
        /\ ServerOf[t] \in Server \cup {NULL}
        /\ first[Home[t]] \in Item
        /\ FailedInv
    BY Queues DEF DownloadInv, TypeOK, QueueTypeOK
  <2>2. QED
    BY <2>1, CandidateIsFirst
<1>2. QED
  BY DownloadInvariant, <1>1, PTL

(* The three kinds of threads together implement Posts: the verdict on a    *)
(* segment is final, and a post is reported at most once, after the last of *)
(* its segments.                                                            *)
THEOREM DownloadImplementsPosts == DownloadSpec => ImplementsPosts
<1>1. DownloadInit => P!Init
  BY DEF DownloadInit, P!Init
<1>2. DownloadInv /\ [DownloadNext]_downloadVars => [P!Next]_<<status, reported>>
  BY StepInv
<1>3. QED
  BY <1>1, <1>2, DownloadInvariant, PTL
     DEF DownloadSpec, ImplementsPosts, P!Spec, P!postVars

-----------------------------------------------------------------------------
(* What becomes of a segment.                                               *)

(* One server for each priority.                                            *)
OnePerPriority == \A r, s \in Server : Priority[r] = Priority[s] => r = s

(* Given up by nttp_handle_retrieve_error (an item whose decoding failed    *)
(* has been freed).                                                         *)
Abandoned(i) == status[i] = "ERROR" /\ i \notin destroyed

\* A step in which no request to a server fails.
Unfailed ==
  /\ UNCHANGED <<failed, attempts>>
  /\ \A i \in Item : Abandoned(i)' => Abandoned(i)

\* A request of thread t fails, and the item goes to the queue of level q.
Requeues(t, q) ==
  \/ PutBack(t) /\ q = Home[t]
  \/ /\ MoveOn(t)
     /\ \E n \in HigherServers(ServerOf[t]) :
          /\ \A m \in HigherServers(ServerOf[t]) : n <= m
          /\ q = Priority[ServerList[n]]

\* What a step can do to the lists, and to the ledger that goes with them.
Rests(on, on1) ==
  /\ on1 = on
  /\ UNCHANGED <<first, last, next, appended>>
  /\ \A t \in Thread : held[t] # NULL =>
       held'[t] = held[t] \/ status'[held[t]] # "NEW"
  /\ \A i \in Item : status'[i] = "NEW" => status[i] = "NEW"
  /\ \A t \in Thread : held'[t] # NULL => held'[t] = held[t]

Takes(on, on1, t, q, i) ==
  /\ q = Home[t]
  /\ i = first[q]
  /\ i \in Item
  /\ on[i] = q
  /\ on1 = AfterShift(on, q)
  /\ first' = [first EXCEPT ![q] = next[i]]
  /\ last' = [last EXCEPT ![q] = IF @ = i THEN NULL ELSE @]
  /\ \A j \in Item : \/ next'[j] = next[j]
                     \/ j = i /\ next'[j] = NULL
                     \/ Gone(on, j) /\ next'[j] = next[i]
  /\ held[t] = NULL
  /\ held' = [held EXCEPT ![t] = i]
  /\ UNCHANGED <<appended, status>>

Appends(on, on1, q, i) ==
  /\ on[i] = NULL
  /\ next[i] = NULL
  /\ ~ Gone(on, i)
  /\ on1 = AfterAppend(on, i, q)
  /\ first' = [first EXCEPT ![q] = IF @ = NULL THEN i ELSE @]
  /\ last' = [last EXCEPT ![q] = i]
  /\ next' = [j \in Item |-> IF j = last[q] THEN i ELSE next[j]]
  /\ \A t \in Thread : held[t] # i => held'[t] = held[t]
  /\ \A t \in Thread : held'[t] # NULL => held'[t] = held[t]
  /\ \A j \in Item : j <= appended' => j <= appended \/ j = i
  /\ \A j \in Item : j > appended' => j > appended
  /\ q = 0 => i > appended
  /\ UNCHANGED status

Prepends(on, on1, q, i, t) ==
  /\ i = held[t]
  /\ on[i] = NULL
  /\ next[i] = NULL
  /\ on1 = AfterPrepend(on, i, q)
  /\ first' = [first EXCEPT ![q] = i]
  /\ next' = [next EXCEPT ![i] = first[q]]
  /\ held' = [held EXCEPT ![t] = NULL]
  /\ OnePerPriority => q # 0
  /\ UNCHANGED <<last, appended, status>>

ListStep(on, on1) ==
  \/ Rests(on, on1) /\ (Unfailed \/ \E t \in Conn : Abandon(t))
  \/ /\ \E t \in Reader, q \in Queue, i \in Item : Takes(on, on1, t, q, i)
     /\ Unfailed
  \/ /\ \E q \in {0, DataQ}, i \in Item : Appends(on, on1, q, i)
     /\ Unfailed
  \/ \E q \in Level, i \in Item, t \in Conn :
       Prepends(on, on1, q, i, t) /\ Requeues(t, q)

-----------------------------------------------------------------------------
(* Every step is one of the four.                                           *)
LEMMA QuietStep ==
  ASSUME DownloadInv, NEW on \in [Item -> Queue \cup {NULL}], Ledger(on),
         UNCHANGED <<first, last, next, prev, held, appended, data, status,
                     destroyed>>
  PROVE  Ledger(on)' /\ Rests(on, on)
<1>1. Ledger(on)'
  <2>1. Client \in Thread /\ held[Client] = NULL /\ TypeOK
    BY Threads DEF DownloadInv, ThreadInv
  <2>2. QED
    BY <2>1, SameLedger
<1>2. Rests(on, on)
  BY DEF Rests
<1>3. QED
  BY <1>1, <1>2

LEMMA VerdictStep ==
  ASSUME DownloadInv, NEW on \in [Item -> Queue \cup {NULL}], Ledger(on),
         NEW t \in Thread, held[t] \in Item,
         UNCHANGED <<first, last, next, prev, appended>>,
         held' = [held EXCEPT ![t] = NULL] \/ held' = held,
         held[t] \in destroyed' => held' = [held EXCEPT ![t] = NULL],
         status'[held[t]] # "NEW",
         \A j \in Item : j # held[t] =>
           /\ status'[j] = status[j]
           /\ j \in data' <=> j \in data
           /\ j \in destroyed' <=> j \in destroyed
  PROVE  Ledger(on)' /\ Rests(on, on)
<1>1. /\ \A u \in Thread : u # t => held'[u] = held[u]
      /\ held'[t] = NULL \/ held' = held
      /\ held[t] \in destroyed' => held'[t] = NULL
      /\ TypeOK
  BY DEF DownloadInv, TypeOK, QueueTypeOK
<1>2. Ledger(on)'
  BY <1>1, SameLedger
<1>3. Rests(on, on)
  BY <1>1 DEF Rests
<1>4. QED
  BY <1>2, <1>3

LEMMA TakeStep ==
  ASSUME DownloadInv, NEW on \in [Item -> Queue \cup {NULL}], Ledger(on),
         NEW t \in Reader, NEW s \in Server \cup {NULL},
         (s = NULL) <=> (t = Processor), NEW p,
         Shift(t, s, p), UNCHANGED fetchVars
  PROVE  \E on1 \in [Item -> Queue \cup {NULL}] :
           /\ Ledger(on1)'
           /\ Takes(on, on1, t, Home[t], first[Home[t]])
<1> DEFINE q == Home[t]
           i == first[q]
<1>1. UNCHANGED <<appended, status>>
  BY DEF fetchVars, clientVars, segmentVars
<1>2. t \in Thread /\ q \in Queue /\ (q = DataQ <=> t = Processor)
  BY Threads, Queues
<1>3. /\ held[t] = NULL
      /\ held' = [held EXCEPT ![t] = i]
      /\ i \in Item
      /\ on[i] = q
      /\ Candidate(q, s) = i
  BY ShiftTakes
<1>4. PICK on1 \in [Item -> Queue \cup {NULL}] :
        on1 = AfterShift(on, q) /\ Ledger(on1)'
  BY ShiftTakes
<1>5. /\ first' = [first EXCEPT ![q] = next[i]]
      /\ last' = [last EXCEPT ![q] = IF @ = i THEN NULL ELSE @]
      /\ next' = NextAfter(i, s)
  BY <1>3 DEF Shift, FirstAfter, LastAfter
<1>6. s # NULL /\ prev[i] # NULL => Gone(on, prev[i])
  BY <1>2, <1>3, FrontPrev DEF DownloadInv
<1>7. ASSUME NEW j \in Item
      PROVE  \/ next'[j] = next[j]
             \/ j = i /\ next'[j] = NULL
             \/ Gone(on, j) /\ next'[j] = next[i]
  BY <1>5, <1>6, Items DEF NextAfter
<1>8. QED
  BY <1>1, <1>3, <1>4, <1>5, <1>7 DEF Takes

(* The searches of nttp_handle_retrieve_error when no two servers have the  *)
(* same priority.                                                           *)
LEMMA OneServer ==
  ASSUME OnePerPriority, NEW s \in Server
  PROVE  SamePrioServers(s) = 1
<1>1. {r \in Server : Priority[r] = Priority[s]} = {s}
  BY DEF OnePerPriority
<1>2. QED
  BY <1>1, FS_Singleton DEF SamePrioServers

LEMMA RequeueStep ==
  ASSUME DownloadInv, NEW on \in [Item -> Queue \cup {NULL}], Ledger(on),
         NEW t \in Conn, PutBack(t) \/ MoveOn(t)
  PROVE  \E on1 \in [Item -> Queue \cup {NULL}], q \in Level :
           Ledger(on1)' /\ Prepends(on, on1, q, held[t], t) /\ Requeues(t, q)
<1>1. /\ RetrieveFails(t)
      /\ UNCHANGED status
      /\ ServerOf[t] \in Server
      /\ t \in Thread
  BY Queues, Threads DEF PutBack, MoveOn
<1>2. held[t] \in Item
  BY <1>1, Threads DEF RetrieveFails, DownloadInv, ThreadInv, TypeOK, QueueTypeOK
<1>3. PICK q \in Level :
        LinkFirst(t, q, held[t]) /\ (OnePerPriority => q # 0) /\ Requeues(t, q)
  <2>1. CASE PutBack(t)
    <3>1. LinkFirst(t, Home[t], held[t]) /\ Home[t] \in Level
      BY <2>1, Queues DEF PutBack
    <3>2. ~ OnePerPriority
      <4>1. failed[held[t]] \in Seq(Server \cup {NULL})
        BY <1>2 DEF DownloadInv, TypeOK, QueueTypeOK
      <4>2. Len(Append(failed[held[t]], NULL)) = Len(failed[held[t]]) + 1
        BY <4>1
      <4>3. Len(Failures(t)) >= 1
        BY <4>1, <4>2 DEF Failures, FailedServer
      <4>4. Len(Failures(t)) < SamePrioServers(ServerOf[t])
        BY <2>1 DEF PutBack
      <4>5. Len(Failures(t)) \in Nat
        BY <4>1, <4>2 DEF Failures, FailedServer
      <4>6. QED
        BY <1>1, <4>3, <4>4, <4>5, OneServer
    <3>3. QED
      BY <2>1, <3>1, <3>2 DEF Requeues
  <2>2. CASE MoveOn(t)
    <3>1. PICK n \in HigherServers(ServerOf[t]) :
            /\ LinkFirst(t, Priority[ServerList[n]], held[t])
            /\ \A m \in HigherServers(ServerOf[t]) : n <= m
      BY <2>2 DEF MoveOn
    <3>2. /\ n \in 1 .. Len(ServerList)
          /\ Priority[ServerList[n]] > Priority[ServerOf[t]]
      BY DEF HigherServers, TotalServers
    <3>3. Priority[ServerList[n]] \in Level
      BY <3>2, Queues
    <3>4. Priority[ServerList[n]] # 0
      <4>1. Priority \in [Server -> Nat] /\ ServerList[n] \in Server
        BY <3>2, DownloadAssumption
      <4>2. QED
        BY <4>1, <3>2, <1>1
    <3>5. QED
      BY <2>2, <3>1, <3>3, <3>4 DEF Requeues
  <2>3. QED
    BY <2>1, <2>2
<1>4. PICK on1 \in [Item -> Queue \cup {NULL}] :
        on1 = AfterPrepend(on, held[t], q) /\ Ledger(on1)'
  BY <1>1, <1>3, RequeueLedger
<1>5. on[held[t]] = NULL /\ next[held[t]] = NULL
  BY <1>1, <1>2, Items DEF Ledger, HeldInv
<1>6. QED
  BY <1>1, <1>3, <1>4, <1>5
     DEF Prepends, LinkFirst, RetrieveFails, clientVars

LEMMA AppendSegmentStep ==
  ASSUME DownloadInv, NEW on \in [Item -> Queue \cup {NULL}], Ledger(on),
         AppendSegment
  PROVE  \E on1 \in [Item -> Queue \cup {NULL}] :
           Ledger(on1)' /\ Appends(on, on1, 0, appended + 1)
<1> DEFINE i == appended + 1
<1>1. /\ LinkLast(Client, 0, i)
      /\ appended' = i
      /\ UNCHANGED <<held, status>>
  BY DEF AppendSegment, segmentVars
<1>2. i \in Item /\ appended \in Nat
  BY Items DEF AppendSegment, DownloadInv, ThreadInv, TypeOK
<1>3. /\ ~ (i <= appended)
      /\ i > appended
      /\ \A j \in Item : j > appended' => j > appended
  <2>1. \A j \in Item : j \in Nat
    BY Items
  <2>2. \A j \in Nat : j > appended + 1 => j > appended
    BY <1>2
  <2>3. QED
    BY <1>1, <1>2, <2>1, <2>2
<1>4. on[i] = NULL /\ next[i] = NULL /\ ~ Gone(on, i)
  BY <1>2, <1>3 DEF Ledger, FreshInv, Gone
<1>5. \A j \in Item : j <= appended' => j <= appended \/ j = i
  <2>1. \A j \in Item : j \in Nat
    BY Items
  <2>2. \A j \in Nat : j <= appended + 1 => j <= appended \/ j = appended + 1
    BY <1>2
  <2>3. QED
    BY <1>1, <2>1, <2>2
<1>6. PICK on1 \in [Item -> Queue \cup {NULL}] :
        on1 = AfterAppend(on, i, 0) /\ Ledger(on1)'
  BY AppendSegmentLedger
<1>7. /\ first' = [first EXCEPT ![0] = IF @ = NULL THEN i ELSE @]
      /\ last' = [last EXCEPT ![0] = i]
      /\ next' = [j \in Item |-> IF j = last[0] THEN i ELSE next[j]]
  BY <1>1 DEF LinkLast
<1>8. Appends(on, on1, 0, i)
  BY <1>1, <1>3, <1>4, <1>5, <1>6, <1>7 DEF Appends
<1>9. QED
  BY <1>6, <1>8

LEMMA RetrievedStep ==
  ASSUME DownloadInv, NEW on \in [Item -> Queue \cup {NULL}], Ledger(on),
         NEW t \in Conn, Retrieved(t)
  PROVE  \E on1 \in [Item -> Queue \cup {NULL}] :
           Ledger(on1)' /\ Appends(on, on1, DataQ, held[t])
<1> DEFINE i == held[t]
<1>1. /\ LinkLast(t, DataQ, i)
      /\ held' = [held EXCEPT ![t] = NULL]
      /\ pc[t] = "retrieve"
      /\ UNCHANGED <<appended, status>>
      /\ t \in Thread
  BY Threads DEF Retrieved, clientVars
<1>2. i \in Item /\ i # NULL
  BY <1>1, Items DEF DownloadInv, ThreadInv, TypeOK, QueueTypeOK
<1>3. on[i] = NULL /\ next[i] = NULL /\ ~ Gone(on, i)
  BY <1>1, <1>2 DEF Ledger, HeldInv, Gone
<1>4. PICK on1 \in [Item -> Queue \cup {NULL}] :
        on1 = AfterAppend(on, i, DataQ) /\ Ledger(on1)'
  BY RetrievedLedger
<1>5. \A u \in Thread : /\ held[u] # i => held'[u] = held[u]
                        /\ held'[u] # NULL => held'[u] = held[u]
  BY <1>1 DEF DownloadInv, TypeOK, QueueTypeOK
<1>6. appended \in Nat /\ DataQ # 0
  BY Queues DEF DownloadInv, TypeOK
<1>7. QED
  BY <1>1, <1>3, <1>4, <1>5, <1>6 DEF Appends, LinkLast

LEMMA LedgerStep ==
  ASSUME DownloadInv, [DownloadNext]_downloadVars,
         NEW on \in [Item -> Queue \cup {NULL}], Ledger(on)
  PROVE  \E on1 \in [Item -> Queue \cup {NULL}] : Ledger(on1)' /\ ListStep(on, on1)
<1> DEFINE Quiet == UNCHANGED <<first, last, next, prev, failed, held, appended,
                                data, status, destroyed, attempts>>
<1>1. CASE Quiet
  BY <1>1, QuietStep DEF ListStep, Unfailed, Abandoned
<1>2. CASE ClientStep
  <2>1. CASE AppendSegment
    <3>1. Unfailed
      BY <2>1 DEF AppendSegment, segmentVars, Unfailed, Abandoned
    <3>2. QED
      BY <2>1, <3>1, AppendSegmentStep DEF ListStep, AppendSegment, DownloadInv,
                                           ThreadInv
  <2>2. CASE StartDownload \/ AppendSignal
    <3>1. Quiet
      BY <2>2 DEF StartDownload, AppendSignal, Signal, listVars, clientVars,
                  segmentVars
    <3>2. QED
      BY <3>1, <1>1
  <2>3. QED
    BY <1>2, <2>1, <2>2 DEF ClientStep
<1>3. ASSUME NEW t \in Conn, ConnStep(t)
      PROVE  \E on1 \in [Item -> Queue \cup {NULL}] : Ledger(on1)' /\ ListStep(on, on1)
  <2>1. t \in Reader /\ t \in Thread /\ t # Processor
        /\ ServerOf[t] \in Server /\ NULL \notin Server /\ Home[t] \in Queue
    BY Threads, Queues
  <2>2. CASE Connect(t) \/ GiveUp(t) \/ SignalQueue(t)
    <3>1. Quiet
      BY <2>2 DEF Connect, GiveUp, SignalQueue, Signal, listVars, fetchVars,
                  clientVars, segmentVars
    <3>2. QED
      BY <3>1, <1>1
  <2>3. CASE TakeItem(t)
    <3>1. CASE ShiftEmpty(t) \/ Sleep(t)
      <4>1. Quiet
        BY <2>3, <3>1 DEF TakeItem, ShiftEmpty, Sleep, listVars, fetchVars,
                          clientVars, segmentVars
      <4>2. QED
        BY <4>1, <1>1
    <3>2. CASE Shift(t, ServerOf[t], "retrieve")
      <4>1. Unfailed
        BY <2>3, <3>2 DEF TakeItem, Shift, fetchVars, segmentVars, Unfailed, Abandoned
      <4>2. QED
        BY <2>1, <2>3, <3>2, <4>1, TakeStep DEF TakeItem, ListStep, Takes
    <3>3. QED
      BY <2>3, <3>1, <3>2 DEF TakeItem
  <2>4. CASE Retrieved(t)
    <3>1. held[t] \in Item
      BY <2>1, <2>4 DEF Retrieved, DownloadInv, ThreadInv, TypeOK, QueueTypeOK
    <3>2. Unfailed
      BY <2>4 DEF Retrieved, Unfailed, Abandoned
    <3>3. QED
      BY <3>1, <3>2, <2>4, RetrievedStep DEF ListStep
  <2>5. CASE PutBack(t) \/ MoveOn(t)
    <3>1. held[t] \in Item
      BY <2>1, <2>5 DEF PutBack, MoveOn, RetrieveFails, DownloadInv, ThreadInv,
                        TypeOK, QueueTypeOK
    <3>2. QED
      BY <3>1, <2>5, RequeueStep DEF ListStep
  <2>6. CASE Abandon(t)
    <3>1. held[t] \in Item
      BY <2>1, <2>6 DEF Abandon, RetrieveFails, DownloadInv, ThreadInv, TypeOK,
                        QueueTypeOK
    <3>2. /\ held' = [held EXCEPT ![t] = NULL]
          /\ status' = [status EXCEPT ![held[t]] = "ERROR"]
          /\ UNCHANGED <<first, last, next, prev, appended, data, destroyed>>
      BY <2>6 DEF Abandon, RetrieveFails, listVars, clientVars
    <3>3. /\ status'[held[t]] # "NEW"
          /\ \A j \in Item : j # held[t] => status'[j] = status[j]
      BY <3>1, <3>2 DEF DownloadInv, TypeOK
    <3>4. Ledger(on)' /\ Rests(on, on)
      BY <2>1, <3>1, <3>2, <3>3, VerdictStep
    <3>5. QED
      BY <2>6, <3>4 DEF ListStep
  <2>7. QED
    BY <1>3, <2>2, <2>3, <2>4, <2>5, <2>6 DEF ConnStep
<1>4. CASE ProcessorStep
  <2>1. Processor \in Thread /\ Processor \in Reader /\ Home[Processor] \in Queue
    BY Threads, Queues
  <2>2. CASE ReceiveItem
    <3>1. CASE ShiftEmpty(Processor) \/ Sleep(Processor)
      <4>1. Quiet
        BY <2>2, <3>1 DEF ReceiveItem, ShiftEmpty, Sleep, listVars, fetchVars,
                          clientVars, segmentVars
      <4>2. QED
        BY <4>1, <1>1
    <3>2. CASE Shift(Processor, NULL, "decode")
      <4>1. Unfailed
        BY <2>2, <3>2 DEF ReceiveItem, Shift, fetchVars, segmentVars, Unfailed,
                          Abandoned
      <4>2. QED
        BY <2>1, <2>2, <3>2, <4>1, TakeStep DEF ReceiveItem, ListStep, Takes
    <3>3. QED
      BY <2>2, <3>1, <3>2 DEF ReceiveItem
  <2>3. CASE DecodeFails \/ Decoded \/ CheckPost
    <3> DEFINE i == held[Processor]
    <3>1. i \in Item
      BY <2>3, WorkItem DEF DecodeFails, Decoded, CheckPost
    <3>2. /\ UNCHANGED <<first, last, next, prev, appended>>
          /\ held' = [held EXCEPT ![Processor] = NULL] \/ held' = held
          /\ i \in destroyed' => held' = [held EXCEPT ![Processor] = NULL]
      <4>1. i \notin destroyed
        BY <2>1, <3>1, Items DEF Ledger, HeldInv
      <4>2. QED
        BY <4>1, <2>3 DEF DecodeFails, Decoded, CheckPost, listVars, clientVars
    <3>3. \A j \in Item : j # i =>
            /\ status'[j] = status[j]
            /\ j \in data' <=> j \in data
            /\ j \in destroyed' <=> j \in destroyed
      BY <2>3 DEF DecodeFails, Decoded, CheckPost, DownloadInv, TypeOK
    <3>4. status'[i] # "NEW"
      <4>1. CASE DecodeFails \/ Decoded
        BY <4>1, <3>1 DEF DecodeFails, Decoded, DownloadInv, TypeOK
      <4>2. CASE CheckPost
        BY <4>2 DEF CheckPost, DownloadInv, WorkInv
      <4>3. QED
        BY <2>3, <4>1, <4>2
    <3>5. Unfailed
      <4>1. UNCHANGED <<failed, attempts>>
        BY <2>3 DEF DecodeFails, Decoded, CheckPost
      <4>2. status'[i] = "ERROR" /\ i \notin destroyed' => Abandoned(i)
        <5>1. CASE DecodeFails \/ CheckPost
          BY <5>1 DEF DecodeFails, CheckPost, Abandoned
        <5>2. CASE Decoded
          BY <3>1, <5>2 DEF Decoded, Abandoned, DownloadInv, TypeOK
        <5>3. QED
          BY <2>3, <5>1, <5>2
      <4>3. QED
        BY <3>3, <4>1, <4>2 DEF Unfailed, Abandoned
    <3>6. Ledger(on)' /\ Rests(on, on)
      BY <2>1, <3>1, <3>2, <3>3, <3>4, VerdictStep
    <3>7. QED
      BY <3>5, <3>6 DEF ListStep
  <2>4. QED
    BY <1>4, <2>2, <2>3 DEF ProcessorStep
<1>5. ASSUME NEW t \in Reader, Woken(t) PROVE Quiet
  BY <1>5 DEF Woken, SpuriousWake, listVars, fetchVars, clientVars, segmentVars
<1>6. CASE UNCHANGED downloadVars
  <2>1. Quiet
    BY <1>6 DEF downloadVars, queueVars, segmentVars, clientVars
  <2>2. QED
    BY <2>1, <1>1
<1>7. QED
  BY <1>1, <1>2, <1>3, <1>4, <1>5, <1>6 DEF DownloadNext

-----------------------------------------------------------------------------
(* The shape of the lists.  Along `next' the items of a list have rising    *)
(* ranks, none is below the first, and only the first has no predecessor.   *)
Lined(on, rank) ==
  /\ \A i \in Item : on[i] # NULL /\ next[i] # NULL => rank[next[i]] = rank[i] + 1
  /\ \A i \in Item : on[i] # NULL => rank[first[on[i]]] <= rank[i]
  /\ \A i \in Item : on[i] # NULL /\ i # first[on[i]] =>
       \E j \in Item : on[j] = on[i] /\ next[j] = i

NoLoop == \A i \in Item : next[i] # i

(* What the ledger says of an item and of the front of a queue.             *)
LEMMA LedgerFacts ==
  ASSUME TypeOK, NEW on \in [Item -> Queue \cup {NULL}], Ledger(on)
  PROVE  /\ \A q \in Queue : q # NULL
         /\ \A i \in Item : i # NULL
         /\ \A q \in Queue : first[q] \in Item \/ first[q] = NULL
         /\ \A q \in Queue : first[q] # NULL => on[first[q]] = q
         /\ \A i \in Item : on[i] # NULL => on[i] \in Queue /\ first[on[i]] \in Item
         /\ \A i \in Item : next[i] \in Item \/ next[i] = NULL
         /\ \A i \in Item : on[i] # NULL /\ next[i] # NULL =>
              on[next[i]] = on[i] /\ next[i] # first[on[i]]
         /\ \A i \in Item : on[i] # NULL => ~ Gone(on, i)
<1>1. /\ \A q \in Queue : q # NULL
      /\ \A i \in Item : i # NULL
  BY Queues, Items
<1>2. /\ \A q \in Queue : first[q] \in Item \/ first[q] = NULL
      /\ \A i \in Item : next[i] \in Item \/ next[i] = NULL
  BY DEF TypeOK, QueueTypeOK
<1>3. NextInv(on)
  BY DEF Ledger
<1>4. \A i \in Item : on[i] # NULL => on[i] \in Queue /\ first[on[i]] \in Item
  BY <1>2, <1>3 DEF NextInv
<1>5. QED
  BY <1>1, <1>2, <1>3, <1>4 DEF NextInv, Gone

(* A first item that leads to no other is alone.                            *)
LEMMA OnlyFirst ==
  ASSUME TypeOK, NEW on \in [Item -> Queue \cup {NULL}], Ledger(on),
         NEW rank \in [Item -> Int], Lined(on, rank),
         NEW q \in Queue, first[q] \in Item, next[first[q]] = NULL,
         NEW j \in Item, on[j] = q
  PROVE  j = first[q]
<1> DEFINE i == first[q]
           T == {k \in Nat : \E m \in Item : on[m] = q /\ m # i /\ rank[m] - rank[i] = k}
<1>1. \A m \in Item : on[m] = q => rank[m] - rank[i] \in Nat
  BY LedgerFacts DEF Lined
<1>2. ASSUME T # {} PROVE FALSE
  <2>1. PICK k \in T : \A n \in T : k <= n
    BY <1>2, LeastNatural
  <2>2. PICK m \in Item : on[m] = q /\ m # i /\ rank[m] - rank[i] = k
    OBVIOUS
  <2>3. PICK p \in Item : on[p] = q /\ next[p] = m
    BY <2>2, LedgerFacts DEF Lined
  <2>4. p # i
    BY <2>3, LedgerFacts
  <2>5. rank[m] = rank[p] + 1
    BY <2>2, <2>3, LedgerFacts DEF Lined
  <2>6. rank[p] - rank[i] \in T
    BY <1>1, <2>3, <2>4
  <2>7. rank[p] \in Int /\ rank[i] \in Int /\ rank[m] \in Int
    OBVIOUS
  <2>8. QED
    BY <2>1, <2>2, <2>5, <2>6, <2>7
<1>3. QED
  BY <1>1, <1>2

LEMMA TakeLined ==
  ASSUME TypeOK, NEW on \in [Item -> Queue \cup {NULL}], Ledger(on),
         NEW on1 \in [Item -> Queue \cup {NULL}],
         NEW rank \in [Item -> Int], Lined(on, rank), NoLoop,
         NEW t \in Reader, NEW q \in Queue, NEW i \in Item,
         Takes(on, on1, t, q, i)
  PROVE  NoLoop' /\ Lined(on1, rank)'
<1> DEFINE n == next[i]
<1>1. /\ i = first[q]
      /\ on[i] = q
      /\ \A r \in Queue : first'[r] = IF r = q THEN n ELSE first[r]
      /\ \A j \in Item : on1[j] = IF j = i \/ (n = NULL /\ on[j] = q)
                                  THEN NULL ELSE on[j]
      /\ \A j \in Item : \/ next'[j] = next[j]
                         \/ j = i /\ next'[j] = NULL
                         \/ Gone(on, j) /\ next'[j] = n
  BY DEF Takes, AfterShift, TypeOK, QueueTypeOK
<1>2. n # NULL => n \in Item /\ on[n] = q /\ n # i
  BY <1>1, LedgerFacts
<1>3. NoLoop'
  BY <1>1, <1>2, LedgerFacts DEF NoLoop, Gone
<1>4. \A j \in Item : on1[j] # NULL =>
        /\ j # i
        /\ on1[j] = on[j]
        /\ next'[j] = next[j]
        /\ on[j] = q => n # NULL
  BY <1>1, LedgerFacts
<1>5. ASSUME NEW j \in Item, on1[j] # NULL, next'[j] # NULL
      PROVE  rank[next'[j]] = rank[j] + 1
  BY <1>4, <1>5 DEF Lined
<1>6. ASSUME NEW j \in Item, on1[j] # NULL
      PROVE  rank[first'[on1[j]]] <= rank[j]
  <2>1. CASE on[j] = q
    <3>1. PICK k \in Item : on[k] = q /\ next[k] = j
      BY <1>1, <1>4, <1>6, <2>1, LedgerFacts DEF Lined
    <3>2. rank[j] = rank[k] + 1
      BY <3>1, LedgerFacts DEF Lined
    <3>3. rank[i] <= rank[k]
      BY <1>1, <3>1, LedgerFacts DEF Lined
    <3>4. first'[on1[j]] = n /\ n \in Item /\ rank[n] = rank[i] + 1
      BY <1>1, <1>2, <1>4, <1>6, <2>1, LedgerFacts DEF Lined
    <3>5. rank[j] \in Int /\ rank[k] \in Int /\ rank[i] \in Int
      OBVIOUS
    <3>6. QED
      BY <3>2, <3>3, <3>4, <3>5
  <2>2. CASE on[j] # q
    BY <1>1, <1>4, <1>6, <2>2, LedgerFacts DEF Lined
  <2>3. QED
    BY <2>1, <2>2
<1>7. ASSUME NEW j \in Item, on1[j] # NULL, j # first'[on1[j]]
      PROVE  \E k \in Item : on1[k] = on1[j] /\ next'[k] = j
  <2>1. j # first[on[j]]
    BY <1>1, <1>4, <1>7, LedgerFacts
  <2>2. PICK k \in Item : on[k] = on[j] /\ next[k] = j
    BY <1>4, <1>7, <2>1 DEF Lined
  <2>3. k # i
    BY <1>1, <1>4, <1>7, <2>2, LedgerFacts
  <2>4. on1[k] = on[k]
    BY <1>1, <1>4, <1>7, <2>2, <2>3
  <2>5. QED
    BY <1>4, <1>7, <2>2, <2>4
<1>8. QED
  BY <1>3, <1>5, <1>6, <1>7 DEF Lined

LEMMA AppendLined ==
  ASSUME TypeOK, NEW on \in [Item -> Queue \cup {NULL}], Ledger(on),
         NEW on1 \in [Item -> Queue \cup {NULL}],
         NEW rank \in [Item -> Int], Lined(on, rank), NoLoop,
         NEW q \in Queue, NEW i \in Item, Appends(on, on1, q, i)
  PROVE  NoLoop' /\ \E rank1 \in [Item -> Int] : Lined(on1, rank1)'
<1> DEFINE l == last[q]
           behind == l # NULL /\ on[l] = q
<1>1. /\ on[i] = NULL
      /\ next[i] = NULL
      /\ ~ Gone(on, i)
      /\ \A r \in Queue : first'[r] = IF r = q /\ first[q] = NULL THEN i ELSE first[r]
      /\ \A j \in Item : next'[j] = IF j = l THEN i ELSE next[j]
      /\ \A j \in Item : on1[j] = IF j = i /\ (first[q] = NULL \/ behind)
                                  THEN q ELSE on[j]
  BY DEF Appends, AfterAppend, TypeOK, QueueTypeOK
<1>2. /\ l \in Item \cup {NULL}
      /\ l # NULL => Gone(on, l) \/ (on[l] = q /\ next[l] = NULL)
      /\ l # i
  <2>1. l \in Item \cup {NULL} /\ i # NULL
    BY LedgerFacts DEF TypeOK, QueueTypeOK
  <2>2. l # NULL => Gone(on, l) \/ (on[l] = q /\ next[l] = NULL)
    BY DEF Ledger, EndInv
  <2>3. QED
    BY <1>1, <2>1, <2>2, LedgerFacts
<1>3. NoLoop'
  BY <1>1, <1>2 DEF NoLoop
<1>4. PICK rank1 \in [Item -> Int] :
        /\ rank1[i] = IF behind THEN rank[l] + 1 ELSE 0
        /\ \A j \in Item : j # i => rank1[j] = rank[j]
  <2>1. behind => rank[l] + 1 \in Int
    BY <1>2
  <2>2. [rank EXCEPT ![i] = IF behind THEN rank[l] + 1 ELSE 0] \in [Item -> Int]
    BY <2>1
  <2>3. QED
    BY <2>2
<1>5. \A j \in Item : on[j] # NULL =>
        /\ j # i
        /\ first[on[j]] \in Item
        /\ first[on[j]] # i
        /\ first'[on[j]] = first[on[j]]
        /\ next[j] # i
        /\ on1[j] = on[j]
  BY <1>1, LedgerFacts
<1>6. \A j \in Item : on1[j] # NULL /\ j # i => on[j] # NULL
  BY <1>1
<1>7. ASSUME NEW j \in Item, on1[j] # NULL, next'[j] # NULL
      PROVE  rank1[next'[j]] = rank1[j] + 1
  <2>1. j # i
    BY <1>1, <1>2, <1>7
  <2>2. CASE j = l
    BY <2>1, <2>2, <1>1, <1>2, <1>4, <1>6, <1>7, LedgerFacts
  <2>3. CASE j # l
    <3>1. on[j] # NULL /\ next'[j] = next[j] /\ next[j] # NULL /\ next[j] # i
      BY <2>1, <2>3, <1>1, <1>5, <1>6, <1>7
    <3>2. next[j] \in Item /\ rank[next[j]] = rank[j] + 1
      BY <3>1, LedgerFacts DEF Lined
    <3>3. QED
      BY <2>1, <3>1, <3>2, <1>4
  <2>4. QED
    BY <2>2, <2>3
<1>8. ASSUME NEW j \in Item, on1[j] # NULL
      PROVE  rank1[first'[on1[j]]] <= rank1[j]
  <2>1. CASE j # i
    BY <2>1, <1>4, <1>5, <1>6, <1>8 DEF Lined
  <2>2. CASE j = i /\ first[q] = NULL
    <3>1. on1[j] = q /\ first'[q] = i
      BY <2>2, <1>1
    <3>2. QED
      BY <2>2, <3>1
  <2>3. CASE j = i /\ first[q] # NULL
    <3>1. on1[j] = q /\ behind /\ l \in Item /\ l # i
      BY <2>3, <1>1, <1>2, <1>8
    <3>2. first'[q] = first[q] /\ first[q] \in Item /\ first[q] # i
      BY <3>1, <1>5, LedgerFacts
    <3>3. rank[first[q]] <= rank[l]
      BY <3>1, LedgerFacts DEF Lined
    <3>4. rank1[first[q]] = rank[first[q]] /\ rank1[i] = rank[l] + 1
      BY <3>1, <3>2, <1>4
    <3>5. rank[first[q]] \in Int /\ rank[l] \in Int
      BY <3>1, <3>2
    <3>6. QED
      BY <2>3, <3>1, <3>2, <3>3, <3>4, <3>5
  <2>4. QED
    BY <2>1, <2>2, <2>3
<1>9. ASSUME NEW j \in Item, on1[j] # NULL, j # first'[on1[j]]
      PROVE  \E k \in Item : on1[k] = on1[j] /\ next'[k] = j
  <2>1. CASE j # i
    <3>1. PICK k \in Item : on[k] = on[j] /\ next[k] = j
      BY <2>1, <1>5, <1>6, <1>9 DEF Lined
    <3>2. k # l
      BY <3>1, <2>1, <1>2, <1>6, <1>9, LedgerFacts
    <3>3. QED
      BY <3>1, <3>2, <2>1, <1>1, <1>5, <1>6, <1>9
  <2>2. CASE j = i
    <3>1. on1[j] = q /\ behind /\ l \in Item
      BY <2>2, <1>1, <1>2, <1>9
    <3>2. QED
      BY <2>2, <3>1, <1>1, <1>5, LedgerFacts
  <2>3. QED
    BY <2>1, <2>2
<1>10. Lined(on1, rank1)'
  BY <1>7, <1>8, <1>9 DEF Lined
<1>11. QED
  BY <1>3, <1>10

LEMMA PrependLined ==
  ASSUME TypeOK, NEW on \in [Item -> Queue \cup {NULL}], Ledger(on),
         NEW on1 \in [Item -> Queue \cup {NULL}],
         NEW rank \in [Item -> Int], Lined(on, rank), NoLoop,
         NEW q \in Queue, NEW i \in Item, NEW t \in Thread,
         Prepends(on, on1, q, i, t)
  PROVE  NoLoop' /\ \E rank1 \in [Item -> Int] : Lined(on1, rank1)'
<1> DEFINE f == first[q]
<1>1. /\ on[i] = NULL
      /\ next[i] = NULL
      /\ \A r \in Queue : first'[r] = IF r = q THEN i ELSE first[r]
      /\ \A j \in Item : next'[j] = IF j = i THEN f ELSE next[j]
      /\ \A j \in Item : on1[j] = IF j = i THEN q ELSE on[j]
  BY DEF Prepends, AfterPrepend, TypeOK, QueueTypeOK
<1>2. f # NULL => f \in Item /\ on[f] = q /\ f # i
  BY <1>1, LedgerFacts
<1>3. NoLoop'
  BY <1>1, <1>2, LedgerFacts DEF NoLoop
<1>4. PICK rank1 \in [Item -> Int] :
        /\ f # NULL => rank1[i] = rank[f] - 1
        /\ \A j \in Item : j # i => rank1[j] = rank[j]
  <2>1. f # NULL => rank[f] - 1 \in Int
    BY <1>2
  <2>2. [rank EXCEPT ![i] = IF f = NULL THEN 0 ELSE rank[f] - 1] \in [Item -> Int]
    BY <2>1
  <2>3. QED
    BY <2>2
<1>5. \A j \in Item : on[j] # NULL =>
        /\ j # i
        /\ first[on[j]] \in Item
        /\ first[on[j]] # i
        /\ next[j] # i
  BY <1>1, LedgerFacts
<1>6. ASSUME NEW j \in Item, on1[j] # NULL, next'[j] # NULL
      PROVE  rank1[next'[j]] = rank1[j] + 1
  <2>1. CASE j = i
    <3>1. next'[j] = f /\ f \in Item /\ f # i
      BY <2>1, <1>1, <1>2, <1>6
    <3>2. rank1[f] = rank[f] /\ rank1[i] = rank[f] - 1 /\ rank[f] \in Int
      BY <3>1, <1>4, <1>6
    <3>3. QED
      BY <2>1, <3>1, <3>2
  <2>2. CASE j # i
    <3>1. /\ on[j] # NULL
          /\ next'[j] = next[j]
          /\ next[j] \in Item
          /\ next[j] # i
      BY <2>2, <1>1, <1>5, <1>6, LedgerFacts
    <3>2. rank[next[j]] = rank[j] + 1
      BY <3>1, <1>6 DEF Lined
    <3>3. QED
      BY <2>2, <3>1, <3>2, <1>4
  <2>3. QED
    BY <2>1, <2>2
<1>7. ASSUME NEW j \in Item, on1[j] # NULL
      PROVE  rank1[first'[on1[j]]] <= rank1[j]
  <2>1. CASE j = i
    BY <2>1, <1>1
  <2>2. CASE j # i /\ on[j] = q
    <3>1. f \in Item /\ rank[f] <= rank[j]
      BY <2>2, LedgerFacts DEF Lined
    <3>2. /\ first'[on1[j]] = i
          /\ rank1[i] = rank[f] - 1
          /\ rank1[j] = rank[j]
      BY <2>2, <3>1, <1>1, <1>4, LedgerFacts
    <3>3. rank[f] \in Int /\ rank[j] \in Int
      BY <3>1
    <3>4. QED
      BY <3>1, <3>2, <3>3
  <2>3. CASE j # i /\ on[j] # q
    <3>1. /\ on1[j] = on[j]
          /\ on[j] \in Queue
          /\ first'[on[j]] = first[on[j]]
          /\ first[on[j]] \in Item
          /\ first[on[j]] # i
      BY <2>3, <1>1, <1>5, <1>7, LedgerFacts
    <3>2. rank[first[on[j]]] <= rank[j]
      BY <2>3, <1>1, <1>7 DEF Lined
    <3>3. QED
      BY <2>3, <3>1, <3>2, <1>4
  <2>4. QED
    BY <2>1, <2>2, <2>3
<1>8. ASSUME NEW j \in Item, on1[j] # NULL, j # first'[on1[j]]
      PROVE  \E k \in Item : on1[k] = on1[j] /\ next'[k] = j
  <2>1. j # i /\ on[j] # NULL /\ on1[j] = on[j] /\ on[j] \in Queue
    BY <1>1, <1>8, LedgerFacts
  <2>2. CASE j = first[on[j]]
    BY <2>1, <2>2, <1>1, <1>8
  <2>3. CASE j # first[on[j]]
    <3>1. PICK k \in Item : on[k] = on[j] /\ next[k] = j
      BY <2>1, <2>3 DEF Lined
    <3>2. QED
      BY <2>1, <3>1, <1>1
  <2>4. QED
    BY <2>2, <2>3
<1>9. Lined(on1, rank1)'
  BY <1>6, <1>7, <1>8 DEF Lined
<1>10. QED
  BY <1>3, <1>9

LEMMA ListStepLined ==
  ASSUME TypeOK, NEW on \in [Item -> Queue \cup {NULL}], Ledger(on),
         NEW on1 \in [Item -> Queue \cup {NULL}], ListStep(on, on1),
         NEW rank \in [Item -> Int], Lined(on, rank), NoLoop
  PROVE  NoLoop' /\ \E rank1 \in [Item -> Int] : Lined(on1, rank1)'
<1>1. CASE Rests(on, on1)
  BY <1>1 DEF Rests, NoLoop, Lined
<1>2. CASE \E t \in Reader, q \in Queue, i \in Item : Takes(on, on1, t, q, i)
  BY <1>2, TakeLined
<1>3. CASE \E q \in {0, DataQ}, i \in Item : Appends(on, on1, q, i)
  BY <1>3, Queues, AppendLined
<1>4. CASE \E q \in Level, i \in Item, t \in Conn : Prepends(on, on1, q, i, t)
  BY <1>4, Queues, Threads, PrependLined
<1>5. QED
  BY <1>1, <1>2, <1>3, <1>4 DEF ListStep

-----------------------------------------------------------------------------
(* What can be reached from the front of a queue is what the ledger has on  *)
(* it.                                                                      *)
LEMMA ListedReach ==
  ASSUME NEW q \in Queue, TypeOK
  PROVE  \E f \in [0 .. Cardinality(Item) -> SUBSET Item] :
           /\ f[0] = {first[q]} \ {NULL}
           /\ \A n \in 1 .. Cardinality(Item) :
                f[n] = f[n-1] \cup ({next[i] : i \in f[n-1]} \ {NULL})
           /\ Listed(q) = f[Cardinality(Item)]
<1> DEFINE N == Cardinality(Item)
           a == {first[q]} \ {NULL}
           more == [n \in Nat |-> [X \in SUBSET Item |-> X \cup ({next[i] : i \in X} \ {NULL})]]
           body(f) == [n \in 0 .. N |->
                         IF n = 0 THEN {first[q]} \ {NULL}
                         ELSE f[n-1] \cup ({next[i] : i \in f[n-1]} \ {NULL})]
           reach == CHOOSE f : f = body(f)
<1>1. N \in Nat
  BY Items
<1>2. a \in SUBSET Item /\ more \in [Nat -> [SUBSET Item -> SUBSET Item]]
  <2>1. \A i \in Item : next[i] \in Item \cup {NULL}
    BY DEF TypeOK, QueueTypeOK
  <2>2. a \in SUBSET Item
    BY DEF TypeOK, QueueTypeOK
  <2>3. \A X \in SUBSET Item : X \cup ({next[i] : i \in X} \ {NULL}) \in SUBSET Item
    BY <2>1
  <2>4. QED
    BY <2>2, <2>3
<1>3. PICK f \in [0 .. N -> SUBSET Item] :
        f[0] = a /\ \A n \in 1 .. N : f[n] = more[n][f[n-1]]
  <2>1. Steps(more, SUBSET Item)
    BY <1>2 DEF Steps
  <2> HIDE DEF a, more, N
  <2>2. PICK f : Iterates(f, SUBSET Item, a, more, N)
    BY <1>1, <1>2, <2>1, Iteration, Zenon
  <2>3. QED
    BY <2>2 DEF Iterates
<1>4. \A n \in 1 .. N : f[n] = f[n-1] \cup ({next[i] : i \in f[n-1]} \ {NULL})
  <2> TAKE n \in 1 .. N
  <2>1. n \in Nat /\ n - 1 \in 0 .. N
    BY <1>1
  <2>2. f[n-1] \in SUBSET Item
    BY <2>1
  <2>3. QED
    BY <1>3, <2>1, <2>2
<1>5. f = body(f)
  <2>1. \A n \in 0 .. N : f[n] = body(f)[n]
    <3> TAKE n \in 0 .. N
    <3>1. CASE n = 0
      BY <3>1, <1>3
    <3>2. CASE n # 0
      <4>1. n \in 1 .. N
        BY <3>2
      <4>2. QED
        BY <3>2, <4>1, <1>4
    <3>3. QED
      BY <3>1, <3>2
  <2>2. body(f) = [n \in 0 .. N |-> body(f)[n]] /\ f = [n \in 0 .. N |-> f[n]]
    OBVIOUS
  <2> HIDE DEF body
  <2>3. QED
    BY <2>1, <2>2, Zenon
<1>6. reach = body(reach)
  <2> HIDE DEF body
  <2>1. QED
    BY <1>5
<1>7. Listed(q) = reach[N]
  BY Zenon DEF Listed
<1>8. /\ reach[0] = {first[q]} \ {NULL}
      /\ \A n \in 1 .. N : reach[n] = reach[n-1] \cup ({next[i] : i \in reach[n-1]} \ {NULL})
  <2> DEFINE r == reach
  <2>1. r = body(r)
    BY <1>6
  <2> HIDE DEF reach, r
  <2>2. /\ r[0] = {first[q]} \ {NULL}
        /\ \A n \in 1 .. N : r[n] = r[n-1] \cup ({next[i] : i \in r[n-1]} \ {NULL})
    BY <1>1, <2>1
  <2>3. QED
    BY <2>2 DEF r
<1> HIDE DEF reach
<1>9. \A n \in 0 .. N : reach[n] = f[n]
  <2> DEFINE S == {n \in Nat : reach[n] = f[n]}
  <2>1. 0 \in S
    BY <1>3, <1>8
  <2>2. ASSUME NEW n \in 0 .. N - 1, n \in S PROVE n + 1 \in S
    <3>1. n + 1 \in 1 .. N /\ (n + 1) - 1 = n
      BY <1>1
    <3>2. reach[n + 1] = reach[n] \cup ({next[i] : i \in reach[n]} \ {NULL})
      BY <1>8, <3>1
    <3>3. f[n + 1] = f[n] \cup ({next[i] : i \in f[n]} \ {NULL})
      BY <1>4, <3>1
    <3>4. reach[n] = f[n] /\ n + 1 \in Nat
      BY <2>2
    <3>5. reach[n + 1] = f[n + 1]
      BY <3>2, <3>3, <3>4, Zenon
    <3>6. QED
      BY <3>4, <3>5
  <2> HIDE DEF S
  <2>3. 0 .. N \subseteq S
    BY <1>1, <2>1, <2>2, BoundedInduction
  <2>4. QED
    BY <2>3 DEF S
<1>10. N \in 0 .. N
  BY <1>1
<1>11. QED
  BY <1>3, <1>4, <1>7, <1>9, <1>10

LEMMA ListedOnLedger ==
  ASSUME TypeOK, NEW on \in [Item -> Queue \cup {NULL}], Ledger(on), NEW q \in Queue
  PROVE  Listed(q) \subseteq {i \in Item : on[i] = q}
<1> DEFINE N == Cardinality(Item)
<1>1. PICK f \in [0 .. N -> SUBSET Item] :
        /\ f[0] = {first[q]} \ {NULL}
        /\ \A n \in 1 .. N : f[n] = f[n-1] \cup ({next[i] : i \in f[n-1]} \ {NULL})
        /\ Listed(q) = f[N]
  BY ListedReach
<1> DEFINE S == {n \in 0 .. N : f[n] \subseteq {i \in Item : on[i] = q}}
<1>2. N \in Nat
  BY Items
<1>3. 0 \in S
  BY <1>1, <1>2, LedgerFacts
<1>4. ASSUME NEW n \in 0 .. N - 1, n \in S PROVE n + 1 \in S
  <2>1. n + 1 \in 1 .. N /\ (n + 1) - 1 = n /\ n + 1 \in 0 .. N
    BY <1>2
  <2>2. f[n + 1] = f[n] \cup ({next[i] : i \in f[n]} \ {NULL})
    BY <1>1, <2>1
  <2>3. f[n] \subseteq {i \in Item : on[i] = q}
    BY <1>4
  <2>4. \A i \in f[n] : next[i] # NULL => next[i] \in Item /\ on[next[i]] = q
    BY <2>3, LedgerFacts
  <2>5. f[n + 1] \subseteq {i \in Item : on[i] = q}
    BY <2>2, <2>3, <2>4
  <2>6. QED
    BY <2>1, <2>5
<1> HIDE DEF S
<1>5. 0 .. N \subseteq S
  BY <1>2, <1>3, <1>4, BoundedInduction
<1>6. N \in S
  BY <1>2, <1>5
<1>7. QED
  BY <1>1, <1>6 DEF S

(* No list is longer than there are items: below an item on it there is one *)
(* of every rank down to that of the first.                                 *)
LEMMA RanksBounded ==
  ASSUME TypeOK, NEW on \in [Item -> Queue \cup {NULL}], Ledger(on),
         NEW rank \in [Item -> Int], Lined(on, rank),
         NEW q \in Queue, NEW i \in Item, on[i] = q
  PROVE  rank[i] - rank[first[q]] \in 0 .. Cardinality(Item)
<1> DEFINE r == rank[first[q]]
           d == rank[i] - r
           N == Cardinality(Item)
           S == {n \in 0 .. d : \E j \in Item : on[j] = q /\ rank[j] = rank[i] - n}
<1>1. /\ first[q] \in Item
      /\ r \in Int
      /\ d \in Nat
      /\ N \in Nat
  <2>1. first[q] \in Item /\ r <= rank[i]
    BY LedgerFacts DEF Lined
  <2>2. r \in Int /\ rank[i] \in Int
    BY <2>1
  <2>3. QED
    BY <2>1, <2>2, Items
<1>2. 0 \in S
  BY <1>1
<1>3. ASSUME NEW n \in 0 .. d - 1, n \in S PROVE n + 1 \in S
  <2>1. PICK j \in Item : on[j] = q /\ rank[j] = rank[i] - n
    BY <1>3
  <2>2. j # first[q]
    BY <1>1, <2>1
  <2>3. PICK k \in Item : on[k] = q /\ next[k] = j
    BY <2>1, <2>2, LedgerFacts DEF Lined
  <2>4. rank[j] = rank[k] + 1
    BY <2>1, <2>3, LedgerFacts DEF Lined
  <2>5. rank[k] = rank[i] - (n + 1) /\ n + 1 \in 0 .. d
    <3>1. rank[k] \in Int /\ rank[i] \in Int
      OBVIOUS
    <3>2. QED
      BY <3>1, <1>1, <2>1, <2>4
  <2>6. QED
    BY <2>3, <2>5
<1>4. 0 .. d \subseteq S
  <2> HIDE DEF S, d
  <2>1. QED
    BY <1>1, <1>2, <1>3, BoundedInduction
<1> DEFINE h == [n \in 0 .. d |-> CHOOSE j \in Item : on[j] = q /\ rank[j] = rank[i] - n]
<1>5. \A n \in 0 .. d : h[n] \in Item /\ rank[h[n]] = rank[i] - n
  <2> TAKE n \in 0 .. d
  <2>1. \E j \in Item : on[j] = q /\ rank[j] = rank[i] - n
    BY <1>4
  <2>2. QED
    BY <2>1
<1>6. h \in Injection(0 .. d, Item)
  <2>1. h \in [0 .. d -> Item]
    BY <1>5
  <2>2. \A m, n \in 0 .. d : h[m] = h[n] => m = n
    <3> TAKE m, n \in 0 .. d
    <3>1. rank[h[m]] = rank[i] - m /\ rank[h[n]] = rank[i] - n
      BY <1>5
    <3>2. rank[i] \in Int /\ m \in Int /\ n \in Int
      BY <1>1
    <3> HIDE DEF h
    <3>3. QED
      BY <3>1, <3>2
  <2>3. QED
    BY <2>1, <2>2 DEF Injection, IsInjective
<1>7. IsFiniteSet(Item)
  <2>1. Item = 1 .. N
    BY DownloadAssumption
  <2>2. QED
    BY <1>1, <2>1, FS_Interval
<1>8. Cardinality(0 .. d) = d + 1
  <2> HIDE DEF d
  <2>1. QED
    BY <1>1, FS_Interval
<1>9. Cardinality(0 .. d) <= N
  BY <1>6, <1>7, FS_Injection
<1>10. QED
  BY <1>1, <1>8, <1>9

LEMMA ListedAll ==
  ASSUME TypeOK, NEW on \in [Item -> Queue \cup {NULL}], Ledger(on),
         NEW rank \in [Item -> Int], Lined(on, rank), NEW q \in Queue
  PROVE  {i \in Item : on[i] = q} \subseteq Listed(q)
<1> DEFINE N == Cardinality(Item)
           r == rank[first[q]]
<1>1. PICK f \in [0 .. N -> SUBSET Item] :
        /\ f[0] = {first[q]} \ {NULL}
        /\ \A n \in 1 .. N : f[n] = f[n-1] \cup ({next[i] : i \in f[n-1]} \ {NULL})
        /\ Listed(q) = f[N]
  BY ListedReach
<1> DEFINE S == {n \in 0 .. N : \A i \in Item : on[i] = q /\ rank[i] - r <= n => i \in f[n]}
<1>2. N \in Nat
  BY Items
<1>3. ASSUME NEW i \in Item, on[i] = q, i # first[q]
      PROVE  \E k \in Item : on[k] = q /\ next[k] = i /\ rank[i] = rank[k] + 1
  BY <1>3, LedgerFacts DEF Lined
<1>4. ASSUME NEW i \in Item, on[i] = q
      PROVE  first[q] \in Item /\ first[q] # NULL /\ r \in Int /\ r <= rank[i]
  BY <1>4, LedgerFacts DEF Lined
<1>5. 0 \in S
  <2> SUFFICES ASSUME NEW i \in Item, on[i] = q, rank[i] - r <= 0
               PROVE  i = first[q]
    BY <1>1, <1>2, <1>4
  <2> SUFFICES ASSUME i # first[q] PROVE FALSE
    OBVIOUS
  <2>1. PICK k \in Item : on[k] = q /\ next[k] = i /\ rank[i] = rank[k] + 1
    BY <1>3
  <2>2. r <= rank[k] /\ r \in Int /\ rank[k] \in Int /\ rank[i] \in Int
    BY <1>4, <2>1
  <2>3. QED
    BY <2>1, <2>2
<1>6. ASSUME NEW n \in 0 .. N - 1, n \in S PROVE n + 1 \in S
  <2>1. n + 1 \in 1 .. N /\ (n + 1) - 1 = n /\ n + 1 \in 0 .. N
    BY <1>2
  <2>2. f[n + 1] = f[n] \cup ({next[i] : i \in f[n]} \ {NULL})
    BY <1>1, <2>1
  <2>3. \A i \in Item : on[i] = q /\ rank[i] - r <= n => i \in f[n]
    BY <1>6
  <2>4. ASSUME NEW i \in Item, on[i] = q, rank[i] - r <= n + 1
        PROVE  i \in f[n + 1]
    <3>1. CASE i = first[q]
      <4>1. rank[i] - r <= n
        BY <3>1, <2>4, <1>4
      <4>2. QED
        BY <4>1, <2>2, <2>3, <2>4
    <3>2. CASE i # first[q]
      <4>1. PICK k \in Item : on[k] = q /\ next[k] = i /\ rank[i] = rank[k] + 1
        BY <3>2, <2>4, <1>3
      <4>2. rank[k] \in Int /\ r \in Int
        BY <4>1, <1>4
      <4>3. rank[k] - r <= n
        BY <4>1, <4>2, <2>4
      <4>4. k \in f[n] /\ i # NULL
        BY <4>1, <4>3, <2>3, Items
      <4>5. QED
        BY <4>1, <4>4, <2>2
    <3>3. QED
      BY <3>1, <3>2
  <2>5. QED
    BY <2>1, <2>4
<1> HIDE DEF S
<1>7. 0 .. N \subseteq S
  BY <1>2, <1>5, <1>6, BoundedInduction
<1>8. N \in S
  BY <1>2, <1>7
<1>9. \A i \in Item : on[i] = q => rank[i] - r <= N
  BY <1>2, RanksBounded
<1>10. QED
  BY <1>1, <1>8, <1>9 DEF S

-----------------------------------------------------------------------------
(* With one server for each priority nothing is ever put in front of the    *)
(* main queue or the data queue, so that `last' is always the end of the    *)
(* list, and an item leaves a list only into the hands of a thread.         *)
Kept(on) ==
  /\ \A q \in {0, DataQ} :
       /\ last[q] = NULL => first[q] = NULL
       /\ last[q] # NULL => on[last[q]] = q
  /\ \A i \in Item : i <= appended /\ status[i] = "NEW" =>
       on[i] # NULL \/ \E t \in Thread : held[t] = i

LEMMA TakeKept ==
  ASSUME TypeOK, NEW on \in [Item -> Queue \cup {NULL}], Ledger(on),
         NEW on1 \in [Item -> Queue \cup {NULL}],
         NEW rank \in [Item -> Int], Lined(on, rank), Kept(on),
         NEW t \in Reader, NEW q \in Queue, NEW i \in Item,
         Takes(on, on1, t, q, i)
  PROVE  Kept(on1)'
<1> DEFINE n == next[i]
<1>1. /\ i = first[q]
      /\ on[i] = q
      /\ \A r \in Queue : /\ first'[r] = (IF r = q THEN n ELSE first[r])
                          /\ last'[r] = (IF r = q /\ last[q] = i THEN NULL ELSE last[r])
      /\ \A j \in Item : on1[j] = IF j = i \/ (n = NULL /\ on[j] = q)
                                  THEN NULL ELSE on[j]
      /\ held[t] = NULL
      /\ \A u \in Thread : held'[u] = IF u = t THEN i ELSE held[u]
      /\ t \in Thread
      /\ UNCHANGED <<appended, status>>
  BY Threads DEF Takes, AfterShift, TypeOK, QueueTypeOK
<1>2. n = NULL => \A j \in Item : on[j] = q => j = i
  BY <1>1, OnlyFirst
<1>3. \A j \in Item : on[j] # NULL /\ j # i => on1[j] = on[j]
  BY <1>1, <1>2
<1>4. ASSUME NEW r \in {0, DataQ}
      PROVE  /\ last'[r] = NULL => first'[r] = NULL
             /\ last'[r] # NULL => on1[last'[r]] = r
  <2>1. r \in Queue /\ r # NULL /\ last[r] \in Item \cup {NULL}
    BY Queues DEF TypeOK, QueueTypeOK
  <2>2. /\ last[r] = NULL => first[r] = NULL
        /\ last[r] # NULL => on[last[r]] = r
    BY DEF Kept
  <2>3. last[r] # NULL => next[last[r]] = NULL
    BY <2>1, <2>2 DEF Ledger, EndInv, Gone
  <2>4. r = q /\ last[r] # NULL /\ last[r] # i => last'[r] = last[r]
    BY <1>1, <2>1
  <2>5. QED
    BY <1>1, <1>3, <2>1, <2>2, <2>3, <2>4, LedgerFacts
<1>5. ASSUME NEW j \in Item, j <= appended', status'[j] = "NEW"
      PROVE  on1[j] # NULL \/ \E u \in Thread : held'[u] = j
  <2>1. on[j] # NULL \/ \E u \in Thread : held[u] = j
    BY <1>1, <1>5 DEF Kept
  <2>2. CASE on[j] # NULL
    BY <2>2, <1>1, <1>3
  <2>3. CASE \E u \in Thread : held[u] = j
    BY <2>3, <1>1, LedgerFacts
  <2>4. QED
    BY <2>1, <2>2, <2>3
<1>6. QED
  BY <1>4, <1>5 DEF Kept

LEMMA AppendKept ==
  ASSUME TypeOK, NEW on \in [Item -> Queue \cup {NULL}], Ledger(on),
         NEW on1 \in [Item -> Queue \cup {NULL}], Kept(on),
         NEW q \in {0, DataQ}, NEW i \in Item, Appends(on, on1, q, i)
  PROVE  Kept(on1)'
<1>1. q \in Queue /\ 0 \in Queue /\ DataQ \in Queue
  BY Queues
<1>2. first[q] = NULL \/ (last[q] # NULL /\ on[last[q]] = q)
  BY DEF Kept
<1>3. /\ on[i] = NULL
      /\ \A r \in Queue : /\ first'[r] = (IF r = q /\ first[q] = NULL THEN i ELSE first[r])
                          /\ last'[r] = (IF r = q THEN i ELSE last[r])
      /\ \A j \in Item : on1[j] = IF j = i THEN q ELSE on[j]
      /\ UNCHANGED status
  BY <1>1, <1>2 DEF Appends, AfterAppend, TypeOK, QueueTypeOK
<1>4. ASSUME NEW r \in {0, DataQ}
      PROVE  /\ last'[r] = NULL => first'[r] = NULL
             /\ last'[r] # NULL => on1[last'[r]] = r
  <2>1. r \in Queue /\ r # NULL /\ last[r] \in Item \cup {NULL}
    BY <1>1, Queues DEF TypeOK, QueueTypeOK
  <2>2. /\ last[r] = NULL => first[r] = NULL
        /\ last[r] # NULL => on[last[r]] = r
    BY DEF Kept
  <2>3. CASE r = q
    BY <2>1, <2>3, <1>3, LedgerFacts
  <2>4. CASE r # q
    BY <2>1, <2>2, <2>4, <1>3
  <2>5. QED
    BY <2>3, <2>4
<1>5. ASSUME NEW j \in Item, j <= appended', status'[j] = "NEW"
      PROVE  on1[j] # NULL \/ \E u \in Thread : held'[u] = j
  <2>1. CASE j = i
    BY <2>1, <1>1, <1>3, LedgerFacts
  <2>2. CASE j # i
    <3>1. j <= appended
      BY <2>2, <1>5 DEF Appends
    <3>2. on[j] # NULL \/ \E u \in Thread : held[u] = j
      BY <3>1, <1>3, <1>5 DEF Kept
    <3>3. \A u \in Thread : held[u] = j => held'[u] = j
      BY <2>2 DEF Appends
    <3>4. QED
      BY <2>2, <3>2, <3>3, <1>3
  <2>3. QED
    BY <2>1, <2>2
<1>6. QED
  BY <1>4, <1>5 DEF Kept

LEMMA PrependKept ==
  ASSUME TypeOK, NEW on \in [Item -> Queue \cup {NULL}], Ledger(on),
         NEW on1 \in [Item -> Queue \cup {NULL}], Kept(on), OnePerPriority,
         NEW q \in Level, NEW i \in Item, NEW t \in Thread,
         Prepends(on, on1, q, i, t)
  PROVE  Kept(on1)'
<1>1. q \in Queue /\ q # 0 /\ q # DataQ /\ q # NULL
  BY Queues DEF Prepends
<1>2. /\ on[i] = NULL
      /\ held[t] = i
      /\ first' = [first EXCEPT ![q] = i]
      /\ \A j \in Item : on1[j] = IF j = i THEN q ELSE on[j]
      /\ \A u \in Thread : held'[u] = IF u = t THEN NULL ELSE held[u]
      /\ UNCHANGED <<last, appended, status>>
  BY <1>1 DEF Prepends, AfterPrepend, TypeOK, QueueTypeOK
<1>3. ASSUME NEW r \in {0, DataQ}
      PROVE  /\ last'[r] = NULL => first'[r] = NULL
             /\ last'[r] # NULL => on1[last'[r]] = r
  <2>1. r \in Queue /\ r # NULL /\ r # q /\ last[r] \in Item \cup {NULL}
    BY <1>1, Queues DEF TypeOK, QueueTypeOK
  <2>2. /\ last[r] = NULL => first[r] = NULL
        /\ last[r] # NULL => on[last[r]] = r
    BY DEF Kept
  <2>3. first'[r] = first[r]
    BY <1>2, <2>1 DEF TypeOK, QueueTypeOK
  <2>4. QED
    BY <2>1, <2>2, <2>3, <1>2
<1>4. ASSUME NEW j \in Item, j <= appended', status'[j] = "NEW"
      PROVE  on1[j] # NULL \/ \E u \in Thread : held'[u] = j
  <2>1. on[j] # NULL \/ \E u \in Thread : held[u] = j
    BY <1>2, <1>4 DEF Kept
  <2>2. QED
    BY <2>1, <1>1, <1>2
<1>5. QED
  BY <1>3, <1>4 DEF Kept

LEMMA ListStepKept ==
  ASSUME TypeOK, NEW on \in [Item -> Queue \cup {NULL}], Ledger(on),
         NEW on1 \in [Item -> Queue \cup {NULL}], ListStep(on, on1),
         NEW rank \in [Item -> Int], Lined(on, rank), OnePerPriority, Kept(on)
  PROVE  Kept(on1)'
<1>1. CASE Rests(on, on1)
  <2>1. ASSUME NEW j \in Item, j <= appended', status'[j] = "NEW"
        PROVE  on1[j] # NULL \/ \E t \in Thread : held'[t] = j
    <3>1. j <= appended /\ status[j] = "NEW" /\ on1 = on
      BY <1>1, <2>1 DEF Rests
    <3>2. on[j] # NULL \/ \E t \in Thread : held[t] = j
      BY <3>1 DEF Kept
    <3>3. \A t \in Thread : held[t] = j => held'[t] = j
      BY <1>1, <2>1, LedgerFacts DEF Rests
    <3>4. QED
      BY <3>1, <3>2, <3>3
  <2>2. QED
    BY <1>1, <2>1 DEF Rests, Kept
<1>2. CASE \E t \in Reader, q \in Queue, i \in Item : Takes(on, on1, t, q, i)
  BY <1>2, TakeKept
<1>3. CASE \E q \in {0, DataQ}, i \in Item : Appends(on, on1, q, i)
  BY <1>3, AppendKept
<1>4. CASE \E q \in Level, i \in Item, t \in Conn : Prepends(on, on1, q, i, t)
  BY <1>4, Threads, PrependKept
<1>5. QED
  BY <1>1, <1>2, <1>3, <1>4 DEF ListStep

-----------------------------------------------------------------------------
(* How often a segment has been requested: an item on the queue of level q  *)
(* has cost one request for every server below q, and one for each entry in *)
(* its failed_servers, of which there are fewer than servers at q.          *)
Below(q) == {s \in Server : Priority[s] < q}
At(q) == {s \in Server : Priority[s] = q}

TriedOn(i, s) == \E n \in 1 .. Len(attempts[i]) : attempts[i][n] = s

TriedBelow(i, q) ==
  /\ Len(attempts[i]) = Cardinality(Below(q)) + Len(failed[i])
  /\ Len(failed[i]) < Cardinality(At(q))
  /\ OnePerPriority => \A s \in Below(q) : TriedOn(i, s)

Retried(on) ==
  /\ \A i \in Item : on[i] \in Level => TriedBelow(i, on[i])
  /\ \A t \in Conn : held[t] # NULL => TriedBelow(held[t], Home[t])
  /\ \A i \in Item : i > appended => attempts[i] = <<>> /\ failed[i] = <<>>
  /\ \A i \in Item : Len(attempts[i]) <= TotalServers
  /\ \A i \in Item : Abandoned(i) =>
       /\ Len(attempts[i]) = TotalServers
       /\ OnePerPriority => \A s \in Server : TriedOn(i, s)

(* The list of servers has every server once.                               *)
LEMMA ServerCount ==
  /\ IsFiniteSet(Server)
  /\ TotalServers \in Nat
  /\ Cardinality(Server) = TotalServers
<1>1. /\ ServerList \in Seq(Server)
      /\ Server = {ServerList[n] : n \in 1 .. Len(ServerList)}
      /\ \A m, n \in 1 .. Len(ServerList) : m < n => ServerList[m] # ServerList[n]
  BY DownloadAssumption
<1>2. TotalServers \in Nat /\ ServerList \in [1 .. TotalServers -> Server]
  BY <1>1 DEF TotalServers
<1>3. ServerList \in Bijection(1 .. TotalServers, Server)
  <2>1. \A m, n \in 1 .. TotalServers : ServerList[m] = ServerList[n] => m = n
    BY <1>1, <1>2 DEF TotalServers
  <2>2. \A s \in Server : \E n \in 1 .. TotalServers : ServerList[n] = s
    BY <1>1 DEF TotalServers
  <2>3. QED
    BY <1>2, <2>1, <2>2 DEF Bijection, Injection, Surjection, IsInjective
<1>4. IsFiniteSet(1 .. TotalServers) /\ Cardinality(1 .. TotalServers) = TotalServers
  BY <1>2, FS_Interval
<1>5. ExistsBijection(1 .. TotalServers, Server)
  BY <1>3 DEF ExistsBijection
<1>6. QED
  BY <1>2, <1>4, <1>5, FS_Bijection

LEMMA LevelCount ==
  ASSUME NEW q \in Level
  PROVE  /\ Cardinality(Below(q)) \in Nat
         /\ Cardinality(At(q)) \in Nat
         /\ Cardinality(At(q)) >= 1
         /\ Cardinality(Below(q)) + Cardinality(At(q)) <= TotalServers
         /\ Cardinality(Below(q) \cup At(q)) = Cardinality(Below(q)) + Cardinality(At(q))
<1>1. /\ Below(q) \in SUBSET Server
      /\ At(q) \in SUBSET Server
      /\ Below(q) \cup At(q) \in SUBSET Server
      /\ At(q) # {}
  BY DEF Below, At, Level
<1>2. Below(q) \cap At(q) = {}
  <2>1. Priority \in [Server -> Nat]
    BY DownloadAssumption
  <2>2. q \in Nat
    BY <2>1 DEF Level
  <2>3. QED
    BY <2>1, <2>2 DEF Below, At
<1>3. IsFiniteSet(Server) /\ Cardinality(Server) = TotalServers /\ TotalServers \in Nat
  BY ServerCount
<1>4. /\ IsFiniteSet(Below(q))
      /\ IsFiniteSet(At(q))
      /\ Cardinality(Below(q) \cup At(q)) <= TotalServers
  BY <1>1, <1>3, FS_Subset
<1>5. Cardinality(Below(q)) \in Nat /\ Cardinality(At(q)) \in Nat
  BY <1>4, FS_CardinalityType
<1>6. Cardinality(At(q)) # 0
  BY <1>1, <1>4, FS_EmptySet
<1>7. Cardinality(Below(q) \cup At(q)) =
        Cardinality(Below(q)) + Cardinality(At(q)) - Cardinality(Below(q) \cap At(q))
  BY <1>4, FS_Union
<1>8. Cardinality(Below(q) \cap At(q)) = 0
  BY <1>2, FS_EmptySet
<1>9. QED
  BY <1>4, <1>5, <1>6, <1>7, <1>8

(* The servers below the level to which nttp_handle_retrieve_error moves an *)
(* item are those at or below the level it came from: the list of servers   *)
(* is sorted by priority.                                                   *)
LEMMA NextLevel ==
  ASSUME NEW s \in Server, NEW n \in HigherServers(s),
         \A m \in HigherServers(s) : n <= m
  PROVE  Below(Priority[ServerList[n]]) = Below(Priority[s]) \cup At(Priority[s])
<1>1. /\ ServerList \in Seq(Server)
      /\ Priority \in [Server -> Nat]
      /\ Server = {ServerList[m] : m \in 1 .. Len(ServerList)}
      /\ \A k, m \in 1 .. Len(ServerList) :
           k < m => Priority[ServerList[k]] <= Priority[ServerList[m]]
  BY DownloadAssumption
<1>2. n \in 1 .. Len(ServerList) /\ Priority[ServerList[n]] > Priority[s]
  BY DEF HigherServers, TotalServers
<1>3. /\ Len(ServerList) \in Nat
      /\ \A m \in 1 .. Len(ServerList) : ServerList[m] \in Server
  BY <1>1
<1>4. ASSUME NEW r \in Server
      PROVE  Priority[r] < Priority[ServerList[n]] <=> Priority[r] <= Priority[s]
  <2>1. PICK m \in 1 .. Len(ServerList) : ServerList[m] = r
    BY <1>1
  <2>2. Priority[r] \in Nat /\ Priority[s] \in Nat /\ Priority[ServerList[n]] \in Nat
    BY <1>1, <1>2, <1>3
  <2>3. CASE Priority[r] > Priority[s]
    <3>1. m \in HigherServers(s)
      BY <2>1, <2>3 DEF HigherServers, TotalServers
    <3>2. n <= m
      BY <3>1
    <3>3. n = m \/ n < m
      BY <1>2, <3>2
    <3>4. Priority[ServerList[n]] <= Priority[r]
      <4>1. CASE n = m
        BY <4>1, <2>1, <2>2
      <4>2. CASE n < m
        BY <4>2, <1>1, <1>2, <2>1
      <4>3. QED
        BY <3>3, <4>1, <4>2
    <3>5. QED
      BY <2>2, <2>3, <3>4
  <2>4. CASE ~ (Priority[r] > Priority[s])
    BY <1>2, <2>2, <2>4
  <2>5. QED
    BY <2>3, <2>4
<1>5. ASSUME NEW r \in Server
      PROVE  Priority[r] <= Priority[s] <=>
               Priority[r] < Priority[s] \/ Priority[r] = Priority[s]
  <2>1. Priority[r] \in Nat /\ Priority[s] \in Nat
    BY <1>1
  <2>2. QED
    BY <2>1
<1>6. QED
  BY <1>4, <1>5 DEF Below, At

(* With no server above s, every server is at or below its level.           *)
LEMMA LastLevel ==
  ASSUME NEW s \in Server, HigherServers(s) = {}
  PROVE  Server = Below(Priority[s]) \cup At(Priority[s])
<1>1. Priority \in [Server -> Nat]
  BY DownloadAssumption
<1>2. ASSUME NEW r \in Server PROVE ~ (Priority[r] > Priority[s])
  <2>1. PICK m \in 1 .. Len(ServerList) : ServerList[m] = r
    BY DownloadAssumption
  <2>2. QED
    BY <2>1 DEF HigherServers, TotalServers
<1>3. \A r \in Server : Priority[r] < Priority[s] \/ Priority[r] = Priority[s]
  BY <1>1, <1>2
<1>4. QED
  BY <1>3 DEF Below, At

(* A request of thread t for the item i it holds fails.                     *)
LEMMA RequestFails ==
  ASSUME DownloadInv, NEW t \in Conn, RetrieveFails(t),
         NEW i \in Item, i = held[t], TriedBelow(i, Home[t])
  PROVE  /\ ServerOf[t] \in Server
         /\ Home[t] = Priority[ServerOf[t]]
         /\ Home[t] \in Level
         /\ SamePrioServers(ServerOf[t]) = Cardinality(At(Home[t]))
         /\ OnePerPriority => At(Home[t]) = {ServerOf[t]}
         /\ Failures(t) \in Seq(Server \cup {NULL})
         /\ Len(Failures(t)) = Len(failed[i]) + 1
         /\ Len(failed[i]) \in Nat
         /\ Len(attempts[i]) \in Nat
         /\ Len(attempts'[i]) = Len(attempts[i]) + 1
         /\ OnePerPriority =>
              \A s \in Below(Home[t]) \cup At(Home[t]) : TriedOn(i, s)'
         /\ \A j \in Item : j # i => attempts'[j] = attempts[j]
         /\ \A u \in Thread : held'[u] # NULL => held'[u] = held[u] /\ held[u] # i
<1>1. /\ t \in Thread
      /\ ServerOf[t] \in Server
      /\ Home[t] = Priority[ServerOf[t]]
      /\ Home[t] \in Level
  <2>1. t \in Reader /\ t # Processor
    BY Threads
  <2>2. QED
    BY <2>1, Queues, Threads, DownloadAssumption
<1>2. /\ SamePrioServers(ServerOf[t]) = Cardinality(At(Home[t]))
      /\ OnePerPriority => At(Home[t]) = {ServerOf[t]}
  BY <1>1 DEF SamePrioServers, At, OnePerPriority
<1>3. /\ failed[i] \in Seq(Server \cup {NULL})
      /\ attempts[i] \in Seq(Server)
      /\ attempts \in [Item -> Seq(Server)]
      /\ held \in [Thread -> Item \cup {NULL}]
  BY DEF DownloadInv, TypeOK, QueueTypeOK
<1>4. /\ Failures(t) \in Seq(Server \cup {NULL})
      /\ Len(Failures(t)) = Len(failed[i]) + 1
      /\ Len(failed[i]) \in Nat
  BY <1>3 DEF Failures, FailedServer
<1>5. /\ attempts' = [attempts EXCEPT ![i] = Append(@, ServerOf[t])]
      /\ held' = [held EXCEPT ![t] = NULL]
  BY DEF RetrieveFails
<1>6. attempts'[i] = Append(attempts[i], ServerOf[t])
  BY <1>3, <1>5
<1>7. /\ Len(attempts[i]) \in Nat
      /\ Len(attempts'[i]) = Len(attempts[i]) + 1
      /\ \A n \in 1 .. Len(attempts[i]) : attempts'[i][n] = attempts[i][n]
      /\ attempts'[i][Len(attempts[i]) + 1] = ServerOf[t]
  BY <1>1, <1>3, <1>6
<1>8. \A s \in Server : TriedOn(i, s) \/ s = ServerOf[t] => TriedOn(i, s)'
  <2> SUFFICES ASSUME NEW s \in Server, TriedOn(i, s) \/ s = ServerOf[t]
               PROVE  \E n \in 1 .. Len(attempts'[i]) : attempts'[i][n] = s
    BY DEF TriedOn
  <2>1. CASE TriedOn(i, s)
    <3>1. PICK n \in 1 .. Len(attempts[i]) : attempts[i][n] = s
      BY <2>1 DEF TriedOn
    <3>2. n \in 1 .. Len(attempts'[i]) /\ attempts'[i][n] = s
      BY <3>1, <1>7
    <3>3. QED
      BY <3>2
  <2>2. CASE s = ServerOf[t]
    <3>1. Len(attempts[i]) + 1 \in 1 .. Len(attempts'[i])
      BY <1>7
    <3>2. QED
      BY <2>2, <3>1, <1>7
  <2>3. QED
    BY <2>1, <2>2
<1>9. OnePerPriority => \A s \in Below(Home[t]) \cup At(Home[t]) : TriedOn(i, s)'
  BY <1>2, <1>8 DEF TriedBelow, Below, At
<1>10. \A j \in Item : j # i => attempts'[j] = attempts[j]
  BY <1>3, <1>5
<1>11. \A u \in Thread : held'[u] # NULL => held'[u] = held[u] /\ held[u] # i
  <2>1. \A u \in Thread : held[u] = i => u = t
    BY <1>1, Items DEF DownloadInv, Ledger, HeldInv
  <2>2. QED
    BY <2>1, <1>1, <1>3, <1>5
<1>12. QED
  BY <1>1, <1>2, <1>4, <1>7, <1>9, <1>10, <1>11

(* nttp_handle_retrieve_error puts the item on the queue of a level at      *)
(* which the count is right again.                                          *)
LEMMA RequeueCount ==
  ASSUME DownloadInv, NEW t \in Conn, NEW i \in Item, i = held[t],
         TriedBelow(i, Home[t]), NEW q \in Level, Requeues(t, q)
  PROVE  TriedBelow(i, q)'
<1>1. RetrieveFails(t)
  BY DEF Requeues, PutBack, MoveOn
<1>2. /\ Len(attempts[i]) = Cardinality(Below(Home[t])) + Len(failed[i])
      /\ Len(failed[i]) < Cardinality(At(Home[t]))
  BY DEF TriedBelow
<1>3. /\ Home[t] \in Level
      /\ Home[t] = Priority[ServerOf[t]]
      /\ ServerOf[t] \in Server
      /\ SamePrioServers(ServerOf[t]) = Cardinality(At(Home[t]))
      /\ Len(Failures(t)) = Len(failed[i]) + 1
      /\ Len(failed[i]) \in Nat
      /\ Len(attempts'[i]) = Len(attempts[i]) + 1
      /\ OnePerPriority => \A s \in Below(Home[t]) \cup At(Home[t]) : TriedOn(i, s)'
  BY <1>1, RequestFails
<1>4. failed \in [Item -> Seq(Server \cup {NULL})]
  BY DEF DownloadInv, TypeOK, QueueTypeOK
<1>5. CASE PutBack(t) /\ q = Home[t]
  <2>1. failed'[i] = Failures(t)
    BY <1>4, <1>5 DEF PutBack
  <2>2. Len(Failures(t)) < Cardinality(At(q))
    BY <1>3, <1>5 DEF PutBack
  <2>3. Cardinality(Below(q)) \in Nat
    BY LevelCount
  <2>4. Len(attempts'[i]) = Cardinality(Below(q)) + Len(failed'[i])
    <3>1. Len(attempts[i]) = Cardinality(Below(q)) + Len(failed[i])
      BY <1>2, <1>5
    <3>2. Len(failed'[i]) = Len(failed[i]) + 1
      BY <1>3, <2>1
    <3>3. QED
      BY <3>1, <3>2, <1>3, <2>3
  <2>5. QED
    BY <1>3, <1>5, <2>1, <2>2, <2>4 DEF TriedBelow
<1>6. CASE ~ (PutBack(t) /\ q = Home[t])
  <2>1. PICK n \in HigherServers(ServerOf[t]) :
          /\ \A m \in HigherServers(ServerOf[t]) : n <= m
          /\ q = Priority[ServerList[n]]
    BY <1>6 DEF Requeues
  <2>2. MoveOn(t)
    BY <1>6 DEF Requeues
  <2>3. Below(q) = Below(Home[t]) \cup At(Home[t])
    BY <1>3, <2>1, NextLevel
  <2>4. failed'[i] = <<>> /\ Len(Failures(t)) >= Cardinality(At(Home[t]))
    BY <1>3, <1>4, <2>2 DEF MoveOn
  <2>5. /\ Cardinality(Below(q)) =
             Cardinality(Below(Home[t])) + Cardinality(At(Home[t]))
        /\ Cardinality(Below(Home[t])) \in Nat
        /\ Cardinality(At(Home[t])) \in Nat
    BY <1>3, <2>3, LevelCount
  <2>6. Len(failed'[i]) = 0 /\ 0 < Cardinality(At(q))
    <3>1. Cardinality(At(q)) \in Nat /\ Cardinality(At(q)) >= 1
      BY LevelCount
    <3>2. QED
      BY <3>1, <2>4
  <2>7. Len(attempts'[i]) = Cardinality(Below(q)) + Len(failed'[i])
    BY <1>2, <1>3, <2>4, <2>5, <2>6
  <2>8. QED
    BY <1>3, <2>3, <2>6, <2>7 DEF TriedBelow
<1>7. QED
  BY <1>5, <1>6

(* Nothing is given up before the count has reached the last server.        *)
LEMMA AbandonCount ==
  ASSUME DownloadInv, NEW t \in Conn, NEW i \in Item, i = held[t],
         TriedBelow(i, Home[t]), Abandon(t)
  PROVE  /\ Len(attempts'[i]) = TotalServers
         /\ OnePerPriority => \A s \in Server : TriedOn(i, s)'
<1>1. RetrieveFails(t)
  BY DEF Abandon
<1>2. /\ Len(attempts[i]) = Cardinality(Below(Home[t])) + Len(failed[i])
      /\ Len(failed[i]) < Cardinality(At(Home[t]))
  BY DEF TriedBelow
<1>3. /\ Home[t] \in Level
      /\ Home[t] = Priority[ServerOf[t]]
      /\ ServerOf[t] \in Server
      /\ SamePrioServers(ServerOf[t]) = Cardinality(At(Home[t]))
      /\ Len(Failures(t)) = Len(failed[i]) + 1
      /\ Len(failed[i]) \in Nat
      /\ Len(attempts'[i]) = Len(attempts[i]) + 1
      /\ OnePerPriority => \A s \in Below(Home[t]) \cup At(Home[t]) : TriedOn(i, s)'
  BY <1>1, RequestFails
<1> DEFINE b == Cardinality(Below(Home[t]))
           n == Cardinality(At(Home[t]))
<1>4. /\ b \in Nat
      /\ n \in Nat
      /\ b + n <= TotalServers
      /\ Cardinality(Below(Home[t]) \cup At(Home[t])) = b + n
      /\ TotalServers \in Nat
      /\ IsFiniteSet(Server)
      /\ Cardinality(Server) = TotalServers
  BY <1>3, LevelCount, ServerCount
<1>5. Below(Home[t]) \cup At(Home[t]) \in SUBSET Server
  BY DEF Below, At
<1>6. b + n = TotalServers /\ Len(failed[i]) + 1 = n
  <2>1. CASE Len(Failures(t)) = TotalServers
    BY <2>1, <1>2, <1>3, <1>4
  <2>2. CASE Len(Failures(t)) >= n /\ HigherServers(ServerOf[t]) = {}
    <3>1. Server = Below(Home[t]) \cup At(Home[t])
      BY <2>2, <1>3, LastLevel
    <3>2. QED
      BY <3>1, <2>2, <1>2, <1>3, <1>4
  <2>3. QED
    BY <2>1, <2>2, <1>3 DEF Abandon
<1>7. Server = Below(Home[t]) \cup At(Home[t])
  BY <1>4, <1>5, <1>6, FS_Subset
<1>8. QED
  BY <1>2, <1>3, <1>4, <1>6, <1>7

(* The count of an item that no request has failed for.                     *)
LEMMA SameTried ==
  ASSUME NEW i \in Item, attempts'[i] = attempts[i], failed'[i] = failed[i]
  PROVE  /\ \A q : TriedBelow(i, q) => TriedBelow(i, q)'
         /\ \A s : TriedOn(i, s) => TriedOn(i, s)'
BY DEF TriedBelow, TriedOn

LEMMA UnfailedRetried ==
  ASSUME DownloadInv, NEW on \in [Item -> Queue \cup {NULL}],
         NEW on1 \in [Item -> Queue \cup {NULL}], Retried(on), Unfailed,
         \A i \in Item : on1[i] \in Level =>
           on[i] = on1[i] \/ (on1[i] = 0 /\ i > appended),
         \A t \in Conn : held'[t] # NULL =>
           \/ held'[t] = held[t]
           \/ held'[t] \in Item /\ on[held'[t]] = Home[t],
         \A i \in Item : i > appended' => i > appended
  PROVE  Retried(on1)'
<1>1. UNCHANGED <<failed, attempts>> /\ \A i \in Item : Abandoned(i)' => Abandoned(i)
  BY DEF Unfailed
<1>2. \A i \in Item : \A q : TriedBelow(i, q) => TriedBelow(i, q)'
  BY <1>1, SameTried
<1>3. \A i \in Item : i > appended => TriedBelow(i, 0)
  <2> SUFFICES ASSUME NEW i \in Item, i > appended PROVE TriedBelow(i, 0)
    OBVIOUS
  <2>1. Len(attempts[i]) = 0 /\ Len(failed[i]) = 0
    BY DEF Retried
  <2>2. Below(0) = {}
    <3>1. Priority \in [Server -> Nat]
      BY DownloadAssumption
    <3>2. QED
      BY <3>1 DEF Below
  <2>3. Cardinality(Below(0)) = 0
    BY <2>2, FS_EmptySet
  <2>4. Cardinality(At(0)) \in Nat /\ Cardinality(At(0)) >= 1
    BY Queues, LevelCount
  <2>5. QED
    BY <2>1, <2>2, <2>3, <2>4 DEF TriedBelow
<1>4. \A i \in Item : on1[i] \in Level => TriedBelow(i, on1[i])'
  BY <1>2, <1>3 DEF Retried
<1>5. ASSUME NEW t \in Conn, held'[t] # NULL
      PROVE  TriedBelow(held[t], Home[t])'
  <2>1. Home[t] \in Level /\ held[t] \in Item \cup {NULL}
    BY Queues, Threads DEF DownloadInv, TypeOK, QueueTypeOK
  <2>2. CASE held'[t] = held[t]
    <3>1. TriedBelow(held[t], Home[t]) /\ held[t] \in Item
      BY <1>5, <2>1, <2>2 DEF Retried
    <3>2. QED
      BY <2>2, <3>1, <1>1 DEF TriedBelow, TriedOn
  <2>3. CASE held'[t] \in Item /\ on[held'[t]] = Home[t]
    <3>1. PICK i \in Item : i = held'[t]
      BY <2>3
    <3>2. TriedBelow(i, Home[t])
      BY <2>1, <2>3, <3>1 DEF Retried
    <3>3. TriedBelow(i, Home[t])'
      BY <1>2, <3>2
    <3>4. QED
      BY <3>1, <3>3 DEF TriedBelow, TriedOn
  <2>4. QED
    BY <1>5, <2>2, <2>3
<1>6. /\ \A i \in Item : i > appended' => attempts'[i] = <<>> /\ failed'[i] = <<>>
      /\ \A i \in Item : Len(attempts'[i]) <= TotalServers
      /\ \A i \in Item : Abandoned(i)' =>
           /\ Len(attempts'[i]) = TotalServers
           /\ OnePerPriority => \A s \in Server : TriedOn(i, s)'
  BY <1>1, SameTried DEF Retried
<1>7. QED
  BY <1>4, <1>5, <1>6 DEF Retried

LEMMA ListStepRetried ==
  ASSUME DownloadInv, DownloadInv', NEW on \in [Item -> Queue \cup {NULL}], Ledger(on),
         NEW on1 \in [Item -> Queue \cup {NULL}], ListStep(on, on1), Retried(on)
  PROVE  Retried(on1)'
<1>1. TypeOK /\ appended \in Nat
  BY DEF DownloadInv, TypeOK
<1>2. CASE Rests(on, on1) /\ Unfailed
  BY <1>2, Threads, UnfailedRetried DEF Rests
<1>3. ASSUME NEW t \in Reader, NEW q \in Queue, NEW i \in Item,
             Takes(on, on1, t, q, i), Unfailed
      PROVE  Retried(on1)'
  <2>1. \A j \in Item : on1[j] \in Level => on[j] = on1[j]
    BY <1>3, Queues DEF Takes, AfterShift
  <2>2. \A u \in Thread : held'[u] = IF u = t THEN i ELSE held[u]
    BY <1>1, <1>3 DEF Takes, TypeOK, QueueTypeOK
  <2>3. i \in Item /\ on[i] = Home[t] /\ appended' = appended
    BY <1>3 DEF Takes
  <2>4. QED
    BY <1>3, <2>1, <2>2, <2>3, Threads, UnfailedRetried
<1>4. ASSUME NEW q \in {0, DataQ}, NEW i \in Item, Appends(on, on1, q, i), Unfailed
      PROVE  Retried(on1)'
  <2>1. \A j \in Item : on1[j] \in Level =>
          on[j] = on1[j] \/ (on1[j] = 0 /\ j > appended)
    BY <1>4, Queues DEF Appends, AfterAppend
  <2>2. \A j \in Item : j > appended' => j > appended
    BY <1>4 DEF Appends
  <2>3. \A t \in Conn : held'[t] # NULL => held'[t] = held[t]
    BY <1>4, Threads DEF Appends
  <2>4. QED
    BY <1>4, <2>1, <2>2, <2>3, UnfailedRetried
<1>5. ASSUME NEW t \in Conn, Abandon(t), Rests(on, on1)
      PROVE  Retried(on1)'
  <2>1. /\ RetrieveFails(t)
        /\ failed' = [failed EXCEPT ![held[t]] = Failures(t)]
        /\ status' = [status EXCEPT ![held[t]] = "ERROR"]
        /\ UNCHANGED <<destroyed, appended>>
        /\ pc[t] = "retrieve"
        /\ on1 = on
    BY <1>5 DEF Abandon, RetrieveFails, clientVars, Rests
  <2>2. PICK i \in Item : i = held[t]
    BY <2>1, Threads DEF DownloadInv, ThreadInv, TypeOK, QueueTypeOK
  <2>3. TriedBelow(i, Home[t])
    BY <2>2, Items DEF Retried
  <2>4. /\ \A j \in Item : j # i => attempts'[j] = attempts[j]
        /\ \A u \in Thread : held'[u] # NULL => held'[u] = held[u] /\ held[u] # i
        /\ Len(attempts[i]) \in Nat
    BY <2>1, <2>2, <2>3, RequestFails
  <2>5. \A j \in Item : j # i => failed'[j] = failed[j] /\ status'[j] = status[j]
    BY <2>1, <2>2 DEF DownloadInv, TypeOK, QueueTypeOK
  <2>6. /\ Len(attempts'[i]) = TotalServers
        /\ OnePerPriority => \A s \in Server : TriedOn(i, s)'
    BY <1>5, <2>2, <2>3, AbandonCount
  <2>7. \A j \in Item : on[j] \in Level => j # i
    BY <2>2, Queues, Threads, Items DEF Ledger, HeldInv
  <2>8. i <= appended
    BY <2>2, Threads, Items DEF Ledger, HeldInv
  <2>9. \A j \in Item : j # i =>
          /\ \A q : TriedBelow(j, q) => TriedBelow(j, q)'
          /\ \A s : TriedOn(j, s) => TriedOn(j, s)'
    BY <2>4, <2>5, SameTried
  <2>10. \A j \in Item : on1[j] \in Level => TriedBelow(j, on1[j])'
    BY <2>1, <2>7, <2>9 DEF Retried
  <2>11. ASSUME NEW u \in Conn, held'[u] # NULL
         PROVE  TriedBelow(held[u], Home[u])'
    <3>1. PICK j \in Item : j = held[u] /\ j = held'[u] /\ j # i
      BY <2>4, <2>11, Threads DEF DownloadInv, TypeOK, QueueTypeOK
    <3>2. TriedBelow(j, Home[u])
      BY <3>1, Items DEF Retried
    <3>3. TriedBelow(j, Home[u])'
      BY <2>9, <3>1, <3>2
    <3>4. QED
      BY <3>1, <3>3 DEF TriedBelow, TriedOn
  <2>12. \A j \in Item : j > appended' => attempts'[j] = <<>> /\ failed'[j] = <<>>
    BY <1>1, <2>1, <2>4, <2>5, <2>8, Items DEF Retried
  <2>13. \A j \in Item : Len(attempts'[j]) <= TotalServers
    BY <2>4, <2>6, ServerCount DEF Retried
  <2>14. \A j \in Item : Abandoned(j)' =>
           /\ Len(attempts'[j]) = TotalServers
           /\ OnePerPriority => \A s \in Server : TriedOn(j, s)'
    BY <2>1, <2>4, <2>5, <2>6, <2>9 DEF Retried, Abandoned
  <2>15. QED
    BY <2>10, <2>11, <2>12, <2>13, <2>14 DEF Retried
<1>6. ASSUME NEW q \in Level, NEW i \in Item, NEW t \in Conn,
             Prepends(on, on1, q, i, t), Requeues(t, q)
      PROVE  Retried(on1)'
  <2>1. /\ RetrieveFails(t)
        /\ UNCHANGED <<destroyed, appended, status>>
        /\ pc[t] = "retrieve"
        /\ i = held[t]
        /\ \E f : failed' = [failed EXCEPT ![held[t]] = f]
    BY <1>6 DEF Requeues, PutBack, MoveOn, RetrieveFails, clientVars, Prepends
  <2>2. i # NULL /\ status[i] = "NEW" /\ t \in Thread
    BY <2>1, Threads DEF DownloadInv, ThreadInv, WorkInv
  <2>3. TriedBelow(i, Home[t])
    BY <2>1, <2>2 DEF Retried
  <2>4. /\ \A j \in Item : j # i => attempts'[j] = attempts[j]
        /\ \A u \in Thread : held'[u] # NULL => held'[u] = held[u] /\ held[u] # i
    BY <2>1, <2>3, RequestFails
  <2>5. \A j \in Item : j # i => failed'[j] = failed[j]
    BY <2>1 DEF DownloadInv, TypeOK, QueueTypeOK
  <2>6. TriedBelow(i, q)'
    BY <1>6, <2>1, <2>3, RequeueCount
  <2>7. \A j \in Item : on1[j] = IF j = i THEN q ELSE on[j]
    BY <1>6 DEF Prepends, AfterPrepend
  <2>8. i <= appended
    BY <2>1, <2>2, Items DEF Ledger, HeldInv
  <2>9. \A j \in Item : j # i =>
          /\ \A r : TriedBelow(j, r) => TriedBelow(j, r)'
          /\ \A s : TriedOn(j, s) => TriedOn(j, s)'
    BY <2>4, <2>5, SameTried
  <2>10. \A j \in Item : on1[j] \in Level => TriedBelow(j, on1[j])'
    BY <2>6, <2>7, <2>9 DEF Retried
  <2>11. ASSUME NEW u \in Conn, held'[u] # NULL
         PROVE  TriedBelow(held[u], Home[u])'
    <3>1. PICK j \in Item : j = held[u] /\ j = held'[u] /\ j # i
      BY <2>4, <2>11, Threads DEF DownloadInv, TypeOK, QueueTypeOK
    <3>2. TriedBelow(j, Home[u])
      BY <3>1, Items DEF Retried
    <3>3. TriedBelow(j, Home[u])'
      BY <2>9, <3>1, <3>2
    <3>4. QED
      BY <3>1, <3>3 DEF TriedBelow, TriedOn
  <2>12. \A j \in Item : j > appended' => attempts'[j] = <<>> /\ failed'[j] = <<>>
    BY <1>1, <2>1, <2>4, <2>5, <2>8, Items DEF Retried
  <2>13. Len(attempts'[i]) <= TotalServers
    <3>1. /\ Cardinality(Below(q)) \in Nat
          /\ Cardinality(At(q)) \in Nat
          /\ Cardinality(Below(q)) + Cardinality(At(q)) <= TotalServers
          /\ TotalServers \in Nat
      BY LevelCount, ServerCount
    <3>2. /\ Len(attempts'[i]) = Cardinality(Below(q)) + Len(failed'[i])
          /\ Len(failed'[i]) < Cardinality(At(q))
      BY <2>6 DEF TriedBelow
    <3>3. failed'[i] \in Seq(Server \cup {NULL})
      BY DEF DownloadInv, TypeOK, QueueTypeOK
    <3>4. QED
      BY <3>1, <3>2, <3>3
  <2>14. \A j \in Item : Abandoned(j)' =>
           /\ Len(attempts'[j]) = TotalServers
           /\ OnePerPriority => \A s \in Server : TriedOn(j, s)'
    BY <2>1, <2>2, <2>4, <2>9 DEF Retried, Abandoned
  <2>15. QED
    BY <2>4, <2>10, <2>11, <2>12, <2>13, <2>14 DEF Retried
<1>7. QED
  BY <1>2, <1>3, <1>4, <1>5, <1>6 DEF ListStep

-----------------------------------------------------------------------------
(* The invariant of a segment's life: the ledger, the requests that go with *)
(* it, the order of the lists, and, with one server for each priority, that *)
(* nothing is lost.                                                         *)
Account(on) ==
  /\ Ledger(on)
  /\ Retried(on)
  /\ \E rank \in [Item -> Int] : Lined(on, rank)
  /\ OnePerPriority => Kept(on)

SegmentInv ==
  /\ DownloadInv
  /\ NoLoop
  /\ \E on \in [Item -> Queue \cup {NULL}] : Account(on)

LEMMA SegmentInit == DownloadInit => SegmentInv
<1> SUFFICES ASSUME DownloadInit PROVE SegmentInv
  OBVIOUS
<1> USE DEF DownloadInit, QueueInit
<1> DEFINE on == [i \in Item |-> NULL]
           rank == [i \in Item |-> 0]
<1>1. DownloadInv
  BY InitInv
<1>2. NoLoop
  BY Items DEF NoLoop
<1>3. on \in [Item -> Queue \cup {NULL}] /\ \A i \in Item : on[i] = NULL
  OBVIOUS
<1>4. rank \in [Item -> Int]
  OBVIOUS
<1> HIDE DEF on, rank
<1>5. Ledger(on)
  BY <1>3, Queues DEF Ledger, HeldInv, FreshInv, ListedInv, NextInv, EndInv, PrevInv
<1>6. Lined(on, rank)
  BY <1>3 DEF Lined
<1>7. Retried(on)
  <2>1. \A i \in Item : on[i] \notin Level
    BY <1>3, Queues
  <2>2. \A i \in Item : attempts[i] = <<>> /\ failed[i] = <<>> /\ ~ Abandoned(i)
    BY DEF Abandoned
  <2>3. Len(<<>>) <= TotalServers
    BY ServerCount
  <2>4. \A t \in Conn : held[t] = NULL
    BY Threads
  <2>5. QED
    BY <2>1, <2>2, <2>3, <2>4 DEF Retried
<1>8. Kept(on)
  <2>1. 0 \in Queue /\ DataQ \in Queue
    BY Queues
  <2>2. \A i \in Item : ~ (i <= appended)
    BY Items
  <2>3. QED
    BY <2>1, <2>2 DEF Kept
<1>9. QED
  BY <1>1, <1>2, <1>3, <1>4, <1>5, <1>6, <1>7, <1>8 DEF SegmentInv, Account

LEMMA SegmentStep == SegmentInv /\ [DownloadNext]_downloadVars => SegmentInv'
<1> SUFFICES ASSUME SegmentInv, [DownloadNext]_downloadVars PROVE SegmentInv'
  OBVIOUS
<1>1. DownloadInv /\ DownloadInv' /\ TypeOK /\ NoLoop
  BY StepInv DEF SegmentInv, DownloadInv
<1>2. PICK on \in [Item -> Queue \cup {NULL}] : Account(on)
  BY DEF SegmentInv
<1>3. PICK rank \in [Item -> Int] : Lined(on, rank)
  BY <1>2 DEF Account
<1>4. Ledger(on) /\ Retried(on) /\ (OnePerPriority => Kept(on))
  BY <1>2 DEF Account
<1>5. PICK on1 \in [Item -> Queue \cup {NULL}] : Ledger(on1)' /\ ListStep(on, on1)
  BY <1>1, <1>4, LedgerStep
<1>6. NoLoop' /\ \E rank1 \in [Item -> Int] : Lined(on1, rank1)'
  BY <1>1, <1>3, <1>4, <1>5, ListStepLined
<1>7. Retried(on1)'
  BY <1>1, <1>4, <1>5, ListStepRetried
<1>8. OnePerPriority => Kept(on1)'
  BY <1>1, <1>3, <1>4, <1>5, ListStepKept
<1>9. Account(on1)'
  BY <1>5, <1>6, <1>7, <1>8 DEF Account
<1>10. QED
  BY <1>1, <1>6, <1>9 DEF SegmentInv

(* The ledger can always be kept with the order of the lists and the        *)
(* requests each segment has cost.                                          *)
THEOREM SegmentInvariant == DownloadSpec => []SegmentInv
BY SegmentInit, SegmentStep, PTL DEF DownloadSpec

(* However the threads interleave, and whatever the priorities of the       *)
(* servers, a segment is requested no more often than there are servers.    *)
THEOREM DownloadBoundedRetries == DownloadSpec => []BoundedRetries
<1>1. SegmentInv => BoundedRetries
  BY DEF SegmentInv, Account, Retried, BoundedRetries
<1>2. QED
  BY <1>1, SegmentInvariant, PTL

(* A segment is never abandoned early: by then as many requests have failed *)
(* as there are servers, on any mixture of priorities.  (When servers share *)
(* a priority, one of them may have failed twice and another not been asked *)
(* at all.)                                                                 *)
THEOREM DownloadAbandonedLate ==
  DownloadSpec => [](\A i \in Item : Abandoned(i) => Len(attempts[i]) = TotalServers)
<1>1. SegmentInv => \A i \in Item : Abandoned(i) => Len(attempts[i]) = TotalServers
  BY DEF SegmentInv, Account, Retried
<1>2. QED
  BY <1>1, SegmentInvariant, PTL

(* With one server for each priority, nttp_handle_retrieve_error abandons a *)
(* segment only after every server has failed to deliver it.                *)
THEOREM DownloadTriedEverywhere ==
  ASSUME OnePerPriority PROVE DownloadSpec => []TriedEverywhere
<1>1. SegmentInv => TriedEverywhere
  BY DEF SegmentInv, Account, Retried, TriedEverywhere, Abandoned, TriedOn
<1>2. QED
  BY <1>1, SegmentInvariant, PTL

(* What the pointers make of queue q is what the ledger has on it.          *)
LEMMA ListedIsLedger ==
  ASSUME SegmentInv, NEW on \in [Item -> Queue \cup {NULL}], Account(on), NEW q \in Queue
  PROVE  Listed(q) = {i \in Item : on[i] = q}
<1>1. TypeOK /\ Ledger(on)
  BY DEF SegmentInv, DownloadInv, Account
<1>2. PICK rank \in [Item -> Int] : Lined(on, rank)
  BY DEF Account
<1>3. Listed(q) \subseteq {i \in Item : on[i] = q}
  BY <1>1, ListedOnLedger
<1>4. {i \in Item : on[i] = q} \subseteq Listed(q)
  BY <1>1, <1>2, ListedAll
<1>5. QED
  BY <1>3, <1>4

(* An item is never on two lists, in the hands of two threads, or both, and *)
(* in no place at all before it is appended and after it has been freed;    *)
(* `next' never runs in a circle, and no two items of a list have the same  *)
(* successor.                                                               *)
THEOREM DownloadOwnedOnce == DownloadSpec => []OwnedOnce
<1>1. SegmentInv => OwnedOnce
  <2> SUFFICES ASSUME SegmentInv PROVE OwnedOnce
    OBVIOUS
  <2>1. PICK on \in [Item -> Queue \cup {NULL}] : Account(on)
    BY DEF SegmentInv
  <2>2. Ledger(on) /\ TypeOK
    BY <2>1 DEF Account, SegmentInv, DownloadInv
  <2>3. \A q \in Queue : \A i \in Listed(q) : i \in Item /\ on[i] = q
    BY <2>1, ListedIsLedger
  <2>4. /\ \A i \in Item : i # NULL
        /\ \A q \in Queue : q # NULL
    BY <2>2, LedgerFacts
  <2>5. ASSUME NEW i \in Item
        PROVE  Cardinality(Places(i)) <= IF i > appended \/ i \in destroyed THEN 0 ELSE 1
    <3>1. \A q \in Queue : i \in Listed(q) => q = on[i]
      BY <2>3
    <3>2. \A t \in Thread : held[t] = i =>
            /\ on[i] = NULL
            /\ i <= appended
            /\ i \notin destroyed
            /\ \A u \in Thread : held[u] = i => u = t
      BY <2>2, <2>4 DEF Ledger, HeldInv
    <3>3. on[i] # NULL => i <= appended /\ i \notin destroyed
      BY <2>2 DEF Ledger, ListedInv
    <3>4. CASE Places(i) = {}
      BY <3>4, FS_EmptySet
    <3>5. CASE Places(i) # {}
      <4>1. ~ (i > appended \/ i \in destroyed)
        <5>1. i <= appended /\ i \notin destroyed
          BY <3>1, <3>2, <3>3, <3>5, <2>4 DEF Places
        <5>2. i \in Nat /\ appended \in Nat
          BY <2>2, Items DEF TypeOK
        <5>3. QED
          BY <5>1, <5>2
      <4>2. \E x : Places(i) = {x}
        <5>1. CASE \E t \in Thread : held[t] = i
          <6>1. PICK t \in Thread : held[t] = i
            BY <5>1
          <6>2. {q \in Queue : i \in Listed(q)} = {}
            BY <2>4, <3>1, <3>2, <6>1
          <6>3. {u \in Thread : held[u] = i} = {t}
            BY <3>2, <6>1
          <6>4. QED
            BY <6>2, <6>3 DEF Places
        <5>2. CASE ~ \E t \in Thread : held[t] = i
          <6>1. Places(i) = {q \in Queue : i \in Listed(q)}
            BY <5>2 DEF Places
          <6>2. Places(i) = {on[i]}
            BY <3>1, <3>5, <6>1
          <6>3. QED
            BY <6>2
        <5>3. QED
          BY <5>1, <5>2
      <4>3. Cardinality(Places(i)) = 1
        BY <4>2, FS_Singleton
      <4>4. QED
        BY <4>1, <4>3
    <3>6. QED
      BY <3>4, <3>5
  <2>6. \A q \in Queue : \A i, j \in Listed(q) : next[i] # NULL /\ next[i] = next[j] => i = j
    BY <2>2, <2>3, <2>4 DEF Ledger, NextInv
  <2>7. QED
    BY <2>5, <2>6 DEF SegmentInv, NoLoop, OwnedOnce
<1>2. QED
  BY <1>1, SegmentInvariant, PTL

(* With one server for each priority no item gets lost: as long as its      *)
(* segment has no verdict it is on a list or a thread is working on it.     *)
THEOREM DownloadNothingLost ==
  ASSUME OnePerPriority PROVE DownloadSpec => []NothingLost
<1>1. SegmentInv => NothingLost
  <2> SUFFICES ASSUME SegmentInv, NEW i \in 1 .. appended, status[i] = "NEW"
               PROVE  Places(i) # {}
    BY DEF NothingLost
  <2>1. PICK on \in [Item -> Queue \cup {NULL}] : Account(on)
    BY DEF SegmentInv
  <2>2. i \in Item /\ i <= appended
    BY Items DEF SegmentInv, DownloadInv, TypeOK
  <2>3. on[i] # NULL \/ \E t \in Thread : held[t] = i
    BY <2>1, <2>2 DEF Account, Kept
  <2>4. on[i] # NULL => on[i] \in Queue /\ i \in Listed(on[i])
    BY <2>1, <2>2, ListedIsLedger
  <2>5. QED
    BY <2>3, <2>4 DEF Places
<1>2. QED
  BY <1>1, SegmentInvariant, PTL

=============================================================================
