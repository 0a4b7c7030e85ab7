------------------------------- MODULE Servers -------------------------------
(***************************************************************************)
(* The servers of a fetcher and its table of priority queues, as            *)
(* nzb_fetch_add_server builds them up before nzb_fetch_connect starts the  *)
(* connection threads (nzb_fetch_add_server, server_calc_priorities,        *)
(* server_sort, swap).                                                      *)
(*                                                                          *)
(* A server is named by its place in the list.  Its address is a pair, the  *)
(* upper and the lower 32 bits of the pointer: swap exchanges ints.         *)
(***************************************************************************)
EXTENDS PointerSort, FiniteSets, Functions

CONSTANTS
  UserPriority,  \* the priorities a client may pass
  AddressHigh,   \* the upper halves of the addresses malloc may return
  MaxServers     \* bound on the number of servers

ASSUME ServersAssumption ==
  /\ UserPriority \subseteq Int
  /\ MaxServers \in Nat

VARIABLES
  userPriority,  \* server_t.user_priority, in the order of nzb_fetch.servers
  address,       \* the address of each server
  priority,      \* server_t.priority of each server
  sorted,        \* the array that server_calc_priorities sorted last
  table          \* nzb_fetch.priority_queues: which server each queue was
                 \* created for (0: the main queue of nzb_fetch_init)

vars == <<userPriority, address, priority, sorted, table>>

Uninitialised == -1

Init ==
  /\ userPriority = <<>>
  /\ address = <<>>
  /\ priority = <<>>
  /\ sorted = <<>>
  /\ table = [n \in {0} |-> 0]

-----------------------------------------------------------------------------
(* Wrong ranks, which count every server.                                   *)
RanksOfPositions(up, arr) == [n \in 0 .. Len(arr) |-> n - 1]

(* What each pointer reads as user_priority.  A pointer that swap has mixed *)
(* up from the halves of two others points at no server, and reading it may *)
(* as well end the program: 0 stands for whatever is there.                 *)
UserPriorityAt(users, addresses) ==
  [p \in [high : AddressHigh, low : 1 .. MaxServers] |->
     IF \E n \in DOMAIN addresses : addresses[n] = p
     THEN users[CHOOSE n \in DOMAIN addresses : addresses[n] = p]
     ELSE 0]

(* The priorities that server_calc_priorities gives along the sorted array: *)
(* one more at every increase of the user priority.                         *)
Ranks(up, arr) ==
  LET rank[n \in 0 .. Len(arr)] ==
        IF n = 0 THEN -1
        ELSE IF n = 1 \/ up[arr[n]] > up[arr[n-1]] THEN rank[n-1] + 1
        ELSE rank[n-1]
  IN rank

(* A wrong number, off by one.                                              *)
TwoQueues == 2

(* current_queues is the size of a pointer over the size of a pointer.      *)
CurrentQueues == 1

AddServer(u, high) ==
  LET n == Len(userPriority) + 1
      up == UserPriorityAt(userPriority', address')
      rank == Ranks(up, sorted')
      required == rank[n] + 1
  IN /\ n <= MaxServers
     /\ u >= 0
     /\ userPriority' = Append(userPriority, u)
     /\ address' = Append(address, [high |-> high, low |-> n])
     /\ sorted' = SortRange(up, address', 1, n + 1)
     /\ priority' = [m \in 1 .. n |->
                       IF \E k \in 1 .. n : sorted'[k] = address'[m]
                       THEN rank[CHOOSE k \in 1 .. n : sorted'[k] = address'[m]]
                       ELSE IF m \in DOMAIN priority THEN priority[m] ELSE -1]
     /\ table' =
          IF required > 1 /\ required > CurrentQueues
          THEN [m \in 0 .. required - 1 |->
                  IF m = priority'[n] THEN n
                  ELSE IF m \in DOMAIN table THEN table[m] ELSE Uninitialised]
          ELSE table

Next == \E u \in UserPriority, high \in AddressHigh : AddServer(u, high)

Spec == Init /\ [][Next]_vars

-----------------------------------------------------------------------------
(* The properties hold as long as malloc returns all servers from one       *)
(* region of 4 GB (AddressHigh has one element): nothing in the code sees   *)
(* to that.  "Swap two pointer values" (server.c, swap) exchanges ints, the *)
(* lower halves of two pointers; with servers in two regions it makes       *)
(* pointers that point at none.                                             *)

(* "Thus priorities 0, 2, 40, 40 become priorities 0, 1, 2, 2" (server.c):  *)
(* whatever the order in which the servers were added, a server's priority  *)
(* is the number of different user priorities below its own, if all servers *)
(* lie in one region of 4 GB.                                               *)
PrioritiesDense ==
  /\ DOMAIN priority = DOMAIN userPriority
  /\ \A n \in DOMAIN priority :
       priority[n] = Cardinality({u \in Range(userPriority) : u < userPriority[n]})

TableReady ==
  \A n \in DOMAIN priority : /\ priority[n] \in DOMAIN table
                             /\ table[priority[n]] # Uninitialised

Ascending ==
  \A m, n \in DOMAIN userPriority : m < n => userPriority[m] <= userPriority[n]

(* When the servers lie in one region of 4 GB and are added in the order of *)
(* their priorities, every priority in use has its own queue, and that of   *)
(* the best servers is the main queue, where nzb_fetch_download puts the    *)
(* segments.                                                                *)
AscendingOrderWorks ==
  Ascending => /\ TableReady
               /\ table[0] = 0
               /\ \A n \in DOMAIN table \ {0} : priority[table[n]] = n

=============================================================================
