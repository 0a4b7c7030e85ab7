----------------------------- MODULE Connections -----------------------------
(***************************************************************************)
(* The servers once nzb_fetch_connect has started their threads: which      *)
(* queue each thread reads (nzb_fetch_connect, nttp_process_queue), and     *)
(* what nzb_fetch_list_connections tells about them                         *)
(* (server_calc_transfer_rate).                                             *)
(*                                                                          *)
(* Each server has one connection.  Time is counted in quarters of a        *)
(* second, bytes in blocks.  The client connects once; it may add servers   *)
(* after that.                                                              *)
(***************************************************************************)
EXTENDS Servers

CONSTANTS
  NULL,
  MaxConnected,       \* bound on the servers when the client connects
  MaxLate,            \* bound on the servers with those added after that
  MaxTicks, MaxBytes  \* bounds on the time and on the bytes of a connection

ASSUME ConnectionsAssumption ==
  /\ NULL \notin Int
  /\ NULL \notin [at : Nat, bytes : Nat]
  /\ NULL \notin [connected : BOOLEAN, table : Nat, queue : Int \cup {NULL},
                  bytes : Nat, prevBytes : Nat, prevTime : Nat \cup {NULL}]

VARIABLES
  allocation,  \* which allocation of the table of queues is in use
  threads,     \* server_t.threads of each server; NULL as malloc left it
  now,
  rates,       \* what the last nzb_fetch_list_connections told
  state        \* "adding", "connected", "crashed"

connectionVars == <<allocation, threads, now, rates, state>>

Ticks == 4  \* in a second

InitConnections ==
  /\ Init
  /\ allocation = 0 /\ threads = <<>> /\ now = 0 /\ rates = <<>>
  /\ state = "adding"

\* reallocf may move the table away from under the threads.
Add ==
  /\ state = "adding" \/ (state = "connected" /\ Len(threads) < MaxLate)
  /\ Next
  /\ allocation' = IF DOMAIN table' = DOMAIN table THEN allocation ELSE allocation + 1
  /\ threads' = Append(threads, NULL)
  /\ UNCHANGED <<now, rates, state>>

NewThread == [connected |-> FALSE, table |-> allocation, queue |-> NULL,
              bytes |-> 0, prevBytes |-> 0, prevTime |-> NULL]

\* nzb_fetch_connect: a server whose name is not found is left out.
Connect(found) ==
  /\ state = "adding" /\ Len(threads) \in 1 .. MaxConnected
  /\ state' = "connected"
  /\ threads' = [n \in DOMAIN threads |-> IF n \in found THEN NewThread ELSE NULL]
  /\ UNCHANGED <<vars, allocation, now, rates>>

\* A wrong choice of the queue: the main queue for every server.
MainQueue(n) == table[0]

\* The queue a thread reads from now on: the one its server's priority has in
\* the table at this moment; nothing sensible if the table has moved.
QueueOf(n) ==
  IF threads[n].table = allocation /\ priority[n] \in DOMAIN table
  THEN table[priority[n]] ELSE Uninitialised

EnterLoop(n) ==
  /\ threads[n] # NULL /\ ~threads[n].connected
  /\ threads' = [threads EXCEPT ![n].connected = TRUE, ![n].queue = QueueOf(n)]
  /\ UNCHANGED <<vars, allocation, now, rates, state>>

Receive(n) ==
  /\ threads[n] # NULL /\ threads[n].connected /\ threads[n].bytes < MaxBytes
  /\ threads' = [threads EXCEPT ![n].bytes = @ + 1]
  /\ UNCHANGED <<vars, allocation, now, rates, state>>

Tick ==
  /\ state = "connected" /\ now < MaxTicks
  /\ now' = now + 1
  /\ UNCHANGED <<vars, allocation, threads, rates, state>>

\* A wrong version: the bytes are never marked as counted.
Recounted(t) == [t EXCEPT !.prevTime = now]

\* Whole seconds since the last call: the division is one of integers.
Seconds(t) == (now - t.prevTime) \div Ticks

Counted(t) == [t EXCEPT !.prevBytes = t.bytes, !.prevTime = now]

\* The rate of a connection: undefined before it is connected, on the first
\* call (prev_time has no value), and when no whole second has passed.
TransferRate(t) ==
  IF ~t.connected \/ t.prevTime = NULL THEN NULL
  ELSE IF Seconds(t) = 0 THEN NULL
  ELSE (t.bytes - t.prevBytes) \div Seconds(t)

\* When a connection was last asked for, if it was connected then, and how
\* much it had received.
LastAsked(n) ==
  IF n \in DOMAIN rates THEN rates[n].asked ELSE NULL

\* The threads of a server that was not connected are read all the same.
ListConnections ==
  /\ state = "connected"
  /\ IF \E n \in DOMAIN threads : threads[n] = NULL
     THEN state' = "crashed" /\ UNCHANGED <<threads, rates>>
     ELSE /\ rates' = [n \in DOMAIN threads |->
                         [rate |-> TransferRate(threads[n]),
                          before |-> LastAsked(n),
                          asked |-> IF threads[n].connected
                                    THEN [at |-> now, bytes |-> threads[n].bytes] ELSE NULL]]
          /\ threads' = [n \in DOMAIN threads |->
                           IF threads[n].connected THEN Counted(threads[n]) ELSE threads[n]]
          /\ UNCHANGED state
  /\ UNCHANGED <<vars, allocation, now>>

NextConnections ==
  \/ Add
  \/ \E found \in SUBSET DOMAIN threads : Connect(found)
  \/ state = "connected" /\ \E n \in DOMAIN threads : EnterLoop(n) \/ Receive(n)
  \/ Tick
  \/ ListConnections

SpecConnections == InitConnections /\ [][NextConnections]_<<vars, connectionVars>>

-----------------------------------------------------------------------------
AllConnected == \A n \in DOMAIN threads : threads[n] # NULL

(* When the servers lie in one region of 4 GB, were added in the order of   *)
(* their priorities, all before nzb_fetch_connect, and all of them were     *)
(* found and have connected, every queue of the table is read by the        *)
(* threads of exactly the servers of its priority; no segment waits on a    *)
(* queue that nobody reads (nzb_fetch_connect, nttp_process_queue).         *)
EveryQueueIsRead ==
  state = "connected" /\ Ascending /\ AllConnected
    /\ (\A n \in DOMAIN threads : threads[n].connected) =>
      \A q \in DOMAIN table :
        LET readers == {n \in DOMAIN threads : threads[n].queue = table[q]}
        IN readers = {n \in DOMAIN priority : priority[n] = q} /\ readers # {}

(* A client that waits a second or more between its calls, as main.c does,  *)
(* gets a rate for every connection it has asked for before: no division by *)
(* zero.  The rate is at least the real one, rounded down, and less than    *)
(* twice of it (server_calc_transfer_rate, which drops the fractions of a   *)
(* second).                                                                 *)
RateWithinTwice ==
  \A n \in DOMAIN rates :
    rates[n].before # NULL =>
      LET rate == rates[n].rate
          ticks == rates[n].asked.at - rates[n].before.at
          bytes == rates[n].asked.bytes - rates[n].before.bytes
      IN ticks >= Ticks =>
           /\ rate # NULL
           /\ bytes * Ticks < (rate + 1) * ticks
           /\ rate > 0 => rate * ticks < 2 * Ticks * bytes

=============================================================================
