------------------------------- MODULE Download -------------------------------
(***************************************************************************)
(* The download path of the library: nzb_fetch_download puts the segments   *)
(* of a post on the main queue; every connection thread takes items from    *)
(* the queue of its server's priority, retrieves the segment and appends    *)
(* the item to the data queue, or puts it back, moves it to the queue of a  *)
(* server with a higher priority number, or gives it up; the process thread *)
(* decodes and stores what arrives on the data queue, and when a post has   *)
(* no NEW segment left combines it and calls the client back.               *)
(*                                                                          *)
(* A segment and its queue item are one thing here: each segment is         *)
(* downloaded once.  Servers are listed in the order in which they were     *)
(* added, which is that of their priorities (the order in which             *)
(* nzb_fetch_add_server sets up the table of queues correctly).  A reply of *)
(* the news server is either the article or an error.                       *)
(***************************************************************************)
EXTENDS QueueList

CONSTANTS
  Client, Processor,  \* the client's thread, the process thread
  DataQ,              \* nzb_fetch.data_queue; other queues are priorities
  ServerOf,           \* the server of each connection thread
  Priority,           \* server_t.priority of each server
  ServerList,         \* nzb_fetch.servers, the linked list
  Post, PostOf,       \* the posts, and the post of each segment
  NzbFile, FileOf     \* the NZB files, and the NZB file of each post

Conn == Thread \ {Client, Processor}
Level == {Priority[s] : s \in Server}
SegmentsOf(p) == {i \in Item : PostOf[i] = p}

ASSUME DownloadAssumption ==
  /\ {Client, Processor} \subseteq Thread /\ Client # Processor
  /\ Reader = Conn \cup {Processor}
  /\ ServerOf \in [Conn -> Server]
  /\ Priority \in [Server -> Nat]
  /\ ServerList \in Seq(Server)
  /\ Server = {ServerList[n] : n \in 1 .. Len(ServerList)}
  /\ \A m, n \in 1 .. Len(ServerList) :
       m < n => /\ ServerList[m] # ServerList[n]
                /\ Priority[ServerList[m]] <= Priority[ServerList[n]]
  /\ 0 \in Level
  /\ DataQ \notin Level
  /\ Queue = Level \cup {DataQ}
  /\ Home = [t \in Reader |-> IF t = Processor THEN DataQ
                              ELSE Priority[ServerOf[t]]]
  /\ Cardinality(Item) \in Nat /\ Item = 1 .. Cardinality(Item)
  /\ PostOf \in [Item -> Post]
  /\ FileOf \in [Post -> NzbFile]
  /\ NULL \notin NzbFile

VARIABLES
  appended,   \* how many items the client has put on the main queue
  file,       \* nzb_fetch.file
  data,       \* the segments with segment_t.data set (and bytes > 0)
  chunk,      \* the chunk files on disk: <<temporary path, segment>>
  combined,   \* what file_combine wrote for each post: where, and which segments
  status,     \* segments_status of each segment
  reported,   \* history: the posts for which the client was called back
  destroyed,  \* items given to queue_item_destroy
  attempts    \* history: the servers that failed to deliver each segment


diskVars == <<chunk, combined>>
segmentVars == <<data, status, destroyed, attempts>>
clientVars == <<appended, file>>
downloadVars ==
  <<queueVars, diskVars, segmentVars, clientVars, reported>>

DownloadInit ==
  /\ QueueInit
  /\ pc = [t \in Thread |-> IF t = Client THEN "idle"
                            ELSE IF t = Processor THEN "shift" ELSE "connect"]
  /\ appended = 0
  /\ file = NULL
  /\ data = {}
  /\ chunk = {}
  /\ combined = [p \in Post |-> [path |-> NULL, segments |-> {}]]
  /\ status = [i \in Item |-> "NEW"]
  /\ reported = <<>>
  /\ destroyed = {}
  /\ attempts = [i \in Item |-> <<>>]

-----------------------------------------------------------------------------
(* The client's thread: nzb_fetch_download, for one post after the other.   *)

\* A wrong nzb_fetch_download: it leaves nzb_fetch.file as it was.
StartWithoutFile ==
  /\ pc[Client] = "idle"
  /\ appended < Cardinality(Item)
  /\ Goto(Client, "append")
  /\ UNCHANGED <<listVars, failed, held, target, clientVars, segmentVars,
                 diskVars, reported>>

\* And one that keeps the file of the first call.
StartWithFirstFile ==
  /\ pc[Client] = "idle"
  /\ appended < Cardinality(Item)
  /\ file' = IF file = NULL THEN FileOf[PostOf[appended + 1]] ELSE file
  /\ Goto(Client, "append")
  /\ UNCHANGED <<listVars, failed, held, target, appended, segmentVars,
                 diskVars, reported>>

\* A call begins.  From now on the process thread stores whatever it is
\* given under the paths of this post's NZB file.
StartDownload ==
  /\ pc[Client] = "idle"
  /\ appended < Cardinality(Item)
  /\ file' = FileOf[PostOf[appended + 1]]
  /\ Goto(Client, "append")
  /\ UNCHANGED <<listVars, failed, held, target, appended, segmentVars,
                 diskVars, reported>>

AppendSegment ==
  /\ pc[Client] = "append"
  /\ LinkLast(Client, 0, appended + 1)
  /\ appended' = appended + 1
  /\ UNCHANGED <<failed, held, file, segmentVars, diskVars, reported>>

\* The call returns after the last segment of the post.
AppendSignal ==
  /\ Signal(Client,
            IF \E i \in Item : i = appended + 1 /\ PostOf[i] = PostOf[appended]
            THEN "append" ELSE "idle")
  /\ UNCHANGED <<clientVars, segmentVars, diskVars, reported>>

ClientStep == StartDownload \/ AppendSegment \/ AppendSignal

-----------------------------------------------------------------------------
(* A connection thread.  nttp_process_queue never returns, so a thread that *)
(* is connected stays in its loop.                                          *)
fetchVars == <<clientVars, segmentVars, diskVars, reported>>

\* Connected and authenticated.
Connect(t) ==
  /\ pc[t] = "connect"
  /\ Goto(t, "shift")
  /\ UNCHANGED <<listVars, failed, held, target, fetchVars>>

\* Every attempt to connect has failed, and the thread exits.
GiveUp(t) ==
  /\ pc[t] = "connect"
  /\ Goto(t, "exit")
  /\ UNCHANGED <<listVars, failed, held, target, fetchVars>>

TakeItem(t) ==
  /\ \/ Shift(t, ServerOf[t], "retrieve")
     \/ ShiftEmpty(t)
     \/ Sleep(t)
  /\ UNCHANGED fetchVars

\* The article arrives, and the item goes to the process thread.
Retrieved(t) ==
  /\ pc[t] = "retrieve"
  /\ LinkLast(t, DataQ, held[t])
  /\ held' = [held EXCEPT ![t] = NULL]
  /\ data' = data \cup {held[t]}
  /\ UNCHANGED <<failed, status, destroyed, attempts, clientVars, diskVars,
                 reported>>

\* Wrong searches for a server with a higher priority: one that accepts the
\* same priority, and one that stops before the last server.
SameOrHigherServers(s) ==
  {n \in 1 .. Len(ServerList) : Priority[ServerList[n]] >= Priority[s]}
HigherServersButLast(s) ==
  {n \in 1 .. Len(ServerList) - 1 : Priority[ServerList[n]] > Priority[s]}

TotalServers == Len(ServerList)
SamePrioServers(s) == Cardinality({r \in Server : Priority[r] = Priority[s]})
HigherServers(s) ==
  {n \in 1 .. TotalServers : Priority[ServerList[n]] > Priority[s]}

\* Wrong bookkeeping: the server that really failed (with the search of
\* queue_list_shift as it is), and no bookkeeping at all.
FailedServerItself(t) == ServerOf[t]
NoFailures(t) == failed[held[t]]

\* nttp_handle_retrieve_error records its loop variable `server', which is
\* NULL after the loop that counts the servers.
FailedServer(t) == NULL
Failures(t) == Append(failed[held[t]], FailedServer(t))

RetrieveFails(t) ==
  /\ pc[t] = "retrieve"
  /\ held' = [held EXCEPT ![t] = NULL]
  /\ attempts' = [attempts EXCEPT ![held[t]] = Append(@, ServerOf[t])]
  /\ UNCHANGED <<data, destroyed, clientVars, diskVars, reported>>

\* Another server of the same priority may have it: back to the front.
PutBack(t) ==
  /\ RetrieveFails(t)
  /\ Len(Failures(t)) # TotalServers
  /\ Len(Failures(t)) < SamePrioServers(ServerOf[t])
  /\ failed' = [failed EXCEPT ![held[t]] = Failures(t)]
  /\ LinkFirst(t, Home[t], held[t])
  /\ UNCHANGED status

\* queue_item_move: on to the queue of the first server in the list with a
\* higher priority number, with a clean slate.
MoveOn(t) ==
  /\ RetrieveFails(t)
  /\ Len(Failures(t)) # TotalServers
  /\ Len(Failures(t)) >= SamePrioServers(ServerOf[t])
  /\ \E n \in HigherServers(ServerOf[t]) :
       /\ \A m \in HigherServers(ServerOf[t]) : n <= m
       /\ LinkFirst(t, Priority[ServerList[n]], held[t])
  /\ failed' = [failed EXCEPT ![held[t]] = <<>>]
  /\ UNCHANGED status

\* No server is left to try.  The item is not freed.
Abandon(t) ==
  /\ RetrieveFails(t)
  /\ \/ Len(Failures(t)) = TotalServers
     \/ /\ Len(Failures(t)) >= SamePrioServers(ServerOf[t])
        /\ HigherServers(ServerOf[t]) = {}
  /\ failed' = [failed EXCEPT ![held[t]] = Failures(t)]
  /\ status' = [status EXCEPT ![held[t]] = "ERROR"]
  /\ Goto(t, "shift")
  /\ UNCHANGED <<listVars, target>>

SignalQueue(t) == Signal(t, "shift") /\ UNCHANGED fetchVars

ConnStep(t) ==
  \/ Connect(t) \/ GiveUp(t)
  \/ TakeItem(t) \/ Retrieved(t)
  \/ PutBack(t) \/ MoveOn(t) \/ Abandon(t)
  \/ SignalQueue(t)

-----------------------------------------------------------------------------
(* The process thread.                                                      *)
ReceiveItem ==
  /\ \/ Shift(Processor, NULL, "decode")
     \/ ShiftEmpty(Processor)
     \/ Sleep(Processor)
  /\ UNCHANGED fetchVars

\* Not a yEnc article, or a damaged one: the item is freed, the data is not,
\* and the post is not looked at.
DecodeFails ==
  /\ pc[Processor] = "decode"
  /\ status' = [status EXCEPT ![held[Processor]] = "ERROR"]
  /\ destroyed' = destroyed \cup {held[Processor]}
  /\ held' = [held EXCEPT ![Processor] = NULL]
  /\ Goto(Processor, "shift")
  /\ UNCHANGED <<listVars, failed, target, data, attempts, clientVars,
                 diskVars, reported>>

\* A wrong process_data_queue, which goes on at once when a chunk could not
\* be written.
DecodedUnlessFailed ==
  LET i == held[Processor]
  IN /\ pc[Processor] = "decode"
     /\ data' = data \ {i}
     /\ status' = [status EXCEPT ![i] = "COMPLETE"]
     /\ \/ /\ chunk' = chunk \cup {<<file, i>>}
           /\ Goto(Processor, "check")
           /\ UNCHANGED <<held, destroyed>>
        \/ /\ Goto(Processor, "shift")
           /\ held' = [held EXCEPT ![Processor] = NULL]
           /\ destroyed' = destroyed \cup {i}
           /\ UNCHANGED chunk
     /\ UNCHANGED <<listVars, failed, target, combined, attempts, clientVars,
                    reported>>

\* The segment is COMPLETE whether or not its chunk could be written.  A
\* chunk that is not whole, or lies under another name than file_combine
\* looks for (module Assembly), is not in `chunk'.
Decoded ==
  LET i == held[Processor]
  IN /\ pc[Processor] = "decode"
     /\ \/ chunk' = chunk \cup {<<file, i>>}
        \/ UNCHANGED chunk
     /\ data' = data \ {i}
     /\ status' = [status EXCEPT ![i] = "COMPLETE"]
     /\ Goto(Processor, "check")
     /\ UNCHANGED <<listVars, failed, held, target, combined, destroyed,
                    attempts, clientVars, reported>>

\* A wrong process_check_post_status: one segment that was tried will do.
AnyTried(p) == \E i \in SegmentsOf(p) : status[i] # "NEW"

\* process_check_post_status
AllTried(p) == \A i \in SegmentsOf(p) : status[i] # "NEW"

\* What file_combine copies: it skips the segments in ERROR, and stops at
\* the first chunk that is not under the current temporary path.
Combinable(p) ==
  {i \in SegmentsOf(p) :
     /\ status[i] # "ERROR"
     /\ \A j \in SegmentsOf(p) :
          j <= i /\ status[j] # "ERROR" => <<file, j>> \in chunk}

CheckPost ==
  LET i == held[Processor]
      p == PostOf[i]
  IN /\ pc[Processor] = "check"
     /\ IF AllTried(p)
        THEN /\ combined' = [combined EXCEPT ![p] =
                                 [path |-> file, segments |-> Combinable(p)]]
             /\ reported' = Append(reported, p)
        ELSE UNCHANGED <<combined, reported>>
     /\ destroyed' = destroyed \cup {i}
     /\ held' = [held EXCEPT ![Processor] = NULL]
     /\ Goto(Processor, "shift")
     /\ UNCHANGED <<listVars, failed, target, chunk, data, status, attempts,
                    clientVars>>

ProcessorStep == ReceiveItem \/ DecodeFails \/ Decoded \/ CheckPost

-----------------------------------------------------------------------------
Woken(t) == SpuriousWake(t) /\ UNCHANGED fetchVars

DownloadNext ==
  \/ ClientStep
  \/ \E t \in Conn : ConnStep(t)
  \/ ProcessorStep
  \/ \E t \in Reader : Woken(t)

DownloadSpec == DownloadInit /\ [][DownloadNext]_downloadVars

(* Every thread keeps being scheduled, and every request to the news server *)
(* is answered.  Nothing promises a spurious wakeup.                        *)
FairDownloadSpec ==
  /\ DownloadSpec
  /\ WF_downloadVars(ClientStep)
  /\ \A t \in Conn : WF_downloadVars(ConnStep(t))
  /\ WF_downloadVars(ProcessorStep)

-----------------------------------------------------------------------------
TypeOK ==
  /\ QueueTypeOK
  /\ pc \in [Thread -> QueuePoint \cup {"idle", "append", "connect", "exit",
                                        "retrieve", "decode", "check"}]
  /\ appended \in 0 .. Cardinality(Item)
  /\ file \in NzbFile \cup {NULL}
  /\ data \subseteq Item
  /\ chunk \subseteq NzbFile \X Item
  /\ combined \in [Post -> [path : NzbFile \cup {NULL}, segments : SUBSET Item]]
  /\ status \in [Item -> {"NEW", "COMPLETE", "ERROR"}]
  /\ reported \in Seq(Post)
  /\ destroyed \subseteq Item
  /\ attempts \in [Item -> Seq(Server)]

(* The items that can be reached from the front of queue q.                 *)
Listed(q) ==
  LET reach[n \in 0 .. Cardinality(Item)] ==
        IF n = 0 THEN {first[q]} \ {NULL}
        ELSE reach[n-1] \cup ({next[i] : i \in reach[n-1]} \ {NULL})
  IN reach[Cardinality(Item)]

Places(i) == {q \in Queue : i \in Listed(q)} \cup {t \in Thread : held[t] = i}

(* An item is never in two places, whatever the threads do: on one list or  *)
(* in the hands of one thread, and in no place at all before the client has *)
(* appended it and after it has been freed.  No list runs in a circle.      *)
OwnedOnce ==
  /\ \A i \in Item : Cardinality(Places(i)) <=
                       IF i > appended \/ i \in destroyed THEN 0 ELSE 1
  /\ \A i \in Item : next[i] # i
  /\ \A q \in Queue : \A i, j \in Listed(q) :
       next[i] # NULL /\ next[i] = next[j] => i = j

(* With one server for each priority no item gets lost: as long as its      *)
(* segment is NEW it is on a list or a thread is working on it.             *)
NothingLost ==
  \A i \in 1 .. appended : status[i] = "NEW" => Places(i) # {}

(* No thread follows a pointer to an item that has been freed: append       *)
(* writes to `last', shift takes `first', writes to the item behind it and, *)
(* for a server, to the one its `prev' names.                               *)
NoUseAfterFree ==
  /\ \A t \in Thread : held[t] \notin destroyed
  /\ \A q \in Queue :
       /\ last[q] \notin destroyed
       /\ first[q] \notin destroyed
       /\ first[q] # NULL =>
            /\ next[first[q]] \notin destroyed
            /\ q # DataQ => prev[first[q]] \notin destroyed

(* The assertions of the code: a segment is requested only while it has no  *)
(* data (nttp_retrieve_segment), is decoded only when it has                *)
(* (process_data_queue), and an item is not on any list when it is appended *)
(* or prepended (queue_list_append, queue_list_prepend).                    *)
AssertionsHold ==
  /\ \A t \in Conn : pc[t] = "retrieve" =>
       /\ held[t] \notin data
       /\ next[held[t]] = NULL
       /\ prev[held[t]] = NULL
  /\ pc[Processor] = "decode" => held[Processor] \in data

(* queue_list_shift does not run off the end of the list in its search for  *)
(* an item that has not failed on this server.                              *)
ShiftFindsItem ==
  \A t \in Conn : pc[t] = "shift" /\ first[Home[t]] # NULL =>
    Candidate(Home[t], ServerOf[t]) # NULL

(* However the threads interleave, a segment is requested no more often     *)
(* than there are servers.                                                  *)
BoundedRetries == \A i \in Item : Len(attempts[i]) <= TotalServers

(* "Leave it for another server which is using the same priority queue",    *)
(* "If all servers failed, return" (nttp_connection.c,                      *)
(* nttp_handle_retrieve_error): a segment is abandoned only after every     *)
(* server has failed to deliver it.  With one server for each priority it   *)
(* is so; between servers of the same priority it is not, for the server    *)
(* that failed is recorded as NULL, and may well be the next to take the    *)
(* segment again.                                                           *)
TriedEverywhere ==
  \A i \in Item : status[i] = "ERROR" /\ i \notin destroyed =>
    \A s \in Server : \E n \in 1 .. Len(attempts[i]) : attempts[i][n] = s

(* Statuses are final and each post is reported at most once, after its     *)
(* last segment: the three kinds of threads together implement Posts.       *)
P == INSTANCE Posts WITH Item <- Item, Post <- Post, PostOf <- PostOf,
                         status <- status, reported <- reported
ImplementsPosts == P!Spec

(* A post whose segments are all COMPLETE has been reported, or the process  *)
(* thread is about to look at it: of the scans of its statuses the last one  *)
(* sees no NEW (process_check_post_status).  A post whose last segment ends  *)
(* in ERROR is not spoken of: nobody looks at it again.                      *)
CompleteReported ==
  \A p \in Post :
    (\A i \in SegmentsOf(p) : status[i] = "COMPLETE") =>
      \/ \E n \in 1 .. Len(reported) : reported[n] = p
      \/ pc[Processor] = "check" /\ PostOf[held[Processor]] = p

\* The call of nzb_fetch_download that appends segment i has begun.
Asked(i) == i <= appended \/ (i = appended + 1 /\ pc[Client] = "append")

\* Since the download of post p nothing from another NZB file was asked for.
LastFile(p) ==
  \A i \in Item : \A j \in SegmentsOf(p) :
    j < i /\ Asked(i) => FileOf[PostOf[i]] = FileOf[p]

(* The process thread stores with whatever NZB file the client downloads     *)
(* from by then.  So a post lies in the directory of its own NZB file, all   *)
(* its chunks too, as long as no download from another one has been asked    *)
(* for (nzb_fetch_download, process_data_queue).                             *)
StoredWhereAsked ==
  \A n \in 1 .. Len(reported) :
    LET p == reported[n]
    IN LastFile(p) =>
         /\ combined[p].path = FileOf[p]
         /\ \A c \in chunk : PostOf[c[2]] = p => c[1] = FileOf[p]

(* A queue with items on it that nobody will ever take: all the threads     *)
(* that read it have failed to connect.                                     *)
Deserted ==
  \E q \in Queue : /\ first[q] # NULL
                   /\ \A t \in Reader : Home[t] = q => pc[t] = "exit"

(* A queue with items on it whose every reader has exited or sleeps.  It is *)
(* so for a moment whenever an item is appended to a queue with a sleeping  *)
(* reader, until the signal.                                                *)
Idle ==
  \E q \in Queue : /\ first[q] # NULL
                   /\ \A t \in Reader : Home[t] = q => pc[t] \in {"exit", "asleep"}

(* A reader has found its queue empty and is about to wait for a signal,    *)
(* while there are items on the queue again and the signals for them have   *)
(* been given.                                                              *)
SignalMissed ==
  \E t \in Reader :
    /\ pc[t] = "unlocked"
    /\ first[Home[t]] # NULL
    /\ \A u \in Thread : target[u] # Home[t]

(* Every segment that the client has asked for has its verdict. *)
Resolved == \A i \in Item : i <= appended => status[i] # "NEW"

(* With one server for each priority, every segment the client has asked    *)
(* for gets its verdict.  What can stop it for ever is a queue that lies    *)
(* idle, and a queue lies idle only because all its readers have exited or  *)
(* because, some time, a signal fell between the unlock of mtx_queue and    *)
(* the wait in queue_list_shift: nothing else loses a wakeup.               *)
EverySegmentResolved ==
  /\ <>[]Resolved \/ <>[]Idle
  /\ <>[]Resolved \/ <>Deserted \/ <>SignalMissed

=============================================================================
