# Verification of nzblib

nzblib (`src/` of this repository, the library `libnzbfetch`) downloads the
binaries that an NZB file lists from Usenet servers.  This directory holds TLA+
models of it, the TLC configurations that check them on small instances, and
proofs that TLAPS checks for every instance.  Paths below are relative to the
root of the library; `queue.c` means `src/queue.c`.

## 1. The system

### Threads

One client thread calls the API (`libnzb_fetch.c`).  `nzb_fetch_init` starts one
process thread (`process_data_queue`), and `nzb_fetch_connect` starts
`num_threads` connection threads for each server (`nttp_connection`).  They share

* one work queue per priority (`nzb_fetch.priority_queues`; number 0 is the
  *main queue*), filled by the client and, after failures, by connection threads;
* the *data queue*, filled by connection threads and read by the process thread;
* without any lock: `post_t.segments_status`, `segment_t.data`, `nzb_fetch.file`,
  the list of servers and the table of queues.

### Components

| component | state | operations | hard part | what makes it correct |
|---|---|---|---|---|
| work queues, `queue.c` | `first`, `last`, `next`, `prev`, failure list of an item; mutex and condition variable | append, prepend, move, shift (with a search for an item that has not failed on this server), sleep | the list and the condition variable have different mutexes; two ends maintained by two operations | the pointers are the list; an item is in one place; no freed item is followed; a sleeper is woken |
| downloader, `nttp_connection.c` | program point of each thread, the item it holds | process queue, retrieve, handle error | retry and fail-over between servers while other threads shift and append | every server is asked, no server twice; every segment gets a verdict |
| data processor, `process.c` | item in process, status of segments | decode, store, check the post, combine, call back, free | completion is detected from statuses that other threads set; decoding renames what is being stored | report once, after the last segment, with everything stored |
| files, `file.c` | chunks in the temporary path, target files | write chunk, combine | partial failure; the global `nzb_fetch.file` | what is reported is on disk, and where it was asked for |
| client API, `libnzb_fetch.c` | queues, list of servers, table of queues | init, add server, connect, parse, download, callback | calls in any order; calls while threads run | every server's queue exists; the main queue is served |
| servers, `server.c` | user priority and priority of each server | sort, calculate priorities, transfer rate | quicksort over swapped pointers; sizes and time differences | dense priorities in the order of the user priorities |
| NNTP session, `nttp_connection.c` + `net.c` | connection, selected group, received bytes | connect, authenticate, group, body, reconnect | replies in fragments, lost connections, retry counting | reply belongs to request; the loop ends |
| NZB parser, `parse_nzb.c`, `post.c`, `segment.c` | parser state stack, posts, segments and statuses | element start/end/data, sort | callbacks deliver text in pieces; two parallel arrays | statuses and segments stay parallel |
| yEnc and CRC, `yenc.c`, `crc32.c` | decoder position, escape flag | decode, keyword parsing | escapes and line ends at boundaries | decode inverts encode |
| compat, bindings, examples | - | - | - | clients and replacements of C functions; not modelled |

An NZB file becomes posts and segments (parser); `nzb_fetch_download` puts the
segments on the main queue (client API); a connection thread takes one, asks its
server for it (session) and puts the article on the data queue; the process thread
decodes it (yEnc), writes its chunk and, after the last verdict of a post, combines
the chunks (files).  Each of these hand-overs is modelled on both of its sides:

* *session and downloader*: `NttpSession` implements `Retrieval`, whose two answers,
  article and error, are the actions `Retrieved` and `RetrieveFails` of `Download`;
* *data queue and process thread*: `DataQueue` implements `Fifo`;
* *downloader and client*: `Download` implements `Posts`;
* *parser, statuses and files*: `Assembly` runs the verdicts of `Posts` and
  `file_combine` over what `NzbParser` has built;
* *servers and connection threads*: `Connections` runs the threads' choice of a queue
  over the table that `Servers` has built.

## 2. Modules

| module | models | extends |
|---|---|---|
| `QueueList` | `queue.c`: list surgery, search, signal, sleep, as actions that other modules use | - |
| `Fifo` | abstract: a queue as two histories, sent and received | - |
| `DataQueue` | the data queue between connection threads and process thread | `QueueList`, instance of `Fifo` |
| `DataQueueProofs` | proofs about `DataQueue` | `DataQueue` |
| `Induction` | proofs: induction over the natural numbers, and that a function defined by its steps exists | - |
| `Posts` | abstract: the life of segments and posts | - |
| `Download` | client, connection threads, process thread, files | `QueueList`, instance of `Posts` |
| `DownloadProofs` | proofs about `Download`: lists, threads, refinement, and what becomes of each segment | `Download`, `Induction` |
| `PointerSort` | `swap`, `server_sort` and its twin `post_segments_sort` in `post.c` | - |
| `PointerSortProofs` | proofs about `PointerSort` | `PointerSort`, `Induction` |
| `Servers` | `nzb_fetch_add_server`, `server_calc_priorities` | `PointerSort` |
| `Connections` | `nzb_fetch_connect`, the queue each thread reads, transfer rates; servers added later | `Servers` |
| `ServersProofs` | proofs about `Servers` and `Connections` | `Connections`, `PointerSortProofs` |
| `Retrieval` | abstract: one request at a time, answered once | - |
| `NttpSession` | `nttp_connection.c` but the queue's error path, `net.c`, the news server | instance of `Retrieval` |
| `NttpSessionProofs` | proofs about `NttpSession` | `NttpSession` |
| `NzbParser` | the expat handlers of `parse_nzb.c`, `post.c`, `nzb_fetch_list_files` | `PointerSort` |
| `Assembly` | statuses, chunk files and `file_combine` over the parsed posts | `NzbParser` |
| `AssemblyProofs` | proofs about `NzbParser` and `Assembly` | `Assembly`, `PointerSortProofs` |
| `Crc32` | `crc32.h`: the byte step at 32 bits | - |
| `Yenc` | `yenc_decode`, with an encoder and damage on the way as environment | `Crc32` |
| `YencProofs` | proofs about `Yenc` and `Crc32` | `Yenc`, `Induction` |
| `MCDataQueue`, `MCDownload`, `MCNttpSession`, `MCNzbParser`, `MCAssembly`, `MCYenc` | values of the constants for TLC | |

### How state and actions correspond

*Granularity.*  A critical section of `mtx_queue` is one action; so is a stretch
of code that touches only what its thread owns, up to the next point where
another thread can see a difference.  `queue_list_shift` on an empty list is
three steps: see that it is empty and unlock (`ShiftEmpty`), start to wait
(`Sleep`), be woken (by `Signal`, or `SpuriousWake`).  The signal of append and
prepend is a step of its own, after the list has been unlocked.

*Items.*  `first`, `last`, `next`, `prev` are the C pointers; lists are never
represented as sequences, so what the surgery does to the two ends is what the
models show.  `failed` is the array `failed_servers`.  `FailedServer` is what
`nttp_handle_retrieve_error` really records: its loop variable, NULL by then.

*Statuses.*  The process thread's scan of the statuses is one step.  Statuses
only ever leave NEW, so the scan's answer is that of the moment at which it reads
the first NEW entry, or of its end.

*Files.*  `chunk` is the set of chunk files, each under the path that
`nzb_fetch.file` named when it was written; `combined` records where
`file_combine` wrote and which segments it copied (it skips ERROR, and stops at
the first chunk it cannot open).  What chunks are called inside of that path is the
subject of `Assembly`: decoding an article replaces the post's file name and the
segment's number by what the `=ybegin` line says (`ReadHeader`, in `Complete` and in
`Fail`, any header that the constants allow), and `file_write_chunk` and `file_combine`
use what is there when they run.  A chunk may be whole, truncated (a short `fwrite`), or
missing, and it replaces one of the same name.

*The byte stream.*  What it matters to cut is a token: a status line (or its two
halves, if `StatusIsWhole` is false), the text of an article, and the two halves of
its final `.\r\n`.  `Pieces` is what one `recv` may return.  A token remembers the
segment it answers, so that a reply taken for another one shows.  The server sends its
whole reply when it is asked; a connection that is lost (`LoseLink`) loses any part of
what was under way.  `net_recv`'s dangling pointer after an error is a choice between
a crash and what the code does with an unknown number.

*The document.*  `NzbParser` writes the NZB file while it is parsed: every start of
an element, its text in pieces, its end, or an error in the XML at any place.
`document` remembers what was written, `posts` is what the handlers built.  Segments
keep the place where they were made (`made`, with `index`); the array of pointers
(`segments`) is what is sorted, and `status` is the array beside it.

*Pointers.*  Servers and segments are blocks of their own; the upper half of each
address is any member of `AddressHigh`, the lower half is its number.  `swap` exchanges
lower halves (`PointerSort!Swap`), so that a sort over two regions can leave pointers to
nothing: `Wild` in `segments`, a server that `sorted` does not have.  What is read
through one is any number, or the end of the process (`SortCrash`, `DownloadWild`).

*Subjects.*  `FindFilename` has the three layouts.  A search backwards that meets no
second quote, no `- `, or no blank behind the last dash leaves the string
(`SearchLeaves`): then the process may end (`FilenameCrash`), or the name is something
from elsewhere (`Elsewhere`).

*Recursion.*  The calls of `server_sort` are a recursive function of the depth of the
call (`SortRange`), which no call exceeds: the length of the part to be sorted.  Its inner
loop is a recursive function of the turns (`Partition`), one turn being `Narrow`.

*Words and lines.*  A word of the CRC is the set of its bits.  A line of an article is
a record of the keywords it carries, or its bytes; `DecodeLine` is the inner loop of
`yenc_decode`, a recursive function of the turns, one turn being `Turn`; `Crc32Over` is
the loop over a buffer, a recursive function of the bytes.

*History variables.*  `sent`, `received` (data queue), `attempts` (which servers
failed a segment), `reported` (callbacks), `sockets`, `refused`, `document`, `lost`
and the entries `before` and `asked` of `rates` record what happened; no guard but the
parser's own bounds reads them.

## 3. Runs

| run | question | expected |
|---|---|---|
| `DataQueue` | Is the data queue a FIFO without dangling pointers, and is a missed signal made up for? 2 senders, 4 items | holds |
| `DataQueueWakeup` | Does the process thread block only without data? (`process.c:60`) | violated: lost wakeup |
| `Download` | A server and a fill server: is nothing lost, is every server asked before a segment is given up, are retries bounded, are posts without failures reported, are the posts of the file asked for last stored in its place, are verdicts final (`Posts`); and under fairness: does every segment get its verdict, and is a missed signal or a queue without threads the only thing that can prevent it? 3 segments, 2 posts of 2 NZB files | holds |
| `DownloadPeers` | Ownership, freed items, assertions, the search and the retries with two servers of one priority, where items go back to the front of the main queue while the client appends | holds |
| `DownloadPeersLose` | Is nothing lost there? (`queue.c:251`) | violated: append after prepend on an empty list |
| `DownloadPeersUntried` | Is every server asked there before a segment is given up? (`nttp_connection.c:351`, 379, `queue.c:158`) | violated: failures are recorded as NULL, and the server that failed takes the segment again |
| `Servers` | Are priorities dense, is every queue read by the servers of its priority, and is the rate that of the time since the last call? up to 4 servers in one region of 4 GB, 2 of them connected, one added later | holds |
| `NttpSession` | Does a segment get its own whole article, or an error with a reason, after login, in the right group, and does every request end? 3 segments in 2 groups, pieces cut anywhere but inside status lines, refusals, lost connections | holds |
| `NttpSessionCut` | Is a stored segment the article asked for if a status line arrives in two pieces? (`nttp_connection.c:187`) | violated: replies shift by one |
| `NzbParser` | Are names whole however text is cut, segments sorted (those of a post that lies in one region of 4 GB), and files as written (subjects with quotes)? 2 files, 3 segments, addresses in two regions, subjects of every layout and one that a search leaves | holds |
| `Assembly` | Is the combined file in order, up to the first gap? one file of 3 segments with any numbers, in two regions, two file names and a part in the headers | holds |
| `Yenc` | Is what is decoded what was encoded, is an intact article accepted, and is of a damaged article nothing accepted but the poster's data, under the header's name and part? payloads of up to 4 bytes | holds |

The violations are disagreements between the code and what it says of itself.  `NothingLost`
and `TriedEverywhere` are in a passing run and in a violated one: they hold with one server
for each priority, and not between peers, which is how `example/main.c` sets servers up.

Further disagreements were seen while modelling.  The models have all of this behaviour, but
no run of its own shows it; where a property would be violated by it, the property says
that it speaks of the other cases only:

* A post whose last segment ends in ERROR is never combined nor reported, since
  `process_check_post_status` (`process.c:139`, "when we have not tried to download all
  segments") is only called after a segment that was decoded (`CompleteReported`).
* A second `nzb_fetch_download` redirects the posts of the first that are under way into
  the directories of its own NZB file; the fetcher has one `file` (`StoredWhereAsked`).
* When a chunk is missing, `file_combine` returns -1 "so that the process thread can identify
  the problem" (`file.c:219`), and the process thread drops the result and reports the post.
  The segment is COMPLETE whether its chunk was written or not, and a short `fwrite`
  (`file.c:99`) counts as success.
* `swap` exchanges "two pointer values" (`server.c:42`) as ints: with servers, or segments of
  one post, in two regions of 4 GB the sort makes pointers that lead nowhere.
* `file_combine` runs over the sorted segments but reads `segments_status[i]`, which is in
  the order of the NZB file: with segments out of order it skips the chunk of a COMPLETE
  segment and misses that of the failed one (`Ascending`).
* Articles whose `=ybegin` lines do not give the same name rename the post behind chunks that
  are on disk, and `file_combine` does not find them (`NamesAgree`).
* The name of a subject in the third layout keeps a ` -` at its end, where `parse_nzb.c:320`
  and 367 want what stands between two ` - ` (`FilesAsWritten` speaks of quotes only).
* A part whose `=ypart` line was lost is accepted with the size of the whole file as the
  "Size of the decoded data" (`segment.h:54`; `DamageDetected` says with which size).
* Servers that are not added in ascending order can have a priority whose queue was never
  created; a server that needs no password (281 after the user name) counts as a failed
  login; and a checksum that is 0 is taken for a missing one.

Some properties hold under a condition that the code does not establish.  It is part of the
property or of its comment:

* one server for each priority (`NothingLost`, `TriedEverywhere`);
* records in one region of 4 GB: `AddressHigh` with one element for `PrioritiesDense`,
  `AscendingOrderWorks` and `EveryQueueIsRead`; `OneRegion(post)` in `SegmentsSorted` and
  `CombinedInOrder`;
* segments listed in order (`Ascending`), no two chunks with one name (`ChunksDiffer`), and
  names that stay what they were when a chunk was written (`NamesAgree`) in
  `CombinedInOrder`.  The names need not be those of the NZB file: a poster whose headers
  agree with each other satisfies the last two whatever the subject says;
* servers added in ascending order, all before `nzb_fetch_connect`, all found and connected
  (`EveryQueueIsRead`).

### Bounds, and why they are enough

* *Two servers, one thread each* (`Download`).  The interesting relations between
  servers are "behind" (the fill server) and "beside" (same priority); a thread's
  identity matters only through its server and as a second reader of a list, which the
  instance with peers has.
* *Three segments.*  Three are needed for an item to be put back, one to
  be appended behind it and one after that; and for an ERROR in the middle of a
  post or a post beside another one, of another NZB file.  A wakeup concerns one queue and
  one reader, which is asleep, about to sleep, or at work on another item.
  `DownloadPeersUntried` needs two.  The four items of `DataQueue` let the list
  grow to the length at which first, middle and last differ.
* *Servers*: four servers and three user priorities contain the example of `server.c`
  (0, 2, 40, 40) in every order, and equal, smaller and larger neighbours for the
  partition loop.  `MaxServers`, `MaxConnected` (servers at `nzb_fetch_connect`) and
  `MaxLate` (with those added afterwards) bound the servers; `MaxTicks` (quarters of a
  second) reaches one and seven quarters, just under two seconds, where dropping the
  fraction does most harm; `MaxBytes` bounds what a connection receives.  `AddressHigh` has
  one element there, as the properties say.
* *Session*: three segments in two groups let the group change and change back after
  an error.  The five connection attempts are the code's own bound.
* *Parser and assembly*: `MaxFiles`, `MaxGroups` and `MaxSegments` bound the document: two
  files, so that one is linked behind the other; three segments, in all orders of the
  numbers 1 to 3, equal ones included, each in either of two regions.  One text has blanks on
  both sides; `DocumentAssumption` allows only line feeds behind a text: `element_data`
  drops the blanks before a piece and keeps those behind it, and a message id in an NZB
  file has none.
  With the parser's part checked by itself, `Assembly` needs no texts, one subject and one
  file: the chunk of another post is in the way as one of the same post is, by its name.
  Headers give no name or one that is not the subject's, and no part or that of the second
  segment.
* *Yenc*: `MaxPayload` is longer than two lines of one or two characters, so that escapes
  and dots fall on the first, last and inner place of a line.  The four bytes are those
  that encode to an escaped NUL, an escaped `=`, a dot and an ordinary character.

Items and segments are finite sets, and each is downloaded once, so the models
without a bound above are finite by themselves.

Deadlock checking is off: a download that has ended leaves its threads asleep,
connection threads that cannot connect exit, and parser and decoder return.

### Fairness

`FairDataSpec` and `FairDownloadSpec` state weak fairness for each thread: the
operating system keeps scheduling it, mutexes are held for a few instructions
only, and a request to the server is answered.  There is no fairness for spurious
wakeups.  `EverySegmentResolved` therefore has to name the two ways in which a
queue can lie idle for ever.  A queue with an item whose readers all sleep (`Idle`) is no
exception by itself: it is so during every append, until the signal.  What the property
lets pass is `[]Idle`; and in a behaviour in which no reader was ever between the unlock
and the wait when the signals for its queue had been given (`SignalMissed`), only a queue
all of whose readers have exited (`Deserted`).  An append that did not signal violates it.

`FairSpec` of `NttpSession` states weak fairness of the thread's steps alone.  A
`recv` on a connection that is there is enabled once the server has sent something,
which it does as part of being asked: a server that hangs with an open connection is
not modelled, and the thread, which sets no timeout, would wait for it for ever.
`LoseLink` has no fairness.  `EveryRequestEnds` names the cases in which the code does
not end a request: no login, a crash, or a lost connection in the middle of a session,
after which the body loop receives nothing for ever and the thread never reconnects.

## 4. Proofs

Assumptions on the constants are those of the modules: `QueueAssumption` (readers are
threads with a home queue; NULL is none of the objects), `DataQueueAssumption` (one
queue, one reader), `DownloadAssumption` (each connection thread has a server, each
priority a queue besides the data queue, segments are numbered, NZB files are not NULL),
`SessionAssumption` (the values that stand for no segment and no group are none),
`ServersAssumption` and `ConnectionsAssumption` (priorities are integers, the bounds
natural numbers), `DocumentAssumption` (characters are strings, numbers integers, texts have
blanks before them and line feeds on both sides), `ArticleAssumption` (names are strings of
characters, parts integers) and `YencAssumption` (bytes are octets, line lengths positive, NULL is no number).  Some theorems
hold only under a condition that the code does not establish; it is an ASSUME of the
theorem, named below, and where a run shows what happens without it, that run is named.

### Induction

The theorem modules of the library state induction with an operator as a parameter,
which cannot be instantiated here.  `Induction` gets by without: the order of the natural
numbers is well-founded, so a set of them that is not empty has a least element
(`LeastNatural`), and the numbers for which a formula fails are such a set.  `Iteration`
adds that there is a function whose value for n is made from that for n - 1, which is what
a recursive function needs before anything can be said of it.

### The data queue

`DataQueueProofs` proves for any number of connection threads and items:

* `DataTypeOK`, `DataLinked`, `DataNoUseAfterFree`: the invariants of the run
  `DataQueue`;
* `DataImplementsFifo`: the linked list implements `Fifo`.

The inductive invariant is `TypeOK /\ Linked /\ Ownership`.  `Linked`
alone is not inductive: an append keeps the list only if the new item is not on
it and leads nowhere, and a shift only if the item occurs once; `Ownership` says
both, in terms of the histories.  Each action has a lemma that it keeps the
invariant; `StepDInv` adds which step of `Fifo` it is.

### The download path

`DownloadProofs` proves for any number of servers, of equal or different
priorities, of connection threads, posts and segments:

* `DownloadTypeOK`, `DownloadNoUseAfterFree`, `DownloadAssertionsHold` and
  `DownloadShiftFindsItem`: the invariants of that name of the runs `Download` and
  `DownloadPeers`;
* `DownloadImplementsPosts`: the three kinds of threads implement `Posts`.

The pointers alone do not say which items are on a list.  After a prepend on an
empty list `last` is stale, and an append then links its item behind an item that
is on no list, so the item is lost (the finding of `DownloadPeersLose`).  Nor is
there a history to compare them with, since items come back to the front.  So
`DownloadInv` claims that there is a *ledger* `on`, a function from items to
queues, that agrees with the pointers (`Ledger`): `first` of a queue leads to an
item entered for it and is NULL only if there is none (`NextInv`); `next` leads
from an entered item to one of the same queue, never to the first and never from
two items to the same one; `last`, and on the queues of priorities `prev`, lead to
such an item or to one that is `Gone`: in use once, now on no list, in no thread's
hands and not freed.  Items are in a thread's hands (`HeldInv`), untouched
(`FreshInv`) or entered (`ListedInv`), and each of these says what their pointers
and segments look like.

Each list operation has a lemma that a ledger before it gives a ledger after it:
`ShiftLedger` strikes the item off, and the whole queue if nothing can be reached
any more; `LinkFirstLedger` enters it; `LinkLastLedger` enters it, unless `last`
was stale: then the item is Gone; `SameLedger` is for all other steps.  That stale
pointers are harmless is what being Gone says: such an item is never taken, so it
is never freed.  `ThreadInv`, `WorkInv` and `ReportInv` tie the ledger to program
points, to the segments and to what was reported; `FailedInv` is the reason why
the search in `queue_list_shift` always stops at the first item.

The last part of `DownloadProofs` follows the single segment:

* for any constants: `DownloadOwnedOnce`, `DownloadBoundedRetries`, and
  `DownloadAbandonedLate` (a segment is given up after exactly as many failures as there
  are servers);
* with one server for each priority (`OnePerPriority`): `DownloadTriedEverywhere` and
  `DownloadNothingLost`.  With peers both are false (runs `DownloadPeersUntried` and
  `DownloadPeersLose`).

What `OwnedOnce` says of a list is what can be reached from `first`.  `SegmentInv` adds to
the ledger a rank for each item (`Lined`) that grows by one along `next`, so that the
pointers reach every item that the ledger has for the queue, once (`ListedAll`, by
induction over the length of the way), and an account of the requests made for it
(`Retried`): an item on the queue of level q has cost one request for each server below q
and one for each entry in its `failed_servers`, of which there are fewer than servers at q;
with one server for each priority every server below q is among those asked.

### The sort and the servers

`PointerSortProofs!SortRangeSorts`: whatever the length of the array, `server_sort` and
`post_segments_sort` permute the part they are given, leave everything else alone, and
sort it.  The condition is `OneHigh`: all pointers have the same upper half, since `swap`
exchanges ints.  The loop of a call has an invariant (`Parted`: no keys above the pivot's before
l, only greater ones from r on); that the calls sort is an induction over their depth.

`ServersProofs` then proves, for any number of servers whose records lie in one region of
4 GB (`OneAddressHigh`, an assumption about the heap that the code does not establish): `ServersPrioritiesDense`,
`ServersAscendingOrderWorks`, `ServersEveryQueueIsRead`; and `ServersRateWithinTwice`, for
any times and numbers of bytes, without that condition.  `ServersInv` says that
every server has the number of lower user priorities as its priority and, as long as the
servers were added in ascending order, that the table has a server for each priority up to
the last one's (`Tabled`); `QueuesInv` ties the threads to the table they were started with.

### From the document to the file

`AssemblyProofs` proves for any document - any number of files, groups and segments, any
numbers, subjects and texts, cut into any pieces, at any addresses, and with any yEnc
headers - the invariants of the runs `NzbParser` and `Assembly`:
`AssemblyTypeOK`, `AssemblyNamesWhole`, `AssemblySegmentsSorted`, `AssemblyFilesAsWritten`
and `AssemblyCombinedInOrder`.

* `ParserInv` says that each post is linked to the next one and is `Shaped`: the statuses are
  one for each segment and, if the post lies in one region (`OneRegion`), the array of
  pointers has every segment once.  All posts but the open one are then `ByNumber`, by
  `SortRangeSorts`, whose condition `OneHigh` is `OneRegion`.  Segments are blocks of their
  own, and nothing in the code puts them into one region; without it only the statuses are
  sure.
* `NamesInv` says of every element what was read of its text so far (`Named`): the
  characters before a place k that are not blank, if the text from k on is still to come.
  A piece adds the same characters that dropping its leading blanks leaves
  (`PieceSolids`): within a text there are no other blanks, and behind it only line feeds,
  which expat hands over one by one.
* `AssembledInv` says, as long as no two segments were stored under one name
  (`ChunksDiffer`), that every decoded segment has its chunk on disk under the name it was
  written with (`written`), or is among the lost ones; with `NamesAgree` that is the name
  `file_combine` looks for, so that it copies the decoded segments up to the first gap.  It
  speaks of the order of the array only through `InOrder` (`InOrderAscends`).

### The session

`NttpSessionProofs` proves for any segments and groups, without a bound on anything:

* on every network: `SessionTypeOK`, `SessionFiveAttempts`, `SessionGroupKnown`;
* if status lines arrive whole (`StatusIsWhole`): `SessionRightBody`,
  `SessionLoggedInFirst`, `SessionFailsForAReason`, and `SessionImplementsRetrieval`,
  the refinement of `Retrieval`.

`ThreadInv` is inductive by itself: it counts sockets against `reconnect_tries`,
follows the selected group and says whose segment is in hand.  `RightBody` is not
inductive: why the first number read after BODY is that of this BODY depends on the
stream having been empty when it was sent.  `StreamInv` says what can be on its way at
every program point: at most one token where a status is awaited, nothing where a
command is about to be sent, a part of the segment's article while its body is read,
which continues exactly what `data` has (`IsPart`).  That the loop sees the end is then
`CompletePart`: a part of the article that ends as an article does is all of it.  The
assumption is needed, as the run `NttpSessionCut` shows.

### The decoder

`YencProofs` proves for payloads of any length and any octets, for any line lengths:

* of every article, whatever was lost, doubled or exchanged on the way: `YencTypeOK`;
* of an article that comes as it was sent: `YencDecodesPayload` and `YencIntactAccepted`.

The encoder and the decoder cut the work in different places: one adds a byte to the last
line, the other takes turns over a line's characters.  What they share is `Written`: a text
holds `cnt` bytes of the payload from `lo` on, the k-th of which ends at `pos[k]`, and each
begins before the line is full.  `EncodedCut` shows, by induction over the payload, that the
encoder's lines are so written, one behind the other (`Cut`).  `LineDecodes` shows, by
induction over the turns, that the loop is at `After` the k-th byte behind k turns, or one
turn later behind a doubled dot (`Sent`), for a told line length as well as without one; an
escape that crosses the limit is the case in which `pos[k]` is beyond the length.

`Sound` is what holds of every article: its lines are lines of this payload's articles in
any order (`DamagedType`), the running checksum is that of what has been decoded
(`CrcConcat`: the checksum of two pieces is that of the second, begun with that of the
first), every line of data yields a byte (`DecodesSome`), and a result other than a refusal
means that the checksums agree.  `Intact` adds, of an article as it was sent, what the
number of the next line says of the decoder's variables (`Progress`): which part of the
payload is decoded, when the sizes are known, and what is done next (`WhichStep`).  TLC
checked both on payloads of up to three bytes before they were proved.  None of this needs
the table of the checksum to be that of CRC-32; only that a step depends on nothing but the
word and the byte.

### Only model-checked

* Liveness (`EverySegmentResolved`, `MissedSignalRepaired`, `EveryRequestEnds`): TLAPS has
  no rules for fairness and ENABLED here.
* `DamageDetected`: that the decoder accepts the payload or nothing holds for the short
  payloads of the run, and cannot be a theorem, since a checksum of 32 bits has collisions
  for longer ones.

## 5. Not modelled

* Sockets, SSL and the resolver beyond their results; a server that hangs.
* The sizes of memory blocks (`queue.c:72`, `parse_nzb.c:204`, `yenc.c:111`), and what is
  read from freed memory, which is a choice between a crash and an unknown number.
* What `find_filename` finds outside of a subject: a crash, or a name from `Elsewhere`.
* Two =ybegin lines in one article, or a header that changes `post->filesize`, which nobody
  reads.
* Path construction (`file_get_path`, `file_get_complete_filename`), logging, the path
  setters and `add_callback` (one assignment each).
* A second download of the same post, after which `segment->bytes` is not 0
  (`nttp_connection.c:197`); `add_server` after `connect` while segments are on the queues
  (`Connections` has the table and the threads' choice of a queue, not the segments).
* Code that is never called: `queue_list_pop` (marked broken), `file_write_raw`,
  `nttp_disconnect`, `net_disconnect`, `post_free` and the removal of posts.
* The Windows branches and `compat`, which have no state of their own, the Python
  binding and the examples, which are clients of the library.

What could come next: the composition of `Connections` with `Download`, to follow a segment
through a table of queues that moves.
