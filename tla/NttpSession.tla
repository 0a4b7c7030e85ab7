----------------------------- MODULE NttpSession -----------------------------
(***************************************************************************)
(* One connection thread and its news server (nttp_connection.c, net.c):    *)
(* connecting, logging in, selecting a group, retrieving segments, over a   *)
(* byte stream that hands out whatever part of the pending bytes it likes.  *)
(*                                                                          *)
(* The stream is a sequence of tokens, the places where it matters how it   *)
(* is cut: a status line (in one piece, or its code and the rest), the      *)
(* lines of an article, and the two halves of the final ".\r\n".  A token   *)
(* remembers the segment it answers.  The server replies as soon as it is   *)
(* asked; how much of the reply a recv sees is open.  It may close or reset *)
(* the connection at any time, and what was under way is then lost.         *)
(***************************************************************************)
EXTENDS Naturals, Sequences

CONSTANTS
  Segment, NoSegment,  \* the segments the thread will take from its queue
  GroupOf, NoGroup,    \* post->groups[0] of each segment
  StatusIsWhole        \* no status line is cut by the network

ASSUME SessionAssumption ==
  /\ NoSegment \notin Segment
  /\ NoGroup \notin {GroupOf[s] : s \in Segment}
  /\ StatusIsWhole \in BOOLEAN

VARIABLES
  pc,       \* where the thread is, named for what it does next
  tries,    \* reconnect_tries
  sockets,  \* sockets opened; none is closed before the thread exits
  group,    \* current_group
  seg,      \* the segment of the item taken from the queue
  data,     \* segment_t.data of each segment
  stored,   \* the segments whose item was appended to the data queue
  failed    \* the segments for which nttp_retrieve_segment returned an error

VARIABLES
  link,         \* "none", "open", "closed" (end of file), "reset" (errors)
  stream,       \* tokens sent by the server and not received yet
  loggedIn,     \* server: whether this connection has logged in
  serverGroup,  \* server: the group selected on this connection
  noGroup,      \* server: the groups it has refused
  refused       \* server: the segments it has answered with an error

clientVars == <<group, seg, data, stored, failed>>
serverVars == <<loggedIn, serverGroup, noGroup, refused>>
vars == <<pc, tries, sockets, clientVars, serverVars, link, stream>>

Token(kind, s) == [kind |-> kind, of |-> s]

StatusLine(code, s) ==
  IF StatusIsWhole THEN <<Token(code, s)>>
  ELSE <<Token(code, s), Token("rest", s)>>

Article(s) ==
  StatusLine("222", s) \o
    <<Token("text", s), Token("dot", s), Token("crlf", s)>>

Init ==
  /\ pc = "connect" /\ tries = 0 /\ sockets = 0
  /\ group = NoGroup /\ seg = NoSegment
  /\ data = [s \in Segment |-> <<>>]
  /\ stored = {} /\ failed = {}
  /\ link = "none" /\ stream = <<>>
  /\ loggedIn = FALSE /\ serverGroup = NoGroup
  /\ noGroup = {} /\ refused = {}

-----------------------------------------------------------------------------
(* net.c                                                                    *)

\* What a recv may return: a part of what is pending, or nothing at the end
\* of the stream.
Pieces ==
  {SubSeq(stream, 1, n) : n \in 1 .. Len(stream)} \cup
    (IF link = "closed" /\ stream = <<>> THEN {<<>>} ELSE {})

NetRecv(piece) ==
  /\ piece \in Pieces
  /\ stream' = SubSeq(stream, Len(piece) + 1, Len(stream))
  /\ UNCHANGED link

\* recv returns -1.  net_recv frees its buffer but clears only its own copy
\* of the pointer, so that data == NULL is never true in the caller.
NetRecvError == link = "reset" /\ stream = <<>>

\* Sending on a lost connection may end the process by SIGPIPE; the result
\* of net_send is not looked at.
NetSend(reply, next) ==
  /\ UNCHANGED link
  /\ \/ link = "open" /\ stream' = stream \o reply /\ pc' = next
     \/ link # "open" /\ UNCHANGED stream /\ pc' \in {next, "crashed"}

\* A connect that fails is reported but not returned; the recv after it fails.
NetConnect ==
  /\ pc = "connect"
  /\ pc' = "greeting"
  /\ sockets' = sockets + 1
  /\ \/ /\ link' = "open"
        /\ \E code \in {"200", "502"} : stream' = StatusLine(code, NoSegment)
     \/ link' = "reset" /\ stream' = <<>>
  /\ loggedIn' = FALSE /\ serverGroup' = NoGroup
  /\ UNCHANGED <<tries, clientVars, noGroup, refused>>

-----------------------------------------------------------------------------
(* Wrong versions: an attempt more, an attempt less; the end of an article  *)
(* looked for in the last piece only, or not at all; a login that is not    *)
(* checked; the group selected once; a piece that replaces the ones before; *)
(* the reply to the group command left on the stream.                       *)
ReconnectSix ==
  IF tries > 4 THEN pc' = "exit" /\ UNCHANGED tries
  ELSE pc' = "connect" /\ tries' = tries + 1
ReconnectFour ==
  IF tries > 2 THEN pc' = "exit" /\ UNCHANGED tries
  ELSE pc' = "connect" /\ tries' = tries + 1
CompleteInPiece(d, piece) ==
  /\ Len(piece) >= 2
  /\ piece[Len(piece) - 1].kind = "dot" /\ piece[Len(piece)].kind = "crlf"
CompleteAtOnce(d, piece) == d # <<>>
AcceptsAny(command) == {"381", "281", "481"}
GroupIsSelected(s) == group # NoGroup
Replaced(old, piece) == piece
GroupUnread ==
  /\ pc = "group"
  /\ group' = GroupOf[seg]
  /\ pc' = "sendBody"
  /\ UNCHANGED <<tries, sockets, seg, data, stored, failed, serverVars, link, stream>>

\* nttp_get_status_code: the number at the start of what has been received.
Status(piece) == IF piece = <<>> THEN "" ELSE piece[1].kind

\* The codes nttp_authenticate goes on with after each command.
Accepts(command) == IF command = "user" THEN {"381"} ELSE {"281"}

\* The comparison of nttp_process_queue.
GroupIsCurrent(s) == group = GroupOf[s]

\* The last four bytes are "\n.\r\n": looked for in all of the data, not in
\* the last piece.
Complete(d, piece) ==
  /\ Len(d) >= 2
  /\ d[Len(d) - 1].kind = "dot" /\ d[Len(d)].kind = "crlf"

\* What the loop has of an article after one more piece.
Joined(old, piece) == old \o piece

\* The end of the loop of nttp_connection when there is no session.
Reconnect ==
  IF tries > 3 THEN pc' = "exit" /\ UNCHANGED tries
  ELSE pc' = "connect" /\ tries' = tries + 1

-----------------------------------------------------------------------------
(* nttp_connect, nttp_authenticate                                          *)

Greeting ==
  /\ pc = "greeting"
  /\ \/ \E piece \in Pieces :
          /\ NetRecv(piece)
          /\ IF Status(piece) \in {"200", "201"}
             THEN pc' = "sendUser" /\ UNCHANGED tries
             ELSE Reconnect
     \/ NetRecvError /\ Reconnect /\ UNCHANGED <<link, stream>>
  /\ UNCHANGED <<sockets, clientVars, serverVars>>

\* server_create copies user name and password with strdup, so neither is
\* NULL.  A server that wants no password answers 281 at once.
SendUser ==
  /\ pc = "sendUser"
  /\ \E code \in {"381", "281", "481"} : 
       /\ NetSend(StatusLine(code, NoSegment), "user")
       /\ loggedIn' = (link = "open" /\ code = "281")
  /\ UNCHANGED <<tries, sockets, clientVars, serverGroup, noGroup, refused>>

SendPass ==
  /\ pc = "sendPass"
  /\ \E code \in {"281", "481"} :
       /\ NetSend(StatusLine(code, NoSegment), "pass")
       /\ loggedIn' = (link = "open" /\ code = "281")
  /\ UNCHANGED <<tries, sockets, clientVars, serverGroup, noGroup, refused>>

\* After an error of recv the freed buffer is read and freed again: the
\* process dies, or what it reads is no code it waits for.
LoginReply ==
  /\ pc \in {"user", "pass"}
  /\ \/ \E piece \in Pieces :
          /\ NetRecv(piece)
          /\ IF Status(piece) \in Accepts(pc)
             THEN pc' = (IF pc = "user" THEN "sendPass" ELSE "queue") /\ UNCHANGED tries
             ELSE Reconnect
     \/ /\ NetRecvError /\ UNCHANGED <<link, stream>>
        /\ Reconnect \/ (pc' = "crashed" /\ UNCHANGED tries)
  /\ UNCHANGED <<sockets, clientVars, serverVars>>

-----------------------------------------------------------------------------
(* nttp_process_queue, nttp_select_group, nttp_retrieve_segment             *)

TakeItem(s) ==
  /\ pc = "queue"
  /\ s \notin stored \cup failed
  /\ seg' = s
  /\ pc' = IF GroupIsCurrent(s) THEN "sendBody" ELSE "sendGroup"
  /\ UNCHANGED <<tries, sockets, group, data, stored, failed, serverVars, link, stream>>

SendGroup ==
  /\ pc = "sendGroup"
  /\ \/ /\ NetSend(StatusLine("211", seg), "group")
        /\ serverGroup' = IF link = "open" THEN GroupOf[seg] ELSE serverGroup
        /\ UNCHANGED noGroup
     \/ /\ NetSend(StatusLine("411", seg), "group")
        /\ noGroup' = IF link = "open" THEN noGroup \cup {GroupOf[seg]} ELSE noGroup
        /\ UNCHANGED serverGroup
  /\ UNCHANGED <<tries, sockets, clientVars, loggedIn, refused>>

\* Whatever the reply is, the group counts as selected from now on.
GroupReply ==
  /\ pc = "group"
  /\ group' = GroupOf[seg]
  /\ \/ \E piece \in Pieces : NetRecv(piece) /\ pc' = "sendBody"
     \/ NetRecvError /\ UNCHANGED <<link, stream>> /\ pc' \in {"sendBody", "crashed"}
  /\ UNCHANGED <<tries, sockets, seg, data, stored, failed, serverVars>>

SendBody ==
  /\ pc = "sendBody"
  /\ \/ NetSend(Article(seg), "body") /\ UNCHANGED refused
     \/ /\ NetSend(StatusLine("430", seg), "body")
        /\ refused' = IF link = "open" THEN refused \cup {seg} ELSE refused
  /\ UNCHANGED <<tries, sockets, clientVars, loggedIn, serverGroup, noGroup>>

Fails ==
  /\ failed' = failed \cup {seg}
  /\ seg' = NoSegment
  /\ pc' = "queue"
  /\ UNCHANGED <<data, stored>>

\* A pass through the loop of nttp_retrieve_segment.
Keep(piece) ==
  LET d == Joined(data[seg], piece)
  IN /\ data' = [data EXCEPT ![seg] = d]
     /\ IF Complete(d, piece)
        THEN stored' = stored \cup {seg} /\ seg' = NoSegment /\ pc' = "queue"
        ELSE pc' = "more" /\ UNCHANGED <<stored, seg>>
     /\ UNCHANGED failed

\* After an error of recv the freed buffer is read for a code: the process
\* dies, or the segment counts as failed.
BodyReply ==
  /\ pc = "body"
  /\ \/ \E piece \in Pieces :
          /\ NetRecv(piece)
          /\ IF Status(piece) = "222" THEN Keep(piece) ELSE Fails
     \/ /\ NetRecvError /\ UNCHANGED <<link, stream>>
        /\ Fails \/ (pc' = "crashed" /\ UNCHANGED <<seg, data, stored, failed>>)
  /\ UNCHANGED <<tries, sockets, group, serverVars>>

\* Nothing received at the end of the stream: the loop goes on for ever.
\* An error: memcpy is asked to copy (size_t)-1 bytes.
BodyMore ==
  /\ pc = "more"
  /\ \/ \E piece \in Pieces : NetRecv(piece) /\ Keep(piece)
     \/ /\ NetRecvError /\ UNCHANGED <<link, stream>>
        /\ pc' = "crashed" /\ UNCHANGED <<seg, data, stored, failed>>
  /\ UNCHANGED <<tries, sockets, group, serverVars>>

ThreadStep ==
  \/ NetConnect \/ Greeting \/ SendUser \/ SendPass \/ LoginReply
  \/ (\E s \in Segment : TakeItem(s))
  \/ SendGroup \/ GroupReply \/ SendBody \/ BodyReply \/ BodyMore

LoseLink ==
  /\ link = "open"
  /\ link' \in {"closed", "reset"}
  /\ \E n \in 0 .. Len(stream) : stream' = SubSeq(stream, 1, n)
  /\ UNCHANGED <<pc, tries, sockets, clientVars, serverVars>>

Next == ThreadStep \/ LoseLink

Spec == Init /\ [][Next]_vars

\* The operating system keeps scheduling the thread, and what a server that
\* is still there has sent arrives.
FairSpec == Spec /\ WF_vars(ThreadStep)

-----------------------------------------------------------------------------
PC == {"connect", "greeting", "sendUser", "user", "sendPass", "pass", "queue",
       "sendGroup", "group", "sendBody", "body", "more", "exit", "crashed"}

Asking == {"sendGroup", "group", "sendBody", "body", "more"}
InSession == Asking \cup {"queue"}

TypeOK ==
  /\ pc \in PC
  /\ tries \in 0 .. 4
  /\ sockets \in Nat
  /\ group \in {GroupOf[s] : s \in Segment} \cup {NoGroup}
  /\ seg \in Segment \cup {NoSegment}
  /\ pc \in Asking => seg # NoSegment
  /\ DOMAIN data = Segment
  /\ stored \subseteq Segment /\ failed \subseteq Segment
  /\ loggedIn \in BOOLEAN
  /\ link \in {"none", "open", "closed", "reset"}

(* What is handed to the process thread as a segment is the whole article   *)
(* the server sent for this segment, and nothing else                       *)
(* (nttp_retrieve_segment, "The resulting data will be saved as             *)
(* segment->data").                                                         *)
RightBody == \A s \in stored : data[s] = Article(s)

(* A segment fails only if the server has refused it, or the connection is  *)
(* lost: the reply read is the reply to this request                        *)
(* (nttp_retrieve_segment).                                                 *)
FailsForAReason ==
  pc \in InSession /\ link = "open" => failed \subseteq refused

(* No article is asked for before the server has accepted the login on this *)
(* very connection, however often the thread had to connect                 *)
(* (nttp_connection, nttp_authenticate).                                    *)
LoggedInFirst == pc \in InSession => loggedIn

(* When an article is asked for, the server has its group selected or has   *)
(* said that it has no such group: current_group is not stale               *)
(* (nttp_process_queue, nttp_select_group).                                 *)
GroupKnown ==
  pc \in {"sendBody", "body"} /\ link = "open" =>
    serverGroup = GroupOf[seg] \/ GroupOf[seg] \in noGroup

(* The thread gives up after the fifth connection without a session, not    *)
(* before and not later, and so leaves at most five sockets behind          *)
(* (nttp_connection, "reconnect_tries > 3").                                *)
FiveAttempts == sockets <= 5 /\ (pc = "exit" => sockets = 5)

(* The detailed session implements the abstract one: one request at a time, *)
(* answered once, and "article" means the segment's own, whole article.     *)
outcome ==
  [s \in Segment |-> IF s \in stored
                     THEN IF data[s] = Article(s) THEN "article" ELSE "wrong"
                     ELSE IF s \in failed THEN "error" ELSE "wanted"]

R == INSTANCE Retrieval WITH Segment <- Segment, NoSegment <- NoSegment,
                             current <- seg, outcome <- outcome

ImplementsRetrieval == R!Spec

(* Every segment ends with an article or an error, unless the thread could  *)
(* not log in, or the connection is lost: the end of an article is seen     *)
(* however the network cuts it (nttp_retrieve_segment, "Check if we have    *)
(* recevied all bytes").                                                    *)
EveryRequestEnds ==
  \A s \in Segment :
    <>(\/ s \in stored \cup failed
       \/ pc \in {"exit", "crashed"}
       \/ pc \in InSession /\ link # "open")

=============================================================================
