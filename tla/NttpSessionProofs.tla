------------------------- MODULE NttpSessionProofs -------------------------
(***************************************************************************)
(* Proofs about NttpSession for any segments and groups.                    *)
(*                                                                          *)
(* ThreadInv holds on every network: it counts the attempts, follows the    *)
(* group the server has selected, and says whose segment the thread has in  *)
(* its hands.  StreamInv needs status lines that arrive whole: it says what *)
(* is on its way to the thread at each of its program points, and so that   *)
(* every reply read is the reply to the last command.                       *)
(***************************************************************************)
EXTENDS NttpSession, SequenceTheorems, TLAPS

Kind == {"200", "502", "381", "281", "481", "211", "411", "222", "430",
         "rest", "text", "dot", "crlf"}

Tokens == [kind : Kind, of : Segment \cup {NoSegment}]

Typed ==
  /\ TypeOK
  /\ data \in [Segment -> Seq(Tokens)]
  /\ stream \in Seq(Tokens)
  /\ refused \subseteq Segment

\* Every connection is an attempt, the first one included.
AttemptsInv ==
  sockets = IF pc = "connect" THEN tries ELSE IF pc = "exit" THEN 5 ELSE tries + 1

\* What current_group says of the server.
GroupInv ==
  /\ pc \in {"sendBody", "body", "more"} => group = GroupOf[seg]
  /\ link = "open" /\ pc = "group" =>
       serverGroup = GroupOf[seg] \/ GroupOf[seg] \in noGroup
  /\ link = "open" /\ pc \in InSession \ {"group"} =>
       group = NoGroup \/ serverGroup = group \/ group \in noGroup

\* What the thread has in its hands.
HandInv ==
  /\ pc \in Asking => seg \notin stored \cup failed
  /\ pc \notin Asking \cup {"crashed"} => seg = NoSegment
  /\ stored \cap failed = {}
  /\ pc \notin InSession \cup {"crashed"} =>
       group = NoGroup /\ failed = {} /\ stored = {}

ThreadInv == Typed /\ AttemptsInv /\ GroupInv /\ HandInv

-----------------------------------------------------------------------------
(* A recv returns the beginning of what is pending and leaves the rest.     *)
LEMMA PieceOfStream ==
  ASSUME Typed, NEW piece \in Pieces
  PROVE  /\ piece \in Seq(Tokens)
         /\ Len(piece) \in 0 .. Len(stream)
         /\ \A i \in 1 .. Len(piece) : piece[i] = stream[i]
         /\ Len(stream) # 0 => Len(piece) # 0
         /\ Len(piece) = 0 => link = "closed"
<1>1. /\ stream \in Seq(Tokens)
      /\ Len(stream) \in Nat
      /\ \A i \in 1 .. Len(stream) : stream[i] \in Tokens
  BY LenProperties, ElementOfSeq DEF Typed
<1>2. CASE \E n \in 1 .. Len(stream) : piece = SubSeq(stream, 1, n)
  <2>1. PICK n \in 1 .. Len(stream) : piece = SubSeq(stream, 1, n)
    BY <1>2
  <2>2. n \in Int /\ 1 \in Int /\ \A i \in 1 .. n : stream[i] \in Tokens
    BY <1>1
  <2>3. /\ piece \in Seq(Tokens)
        /\ Len(piece) = n
        /\ \A i \in 1 .. n : piece[i] = stream[1 + i - 1]
    BY <2>1, <2>2, <1>1, SubSeqProperties
  <2>4. \A i \in 1 .. n : piece[i] = stream[i]
    BY <2>3, <1>1
  <2>5. QED
    BY <2>3, <2>4, <1>1
<1>3. CASE link = "closed" /\ stream = <<>> /\ piece = <<>>
  <2>1. piece \in Seq(Tokens) /\ Len(piece) = 0 /\ Len(stream) = 0
    BY <1>3, EmptySeq
  <2>2. QED
    BY <2>1, <1>3, <1>1
<1>4. QED
  BY <1>2, <1>3 DEF Pieces

LEMMA RestOfStream ==
  ASSUME Typed, NEW piece \in Pieces, NetRecv(piece)
  PROVE  /\ stream' \in Seq(Tokens)
         /\ Len(stream') = Len(stream) - Len(piece)
         /\ \A i \in 1 .. Len(stream') : stream'[i] = stream[Len(piece) + i]
         /\ link' = link
<1>1. /\ Len(piece) \in 0 .. Len(stream)
      /\ Len(stream) \in Nat
      /\ \A i \in 1 .. Len(stream) : stream[i] \in Tokens
  BY PieceOfStream, LenProperties, ElementOfSeq DEF Typed
<1> DEFINE m == Len(piece) + 1
           n == Len(stream)
<1>2. m \in Int /\ n \in Int /\ \A i \in m .. n : stream[i] \in Tokens
  BY <1>1
<1>3. stream' = SubSeq(stream, m, n) /\ link' = link
  BY DEF NetRecv
<1> HIDE DEF m, n
<1>4. /\ SubSeq(stream, m, n) \in Seq(Tokens)
      /\ Len(SubSeq(stream, m, n)) = IF m <= n THEN n - m + 1 ELSE 0
      /\ \A i \in 1 .. n - m + 1 : SubSeq(stream, m, n)[i] = stream[m + i - 1]
  BY <1>2, SubSeqProperties
<1>5. QED
  BY <1>1, <1>3, <1>4 DEF m, n

(* A connection that is lost loses the end of what was on its way.          *)
LEMMA LostStream ==
  ASSUME Typed, LoseLink
  PROVE  /\ stream' \in Seq(Tokens)
         /\ Len(stream') \in 0 .. Len(stream)
         /\ \A i \in 1 .. Len(stream') : stream'[i] = stream[i]
<1>1. PICK n \in 0 .. Len(stream) : stream' = SubSeq(stream, 1, n)
  BY DEF LoseLink
<1>2. /\ Len(stream) \in Nat
      /\ \A i \in 1 .. Len(stream) : stream[i] \in Tokens
  BY LenProperties, ElementOfSeq DEF Typed
<1>3. n \in Int /\ 1 \in Int /\ \A i \in 1 .. n : stream[i] \in Tokens
  BY <1>2
<1>4. /\ stream' \in Seq(Tokens)
      /\ Len(stream') = IF 1 <= n THEN n - 1 + 1 ELSE 0
      /\ \A i \in 1 .. n - 1 + 1 : stream'[i] = stream[1 + i - 1]
  BY <1>1, <1>3, SubSeqProperties
<1>5. QED
  BY <1>2, <1>4

(* What the server sends.                                                   *)
LEMMA Replies ==
  ASSUME NEW code \in Kind, NEW s \in Segment \cup {NoSegment}
  PROVE  /\ StatusLine(code, s) \in Seq(Tokens)
         /\ StatusIsWhole => /\ Len(StatusLine(code, s)) = 1
                             /\ StatusLine(code, s)[1] = Token(code, s)
         /\ Article(s) \in Seq(Tokens)
         /\ StatusIsWhole => /\ Len(Article(s)) = 4
                             /\ Article(s)[1] = Token("222", s)
                             /\ Article(s)[2] = Token("text", s)
                             /\ Article(s)[3] = Token("dot", s)
                             /\ Article(s)[4] = Token("crlf", s)
<1>1. \A c \in Kind : Token(c, s) \in Tokens
  BY DEF Token, Tokens
<1>2. \A c \in Kind : /\ StatusLine(c, s) \in Seq(Tokens)
                      /\ StatusIsWhole => /\ Len(StatusLine(c, s)) = 1
                                          /\ StatusLine(c, s)[1] = Token(c, s)
  BY <1>1 DEF StatusLine, Kind
<1> DEFINE tail == <<Token("text", s), Token("dot", s), Token("crlf", s)>>
<1>3. tail \in Seq(Tokens) /\ Len(tail) = 3
  BY <1>1 DEF Kind
<1>4. /\ StatusLine("222", s) \in Seq(Tokens)
      /\ StatusIsWhole => /\ Len(StatusLine("222", s)) = 1
                          /\ StatusLine("222", s)[1] = Token("222", s)
  BY <1>2 DEF Kind
<1>5. Article(s) = StatusLine("222", s) \o tail
  BY DEF Article
<1>6. tail[1] = Token("text", s) /\ tail[2] = Token("dot", s) /\ tail[3] = Token("crlf", s)
  OBVIOUS
<1> DEFINE head == StatusLine("222", s)
<1> HIDE DEF tail, head
<1>7. /\ head \o tail \in Seq(Tokens)
      /\ Len(head \o tail) = Len(head) + Len(tail)
      /\ \A i \in 1 .. Len(head) + Len(tail) :
           (head \o tail)[i] = IF i <= Len(head) THEN head[i] ELSE tail[i - Len(head)]
  <2>1. head \in Seq(Tokens) /\ tail \in Seq(Tokens)
    BY <1>3, <1>4 DEF head
  <2>2. QED
    BY <2>1, ConcatProperties
<1>8. Article(s) = head \o tail
  BY <1>5 DEF head
<1>9. Article(s) \in Seq(Tokens)
  BY <1>7, <1>8
<1>10. ASSUME StatusIsWhole
       PROVE  /\ Len(Article(s)) = 4
              /\ Article(s)[1] = Token("222", s)
              /\ Article(s)[2] = Token("text", s)
              /\ Article(s)[3] = Token("dot", s)
              /\ Article(s)[4] = Token("crlf", s)
  <2>1. Len(head) = 1 /\ head[1] = Token("222", s)
    BY <1>4, <1>10 DEF head
  <2>2. QED
    BY <2>1, <1>3, <1>6, <1>7, <1>8
<1>11. QED
  BY <1>2, <1>9, <1>10

(* Sending adds the reply to what is on its way, unless the connection is   *)
(* lost.                                                                    *)
LEMMA SentStream ==
  ASSUME Typed, NEW reply \in Seq(Tokens), NEW to, NetSend(reply, to)
  PROVE  /\ stream' \in Seq(Tokens)
         /\ link' = link
         /\ pc' = to \/ (pc' = "crashed" /\ link # "open")
         /\ link = "open" /\ Len(stream) = 0 => stream' = reply
         /\ link # "open" => stream' = stream
<1>1. stream \in Seq(Tokens)
  BY DEF Typed
<1>2. stream \o reply \in Seq(Tokens)
  BY <1>1, ConcatProperties
<1>3. Len(stream) = 0 => stream \o reply = reply
  <2>1. Len(stream) = 0 => stream = <<>>
    BY <1>1, EmptySeq
  <2>2. QED
    BY <2>1, ConcatEmptySeq
<1>4. QED
  BY <1>1, <1>2, <1>3 DEF NetSend

(* The body loop only extends what it has of the segment in hand.           *)
LEMMA KeptTypes ==
  ASSUME Typed, seg \in Segment, NEW piece \in Seq(Tokens), Keep(piece)
  PROVE  /\ data' \in [Segment -> Seq(Tokens)]
         /\ data'[seg] = data[seg] \o piece
         /\ \A s \in Segment \ {seg} : data'[s] = data[s]
<1>1. data[seg] \in Seq(Tokens)
  BY DEF Typed
<1>2. data[seg] \o piece \in Seq(Tokens)
  BY <1>1, ConcatProperties
<1>3. data' = [data EXCEPT ![seg] = data[seg] \o piece]
  BY DEF Keep, Joined
<1>4. QED
  BY <1>2, <1>3 DEF Typed

LEMMA InitThreadInv == Init => ThreadInv
<1> SUFFICES ASSUME Init PROVE ThreadInv
  OBVIOUS
<1>1. <<>> \in Seq(Tokens)
  BY EmptySeq
<1>2. data \in [Segment -> Seq(Tokens)] /\ stream \in Seq(Tokens)
  BY <1>1 DEF Init
<1>3. TypeOK
  <2>1. loggedIn \in BOOLEAN
    BY Zenon DEF Init
  <2>2. /\ pc = "connect" /\ tries = 0 /\ sockets = 0 /\ group = NoGroup
        /\ seg = NoSegment /\ stored = {} /\ failed = {} /\ link = "none"
    BY DEF Init
  <2>3. QED
    BY <1>2, <2>1, <2>2 DEF TypeOK, PC, Asking
<1>4. AttemptsInv /\ GroupInv /\ HandInv
  BY DEF Init, AttemptsInv, GroupInv, HandInv, Asking, InSession
<1>5. QED
  BY <1>2, <1>3, <1>4 DEF Init, ThreadInv, Typed

LEMMA StepThreadInv == ThreadInv /\ [Next]_vars => ThreadInv'
<1> SUFFICES ASSUME ThreadInv, [Next]_vars PROVE ThreadInv'
  OBVIOUS
<1> USE SessionAssumption DEF ThreadInv, PC, Asking, InSession
<1> USE DEF clientVars, serverVars
<1>1. CASE NetConnect
  <2>1. stream' \in Seq(Tokens)
    BY <1>1, Replies, EmptySeq DEF NetConnect, Kind
  <2>2. /\ pc = "connect" /\ pc' = "greeting" /\ sockets' = sockets + 1
        /\ link' \in {"open", "reset"}
        /\ UNCHANGED <<tries, group, seg, data, stored, failed, noGroup, refused>>
    BY <1>1 DEF NetConnect
  <2>3. loggedIn' \in BOOLEAN
    BY <1>1, Zenon DEF NetConnect
  <2>4. Typed'
    BY <2>1, <2>2, <2>3 DEF Typed, TypeOK
  <2>5. AttemptsInv' /\ GroupInv' /\ HandInv'
    BY <2>2 DEF AttemptsInv, GroupInv, HandInv
  <2>6. QED
    BY <2>4, <2>5
<1>2. CASE Greeting
  <2>1. stream' \in Seq(Tokens) /\ link' = link
    BY <1>2, RestOfStream DEF Greeting, Typed
  <2>2. QED
    BY <1>2, <2>1 DEF Greeting, Reconnect, Typed, TypeOK, AttemptsInv, GroupInv, HandInv
<1>3. CASE LoginReply
  <2>1. stream' \in Seq(Tokens) /\ link' = link
    BY <1>3, RestOfStream DEF LoginReply, Typed
  <2>2. QED
    BY <1>3, <2>1 DEF LoginReply, Reconnect, Typed, TypeOK, AttemptsInv, GroupInv, HandInv
<1>4. CASE SendUser
  <2>1. /\ stream' \in Seq(Tokens)
        /\ link' = link
        /\ pc' \in {"user", "crashed"}
    BY <1>4, Replies, SentStream DEF SendUser, Kind
  <2>2. QED
    BY <1>4, <2>1 DEF SendUser, Typed, TypeOK, AttemptsInv, GroupInv, HandInv
<1>5. CASE SendPass
  <2>1. /\ stream' \in Seq(Tokens)
        /\ link' = link
        /\ pc' \in {"pass", "crashed"}
    BY <1>5, Replies, SentStream DEF SendPass, Kind
  <2>2. QED
    BY <1>5, <2>1 DEF SendPass, Typed, TypeOK, AttemptsInv, GroupInv, HandInv
<1>6. CASE \E s \in Segment : TakeItem(s)
  BY <1>6 DEF TakeItem, GroupIsCurrent, Typed, TypeOK, AttemptsInv, GroupInv, HandInv
<1>7. CASE SendGroup
  <2>1. seg \in Segment
    BY <1>7 DEF SendGroup, Typed, TypeOK
  <2>2. /\ stream' \in Seq(Tokens)
        /\ link' = link
        /\ pc' = "group" \/ (pc' = "crashed" /\ link # "open")
    BY <1>7, <2>1, Replies, SentStream DEF SendGroup, Kind
  <2>3. QED
    BY <1>7, <2>1, <2>2 DEF SendGroup, Typed, TypeOK, AttemptsInv, GroupInv, HandInv
<1>8. CASE GroupReply
  <2>1. stream' \in Seq(Tokens) /\ link' = link
    BY <1>8, RestOfStream DEF GroupReply, Typed
  <2>2. QED
    BY <1>8, <2>1 DEF GroupReply, Typed, TypeOK, AttemptsInv, GroupInv, HandInv
<1>9. CASE SendBody
  <2>1. seg \in Segment
    BY <1>9 DEF SendBody, Typed, TypeOK
  <2>2. /\ stream' \in Seq(Tokens)
        /\ link' = link
        /\ pc' \in {"body", "crashed"}
    BY <1>9, <2>1, Replies, SentStream DEF SendBody, Kind
  <2>3. QED
    BY <1>9, <2>1, <2>2 DEF SendBody, Typed, TypeOK, AttemptsInv, GroupInv, HandInv
<1>10. CASE BodyReply
  <2>1. seg \in Segment
    BY <1>10 DEF BodyReply, Typed, TypeOK
  <2>2. stream' \in Seq(Tokens) /\ link' = link
    BY <1>10, RestOfStream DEF BodyReply, Typed
  <2>3. data' \in [Segment -> Seq(Tokens)]
    BY <1>10, <2>1, PieceOfStream, KeptTypes DEF BodyReply, Fails, Typed
  <2>4. Typed'
    BY <1>10, <2>1, <2>2, <2>3 DEF BodyReply, Fails, Keep, Typed, TypeOK
  <2>5. AttemptsInv'
    BY <1>10 DEF BodyReply, Fails, Keep, AttemptsInv
  <2>6. GroupInv'
    BY <1>10, <2>1, <2>2 DEF BodyReply, Fails, Keep, GroupInv
  <2>7. HandInv'
    BY <1>10, <2>1 DEF BodyReply, Fails, Keep, HandInv
  <2>8. QED
    BY <2>4, <2>5, <2>6, <2>7
<1>11. CASE BodyMore
  <2>1. seg \in Segment
    BY <1>11 DEF BodyMore, Typed, TypeOK
  <2>2. stream' \in Seq(Tokens) /\ link' = link
    BY <1>11, RestOfStream DEF BodyMore, Typed
  <2>3. data' \in [Segment -> Seq(Tokens)]
    BY <1>11, <2>1, PieceOfStream, KeptTypes DEF BodyMore, Typed
  <2>4. Typed'
    BY <1>11, <2>1, <2>2, <2>3 DEF BodyMore, Keep, Typed, TypeOK
  <2>5. AttemptsInv'
    BY <1>11 DEF BodyMore, Keep, AttemptsInv
  <2>6. GroupInv'
    BY <1>11, <2>1, <2>2 DEF BodyMore, Keep, GroupInv
  <2>7. HandInv'
    BY <1>11, <2>1 DEF BodyMore, Keep, HandInv
  <2>8. QED
    BY <2>4, <2>5, <2>6, <2>7
<1>12. CASE LoseLink
  <2>1. stream' \in Seq(Tokens)
    BY <1>12, LostStream
  <2>2. QED
    BY <1>12, <2>1 DEF LoseLink, Typed, TypeOK, AttemptsInv, GroupInv, HandInv
<1>13. CASE UNCHANGED vars
  BY <1>13 DEF vars, Typed, TypeOK, AttemptsInv, GroupInv, HandInv
<1>14. QED
  BY <1>1, <1>2, <1>3, <1>4, <1>5, <1>6, <1>7, <1>8, <1>9, <1>10, <1>11, <1>12, <1>13 DEF Next, ThreadStep

LEMMA ThreadInvariant == Spec => []ThreadInv
BY InitThreadInv, StepThreadInv, PTL DEF Spec

-----------------------------------------------------------------------------
(* Every variable of the connection thread keeps its type, and a thread     *)
(* that has asked for something has a segment in hand.                      *)
THEOREM SessionTypeOK == Spec => []TypeOK
<1>1. ThreadInv => TypeOK
  BY DEF ThreadInv, Typed
<1>2. QED
  BY <1>1, ThreadInvariant, PTL

(* The thread gives up after its fifth connection without a session, and    *)
(* never opens a sixth (nttp_connection).                                   *)
THEOREM SessionFiveAttempts == Spec => []FiveAttempts
<1>1. ThreadInv => FiveAttempts
  BY DEF ThreadInv, Typed, TypeOK, AttemptsInv, FiveAttempts
<1>2. QED
  BY <1>1, ThreadInvariant, PTL

(* Whenever an article is asked for, the server has its group selected, or  *)
(* has said that it has no such group (nttp_process_queue).                 *)
THEOREM SessionGroupKnown == Spec => []GroupKnown
<1>1. ThreadInv => GroupKnown
  <2> SUFFICES ASSUME ThreadInv, pc \in {"sendBody", "body"}, link = "open"
               PROVE  serverGroup = GroupOf[seg] \/ GroupOf[seg] \in noGroup
    BY DEF GroupKnown
  <2>1. seg \in Segment /\ group = GroupOf[seg]
    BY DEF ThreadInv, Typed, TypeOK, Asking, GroupInv
  <2>2. group # NoGroup
    BY <2>1, SessionAssumption
  <2>3. QED
    BY <2>1, <2>2 DEF ThreadInv, GroupInv, InSession, Asking
<1>2. QED
  BY <1>1, ThreadInvariant, PTL

-----------------------------------------------------------------------------
\* What follows the first m tokens of the article of a segment.
IsPart(d, s, m) ==
  /\ m + Len(d) <= 4
  /\ \A i \in 1 .. Len(d) : d[i] = Article(s)[m + i]

\* What is on its way to the thread; it may have been cut off at the end.
StreamInv ==
  /\ pc \in {"greeting", "group"} => Len(stream) \in {0, 1}
  /\ pc \in {"sendUser", "sendPass", "queue", "sendGroup", "sendBody"} => Len(stream) = 0
  /\ pc \in {"user", "pass"} =>
       Len(stream) \in {0, 1} /\ (Len(stream) = 1 /\ stream[1].kind = "281" => loggedIn)
  /\ pc = "body" =>
       \/ IsPart(stream, seg, 0)
       \/ Len(stream) = 1 /\ stream[1].kind = "430" /\ seg \in refused
  /\ pc = "more" =>
       IsPart(data[seg], seg, 0) /\ IsPart(stream, seg, Len(data[seg]))

\* Only the segment whose article is being received has a part of it.
DataInv ==
  /\ \A s \in Segment \ stored :
       data[s] = <<>> \/ (s = seg /\ pc \in {"more", "crashed"})
  /\ RightBody

WholeInv ==
  ThreadInv /\ StreamInv /\ DataInv /\ LoggedInFirst /\ FailsForAReason

(* The code that is read is that of the first token on its way.             *)
LEMMA StatusOfStream ==
  ASSUME Typed, NEW piece \in Pieces
  PROVE  /\ Len(piece) = 0 => Status(piece) = ""
         /\ Len(piece) # 0 => Status(piece) = stream[1].kind
<1>1. /\ piece \in Seq(Tokens)
      /\ Len(piece) \in Nat
      /\ Len(piece) # 0 => piece[1] = stream[1]
  BY PieceOfStream, LenProperties DEF Typed
<1>2. piece = <<>> <=> Len(piece) = 0
  BY <1>1, EmptySeq
<1>3. QED
  BY <1>1, <1>2 DEF Status

LEMMA WholeArticle ==
  ASSUME StatusIsWhole, NEW s \in Segment
  PROVE  /\ Article(s) \in Seq(Tokens)
         /\ Len(Article(s)) = 4
         /\ Article(s)[1].kind = "222"
         /\ \A i \in 1 .. 3 : Article(s)[i].kind \notin {"crlf", "430"}
<1>1. "222" \in Kind
  BY DEF Kind
<1>2. /\ Article(s) \in Seq(Tokens)
      /\ Len(Article(s)) = 4
      /\ Article(s)[1] = Token("222", s)
      /\ Article(s)[2] = Token("text", s)
      /\ Article(s)[3] = Token("dot", s)
  BY <1>1, Replies
<1>3. QED
  BY <1>2 DEF Token

(* A part of the article that ends as the article does is all of it.        *)
LEMMA CompletePart ==
  ASSUME NEW s \in Segment, Article(s) \in Seq(Tokens), Len(Article(s)) = 4,
         \A i \in 1 .. 3 : Article(s)[i].kind \notin {"crlf", "430"},
         NEW d \in Seq(Tokens), IsPart(d, s, 0), NEW piece, Complete(d, piece)
  PROVE  d = Article(s)
<1>1. /\ Len(d) \in Nat
      /\ 0 + Len(d) <= 4
      /\ \A i \in 1 .. Len(d) : d[i] = Article(s)[0 + i]
  BY LenProperties DEF IsPart
<1>2. Len(d) >= 2 /\ d[Len(d)].kind = "crlf"
  BY DEF Complete
<1>3. Len(d) \in 1 .. 4 /\ d[Len(d)] = Article(s)[Len(d)]
  BY <1>1, <1>2
<1>4. Len(d) = 4
  BY <1>2, <1>3
<1>5. \A i \in 1 .. 4 : d[i] = Article(s)[i]
  BY <1>1, <1>4
<1>6. QED
  BY <1>4, <1>5, SeqEqual

(* What is received continues what has been received.                       *)
LEMMA ReceivedPart ==
  ASSUME Typed, NEW piece \in Pieces, NetRecv(piece), NEW s,
         NEW d \in Seq(Tokens), IsPart(d, s, 0), IsPart(stream, s, Len(d))
  PROVE  /\ d \o piece \in Seq(Tokens)
         /\ IsPart(d \o piece, s, 0)
         /\ IsPart(stream', s, Len(d \o piece))
<1>1. /\ piece \in Seq(Tokens)
      /\ Len(piece) \in 0 .. Len(stream)
      /\ \A i \in 1 .. Len(piece) : piece[i] = stream[i]
      /\ Len(stream') = Len(stream) - Len(piece)
      /\ \A i \in 1 .. Len(stream') : stream'[i] = stream[Len(piece) + i]
      /\ Len(stream) \in Nat
      /\ Len(d) \in Nat
  BY PieceOfStream, RestOfStream, LenProperties DEF Typed
<1> DEFINE e == d \o piece
<1>2. /\ e \in Seq(Tokens)
      /\ Len(e) = Len(d) + Len(piece)
      /\ \A i \in 1 .. Len(d) + Len(piece) :
           e[i] = IF i <= Len(d) THEN d[i] ELSE piece[i - Len(d)]
  BY <1>1, ConcatProperties
<1> HIDE DEF e
<1>3. IsPart(e, s, 0)
  <2>1. Len(d) + Len(stream) <= 4
    BY DEF IsPart
  <2>2. ASSUME NEW i \in 1 .. Len(e)
        PROVE  e[i] = Article(s)[0 + i]
    <3>1. CASE i <= Len(d)
      BY <1>1, <1>2, <3>1 DEF IsPart
    <3>2. CASE ~(i <= Len(d))
      <4>1. i - Len(d) \in 1 .. Len(piece)
        BY <1>1, <1>2, <3>2
      <4>2. e[i] = stream[i - Len(d)]
        BY <1>1, <1>2, <3>2, <4>1
      <4>3. stream[i - Len(d)] = Article(s)[Len(d) + (i - Len(d))]
        BY <1>1, <4>1 DEF IsPart
      <4>4. Len(d) + (i - Len(d)) = 0 + i
        BY <1>1
      <4>5. QED
        BY <4>2, <4>3, <4>4
    <3>3. QED
      BY <3>1, <3>2
  <2>3. QED
    BY <1>1, <1>2, <2>1, <2>2 DEF IsPart
<1>4. IsPart(stream', s, Len(e))
  <2>1. Len(e) + Len(stream') <= 4
    BY <1>1, <1>2 DEF IsPart
  <2>2. ASSUME NEW i \in 1 .. Len(stream')
        PROVE  stream'[i] = Article(s)[Len(e) + i]
    <3>1. Len(piece) + i \in 1 .. Len(stream)
      BY <1>1
    <3>2. stream'[i] = Article(s)[Len(d) + (Len(piece) + i)]
      BY <1>1, <3>1 DEF IsPart
    <3>3. Len(d) + (Len(piece) + i) = Len(e) + i
      BY <1>1, <1>2
    <3>4. QED
      BY <3>2, <3>3
  <2>3. QED
    BY <2>1, <2>2 DEF IsPart
<1>5. QED
  BY <1>2, <1>3, <1>4 DEF e

(* A pass through the body loop keeps a part of the article, and stores the *)
(* segment when it has the whole.                                           *)
LEMMA KeptPart ==
  ASSUME StatusIsWhole, ThreadInv, DataInv, seg \in Segment \ stored,
         IsPart(data[seg], seg, 0), IsPart(stream, seg, Len(data[seg])),
         NEW piece \in Pieces, NetRecv(piece), Keep(piece)
  PROVE  /\ StreamInv'
         /\ DataInv'
         /\ stored' # stored => stored' = stored \cup {seg} /\ data'[seg] = Article(seg)
<1>1. Typed /\ data[seg] \in Seq(Tokens)
  BY DEF ThreadInv, Typed
<1>2. piece \in Seq(Tokens)
  BY <1>1, PieceOfStream
<1>3. /\ data'[seg] = data[seg] \o piece
      /\ \A s \in Segment \ {seg} : data'[s] = data[s]
  BY <1>1, <1>2, KeptTypes
<1>4. /\ data'[seg] \in Seq(Tokens)
      /\ IsPart(data'[seg], seg, 0)
      /\ IsPart(stream', seg, Len(data'[seg]))
  BY <1>1, <1>3, ReceivedPart
<1>5. CASE Complete(data[seg] \o piece, piece)
  <2>1. /\ stored' = stored \cup {seg}
        /\ seg' = NoSegment
        /\ pc' = "queue"
    BY <1>5 DEF Keep, Joined
  <2>2. data'[seg] = Article(seg)
    BY <1>3, <1>4, <1>5, WholeArticle, CompletePart
  <2>3. Len(data'[seg]) = 4
    BY <2>2, WholeArticle
  <2>4. Len(stream') = 0
    <3>1. Len(stream') \in Nat
      BY <1>1, RestOfStream, LenProperties
    <3>2. QED
      BY <1>4, <2>3, <3>1 DEF IsPart
  <2>5. StreamInv'
    BY <2>1, <2>4 DEF StreamInv
  <2>6. RightBody'
    BY <1>3, <2>1, <2>2 DEF DataInv, RightBody, ThreadInv, Typed, TypeOK, Article, StatusLine
  <2>7. DataInv'
    BY <1>3, <2>1, <2>6 DEF DataInv
  <2>8. QED
    BY <2>1, <2>2, <2>5, <2>7
<1>6. CASE ~Complete(data[seg] \o piece, piece)
  <2>1. /\ UNCHANGED <<stored, seg>>
        /\ pc' = "more"
    BY <1>6 DEF Keep, Joined
  <2>2. StreamInv'
    BY <1>4, <2>1 DEF StreamInv, IsPart, Article, StatusLine
  <2>3. RightBody'
    BY <1>3, <2>1 DEF DataInv, RightBody, ThreadInv, Typed, TypeOK, Article, StatusLine
  <2>4. DataInv'
    BY <1>3, <2>1, <2>3 DEF DataInv
  <2>5. QED
    BY <2>1, <2>2, <2>4
<1>7. QED
  BY <1>5, <1>6

LEMMA WholeStatus ==
  ASSUME StatusIsWhole, NEW code \in Kind, NEW s \in Segment \cup {NoSegment}
  PROVE  /\ StatusLine(code, s) \in Seq(Tokens)
         /\ Len(StatusLine(code, s)) = 1
         /\ StatusLine(code, s)[1].kind = code
<1>1. /\ StatusLine(code, s) \in Seq(Tokens)
      /\ Len(StatusLine(code, s)) = 1
      /\ StatusLine(code, s)[1] = Token(code, s)
  BY Replies
<1>2. QED
  BY <1>1 DEF Token

LEMMA SameData ==
  ASSUME DataInv, UNCHANGED <<data, stored>>,
         pc \in {"more", "crashed"} => pc' \in {"more", "crashed"} /\ seg' = seg
  PROVE  DataInv'
BY DEF DataInv, RightBody, Article, StatusLine

LEMMA InitWholeInv == Init => WholeInv
<1> SUFFICES ASSUME Init PROVE WholeInv
  OBVIOUS
<1>1. ThreadInv
  BY InitThreadInv
<1>2. StreamInv
  BY DEF Init, StreamInv
<1>3. DataInv
  BY DEF Init, DataInv, RightBody
<1>4. LoggedInFirst /\ FailsForAReason
  BY DEF Init, LoggedInFirst, FailsForAReason, InSession, Asking
<1>5. QED
  BY <1>1, <1>2, <1>3, <1>4 DEF WholeInv

(* With whole status lines every step keeps the stream in step with the     *)
(* thread.                                                                  *)
LEMMA StepWholeInv ==
  ASSUME StatusIsWhole, WholeInv, [Next]_vars
  PROVE  WholeInv'
<1> USE DEF clientVars, serverVars
<1>1. Typed /\ ThreadInv' /\ StreamInv /\ DataInv /\ LoggedInFirst /\ FailsForAReason
  BY StepThreadInv DEF WholeInv, ThreadInv
<1>2. /\ Len(stream) \in Nat
      /\ seg \in Segment \cup {NoSegment}
      /\ pc \in Asking => seg \in Segment \ (stored \cup failed)
      /\ pc \in {"connect", "greeting", "sendUser", "user", "sendPass", "pass"} => failed = {}
  BY LenProperties DEF WholeInv, ThreadInv, Typed, TypeOK, HandInv, Asking, InSession
<1> DEFINE Verdicts == LoggedInFirst /\ FailsForAReason
<1>3. SUFFICES StreamInv' /\ DataInv' /\ Verdicts'
  BY <1>1 DEF WholeInv
<1>4. CASE NetConnect
  <2>1. pc' = "greeting" /\ pc = "connect" /\ UNCHANGED <<data, stored>>
    BY <1>4 DEF NetConnect
  <2>2. Len(stream') \in {0, 1}
    <3>1. "200" \in Kind /\ "502" \in Kind
      BY DEF Kind
    <3>2. \A code \in {"200", "502"} : Len(StatusLine(code, NoSegment)) = 1
      BY <3>1, WholeStatus
    <3>3. CASE \E code \in {"200", "502"} : stream' = StatusLine(code, NoSegment)
      BY <3>2, <3>3
    <3>4. CASE stream' = <<>>
      BY <3>4, EmptySeq
    <3>5. QED
      BY <1>4, <3>3, <3>4 DEF NetConnect
  <2>3. QED
    BY <2>1, <2>2, <1>1, SameData DEF StreamInv, LoggedInFirst, FailsForAReason, InSession, Asking
<1>5. CASE Greeting
  <2>1. pc = "greeting" /\ UNCHANGED <<data, stored, seg>>
    BY <1>5 DEF Greeting
  <2>2. pc' \in {"connect", "exit", "sendUser"}
    BY <1>5 DEF Greeting, Reconnect
  <2>3. ASSUME pc' = "sendUser" PROVE Len(stream') = 0
    <3>1. PICK piece \in Pieces : NetRecv(piece) /\ Status(piece) \in {"200", "201"}
      BY <1>5, <2>3 DEF Greeting, Reconnect
    <3>2. Len(piece) # 0 /\ Len(piece) \in 0 .. Len(stream) /\ Len(stream') = Len(stream) - Len(piece)
      BY <1>1, <3>1, StatusOfStream, PieceOfStream, RestOfStream
    <3>3. QED
      BY <1>1, <1>2, <2>1, <3>2 DEF StreamInv
  <2>4. QED
    BY <1>1, <2>1, <2>2, <2>3, SameData DEF StreamInv, LoggedInFirst, FailsForAReason, InSession, Asking
<1>6. CASE SendUser
  <2>1. PICK code \in {"381", "281", "481"} :
          /\ NetSend(StatusLine(code, NoSegment), "user")
          /\ loggedIn' = (link = "open" /\ code = "281")
    BY <1>6 DEF SendUser
  <2>2. /\ StatusLine(code, NoSegment) \in Seq(Tokens)
        /\ Len(StatusLine(code, NoSegment)) = 1
        /\ StatusLine(code, NoSegment)[1].kind = code
    <3>1. code \in Kind
      BY DEF Kind
    <3>2. QED
      BY <3>1, WholeStatus
  <2>3. pc = "sendUser" /\ Len(stream) = 0 /\ UNCHANGED <<data, stored, seg>>
    BY <1>1, <1>6 DEF SendUser, StreamInv
  <2>4. /\ pc' \in {"user", "crashed"}
        /\ link = "open" => stream' = StatusLine(code, NoSegment)
        /\ link # "open" => stream' = stream
    BY <1>1, <2>1, <2>2, <2>3, SentStream
  <2>5. Len(stream') \in {0, 1}
    BY <2>2, <2>3, <2>4
  <2>6. Len(stream') = 1 /\ stream'[1].kind = "281" => loggedIn'
    <3> SUFFICES ASSUME Len(stream') = 1, stream'[1].kind = "281" PROVE loggedIn'
      OBVIOUS
    <3>1. link = "open"
      BY <2>3, <2>4
    <3>2. code = "281"
      BY <2>2, <2>4, <3>1
    <3>3. QED
      BY <2>1, <3>1, <3>2
  <2>7. QED
    BY <1>1, <2>3, <2>4, <2>5, <2>6, SameData DEF StreamInv, LoggedInFirst, FailsForAReason, InSession, Asking
<1>7. CASE SendPass
  <2>1. PICK code \in {"281", "481"} :
          /\ NetSend(StatusLine(code, NoSegment), "pass")
          /\ loggedIn' = (link = "open" /\ code = "281")
    BY <1>7 DEF SendPass
  <2>2. /\ StatusLine(code, NoSegment) \in Seq(Tokens)
        /\ Len(StatusLine(code, NoSegment)) = 1
        /\ StatusLine(code, NoSegment)[1].kind = code
    <3>1. code \in Kind
      BY DEF Kind
    <3>2. QED
      BY <3>1, WholeStatus
  <2>3. pc = "sendPass" /\ Len(stream) = 0 /\ UNCHANGED <<data, stored, seg>>
    BY <1>1, <1>7 DEF SendPass, StreamInv
  <2>4. /\ pc' \in {"pass", "crashed"}
        /\ link = "open" => stream' = StatusLine(code, NoSegment)
        /\ link # "open" => stream' = stream
    BY <1>1, <2>1, <2>2, <2>3, SentStream
  <2>5. Len(stream') \in {0, 1}
    BY <2>2, <2>3, <2>4
  <2>6. Len(stream') = 1 /\ stream'[1].kind = "281" => loggedIn'
    <3> SUFFICES ASSUME Len(stream') = 1, stream'[1].kind = "281" PROVE loggedIn'
      OBVIOUS
    <3>1. link = "open"
      BY <2>3, <2>4
    <3>2. code = "281"
      BY <2>2, <2>4, <3>1
    <3>3. QED
      BY <2>1, <3>1, <3>2
  <2>7. QED
    BY <1>1, <2>3, <2>4, <2>5, <2>6, SameData DEF StreamInv, LoggedInFirst, FailsForAReason, InSession, Asking
<1>8. CASE LoginReply
  <2>1. pc \in {"user", "pass"} /\ UNCHANGED <<data, stored, seg, failed, loggedIn>>
    BY <1>8 DEF LoginReply
  <2>2. pc' \in {"connect", "exit", "crashed", "sendPass", "queue"}
    BY <1>8 DEF LoginReply, Reconnect
  <2>3. ASSUME pc' \in {"sendPass", "queue"}
        PROVE  Len(stream') = 0 /\ (pc' = "queue" => loggedIn')
    <3>1. PICK piece \in Pieces :
            /\ NetRecv(piece)
            /\ Status(piece) \in Accepts(pc)
            /\ pc' = IF pc = "user" THEN "sendPass" ELSE "queue"
      BY <1>8, <2>1, <2>3 DEF LoginReply, Reconnect
    <3>2. /\ Len(piece) # 0 /\ Len(piece) \in 0 .. Len(stream)
          /\ Len(stream') = Len(stream) - Len(piece)
          /\ Status(piece) = stream[1].kind
      BY <1>1, <3>1, StatusOfStream, PieceOfStream, RestOfStream DEF Accepts
    <3>3. Len(stream) = 1 /\ Len(stream') = 0
      BY <1>1, <1>2, <2>1, <3>2 DEF StreamInv
    <3>4. pc' = "queue" => stream[1].kind = "281"
      BY <2>1, <3>1, <3>2 DEF Accepts
    <3>5. QED
      BY <1>1, <2>1, <3>3, <3>4 DEF StreamInv
  <2>4. StreamInv'
    BY <2>2, <2>3 DEF StreamInv
  <2>5. DataInv'
    BY <1>1, <2>1, SameData
  <2>6. Verdicts'
    BY <1>2, <2>1, <2>2, <2>3 DEF LoggedInFirst, FailsForAReason, InSession, Asking
  <2>7. QED
    BY <2>4, <2>5, <2>6
<1>9. CASE \E s \in Segment : TakeItem(s)
  <2>1. /\ pc = "queue" /\ pc' \in {"sendBody", "sendGroup"}
        /\ UNCHANGED <<data, stored, failed, loggedIn, refused, link, stream>>
    BY <1>9 DEF TakeItem
  <2>2. QED
    BY <1>1, <2>1, SameData DEF StreamInv, LoggedInFirst, FailsForAReason, InSession, Asking
<1>10. CASE SendGroup
  <2>1. /\ pc = "sendGroup" /\ Len(stream) = 0 /\ seg \in Segment
        /\ UNCHANGED <<data, stored, failed, seg, loggedIn, refused>>
    BY <1>1, <1>2, <1>10 DEF SendGroup, StreamInv, Asking
  <2>2. PICK code \in {"211", "411"} : NetSend(StatusLine(code, seg), "group")
    BY <1>10 DEF SendGroup
  <2>3. StatusLine(code, seg) \in Seq(Tokens) /\ Len(StatusLine(code, seg)) = 1
    <3>1. code \in Kind
      BY DEF Kind
    <3>2. QED
      BY <2>1, <3>1, WholeStatus
  <2>4. /\ pc' \in {"group", "crashed"}
        /\ link' = link
        /\ stream' \in {StatusLine(code, seg), stream}
    BY <1>1, <2>1, <2>2, <2>3, SentStream
  <2>5. Len(stream') \in {0, 1}
    BY <2>1, <2>3, <2>4
  <2>6. QED
    BY <1>1, <2>1, <2>4, <2>5, SameData DEF StreamInv, LoggedInFirst, FailsForAReason, InSession, Asking
<1>11. CASE GroupReply
  <2>1. /\ pc = "group" /\ pc' \in {"sendBody", "crashed"}
        /\ UNCHANGED <<data, stored, failed, seg, loggedIn, refused>>
    BY <1>11 DEF GroupReply
  <2>2. link' = link /\ Len(stream') = 0
    <3>1. CASE \E piece \in Pieces : NetRecv(piece)
      <4>1. PICK piece \in Pieces : NetRecv(piece)
        BY <3>1
      <4>2. QED
        BY <1>1, <1>2, <2>1, <4>1, PieceOfStream, RestOfStream DEF StreamInv
    <3>2. CASE NetRecvError /\ UNCHANGED <<link, stream>>
      BY <3>2, EmptySeq DEF NetRecvError
    <3>3. QED
      BY <1>11, <3>1, <3>2 DEF GroupReply
  <2>3. QED
    BY <1>1, <2>1, <2>2, SameData DEF StreamInv, LoggedInFirst, FailsForAReason, InSession, Asking
<1>12. CASE SendBody
  <2>1. /\ pc = "sendBody" /\ Len(stream) = 0 /\ seg \in Segment
        /\ UNCHANGED <<data, stored, failed, seg, loggedIn>>
    BY <1>1, <1>2, <1>12 DEF SendBody, StreamInv, Asking
  <2>2. CASE NetSend(Article(seg), "body") /\ UNCHANGED refused
    <3>1. Article(seg) \in Seq(Tokens) /\ Len(Article(seg)) = 4
      BY <2>1, WholeArticle
    <3>2. /\ pc' \in {"body", "crashed"}
          /\ link' = link
          /\ stream' = Article(seg) \/ stream' = stream
      BY <1>1, <2>1, <2>2, <3>1, SentStream
    <3>3. IsPart(stream', seg, 0)
      <4>1. CASE stream' = Article(seg)
        <5>1. \A i \in 1 .. 4 : 0 + i = i
          OBVIOUS
        <5>2. Len(stream') = 4
          BY <3>1, <4>1
        <5>3. \A i \in 1 .. 4 : stream'[i] = Article(seg)[0 + i]
          BY <4>1, <5>1
        <5>4. QED
          BY <5>2, <5>3 DEF IsPart
      <4>2. CASE stream' = stream
        BY <2>1, <4>2 DEF IsPart
      <4>3. QED
        BY <3>2, <4>1, <4>2
    <3>4. IsPart(stream, seg, 0)'
      BY <2>1, <3>3 DEF IsPart, Article, StatusLine
    <3>5. QED
      BY <1>1, <2>1, <2>2, <3>2, <3>4, SameData
         DEF StreamInv, LoggedInFirst, FailsForAReason, InSession, Asking
  <2>3. CASE /\ NetSend(StatusLine("430", seg), "body")
             /\ refused' = IF link = "open" THEN refused \cup {seg} ELSE refused
    <3>1. /\ StatusLine("430", seg) \in Seq(Tokens)
          /\ Len(StatusLine("430", seg)) = 1
          /\ StatusLine("430", seg)[1].kind = "430"
      <4>1. "430" \in Kind
        BY DEF Kind
      <4>2. QED
        BY <2>1, <4>1, WholeStatus
    <3>2. /\ pc' \in {"body", "crashed"}
          /\ link' = link
          /\ link = "open" => stream' = StatusLine("430", seg)
          /\ link # "open" => stream' = stream
      BY <1>1, <2>1, <2>3, <3>1, SentStream
    <3>3. CASE link = "open"
      BY <1>1, <2>1, <2>3, <3>1, <3>2, <3>3, SameData
         DEF StreamInv, LoggedInFirst, FailsForAReason, InSession, Asking
    <3>4. CASE link # "open"
      <4>1. IsPart(stream, seg, 0)'
        BY <2>1, <3>2, <3>4 DEF IsPart, Article, StatusLine
      <4>2. QED
        BY <1>1, <2>1, <2>3, <3>2, <3>4, <4>1, SameData
           DEF StreamInv, LoggedInFirst, FailsForAReason, InSession, Asking
    <3>5. QED
      BY <3>3, <3>4
  <2>4. QED
    BY <1>12, <2>2, <2>3 DEF SendBody
<1>13. CASE BodyReply
  <2>1. /\ pc = "body" /\ seg \in Segment \ stored
        /\ data[seg] = <<>>
        /\ UNCHANGED <<loggedIn, refused>>
    BY <1>1, <1>2, <1>13 DEF BodyReply, Asking, DataInv
  <2>2. /\ Article(seg)[1].kind = "222"
        /\ Len(Article(seg)) = 4
    BY <2>1, WholeArticle
  <2>3. CASE \E piece \in Pieces : NetRecv(piece) /\ Status(piece) = "222" /\ Keep(piece)
    <3>1. PICK piece \in Pieces : NetRecv(piece) /\ Status(piece) = "222" /\ Keep(piece)
      BY <2>3
    <3>2. stream[1].kind = "222"
      BY <1>1, <3>1, StatusOfStream
    <3>3. IsPart(stream, seg, 0)
      BY <1>1, <2>1, <3>2 DEF StreamInv
    <3>4. Len(data[seg]) = 0
      BY <2>1, EmptySeq
    <3>5. IsPart(data[seg], seg, 0) /\ IsPart(stream, seg, Len(data[seg]))
      BY <3>3, <3>4 DEF IsPart
    <3>6. StreamInv' /\ DataInv'
      BY <1>1, <2>1, <3>1, <3>5, KeptPart DEF WholeInv
    <3>7. Verdicts'
      BY <1>1, <2>1, <3>1 DEF Keep, NetRecv, LoggedInFirst, FailsForAReason, InSession, Asking
    <3>8. QED
      BY <3>6, <3>7
  <2>4. CASE \E piece \in Pieces : NetRecv(piece) /\ Status(piece) # "222" /\ Fails
    <3>1. PICK piece \in Pieces : NetRecv(piece) /\ Status(piece) # "222" /\ Fails
      BY <2>4
    <3>2. /\ Len(piece) \in 0 .. Len(stream)
          /\ Len(stream) # 0 => Len(piece) # 0
          /\ Len(piece) = 0 => link = "closed"
          /\ Len(piece) # 0 => stream[1].kind # "222"
          /\ Len(stream') = Len(stream) - Len(piece)
          /\ link' = link
      BY <1>1, <3>1, PieceOfStream, RestOfStream, StatusOfStream
    <3>3. ASSUME Len(piece) # 0 PROVE Len(stream) = 1 /\ seg \in refused
      <4>1. 1 \in 1 .. Len(stream)
        BY <1>2, <3>2, <3>3
      <4>2. ~IsPart(stream, seg, 0)
        <5> SUFFICES ASSUME IsPart(stream, seg, 0) PROVE FALSE
          OBVIOUS
        <5>1. stream[1] = Article(seg)[0 + 1]
          BY <4>1 DEF IsPart
        <5>2. QED
          BY <2>2, <3>2, <3>3, <5>1
      <4>3. QED
        BY <1>1, <2>1, <4>2 DEF StreamInv
    <3>4. Len(stream') = 0
      BY <1>2, <3>2, <3>3
    <3>5. /\ pc' = "queue" /\ failed' = failed \cup {seg}
          /\ UNCHANGED <<data, stored>>
      BY <3>1 DEF Fails
    <3>6. StreamInv'
      BY <3>4, <3>5 DEF StreamInv
    <3>7. DataInv'
      BY <1>1, <2>1, <3>5, SameData
    <3>8. Verdicts'
      BY <1>1, <2>1, <3>2, <3>3, <3>5 DEF LoggedInFirst, FailsForAReason, InSession, Asking
    <3>9. QED
      BY <3>6, <3>7, <3>8
  <2>5. CASE /\ NetRecvError /\ UNCHANGED <<link, stream>>
             /\ Fails \/ (pc' = "crashed" /\ UNCHANGED <<seg, data, stored, failed>>)
    <3>1. /\ link = "reset" /\ link' = "reset" /\ Len(stream') = 0
          /\ pc' \in {"queue", "crashed"}
          /\ UNCHANGED <<data, stored>>
      BY <2>5, EmptySeq DEF NetRecvError, Fails
    <3>2. StreamInv'
      BY <3>1 DEF StreamInv
    <3>3. DataInv'
      BY <1>1, <2>1, <3>1, SameData
    <3>4. Verdicts'
      BY <1>1, <2>1, <3>1 DEF LoggedInFirst, FailsForAReason, InSession, Asking
    <3>5. QED
      BY <3>2, <3>3, <3>4
  <2>6. QED
    BY <1>13, <2>3, <2>4, <2>5 DEF BodyReply
<1>14. CASE BodyMore
  <2>1. /\ pc = "more" /\ seg \in Segment \ stored
        /\ UNCHANGED <<loggedIn, refused>>
    BY <1>1, <1>2, <1>14 DEF BodyMore, Asking
  <2>2. CASE \E piece \in Pieces : NetRecv(piece) /\ Keep(piece)
    <3>1. PICK piece \in Pieces : NetRecv(piece) /\ Keep(piece)
      BY <2>2
    <3>2. IsPart(data[seg], seg, 0) /\ IsPart(stream, seg, Len(data[seg]))
      BY <1>1, <2>1 DEF StreamInv
    <3>3. StreamInv' /\ DataInv'
      BY <1>1, <2>1, <3>1, <3>2, KeptPart DEF WholeInv
    <3>4. Verdicts'
      BY <1>1, <2>1, <3>1 DEF Keep, NetRecv, LoggedInFirst, FailsForAReason, InSession, Asking
    <3>5. QED
      BY <3>3, <3>4
  <2>3. CASE pc' = "crashed" /\ UNCHANGED <<seg, data, stored, failed>>
    BY <1>1, <2>1, <2>3, SameData DEF StreamInv, LoggedInFirst, FailsForAReason, InSession, Asking
  <2>4. QED
    BY <1>14, <2>2, <2>3 DEF BodyMore
<1>15. CASE LoseLink
  <2>1. /\ Len(stream') \in 0 .. Len(stream)
        /\ \A i \in 1 .. Len(stream') : stream'[i] = stream[i]
    BY <1>1, <1>15, LostStream
  <2>2. /\ UNCHANGED <<pc, seg, data, stored, failed, loggedIn, refused>>
        /\ link' # "open"
    BY <1>15 DEF LoseLink
  <2>3. \A m \in Nat : IsPart(stream, seg, m) => IsPart(stream, seg, m)'
    <3> SUFFICES ASSUME NEW m \in Nat, IsPart(stream, seg, m)
                 PROVE  IsPart(stream', seg, m)
      BY <2>2 DEF IsPart, Article, StatusLine
    <3>1. m + Len(stream) <= 4 /\ \A i \in 1 .. Len(stream) : stream[i] = Article(seg)[m + i]
      BY DEF IsPart
    <3>2. m + Len(stream') <= 4
      BY <1>2, <2>1, <3>1
    <3>3. \A i \in 1 .. Len(stream') : stream'[i] = Article(seg)[m + i]
      BY <1>2, <2>1, <3>1
    <3>4. QED
      BY <3>2, <3>3 DEF IsPart
  <2>4. pc = "more" => IsPart(stream, seg, Len(data[seg]))'
    <3> SUFFICES ASSUME pc = "more" PROVE IsPart(stream, seg, Len(data[seg]))'
      OBVIOUS
    <3>1. Len(data[seg]) \in Nat
      BY <1>1, <1>2, LenProperties DEF Typed, Asking
    <3>2. QED
      BY <1>1, <2>2, <2>3, <3>1 DEF StreamInv
  <2>5. pc = "more" => IsPart(data[seg], seg, 0)'
    BY <1>1, <2>2 DEF StreamInv, IsPart, Article, StatusLine
  <2>6. /\ Len(stream) \in {0, 1} => Len(stream') \in {0, 1}
        /\ Len(stream) = 0 => Len(stream') = 0
        /\ Len(stream') = 1 => stream'[1] = stream[1]
    <3>1. Len(stream) \in {0, 1} => Len(stream') \in {0, 1}
      <4>1. Len(stream') \in Nat /\ Len(stream') <= Len(stream)
        BY <1>2, <2>1
      <4>2. QED
        BY <4>1
    <3>2. Len(stream) = 0 => Len(stream') = 0
      BY <1>2, <2>1
    <3>3. Len(stream') = 1 => stream'[1] = stream[1]
      <4>1. 1 \in 1 .. 1
        OBVIOUS
      <4>2. QED
        BY <2>1, <4>1
    <3>4. QED
      BY <3>1, <3>2, <3>3
  <2>7. IsPart(stream, seg, 0) => IsPart(stream, seg, 0)'
    BY <2>3
  <2>8. Len(stream) = 1 /\ Len(stream') # 1 => IsPart(stream, seg, 0)'
    <3> SUFFICES ASSUME Len(stream') = 0 PROVE IsPart(stream', seg', 0)
      BY <2>2, <2>6 DEF IsPart, Article, StatusLine
    <3>1. QED
      BY DEF IsPart
  <2>9. StreamInv'
    BY <1>1, <2>2, <2>4, <2>5, <2>6, <2>7, <2>8 DEF StreamInv
  <2>10. DataInv'
    BY <1>1, <2>2, SameData
  <2>11. Verdicts'
    BY <1>1, <2>2 DEF LoggedInFirst, FailsForAReason, InSession, Asking
  <2>12. QED
    BY <2>9, <2>10, <2>11
<1>16. CASE UNCHANGED vars
  BY <1>1, <1>16, SameData DEF vars, StreamInv, IsPart, Article, StatusLine, Pieces,
     LoggedInFirst, FailsForAReason
<1>17. QED
  BY <1>4, <1>5, <1>6, <1>7, <1>8, <1>9, <1>10, <1>11, <1>12, <1>13, <1>14, <1>15,
     <1>16 DEF Next, ThreadStep

LEMMA WholeInvariant == ASSUME StatusIsWhole PROVE Spec => []WholeInv
<1>1. WholeInv /\ [Next]_vars => WholeInv'
  BY StatusIsWhole, StepWholeInv
<1>2. QED
  BY <1>1, InitWholeInv, PTL DEF Spec

-----------------------------------------------------------------------------
(* With whole status lines, what is handed to the process thread as a       *)
(* segment is the whole article the server sent for it, however the network *)
(* cuts the rest (nttp_retrieve_segment).                                   *)
THEOREM SessionRightBody == ASSUME StatusIsWhole PROVE Spec => []RightBody
<1>1. WholeInv => RightBody
  BY DEF WholeInv, DataInv
<1>2. QED
  BY <1>1, WholeInvariant, PTL

(* With whole status lines, nothing is asked for before the server has      *)
(* accepted the login on this connection (nttp_connection).                 *)
THEOREM SessionLoggedInFirst == ASSUME StatusIsWhole PROVE Spec => []LoggedInFirst
<1>1. WholeInv => LoggedInFirst
  BY DEF WholeInv
<1>2. QED
  BY <1>1, WholeInvariant, PTL

(* With whole status lines, a segment fails only if the server has refused  *)
(* it or the connection is lost (nttp_retrieve_segment).                    *)
THEOREM SessionFailsForAReason == ASSUME StatusIsWhole PROVE Spec => []FailsForAReason
<1>1. WholeInv => FailsForAReason
  BY DEF WholeInv
<1>2. QED
  BY <1>1, WholeInvariant, PTL

(* A step of the thread is a request, an answer, or neither.                *)
LEMMA StepRetrieval ==
  ASSUME WholeInv, WholeInv', [Next]_vars
  PROVE  [R!Next]_<<seg, outcome>>
<1> USE DEF clientVars, serverVars
<1>1. /\ stored \cap failed = {}
      /\ pc \in Asking => seg \in Segment \ (stored \cup failed)
      /\ pc = "queue" => seg = NoSegment
      /\ \A s \in stored : data[s] = Article(s)
      /\ \A s \in stored' : data'[s] = Article(s)
      /\ stored \subseteq Segment /\ data \in [Segment -> Seq(Tokens)]
      /\ NoSegment \notin Segment
  BY SessionAssumption DEF WholeInv, ThreadInv, Typed, TypeOK, HandInv, Asking, InSession, DataInv,
     RightBody, Article, StatusLine
<1>2. ASSUME UNCHANGED <<seg, stored, failed, data>>
      PROVE  UNCHANGED <<seg, outcome>>
  BY <1>2 DEF outcome, Article, StatusLine
<1>3. ASSUME NEW s \in Segment, TakeItem(s)
      PROVE  R!Request(s)
  <2>1. /\ pc = "queue" /\ s \notin stored \cup failed /\ seg' = s
        /\ UNCHANGED <<stored, failed, data>>
    BY <1>3 DEF TakeItem
  <2>2. outcome' = outcome
    BY <2>1 DEF outcome, Article, StatusLine
  <2>3. outcome[s] = "wanted"
    BY <2>1 DEF outcome
  <2>4. QED
    BY <1>1, <2>1, <2>2, <2>3 DEF R!Request
<1>4. ASSUME seg \in Segment \ (stored \cup failed), Fails
      PROVE  R!Answer("error")
  <2>1. /\ failed' = failed \cup {seg} /\ seg' = NoSegment
        /\ UNCHANGED <<stored, data>>
    BY <1>4 DEF Fails
  <2>2. outcome' = [outcome EXCEPT ![seg] = "error"]
    BY <1>4, <2>1 DEF outcome, Article, StatusLine
  <2>3. QED
    BY <1>1, <1>4, <2>1, <2>2 DEF R!Answer
<1>5. ASSUME seg \in Segment \ (stored \cup failed), NEW piece, Keep(piece)
      PROVE  R!Answer("article") \/ UNCHANGED <<seg, outcome>>
  <2>1. /\ failed' = failed
        /\ \A s \in Segment \ {seg} : data'[s] = data[s]
    BY <1>1, <1>5 DEF Keep
  <2>2. CASE stored' = stored \cup {seg} /\ seg' = NoSegment
    <3>1. data'[seg] = Article(seg)
      BY <1>1, <2>2
    <3>2. outcome' = [outcome EXCEPT ![seg] = "article"]
      <4>1. /\ outcome' = [s \in Segment |-> outcome'[s]]
            /\ outcome = [s \in Segment |-> outcome[s]]
        BY DEF outcome
      <4>2. outcome'[seg] = "article"
        BY <1>5, <2>2, <3>1 DEF outcome, Article, StatusLine
      <4>3. \A s \in Segment \ {seg} : outcome'[s] = outcome[s]
        BY <2>1, <2>2 DEF outcome, Article, StatusLine
      <4>4. QED
        BY <1>5, <4>1, <4>2, <4>3
    <3>3. QED
      BY <1>1, <1>5, <2>2, <3>2 DEF R!Answer
  <2>3. CASE UNCHANGED <<stored, seg>>
    <3>1. outcome' = outcome
      BY <1>5, <2>1, <2>3 DEF outcome, Article, StatusLine
    <3>2. QED
      BY <2>3, <3>1
  <2>4. QED
    BY <1>5, <2>2, <2>3 DEF Keep
<1>6. CASE NetConnect \/ Greeting \/ SendUser \/ SendPass \/ LoginReply
  BY <1>2, <1>6 DEF NetConnect, Greeting, SendUser, SendPass, LoginReply
<1>7. CASE SendGroup \/ GroupReply \/ SendBody \/ LoseLink \/ UNCHANGED vars
  BY <1>2, <1>7 DEF SendGroup, GroupReply, SendBody, LoseLink, vars
<1>8. CASE \E s \in Segment : TakeItem(s)
  BY <1>3, <1>8 DEF R!Next
<1>9. CASE BodyReply
  <2>1. seg \in Segment \ (stored \cup failed)
    BY <1>1, <1>9 DEF BodyReply, Asking
  <2>2. \/ \E piece \in Pieces : Keep(piece)
        \/ Fails
        \/ UNCHANGED <<seg, data, stored, failed>>
    BY <1>9 DEF BodyReply
  <2>3. QED
    BY <1>2, <1>4, <1>5, <2>1, <2>2 DEF R!Next
<1>10. CASE BodyMore
  <2>1. seg \in Segment \ (stored \cup failed)
    BY <1>1, <1>10 DEF BodyMore, Asking
  <2>2. \/ \E piece \in Pieces : Keep(piece)
        \/ UNCHANGED <<seg, data, stored, failed>>
    BY <1>10 DEF BodyMore
  <2>3. QED
    BY <1>2, <1>5, <2>1, <2>2 DEF R!Next
<1>11. QED
  BY <1>6, <1>7, <1>8, <1>9, <1>10 DEF Next, ThreadStep

(* With whole status lines, the session implements the abstract retrieval:  *)
(* one request at a time, answered once, by the segment's own whole article *)
(* or an error (nttp_retrieve_segment).                                     *)
THEOREM SessionImplementsRetrieval ==
  ASSUME StatusIsWhole PROVE Spec => ImplementsRetrieval
<1>1. Init => R!Init
  BY DEF Init, R!Init, outcome
<1>2. WholeInv /\ WholeInv' /\ [Next]_vars => [R!Next]_<<seg, outcome>>
  BY StepRetrieval
<1>3. QED
  BY <1>1, <1>2, WholeInvariant, PTL
     DEF Spec, ImplementsRetrieval, R!Spec, R!retrievalVars

=============================================================================
