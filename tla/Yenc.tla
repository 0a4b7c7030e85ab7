--------------------------------- MODULE Yenc ---------------------------------
(***************************************************************************)
(* yenc_decode, line by line, on an article that a poster has encoded and   *)
(* the way to the client may have damaged.  The poster is external: it      *)
(* follows the yEnc format as the decoder expects it (escaped NUL, LF, CR   *)
(* and '=', lines of at least `line' characters, dots doubled at the start  *)
(* of a line).  Header lines are records of the keywords they carry.        *)
(***************************************************************************)
EXTENDS Crc32

CONSTANTS
  NULL,
  Byte,        \* the bytes a payload may contain
  MaxPayload,  \* bound on its length
  LineLength   \* the line lengths a poster may use

ASSUME YencAssumption ==
  /\ NULL \notin Int
  /\ Byte \subseteq 0 .. 255
  /\ MaxPayload \in Nat
  /\ LineLength \subseteq Nat \ {0}

Payload == UNION {[1 .. n -> Byte] : n \in 0 .. MaxPayload}

-----------------------------------------------------------------------------
(* The poster.                                                              *)
Escaped(byte) ==
  LET o == (byte + 42) % 256
  IN IF o \in {0, 10, 13, 61} THEN <<61, (o + 64) % 256>> ELSE <<o>>

\* A byte is written behind the lines, on a new one if the last is full.
AddByte(lines, byte, length) ==
  IF lines = <<>> \/ Len(lines[Len(lines)]) >= length
  THEN Append(lines, Escaped(byte))
  ELSE [lines EXCEPT ![Len(lines)] = @ \o Escaped(byte)]

\* The encoded payload, cut into lines.
Encoded(bytes, length) ==
  LET lines[n \in 0 .. Len(bytes)] ==
        IF n = 0 THEN <<>> ELSE AddByte(lines[n - 1], bytes[n], length)
  IN lines[Len(bytes)]

Dotted(text) == IF text[1] = 46 THEN <<46>> \o text ELSE text

DataLines(bytes, length) ==
  LET lines == Encoded(bytes, length)
  IN [n \in DOMAIN lines |-> [kind |-> "data", text |-> Dotted(lines[n])]]

\* One other part of the file, of five bytes, comes before this one.
Before == 5

Article(bytes, length, multipart, tellsLength, checksum) ==
  LET offset == IF multipart THEN Before ELSE 0
      begin == [kind |-> "ybegin", size |-> offset + Len(bytes),
                line |-> IF tellsLength THEN length ELSE NULL,
                part |-> IF multipart THEN 2 ELSE NULL, name |-> "posted"]
      part == [kind |-> "ypart", begin |-> offset + 1, end |-> offset + Len(bytes)]
  IN <<[kind |-> "status"], begin>> \o (IF multipart THEN <<part>> ELSE <<>>)
       \o DataLines(bytes, length) \o <<[kind |-> "yend", crc32 |-> checksum],
                                          [kind |-> "data", text |-> <<46>>]>>

(* Damage: a line that gets lost, that comes twice, or that changes place   *)
(* with the next one.                                                       *)
Damaged(article) ==
  LET n == Len(article)
  IN {RemoveAt(article, k) : k \in 1 .. n} \cup
     {InsertAt(article, k, article[k]) : k \in 1 .. n} \cup
     {[article EXCEPT ![k] = article[k + 1], ![k + 1] = article[k]] : k \in 1 .. n - 1}

-----------------------------------------------------------------------------
VARIABLES
  payload,  \* what the poster encoded
  damaged,  \* the article is not the one the poster sent
  article,  \* its lines, as strsep cuts them
  next,     \* the line that is looked at next
  inData, dataSize, fileSize, lineLength, allocated,  \* local variables
  filename, partnum,  \* post->filename and segment->number
  decoded,  \* what has been written to *dst
  checksum, yencChecksum,
  result    \* what yenc_decode returned; NULL before

posted == <<payload, damaged, article>>
header == <<inData, dataSize, fileSize, lineLength, filename, partnum>>
output == <<allocated, decoded, checksum>>
vars == <<posted, next, header, output, yencChecksum, result>>

Init ==
  /\ payload \in Payload
  /\ \E length \in LineLength, multipart, tellsLength \in BOOLEAN,
        crc \in {NULL, Crc32Of(payload)} :
       LET sent == Article(payload, length, multipart, tellsLength, crc)
       IN article \in {sent} \cup Damaged(sent) /\ damaged = (article # sent)
  /\ next = 1
  /\ inData = FALSE /\ dataSize = 0 /\ fileSize = 0 /\ lineLength = -1
  /\ filename = "listed" /\ partnum = 1
  /\ allocated = FALSE /\ decoded = <<>>
  /\ checksum = Crc32Init /\ yencChecksum = {}
  /\ result = NULL

Reading(kind) ==
  /\ result = NULL /\ next <= Len(article)
  /\ article[next].kind = kind
  /\ next' = next + 1

\* A line before =ybegin, such as the status line of the reply.
OtherLine ==
  /\ \/ Reading("status")
     \/ Reading("data") /\ ~inData
  /\ UNCHANGED <<posted, header, output, yencChecksum, result>>

\* yenc_read_keyword_int and _str: a keyword that is missing leaves its variable
\* alone.
ReadKeyword(value, old) == IF value = NULL THEN old ELSE value

YBegin ==
  /\ Reading("ybegin")
  /\ inData' = TRUE
  /\ fileSize' = ReadKeyword(article[next].size, fileSize)
  /\ lineLength' = ReadKeyword(article[next].line, lineLength)
  /\ filename' = ReadKeyword(article[next].name, filename)
  /\ partnum' = ReadKeyword(article[next].part, partnum)
  /\ UNCHANGED <<posted, dataSize, output, yencChecksum, result>>

\* A wrong size of a part, off by one.
PartSizeShort(line) == line.end - line.begin

\* yenc_parse_ypart
PartSize(line) == ReadKeyword(line.end, 0) - (ReadKeyword(line.begin, 0) - 1)

YPart ==
  /\ Reading("ypart")
  /\ dataSize' = PartSize(article[next])
  /\ UNCHANGED <<posted, inData, fileSize, lineLength, filename, partnum, output, yencChecksum, result>>

-----------------------------------------------------------------------------
(* Wrong versions: a limit that leaves no room for a doubled dot; a size    *)
(* compared instead of the checksum.                                        *)
LimitWithoutDot(line, length) == IF length < 0 THEN Len(line) ELSE length
VerdictBySize(size) == IF size = Len(decoded) THEN size ELSE -1

\* How far the loop goes: one character more than the line length, for a dot
\* or the second half of an escape.
Limit(line, length) == IF length < 0 THEN Len(line) ELSE length + 1

DotDoubled(line) == Len(line) >= 2 /\ line[1] = 46 /\ line[2] = 46

At(line, n) == IF n <= Len(line) THEN line[n] ELSE 0

\* One turn of the loop over a line, at character s.i.  A NUL ends the loop; an
\* escape that crosses the limit is still read as a whole.
Turn(line, length, s) ==
  IF s.i > Limit(line, length) \/ At(line, s.i) = 0 THEN s
  ELSE IF s.i = 1 /\ DotDoubled(line) THEN [s EXCEPT !.i = 2]
  ELSE IF At(line, s.i) = 61
  THEN [i |-> s.i + 2, out |-> Append(s.out, (At(line, s.i + 1) - 64 - 42) % 256)]
  ELSE [i |-> s.i + 1, out |-> Append(s.out, (At(line, s.i) - 42) % 256)]

\* The loop, which takes a turn for a character at most.
DecodeLine(line, length) ==
  LET loop[n \in 0 .. Len(line)] ==
        IF n = 0 THEN [i |-> 1, out |-> <<>>] ELSE Turn(line, length, loop[n - 1])
  IN loop[Len(line)].out

\* Without =ypart, the size of the data is that of the file.
Data ==
  /\ Reading("data") /\ inData
  /\ dataSize' = IF dataSize = 0 THEN fileSize ELSE dataSize
  /\ allocated' = TRUE
  /\ LET bytes == DecodeLine(article[next].text, lineLength)
     IN /\ decoded' = decoded \o bytes
        /\ checksum' = Crc32Over(checksum, bytes)
  /\ UNCHANGED <<posted, inData, fileSize, lineLength, filename, partnum, yencChecksum, result>>

\* yenc_parse_yend: no checksum in the line counts as a checksum of zero.
ParseYEnd(line) == ReadKeyword(line.crc32, {})

YEnd ==
  /\ Reading("yend")
  /\ yencChecksum' = ParseYEnd(article[next])
  /\ inData' = FALSE
  /\ UNCHANGED <<posted, dataSize, fileSize, lineLength, filename, partnum, output, result>>

\* Standing for a process that ended; no value yenc_decode returns.
Crashed == -2

\* A checksum of zero is never accepted.
Verdict(size) ==
  IF yencChecksum # Crc32Finish(checksum) \/ yencChecksum = {} THEN -1 ELSE size

\* After =yend or the last line.  The final NUL is written to *dst whether or
\* not it has been allocated; process_yenc_data keeps a size above zero.
Finish ==
  /\ result = NULL
  /\ next > Len(article) \/ (next > 1 /\ article[next - 1].kind = "yend")
  /\ result' = IF allocated THEN Verdict(dataSize) ELSE Crashed
  /\ UNCHANGED <<posted, next, header, output, yencChecksum>>

Next ==
  \/ /\ ~(next > 1 /\ article[next - 1].kind = "yend")
     /\ OtherLine \/ YBegin \/ YPart \/ Data \/ YEnd
  \/ Finish

Spec == Init /\ [][Next]_vars

-----------------------------------------------------------------------------
Accepted == result \notin {NULL, -1, Crashed}

TypeOK ==
  /\ next \in 1 .. Len(article) + 1
  /\ decoded \in Seq(0 .. 255)
  /\ checksum \subseteq Ones /\ yencChecksum \subseteq Ones
  /\ allocated = (decoded # <<>>)

(* As long as an article comes as it was sent, what has been decoded is the *)
(* beginning of the payload, wherever escapes, dots and line ends fall, and *)
(* whether or not the header tells the line length (yenc_decode).           *)
DecodesPayload == ~damaged => IsPrefix(decoded, payload)

(* An undamaged article with a checksum is accepted in full, and the size   *)
(* returned is that of the data, in single and multipart posts              *)
(* (yenc_decode, yenc_parse_ypart).                                         *)
IntactAccepted ==
  ~damaged /\ payload # <<>> /\ result # NULL =>
    IF Crc32Of(payload) # {} /\ yencChecksum # {}
    THEN decoded = payload /\ result = Len(payload)
    ELSE result = -1

\* No line of this kind is left in the article.
Lost(kind) == \A k \in DOMAIN article : article[k].kind # kind

(* Of an article of which one line was lost, doubled or out of place, only  *)
(* the poster's data is accepted, under the name and the part that its      *)
(* header gives, and the size returned is that of the data unless it is a   *)
(* part of a larger file whose =ypart line was lost; such a part is         *)
(* accepted with the size of the whole file                                 *)
(* (yenc_decode, yenc_parse_ybegin, process_yenc_data).                     *)
DamageDetected ==
  Accepted =>
    /\ decoded = payload
    /\ filename = "posted" /\ partnum = (IF fileSize = Len(payload) THEN 1 ELSE 2)
    /\ result = IF Lost("ypart") THEN fileSize ELSE Len(payload)

=============================================================================
