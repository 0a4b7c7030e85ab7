------------------------------ MODULE NzbParser ------------------------------
(***************************************************************************)
(* parse_nzb: the handlers that expat calls for an NZB file, and            *)
(* nzb_fetch_list_files on their result.  The document is written while it  *)
(* is parsed: any files, groups and segments, with their text handed over   *)
(* in any pieces (expat hands over a line feed by itself).  Elements        *)
(* without a handler and the blanks between elements change nothing and are *)
(* left out; so is archive->in_file, which nobody reads.                    *)
(*                                                                          *)
(* A segment is named by its place in made, the order of the document;      *)
(* segments is the array of pointers to them, and status runs beside it.    *)
(* Each segment is a block of its own; the upper half of its address is     *)
(* whatever malloc chose, its place in made stands for the lower half.      *)
(***************************************************************************)
EXTENDS PointerSort, FiniteSets

CONSTANTS
  NULL,
  Subject,  \* subjects of files, as strings of characters
  Text,     \* texts of segments and groups
  Number,   \* numbers of segments
  AddressHigh,  \* the upper halves of the addresses malloc may return
  MaxFiles, MaxGroups, MaxSegments  \* bounds on the document

Occurrences(c, s) == {n \in 1 .. Len(s) : s[n] = c}
Largest(S) == CHOOSE n \in S : \A m \in S : m <= n
Smallest(S) == CHOOSE n \in S : \A m \in S : n <= m
Blank == {" ", "\n"}

\* Double quotes, or single ones if there are none.
Quotes(s) ==
  IF Occurrences("\"", s) # {} THEN Occurrences("\"", s) ELSE Occurrences("'", s)

\* The members of S from 1 to max, in ascending order.
InOrder(S, max) ==
  LET chosen[n \in 0 .. max] ==
        IF n = 0 THEN <<>>
        ELSE IF n \in S THEN Append(chosen[n-1], n) ELSE chosen[n-1]
  IN chosen[max]

\* Characters are strings.  Blanks stand only around a text, behind it only
\* line feeds.
ASSUME DocumentAssumption ==
  /\ NULL \notin Int
  /\ Number \subseteq Int
  /\ Subject \subseteq Seq(STRING) /\ Text \subseteq Seq(STRING)
  /\ \A t \in Text : \A n \in 1 .. Len(t) - 1 :
       t[n] \notin Blank => t[n + 1] # " "

VARIABLES
  phase,        \* "parsing", "parsed", "listed", "crashed"
  posts,        \* every post created, with the address of the next one
  first, last,  \* archive->first, archive->last
  lastSegment,  \* archive->last_segment: a post and a place in made
  inGroup, inSegment,
  files,        \* the file names handed to the client
  open,         \* document: the innermost open element
  rest,         \* document: what is left of its text
  document      \* document: what has been written so far

archiveVars == <<first, last, lastSegment, inGroup, inSegment>>
parserVars == <<phase, posts, archiveVars, files, open, rest, document>>

ParserInit ==
  /\ phase = "parsing"
  /\ posts = <<>> /\ first = NULL /\ last = NULL /\ lastSegment = NULL
  /\ inGroup = FALSE /\ inSegment = FALSE
  /\ files = <<>>
  /\ open = "nzb" /\ rest = <<>> /\ document = <<>>

-----------------------------------------------------------------------------
(* Wrong versions: the first two quotes instead of the last two; a piece    *)
(* that replaces the one before; an array left as it was.                   *)
FindFirstQuoted(s) ==
  LET quotes == Quotes(s)
      begin == Smallest(quotes)
  IN IF Cardinality(quotes) < 2 THEN NULL
     ELSE SubSeq(s, begin + 1, Smallest(quotes \ {begin}) - 1)
Replaced(old, piece) == piece
Unsorted(post, wild) == post.segments

\* Where the dashed layout begins and ends: every "- " before the last '-',
\* every blank behind it.
Dashes(s) == Occurrences("-", s)
Begins(s) == {n \in 1 .. Largest(Dashes(s)) - 1 : s[n] = "-" /\ s[n + 1] = " "}
Ends(s) == {n \in Largest(Dashes(s)) .. Len(s) : s[n] = " "}

\* What a search backwards that leaves the subject takes for the file name.
Elsewhere == <<"elsewhere">>

\* The text between the last two of a kind of quotes, or from the last "- "
\* before the last '-' up to the first blank behind that one.
FindFilename(s) ==
  LET quotes == Quotes(s)
      end == Largest(quotes)
  IN CASE Cardinality(quotes) > 1 -> SubSeq(s, 1 + Largest(quotes \ {end}), end - 1)
       [] Cardinality(quotes) = 1 -> Elsewhere
       [] quotes = {} /\ Dashes(s) = {} -> NULL
       [] quotes = {} /\ Dashes(s) # {} ->
            IF Begins(s) = {} THEN Elsewhere
            ELSE SubSeq(s, Largest(Begins(s)) + 2,
                        IF Ends(s) = {} THEN Len(s) ELSE Smallest(Ends(s)) - 1)

\* A search of find_filename goes on before the beginning of the subject or
\* behind its end.
SearchLeaves(s) ==
  \/ Cardinality(Quotes(s)) = 1
  \/ Quotes(s) = {} /\ Dashes(s) # {} /\ (Begins(s) = {} \/ Ends(s) = {})

\* A piece without its leading blanks and line feeds.
Strip(piece) ==
  LET solid == {n \in 1 .. Len(piece) : piece[n] \notin Blank}
  IN IF solid = {} THEN <<>> ELSE SubSeq(piece, Smallest(solid), Len(piece))

\* The message id or group name that a piece is added to.
Extended(old, piece) == old \o piece

\* In segments: a pointer that leads to no segment.
Wild == 0

\* All segments of the post lie in one region of 4 GB.
OneRegion(post) == \A m, n \in DOMAIN post.made : post.made[m].high = post.made[n].high

\* The pointers, sorted by the numbers of what they point at; a wild one reads
\* as wild.
PostSegmentsSort(post, wild) ==
  LET address == [n \in DOMAIN post.made |-> [high |-> post.made[n].high, low |-> n]]
      number == [p \in [high : {post.made[n].high : n \in DOMAIN post.made},
                        low : DOMAIN post.made] |->
                   IF p = address[p.low] THEN post.made[p.low].number ELSE wild]
      sorted == SortRange(number, [n \in DOMAIN post.segments |-> address[post.segments[n]]],
                          1, Len(post.segments) + 1)
  IN [n \in DOMAIN post.segments |->
        IF \E m \in DOMAIN post.made : sorted[n] = address[m]
        THEN CHOOSE m \in DOMAIN post.made : sorted[n] = address[m] ELSE Wild]

PostCreate(subject) ==
  [filename |-> FindFilename(subject), groups |-> <<>>,
   segments |-> <<>>, made |-> <<>>, status |-> <<>>, next |-> NULL]

Groups == {g \in (1 .. MaxFiles) \X (1 .. MaxGroups) :
             g[1] <= Len(posts) /\ g[2] <= Len(posts[g[1]].groups)}
Segments == {s \in (1 .. MaxFiles) \X (1 .. MaxSegments) :
               s[1] <= Len(posts) /\ s[2] <= Len(posts[s[1]].made)}

-----------------------------------------------------------------------------
(* element_start                                                            *)

ParseFileElement(subject) ==
  LET n == Len(posts) + 1
      linked == IF last = NULL THEN posts ELSE [posts EXCEPT ![last].next = n]
  IN /\ open = "nzb" /\ n <= MaxFiles
     /\ open' = "file"
     /\ posts' = Append(linked, PostCreate(subject))
     /\ first' = IF first = NULL THEN n ELSE first
     /\ last' = n
     /\ document' = Append(document, [subject |-> subject, groups |-> <<>>, segments |-> <<>>])
     /\ UNCHANGED <<phase, lastSegment, inGroup, inSegment, files, rest>>

\* Reading or writing outside of the subject may end the process.
FilenameCrash(subject) ==
  /\ open = "nzb" /\ Len(posts) < MaxFiles
  /\ SearchLeaves(subject)
  /\ phase' = "crashed"
  /\ UNCHANGED <<posts, archiveVars, files, open, rest, document>>

ParseGroupElement(text) ==
  /\ open = "file" /\ Cardinality(Groups) < MaxGroups
  /\ open' = "group" /\ rest' = text
  /\ inGroup' = TRUE
  /\ posts' = [posts EXCEPT ![last].groups = Append(@, <<>>)]
  /\ document' = [document EXCEPT ![Len(document)].groups = Append(@, text)]
  /\ UNCHANGED <<phase, first, last, lastSegment, inSegment, files>>

ParseSegmentElement(number, text, high) ==
  LET n == Len(posts[last].made) + 1
  IN /\ open = "file" /\ Cardinality(Segments) < MaxSegments
     /\ open' = "segment" /\ rest' = text
     /\ inSegment' = TRUE
     /\ lastSegment' = n
     /\ posts' =
          [posts EXCEPT
             ![last].made = Append(@, [number |-> number, index |-> n, high |-> high,
                                          messageid |-> <<>>]),
             ![last].segments = Append(@, n),
             ![last].status = Append(@, "NEW")]
     /\ document' = [document EXCEPT
          ![Len(document)].segments = Append(@, [number |-> number, text |-> text])]
     /\ UNCHANGED <<phase, first, last, inGroup, files>>

-----------------------------------------------------------------------------
(* element_data, element_end                                                *)

ElementData(n) ==
  LET piece == SubSeq(rest, 1, n)
      kept == Strip(piece)
      group == Len(posts[last].groups)
  IN /\ n = 1 \/ \A m \in 1 .. n : piece[m] # "\n"
     /\ rest' = SubSeq(rest, n + 1, Len(rest))
     /\ posts' =
          IF inSegment
          THEN [posts EXCEPT ![last].made[lastSegment].messageid = Extended(@, kept)]
          ELSE IF inGroup THEN [posts EXCEPT ![last].groups[group] = Extended(@, kept)]
          ELSE posts
     /\ UNCHANGED <<phase, archiveVars, files, open, document>>

\* A wrong element_end, which forgets in_group.
ElementEndInGroup(wild) ==
  /\ open # "nzb" /\ rest = <<>>
  /\ open' = IF open = "file" THEN "nzb" ELSE "file"
  /\ inSegment' = (inSegment /\ open # "segment")
  /\ posts' = IF open = "file"
              THEN [posts EXCEPT ![last].segments = PostSegmentsSort(posts[last], wild)]
              ELSE posts
  /\ UNCHANGED <<phase, first, last, lastSegment, inGroup, files, rest, document>>

ElementEnd(wild) ==
  /\ open # "nzb" /\ rest = <<>>
  /\ open' = IF open = "file" THEN "nzb" ELSE "file"
  /\ inSegment' = (inSegment /\ open # "segment")
  /\ inGroup' = (inGroup /\ open # "group")
  /\ posts' = IF open = "file"
              THEN [posts EXCEPT ![last].segments = PostSegmentsSort(posts[last], wild)]
              ELSE posts
  /\ UNCHANGED <<phase, first, last, lastSegment, files, rest, document>>

\* So may reading through a pointer made of the halves of two others.
SortCrash ==
  /\ open = "file" /\ ~OneRegion(posts[last])
  /\ phase' = "crashed"
  /\ UNCHANGED <<posts, archiveVars, files, open, rest, document>>

\* parse_nzb returns: the first post, or NULL after an error in the XML, such
\* as an end in the middle of an element.
ParseEnds ==
  /\ phase = "parsing"
  /\ phase' = "parsed"
  /\ first' \in (IF open = "nzb" THEN {first, NULL} ELSE {NULL})
  /\ UNCHANGED <<posts, last, lastSegment, inGroup, inSegment, files, open, rest, document>>

\* The posts that can be reached from the first one.
Linked ==
  LET walk[n \in 0 .. Len(posts)] ==
        IF n = 0 THEN <<>>
        ELSE LET at == IF n = 1 THEN first
                       ELSE IF walk[n-1] = <<>> THEN NULL
                       ELSE posts[walk[n-1][Len(walk[n-1])]].next
             IN IF at = NULL THEN walk[n-1] ELSE Append(walk[n-1], at)
  IN walk[Len(posts)]

\* strdup of a file name that was not found crashes.
ListFiles ==
  /\ phase = "parsed"
  /\ IF \E n \in 1 .. Len(Linked) : posts[Linked[n]].filename = NULL
     THEN phase' = "crashed" /\ UNCHANGED files
     ELSE /\ phase' = "listed"
          /\ files' = [n \in 1 .. Len(Linked) |-> posts[Linked[n]].filename]
  /\ UNCHANGED <<posts, archiveVars, open, rest, document>>

ParserNext ==
  \/ /\ phase = "parsing"
     /\ \/ \E s \in Subject : ParseFileElement(s) \/ FilenameCrash(s)
        \/ \E t \in Text : ParseGroupElement(t)
        \/ \E k \in Number, t \in Text, h \in AddressHigh : ParseSegmentElement(k, t, h)
        \/ \E n \in 1 .. Len(rest) : ElementData(n)
        \/ \E wild \in Number \cup {0} : ElementEnd(wild)
        \/ SortCrash
  \/ ParseEnds
  \/ ListFiles

ParserSpec == ParserInit /\ [][ParserNext]_parserVars

-----------------------------------------------------------------------------
ParserTypeOK ==
  /\ phase \in {"parsing", "parsed", "listed", "crashed"}
  /\ open \in {"nzb", "file", "group", "segment"}
  /\ inGroup = (open = "group") /\ inSegment = (open = "segment")
  /\ last = (IF posts = <<>> THEN NULL ELSE Len(posts))

(* What an element's text says.                                             *)
Word(text) ==
  LET solid == InOrder({n \in 1 .. Len(text) : text[n] \notin Blank}, Len(text))
  IN [n \in DOMAIN solid |-> text[solid[n]]]

(* However expat cuts the text, the message id of a segment and the name of *)
(* a group are the element's text without the blanks around it              *)
(* (element_data, "might be called with only a chunk of data").             *)
NamesWhole ==
  open \in {"nzb", "file"} =>
    \A p \in 1 .. Len(posts) :
      /\ \A n \in DOMAIN posts[p].made :
           posts[p].made[n].messageid = Word(document[p].segments[n].text)
      /\ \A n \in DOMAIN posts[p].groups :
           posts[p].groups[n] = Word(document[p].groups[n])

(* If the segments of a file lie in one region of 4 GB, sorting loses none  *)
(* of them and orders them by number, equal numbers included; if they do    *)
(* not, swap makes pointers of the halves of two others.  Every segment has *)
(* a status of its own in any case (post_segments_sort, segment->index).    *)
SegmentsSorted ==
  \A p \in 1 .. Len(posts) :
    LET post == posts[p]
    IN /\ {post.made[n].index : n \in DOMAIN post.made} = DOMAIN post.status
       /\ OneRegion(post) =>
            /\ {post.segments[n] : n \in DOMAIN post.segments} = DOMAIN post.made
            /\ p < Len(posts) \/ open = "nzb" =>
                 \A m, n \in DOMAIN post.segments :
                   m < n => post.made[post.segments[m]].number <= post.made[post.segments[n]].number

\* name is what stands in s between its last two characters c.
BetweenLast(c, s, name) ==
  /\ c \notin {name[m] : m \in DOMAIN name}
  /\ \E before \in 0 .. Len(s), after \in 1 .. Len(s) + 1 :
       /\ s = SubSeq(s, 1, before) \o <<c>> \o name \o <<c>> \o SubSeq(s, after, Len(s))
       /\ \A m \in after .. Len(s) : s[m] # c

(* A document that was read to its end gives the client its files in the    *)
(* order of the document, each under the name that stands between the last  *)
(* two double quotes of its subject or, without these, between the last two *)
(* single ones: no quote in it, and only other text behind it.  A subject   *)
(* with one quote, or with none, is not spoken of                           *)
(* (parse_nzb, find_filename's first two layouts, nzb_fetch_list_files).    *)
FilesAsWritten ==
  phase = "listed" /\ first # NULL =>
    /\ Len(files) = Len(document)
    /\ \A n \in DOMAIN files :
         LET s == document[n].subject
         IN /\ Cardinality(Occurrences("\"", s)) > 1 => BetweenLast("\"", s, files[n])
            /\ Occurrences("\"", s) = {} /\ Cardinality(Occurrences("'", s)) > 1 =>
                 BetweenLast("'", s, files[n])

=============================================================================
