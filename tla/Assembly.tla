------------------------------- MODULE Assembly -------------------------------
(***************************************************************************)
(* From an NZB file to the file on disk: the posts that NzbParser built,    *)
(* the verdict and the chunk file of every segment (process.c, segment.c),  *)
(* and file_combine.  How segments travel between the threads is the        *)
(* subject of Download; here they get their verdicts in any order.          *)
(*                                                                          *)
(* posts is what parse_nzb made, but for the verdicts; post->filename and   *)
(* segment->number, which decoding an article changes, stand on their own.  *)
(***************************************************************************)
EXTENDS NzbParser

CONSTANTS
  ArticleName,  \* the file names that yEnc headers give
  ArticlePart   \* and their parts

ASSUME ArticleAssumption == ArticleName \subseteq Seq(STRING) /\ ArticlePart \subseteq Int

\* A keyword the =ybegin line lacks, or an article without that line, is NULL.
Header == [name : ArticleName \cup {NULL}, part : ArticlePart \cup {NULL}]

VARIABLES
  filenames,  \* post->filename of every post
  numbers,    \* segment->number of every segment
  chunks,     \* the chunk files: name of the file and number, whose data, all of it?
  lost,       \* segments whose chunk could not be written
  combined,   \* for each post what file_combine returned and wrote
  written     \* history: under what name file_write_chunk stored a segment, or NULL

chunkVars == <<filenames, numbers, chunks, lost, combined, written>>
assemblyVars == <<parserVars, chunkVars>>

NotCombined == [result |-> NULL, content |-> <<>>]

Init ==
  /\ ParserInit
  /\ filenames = <<>> /\ numbers = <<>> /\ written = <<>>
  /\ chunks = {} /\ lost = {} /\ combined = <<>>

Parse ==
  /\ ParserNext
  /\ filenames' = [p \in 1 .. Len(posts') |-> posts'[p].filename]
  /\ numbers' = [p \in 1 .. Len(posts') |->
                  [n \in DOMAIN posts'[p].made |-> posts'[p].made[n].number]]
  /\ written' = [p \in 1 .. Len(posts') |-> [n \in DOMAIN posts'[p].made |-> NULL]]
  /\ combined' = [p \in 1 .. Len(posts') |-> NotCombined]
  /\ UNCHANGED <<chunks, lost>>

-----------------------------------------------------------------------------
\* A wrong file_combine, which goes on after a missing chunk.
CombineSkippingMissing(p) ==
  [result |-> 0,
   content |-> SelectSeq([i \in DOMAIN posts[p].segments |->
                            [name |-> written[p][posts[p].segments[i]],
                             of |-> <<p, posts[p].segments[i]>>, whole |-> TRUE]],
                         LAMBDA c : c \in chunks)]

\* A wrong ReadHeader, which forgets a part that the header does not tell.
ReadHeaderOnly(p, n, header) ==
  /\ filenames' = [filenames EXCEPT ![p] = IF header.name = NULL THEN @ ELSE header.name]
  /\ numbers' = [numbers EXCEPT ![p][n] = header.part]

\* The slot of segments_status that segment_status_set writes.
StatusSlot(p, n) == posts[p].made[n].index

\* What the chunk file of a segment is called.
ChunkName(p, n) == <<filenames[p], numbers[p][n]>>

\* file_chunk_exists answers no before it looks, so that every segment is
\* downloaded, also one whose chunk is on disk.
FileChunkExists(p, n) == FALSE

\* yenc_parse_ybegin: the header's name and part replace those of the NZB file.
ReadHeader(p, n, header) ==
  /\ filenames' = [filenames EXCEPT ![p] = IF header.name = NULL THEN @ ELSE header.name]
  /\ numbers' = [numbers EXCEPT ![p][n] = IF header.part = NULL THEN @ ELSE header.part]

\* file_write_chunk, after the header has been read: the chunk replaces one of
\* the same name.  Nobody looks whether all of it was written; a file that
\* cannot be opened is reported and otherwise ignored.
FileWriteChunk(p, n) ==
  /\ written' = [written EXCEPT ![p][n] = ChunkName(p, n)']
  /\ \/ \E whole \in BOOLEAN :
          /\ chunks' = {c \in chunks : c.name # ChunkName(p, n)'} \cup
                         {[name |-> ChunkName(p, n)', of |-> <<p, n>>, whole |-> whole]}
          /\ UNCHANGED lost
     \/ /\ lost' = lost \cup {<<p, n>>}
        /\ UNCHANGED chunks

\* file_combine: the chunks in the order of the array; those whose slot says
\* ERROR are skipped, the first one that is missing ends the work.
FileCombine(p) ==
  LET post == posts[p]
      Copied(i) == post.status[i] # "ERROR"
      ChunkAt(i) == {c \in chunks : c.name = ChunkName(p, post.segments[i])}
      missing == {i \in DOMAIN post.segments : Copied(i) /\ ChunkAt(i) = {}}
      end == IF missing = {} THEN Len(post.segments) ELSE Smallest(missing) - 1
      copied == InOrder({i \in 1 .. end : Copied(i)}, end)
  IN [result |-> IF missing = {} THEN 0 ELSE -1,
      content |-> [i \in DOMAIN copied |-> CHOOSE c \in ChunkAt(copied[i]) : TRUE]]

Status(p, n, verdict) ==
  posts' = [posts EXCEPT ![p].status[StatusSlot(p, n)] = verdict]

\* nzb_fetch_download has walked the array to the segment's pointer.
Reached(p, n) ==
  \E i \in DOMAIN posts[p].segments :
    /\ posts[p].segments[i] = n
    /\ \A j \in 1 .. i : posts[p].segments[j] # Wild

Pending(p, n) ==
  /\ phase = "listed" /\ p \in {Linked[k] : k \in DOMAIN Linked}
  /\ Reached(p, n)
  /\ posts[p].status[posts[p].made[n].index] = "NEW"
  /\ ~FileChunkExists(p, n)

\* No server has the segment, or it cannot be decoded, which leaves what its
\* header says in place.
Fail(p, n, header) ==
  /\ Pending(p, n)
  /\ ReadHeader(p, n, header)
  /\ Status(p, n, "ERROR")
  /\ UNCHANGED <<phase, archiveVars, files, open, rest, document, chunks, lost, combined, written>>

\* Decoded.  The last verdict combines the post.
Complete(p, n, header) ==
  /\ Pending(p, n)
  /\ ReadHeader(p, n, header)
  /\ Status(p, n, "COMPLETE")
  /\ FileWriteChunk(p, n)
  /\ combined' = [combined EXCEPT ![p] =
                    IF \A i \in DOMAIN posts'[p].status : posts'[p].status[i] # "NEW"
                    THEN FileCombine(p)' ELSE @]
  /\ UNCHANGED <<phase, archiveVars, files, open, rest, document>>

\* nzb_fetch_download walks into a pointer that leads to no segment.
DownloadWild(p) ==
  /\ phase = "listed" /\ p \in {Linked[k] : k \in DOMAIN Linked}
  /\ Wild \in {posts[p].segments[i] : i \in DOMAIN posts[p].segments}
  /\ phase' = "crashed"
  /\ UNCHANGED <<posts, archiveVars, files, open, rest, document, chunkVars>>

Next ==
  \/ Parse
  \/ \E p \in DOMAIN posts :
       \/ \E n \in DOMAIN posts[p].made, h \in Header : Fail(p, n, h) \/ Complete(p, n, h)
       \/ DownloadWild(p)

Spec == Init /\ [][Next]_assemblyVars

-----------------------------------------------------------------------------
\* The numbers of a file ascend in the document.
Ascending(p) ==
  \A m, n \in DOMAIN posts[p].made :
    m < n => posts[p].made[m].number < posts[p].made[n].number

Decoded(p) == {n \in DOMAIN posts[p].made : posts[p].status[n] = "COMPLETE"}

\* No two segments were stored under one name.
ChunksDiffer ==
  \A p, q \in DOMAIN posts : \A m \in Decoded(p), n \in Decoded(q) :
    written[p][m] = written[q][n] => p = q /\ m = n

\* What was stored is still called what it was called then.
NamesAgree(p) == \A n \in Decoded(p) : written[p][n] = ChunkName(p, n)

TypeOK ==
  /\ ParserTypeOK
  /\ \A p \in DOMAIN posts : \A n \in DOMAIN posts[p].status :
       posts[p].status[n] \in {"NEW", "ERROR", "COMPLETE"}
  /\ \A p \in DOMAIN posts : numbers[p] \in [DOMAIN posts[p].made -> Int]

(* If the NZB file lists the segments in order, they lie in one region of   *)
(* 4 GB, and the yEnc headers give a post one name and no part twice, the   *)
(* combined file is the decoded segments in order, without the failed ones  *)
(* and up to the first one that was not stored, and file_combine returns -1 *)
(* exactly if there is such a one.  The name and the parts need not be      *)
(* those of the NZB file                                                    *)
(* (process_data_queue, file_combine, segment_status_set).                  *)
CombinedInOrder ==
  \A p \in DOMAIN combined :
    combined[p] # NotCombined /\ OneRegion(posts[p]) /\ Ascending(p)
      /\ ChunksDiffer /\ NamesAgree(p) =>
      LET gaps == {n \in Decoded(p) : <<p, n>> \in lost}
          expected == {n \in Decoded(p) : \A g \in gaps : n < g}
          content == combined[p].content
      IN /\ combined[p].result = IF gaps = {} THEN 0 ELSE -1
         /\ {content[i].of : i \in DOMAIN content} = {<<p, n>> : n \in expected}
         /\ \A i, j \in DOMAIN content : i < j => content[i].of[2] < content[j].of[2]

=============================================================================
