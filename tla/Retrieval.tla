------------------------------ MODULE Retrieval ------------------------------
(***************************************************************************)
(* What a connection thread promises to the rest of the downloader: it asks *)
(* for one segment at a time, and every segment it asks for ends once and   *)
(* for all with its own article or with an error.                           *)
(***************************************************************************)
CONSTANTS Segment,    \* the segments on the thread's queue
          NoSegment   \* no request is under way

VARIABLES current,  \* the segment asked for
          outcome   \* what became of each segment

retrievalVars == <<current, outcome>>

Init ==
  /\ current = NoSegment
  /\ outcome = [s \in Segment |-> "wanted"]

Request(s) ==
  /\ current = NoSegment
  /\ outcome[s] = "wanted"
  /\ current' = s
  /\ UNCHANGED outcome

Answer(how) ==
  /\ current # NoSegment
  /\ outcome' = [outcome EXCEPT ![current] = how]
  /\ current' = NoSegment

Next ==
  \/ \E s \in Segment : Request(s)
  \/ \E how \in {"article", "error"} : Answer(how)

Spec == Init /\ [][Next]_retrievalVars

=============================================================================
