-------------------------------- MODULE Posts --------------------------------
(***************************************************************************)
(* What the fetcher promises about a post (one file of the NZB): every      *)
(* segment leaves the status NEW once and for all, and the client is told   *)
(* that the file is complete at most once, after the last segment has.      *)
(***************************************************************************)
EXTENDS Naturals, Sequences

CONSTANTS Item,    \* the segments
          Post,    \* the posts
          PostOf   \* the post each segment belongs to

VARIABLES status,   \* segment_t.status of each segment
          reported  \* the posts for which the client has been called back, in order

postVars == <<status, reported>>

SegmentsOf(p) == {i \in Item : PostOf[i] = p}

Init ==
  /\ status = [i \in Item |-> "NEW"]
  /\ reported = <<>>

Resolve(i, outcome) ==
  /\ status[i] = "NEW"
  /\ status' = [status EXCEPT ![i] = outcome]
  /\ UNCHANGED reported

Report(p) ==
  /\ \A n \in 1 .. Len(reported) : reported[n] # p
  /\ \A i \in SegmentsOf(p) : status[i] # "NEW"
  /\ \E i \in SegmentsOf(p) : status[i] = "COMPLETE"
  /\ reported' = Append(reported, p)
  /\ UNCHANGED status

Next ==
  \/ \E i \in Item, outcome \in {"COMPLETE", "ERROR"} : Resolve(i, outcome)
  \/ \E p \in Post : Report(p)

Spec == Init /\ [][Next]_postVars

=============================================================================
