----------------------------- MODULE MCDownload -----------------------------
(* Instances of Download: servers a and b with one connection each, b       *)
(* behind a or beside it, and two or three segments in one or two posts.    *)
EXTENDS Download

CONSTANTS a, b, a1, b1, p1, p2, f1, f2

\* Server b is a fill server: segments go to it when a has failed.
FillThread == {Client, Processor, a1, b1}
FillReader == {Processor, a1, b1}
FillServerOf == [t \in {a1, b1} |-> IF t = b1 THEN b ELSE a]
FillPriority == [s \in {a, b} |-> IF s = b THEN 1 ELSE 0]
FillQueue == {0, 1, DataQ}
FillHome == [t \in FillReader |-> IF t = Processor THEN DataQ
                                  ELSE FillPriority[FillServerOf[t]]]

\* Two servers with the same priority, as in example/main.c.
PeerPriority == [s \in {a, b} |-> 0]
PeerQueue == {0, DataQ}
PeerHome == [t \in FillReader |-> IF t = Processor THEN DataQ ELSE 0]

MCServerList == <<a, b>>
TwoItems == 1 .. 2
ThreeItems == 1 .. 3
OnePost == [i \in 1 .. 2 |-> p1]
LongPost == [i \in 1 .. 3 |-> p1]
TwoPosts == [i \in 1 .. 3 |-> IF i = 3 THEN p2 ELSE p1]
OneFile == [p \in {p1, p2} |-> f1]
TwoFiles == [p \in {p1, p2} |-> IF p = p1 THEN f1 ELSE f2]

=============================================================================
