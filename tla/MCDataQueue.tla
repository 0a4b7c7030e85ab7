----------------------------- MODULE MCDataQueue -----------------------------
(* Instance of DataQueue: two connection threads, four items.               *)
EXTENDS DataQueue

CONSTANTS c1, c2

MCThread == {c1, c2, Processor}
MCReader == {Processor}
MCQueue == {DataQ}
MCHome == [t \in {Processor} |-> DataQ]

=============================================================================
