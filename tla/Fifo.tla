-------------------------------- MODULE Fifo --------------------------------
(***************************************************************************)
(* What the data queue promises its users: the reader receives the items    *)
(* that were sent, each once, in the order in which they were sent.         *)
(***************************************************************************)
EXTENDS Naturals, Sequences

CONSTANT Item

VARIABLES sent, received

fifoVars == <<sent, received>>

Init == sent = <<>> /\ received = <<>>

Put(i) ==
  /\ \A n \in 1 .. Len(sent) : sent[n] # i
  /\ sent' = Append(sent, i)
  /\ UNCHANGED received

Get ==
  /\ Len(received) < Len(sent)
  /\ received' = Append(received, sent[Len(received) + 1])
  /\ UNCHANGED sent

Next == Get \/ \E i \in Item : Put(i)

Spec == Init /\ [][Next]_fifoVars

=============================================================================
