----------------------------- MODULE PointerSort -----------------------------
(***************************************************************************)
(* The quicksort of server.c (server_sort), which post.c repeats for the    *)
(* segments of a post (post_segments_sort), and the swap both use.  It      *)
(* sorts an array of pointers by a key of what they point at.  A pointer is *)
(* a pair, the upper and the lower 32 bits: swap exchanges ints.            *)
(***************************************************************************)
EXTENDS Integers, Sequences

Swap(arr, m, n) ==
  [arr EXCEPT ![m].low = arr[n].low, ![n].low = arr[m].low]

\* One turn of the inner loop, which ends when l and r meet.
Narrow(key, piv, s) ==
  IF s.l >= s.r THEN s
  ELSE IF key[s.arr[s.l]] <= piv THEN [s EXCEPT !.l = s.l + 1]
  ELSE [s EXCEPT !.arr = Swap(s.arr, s.l, s.r - 1), !.r = s.r - 1]

(* The inner loop for the part of arr from beg up to but excluding end.     *)
Partition(key, arr, beg, end) ==
  LET loop[n \in 0 .. end - beg] ==
        IF n = 0 THEN [arr |-> arr, l |-> beg + 1, r |-> end]
        ELSE Narrow(key, key[arr[beg]], loop[n-1])
  IN loop[end - beg]

\* Up to the two calls: the pivot goes to l, the parts to its two sides.
Split(key, arr, beg, end) ==
  LET part == Partition(key, arr, beg, end)
  IN [arr |-> Swap(part.arr, part.l - 1, beg), l |-> part.l - 1, r |-> part.r]

(* The part of arr from beg up to but excluding end, sorted.  No call goes  *)
(* deeper than the length of that part.                                     *)
SortRange(key, arr, beg, end) ==
  LET Call == [arr : [DOMAIN arr -> DOMAIN key],
               beg : 1 .. Len(arr) + 1, end : 1 .. Len(arr) + 1]
      sort[depth \in 0 .. end - beg] ==
        [c \in Call |->
           IF depth = 0 \/ c.end <= c.beg + 1 THEN c.arr
           ELSE LET split == Split(key, c.arr, c.beg, c.end)
                    left == sort[depth-1][[arr |-> split.arr, beg |-> c.beg, end |-> split.l]]
                IN sort[depth-1][[arr |-> left, beg |-> split.r, end |-> c.end]]]
  IN sort[end - beg][[arr |-> arr, beg |-> beg, end |-> end]]

=============================================================================
