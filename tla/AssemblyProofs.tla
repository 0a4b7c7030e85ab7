---------------------------- MODULE AssemblyProofs ----------------------------
(***************************************************************************)
(* What parse_nzb makes of any document, and file_combine of any number of  *)
(* segments.                                                                *)
(***************************************************************************)
EXTENDS Assembly, PointerSortProofs, SequenceTheorems

Verdict == {"NEW", "ERROR", "COMPLETE"}

Made == [number : Number, index : Nat, high : AddressHigh, messageid : Seq(STRING)]

PostType ==
  [filename : {FindFilename(s) : s \in Subject}, groups : Seq(Seq(STRING)),
   segments : Seq(Nat), made : Seq(Made), status : Seq(Verdict), next : Nat \cup {NULL}]

\* Every one of k segments once.
Permuted(segs, k) ==
  /\ segs \in [1 .. k -> 1 .. k]
  /\ \A i, j \in 1 .. k : segs[i] = segs[j] => i = j
  /\ \A n \in 1 .. k : \E i \in 1 .. k : segs[i] = n

(* Each segment of a post has a status of its own; and the array has every  *)
(* segment once, if they lie in one region.                                 *)
Shaped(post) ==
  \E k \in Nat :
    /\ post.made \in [1 .. k -> Made]
    /\ post.status \in [1 .. k -> Verdict]
    /\ post.segments \in [1 .. k -> 0 .. k]
    /\ OneRegion(post) => Permuted(post.segments, k)
    /\ \A n \in 1 .. k : post.made[n].index = n

ByNumber(post) ==
  OneRegion(post) =>
    \A m, n \in DOMAIN post.segments :
      m < n => post.made[post.segments[m]].number <= post.made[post.segments[n]].number

\* q is the post as before, but for its segments and groups.
Kept(post, q) ==
  /\ q \in PostType /\ Shaped(q)
  /\ q.next = post.next /\ q.filename = post.filename

-----------------------------------------------------------------------------
(* post_segments_sort.                                                      *)
Address(made, D) == [n \in D |-> [high |-> made[n].high, low |-> n]]
Addresses(made, D) == [high : {made[n].high : n \in D}, low : D]

\* The numbers at the addresses, the pointers, and the segments they lead to.
NumberAt(made, D, wild) ==
  [p \in Addresses(made, D) |->
     IF p = Address(made, D)[p.low] THEN made[p.low].number ELSE wild]
PointersTo(made, segs, D, E) == [n \in E |-> Address(made, D)[segs[n]]]
Pointed(sorted, address, D, E) ==
  [n \in E |-> IF \E m \in D : sorted[n] = address[m]
                THEN CHOOSE m \in D : sorted[n] = address[m] ELSE Wild]
SortPointed(made, segs, D, E, len, wild) ==
  Pointed(SortRange(NumberAt(made, D, wild), PointersTo(made, segs, D, E), 1, len + 1),
          Address(made, D), D, E)
SegmentsSort(made, segs, k, wild) == SortPointed(made, segs, 1 .. k, 1 .. k, k, wild)

(* Segments in one region share the upper half, whatever it is.             *)
LEMMA AddressesShare ==
  ASSUME NEW k \in Nat, NEW made, \A m, n \in 1 .. k : made[m].high = made[n].high
  PROVE  /\ OneHigh(Addresses(made, 1 .. k))
         /\ \A n \in 1 .. k : /\ Address(made, 1 .. k)[n] \in Addresses(made, 1 .. k)
                             /\ Address(made, 1 .. k)[n].low = n
         /\ \A p \in Addresses(made, 1 .. k) : p.low \in 1 .. k /\ p = Address(made, 1 .. k)[p.low]
<1> DEFINE H == {made[n].high : n \in 1 .. k}
           P == Addresses(made, 1 .. k)
<1>1. P = [high : H, low : 1 .. k]
  BY DEF Addresses
<1>2. ASSUME NEW n \in 1 .. k
      PROVE  Address(made, 1 .. k)[n] \in P /\ Address(made, 1 .. k)[n].low = n
  <2>1. PICK high : high = made[n].high
    OBVIOUS
  <2>2. Address(made, 1 .. k)[n] = [high |-> high, low |-> n] /\ high \in H
    BY <2>1 DEF Address
  <2> HIDE DEF H, P
  <2>3. QED
    BY <1>1, <2>2
<1>3. ASSUME NEW p \in P
      PROVE  p.low \in 1 .. k /\ p = Address(made, 1 .. k)[p.low]
  <2> HIDE DEF H, P
  <2>1. p.high \in H /\ p.low \in 1 .. k /\ p = [high |-> p.high, low |-> p.low]
    BY <1>1
  <2>2. PICK n \in 1 .. k : p.high = made[n].high
    BY <2>1 DEF H
  <2>3. p.high = made[p.low].high
    BY <2>1, <2>2
  <2>4. Address(made, 1 .. k)[p.low] = [high |-> made[p.low].high, low |-> p.low]
    BY <2>1 DEF Address
  <2>5. QED
    BY <2>1, <2>3, <2>4, Zenon
<1>4. OneHigh(P)
  <2>1. CASE k = 0
    <3>1. 1 .. k = {}
      BY <2>1
    <3>2. P = [high : {0}, low : {}]
      BY <1>1, <3>1
    <3>3. QED
      BY <3>2, Zenon DEF OneHigh
  <2>2. CASE k # 0
    <3>1. 1 \in 1 .. k
      BY <2>2
    <3>2. H = {made[1].high}
      BY <3>1
    <3>3. QED
      BY <1>1, <3>2, Zenon DEF OneHigh
  <2>3. QED
    BY <2>1, <2>2
<1>5. QED
  BY <1>2, <1>3, <1>4

LEMMA SegmentsPermuted ==
  ASSUME NEW k \in Nat, NEW made \in [1 .. k -> Made], NEW segs, Permuted(segs, k),
         NEW wild \in Int, \A m, n \in 1 .. k : made[m].high = made[n].high,
         NEW seg, seg = SegmentsSort(made, segs, k, wild)
  PROVE  /\ Permuted(seg, k)
         /\ \A m, n \in 1 .. k : m < n => made[seg[m]].number <= made[seg[n]].number
<1>0. PICK P, address : P = Addresses(made, 1 .. k) /\ address = Address(made, 1 .. k)
  OBVIOUS
<1>1. PICK key, arr, sorted :
        /\ key = NumberAt(made, 1 .. k, wild)
        /\ arr = [n \in 1 .. k |-> address[segs[n]]]
        /\ sorted = SortRange(key, arr, 1, k + 1)
        /\ seg = Pointed(sorted, address, 1 .. k, 1 .. k)
  BY <1>0, Zenon DEF SegmentsSort, SortPointed, PointersTo
<1>2. /\ segs \in [1 .. k -> 1 .. k]
      /\ \A i, j \in 1 .. k : segs[i] = segs[j] => i = j
      /\ \A n \in 1 .. k : \E i \in 1 .. k : segs[i] = n
  BY DEF Permuted
<1>3. /\ OneHigh(P)
      /\ \A n \in 1 .. k : address[n] \in P /\ address[n].low = n
      /\ \A p \in P : p.low \in 1 .. k /\ p = address[p.low]
  BY <1>0, AddressesShare
<1>4. key \in [P -> Int] /\ \A p \in P : key[p] = made[p.low].number
  <2>1. ASSUME NEW p \in P PROVE made[p.low].number \in Int
    <3>1. made[p.low] \in Made
      BY <1>3
    <3>2. QED
      BY <3>1, DocumentAssumption DEF Made
  <2>2. key = [p \in P |-> IF p = address[p.low] THEN made[p.low].number ELSE wild]
    BY <1>0, <1>1, Zenon DEF NumberAt
  <2>3. key = [p \in P |-> made[p.low].number]
    BY <1>3, <2>2
  <2>4. QED
    BY <2>1, <2>3
<1>5. arr \in [1 .. k -> P] /\ \A n \in 1 .. k : arr[n].low = segs[n]
  <2>1. \A n \in 1 .. k : segs[n] \in 1 .. k
    BY <1>2
  <2>2. QED
    BY <1>1, <1>3, <2>1
<1>6. Rearranged(arr, sorted, k, 1, k + 1) /\ Ordered(key, sorted, 1, k + 1)
  <2>1. 1 \in 1 .. k + 1 /\ k + 1 \in 1 .. k + 1
    OBVIOUS
  <2>2. QED
    BY <1>1, <1>3, <1>4, <1>5, <2>1, SortRangeSorts, Zenon
<1>7. PICK p : Moves(p, k, 1, k + 1) /\ sorted = [i \in 1 .. k |-> arr[p[i]]]
  BY <1>6 DEF Rearranged
<1>8. /\ p \in [1 .. k -> 1 .. k]
      /\ \A i, j \in 1 .. k : p[i] = p[j] => i = j
      /\ \A j \in 1 .. k : \E i \in 1 .. k : p[i] = j
  BY <1>7 DEF Moves, Bijection, Injection, Surjection, IsInjective
<1>9. \A i \in 1 .. k : sorted[i] \in P /\ sorted[i].low = segs[p[i]] /\ seg[i] = segs[p[i]]
  <2> TAKE i \in 1 .. k
  <2>1. p[i] \in 1 .. k /\ sorted[i] = arr[p[i]]
    BY <1>7, <1>8
  <2>2. sorted[i] \in P /\ sorted[i].low = segs[p[i]]
    BY <1>5, <2>1
  <2>3. \E m \in 1 .. k : sorted[i] = address[m]
    BY <1>3, <2>2
  <2>4. seg[i] = CHOOSE m \in 1 .. k : sorted[i] = address[m]
    BY <1>1, <2>3 DEF Pointed
  <2>5. seg[i] \in 1 .. k /\ sorted[i] = address[seg[i]]
    BY <2>3, <2>4
  <2>6. QED
    BY <1>3, <2>2, <2>5
<1>10. seg \in [1 .. k -> 1 .. k]
  <2>1. ASSUME NEW i \in 1 .. k PROVE seg[i] \in 1 .. k
    <3>1. PICK j : j \in 1 .. k /\ seg[i] = segs[j]
      BY <1>8, <1>9
    <3>2. segs \in [1 .. k -> 1 .. k]
      BY <1>2
    <3>3. QED
      BY <3>1, <3>2
  <2>2. seg = [i \in 1 .. k |-> seg[i]]
    BY <1>1 DEF Pointed
  <2>3. QED
    BY <2>1, <2>2
<1>11. ASSUME NEW i \in 1 .. k, NEW j \in 1 .. k, seg[i] = seg[j] PROVE i = j
  <2>1. segs[p[i]] = segs[p[j]] /\ p[i] \in 1 .. k /\ p[j] \in 1 .. k
    BY <1>8, <1>9, <1>11
  <2>2. p[i] = p[j]
    BY <1>2, <2>1
  <2>3. QED
    BY <1>8, <2>2
<1>12. \A n \in 1 .. k : \E i \in 1 .. k : seg[i] = n
  <2> TAKE n \in 1 .. k
  <2>1. PICK j \in 1 .. k : segs[j] = n
    BY <1>2
  <2>2. PICK i \in 1 .. k : p[i] = j
    BY <1>8
  <2>3. QED
    BY <1>9, <2>1, <2>2
<1>13. ASSUME NEW m \in 1 .. k, NEW n \in 1 .. k, m < n
       PROVE  made[seg[m]].number <= made[seg[n]].number
  <2>1. key[sorted[m]] <= key[sorted[n]]
    <3>1. m \in 1 .. (k + 1) - 1 /\ n \in 1 .. (k + 1) - 1
      OBVIOUS
    <3>2. QED
      BY <1>6, <1>13, <3>1 DEF Ordered
  <2>2. \A i \in 1 .. k : key[sorted[i]] = made[seg[i]].number
    BY <1>4, <1>9
  <2>3. QED
    BY <2>1, <2>2
<1>14. QED
  BY <1>10, <1>11, <1>12, <1>13 DEF Permuted

(* Wherever the segments lie, what results are segments or wild pointers.   *)
LEMMA SegmentsPointed ==
  ASSUME NEW k \in Nat, NEW made, NEW segs, NEW wild
  PROVE  SegmentsSort(made, segs, k, wild) \in [1 .. k -> 0 .. k]
<1>1. PICK sorted, address : SegmentsSort(made, segs, k, wild) = Pointed(sorted, address, 1 .. k, 1 .. k)
  BY Zenon DEF SegmentsSort, SortPointed
<1>2. ASSUME NEW n \in 1 .. k
      PROVE  (IF \E m \in 1 .. k : sorted[n] = address[m]
              THEN CHOOSE m \in 1 .. k : sorted[n] = address[m] ELSE Wild) \in 0 .. k
  <2>1. CASE \E m \in 1 .. k : sorted[n] = address[m]
    <3>1. (CHOOSE m \in 1 .. k : sorted[n] = address[m]) \in 1 .. k
      BY <2>1
    <3>2. QED
      BY <2>1, <3>1
  <2>2. CASE ~ \E m \in 1 .. k : sorted[n] = address[m]
    BY <2>2 DEF Wild
  <2>3. QED
    BY <2>1, <2>2
<1>3. QED
  BY <1>1, <1>2 DEF Pointed

LEMMA PostSorted ==
  ASSUME NEW post, post \in PostType, Shaped(post), NEW wild \in Int,
         NEW r, r = [post EXCEPT !.segments = PostSegmentsSort(post, wild)]
  PROVE  Kept(post, r) /\ ByNumber(r)
<1>1. PICK k \in Nat :
        /\ post.made \in [1 .. k -> Made]
        /\ post.status \in [1 .. k -> Verdict]
        /\ post.segments \in [1 .. k -> 0 .. k]
        /\ OneRegion(post) => Permuted(post.segments, k)
        /\ \A n \in 1 .. k : post.made[n].index = n
  BY DEF Shaped
<1>2. PICK made, segs : made = post.made /\ segs = post.segments
  OBVIOUS
<1>3. DOMAIN made = 1 .. k /\ DOMAIN segs = 1 .. k /\ Len(segs) = k
  BY <1>1, <1>2
<1>4. PostSegmentsSort(post, wild) = SegmentsSort(made, segs, k, wild)
  <2>1. PostSegmentsSort(post, wild)
          = SortPointed(post.made, post.segments, DOMAIN post.made, DOMAIN post.segments,
                        Len(post.segments), wild)
    BY Zenon DEF PostSegmentsSort, SortPointed, Pointed, NumberAt, PointersTo, Address, Addresses
  <2>2. QED
    BY <1>2, <1>3, <2>1, Zenon DEF SegmentsSort
<1>5. PICK seg : seg = SegmentsSort(made, segs, k, wild)
  OBVIOUS
<1>6. seg \in [1 .. k -> 0 .. k] /\ seg \in Seq(Nat)
  <2>1. seg \in [1 .. k -> 0 .. k]
    BY <1>5, SegmentsPointed
  <2>2. QED
    BY <2>1
<1>7. r = [post EXCEPT !.segments = seg]
  BY <1>4, <1>5
<1>8. r \in PostType /\ r.made = made /\ r.status = post.status /\ r.segments = seg
      /\ r.next = post.next /\ r.filename = post.filename
  BY <1>2, <1>6, <1>7 DEF PostType
<1>9. ASSUME OneRegion(r)
      PROVE  /\ Permuted(seg, k)
             /\ \A m, n \in 1 .. k : m < n => made[seg[m]].number <= made[seg[n]].number
  <2>1. \A m, n \in 1 .. k : made[m].high = made[n].high
    BY <1>3, <1>8, <1>9 DEF OneRegion
  <2>2. Permuted(segs, k)
    BY <1>1, <1>2, <1>8, <1>9 DEF OneRegion
  <2>3. made \in [1 .. k -> Made]
    BY <1>1, <1>2
  <2>4. QED
    BY <1>5, <2>1, <2>2, <2>3, SegmentsPermuted
<1>10. Shaped(r)
  BY <1>1, <1>2, <1>6, <1>8, <1>9 DEF Shaped
<1>11. ByNumber(r)
  BY <1>6, <1>8, <1>9 DEF ByNumber
<1>12. QED
  BY <1>8, <1>10, <1>11 DEF Kept

-----------------------------------------------------------------------------
(* What each handler makes of a post.                                       *)
LEMMA NullIsNoNumber == NULL \notin Int
BY DocumentAssumption

\* Where all segments lie in one region, some of them do.
LEMMA SameRegion ==
  ASSUME NEW post, NEW q, NEW D, NEW E, D \subseteq E, DOMAIN post.made = D, DOMAIN q.made = E,
         \A n \in D : q.made[n].high = post.made[n].high, OneRegion(q)
  PROVE  OneRegion(post)
<1> SUFFICES ASSUME NEW m \in D, NEW n \in D PROVE post.made[m].high = post.made[n].high
  BY DEF OneRegion
<1>1. m \in DOMAIN q.made /\ n \in DOMAIN q.made
  OBVIOUS
<1>2. q.made[m].high = q.made[n].high
  BY <1>1, Zenon DEF OneRegion
<1>3. QED
  BY <1>2

LEMMA SameSegments ==
  ASSUME NEW post, post \in PostType, Shaped(post), NEW q, q \in PostType,
         q.made = post.made, q.status = post.status, q.segments = post.segments
  PROVE  Shaped(q) /\ (ByNumber(post) => ByNumber(q))
BY DEF Shaped, ByNumber, OneRegion

LEMMA GroupsChanged ==
  ASSUME NEW post, post \in PostType, Shaped(post),
         NEW groups, groups \in Seq(Seq(STRING)),
         NEW q, q = [post EXCEPT !.groups = groups]
  PROVE  Kept(post, q)
<1>1. /\ q \in PostType /\ q.next = post.next /\ q.filename = post.filename
      /\ q.made = post.made /\ q.status = post.status /\ q.segments = post.segments
  BY DEF PostType
<1>2. QED
  BY <1>1, SameSegments DEF Kept

LEMMA SegmentAdded ==
  ASSUME NEW post, post \in PostType, Shaped(post), NEW number \in Number, NEW high \in AddressHigh,
         NEW n, n = Len(post.made) + 1,
         NEW q,
         q = [post EXCEPT
                !.made = Append(@, [number |-> number, index |-> n, high |-> high,
                                    messageid |-> <<>>]),
                !.segments = Append(@, n),
                !.status = Append(@, "NEW")]
  PROVE  Kept(post, q) /\ n \in DOMAIN q.made
<1>1. PICK k \in Nat :
        /\ post.made \in [1 .. k -> Made]
        /\ post.status \in [1 .. k -> Verdict]
        /\ post.segments \in [1 .. k -> 0 .. k]
        /\ OneRegion(post) => Permuted(post.segments, k)
        /\ \A m \in 1 .. k : post.made[m].index = m
  BY DEF Shaped
<1> DEFINE seg == [number |-> number, index |-> n, high |-> high, messageid |-> <<>>]
<1>2. PICK made, segs, status :
        made = Append(post.made, seg) /\ segs = Append(post.segments, n)
        /\ status = Append(post.status, "NEW")
  OBVIOUS
<1>3. Len(post.made) = k /\ n = k + 1
  BY <1>1
<1>4. seg \in Made /\ seg.index = n
  BY <1>1, <1>3 DEF Made
<1> HIDE DEF seg
<1>5. /\ post.made \in Seq(Made) /\ post.segments \in Seq(Nat) /\ post.status \in Seq(Verdict)
      /\ Len(post.segments) = k /\ Len(post.status) = k
  BY <1>1 DEF PostType
<1>6. /\ made \in Seq(Made) /\ Len(made) = n /\ made[n] = seg
      /\ \A m \in 1 .. k : made[m] = post.made[m]
  BY <1>2, <1>3, <1>4, <1>5, AppendProperties
<1>7. /\ segs \in Seq(Nat) /\ Len(segs) = n /\ segs[n] = n
      /\ \A m \in 1 .. k : segs[m] = post.segments[m]
  <2>1. n \in Nat
    BY <1>3
  <2>2. QED
    BY <1>2, <1>3, <1>5, <2>1, AppendProperties
<1>8. status \in Seq(Verdict) /\ Len(status) = n
  <2>1. "NEW" \in Verdict
    BY DEF Verdict
  <2>2. QED
    BY <1>2, <1>3, <1>5, <2>1, AppendProperties
<1>9. \A m \in 1 .. n : m \in 1 .. k \/ m = n
  BY <1>3
<1>10. segs \in [1 .. n -> 0 .. n]
  <2>1. \A m \in 1 .. n : segs[m] \in 0 .. n
    BY <1>1, <1>3, <1>7, <1>9
  <2>2. segs = [m \in 1 .. n |-> segs[m]]
    BY <1>7
  <2>3. QED
    BY <2>1, <2>2
<1>11. q = [post EXCEPT !.made = made, !.segments = segs, !.status = status]
  BY <1>2 DEF seg
<1>12. /\ q \in PostType /\ q.next = post.next /\ q.filename = post.filename
       /\ q.made = made /\ q.segments = segs /\ q.status = status
  BY <1>6, <1>7, <1>8, <1>11 DEF PostType
<1>13. ASSUME OneRegion(q) PROVE Permuted(segs, n)
  <2>1. OneRegion(post)
    <3>1. DOMAIN post.made = 1 .. k /\ DOMAIN q.made = 1 .. n
      BY <1>1, <1>6, <1>12
    <3>2. 1 .. k \subseteq 1 .. n /\ \A m \in 1 .. k : q.made[m].high = post.made[m].high
      BY <1>3, <1>6, <1>12
    <3>3. QED
      BY <1>13, <3>1, <3>2, SameRegion, Zenon
  <2>2. post.segments \in [1 .. k -> 1 .. k] /\ Permuted(post.segments, k)
    BY <1>1, <2>1 DEF Permuted
  <2>3. segs \in [1 .. n -> 1 .. n]
    <3>1. \A m \in 1 .. n : segs[m] \in 1 .. n
      BY <1>3, <1>7, <1>9, <2>2
    <3>2. segs = [m \in 1 .. n |-> segs[m]]
      BY <1>7
    <3>3. QED
      BY <3>1, <3>2
  <2>4. ASSUME NEW i \in 1 .. n, NEW j \in 1 .. n, segs[i] = segs[j] PROVE i = j
    <3>1. CASE i \in 1 .. k /\ j \in 1 .. k
      BY <1>7, <2>2, <2>4, <3>1 DEF Permuted
    <3>2. ASSUME NEW m \in 1 .. k PROVE segs[m] # n
      <4>1. segs[m] \in 1 .. k
        BY <1>7, <2>2
      <4>2. QED
        BY <1>3, <4>1
    <3>3. QED
      BY <1>7, <1>9, <2>4, <3>1, <3>2
  <2>5. ASSUME NEW m \in 1 .. n PROVE \E i \in 1 .. n : segs[i] = m
    <3>1. CASE m = n
      BY <1>7, <3>1
    <3>2. CASE m \in 1 .. k
      <4>1. PICK i \in 1 .. k : post.segments[i] = m
        BY <2>2, <3>2 DEF Permuted
      <4>2. QED
        BY <1>3, <1>7, <4>1
    <3>3. QED
      BY <1>9, <3>1, <3>2
  <2>6. QED
    BY <2>3, <2>4, <2>5 DEF Permuted
<1>14. Shaped(q)
  <2>1. made \in [1 .. n -> Made] /\ status \in [1 .. n -> Verdict] /\ n \in Nat
    BY <1>3, <1>6, <1>8
  <2>2. \A m \in 1 .. n : made[m].index = m
    BY <1>1, <1>4, <1>6, <1>9
  <2>3. QED
    BY <1>10, <1>12, <1>13, <2>1, <2>2 DEF Shaped
<1>15. n \in DOMAIN q.made
  BY <1>3, <1>6, <1>12
<1>16. QED
  BY <1>12, <1>14, <1>15 DEF Kept

LEMMA MessageIdExtended ==
  ASSUME NEW post, post \in PostType, Shaped(post), NEW m \in DOMAIN post.made,
         NEW id, id \in Seq(STRING),
         NEW q, q = [post EXCEPT !.made[m].messageid = id]
  PROVE  Kept(post, q) /\ DOMAIN q.made = DOMAIN post.made
<1>1. PICK k \in Nat :
        /\ post.made \in [1 .. k -> Made]
        /\ post.status \in [1 .. k -> Verdict]
        /\ post.segments \in [1 .. k -> 0 .. k]
        /\ OneRegion(post) => Permuted(post.segments, k)
        /\ \A n \in 1 .. k : post.made[n].index = n
  BY DEF Shaped
<1>2. PICK made : made = [post.made EXCEPT ![m] = [post.made[m] EXCEPT !.messageid = id]]
  OBVIOUS
<1>3. q = [post EXCEPT !.made = made]
  BY <1>2
<1>4. m \in 1 .. k /\ post.made[m] \in Made
  BY <1>1
<1>5. /\ [post.made[m] EXCEPT !.messageid = id] \in Made
      /\ [post.made[m] EXCEPT !.messageid = id].index = post.made[m].index
      /\ [post.made[m] EXCEPT !.messageid = id].high = post.made[m].high
  BY <1>4 DEF Made
<1>6. /\ made \in [1 .. k -> Made]
      /\ \A n \in 1 .. k : made[n].index = n /\ made[n].high = post.made[n].high
  BY <1>1, <1>2, <1>4, <1>5
<1>7. made \in Seq(Made)
  BY <1>6
<1>8. /\ q \in PostType /\ q.next = post.next /\ q.filename = post.filename
      /\ q.made = made /\ q.segments = post.segments /\ q.status = post.status
  BY <1>3, <1>7 DEF PostType
<1>9. Shaped(q)
  <2>1. OneRegion(q) => OneRegion(post)
    <3>1. DOMAIN post.made = 1 .. k /\ DOMAIN q.made = 1 .. k
      BY <1>1, <1>6, <1>8
    <3>2. \A n \in 1 .. k : q.made[n].high = post.made[n].high
      BY <1>6, <1>8
    <3>3. QED
      BY <3>1, <3>2, SameRegion
  <2>2. QED
    BY <1>1, <1>6, <1>8, <2>1 DEF Shaped
<1>10. QED
  BY <1>1, <1>6, <1>8, <1>9 DEF Kept

LEMMA StatusSet ==
  ASSUME NEW post, post \in PostType, Shaped(post), NEW m, NEW v \in Verdict,
         NEW q, q = [post EXCEPT !.status[m] = v]
  PROVE  /\ Kept(post, q) /\ (ByNumber(post) => ByNumber(q))
         /\ q.groups = post.groups /\ q.made = post.made
<1>1. PICK k \in Nat :
        /\ post.made \in [1 .. k -> Made]
        /\ post.status \in [1 .. k -> Verdict]
        /\ post.segments \in [1 .. k -> 0 .. k]
        /\ OneRegion(post) => Permuted(post.segments, k)
        /\ \A n \in 1 .. k : post.made[n].index = n
  BY DEF Shaped
<1>2. PICK status : status = [post.status EXCEPT ![m] = v]
  OBVIOUS
<1>3. q = [post EXCEPT !.status = status]
  BY <1>2
<1>4. status \in [1 .. k -> Verdict]
  BY <1>1, <1>2
<1>5. status \in Seq(Verdict)
  BY <1>4
<1>6. /\ q \in PostType /\ q.next = post.next /\ q.filename = post.filename
      /\ q.made = post.made /\ q.segments = post.segments /\ q.status = status
      /\ q.groups = post.groups
  BY <1>3, <1>5 DEF PostType
<1>7. Shaped(q)
  <2>1. OneRegion(q) => OneRegion(post)
    BY <1>6 DEF OneRegion
  <2>2. QED
    BY <1>1, <1>4, <1>6, <2>1 DEF Shaped
<1>8. ByNumber(post) => ByNumber(q)
  BY <1>6 DEF ByNumber, OneRegion
<1>9. QED
  BY <1>6, <1>7, <1>8 DEF Kept

-----------------------------------------------------------------------------
(* The list of posts: each is linked to the next one, and all but the one   *)
(* that is being read are sorted.                                           *)
PostsOK(ps, o) ==
  /\ ps \in Seq(PostType)
  /\ \A p \in 1 .. Len(ps) : Shaped(ps[p])
  /\ \A p \in 1 .. Len(ps) : p < Len(ps) \/ o = "nzb" => ByNumber(ps[p])
  /\ \A p \in 1 .. Len(ps) : ps[p].next = IF p < Len(ps) THEN p + 1 ELSE NULL

FileNames(ps) == [p \in 1 .. Len(ps) |-> ps[p].filename]

\* r is ps with post p changed to q, and o1 is what is open then.
Changed(ps, o, r, o1, p, q) ==
  /\ PostsOK(ps, o)
  /\ p \in 1 .. Len(ps)
  /\ Kept(ps[p], q)
  /\ p < Len(ps) \/ o1 = "nzb" => ByNumber(q)
  /\ o1 = "nzb" => o = "nzb" \/ p = Len(ps)
  /\ r = [ps EXCEPT ![p] = q]

LEMMA PostsChanged ==
  ASSUME NEW ps, NEW o, NEW r, NEW o1, NEW p, NEW q, Changed(ps, o, r, o1, p, q)
  PROVE  PostsOK(r, o1) /\ Len(r) = Len(ps) /\ FileNames(r) = FileNames(ps)
<1>1. PICK len \in Nat : len = Len(ps)
  BY DEF Changed, PostsOK
<1>2. /\ ps \in [1 .. len -> PostType] /\ p \in 1 .. len /\ q \in PostType
      /\ q.next = ps[p].next /\ q.filename = ps[p].filename /\ Shaped(q)
      /\ p < len \/ o1 = "nzb" => ByNumber(q)
      /\ o1 = "nzb" => o = "nzb" \/ p = len
      /\ r = [ps EXCEPT ![p] = q]
  BY <1>1 DEF Changed, PostsOK, Kept
<1>3. /\ \A m \in 1 .. len : Shaped(ps[m])
      /\ \A m \in 1 .. len : m < len \/ o = "nzb" => ByNumber(ps[m])
      /\ \A m \in 1 .. len : ps[m].next = IF m < len THEN m + 1 ELSE NULL
  BY <1>1 DEF Changed, PostsOK
<1>4. r \in [1 .. len -> PostType] /\ r[p] = q /\ \A m \in 1 .. len : m # p => r[m] = ps[m]
  BY <1>2
<1>5. r \in Seq(PostType) /\ Len(r) = len
  BY <1>4
<1>6. ASSUME NEW m \in 1 .. len
      PROVE  /\ Shaped(r[m])
             /\ m < len \/ o1 = "nzb" => ByNumber(r[m])
             /\ r[m].next = IF m < len THEN m + 1 ELSE NULL
             /\ r[m].filename = ps[m].filename
  <2>1. CASE m = p
    BY <1>2, <1>3, <1>4, <2>1
  <2>2. CASE m # p
    <3>1. r[m] = ps[m]
      BY <1>4, <2>2
    <3>2. m < len \/ o1 = "nzb" => m < len \/ o = "nzb"
      BY <1>2, <2>2
    <3>3. QED
      BY <1>3, <3>1, <3>2
  <2>3. QED
    BY <2>1, <2>2
<1>7. FileNames(r) = FileNames(ps)
  BY <1>1, <1>5, <1>6 DEF FileNames
<1>8. QED
  BY <1>1, <1>5, <1>6, <1>7 DEF PostsOK

\* r is ps and a new last post n, the file s.
Begun(ps, l, s, n, r) ==
  /\ PostsOK(ps, "nzb") /\ s \in Subject
  /\ l = IF ps = <<>> THEN NULL ELSE Len(ps)
  /\ n = Len(ps) + 1
  /\ r = Append(IF l = NULL THEN ps ELSE [ps EXCEPT ![l].next = n], PostCreate(s))

LEMMA PostsBegun ==
  ASSUME NEW ps, NEW l, NEW s, NEW n, NEW r, Begun(ps, l, s, n, r)
  PROVE  /\ PostsOK(r, "file") /\ Len(r) = n /\ FileNames(r)[n] = FindFilename(s)
         /\ \A p \in 1 .. Len(ps) : FileNames(r)[p] = FileNames(ps)[p]
<1>0. /\ PostsOK(ps, "nzb") /\ s \in Subject
      /\ l = IF ps = <<>> THEN NULL ELSE Len(ps)
      /\ n = Len(ps) + 1
      /\ r = Append(IF l = NULL THEN ps ELSE [ps EXCEPT ![l].next = n], PostCreate(s))
  BY DEF Begun
<1>1. PICK len \in Nat : len = Len(ps) /\ ps \in [1 .. len -> PostType] /\ n = len + 1
  BY <1>0 DEF PostsOK
<1>2. /\ \A m \in 1 .. len : Shaped(ps[m]) /\ ByNumber(ps[m])
      /\ \A m \in 1 .. len : ps[m].next = IF m < len THEN m + 1 ELSE NULL
  BY <1>0, <1>1 DEF PostsOK
<1> DEFINE linked == IF l = NULL THEN ps ELSE [ps EXCEPT ![l].next = n]
           new == PostCreate(s)
<1>3. /\ linked \in [1 .. len -> PostType]
      /\ \A m \in 1 .. len : linked[m] = IF m = len THEN [ps[m] EXCEPT !.next = n] ELSE ps[m]
  <2>1. CASE len = 0
    <3>1. ps = <<>>
      BY <1>1, <2>1
    <3>2. linked = ps
      BY <1>0, <3>1
    <3>3. linked \in [1 .. len -> PostType]
      BY <1>1, <3>2
    <3>4. \A m \in 1 .. len : FALSE
      BY <2>1
    <3>5. QED
      BY <3>3, <3>4
  <2>2. CASE len # 0
    <3>1. ps # <<>> /\ len \in 1 .. len
      BY <1>1, <2>2
    <3>2. l = len /\ l # NULL
      <4>1. l = len
        BY <1>0, <1>1, <3>1
      <4>2. QED
        BY <4>1, NullIsNoNumber
    <3>3. linked = [ps EXCEPT ![len] = [ps[len] EXCEPT !.next = n]]
      BY <3>2
    <3>4. [ps[len] EXCEPT !.next = n] \in PostType
      <4>1. ps[len] \in PostType /\ n \in Nat
        BY <1>1, <3>1
      <4>2. QED
        BY <4>1 DEF PostType
    <3>5. QED
      BY <1>1, <3>1, <3>3, <3>4
  <2>3. QED
    BY <2>1, <2>2
<1>4. new \in PostType /\ Shaped(new) /\ new.next = NULL /\ new.filename = FindFilename(s)
  <2>1. new \in PostType
    BY <1>0 DEF PostCreate, PostType
  <2>2. new.made = <<>> /\ new.segments = <<>> /\ new.status = <<>>
    BY DEF PostCreate
  <2>3. new.next = NULL /\ new.filename = FindFilename(s)
    BY DEF PostCreate
  <2> HIDE DEF new
  <2>4. /\ new.made \in [1 .. 0 -> Made] /\ new.status \in [1 .. 0 -> Verdict]
        /\ new.segments \in [1 .. 0 -> 0 .. 0] /\ Permuted(new.segments, 0)
    BY <2>2 DEF Permuted
  <2>5. 0 \in Nat /\ \A m \in 1 .. 0 : new.made[m].index = m
    OBVIOUS
  <2>6. QED
    BY <2>1, <2>3, <2>4, <2>5 DEF Shaped
<1> HIDE DEF linked, new
<1>5. linked \in Seq(PostType) /\ Len(linked) = len
  BY <1>1, <1>3
<1>6. r = Append(linked, new)
  BY <1>0 DEF linked, new
<1>7. /\ r \in Seq(PostType) /\ Len(r) = n /\ r[n] = new
      /\ \A m \in 1 .. len : r[m] = linked[m]
  <2>1. /\ Append(linked, new) \in Seq(PostType)
        /\ Len(Append(linked, new)) = Len(linked) + 1
        /\ \A m \in 1 .. Len(linked) : Append(linked, new)[m] = linked[m]
        /\ Append(linked, new)[Len(linked) + 1] = new
    BY <1>4, <1>5, AppendProperties
  <2>2. QED
    BY <1>1, <1>5, <1>6, <2>1
<1>8. ASSUME NEW m \in 1 .. len
      PROVE  /\ Shaped(r[m]) /\ ByNumber(r[m]) /\ r[m].next = m + 1
             /\ r[m].filename = ps[m].filename
  <2>1. r[m] = IF m = len THEN [ps[m] EXCEPT !.next = n] ELSE ps[m]
    BY <1>3, <1>7
  <2>2. ps[m] \in PostType
    BY <1>1
  <2>3. CASE m = len
    <3>1. /\ r[m].made = ps[m].made /\ r[m].status = ps[m].status
          /\ r[m].segments = ps[m].segments /\ r[m].filename = ps[m].filename
          /\ r[m].next = n /\ r[m] \in PostType
      <4>1. n \in Nat
        BY <1>1
      <4>2. QED
        BY <2>1, <2>2, <2>3, <4>1 DEF PostType
    <3>2. QED
      BY <1>1, <1>2, <2>2, <2>3, <3>1, SameSegments
  <2>4. CASE m # len
    BY <1>1, <1>2, <2>1, <2>4
  <2>5. QED
    BY <2>3, <2>4
<1>9. \A m \in 1 .. n : m \in 1 .. len \/ m = n
  BY <1>1
<1>10. PostsOK(r, "file")
  <2>1. ASSUME NEW m \in 1 .. n
        PROVE  /\ Shaped(r[m])
               /\ m < n => ByNumber(r[m])
               /\ r[m].next = IF m < n THEN m + 1 ELSE NULL
    <3>1. CASE m = n
      <4>1. n \in Nat
        BY <1>1
      <4>2. r[n] = new
        BY <1>7
      <4>3. r[m] = new /\ ~ (m < n)
        BY <3>1, <4>1, <4>2
      <4>4. QED
        BY <1>4, <4>3
    <3>2. CASE m \in 1 .. len
      <4>1. m < n
        BY <1>1, <3>2
      <4>2. QED
        BY <1>8, <3>2, <4>1
    <3>3. QED
      BY <1>9, <3>1, <3>2
  <2>2. QED
    BY <1>7, <2>1 DEF PostsOK
<1>11. FileNames(r)[n] = FindFilename(s) /\ \A p \in 1 .. len : FileNames(r)[p] = FileNames(ps)[p]
  <2>1. Len(r) = n /\ Len(ps) = len /\ n \in 1 .. n /\ \A p \in 1 .. len : p \in 1 .. n
    <3>1. Len(ps) = len /\ n = len + 1
      BY <1>1
    <3>2. Len(r) = n
      BY <1>7
    <3>3. n \in 1 .. n /\ \A p \in 1 .. len : p \in 1 .. n
      BY <3>1
    <3>4. QED
      BY <3>1, <3>2, <3>3
  <2>2. \A p \in 1 .. n : FileNames(r)[p] = r[p].filename
    BY <2>1 DEF FileNames
  <2>3. \A p \in 1 .. len : FileNames(ps)[p] = ps[p].filename
    BY <2>1 DEF FileNames
  <2>4. QED
    BY <1>4, <1>7, <1>8, <2>1, <2>2, <2>3
<1>12. QED
  BY <1>1, <1>7, <1>10, <1>11


-----------------------------------------------------------------------------
(* The invariant of the parser: its posts, what the flags and the pointers  *)
(* say of the element that is open, and the document that was read.         *)
DocType ==
  [subject : Subject, groups : Seq(Text), segments : Seq([number : Number, text : Text])]

Pointers(ps, o, l, seg, group, segment) ==
  /\ group = (o = "group") /\ segment = (o = "segment")
  /\ l = IF ps = <<>> THEN NULL ELSE Len(ps)
  /\ o # "nzb" => ps # <<>>
  /\ o = "group" => ps[l].groups # <<>>
  /\ o = "segment" => seg \in DOMAIN ps[l].made

\* The file names of the posts are those of the document, and the client has
\* them all if there is a first post when it asks.
Listing(ph, f, names, doc, given) ==
  /\ doc \in Seq(DocType) /\ Len(doc) = Len(names)
  /\ \A n \in 1 .. Len(names) : names[n] = FindFilename(doc[n].subject)
  /\ f \in {NULL, IF Len(names) = 0 THEN NULL ELSE 1}
  /\ ph = "parsing" => f = IF Len(names) = 0 THEN NULL ELSE 1
  /\ ph = "listed" /\ f # NULL => given = names

ParserInv ==
  /\ phase \in {"parsing", "parsed", "listed", "crashed"}
  /\ open \in {"nzb", "file", "group", "segment"}
  /\ rest \in Seq(STRING)
  /\ PostsOK(posts, open)
  /\ Pointers(posts, open, last, lastSegment, inGroup, inSegment)
  /\ Listing(phase, first, FileNames(posts), document, files)

\* Everything but the posts: the change of post p to q is enough.
LEMMA PostStep ==
  ASSUME ParserInv, NEW q, Changed(posts, open, posts', open', last, q),
         phase' = phase, first' = first, files' = files,
         rest' \in Seq(STRING), open' \in {"nzb", "file", "group", "segment"},
         last' = last,
         inGroup' = (open' = "group"), inSegment' = (open' = "segment"),
         open' = "group" => q.groups # <<>>,
         open' = "segment" => lastSegment' \in DOMAIN q.made,
         Listing(phase, first, FileNames(posts), document', files)
  PROVE  ParserInv'
<1>1. /\ PostsOK(posts', open') /\ Len(posts') = Len(posts)
      /\ FileNames(posts') = FileNames(posts)
  BY PostsChanged
<1>2. /\ posts \in Seq(PostType) /\ last \in 1 .. Len(posts)
      /\ posts' = [posts EXCEPT ![last] = q]
  BY DEF Changed, PostsOK
<1>3. posts'[last] = q
  BY <1>2
<1>4. posts' # <<>> /\ posts # <<>>
  <2>1. Len(posts') # 0 /\ Len(posts) # 0
    BY <1>1, <1>2
  <2>2. QED
    BY <2>1
<1>5. last = Len(posts)
  BY <1>4 DEF ParserInv, Pointers
<1>6. Pointers(posts', open', last', lastSegment', inGroup', inSegment')
  BY <1>1, <1>3, <1>4, <1>5 DEF Pointers
<1>7. Listing(phase', first', FileNames(posts'), document', files')
  BY <1>1
<1>8. phase' \in {"parsing", "parsed", "listed", "crashed"}
  BY DEF ParserInv
<1>9. QED
  BY <1>1, <1>6, <1>7, <1>8 DEF ParserInv

LEMMA LastPost ==
  ASSUME ParserInv, open # "nzb"
  PROVE  /\ last = Len(posts) /\ last \in 1 .. Len(posts) /\ last \in Nat
         /\ posts[last] \in PostType /\ Shaped(posts[last])
<1>1. posts \in Seq(PostType) /\ posts # <<>> /\ last = Len(posts)
  BY DEF ParserInv, Pointers, PostsOK
<1>2. last \in 1 .. Len(posts) /\ last \in Nat
  BY <1>1
<1>3. posts[last] \in PostType /\ Shaped(posts[last])
  BY <1>1, <1>2 DEF ParserInv, PostsOK
<1>4. QED
  BY <1>1, <1>2, <1>3

LEMMA FunctionIsSequence ==
  ASSUME NEW S, NEW len \in Nat, NEW e \in [1 .. len -> S]
  PROVE  e \in Seq(S) /\ Len(e) = len
OBVIOUS

LEMMA DocumentExtended ==
  ASSUME NEW ph, NEW f, NEW names, NEW doc, NEW given, Listing(ph, f, names, doc, given),
         NEW d, d = [doc[Len(doc)] EXCEPT !.groups = d.groups, !.segments = d.segments],
         d.groups \in Seq(Text), d.segments \in Seq([number : Number, text : Text]),
         Len(doc) # 0,
         NEW doc1, doc1 = [doc EXCEPT ![Len(doc)] = d]
  PROVE  Listing(ph, f, names, doc1, given)
<1>1. PICK len \in Nat : len = Len(doc) /\ doc \in [1 .. len -> DocType] /\ len \in 1 .. len
  BY DEF Listing
<1>2. d \in DocType /\ d.subject = doc[len].subject
  BY <1>1 DEF DocType
<1>3. doc1 \in [1 .. len -> DocType] /\ \A n \in 1 .. len : doc1[n].subject = doc[n].subject
  BY <1>1, <1>2
<1>4. doc1 \in Seq(DocType) /\ Len(doc1) = len
  <2>1. doc1 \in [1 .. len -> DocType]
    BY <1>3, Zenon
  <2>2. len \in Nat
    BY <1>1
  <2>3. QED
    BY <2>1, <2>2, FunctionIsSequence
<1>5. QED
  BY <1>1, <1>3, <1>4 DEF Listing


-----------------------------------------------------------------------------
(* Each handler keeps the invariant.                                        *)
LEMMA FileStep ==
  ASSUME ParserInv, NEW s \in Subject, ParseFileElement(s), phase = "parsing"
  PROVE  ParserInv'
<1>1. PICK len \in Nat : /\ len = Len(posts) /\ posts \in Seq(PostType)
                         /\ PostsOK(posts, "nzb")
                         /\ last = (IF posts = <<>> THEN NULL ELSE Len(posts))
  BY DEF ParserInv, PostsOK, Pointers, ParseFileElement
<1> DEFINE n == len + 1
           record == [subject |-> s, groups |-> <<>>, segments |-> <<>>]
<1>2. /\ open' = "file" /\ rest' = rest /\ phase' = phase /\ files' = files
      /\ inGroup' = inGroup /\ inSegment' = inSegment
      /\ last' = n /\ first' = (IF first = NULL THEN n ELSE first)
      /\ document' = Append(document, record)
      /\ posts' = Append(IF last = NULL THEN posts ELSE [posts EXCEPT ![last].next = n],
                         PostCreate(s))
  BY <1>1 DEF ParseFileElement
<1>3. /\ PostsOK(posts', "file") /\ Len(posts') = n
      /\ FileNames(posts')[n] = FindFilename(s)
      /\ \A p \in 1 .. len : FileNames(posts')[p] = FileNames(posts)[p]
  <2>1. Begun(posts, last, s, n, posts')
    BY <1>1, <1>2 DEF Begun
  <2>2. QED
    BY <1>1, <2>1, PostsBegun
<1>4. posts' # <<>>
  <2>1. Len(posts') # 0
    BY <1>3
  <2>2. QED
    BY <2>1
<1>5. inGroup = FALSE /\ inSegment = FALSE
  BY DEF ParserInv, Pointers, ParseFileElement
<1>6. Pointers(posts', open', last', lastSegment', inGroup', inSegment')
  BY <1>2, <1>3, <1>4, <1>5 DEF Pointers
<1>7. /\ document \in Seq(DocType) /\ Len(document) = len
      /\ \A p \in 1 .. len : FileNames(posts)[p] = FindFilename(document[p].subject)
      /\ first = IF len = 0 THEN NULL ELSE 1
  <2>1. Len(FileNames(posts)) = len
    BY <1>1 DEF FileNames
  <2>2. QED
    BY <2>1 DEF ParserInv, Listing
<1>8. record \in DocType /\ record.subject = s
  BY DEF DocType
<1> HIDE DEF record
<1>9. /\ document' \in Seq(DocType) /\ Len(document') = n /\ document'[n] = record
      /\ \A p \in 1 .. len : document'[p] = document[p]
  <2>1. /\ Append(document, record) \in Seq(DocType)
        /\ Len(Append(document, record)) = Len(document) + 1
        /\ \A p \in 1 .. Len(document) : Append(document, record)[p] = document[p]
        /\ Append(document, record)[Len(document) + 1] = record
    BY <1>7, <1>8, AppendProperties
  <2>2. QED
    BY <1>2, <1>7, <2>1
<1>10. \A p \in 1 .. n : FileNames(posts')[p] = FindFilename(document'[p].subject)
  <2> TAKE p \in 1 .. n
  <2>1. CASE p = n
    BY <1>3, <1>8, <1>9, <2>1
  <2>2. CASE p \in 1 .. len
    BY <1>3, <1>7, <1>9, <2>2
  <2>3. QED
    BY <2>1, <2>2
<1>11. Len(FileNames(posts')) = n
  BY <1>3 DEF FileNames
<1>12. first' = 1
  <2>1. 1 # NULL /\ (len = 0 => n = 1)
    BY NullIsNoNumber
  <2>2. QED
    BY <1>2, <1>7, <2>1
<1>13. Listing(phase', first', FileNames(posts'), document', files')
  <2>1. n # 0 /\ phase' # "listed"
    BY <1>2
  <2>2. QED
    BY <1>9, <1>10, <1>11, <1>12, <2>1 DEF Listing
<1>14. QED
  BY <1>2, <1>3, <1>6, <1>13 DEF ParserInv

LEMMA GroupStep ==
  ASSUME ParserInv, NEW text \in Text, ParseGroupElement(text)
  PROVE  ParserInv'
<1>1. /\ open = "file" /\ open' = "group" /\ rest' = text /\ inGroup' = TRUE
      /\ inSegment' = inSegment /\ last' = last
      /\ phase' = phase /\ first' = first /\ files' = files
      /\ posts' = [posts EXCEPT ![last].groups = Append(@, <<>>)]
      /\ document' = [document EXCEPT ![Len(document)].groups = Append(@, text)]
  BY DEF ParseGroupElement
<1>2. PICK post, groups : post = posts[last] /\ groups = Append(post.groups, <<>>)
  OBVIOUS
<1>3. /\ last = Len(posts) /\ last \in 1 .. Len(posts)
      /\ post \in PostType /\ Shaped(post)
  BY <1>1, <1>2, LastPost
<1>4. PICK q : q = [post EXCEPT !.groups = groups]
  OBVIOUS
<1>5. groups \in Seq(Seq(STRING)) /\ groups # <<>>
  <2>1. post.groups \in Seq(Seq(STRING)) /\ <<>> \in Seq(STRING)
    BY <1>3 DEF PostType
  <2>2. groups \in Seq(Seq(STRING)) /\ Len(groups) = Len(post.groups) + 1 /\ Len(post.groups) \in Nat
    BY <1>2, <2>1, AppendProperties
  <2>3. QED
    BY <2>2
<1>6. Kept(post, q) /\ q.groups # <<>>
  <2>1. Kept(post, q)
    BY <1>3, <1>4, <1>5, GroupsChanged
  <2>2. q.groups = groups
    BY <1>3, <1>4 DEF PostType
  <2>3. QED
    BY <1>5, <2>1, <2>2
<1>7. posts' = [posts EXCEPT ![last] = q]
  BY <1>1, <1>2, <1>4
<1>8. Changed(posts, open, posts', open', last, q)
  <2>1. PostsOK(posts, open) /\ Len(posts) \in Nat
    BY DEF ParserInv, PostsOK
  <2>2. ~ (last < Len(posts)) /\ open' # "nzb"
    BY <1>1, <1>3, <2>1
  <2>3. QED
    BY <1>2, <1>3, <1>6, <1>7, <2>1, <2>2 DEF Changed
<1>9. Listing(phase, first, FileNames(posts), document', files)
  <2>1. Listing(phase, first, FileNames(posts), document, files)
    BY DEF ParserInv
  <2>2. Len(document) = Len(posts) /\ document \in Seq(DocType) /\ posts \in Seq(PostType)
    BY <2>1 DEF Listing, FileNames, ParserInv, PostsOK
  <2>3. Len(document) # 0 /\ Len(document) \in 1 .. Len(document)
    BY <1>3, <2>2
  <2> DEFINE d == document[Len(document)]
             texts == Append(d.groups, text)
  <2>4. d \in DocType
    BY <2>2, <2>3
  <2>5. PICK d1 : d1 = [d EXCEPT !.groups = texts]
    OBVIOUS
  <2>6. texts \in Seq(Text)
    BY <2>4, AppendProperties DEF DocType
  <2>7. /\ d1 \in DocType /\ d1.groups \in Seq(Text)
        /\ d1.segments \in Seq([number : Number, text : Text])
        /\ d1 = [d EXCEPT !.groups = d1.groups, !.segments = d1.segments]
    BY <2>4, <2>5, <2>6 DEF DocType
  <2>8. document' = [document EXCEPT ![Len(document)] = d1]
    BY <1>1, <2>4, <2>5
  <2>9. QED
    BY <2>1, <2>3, <2>4, <2>7, <2>8, DocumentExtended
<1>10. text \in Seq(STRING)
  BY DocumentAssumption
<1>11. inSegment' = (open' = "segment")
  BY <1>1 DEF ParserInv, Pointers
<1>12. QED
  BY <1>1, <1>6, <1>8, <1>9, <1>10, <1>11, PostStep


LEMMA SegmentStep ==
  ASSUME ParserInv, NEW number \in Number, NEW text \in Text, NEW high \in AddressHigh,
         ParseSegmentElement(number, text, high)
  PROVE  ParserInv'
<1>1. /\ open = "file" /\ open' = "segment" /\ rest' = text /\ inSegment' = TRUE
      /\ inGroup' = inGroup /\ last' = last
      /\ phase' = phase /\ first' = first /\ files' = files
      /\ lastSegment' = Len(posts[last].made) + 1
      /\ posts' =
           [posts EXCEPT
              ![last].made = Append(@, [number |-> number, index |-> lastSegment', high |-> high,
                                           messageid |-> <<>>]),
              ![last].segments = Append(@, lastSegment'),
              ![last].status = Append(@, "NEW")]
      /\ document' = [document EXCEPT
           ![Len(document)].segments = Append(@, [number |-> number, text |-> text])]
  BY DEF ParseSegmentElement
<1>2. PICK post, n : post = posts[last] /\ n = lastSegment'
  OBVIOUS
<1>3. /\ last = Len(posts) /\ last \in 1 .. Len(posts)
      /\ post \in PostType /\ Shaped(post)
  BY <1>1, <1>2, LastPost
<1>4. PICK q : q = [post EXCEPT
                      !.made = Append(@, [number |-> number, index |-> n, high |-> high,
                                             messageid |-> <<>>]),
                      !.segments = Append(@, n),
                      !.status = Append(@, "NEW")]
  OBVIOUS
<1>5. Kept(post, q) /\ n \in DOMAIN q.made
  BY <1>1, <1>2, <1>3, <1>4, SegmentAdded
<1>6. posts' = [posts EXCEPT ![last] = q]
  BY <1>1, <1>2, <1>4
<1>7. Changed(posts, open, posts', open', last, q)
  <2>1. PostsOK(posts, open) /\ Len(posts) \in Nat
    BY DEF ParserInv, PostsOK
  <2>2. ~ (last < Len(posts)) /\ open' # "nzb"
    BY <1>1, <1>3, <2>1
  <2>3. QED
    BY <1>2, <1>3, <1>5, <1>6, <2>1, <2>2 DEF Changed
<1>8. Listing(phase, first, FileNames(posts), document', files)
  <2>1. Listing(phase, first, FileNames(posts), document, files)
    BY DEF ParserInv
  <2>2. Len(document) = Len(posts) /\ document \in Seq(DocType) /\ posts \in Seq(PostType)
    BY <2>1 DEF Listing, FileNames, ParserInv, PostsOK
  <2>3. Len(document) # 0 /\ Len(document) \in 1 .. Len(document)
    BY <1>3, <2>2
  <2> DEFINE d == document[Len(document)]
             S == [number : Number, text : Text]
             segment == [number |-> number, text |-> text]
             segments == Append(d.segments, segment)
  <2>4. d \in DocType
    BY <2>2, <2>3
  <2>5. PICK d1 : d1 = [d EXCEPT !.segments = segments]
    OBVIOUS
  <2>6. segments \in Seq(S)
    <3>1. d.segments \in Seq(S) /\ segment \in S
      BY <2>4 DEF DocType
    <3> HIDE DEF S, segment, d
    <3>2. QED
      BY <3>1, AppendProperties
  <2>7. /\ d1 \in DocType /\ d1.groups \in Seq(Text) /\ d1.segments \in Seq(S)
        /\ d1 = [d EXCEPT !.groups = d1.groups, !.segments = d1.segments]
    <3> HIDE DEF segments, d, S
    <3>1. DocType = [subject : Subject, groups : Seq(Text), segments : Seq(S)]
      BY DEF DocType, S
    <3>2. QED
      BY <2>4, <2>5, <2>6, <3>1
  <2>8. document' = [document EXCEPT ![Len(document)] = d1]
    BY <1>1, <2>4, <2>5
  <2>9. QED
    BY <2>1, <2>3, <2>4, <2>7, <2>8, DocumentExtended
<1>9. text \in Seq(STRING)
  BY DocumentAssumption
<1>10. inGroup' = (open' = "group")
  BY <1>1 DEF ParserInv, Pointers
<1>11. QED
  BY <1>1, <1>2, <1>5, <1>7, <1>8, <1>9, <1>10, PostStep

\* The start of a piece, without its leading blanks, and what is left of it.
LEMMA Pieces ==
  ASSUME NEW text \in Seq(STRING), NEW n \in 1 .. Len(text)
  PROVE  /\ Strip(SubSeq(text, 1, n)) \in Seq(STRING)
         /\ SubSeq(text, n + 1, Len(text)) \in Seq(STRING)
<1>1. SubSeq(text, n + 1, Len(text)) \in Seq(STRING)
  OBVIOUS
<1>2. PICK piece : piece = SubSeq(text, 1, n)
  OBVIOUS
<1>3. piece \in Seq(STRING)
  BY <1>2
<1> DEFINE solid == {m \in 1 .. Len(piece) : piece[m] \notin Blank}
<1>4. CASE solid = {}
  BY <1>1, <1>2, <1>4 DEF Strip
<1>5. CASE solid # {}
  <2>1. solid \in SUBSET Nat
    BY <1>3
  <2>2. \E b \in solid : \A m \in solid : b <= m
    BY <1>5, <2>1, LeastNatural
  <2>3. Smallest(solid) \in solid
    BY <2>2 DEF Smallest
  <2>4. Strip(piece) = SubSeq(piece, Smallest(solid), Len(piece))
    BY <1>5 DEF Strip
  <2>5. Smallest(solid) \in 1 .. Len(piece)
    BY <2>3
  <2>6. ASSUME NEW b \in 1 .. Len(piece) PROVE SubSeq(piece, b, Len(piece)) \in Seq(STRING)
    BY <1>3
  <2> HIDE DEF solid
  <2>7. Strip(piece) \in Seq(STRING)
    BY <2>4, <2>5, <2>6
  <2>8. QED
    BY <1>1, <1>2, <2>7
<1>6. QED
  BY <1>4, <1>5

LEMMA DataStep ==
  ASSUME ParserInv, NEW n \in 1 .. Len(rest), ElementData(n)
  PROVE  ParserInv'
<1>1. PICK kept, group :
        /\ kept = Strip(SubSeq(rest, 1, n)) /\ group = Len(posts[last].groups)
        /\ rest' = SubSeq(rest, n + 1, Len(rest))
        /\ posts' =
             IF inSegment
             THEN [posts EXCEPT ![last].made[lastSegment].messageid = Extended(@, kept)]
             ELSE IF inGroup THEN [posts EXCEPT ![last].groups[group] = Extended(@, kept)]
             ELSE posts
        /\ phase' = phase /\ first' = first /\ last' = last /\ lastSegment' = lastSegment
        /\ inGroup' = inGroup /\ inSegment' = inSegment
        /\ files' = files /\ open' = open /\ document' = document
  BY DEF ElementData, archiveVars
<1>2. rest \in Seq(STRING) /\ open \in {"nzb", "file", "group", "segment"}
  BY DEF ParserInv
<1>3. kept \in Seq(STRING) /\ rest' \in Seq(STRING)
  BY <1>1, <1>2, Pieces
<1>4. /\ inGroup = (open = "group") /\ inSegment = (open = "segment")
      /\ open = "group" => posts[last].groups # <<>>
      /\ open = "segment" => lastSegment \in DOMAIN posts[last].made
  BY DEF ParserInv, Pointers
<1>5. Listing(phase, first, FileNames(posts), document', files)
  BY <1>1 DEF ParserInv
<1>6. ASSUME open # "nzb", NEW q, Kept(posts[last], q), posts' = [posts EXCEPT ![last] = q]
      PROVE  Changed(posts, open, posts', open', last, q)
  <2>1. PostsOK(posts, open) /\ Len(posts) \in Nat
    BY DEF ParserInv, PostsOK
  <2>2. last = Len(posts) /\ last \in 1 .. Len(posts)
    BY <1>6, LastPost
  <2>3. ~ (last < Len(posts)) /\ open' # "nzb"
    BY <1>1, <1>6, <2>1, <2>2
  <2>4. QED
    BY <1>6, <2>1, <2>2, <2>3 DEF Changed
<1>7. CASE open = "segment"
  <2>1. posts[last] \in PostType /\ Shaped(posts[last])
    BY <1>7, LastPost
  <2>2. PICK post, m : post = posts[last] /\ m = lastSegment
    OBVIOUS
  <2>3. m \in DOMAIN post.made /\ post \in PostType /\ Shaped(post)
    BY <1>4, <1>7, <2>1, <2>2
  <2>4. PICK id : id = Extended(post.made[m].messageid, kept)
    OBVIOUS
  <2>5. post.made[m].messageid \in Seq(STRING)
    <3>1. post.made \in Seq(Made)
      BY <2>3 DEF PostType
    <3>2. post.made[m] \in Made
      BY <2>3, <3>1
    <3>3. QED
      BY <3>2 DEF Made
  <2>6. id \in Seq(STRING)
    BY <1>3, <2>4, <2>5 DEF Extended
  <2>7. PICK q : q = [post EXCEPT !.made[m].messageid = id]
    OBVIOUS
  <2>8. Kept(post, q) /\ m \in DOMAIN q.made
    BY <2>3, <2>6, <2>7, MessageIdExtended
  <2>9. posts' = [posts EXCEPT ![last] = q]
    BY <1>1, <1>4, <1>7, <2>2, <2>4, <2>7
  <2>10. Changed(posts, open, posts', open', last, q)
    BY <1>6, <1>7, <2>2, <2>8, <2>9
  <2>11. QED
    BY <1>1, <1>2, <1>3, <1>4, <1>5, <1>7, <2>2, <2>8, <2>10, PostStep
<1>8. CASE open = "group"
  <2>1. posts[last] \in PostType /\ Shaped(posts[last])
    BY <1>8, LastPost
  <2>2. PICK post : post = posts[last]
    OBVIOUS
  <2>3. post.groups # <<>> /\ post \in PostType /\ Shaped(post)
    BY <1>4, <1>8, <2>1, <2>2
  <2>4. PICK name, groups : /\ name = Extended(post.groups[group], kept)
                            /\ groups = [post.groups EXCEPT ![group] = name]
    OBVIOUS
  <2>5. /\ post.groups \in Seq(Seq(STRING)) /\ group = Len(post.groups)
        /\ group \in 1 .. Len(post.groups)
    BY <1>1, <2>2, <2>3 DEF PostType
  <2>6. name \in Seq(STRING)
    BY <1>3, <2>4, <2>5 DEF Extended
  <2>7. groups \in Seq(Seq(STRING)) /\ groups # <<>>
    BY <2>4, <2>5, <2>6
  <2>8. PICK q : q = [post EXCEPT !.groups = groups]
    OBVIOUS
  <2>9. Kept(post, q) /\ q.groups # <<>>
    <3>1. Kept(post, q)
      BY <2>3, <2>7, <2>8, GroupsChanged
    <3>2. q.groups = groups
      BY <2>3, <2>8 DEF PostType
    <3>3. QED
      BY <2>7, <3>1, <3>2
  <2>10. posts' = [posts EXCEPT ![last] = q]
    BY <1>1, <1>4, <1>8, <2>2, <2>4, <2>8
  <2>11. Changed(posts, open, posts', open', last, q)
    BY <1>6, <1>8, <2>2, <2>9, <2>10
  <2>12. QED
    BY <1>1, <1>2, <1>3, <1>4, <1>5, <1>8, <2>9, <2>11, PostStep
<1>9. CASE open \in {"nzb", "file"}
  BY <1>1, <1>3, <1>4, <1>9 DEF ParserInv
<1>10. QED
  BY <1>2, <1>7, <1>8, <1>9


LEMMA EndStep ==
  ASSUME ParserInv, NEW wild \in Number \cup {0}, ElementEnd(wild)
  PROVE  ParserInv'
<1>1. /\ open # "nzb" /\ rest' = rest
      /\ open' = IF open = "file" THEN "nzb" ELSE "file"
      /\ inSegment' = (inSegment /\ open # "segment")
      /\ inGroup' = (inGroup /\ open # "group")
      /\ posts' = IF open = "file"
                  THEN [posts EXCEPT ![last].segments = PostSegmentsSort(posts[last], wild)]
                  ELSE posts
      /\ phase' = phase /\ first' = first /\ last' = last /\ lastSegment' = lastSegment
      /\ files' = files /\ document' = document
  BY DEF ElementEnd
<1>2. /\ rest \in Seq(STRING) /\ open \in {"nzb", "file", "group", "segment"}
      /\ inGroup = (open = "group") /\ inSegment = (open = "segment")
  BY DEF ParserInv, Pointers
<1>3. /\ open' \in {"nzb", "file", "group", "segment"} /\ open' # "group" /\ open' # "segment"
      /\ inGroup' = (open' = "group") /\ inSegment' = (open' = "segment")
  BY <1>1, <1>2
<1>4. CASE open = "file"
  <2>1. PICK post : post = posts[last]
    OBVIOUS
  <2>2. last \in 1 .. Len(posts) /\ last = Len(posts) /\ post \in PostType /\ Shaped(post)
    BY <1>4, <2>1, LastPost
  <2>3. PICK q : q = [post EXCEPT !.segments = PostSegmentsSort(post, wild)]
    OBVIOUS
  <2>4. Kept(post, q) /\ ByNumber(q)
    <3>1. wild \in Int
      <4>1. Number \subseteq Int
        BY DocumentAssumption, Zenon
      <4>2. QED
        BY <4>1
    <3>2. QED
      BY <2>2, <2>3, <3>1, PostSorted
  <2>5. posts' = [posts EXCEPT ![last] = q]
    BY <1>1, <1>4, <2>1, <2>3
  <2>6. Changed(posts, open, posts', open', last, q)
    <3>1. PostsOK(posts, open)
      BY DEF ParserInv
    <3>2. QED
      BY <2>1, <2>2, <2>4, <2>5, <3>1 DEF Changed
  <2>7. Listing(phase, first, FileNames(posts), document', files)
    BY <1>1 DEF ParserInv
  <2>8. QED
    BY <1>1, <1>2, <1>3, <2>6, <2>7, PostStep
<1>5. CASE open \in {"group", "segment"}
  <2>1. posts' = posts /\ open' = "file"
    BY <1>1, <1>5
  <2>2. PostsOK(posts', open')
    BY <1>5, <2>1 DEF ParserInv, PostsOK
  <2>3. Pointers(posts', open', last', lastSegment', inGroup', inSegment')
    BY <1>1, <1>3, <2>1 DEF ParserInv, Pointers
  <2>4. QED
    BY <1>1, <1>2, <1>3, <2>1, <2>2, <2>3 DEF ParserInv
<1>6. QED
  BY <1>1, <1>2, <1>4, <1>5

(* A crash leaves everything as it was, but for the phase.                  *)
LEMMA CrashStep ==
  ASSUME ParserInv, phase' = "crashed",
         UNCHANGED <<posts, archiveVars, files, open, rest, document>>
  PROVE  ParserInv'
BY DEF ParserInv, Listing, archiveVars

LEMMA ParseEndsStep ==
  ASSUME ParserInv, ParseEnds
  PROVE  ParserInv'
<1>1. /\ phase = "parsing" /\ phase' = "parsed" /\ first' \in {first, NULL}
      /\ posts' = posts /\ last' = last /\ lastSegment' = lastSegment /\ inGroup' = inGroup
      /\ inSegment' = inSegment /\ files' = files /\ open' = open /\ rest' = rest
      /\ document' = document
  BY DEF ParseEnds
<1>2. Listing(phase', first', FileNames(posts), document, files)
  BY <1>1 DEF ParserInv, Listing
<1>3. QED
  BY <1>1, <1>2 DEF ParserInv

-----------------------------------------------------------------------------
(* nzb_fetch_list_files reaches every post from the first one.              *)
LinkedFrom(ps, f) ==
  LET walk[n \in 0 .. Len(ps)] ==
        IF n = 0 THEN <<>>
        ELSE LET at == IF n = 1 THEN f
                       ELSE IF walk[n-1] = <<>> THEN NULL
                       ELSE ps[walk[n-1][Len(walk[n-1])]].next
             IN IF at = NULL THEN walk[n-1] ELSE Append(walk[n-1], at)
  IN walk[Len(ps)]

Next1(ps, f, n, w) ==
  LET at == IF n = 1 THEN f ELSE IF w = <<>> THEN NULL ELSE ps[w[Len(w)]].next
  IN IF at = NULL THEN w ELSE Append(w, at)

Count(n) == [k \in 1 .. n |-> k]

\* A walk of which every turn is known.
LEMMA Walked ==
  ASSUME NEW ps, NEW f, NEW len \in Nat, len = Len(ps), NEW W,
         W[0] = <<>>, \A n \in 1 .. len : Next1(ps, f, n, W[n-1]) = W[n]
  PROVE  LinkedFrom(ps, f) = W[len]
<1> DEFINE body(w) == [n \in 0 .. len |-> IF n = 0 THEN <<>> ELSE Next1(ps, f, n, w[n-1])]
           walk == CHOOSE w : w = body(w)
<1>1. \A n \in 1 .. len : n - 1 \in 0 .. len /\ n # 0
  OBVIOUS
<1>2. PICK v : v = [n \in 0 .. len |-> W[n]]
  OBVIOUS
<1>3. v = body(v)
  <2>1. ASSUME NEW n \in 0 .. len
        PROVE  v[n] = IF n = 0 THEN <<>> ELSE Next1(ps, f, n, v[n-1])
    <3>1. CASE n = 0
      BY <1>2, <3>1
    <3>2. CASE n # 0
      <4>1. n \in 1 .. len /\ n - 1 \in 0 .. len
        BY <3>2
      <4>2. QED
        BY <1>2, <3>2, <4>1
    <3>3. QED
      BY <3>1, <3>2
  <2>2. QED
    BY <1>2, <2>1
<1>4. walk = body(walk)
  <2> HIDE DEF body
  <2>1. QED
    BY <1>3
<1>5. LinkedFrom(ps, f) = walk[len]
  BY Zenon DEF LinkedFrom, Next1
<1> HIDE DEF walk
<1>6. /\ walk[0] = <<>>
      /\ \A n \in 1 .. len : walk[n] = Next1(ps, f, n, walk[n-1])
  BY <1>1, <1>4
<1> DEFINE S == {n \in 0 .. len : walk[n] = W[n]}
<1>7. 0 \in S
  BY <1>6
<1>8. ASSUME NEW n \in 0 .. len - 1, n \in S PROVE n + 1 \in S
  <2>1. n + 1 \in 1 .. len /\ (n + 1) - 1 = n
    OBVIOUS
  <2>2. walk[n+1] = Next1(ps, f, n + 1, walk[n])
    BY <1>6, <2>1
  <2>3. Next1(ps, f, n + 1, W[n]) = W[n+1]
    BY <2>1
  <2>4. QED
    BY <1>8, <2>1, <2>2, <2>3
<1> HIDE DEF S
<1>9. 0 .. len \subseteq S
  BY <1>7, <1>8, BoundedInduction
<1>10. QED
  BY <1>5, <1>9 DEF S


LEMMA LinkedAll ==
  ASSUME PostsOK(posts, open), first \in {NULL, IF Len(posts) = 0 THEN NULL ELSE 1}
  PROVE  Linked = IF first = NULL THEN <<>> ELSE Count(Len(posts))
<1>1. PICK len \in Nat : len = Len(posts) /\ posts \in Seq(PostType)
  BY DEF PostsOK
<1>2. Linked = LinkedFrom(posts, first)
  BY DEF Linked, LinkedFrom
<1>3. CASE first = NULL
  <2> DEFINE W == [n \in 0 .. len |-> <<>>]
  <2>1. W[0] = <<>> /\ \A n \in 1 .. len : W[n] = <<>> /\ W[n-1] = <<>>
    OBVIOUS
  <2>2. \A n \in 1 .. len : Next1(posts, first, n, <<>>) = <<>>
    BY <1>3 DEF Next1
  <2>3. \A n \in 1 .. len : Next1(posts, first, n, W[n-1]) = W[n]
    BY <2>1, <2>2, Zenon
  <2> HIDE DEF W
  <2>4. LinkedFrom(posts, first) = W[len]
    BY <1>1, <2>1, <2>3, Walked
  <2>5. W[len] = <<>>
    BY DEF W
  <2>6. QED
    BY <1>2, <1>3, <2>4, <2>5
<1>4. CASE first # NULL
  <2>1. first = 1 /\ len # 0
    BY <1>1, <1>4
  <2> DEFINE W == [n \in 0 .. len |-> Count(n)]
  <2>2. W[0] = <<>>
    BY DEF Count
  <2>3. ASSUME NEW n \in 1 .. len PROVE Next1(posts, first, n, W[n-1]) = W[n]
    <3>1. W[n-1] = Count(n-1) /\ W[n] = Count(n)
      OBVIOUS
    <3> HIDE DEF W
    <3>2. Count(n) = Append(Count(n-1), n)
      <4>1. /\ Count(n-1) \in Seq(Nat) /\ Len(Count(n-1)) = n - 1
            /\ \A k \in 1 .. n - 1 : Count(n-1)[k] = k
        BY DEF Count
      <4>2. PICK c : c = Append(Count(n-1), n)
        OBVIOUS
      <4>3. /\ c \in Seq(Nat) /\ Len(c) = n /\ c[n] = n
            /\ \A k \in 1 .. n - 1 : c[k] = k
        BY <4>1, <4>2, AppendProperties
      <4>4. \A k \in 1 .. n : c[k] = k
        BY <4>3
      <4>5. c = [k \in 1 .. n |-> k]
        BY <4>3, <4>4
      <4>6. QED
        BY <4>2, <4>5 DEF Count
    <3>3. CASE n = 1
      <4>1. n # NULL
        BY NullIsNoNumber
      <4>2. QED
        BY <2>1, <3>1, <3>2, <3>3, <4>1 DEF Next1
    <3>4. CASE n # 1
      <4>1. PICK w : w = Count(n-1)
        OBVIOUS
      <4>2. w # <<>> /\ Len(w) = n - 1 /\ w[Len(w)] = n - 1
        <5>1. n - 1 \in 1 .. n - 1
          BY <3>4
        <5>2. w \in Seq(Nat) /\ Len(w) = n - 1 /\ w[n-1] = n - 1
          BY <4>1, <5>1 DEF Count
        <5>3. QED
          BY <5>1, <5>2
      <4>3. posts[n-1].next = n
        <5>1. n - 1 \in 1 .. Len(posts) /\ n - 1 < Len(posts) /\ (n - 1) + 1 = n
          BY <1>1, <3>4
        <5>2. QED
          BY <5>1 DEF PostsOK
      <4>4. n # NULL
        BY NullIsNoNumber
      <4>5. Next1(posts, first, n, w) = Append(w, n)
        BY <3>4, <4>2, <4>3, <4>4 DEF Next1
      <4>6. QED
        BY <3>1, <3>2, <4>1, <4>5
    <3>5. QED
      BY <3>3, <3>4
  <2>4. W[len] = Count(len)
    OBVIOUS
  <2> HIDE DEF W
  <2>5. LinkedFrom(posts, first) = W[len]
    BY <1>1, <2>2, <2>3, Walked
  <2>6. QED
    BY <1>1, <1>2, <1>4, <2>4, <2>5
<1>5. QED
  BY <1>3, <1>4

LEMMA ListStep ==
  ASSUME ParserInv, ListFiles
  PROVE  ParserInv'
<1>1. /\ phase' \in {"listed", "crashed"}
      /\ phase' = "listed" => files' = [n \in 1 .. Len(Linked) |-> posts[Linked[n]].filename]
      /\ posts' = posts /\ first' = first /\ last' = last /\ lastSegment' = lastSegment
      /\ inGroup' = inGroup /\ inSegment' = inSegment /\ open' = open /\ rest' = rest
      /\ document' = document
  BY DEF ListFiles, archiveVars
<1>2. PICK len \in Nat : len = Len(posts) /\ Len(FileNames(posts)) = len
  BY DEF ParserInv, PostsOK, FileNames
<1>3. PostsOK(posts, open) /\ Listing(phase, first, FileNames(posts), document, files)
  BY DEF ParserInv
<1>4. first \in {NULL, IF len = 0 THEN NULL ELSE 1}
  BY <1>2, <1>3 DEF Listing
<1>5. ASSUME phase' = "listed", first # NULL PROVE files' = FileNames(posts)
  <2>1. Linked = Count(len)
    BY <1>2, <1>3, <1>4, <1>5, LinkedAll
  <2>2. Len(Linked) = len /\ \A n \in 1 .. len : Linked[n] = n
    BY <2>1 DEF Count
  <2>3. QED
    BY <1>1, <1>2, <1>5, <2>2 DEF FileNames
<1>6. Listing(phase', first', FileNames(posts'), document', files')
  BY <1>1, <1>3, <1>5 DEF Listing
<1>7. QED
  BY <1>1, <1>6 DEF ParserInv

-----------------------------------------------------------------------------
(* The verdicts.                                                            *)
LEMMA VerdictStep ==
  ASSUME ParserInv, NEW p \in DOMAIN posts, NEW n, NEW v \in Verdict, Status(p, n, v),
         UNCHANGED <<phase, archiveVars, files, open, rest, document>>
  PROVE  ParserInv'
<1>1. PICK post, q : post = posts[p] /\ q = [post EXCEPT !.status[StatusSlot(p, n)] = v]
  OBVIOUS
<1>2. posts \in Seq(PostType) /\ p \in 1 .. Len(posts)
  BY DEF ParserInv, PostsOK
<1>3. post \in PostType /\ Shaped(post)
  BY <1>1, <1>2 DEF ParserInv, PostsOK
<1>4. /\ Kept(post, q) /\ (ByNumber(post) => ByNumber(q))
      /\ q.groups = post.groups /\ q.made = post.made
  BY <1>1, <1>3, StatusSet
<1>5. posts' = [posts EXCEPT ![p] = q]
  BY <1>1 DEF Status
<1>6. /\ phase' = phase /\ first' = first /\ last' = last /\ lastSegment' = lastSegment
      /\ inGroup' = inGroup /\ inSegment' = inSegment
      /\ files' = files /\ open' = open /\ rest' = rest /\ document' = document
  BY DEF archiveVars
<1>7. Changed(posts, open, posts', open', p, q)
  <2>1. PostsOK(posts, open)
    BY DEF ParserInv
  <2>2. p < Len(posts) \/ open' = "nzb" => ByNumber(q)
    BY <1>1, <1>2, <1>4, <1>6, <2>1 DEF PostsOK
  <2>3. QED
    BY <1>1, <1>2, <1>4, <1>5, <1>6, <2>1, <2>2 DEF Changed
<1>8. /\ PostsOK(posts', open') /\ Len(posts') = Len(posts)
      /\ FileNames(posts') = FileNames(posts)
  BY <1>7, PostsChanged
<1>9. \A m \in 1 .. Len(posts) : posts'[m].groups = posts[m].groups /\ posts'[m].made = posts[m].made
  BY <1>1, <1>2, <1>4, <1>5
<1>10. posts # <<>> /\ posts' # <<>>
  <2>1. Len(posts) # 0 /\ Len(posts') # 0
    BY <1>2, <1>8
  <2>2. QED
    BY <2>1
<1>11. last = Len(posts) /\ last \in 1 .. Len(posts)
  <2>1. last = Len(posts)
    BY <1>10 DEF ParserInv, Pointers
  <2>2. QED
    BY <1>2, <2>1
<1>12. Pointers(posts', open', last', lastSegment', inGroup', inSegment')
  BY <1>6, <1>8, <1>9, <1>10, <1>11 DEF ParserInv, Pointers
<1>13. QED
  BY <1>6, <1>8, <1>12 DEF ParserInv

LEMMA ParserInit1 == Init => ParserInv
<1> SUFFICES ASSUME Init PROVE ParserInv
  OBVIOUS
<1>1. /\ phase = "parsing" /\ posts = <<>> /\ first = NULL /\ last = NULL
      /\ inGroup = FALSE /\ inSegment = FALSE
      /\ open = "nzb" /\ rest = <<>> /\ document = <<>>
  BY DEF Init, ParserInit
<1>2. posts \in Seq(PostType) /\ Len(posts) = 0 /\ rest \in Seq(STRING)
  BY <1>1
<1>3. PostsOK(posts, open)
  BY <1>2 DEF PostsOK
<1>4. Pointers(posts, open, last, lastSegment, inGroup, inSegment)
  BY <1>1 DEF Pointers
<1>5. Listing(phase, first, FileNames(posts), document, files)
  <2>1. Len(FileNames(posts)) = 0
    BY <1>2 DEF FileNames
  <2>2. document \in Seq(DocType) /\ Len(document) = 0
    BY <1>1
  <2>3. QED
    BY <1>1, <2>1, <2>2 DEF Listing
<1>6. QED
  BY <1>1, <1>2, <1>3, <1>4, <1>5 DEF ParserInv

LEMMA ParserStep == ParserInv /\ [Next]_assemblyVars => ParserInv'
<1> SUFFICES ASSUME ParserInv, [Next]_assemblyVars PROVE ParserInv'
  OBVIOUS
<1>1. CASE Parse
  <2>1. ASSUME NEW s \in Subject, phase = "parsing", ParseFileElement(s) PROVE ParserInv'
    BY <2>1, FileStep
  <2>2. ASSUME NEW t \in Text, ParseGroupElement(t) PROVE ParserInv'
    BY <2>2, GroupStep
  <2>3. ASSUME NEW k \in Number, NEW t \in Text, NEW h \in AddressHigh, ParseSegmentElement(k, t, h)
        PROVE  ParserInv'
    BY <2>3, SegmentStep
  <2>4. ASSUME NEW n \in 1 .. Len(rest), ElementData(n) PROVE ParserInv'
    BY <2>4, DataStep
  <2>5. ASSUME NEW wild \in Number \cup {0}, ElementEnd(wild) PROVE ParserInv'
    BY <2>5, EndStep
  <2>6. ASSUME NEW s, FilenameCrash(s) PROVE ParserInv'
    BY <2>6, CrashStep DEF FilenameCrash
  <2>7. CASE SortCrash
    BY <2>7, CrashStep DEF SortCrash
  <2>8. QED
    BY <1>1, <2>1, <2>2, <2>3, <2>4, <2>5, <2>6, <2>7, ParseEndsStep, ListStep, Zenon
       DEF Parse, ParserNext
<1>2. ASSUME NEW p \in DOMAIN posts, NEW n, NEW h, Fail(p, n, h) PROVE ParserInv'
  <2>1. "ERROR" \in Verdict
    BY DEF Verdict
  <2>2. QED
    BY <1>2, <2>1, VerdictStep DEF Fail
<1>3. ASSUME NEW p \in DOMAIN posts, NEW n, NEW h, Complete(p, n, h) PROVE ParserInv'
  <2>1. "COMPLETE" \in Verdict
    BY DEF Verdict
  <2>2. QED
    BY <1>3, <2>1, VerdictStep DEF Complete
<1>4. ASSUME NEW p, DownloadWild(p) PROVE ParserInv'
  BY <1>4, CrashStep DEF DownloadWild
<1>5. CASE UNCHANGED assemblyVars
  BY <1>5 DEF assemblyVars, parserVars, archiveVars, ParserInv
<1>6. QED
  BY <1>1, <1>2, <1>3, <1>4, <1>5, Zenon DEF Next

(* The parser's invariant holds in every state.                             *)
THEOREM ParserInvariant == Spec => []ParserInv
BY ParserInit1, ParserStep, PTL DEF Spec

-----------------------------------------------------------------------------
(* Every segment has a number, that of the NZB file or of its article.      *)
NumbersInv ==
  /\ DOMAIN numbers = 1 .. Len(posts)
  /\ \A p \in 1 .. Len(posts) : numbers[p] \in [DOMAIN posts[p].made -> Int]

LEMMA NumbersRead ==
  ASSUME ParserInv, NumbersInv, NEW p \in DOMAIN posts, NEW n \in DOMAIN posts[p].made,
         NEW h \in Header, ReadHeader(p, n, h), NEW v, Status(p, n, v)
  PROVE  NumbersInv'
<1>1. PICK len \in Nat : len = Len(posts) /\ posts \in [1 .. len -> PostType] /\ p \in 1 .. len
  BY DEF ParserInv, PostsOK
<1>2. PICK slot : posts' = [posts EXCEPT ![p].status[slot] = v]
  BY DEF Status
<1>3. PICK q : q = [posts[p] EXCEPT !.status[slot] = v]
  OBVIOUS
<1>4. q.made = posts[p].made
  <2>1. posts[p] \in PostType
    BY <1>1
  <2>2. QED
    BY <1>3, <2>1 DEF PostType
<1>5. posts' = [posts EXCEPT ![p] = q]
  BY <1>2, <1>3
<1>6. /\ posts' \in [1 .. len -> PostType \cup {q}]
      /\ \A m \in 1 .. len : posts'[m].made = posts[m].made
  BY <1>1, <1>4, <1>5
<1>7. Len(posts') = len
  BY <1>6
<1>8. PICK part : /\ part \in Int
                  /\ numbers' = [numbers EXCEPT ![p] = [numbers[p] EXCEPT ![n] = part]]
  <2>1. PICK part : part = IF h.part = NULL THEN numbers[p][n] ELSE h.part
    OBVIOUS
  <2>2. h.part \in ArticlePart \cup {NULL} /\ numbers[p][n] \in Int
    BY <1>1 DEF Header, NumbersInv
  <2>3. part \in Int
    BY <2>1, <2>2, ArticleAssumption
  <2>4. QED
    BY <2>1, <2>3 DEF ReadHeader
<1>9. ASSUME NEW m \in 1 .. len PROVE numbers'[m] \in [DOMAIN posts[m].made -> Int]
  <2>1. DOMAIN numbers = 1 .. len /\ numbers[m] \in [DOMAIN posts[m].made -> Int]
    BY <1>1 DEF NumbersInv
  <2>2. CASE m = p
    <3>1. numbers'[m] = [numbers[m] EXCEPT ![n] = part]
      BY <1>8, <2>1, <2>2
    <3>2. QED
      BY <1>8, <2>1, <2>2, <3>1
  <2>3. CASE m # p
    BY <1>8, <2>1, <2>3
  <2>4. QED
    BY <2>2, <2>3
<1>10. DOMAIN numbers' = 1 .. len
  BY <1>1, <1>8 DEF NumbersInv
<1>11. QED
  BY <1>6, <1>7, <1>9, <1>10 DEF NumbersInv

LEMMA NumbersParsed ==
  ASSUME ParserInv', Parse
  PROVE  NumbersInv'
<1>1. /\ posts' \in Seq(PostType)
      /\ numbers' = [p \in 1 .. Len(posts') |->
                       [n \in DOMAIN posts'[p].made |-> posts'[p].made[n].number]]
  BY DEF ParserInv, PostsOK, Parse
<1>2. ASSUME NEW p \in 1 .. Len(posts'), NEW n \in DOMAIN posts'[p].made
      PROVE  posts'[p].made[n].number \in Int
  <2>1. posts'[p] \in PostType
    BY <1>1
  <2>2. posts'[p].made \in Seq(Made)
    BY <2>1 DEF PostType
  <2>3. posts'[p].made[n] \in Made
    BY <2>2
  <2>4. QED
    BY <2>3, DocumentAssumption DEF Made
<1>3. QED
  BY <1>1, <1>2 DEF NumbersInv

LEMMA NumbersStep == ParserInv /\ ParserInv' /\ NumbersInv /\ [Next]_assemblyVars => NumbersInv'
<1> SUFFICES ASSUME ParserInv, ParserInv', NumbersInv, [Next]_assemblyVars PROVE NumbersInv'
  OBVIOUS
<1>1. CASE Parse
  BY <1>1, NumbersParsed
<1>2. ASSUME NEW p \in DOMAIN posts, NEW n \in DOMAIN posts[p].made, NEW h \in Header,
             Fail(p, n, h) \/ Complete(p, n, h)
      PROVE  NumbersInv'
  <2>1. ReadHeader(p, n, h) /\ \E v : Status(p, n, v)
    BY <1>2, Zenon DEF Fail, Complete
  <2>2. QED
    BY <2>1, NumbersRead
<1>3. ASSUME NEW p, DownloadWild(p) PROVE NumbersInv'
  BY <1>3 DEF DownloadWild, NumbersInv, chunkVars
<1>4. CASE UNCHANGED assemblyVars
  BY <1>4 DEF NumbersInv, assemblyVars, parserVars, chunkVars
<1>5. QED
  BY <1>1, <1>2, <1>3, <1>4, Zenon DEF Next

THEOREM NumbersInvariant == Spec => []NumbersInv
<1>1. Init => NumbersInv
  BY DEF Init, ParserInit, NumbersInv
<1>2. QED
  BY <1>1, NumbersStep, ParserInvariant, PTL DEF Spec

(* The flags and the last post say what is open, every verdict is one of    *)
(* the three, and every segment has a number (element_start, element_end,   *)
(* segment_status_set, yenc_parse_ybegin).                                  *)
THEOREM AssemblyTypeOK == Spec => []TypeOK
<1>1. ParserInv /\ NumbersInv => TypeOK
  <2> SUFFICES ASSUME ParserInv, NumbersInv PROVE TypeOK
    OBVIOUS
  <2>1. ASSUME NEW p \in DOMAIN posts
        PROVE  /\ \A n \in DOMAIN posts[p].status : posts[p].status[n] \in Verdict
               /\ numbers[p] \in [DOMAIN posts[p].made -> Int]
    <3>1. posts \in Seq(PostType) /\ p \in 1 .. Len(posts) /\ Shaped(posts[p])
      BY DEF ParserInv, PostsOK
    <3>2. PICK k \in Nat : posts[p].status \in [1 .. k -> Verdict]
      BY <3>1 DEF Shaped
    <3>3. QED
      BY <3>1, <3>2 DEF NumbersInv
  <2>2. QED
    BY <2>1 DEF TypeOK, ParserTypeOK, ParserInv, Pointers, Verdict
<1>2. QED
  BY <1>1, ParserInvariant, NumbersInvariant, PTL

(* However many segments a file has, each has a status of its own; and if   *)
(* malloc put them into one region of 4 GB, sorting them by swapping halves *)
(* of pointers loses none and orders them by number (post_segments_sort and *)
(* its swaps, segment->index).                                              *)
THEOREM AssemblySegmentsSorted == Spec => []SegmentsSorted
<1>1. ParserInv => SegmentsSorted
  <2> SUFFICES ASSUME ParserInv, NEW p \in 1 .. Len(posts)
               PROVE  LET post == posts[p]
                      IN /\ {post.made[n].index : n \in DOMAIN post.made} = DOMAIN post.status
                         /\ OneRegion(post) =>
                              {post.segments[n] : n \in DOMAIN post.segments} = DOMAIN post.made
                         /\ p < Len(posts) \/ open = "nzb" => ByNumber(post)
    BY Zenon DEF SegmentsSorted, ByNumber
  <2>1. PICK post : post = posts[p]
    OBVIOUS
  <2>2. Shaped(post) /\ (p < Len(posts) \/ open = "nzb" => ByNumber(post))
    BY <2>1 DEF ParserInv, PostsOK
  <2>3. PICK k \in Nat :
          /\ post.made \in [1 .. k -> Made]
          /\ post.status \in [1 .. k -> Verdict]
          /\ post.segments \in [1 .. k -> 0 .. k]
          /\ OneRegion(post) => Permuted(post.segments, k)
          /\ \A n \in 1 .. k : post.made[n].index = n
    BY <2>2 DEF Shaped
  <2>4. ASSUME OneRegion(post)
        PROVE  {post.segments[n] : n \in DOMAIN post.segments} = DOMAIN post.made
    <3>1. DOMAIN post.segments = 1 .. k /\ DOMAIN post.made = 1 .. k
      BY <2>3
    <3>2. \A n \in 1 .. k : post.segments[n] \in 1 .. k
      BY <2>3, <2>4 DEF Permuted
    <3>3. \A m \in 1 .. k : \E n \in 1 .. k : post.segments[n] = m
      BY <2>3, <2>4 DEF Permuted
    <3>4. QED
      BY <3>1, <3>2, <3>3, Zenon
  <2>5. {post.made[n].index : n \in DOMAIN post.made} = DOMAIN post.status
    BY <2>3
  <2>6. QED
    BY <2>1, <2>2, <2>4, <2>5
<1>2. QED
  BY <1>1, ParserInvariant, PTL


-----------------------------------------------------------------------------
(* The name between the last two quotes.                                    *)
LEMMA LargestIn ==
  ASSUME NEW S, NEW len \in Nat, S \subseteq 1 .. len, S # {}
  PROVE  Largest(S) \in S /\ \A m \in S : m <= Largest(S)
<1> DEFINE T == {n \in Nat : \E m \in S : n = len - m}
<1>1. T \in SUBSET Nat
  OBVIOUS
<1>2. T # {}
  <2>1. PICK m \in S : TRUE
    OBVIOUS
  <2>2. len - m \in T
    OBVIOUS
  <2>3. QED
    BY <2>2
<1>3. PICK n \in T : \A k \in T : n <= k
  BY <1>1, <1>2, LeastNatural
<1>4. PICK m \in S : n = len - m
  BY <1>3
<1>5. \A k \in S : k <= m
  <2> TAKE k \in S
  <2>1. len - k \in T /\ k \in Int /\ m \in Int
    OBVIOUS
  <2>2. n <= len - k
    BY <1>3, <2>1
  <2>3. QED
    BY <1>4, <2>1, <2>2
<1>6. \E b \in S : \A k \in S : k <= b
  BY <1>5
<1>7. QED
  BY <1>6 DEF Largest

LEMMA Joined ==
  ASSUME NEW X, NEW s \in Seq(X), NEW a \in 0 .. Len(s), NEW b \in a .. Len(s)
  PROVE  SubSeq(s, 1, a) \o SubSeq(s, a + 1, b) = SubSeq(s, 1, b)
<1>1. 1 \in 1 .. Len(s) + 1 /\ a \in 1 - 1 .. Len(s)
  OBVIOUS
<1>2. QED
  BY <1>1, ConcatAdjacentSubSeq, Zenon

LEMMA Single ==
  ASSUME NEW X, NEW s \in Seq(X), NEW n \in 1 .. Len(s)
  PROVE  <<s[n]>> = SubSeq(s, n, n)
<1>1. PICK u, v : u = <<s[n]>> /\ v = SubSeq(s, n, n)
  OBVIOUS
<1>2. u \in Seq(X) /\ Len(u) = 1 /\ u[1] = s[n]
  BY <1>1
<1>3. v \in Seq(X) /\ Len(v) = 1 /\ v[1] = s[n]
  BY <1>1
<1>4. u = v
  BY <1>2, <1>3, SeqEqual
<1>5. QED
  BY <1>1, <1>4

\* Two of a kind.
LEMMA MoreThanOne ==
  ASSUME NEW Q, Cardinality(Q) > 1
  PROVE  Q # {} /\ Cardinality(Q) # 1
<1>1. Q # {}
  <2> SUFFICES ASSUME Q = {} PROVE FALSE
    OBVIOUS
  <2>1. Cardinality(Q) = 0
    BY FS_EmptySet
  <2>2. QED
    BY <2>1
<1>2. QED
  BY <1>1

LEMMA BetweenTwo ==
  ASSUME NEW s \in Seq(STRING), NEW c,
         NEW len \in Nat, len = Len(s),
         NEW beg \in Nat, NEW end \in Nat, 1 <= beg, beg < end, end <= len,
         s[beg] = c, s[end] = c,
         \A m \in 1 .. len : s[m] = c => m = end \/ m <= beg
  PROVE  BetweenLast(c, s, SubSeq(s, 1 + beg, end - 1))
<1>1. PICK f : f = SubSeq(s, beg + 1, end - 1)
  OBVIOUS
<1>2. /\ f \in Seq(STRING) /\ Len(f) = end - 1 - beg
      /\ \A m \in 1 .. end - 1 - beg : f[m] = s[beg + m]
  BY <1>1
<1>3. c \notin {f[m] : m \in DOMAIN f}
  <2>1. ASSUME NEW m \in 1 .. end - 1 - beg PROVE f[m] # c
    <3>1. beg + m \in 1 .. len /\ ~ (beg + m <= beg) /\ beg + m # end
      OBVIOUS
    <3>2. QED
      BY <1>2, <3>1
  <2>2. DOMAIN f = 1 .. end - 1 - beg
    BY <1>2
  <2>3. QED
    BY <2>1, <2>2
<1>4. \A m \in end + 1 .. len : s[m] # c
  <2> TAKE m \in end + 1 .. len
  <2>1. m \in 1 .. len /\ m # end /\ ~ (m <= beg)
    OBVIOUS
  <2>2. QED
    BY <2>1
<1>5. s = SubSeq(s, 1, beg - 1) \o <<c>> \o f \o <<c>> \o SubSeq(s, end + 1, len)
  <2>1. ASSUME NEW n \in 1 .. len, s[n] = c PROVE <<c>> = SubSeq(s, n, n)
    BY <2>1, Single
  <2>2. SubSeq(s, 1, beg - 1) \o <<c>> = SubSeq(s, 1, beg)
    <3>1. beg - 1 \in 0 .. Len(s) /\ beg \in beg - 1 .. Len(s) /\ (beg - 1) + 1 = beg
      OBVIOUS
    <3>2. <<c>> = SubSeq(s, beg, beg)
      <4>1. beg \in 1 .. len
        OBVIOUS
      <4>2. QED
        BY <2>1, <4>1, Zenon
    <3>3. SubSeq(s, 1, beg - 1) \o SubSeq(s, (beg - 1) + 1, beg) = SubSeq(s, 1, beg)
      BY <3>1, Joined, Zenon
    <3>4. QED
      BY <3>1, <3>2, <3>3
  <2>3. SubSeq(s, 1, beg) \o f = SubSeq(s, 1, end - 1)
    <3>1. beg \in 0 .. Len(s) /\ end - 1 \in beg .. Len(s)
      OBVIOUS
    <3>2. QED
      BY <1>1, <3>1, Joined, Zenon
  <2>4. SubSeq(s, 1, end - 1) \o <<c>> = SubSeq(s, 1, end)
    <3>1. end - 1 \in 0 .. Len(s) /\ end \in end - 1 .. Len(s) /\ (end - 1) + 1 = end
      OBVIOUS
    <3>2. <<c>> = SubSeq(s, end, end)
      <4>1. end \in 1 .. len
        OBVIOUS
      <4>2. QED
        BY <2>1, <4>1, Zenon
    <3>3. SubSeq(s, 1, end - 1) \o SubSeq(s, (end - 1) + 1, end) = SubSeq(s, 1, end)
      BY <3>1, Joined, Zenon
    <3>4. QED
      BY <3>1, <3>2, <3>3
  <2>5. SubSeq(s, 1, end) \o SubSeq(s, end + 1, len) = SubSeq(s, 1, len)
    <3>1. end \in 0 .. Len(s) /\ len \in end .. Len(s)
      OBVIOUS
    <3>2. QED
      BY <3>1, Joined, Zenon
  <2>6. SubSeq(s, 1, len) = s
    OBVIOUS
  <2>7. QED
    BY <2>2, <2>3, <2>4, <2>5, <2>6, Zenon
<1>6. beg - 1 \in 0 .. len /\ end + 1 \in 1 .. len + 1 /\ 1 + beg = beg + 1
  OBVIOUS
<1>7. QED
  BY <1>1, <1>3, <1>4, <1>5, <1>6 DEF BetweenLast

LEMMA LastQuoted ==
  ASSUME NEW s \in Seq(STRING), NEW c,
         NEW Q, Q = Occurrences(c, s), Cardinality(Q) > 1,
         NEW end, end = Largest(Q), NEW beg, beg = Largest(Q \ {end})
  PROVE  BetweenLast(c, s, SubSeq(s, 1 + beg, end - 1))
<1>1. PICK len \in Nat : len = Len(s)
  OBVIOUS
<1>2. Q \subseteq 1 .. len /\ \A m \in 1 .. len : s[m] = c => m \in Q
  BY <1>1 DEF Occurrences
<1>3. \A m \in Q : s[m] = c
  BY DEF Occurrences
<1>0. Q # {} /\ Cardinality(Q) # 1
  BY MoreThanOne
<1>4. end \in Q /\ \A m \in Q : m <= end
  BY <1>0, <1>2, LargestIn
<1>5. PICK R : R = Q \ {end}
  OBVIOUS
<1>6. R # {}
  <2> SUFFICES ASSUME R = {} PROVE FALSE
    OBVIOUS
  <2>1. Q = {end}
    BY <1>4, <1>5
  <2>2. Cardinality(Q) = 1
    BY <2>1, FS_Singleton
  <2>3. QED
    BY <1>0, <2>2
<1>7. beg \in R /\ \A m \in R : m <= beg
  <2>1. R \subseteq 1 .. len
    BY <1>2, <1>5
  <2>2. QED
    BY <1>5, <1>6, <2>1, LargestIn
<1>8. beg \in 1 .. len /\ end \in 1 .. len /\ beg <= end /\ beg # end
  BY <1>2, <1>4, <1>5, <1>7
<1>9. beg \in Nat /\ end \in Nat /\ 1 <= beg /\ beg < end /\ end <= len
  <2>1. len \in Nat
    BY <1>1
  <2>2. QED
    BY <1>8, <2>1
<1>10. \A m \in 1 .. len : s[m] = c => m = end \/ m <= beg
  BY <1>2, <1>5, <1>7
<1>11. s[beg] = c /\ s[end] = c
  BY <1>3, <1>4, <1>5, <1>7
<1>12. QED
  BY <1>1, <1>9, <1>10, <1>11, BetweenTwo

\* (The provers of arithmetic cannot read the characters themselves.)
LEMMA QuotedName ==
  ASSUME NEW s \in Subject, NEW c, Quotes(s) = Occurrences(c, s), Cardinality(Occurrences(c, s)) > 1
  PROVE  BetweenLast(c, s, FindFilename(s))
<1>1. s \in Seq(STRING)
  BY DocumentAssumption
<1>2. PICK Q, end, beg :
        Q = Occurrences(c, s) /\ end = Largest(Q) /\ beg = Largest(Q \ {end})
  BY Zenon
<1>3. Quotes(s) = Q /\ Cardinality(Q) > 1
  BY <1>2
<1>4. FindFilename(s) = SubSeq(s, 1 + beg, end - 1)
  <2>1. Quotes(s) # {} /\ Cardinality(Quotes(s)) # 1
    BY <1>3, MoreThanOne
  <2>2. QED
    BY <1>2, <1>3, <2>1, Zenon DEF FindFilename
<1>5. QED
  BY <1>1, <1>2, <1>3, <1>4, LastQuoted

LEMMA DoublyQuoted ==
  ASSUME NEW s \in Subject, Cardinality(Occurrences("\"", s)) > 1
  PROVE  BetweenLast("\"", s, FindFilename(s))
<1>1. PICK Q : Q = Occurrences("\"", s)
  BY Zenon
<1>2. Cardinality(Q) > 1
  BY <1>1, Zenon
<1>3. Q # {}
  BY <1>2, MoreThanOne
<1>4. Quotes(s) = Occurrences("\"", s)
  BY <1>1, <1>3, Zenon DEF Quotes
<1>5. QED
  BY <1>4, QuotedName, Zenon

LEMMA SinglyQuoted ==
  ASSUME NEW s \in Subject, Occurrences("\"", s) = {}, Cardinality(Occurrences("'", s)) > 1
  PROVE  BetweenLast("'", s, FindFilename(s))
<1>1. Quotes(s) = Occurrences("'", s)
  BY Zenon DEF Quotes
<1>2. QED
  BY <1>1, QuotedName, Zenon

(* However many files a document has: if it was read to its end, the client *)
(* has them all, in order, each under the name between the last two quotes  *)
(* of its subject, double ones or without these single ones (parse_nzb,     *)
(* find_filename, nzb_fetch_list_files).                                    *)
THEOREM AssemblyFilesAsWritten == Spec => []FilesAsWritten
<1>1. ParserInv => FilesAsWritten
  <2> SUFFICES ASSUME ParserInv, phase = "listed", first # NULL
               PROVE  FilesAsWritten
    BY Zenon DEF FilesAsWritten
  <2>1. Listing(phase, first, FileNames(posts), document, files)
    BY DEF ParserInv
  <2>2. /\ files = FileNames(posts) /\ document \in Seq(DocType)
        /\ Len(document) = Len(files)
        /\ \A n \in 1 .. Len(files) : files[n] = FindFilename(document[n].subject)
    BY <2>1 DEF Listing
  <2>3. DOMAIN files = 1 .. Len(files)
    BY <2>2 DEF FileNames, ParserInv, PostsOK
  <2>4. ASSUME NEW n \in DOMAIN files
        PROVE  document[n].subject \in Subject /\ files[n] = FindFilename(document[n].subject)
    <3>1. document[n] \in DocType
      BY <2>2, <2>3
    <3>2. QED
      BY <2>2, <2>3, <3>1 DEF DocType
  <2>5. ASSUME NEW n \in DOMAIN files,
               Cardinality(Occurrences("\"", document[n].subject)) > 1
        PROVE  BetweenLast("\"", document[n].subject, files[n])
    BY <2>4, <2>5, DoublyQuoted, Zenon
  <2>6. ASSUME NEW n \in DOMAIN files, Occurrences("\"", document[n].subject) = {},
               Cardinality(Occurrences("'", document[n].subject)) > 1
        PROVE  BetweenLast("'", document[n].subject, files[n])
    BY <2>4, <2>6, SinglyQuoted, Zenon
  <2>7. QED
    BY <2>2, <2>5, <2>6, Zenon DEF FilesAsWritten
<1>2. QED
  BY <1>1, ParserInvariant, PTL


-----------------------------------------------------------------------------
(* InOrder, turn by turn.                                                   *)
Chosen(S, n, w) == IF n \in S THEN Append(w, n) ELSE w

LEMMA InOrderChosen ==
  ASSUME NEW S, NEW max \in Nat, NEW f,
         f[0] = <<>>, \A n \in 1 .. max : f[n] = Chosen(S, n, f[n-1])
  PROVE  InOrder(S, max) = f[max]
<1> DEFINE body(w) == [n \in 0 .. max |-> IF n = 0 THEN <<>> ELSE Chosen(S, n, w[n-1])]
           chosen == CHOOSE w : w = body(w)
<1>1. \A n \in 1 .. max : n - 1 \in 0 .. max /\ n # 0
  OBVIOUS
<1>2. PICK v : v = [n \in 0 .. max |-> f[n]]
  OBVIOUS
<1>3. v = body(v)
  <2>1. ASSUME NEW n \in 0 .. max
        PROVE  v[n] = IF n = 0 THEN <<>> ELSE Chosen(S, n, v[n-1])
    <3>1. CASE n = 0
      BY <1>2, <3>1
    <3>2. CASE n # 0
      <4>1. n \in 1 .. max /\ n - 1 \in 0 .. max
        BY <3>2
      <4>2. QED
        BY <1>2, <3>2, <4>1
    <3>3. QED
      BY <3>1, <3>2
  <2>2. QED
    BY <1>2, <2>1
<1>4. chosen = body(chosen)
  <2> HIDE DEF body
  <2>1. QED
    BY <1>3
<1>5. InOrder(S, max) = chosen[max]
  BY Zenon DEF InOrder, Chosen
<1> HIDE DEF chosen
<1>6. /\ chosen[0] = <<>>
      /\ \A n \in 1 .. max : chosen[n] = Chosen(S, n, chosen[n-1])
  BY <1>1, <1>4
<1> DEFINE T == {n \in 0 .. max : chosen[n] = f[n]}
<1>7. 0 \in T
  BY <1>6
<1>8. ASSUME NEW n \in 0 .. max - 1, n \in T PROVE n + 1 \in T
  <2>1. n + 1 \in 1 .. max /\ (n + 1) - 1 = n
    OBVIOUS
  <2>2. chosen[n+1] = Chosen(S, n + 1, chosen[n]) /\ f[n+1] = Chosen(S, n + 1, f[n])
    BY <1>6, <2>1
  <2>3. QED
    BY <1>8, <2>1, <2>2
<1> HIDE DEF T
<1>9. 0 .. max \subseteq T
  BY <1>7, <1>8, BoundedInduction
<1>10. QED
  BY <1>5, <1>9 DEF T

LEMMA InOrderTurns ==
  ASSUME NEW S, NEW n \in Nat
  PROVE  /\ InOrder(S, 0) = <<>>
         /\ InOrder(S, n + 1) = Chosen(S, n + 1, InOrder(S, n))
<1> DEFINE X == Seq(Nat)
           turn == [k \in Nat |-> [w \in X |-> Chosen(S, k, w)]]
<1>1. <<>> \in X /\ n + 1 \in Nat
  OBVIOUS
<1>2. \A k \in Nat : \A w \in X : Chosen(S, k, w) \in X
  BY AppendProperties DEF Chosen
<1>3. Steps(turn, X)
  BY <1>2 DEF Steps
<1>4. PICK f : Iterates(f, X, <<>>, turn, n + 1)
  <2> HIDE DEF X, turn
  <2>1. QED
    BY <1>1, <1>3, Iteration, Zenon
<1> HIDE DEF X
<1>5. /\ f[0] = <<>>
      /\ \A k \in 1 .. n + 1 : f[k] = Chosen(S, k, f[k-1])
  <2>1. f \in [0 .. n + 1 -> X] /\ f[0] = <<>>
    BY <1>4 DEF Iterates
  <2>2. ASSUME NEW k \in 1 .. n + 1 PROVE f[k] = Chosen(S, k, f[k-1])
    <3>1. k \in Nat /\ f[k-1] \in X
      BY <2>1, <2>2
    <3>2. f[k] = turn[k][f[k-1]]
      BY <1>4 DEF Iterates
    <3>3. QED
      BY <3>1, <3>2, Zenon
  <2>3. QED
    BY <2>1, <2>2
<1>6. InOrder(S, 0) = f[0]
  <2>1. 0 \in Nat /\ \A k \in 1 .. 0 : FALSE
    OBVIOUS
  <2>2. QED
    BY <1>5, <2>1, InOrderChosen
<1>7. InOrder(S, n) = f[n]
  <2>1. \A k \in 1 .. n : k \in 1 .. n + 1
    OBVIOUS
  <2>2. QED
    BY <1>5, <2>1, InOrderChosen
<1>8. InOrder(S, n + 1) = f[n+1]
  BY <1>1, <1>5, InOrderChosen
<1>9. n + 1 \in 1 .. n + 1 /\ (n + 1) - 1 = n
  OBVIOUS
<1>10. QED
  BY <1>5, <1>6, <1>7, <1>8, <1>9

\* The members up to max, each once, ascending.
LEMMA InOrderAscends ==
  ASSUME NEW S, NEW max \in Nat
  PROVE  \E w \in Seq(Nat) :
           /\ InOrder(S, max) = w
           /\ \A i \in 1 .. Len(w) : w[i] \in S /\ w[i] \in 1 .. max
           /\ \A n \in 1 .. max : n \in S => \E i \in 1 .. Len(w) : w[i] = n
           /\ \A i, j \in 1 .. Len(w) : i < j => w[i] < w[j]
<1> DEFINE Ascends(n, w) ==
             /\ InOrder(S, n) = w
             /\ \A i \in 1 .. Len(w) : w[i] \in S /\ w[i] \in 1 .. n
             /\ \A m \in 1 .. n : m \in S => \E i \in 1 .. Len(w) : w[i] = m
             /\ \A i, j \in 1 .. Len(w) : i < j => w[i] < w[j]
           T == {n \in Nat : \E w \in Seq(Nat) : Ascends(n, w)}
<1>1. 0 \in T
  <2>1. InOrder(S, 0) = <<>>
    BY InOrderTurns
  <2>2. <<>> \in Seq(Nat) /\ Ascends(0, <<>>)
    BY <2>1
  <2>3. QED
    BY <2>2
<1>2. ASSUME NEW n \in 0 .. max - 1, n \in T PROVE n + 1 \in T
  <2>1. PICK w \in Seq(Nat) : Ascends(n, w)
    BY <1>2
  <2>2. n \in Nat /\ n + 1 \in Nat /\ \A m \in 1 .. n + 1 : m \in 1 .. n \/ m = n + 1
    OBVIOUS
  <2>3. InOrder(S, n + 1) = Chosen(S, n + 1, w)
    BY <2>1, <2>2, InOrderTurns
  <2>4. CASE n + 1 \notin S
    <3>1. InOrder(S, n + 1) = w
      BY <2>3, <2>4 DEF Chosen
    <3>2. \A i \in 1 .. Len(w) : w[i] \in 1 .. n + 1
      BY <2>1, <2>2
    <3>3. Ascends(n + 1, w)
      BY <2>1, <2>2, <2>4, <3>1, <3>2
    <3>4. QED
      BY <2>2, <3>3
  <2>5. CASE n + 1 \in S
    <3>1. PICK v : v = Append(w, n + 1)
      OBVIOUS
    <3>2. InOrder(S, n + 1) = v
      BY <2>3, <2>5, <3>1 DEF Chosen
    <3>3. PICK len \in Nat : len = Len(w)
      OBVIOUS
    <3>4. /\ v \in Seq(Nat) /\ Len(v) = len + 1 /\ v[len+1] = n + 1
          /\ \A i \in 1 .. len : v[i] = w[i]
      BY <2>2, <3>1, <3>3, AppendProperties
    <3>5. \A i \in 1 .. len + 1 : i \in 1 .. len \/ i = len + 1
      BY <3>3
    <3>6. \A i \in 1 .. len : w[i] \in S /\ w[i] \in 1 .. n /\ w[i] \in 1 .. n + 1 /\ w[i] < n + 1
      BY <2>1, <2>2, <3>3
    <3>7. \A i \in 1 .. Len(v) : v[i] \in S /\ v[i] \in 1 .. n + 1
      <4>1. n + 1 \in 1 .. n + 1
        OBVIOUS
      <4>2. QED
        BY <2>5, <3>4, <3>5, <3>6, <4>1
    <3>8. ASSUME NEW m \in 1 .. n + 1, m \in S PROVE \E i \in 1 .. Len(v) : v[i] = m
      <4>1. CASE m = n + 1
        <5>1. len + 1 \in 1 .. len + 1
          BY <3>3
        <5>2. QED
          BY <3>4, <4>1, <5>1
      <4>2. CASE m \in 1 .. n
        <5>1. PICK i \in 1 .. len : w[i] = m
          BY <2>1, <3>3, <3>8, <4>2
        <5>2. i \in 1 .. len + 1
          BY <3>3
        <5>3. QED
          BY <3>4, <5>1, <5>2
      <4>3. QED
        BY <2>2, <4>1, <4>2
    <3>9. ASSUME NEW i \in 1 .. len + 1, NEW j \in 1 .. len + 1, i < j PROVE v[i] < v[j]
      <4>1. i \in 1 .. len
        BY <3>3, <3>9
      <4>2. CASE j = len + 1
        BY <3>4, <3>6, <4>1, <4>2
      <4>3. CASE j \in 1 .. len
        BY <2>1, <3>3, <3>4, <3>9, <4>1, <4>3
      <4>4. QED
        BY <3>5, <4>2, <4>3
    <3>10. Ascends(n + 1, v)
      BY <3>2, <3>4, <3>7, <3>8, <3>9
    <3>11. QED
      BY <2>2, <3>4, <3>10
  <2>6. QED
    BY <2>4, <2>5
<1> HIDE DEF T
<1>3. max \in T
  <2>1. 0 .. max \subseteq T
    BY <1>1, <1>2, BoundedInduction
  <2>2. QED
    BY <2>1
<1>4. QED
  BY <1>3 DEF T


-----------------------------------------------------------------------------
(* file_combine.  If the numbers ascend in the document, sorting changes    *)
(* nothing, and a place in the array is a place in the document.            *)
Rising(post) ==
  \A m, n \in DOMAIN post.made : m < n => post.made[m].number < post.made[n].number

\* An ascending permutation is the identity.
LEMMA Identity ==
  ASSUME NEW k \in Nat, NEW segs, Permuted(segs, k),
         \A m, n \in 1 .. k : m < n => segs[m] < segs[n]
  PROVE  \A n \in 1 .. k : segs[n] = n
<1>1. /\ \A n \in 1 .. k : segs[n] \in 1 .. k
      /\ \A i, j \in 1 .. k : segs[i] = segs[j] => i = j
      /\ \A n \in 1 .. k : \E i \in 1 .. k : segs[i] = n
  BY DEF Permuted
<1> DEFINE T == {n \in 1 .. k : segs[n] # n}
<1> SUFFICES ASSUME T # {} PROVE FALSE
  OBVIOUS
<1>2. T \in SUBSET Nat
  OBVIOUS
<1>3. PICK n \in T : \A m \in T : n <= m
  BY <1>2, LeastNatural
<1>4. n \in 1 .. k /\ segs[n] # n /\ \A m \in 1 .. k : m < n => segs[m] = m
  BY <1>3
<1>5. PICK j \in 1 .. k : segs[j] = n
  BY <1>1, <1>4
<1>6. n < j
  <2>1. j # n
    BY <1>4, <1>5
  <2>2. ~ (j < n)
    BY <1>4, <1>5
  <2>3. QED
    BY <1>4, <2>1, <2>2
<1>7. segs[n] < n /\ segs[n] \in 1 .. k
  BY <1>1, <1>4, <1>5, <1>6
<1>8. segs[segs[n]] = segs[n]
  BY <1>4, <1>7
<1>9. segs[n] = n
  BY <1>1, <1>4, <1>7, <1>8
<1>10. QED
  BY <1>4, <1>9

LEMMA NothingMoved ==
  ASSUME NEW post, post \in PostType, Shaped(post), OneRegion(post), ByNumber(post),
         Rising(post)
  PROVE  \E k \in Nat : /\ post.made \in [1 .. k -> Made]
                        /\ post.status \in [1 .. k -> Verdict]
                        /\ DOMAIN post.segments = 1 .. k /\ Len(post.segments) = k
                        /\ \A n \in 1 .. k : post.segments[n] = n /\ post.made[n].index = n
<1>1. PICK k \in Nat :
        /\ post.made \in [1 .. k -> Made]
        /\ post.status \in [1 .. k -> Verdict]
        /\ Permuted(post.segments, k)
        /\ \A n \in 1 .. k : post.made[n].index = n
  BY DEF Shaped
<1>2. PICK segs : segs = post.segments
  OBVIOUS
<1>3. /\ segs \in [1 .. k -> 1 .. k] /\ Permuted(segs, k)
      /\ \A i, j \in 1 .. k : segs[i] = segs[j] => i = j
  BY <1>1, <1>2 DEF Permuted
<1>4. DOMAIN post.made = 1 .. k /\ DOMAIN segs = 1 .. k /\ Len(segs) = k
  BY <1>1, <1>3
<1>5. \A n \in 1 .. k : post.made[n].number \in Int
  <2> TAKE n \in 1 .. k
  <2>1. post.made[n] \in Made
    BY <1>1
  <2>2. QED
    BY <2>1, DocumentAssumption DEF Made
<1>6. ASSUME NEW m \in 1 .. k, NEW n \in 1 .. k, m < n PROVE segs[m] < segs[n]
  <2>1. segs[m] \in 1 .. k /\ segs[n] \in 1 .. k /\ segs[m] # segs[n]
    BY <1>3, <1>6
  <2>2. post.made[segs[m]].number <= post.made[segs[n]].number
    BY <1>2, <1>4, <1>6, Zenon DEF ByNumber
  <2>3. segs[n] < segs[m] => post.made[segs[n]].number < post.made[segs[m]].number
    BY <1>4, <2>1 DEF Rising
  <2>4. ~ (segs[n] < segs[m])
    BY <1>5, <2>1, <2>2, <2>3
  <2>5. QED
    BY <2>1, <2>4
<1>7. \A n \in 1 .. k : segs[n] = n
  BY <1>3, <1>6, Identity
<1>8. QED
  BY <1>1, <1>2, <1>4, <1>7

\* The chunks that file_combine finds for segment n, if the post is called
\* name and number says what its segments are called.
ChunksOf(ch, name, number, n) == {c \in ch : c.name = <<name, number[n]>>}

Stored(p, post, name, number, ch, ls) ==
  \A n \in DOMAIN post.made :
    post.status[n] = "COMPLETE" =>
      /\ <<p, n>> \in ls => ChunksOf(ch, name, number, n) = {}
      /\ <<p, n>> \notin ls =>
           /\ ChunksOf(ch, name, number, n) # {}
           /\ \A c \in ChunksOf(ch, name, number, n) : c.of = <<p, n>>

\* FileCombine, for a post and chunk files.
MissingOf(post, name, number, ch) ==
  {i \in DOMAIN post.segments :
     post.status[i] # "ERROR" /\ ChunksOf(ch, name, number, post.segments[i]) = {}}
EndOf(post, missing) == IF missing = {} THEN Len(post.segments) ELSE Smallest(missing) - 1
CopiedOf(post, end) == InOrder({i \in 1 .. end : post.status[i] # "ERROR"}, end)
Contents(post, name, number, ch, copied) ==
  [i \in DOMAIN copied |->
     CHOOSE c \in ChunksOf(ch, name, number, post.segments[copied[i]]) : TRUE]
Combine(post, name, number, ch) ==
  [result |-> IF MissingOf(post, name, number, ch) = {} THEN 0 ELSE -1,
   content |-> Contents(post, name, number, ch,
                        CopiedOf(post, EndOf(post, MissingOf(post, name, number, ch))))]

\* What CombinedInOrder says of a post.
Done(post) == {n \in DOMAIN post.made : post.status[n] = "COMPLETE"}
Gaps(p, post, ls) == {n \in Done(post) : <<p, n>> \in ls}
Expected(p, post, ls) == {n \in Done(post) : \A g \in Gaps(p, post, ls) : n < g}

CombinedRight(p, post, ls, comb) ==
  /\ comb.result = IF Gaps(p, post, ls) = {} THEN 0 ELSE -1
  /\ {comb.content[i].of : i \in DOMAIN comb.content} = {<<p, n>> : n \in Expected(p, post, ls)}
  /\ \A i, j \in DOMAIN comb.content : i < j => comb.content[i].of[2] < comb.content[j].of[2]

LEMMA CombineRight ==
  ASSUME NEW p, NEW post, post \in PostType, Shaped(post), OneRegion(post), ByNumber(post),
         Rising(post), \A n \in DOMAIN post.status : post.status[n] # "NEW",
         NEW name, NEW number, NEW ch, NEW ls, Stored(p, post, name, number, ch, ls)
  PROVE  CombinedRight(p, post, ls, Combine(post, name, number, ch))
<1>1. PICK k \in Nat : /\ post.made \in [1 .. k -> Made]
                       /\ post.status \in [1 .. k -> Verdict]
                       /\ DOMAIN post.segments = 1 .. k /\ Len(post.segments) = k
                       /\ \A n \in 1 .. k : post.segments[n] = n /\ post.made[n].index = n
  BY NothingMoved
<1>2. PICK status, at : /\ status = post.status
                        /\ at = [i \in 1 .. k |-> ChunksOf(ch, name, number, i)]
  OBVIOUS
<1>3. \A i \in 1 .. k : status[i] # "ERROR" <=> status[i] = "COMPLETE"
  <2> TAKE i \in 1 .. k
  <2>1. i \in DOMAIN post.status /\ post.status[i] \in Verdict
    BY <1>1
  <2>2. QED
    BY <1>2, <2>1 DEF Verdict
<1> DEFINE done == {n \in 1 .. k : status[n] = "COMPLETE"}
           gaps == {n \in done : <<p, n>> \in ls}
           expected == {n \in done : \A g \in gaps : n < g}
           end == IF gaps = {} THEN k ELSE Smallest(gaps) - 1
           E == {i \in 1 .. end : status[i] # "ERROR"}
           copied == InOrder(E, end)
           content == Contents(post, name, number, ch, copied)
<1>4. \A n \in done : /\ n \in gaps <=> at[n] = {}
                      /\ n \notin gaps => at[n] # {} /\ \A c \in at[n] : c.of = <<p, n>>
  <2> TAKE n \in done
  <2>1. n \in DOMAIN post.made /\ post.status[n] = "COMPLETE" /\ at[n] = ChunksOf(ch, name, number, n)
    BY <1>1, <1>2
  <2>2. QED
    BY <2>1 DEF Stored
<1>5. MissingOf(post, name, number, ch) = gaps
  <2>1. \A i \in 1 .. k : ChunksOf(ch, name, number, post.segments[i]) = at[i]
    BY <1>1, <1>2
  <2>2. \A i \in 1 .. k : (post.status[i] # "ERROR" /\ at[i] = {}) <=> i \in gaps
    BY <1>2, <1>3, <1>4
  <2> HIDE DEF gaps
  <2>3. \A i \in gaps : i \in 1 .. k
    BY DEF gaps
  <2>4. QED
    BY <1>1, <2>1, <2>2, <2>3 DEF MissingOf
<1>6. Combine(post, name, number, ch)
        = [result |-> IF gaps = {} THEN 0 ELSE -1, content |-> content]
  <2> HIDE DEF gaps
  <2>1. EndOf(post, gaps) = end
    BY <1>1 DEF EndOf
  <2> HIDE DEF end
  <2>2. CopiedOf(post, end) = copied
    BY <1>2 DEF CopiedOf
  <2> HIDE DEF copied
  <2>3. Contents(post, name, number, ch, CopiedOf(post, EndOf(post, MissingOf(post, name, number, ch))))
          = content
    BY <1>5, <2>1, <2>2, Zenon
  <2> HIDE DEF content
  <2>4. QED
    BY <1>5, <2>3, Zenon DEF Combine
<1>7. /\ end \in Nat /\ end <= k
      /\ \A n \in 1 .. k : n <= end <=> \A g \in gaps : n < g
  <2>1. CASE gaps = {}
    BY <2>1
  <2>2. CASE gaps # {}
    <3>1. gaps \in SUBSET Nat
      OBVIOUS
    <3>2. \E g \in gaps : \A h \in gaps : g <= h
      BY <2>2, <3>1, LeastNatural
    <3>3. PICK g : g = Smallest(gaps)
      OBVIOUS
    <3>4. g \in gaps /\ \A h \in gaps : g <= h
      BY <3>2, <3>3 DEF Smallest
    <3>5. g \in 1 .. k /\ \A h \in gaps : h \in 1 .. k
      BY <3>4
    <3>6. end = g - 1
      BY <2>2, <3>3
    <3> HIDE DEF end, gaps
    <3>7. end \in Nat /\ end <= k
      BY <3>5, <3>6
    <3>8. ASSUME NEW n \in 1 .. k PROVE n <= end <=> \A h \in gaps : n < h
      <4>1. n <= end <=> n < g
        BY <3>5, <3>6
      <4>2. n < g <=> \A h \in gaps : n < h
        BY <3>4, <3>5
      <4>3. QED
        BY <4>1, <4>2
    <3>9. QED
      BY <3>7, <3>8
  <2>3. QED
    BY <2>1, <2>2
<1>8. E = expected
  <2> HIDE DEF end, gaps
  <2>1. \A i : i \in 1 .. end <=> i \in 1 .. k /\ i <= end
    BY <1>7
  <2>2. \A i \in 1 .. k : status[i] # "ERROR" <=> i \in done
    BY <1>3
  <2>3. \A i \in 1 .. k : i <= end <=> \A g \in gaps : i < g
    BY <1>7
  <2>4. \A i : i \in expected => i \in 1 .. k
    OBVIOUS
  <2>5. QED
    BY <2>1, <2>2, <2>3, <2>4
<1>9. PICK w \in Seq(Nat) :
        /\ copied = w
        /\ \A i \in 1 .. Len(w) : w[i] \in E /\ w[i] \in 1 .. end
        /\ \A n \in 1 .. end : n \in E => \E i \in 1 .. Len(w) : w[i] = n
        /\ \A i, j \in 1 .. Len(w) : i < j => w[i] < w[j]
  <2> HIDE DEF E, end
  <2>1. QED
    BY <1>7, InOrderAscends
<1>10. \A n \in expected : n \in done /\ n \in 1 .. k /\ n \notin gaps
  <2> TAKE n \in expected
  <2>1. n \in done /\ n \in 1 .. k /\ ~ (n < n)
    OBVIOUS
  <2>2. QED
    BY <2>1
<1> HIDE DEF done, gaps, expected, E, end
<1>11. DOMAIN content = 1 .. Len(w) /\ \A i \in 1 .. Len(w) : content[i].of = <<p, w[i]>>
  <2>1. content = Contents(post, name, number, ch, w)
    BY <1>9
  <2> HIDE DEF content
  <2>2. /\ DOMAIN content = 1 .. Len(w)
        /\ \A i \in 1 .. Len(w) :
             content[i] = CHOOSE c \in ChunksOf(ch, name, number, post.segments[w[i]]) : TRUE
    BY <1>9, <2>1 DEF Contents
  <2>3. ASSUME NEW i \in 1 .. Len(w) PROVE content[i].of = <<p, w[i]>>
    <3>1. PICK n : n = w[i]
      OBVIOUS
    <3>2. n \in done /\ n \in 1 .. k /\ n \notin gaps
      BY <1>8, <1>9, <1>10, <3>1
    <3>3. ChunksOf(ch, name, number, post.segments[n]) = at[n]
      BY <1>1, <1>2, <3>2
    <3>4. content[i] = CHOOSE c \in at[n] : TRUE
      BY <2>2, <3>1, <3>3
    <3>5. at[n] # {} /\ \A c \in at[n] : c.of = <<p, n>>
      BY <1>4, <3>2
    <3>6. (CHOOSE c \in at[n] : TRUE) \in at[n]
      BY <3>5
    <3>7. QED
      BY <3>1, <3>4, <3>5, <3>6
  <2>4. QED
    BY <2>2, <2>3
<1> HIDE DEF content
<1>12. {content[i].of : i \in DOMAIN content} = {<<p, n>> : n \in expected}
  <2>1. \A i \in 1 .. Len(w) : w[i] \in expected
    BY <1>8, <1>9
  <2>2. \A n \in expected : \E i \in 1 .. Len(w) : w[i] = n
    <3> TAKE n \in expected
    <3>1. n \in E /\ n \in 1 .. end
      BY <1>8 DEF E
    <3>2. QED
      BY <1>9, <3>1
  <2>3. \A i \in DOMAIN content : content[i].of \in {<<p, n>> : n \in expected}
    BY <1>11, <2>1, Zenon
  <2>4. \A n \in expected : <<p, n>> \in {content[i].of : i \in DOMAIN content}
    <3> TAKE n \in expected
    <3>1. PICK i \in 1 .. Len(w) : w[i] = n
      BY <2>2
    <3>2. i \in DOMAIN content /\ content[i].of = <<p, n>>
      BY <1>11, <3>1
    <3>3. QED
      BY <3>2
  <2>5. QED
    BY <2>3, <2>4, Zenon
<1>13. ASSUME NEW i \in DOMAIN content, NEW j \in DOMAIN content, i < j
       PROVE  content[i].of[2] < content[j].of[2]
  BY <1>9, <1>11, <1>13
<1>14. Gaps(p, post, ls) = gaps /\ Expected(p, post, ls) = expected
  <2>1. Done(post) = done
    BY <1>1, <1>2 DEF Done, done
  <2>2. Gaps(p, post, ls) = gaps
    BY <2>1 DEF Gaps, gaps
  <2>3. QED
    BY <2>1, <2>2 DEF Expected, expected
<1>15. PICK comb : /\ comb = Combine(post, name, number, ch) /\ comb.content = content
                   /\ comb.result = IF gaps = {} THEN 0 ELSE -1
  BY <1>6
<1>16. CombinedRight(p, post, ls, comb)
  BY <1>12, <1>13, <1>14, <1>15 DEF CombinedRight
<1>17. QED
  BY <1>15, <1>16


-----------------------------------------------------------------------------
(* The chunk files.  If no two segments were stored under one name, there   *)
(* is exactly one for every segment that was decoded and not lost.          *)
Differ(ps, wr) ==
  \A p, q \in DOMAIN ps : \A m \in Done(ps[p]), n \in Done(ps[q]) :
    wr[p][m] = wr[q][n] => p = q /\ m = n

\* What was stored is still called what it was called then.
Agree(post, name, number, stored) == \A n \in Done(post) : stored[n] = <<name, number[n]>>

ChunkFor(c, wr, p, n) == c.name = wr[p][n] /\ c.of = <<p, n>>

StoreOK(ps, wr, ch, ls) ==
  /\ \A p \in DOMAIN ps : \A n \in DOMAIN ps[p].made : <<p, n>> \in ls => n \in Done(ps[p])
  /\ Differ(ps, wr) =>
       /\ \A c \in ch : \E p \in DOMAIN ps : \E n \in Done(ps[p]) :
            ChunkFor(c, wr, p, n) /\ <<p, n>> \notin ls
       /\ \A p \in DOMAIN ps : \A n \in Done(ps[p]) :
            <<p, n>> \notin ls => \E c \in ch : ChunkFor(c, wr, p, n)

LEMMA NameTells ==
  ASSUME NEW ps, NEW wr, Differ(ps, wr), NEW p \in DOMAIN ps, NEW q \in DOMAIN ps,
         NEW m \in Done(ps[p]), NEW n \in Done(ps[q]), wr[p][m] = wr[q][n]
  PROVE  p = q /\ m = n
BY DEF Differ

LEMMA StoredFor ==
  ASSUME NEW ps, NEW wr, NEW ch, NEW ls, StoreOK(ps, wr, ch, ls), Differ(ps, wr),
         NEW p \in DOMAIN ps, NEW name, NEW number, Agree(ps[p], name, number, wr[p])
  PROVE  Stored(p, ps[p], name, number, ch, ls)
<1> SUFFICES ASSUME NEW n \in DOMAIN ps[p].made, ps[p].status[n] = "COMPLETE"
             PROVE  /\ <<p, n>> \in ls => ChunksOf(ch, name, number, n) = {}
                    /\ <<p, n>> \notin ls =>
                         /\ ChunksOf(ch, name, number, n) # {}
                         /\ \A c \in ChunksOf(ch, name, number, n) : c.of = <<p, n>>
  BY Zenon DEF Stored
<1>0. n \in Done(ps[p])
  BY DEF Done
<1>1. wr[p][n] = <<name, number[n]>>
  BY <1>0 DEF Agree
<1>2. ASSUME NEW c \in ChunksOf(ch, name, number, n) PROVE c.of = <<p, n>> /\ <<p, n>> \notin ls
  <2>1. c \in ch /\ c.name = wr[p][n]
    BY <1>1 DEF ChunksOf
  <2>2. PICK q \in DOMAIN ps : \E m \in Done(ps[q]) : ChunkFor(c, wr, q, m) /\ <<q, m>> \notin ls
    BY <2>1, Zenon DEF StoreOK
  <2>3. PICK m \in Done(ps[q]) : ChunkFor(c, wr, q, m) /\ <<q, m>> \notin ls
    BY <2>2
  <2>4. c.of = <<q, m>> /\ wr[p][n] = wr[q][m]
    BY <2>1, <2>3 DEF ChunkFor
  <2>5. p = q /\ n = m
    BY <1>0, <2>4, NameTells
  <2>6. QED
    BY <2>3, <2>4, <2>5
<1>3. ASSUME <<p, n>> \notin ls PROVE ChunksOf(ch, name, number, n) # {}
  <2>1. PICK c \in ch : ChunkFor(c, wr, p, n)
    BY <1>0, <1>3, Zenon DEF StoreOK
  <2>2. c.name = <<name, number[n]>>
    BY <1>1, <2>1 DEF ChunkFor
  <2>3. QED
    BY <2>2 DEF ChunksOf
<1>4. QED
  BY <1>2, <1>3

\* Segment n of post p gets its verdict, in r; wr1, ch1 and ls1 are what there
\* is of chunks then.
Marked(ps, r, p, n, v) ==
  /\ p \in DOMAIN ps /\ n \in DOMAIN ps[p].made /\ ps[p].status[n] = "NEW"
  /\ DOMAIN r = DOMAIN ps
  /\ \A q \in DOMAIN ps : r[q].made = ps[q].made
  /\ r[p].status[n] = v
  /\ \A q \in DOMAIN ps : \A m \in DOMAIN ps[q].made :
       q # p \/ m # n => r[q].status[m] = ps[q].status[m]

FailedChunk(wr, ch, ls, wr1, ch1, ls1) == wr1 = wr /\ ch1 = ch /\ ls1 = ls

OthersWritten(ps, p, n, wr, wr1) ==
  \A q \in DOMAIN ps : \A m \in DOMAIN ps[q].made : q # p \/ m # n => wr1[q][m] = wr[q][m]

WrittenChunk(ps, p, n, wr, ch, ls, wr1, ch1, ls1) ==
  /\ OthersWritten(ps, p, n, wr, wr1)
  /\ \E new : ChunkFor(new, wr1, p, n) /\ ch1 = {c \in ch : c.name # wr1[p][n]} \cup {new}
  /\ ls1 = ls

LostChunk(ps, p, n, wr, ch, ls, wr1, ch1, ls1) ==
  /\ OthersWritten(ps, p, n, wr, wr1)
  /\ ch1 = ch /\ ls1 = ls \cup {<<p, n>>}

LEMMA StoreMarked ==
  ASSUME NEW ps, NEW wr, NEW ch, NEW ls, StoreOK(ps, wr, ch, ls),
         NEW r, NEW p, NEW n, NEW v, Marked(ps, r, p, n, v),
         NEW wr1, NEW ch1, NEW ls1,
         \/ v = "ERROR" /\ FailedChunk(wr, ch, ls, wr1, ch1, ls1)
         \/ v = "COMPLETE" /\ WrittenChunk(ps, p, n, wr, ch, ls, wr1, ch1, ls1)
         \/ v = "COMPLETE" /\ LostChunk(ps, p, n, wr, ch, ls, wr1, ch1, ls1)
  PROVE  StoreOK(r, wr1, ch1, ls1) /\ (Differ(r, wr1) => Differ(ps, wr))
<1>1. /\ p \in DOMAIN ps /\ n \in DOMAIN ps[p].made /\ ps[p].status[n] = "NEW"
      /\ DOMAIN r = DOMAIN ps
      /\ \A q \in DOMAIN ps : r[q].made = ps[q].made
      /\ r[p].status[n] = v
      /\ \A q \in DOMAIN ps : \A m \in DOMAIN ps[q].made :
           q # p \/ m # n => r[q].status[m] = ps[q].status[m]
  BY DEF Marked
<1>2. n \notin Done(ps[p])
  BY <1>1 DEF Done
<1>3. ASSUME NEW q \in DOMAIN ps, NEW m
      PROVE  /\ m \in Done(ps[q]) => m \in Done(r[q]) /\ (q # p \/ m # n)
             /\ m \in Done(r[q]) =>
                  m \in Done(ps[q]) \/ (q = p /\ m = n /\ v = "COMPLETE")
  BY <1>1, <1>2 DEF Done
<1>4. ASSUME NEW q \in DOMAIN ps, NEW m \in DOMAIN ps[q].made, q # p \/ m # n
      PROVE  wr1[q][m] = wr[q][m] /\ (<<q, m>> \in ls1 <=> <<q, m>> \in ls)
  <2>1. wr1[q][m] = wr[q][m]
    BY <1>4 DEF FailedChunk, WrittenChunk, LostChunk, OthersWritten
  <2>2. <<q, m>> # <<p, n>>
    BY <1>4
  <2>3. <<q, m>> \in ls1 <=> <<q, m>> \in ls
    BY <2>2 DEF FailedChunk, WrittenChunk, LostChunk
  <2>4. QED
    BY <2>1, <2>3
<1>5. \A q \in DOMAIN ps : \A m \in Done(ps[q]) : m \in DOMAIN ps[q].made
  BY DEF Done
<1>6. <<p, n>> \notin ls
  BY <1>1, <1>2 DEF StoreOK
<1>7. Differ(r, wr1) => Differ(ps, wr)
  <2> SUFFICES ASSUME Differ(r, wr1), NEW q \in DOMAIN ps, NEW u \in DOMAIN ps,
                      NEW m \in Done(ps[q]), NEW l \in Done(ps[u]), wr[q][m] = wr[u][l]
               PROVE  q = u /\ m = l
    BY Zenon DEF Differ
  <2>1. m \in Done(r[q]) /\ l \in Done(r[u]) /\ wr1[q][m] = wr[q][m] /\ wr1[u][l] = wr[u][l]
    BY <1>3, <1>4, <1>5
  <2>2. QED
    <3>1. q \in DOMAIN r /\ u \in DOMAIN r
      BY <1>1
    <3>2. wr1[q][m] = wr1[u][l]
      BY <2>1
    <3>3. QED
      BY <2>1, <3>1, <3>2, NameTells
<1>8. ASSUME NEW q \in DOMAIN ps, NEW m \in DOMAIN ps[q].made, <<q, m>> \in ls1
      PROVE  m \in Done(r[q])
  <2>1. CASE q = p /\ m = n
    <3>1. v = "COMPLETE"
      BY <1>6, <1>8, <2>1 DEF FailedChunk
    <3>2. QED
      BY <1>1, <2>1, <3>1 DEF Done
  <2>2. CASE q # p \/ m # n
    <3>1. <<q, m>> \in ls
      BY <1>4, <1>8, <2>2
    <3>2. m \in Done(ps[q])
      BY <3>1 DEF StoreOK
    <3>3. QED
      BY <1>3, <3>2
  <2>3. QED
    BY <2>1, <2>2
<1>9. ASSUME Differ(r, wr1), NEW c \in ch1
      PROVE  \E q \in DOMAIN ps : \E m \in Done(r[q]) : ChunkFor(c, wr1, q, m) /\ <<q, m>> \notin ls1
  <2>1. CASE c \in ch
    <3>1. PICK q \in DOMAIN ps : \E m \in Done(ps[q]) : ChunkFor(c, wr, q, m) /\ <<q, m>> \notin ls
      BY <1>7, <1>9, <2>1, Zenon DEF StoreOK
    <3>2. PICK m \in Done(ps[q]) : ChunkFor(c, wr, q, m) /\ <<q, m>> \notin ls
      BY <3>1
    <3>3. m \in Done(r[q]) /\ m \in DOMAIN ps[q].made /\ (q # p \/ m # n)
      BY <1>3, <1>5
    <3>4. ChunkFor(c, wr1, q, m) /\ <<q, m>> \notin ls1
      BY <1>4, <3>2, <3>3 DEF ChunkFor
    <3>5. QED
      BY <3>3, <3>4
  <2>2. CASE c \notin ch
    <3>1. WrittenChunk(ps, p, n, wr, ch, ls, wr1, ch1, ls1) /\ v = "COMPLETE"
      BY <1>9, <2>2 DEF LostChunk, FailedChunk
    <3>2. ChunkFor(c, wr1, p, n) /\ ls1 = ls
      BY <1>9, <2>2, <3>1 DEF WrittenChunk
    <3>3. n \in Done(r[p])
      BY <1>1, <3>1 DEF Done
    <3>4. QED
      BY <1>1, <1>6, <3>2, <3>3
  <2>3. QED
    BY <2>1, <2>2
<1>10. ASSUME Differ(r, wr1), NEW q \in DOMAIN ps, NEW m \in Done(r[q]), <<q, m>> \notin ls1
       PROVE  \E c \in ch1 : ChunkFor(c, wr1, q, m)
  <2>1. CASE q = p /\ m = n
    <3>1. v = "COMPLETE"
      BY <1>1, <2>1 DEF Done
    <3>2. WrittenChunk(ps, p, n, wr, ch, ls, wr1, ch1, ls1)
      BY <1>10, <2>1, <3>1 DEF LostChunk
    <3>3. QED
      BY <2>1, <3>2 DEF WrittenChunk
  <2>2. CASE q # p \/ m # n
    <3>1. m \in Done(ps[q]) /\ m \in DOMAIN ps[q].made
      BY <1>3, <1>5, <2>2
    <3>2. wr1[q][m] = wr[q][m] /\ <<q, m>> \notin ls
      BY <1>4, <1>10, <2>2, <3>1
    <3>3. PICK c \in ch : ChunkFor(c, wr, q, m)
      BY <1>7, <1>10, <3>1, <3>2, Zenon DEF StoreOK
    <3>4. ChunkFor(c, wr1, q, m) /\ c.name = wr1[q][m]
      BY <3>2, <3>3 DEF ChunkFor
    <3>5. ASSUME v = "COMPLETE" PROVE wr1[q][m] # wr1[p][n]
      <4>1. n \in Done(r[p])
        BY <1>1, <3>5 DEF Done
      <4>2. p \in DOMAIN r /\ q \in DOMAIN r
        BY <1>1
      <4>3. wr1[q][m] = wr1[p][n] => q = p /\ m = n
        BY <1>10, <4>1, <4>2, NameTells
      <4>4. QED
        BY <2>2, <4>3
    <3>6. c \in ch1
      BY <3>3, <3>4, <3>5 DEF WrittenChunk, LostChunk, FailedChunk
    <3>7. QED
      BY <3>4, <3>6
  <2>3. QED
    BY <2>1, <2>2
<1>11. QED
  BY <1>1, <1>7, <1>8, <1>9, <1>10 DEF StoreOK


-----------------------------------------------------------------------------
(* The invariant of Assembly: nothing happens before the files are listed,  *)
(* the chunk files are what the verdicts say, and so is what was combined.  *)
AllNew(ps) ==
  \A p \in 1 .. Len(ps) : \A n \in DOMAIN ps[p].status : ps[p].status[n] = "NEW"

CombinedOK(ps, fs, ns, wr, ls, cs) ==
  /\ DOMAIN cs = 1 .. Len(ps)
  /\ \A p \in 1 .. Len(ps) : cs[p] # NotCombined =>
       /\ \A n \in DOMAIN ps[p].status : ps[p].status[n] # "NEW"
       /\ OneRegion(ps[p]) /\ Rising(ps[p]) /\ Differ(ps, wr) /\ Agree(ps[p], fs[p], ns[p], wr[p])
            => CombinedRight(p, ps[p], ls, cs[p])

\* Every post has a name, and every segment one that it was stored under.
Sized(ps, fs, wr) ==
  /\ DOMAIN fs = 1 .. Len(ps) /\ DOMAIN wr = 1 .. Len(ps)
  /\ \A p \in 1 .. Len(ps) : DOMAIN wr[p] = DOMAIN ps[p].made

AssembledInv ==
  /\ ParserInv
  /\ phase \in {"parsing", "parsed"} => AllNew(posts) /\ chunks = {} /\ lost = {}
  /\ phase \in {"parsed", "listed"} /\ first # NULL => open = "nzb"
  /\ Sized(posts, filenames, written)
  /\ StoreOK(posts, written, chunks, lost)
  /\ CombinedOK(posts, filenames, numbers, written, lost, combined)

\* What a step of the parser does to the verdicts.
LEMMA NewAfter ==
  ASSUME NEW ps, ps \in Seq(PostType), AllNew(ps), NEW l, NEW q,
         \A n \in DOMAIN q.status : q.status[n] = "NEW",
         NEW r, r = [ps EXCEPT ![l] = q]
  PROVE  AllNew(r)
<1>1. PICK len \in Nat : len = Len(ps) /\ ps \in [1 .. len -> PostType]
  OBVIOUS
<1>2. DOMAIN r = 1 .. len
  BY <1>1
<1>3. Len(r) = len
  BY <1>1, <1>2
<1>4. ASSUME NEW p \in 1 .. len PROVE r[p] = ps[p] \/ r[p] = q
  BY <1>1
<1>5. QED
  BY <1>1, <1>3, <1>4 DEF AllNew

LEMMA ParseNew ==
  ASSUME ParserInv, AllNew(posts), ParserNext
  PROVE  AllNew(posts')
<1>1. PICK len \in Nat : len = Len(posts) /\ posts \in [1 .. len -> PostType]
  BY DEF ParserInv, PostsOK
<1>2. /\ posts \in Seq(PostType)
      /\ \A p \in 1 .. len : \A n \in DOMAIN posts[p].status : posts[p].status[n] = "NEW"
  BY <1>1 DEF ParserInv, PostsOK, AllNew
<1>3. ASSUME open # "nzb" PROVE last \in 1 .. len /\ posts[last] \in PostType
  BY <1>1, <1>3, LastPost
<1>4. ASSUME NEW s, ParseFileElement(s) PROVE AllNew(posts')
  <2> DEFINE linked == IF last = NULL THEN posts ELSE [posts EXCEPT ![last].next = len + 1]
             new == PostCreate(s)
  <2>1. posts' = Append(linked, new)
    BY <1>1, <1>4 DEF ParseFileElement
  <2>2. /\ DOMAIN linked = 1 .. len
        /\ linked = [p \in 1 .. len |-> linked[p]]
        /\ \A p \in 1 .. len : linked[p].status = posts[p].status
    <3>1. \A p \in 1 .. len : [posts[p] EXCEPT !.next = len + 1].status = posts[p].status
      <4> TAKE p \in 1 .. len
      <4>1. posts[p] \in PostType
        BY <1>1
      <4>2. QED
        BY <4>1 DEF PostType
    <3>2. QED
      BY <1>1, <3>1
  <2>3. new.status = <<>>
    BY DEF PostCreate
  <2> HIDE DEF linked, new
  <2>4. PICK X : linked \in [1 .. len -> X] /\ new \in X
    <3> DEFINE X == {linked[p] : p \in 1 .. len} \cup {new}
    <3>1. linked \in Seq(X) /\ new \in X
      <4>1. \A p \in 1 .. len : linked[p] \in X
        OBVIOUS
      <4> HIDE DEF X
      <4>2. linked \in [1 .. len -> X]
        BY <2>2, <4>1
      <4>3. linked \in Seq(X)
        BY <1>1, <4>2
      <4>4. new \in X
        BY DEF X
      <4>5. QED
        BY <4>3, <4>4
    <3> HIDE DEF X
    <3>2. linked \in [1 .. len -> X]
      BY <1>1, <2>2, <3>1
    <3>3. QED
      BY <3>1, <3>2
  <2>5. /\ Len(posts') = len + 1 /\ posts'[len+1] = new
        /\ \A p \in 1 .. len : posts'[p] = linked[p]
    <3>1. linked \in Seq(X) /\ Len(linked) = len
      BY <1>1, <2>4
    <3>2. QED
      BY <2>1, <2>4, <3>1, AppendProperties
  <2>6. ASSUME NEW p \in 1 .. len + 1, NEW n \in DOMAIN posts'[p].status
        PROVE  posts'[p].status[n] = "NEW"
    <3>1. CASE p = len + 1
      BY <2>3, <2>5, <2>6, <3>1
    <3>2. CASE p \in 1 .. len
      BY <1>2, <2>2, <2>5, <2>6, <3>2
    <3>3. QED
      BY <3>1, <3>2
  <2>7. QED
    BY <2>5, <2>6 DEF AllNew
<1>5. ASSUME NEW q, \A n \in DOMAIN q.status : q.status[n] = "NEW",
             posts' = [posts EXCEPT ![last] = q]
      PROVE  AllNew(posts')
  BY <1>2, <1>5, NewAfter
<1>6. ASSUME NEW q, last \in 1 .. len, q.status = posts[last].status,
             posts' = [posts EXCEPT ![last] = q]
      PROVE  AllNew(posts')
  BY <1>2, <1>5, <1>6
<1>7. ASSUME NEW t, ParseGroupElement(t) PROVE AllNew(posts')
  <2>1. PICK q : q = [posts[last] EXCEPT !.groups = Append(posts[last].groups, <<>>)]
    OBVIOUS
  <2>2. last \in 1 .. len /\ posts[last] \in PostType
    BY <1>3, <1>7 DEF ParseGroupElement
  <2>3. q.status = posts[last].status
    BY <2>1, <2>2 DEF PostType
  <2>4. posts' = [posts EXCEPT ![last] = q]
    BY <1>7, <2>1 DEF ParseGroupElement
  <2>5. QED
    BY <1>6, <2>2, <2>3, <2>4
<1>8. ASSUME NEW k, NEW t, NEW h, ParseSegmentElement(k, t, h) PROVE AllNew(posts')
  <2> DEFINE n == Len(posts[last].made) + 1
             status == Append(posts[last].status, "NEW")
  <2>1. PICK q : q = [posts[last] EXCEPT
                        !.made = Append(@, [number |-> k, index |-> n, high |-> h,
                                            messageid |-> <<>>]),
                        !.segments = Append(@, n), !.status = status]
    OBVIOUS
  <2>2. last \in 1 .. len /\ posts[last] \in PostType
    BY <1>3, <1>8 DEF ParseSegmentElement
  <2>3. posts' = [posts EXCEPT ![last] = q]
    BY <1>8, <2>1 DEF ParseSegmentElement
  <2>4. q.status = status
    <3> HIDE DEF n, status
    <3>1. QED
      BY <2>1, <2>2 DEF PostType
  <2>5. ASSUME NEW m \in DOMAIN status PROVE status[m] = "NEW"
    <3>0. PICK old : old = posts[last].status
      OBVIOUS
    <3>1. PICK size \in Nat : old = posts[last].status /\ size = Len(old)
      BY <2>2, <3>0 DEF PostType
    <3>2. old \in Seq(Verdict) /\ "NEW" \in Verdict
      BY <2>2, <3>1 DEF PostType, Verdict
    <3>3. /\ status \in Seq(Verdict) /\ Len(status) = size + 1 /\ status[size+1] = "NEW"
          /\ \A j \in 1 .. size : status[j] = old[j]
      BY <3>1, <3>2, AppendProperties
    <3>4. m \in 1 .. size \/ m = size + 1
      BY <3>3
    <3>5. \A j \in 1 .. size : old[j] = "NEW"
      BY <1>2, <2>2, <3>1, <3>2
    <3>6. QED
      BY <3>3, <3>4, <3>5
  <2> HIDE DEF n, status
  <2>6. QED
    BY <1>5, <2>3, <2>4, <2>5
<1>9. ASSUME NEW n \in 1 .. Len(rest), ElementData(n) PROVE AllNew(posts')
  <2>1. /\ inGroup = (open = "group") /\ inSegment = (open = "segment")
    BY DEF ParserInv, Pointers
  <2>2. PICK kept, group :
          posts' =
             IF inSegment
             THEN [posts EXCEPT ![last].made[lastSegment].messageid = Extended(@, kept)]
             ELSE IF inGroup THEN [posts EXCEPT ![last].groups[group] = Extended(@, kept)]
             ELSE posts
    BY <1>9 DEF ElementData
  <2>3. CASE inSegment
    <3>1. PICK q : q = [posts[last] EXCEPT !.made[lastSegment].messageid = Extended(@, kept)]
      OBVIOUS
    <3>2. last \in 1 .. len /\ posts[last] \in PostType
      BY <1>3, <2>1, <2>3
    <3>3. q.status = posts[last].status
      BY <3>1, <3>2 DEF PostType
    <3>4. posts' = [posts EXCEPT ![last] = q]
      BY <2>2, <2>3, <3>1
    <3>5. QED
      BY <1>6, <3>2, <3>3, <3>4
  <2>4. CASE ~ inSegment /\ inGroup
    <3>1. PICK q : q = [posts[last] EXCEPT !.groups[group] = Extended(@, kept)]
      OBVIOUS
    <3>2. last \in 1 .. len /\ posts[last] \in PostType
      BY <1>3, <2>1, <2>4
    <3>3. q.status = posts[last].status
      BY <3>1, <3>2 DEF PostType
    <3>4. posts' = [posts EXCEPT ![last] = q]
      BY <2>2, <2>4, <3>1
    <3>5. QED
      BY <1>6, <3>2, <3>3, <3>4
  <2>5. QED
    BY <2>1, <2>2, <2>3, <2>4
<1>10. ASSUME NEW wild, ElementEnd(wild) PROVE AllNew(posts')
  <2>1. CASE open = "file"
    <3>1. PICK q : q = [posts[last] EXCEPT !.segments = PostSegmentsSort(posts[last], wild)]
      OBVIOUS
    <3>2. last \in 1 .. len /\ posts[last] \in PostType
      BY <1>3, <2>1
    <3>3. q.status = posts[last].status
      BY <3>1, <3>2 DEF PostType
    <3>4. posts' = [posts EXCEPT ![last] = q]
      BY <1>10, <2>1, <3>1 DEF ElementEnd
    <3>5. QED
      BY <1>6, <3>2, <3>3, <3>4
  <2>2. CASE open # "file"
    BY <1>10, <2>2 DEF ElementEnd
  <2>3. QED
    BY <2>1, <2>2
<1>11. ASSUME posts' = posts PROVE AllNew(posts')
  BY <1>11
<1>12. QED
  BY <1>4, <1>7, <1>8, <1>9, <1>10, <1>11, Zenon
     DEF ParserNext, ParseEnds, ListFiles, FilenameCrash, SortCrash


LEMMA ParserKept ==
  ASSUME AssembledInv, Parse
  PROVE  AssembledInv'
<1>1. ParserInv /\ ParserInv'
  BY ParserStep DEF AssembledInv, Next
<1>2. phase \in {"parsing", "parsed"}
  BY DEF Parse, ParserNext, ParseEnds, ListFiles
<1>3. /\ AllNew(posts) /\ chunks = {} /\ lost = {} /\ chunks' = {} /\ lost' = {}
      /\ combined' = [p \in 1 .. Len(posts') |-> NotCombined]
      /\ filenames' = [p \in 1 .. Len(posts') |-> posts'[p].filename]
      /\ written' = [p \in 1 .. Len(posts') |-> [n \in DOMAIN posts'[p].made |-> NULL]]
  BY <1>2 DEF AssembledInv, Parse
<1>4. AllNew(posts')
  BY <1>1, <1>3, ParseNew DEF Parse
<1>5. posts' \in Seq(PostType) /\ \A p \in 1 .. Len(posts') : Shaped(posts'[p])
  BY <1>1 DEF ParserInv, PostsOK
<1>6. \A p \in DOMAIN posts' : Done(posts'[p]) = {}
  <2> TAKE p \in DOMAIN posts'
  <2>1. p \in 1 .. Len(posts')
    BY <1>5
  <2>2. DOMAIN posts'[p].made = DOMAIN posts'[p].status
    BY <1>5, <2>1 DEF Shaped
  <2>3. QED
    BY <1>4, <2>1, <2>2 DEF AllNew, Done
<1>7. StoreOK(posts', written', chunks', lost')
  BY <1>3, <1>6 DEF StoreOK
<1>8. CombinedOK(posts', filenames', numbers', written', lost', combined')
  <2>1. DOMAIN combined' = 1 .. Len(posts') /\ \A p \in 1 .. Len(posts') : combined'[p] = NotCombined
    BY <1>3
  <2>2. QED
    BY <2>1, Zenon DEF CombinedOK
<1>9. Sized(posts', filenames', written')
  BY <1>3 DEF Sized
<1>10. phase' \in {"parsed", "listed"} /\ first' # NULL => open' = "nzb"
  <2>1. CASE phase = "parsing" /\ phase' \in {"parsing", "crashed"}
    BY <2>1
  <2>2. CASE ParseEnds
    BY <2>2 DEF ParseEnds
  <2>3. CASE ListFiles
    BY <2>3 DEF ListFiles, archiveVars, AssembledInv
  <2>4. QED
    BY <2>1, <2>2, <2>3, Zenon
    DEF Parse, ParserNext, ParseFileElement, FilenameCrash, ParseGroupElement,
        ParseSegmentElement, ElementData, ElementEnd, SortCrash
<1>11. QED
  BY <1>1, <1>3, <1>4, <1>7, <1>8, <1>9, <1>10 DEF AssembledInv

\* A post that waits for a verdict can be reached, and is sorted.
LEMMA PendingPost ==
  ASSUME AssembledInv, NEW p, NEW n, p \in DOMAIN posts, n \in DOMAIN posts[p].made,
         Pending(p, n), NEW v, Status(p, n, v)
  PROVE  /\ phase = "listed" /\ open = "nzb"
         /\ Len(posts') = Len(posts) /\ Marked(posts, posts', p, n, v)
         /\ \A q \in DOMAIN posts : q # p => posts'[q] = posts[q]
<1>1. ParserInv
  BY DEF AssembledInv
<1>2. PICK len \in Nat : len = Len(posts) /\ posts \in [1 .. len -> PostType]
  BY <1>1 DEF ParserInv, PostsOK
<1>3. p \in 1 .. len /\ posts[p] \in PostType /\ Shaped(posts[p])
  BY <1>1, <1>2 DEF ParserInv, PostsOK
<1>4. PICK k \in Nat : /\ posts[p].made \in [1 .. k -> Made]
                       /\ posts[p].status \in [1 .. k -> Verdict]
                       /\ \A m \in 1 .. k : posts[p].made[m].index = m
  BY <1>3 DEF Shaped
<1>5. n \in 1 .. k /\ StatusSlot(p, n) = n
  BY <1>4 DEF StatusSlot
<1>6. phase = "listed" /\ posts[p].status[n] = "NEW"
  BY <1>4, <1>5 DEF Pending
<1>7. first # NULL
  <2> SUFFICES ASSUME first = NULL PROVE FALSE
    OBVIOUS
  <2>1. PostsOK(posts, open)
    BY <1>1 DEF ParserInv
  <2>2. Linked = <<>>
    BY <2>1, LinkedAll
  <2>3. PICK j \in DOMAIN Linked : TRUE
    BY DEF Pending
  <2>4. QED
    BY <2>2, <2>3
<1>8. open = "nzb"
  BY <1>6, <1>7 DEF AssembledInv
<1>9. PICK post : post = posts[p]
  OBVIOUS
<1>10. PICK q : q = [post EXCEPT !.status[n] = v]
  OBVIOUS
<1>11. posts' = [posts EXCEPT ![p] = q]
  BY <1>5, <1>9, <1>10 DEF Status
<1>12. /\ q.made = post.made
       /\ q.status = [post.status EXCEPT ![n] = v]
  BY <1>3, <1>9, <1>10 DEF PostType
<1>13. /\ DOMAIN posts' = 1 .. len /\ posts'[p] = q
       /\ \A r \in 1 .. len : r # p => posts'[r] = posts[r]
  BY <1>2, <1>3, <1>11
<1>14. Len(posts') = len
  BY <1>2, <1>13
<1>15. /\ \A r \in 1 .. len : posts'[r].made = posts[r].made
       /\ posts'[p].status[n] = v
       /\ \A m \in DOMAIN post.made : m # n => posts'[p].status[m] = post.status[m]
  BY <1>4, <1>5, <1>9, <1>12, <1>13
<1>16. Marked(posts, posts', p, n, v)
  <2>1. ASSUME NEW r \in 1 .. len, NEW m \in DOMAIN posts[r].made, r # p \/ m # n
        PROVE  posts'[r].status[m] = posts[r].status[m]
    BY <1>9, <1>13, <1>15, <2>1
  <2>2. DOMAIN posts = 1 .. len
    BY <1>2
  <2>3. QED
    BY <1>6, <1>13, <1>15, <2>1, <2>2 DEF Marked
<1>17. QED
  BY <1>2, <1>6, <1>8, <1>13, <1>14, <1>16

\* What a verdict on post p leaves to the other posts.
OthersNamed(ps, p, fs, ns, wr, fs1, ns1, wr1) ==
  \A q \in DOMAIN ps : q # p => fs1[q] = fs[q] /\ ns1[q] = ns[q] /\ wr1[q] = wr[q]

\* A post that is still incomplete has not been combined; the others keep
\* what they have.
LEMMA OthersCombined ==
  ASSUME NEW ps, NEW fs, NEW ns, NEW wr, NEW ls, NEW cs, CombinedOK(ps, fs, ns, wr, ls, cs),
         NEW r, NEW p, NEW n, NEW v, Marked(ps, r, p, n, v), Len(r) = Len(ps),
         DOMAIN ps = 1 .. Len(ps), DOMAIN ps[p].status = DOMAIN ps[p].made,
         \A q \in DOMAIN ps : q # p => r[q] = ps[q],
         NEW fs1, NEW ns1, NEW wr1, OthersNamed(ps, p, fs, ns, wr, fs1, ns1, wr1),
         Differ(r, wr1) => Differ(ps, wr),
         NEW ls1, ls1 \subseteq ls \cup {<<p, n>>}, ls \subseteq ls1,
         NEW cs1, DOMAIN cs1 = DOMAIN cs, \A q \in DOMAIN cs : q # p => cs1[q] = cs[q],
         cs1[p] # NotCombined =>
           \/ cs1[p] = cs[p]
           \/ /\ \A m \in DOMAIN r[p].status : r[p].status[m] # "NEW"
              /\ OneRegion(r[p]) /\ Rising(r[p]) /\ Differ(r, wr1)
                   /\ Agree(r[p], fs1[p], ns1[p], wr1[p]) => CombinedRight(p, r[p], ls1, cs1[p])
  PROVE  CombinedOK(r, fs1, ns1, wr1, ls1, cs1)
<1>1. p \in DOMAIN ps /\ n \in DOMAIN ps[p].status /\ ps[p].status[n] = "NEW"
  BY DEF Marked
<1>2. cs[p] = NotCombined
  BY <1>1 DEF CombinedOK
<1>3. ASSUME NEW q \in DOMAIN ps, q # p, cs1[q] # NotCombined
      PROVE  /\ \A m \in DOMAIN r[q].status : r[q].status[m] # "NEW"
             /\ OneRegion(r[q]) /\ Rising(r[q]) /\ Differ(r, wr1)
                  /\ Agree(r[q], fs1[q], ns1[q], wr1[q]) => CombinedRight(q, r[q], ls1, cs1[q])
  <2>1. r[q] = ps[q] /\ cs1[q] = cs[q] /\ fs1[q] = fs[q] /\ ns1[q] = ns[q] /\ wr1[q] = wr[q]
    BY <1>3 DEF CombinedOK, OthersNamed
  <2>2. /\ \A m \in DOMAIN ps[q].status : ps[q].status[m] # "NEW"
        /\ OneRegion(ps[q]) /\ Rising(ps[q]) /\ Differ(ps, wr) /\ Agree(ps[q], fs[q], ns[q], wr[q])
             => CombinedRight(q, ps[q], ls, cs[q])
    BY <1>3, <2>1 DEF CombinedOK
  <2>3. Gaps(q, ps[q], ls1) = Gaps(q, ps[q], ls)
    <3>1. \A m : <<q, m>> # <<p, n>>
      BY <1>3
    <3>2. \A m : <<q, m>> \in ls1 <=> <<q, m>> \in ls
      BY <3>1
    <3>3. QED
      BY <3>2 DEF Gaps
  <2>4. CombinedRight(q, ps[q], ls1, cs[q]) <=> CombinedRight(q, ps[q], ls, cs[q])
    BY <2>3 DEF CombinedRight, Expected
  <2>5. QED
    BY <2>1, <2>2, <2>4
<1>4. QED
  BY <1>1, <1>2, <1>3 DEF CombinedOK

LEMMA AssembledInit == Init => AssembledInv
<1> SUFFICES ASSUME Init PROVE AssembledInv
  OBVIOUS
<1>1. ParserInv
  BY ParserInit1
<1>2. /\ phase = "parsing" /\ posts = <<>> /\ first = NULL
      /\ filenames = <<>> /\ written = <<>>
      /\ chunks = {} /\ lost = {} /\ combined = <<>>
  BY DEF Init, ParserInit
<1>3. /\ DOMAIN posts = {} /\ Len(posts) = 0 /\ DOMAIN combined = 1 .. 0
      /\ DOMAIN filenames = 1 .. 0 /\ DOMAIN written = 1 .. 0
  BY <1>2
<1>4. /\ AllNew(posts) /\ Sized(posts, filenames, written)
      /\ StoreOK(posts, written, chunks, lost)
      /\ CombinedOK(posts, filenames, numbers, written, lost, combined)
  BY <1>2, <1>3 DEF AllNew, Sized, StoreOK, CombinedOK
<1>5. QED
  BY <1>1, <1>2, <1>4 DEF AssembledInv

\* A verdict changes no other post, whatever the article's header says.
LEMMA ReadNames ==
  ASSUME AssembledInv, NumbersInv, NEW p \in DOMAIN posts, NEW n \in DOMAIN posts[p].made,
         NEW header, ReadHeader(p, n, header)
  PROVE  /\ DOMAIN filenames' = DOMAIN filenames
         /\ \A q \in DOMAIN posts : q # p => filenames'[q] = filenames[q] /\ numbers'[q] = numbers[q]
<1>1. DOMAIN posts = 1 .. Len(posts)
  BY DEF AssembledInv, ParserInv, PostsOK
<1>2. DOMAIN filenames = DOMAIN posts /\ DOMAIN numbers = DOMAIN posts
  BY <1>1 DEF AssembledInv, Sized, NumbersInv
<1>3. QED
  BY <1>2 DEF ReadHeader

LEMMA FailKept ==
  ASSUME AssembledInv, NumbersInv, NEW p \in DOMAIN posts, NEW n \in DOMAIN posts[p].made,
         NEW header \in Header, Fail(p, n, header)
  PROVE  AssembledInv'
<1>1. ParserInv /\ ParserInv'
  BY ParserStep DEF AssembledInv, Next
<1>2. /\ Pending(p, n) /\ ReadHeader(p, n, header) /\ Status(p, n, "ERROR")
      /\ phase' = phase /\ first' = first /\ open' = open
      /\ chunks' = chunks /\ lost' = lost /\ combined' = combined /\ written' = written
  BY DEF Fail, archiveVars
<1>3. /\ phase = "listed" /\ open = "nzb" /\ Len(posts') = Len(posts)
      /\ Marked(posts, posts', p, n, "ERROR")
      /\ \A q \in DOMAIN posts : q # p => posts'[q] = posts[q]
  BY <1>2, PendingPost
<1>4. /\ StoreOK(posts, written, chunks, lost) /\ Sized(posts, filenames, written)
      /\ CombinedOK(posts, filenames, numbers, written, lost, combined)
  BY DEF AssembledInv
<1>5. /\ StoreOK(posts', written', chunks', lost')
      /\ Differ(posts', written') => Differ(posts, written)
  <2>1. FailedChunk(written, chunks, lost, written', chunks', lost')
    BY <1>2 DEF FailedChunk
  <2>2. QED
    BY <1>3, <1>4, <2>1, StoreMarked
<1>6. DOMAIN posts = 1 .. Len(posts) /\ DOMAIN posts[p].status = DOMAIN posts[p].made
  <2>1. posts \in Seq(PostType)
    BY <1>1 DEF ParserInv, PostsOK
  <2>2. Shaped(posts[p])
    BY <1>1, <2>1 DEF ParserInv, PostsOK
  <2>3. QED
    BY <2>1, <2>2 DEF Shaped
<1>7. /\ DOMAIN filenames' = DOMAIN filenames
      /\ OthersNamed(posts, p, filenames, numbers, written, filenames', numbers', written')
  BY <1>2, ReadNames DEF OthersNamed
<1>8. CombinedOK(posts', filenames', numbers', written', lost', combined')
  BY <1>2, <1>3, <1>4, <1>5, <1>6, <1>7, OthersCombined
<1>9. Sized(posts', filenames', written')
  BY <1>2, <1>3, <1>4, <1>6, <1>7 DEF Sized, Marked
<1>10. QED
  BY <1>1, <1>2, <1>3, <1>5, <1>8, <1>9 DEF AssembledInv

LEMMA CompleteKept ==
  ASSUME AssembledInv, NumbersInv, NEW p \in DOMAIN posts, NEW n \in DOMAIN posts[p].made,
         NEW header \in Header, Complete(p, n, header)
  PROVE  AssembledInv'
<1>1. ParserInv /\ ParserInv'
  BY ParserStep DEF AssembledInv, Next
<1>2. /\ Pending(p, n) /\ ReadHeader(p, n, header) /\ Status(p, n, "COMPLETE")
      /\ FileWriteChunk(p, n)
      /\ phase' = phase /\ first' = first /\ open' = open
      /\ combined' = [combined EXCEPT ![p] =
                        IF \A i \in DOMAIN posts'[p].status : posts'[p].status[i] # "NEW"
                        THEN FileCombine(p)' ELSE @]
  BY DEF Complete, archiveVars
<1>3. /\ phase = "listed" /\ open = "nzb" /\ Len(posts') = Len(posts)
      /\ Marked(posts, posts', p, n, "COMPLETE")
      /\ \A q \in DOMAIN posts : q # p => posts'[q] = posts[q]
  BY <1>2, PendingPost
<1>4. /\ StoreOK(posts, written, chunks, lost) /\ Sized(posts, filenames, written)
      /\ CombinedOK(posts, filenames, numbers, written, lost, combined)
  BY DEF AssembledInv
<1>5. DOMAIN posts = 1 .. Len(posts) /\ DOMAIN posts[p].status = DOMAIN posts[p].made
  <2>1. posts \in Seq(PostType)
    BY <1>1 DEF ParserInv, PostsOK
  <2>2. Shaped(posts[p])
    BY <1>1, <2>1 DEF ParserInv, PostsOK
  <2>3. QED
    BY <2>1, <2>2 DEF Shaped
<1>6. PICK name : /\ name = ChunkName(p, n)'
                  /\ written' = [written EXCEPT ![p] = [written[p] EXCEPT ![n] = name]]
  BY <1>2 DEF FileWriteChunk
<1>7. /\ written'[p][n] = name
      /\ DOMAIN written' = DOMAIN written /\ DOMAIN written'[p] = DOMAIN written[p]
      /\ \A m \in DOMAIN posts[p].made : m # n => written'[p][m] = written[p][m]
      /\ \A q \in DOMAIN posts : q # p => written'[q] = written[q]
  <2>1. p \in DOMAIN written /\ n \in DOMAIN written[p] /\ DOMAIN written = DOMAIN posts
    BY <1>4, <1>5 DEF Sized
  <2>2. written'[p] = [written[p] EXCEPT ![n] = name]
    BY <1>6, <2>1
  <2>3. QED
    BY <1>6, <2>1, <2>2
<1>8. OthersWritten(posts, p, n, written, written')
  BY <1>7 DEF OthersWritten
<1>9. \/ WrittenChunk(posts, p, n, written, chunks, lost, written', chunks', lost')
      \/ LostChunk(posts, p, n, written, chunks, lost, written', chunks', lost')
  <2>1. ASSUME NEW whole \in BOOLEAN,
               chunks' = {c \in chunks : c.name # name} \cup
                           {[name |-> name, of |-> <<p, n>>, whole |-> whole]},
               lost' = lost
        PROVE  WrittenChunk(posts, p, n, written, chunks, lost, written', chunks', lost')
    <3>1. PICK new : new = [name |-> name, of |-> <<p, n>>, whole |-> whole]
      OBVIOUS
    <3>2. ChunkFor(new, written', p, n)
      BY <1>7, <3>1 DEF ChunkFor
    <3>3. chunks' = {c \in chunks : c.name # written'[p][n]} \cup {new}
      BY <1>7, <2>1, <3>1
    <3>4. QED
      BY <1>8, <2>1, <3>2, <3>3 DEF WrittenChunk
  <2>2. ASSUME lost' = lost \cup {<<p, n>>}, chunks' = chunks
        PROVE  LostChunk(posts, p, n, written, chunks, lost, written', chunks', lost')
    BY <1>8, <2>2 DEF LostChunk
  <2>3. QED
    BY <1>2, <1>6, <2>1, <2>2, Zenon DEF FileWriteChunk
<1>10. /\ StoreOK(posts', written', chunks', lost')
       /\ Differ(posts', written') => Differ(posts, written)
  BY <1>3, <1>4, <1>9, StoreMarked
<1>11. DOMAIN combined = DOMAIN posts
  BY <1>4, <1>5 DEF CombinedOK
<1>12. FileCombine(p)' = Combine(posts'[p], filenames'[p], numbers'[p], chunks')
  BY Zenon DEF FileCombine, Combine, Contents, MissingOf, EndOf, CopiedOf, ChunksOf, ChunkName
<1>13. DOMAIN combined' = DOMAIN combined /\ \A q \in DOMAIN combined : q # p => combined'[q] = combined[q]
  BY <1>2
<1>14. combined'[p] = IF \A i \in DOMAIN posts'[p].status : posts'[p].status[i] # "NEW"
                      THEN Combine(posts'[p], filenames'[p], numbers'[p], chunks') ELSE combined[p]
  BY <1>2, <1>11, <1>12
<1>15. ASSUME \A i \in DOMAIN posts'[p].status : posts'[p].status[i] # "NEW",
              OneRegion(posts'[p]), Rising(posts'[p]), Differ(posts', written'),
              Agree(posts'[p], filenames'[p], numbers'[p], written'[p])
       PROVE  CombinedRight(p, posts'[p], lost',
                            Combine(posts'[p], filenames'[p], numbers'[p], chunks'))
  <2>1. p \in DOMAIN posts' /\ p \in 1 .. Len(posts')
    BY <1>3, <1>5 DEF Marked
  <2>2. PostsOK(posts', "nzb")
    BY <1>1, <1>2, <1>3 DEF ParserInv
  <2>3. posts'[p] \in PostType /\ Shaped(posts'[p]) /\ ByNumber(posts'[p])
    BY <2>1, <2>2 DEF PostsOK
  <2>4. Stored(p, posts'[p], filenames'[p], numbers'[p], chunks', lost')
    BY <1>10, <1>15, <2>1, StoredFor
  <2>5. QED
    BY <1>15, <2>3, <2>4, CombineRight
<1>16. lost' \subseteq lost \cup {<<p, n>>} /\ lost \subseteq lost'
  BY <1>9 DEF WrittenChunk, LostChunk
<1>17. /\ DOMAIN filenames' = DOMAIN filenames
       /\ OthersNamed(posts, p, filenames, numbers, written, filenames', numbers', written')
  BY <1>2, <1>7, ReadNames DEF OthersNamed
<1>18. CombinedOK(posts', filenames', numbers', written', lost', combined')
  <2>1. combined'[p] = combined[p]
        \/ /\ \A m \in DOMAIN posts'[p].status : posts'[p].status[m] # "NEW"
           /\ OneRegion(posts'[p]) /\ Rising(posts'[p]) /\ Differ(posts', written')
                /\ Agree(posts'[p], filenames'[p], numbers'[p], written'[p])
                => CombinedRight(p, posts'[p], lost', combined'[p])
    BY <1>14, <1>15, Zenon
  <2>2. QED
    BY <1>3, <1>4, <1>5, <1>10, <1>13, <1>16, <1>17, <2>1, OthersCombined
<1>19. Sized(posts', filenames', written')
  BY <1>3, <1>4, <1>5, <1>7, <1>17 DEF Sized, Marked
<1>20. QED
  BY <1>1, <1>2, <1>3, <1>10, <1>18, <1>19 DEF AssembledInv

LEMMA WildKept ==
  ASSUME AssembledInv, NEW p, DownloadWild(p)
  PROVE  AssembledInv'
<1>1. /\ phase' = "crashed"
      /\ UNCHANGED <<posts, archiveVars, files, open, rest, document>>
      /\ UNCHANGED <<filenames, numbers, chunks, lost, combined, written>>
  BY DEF DownloadWild, chunkVars
<1>2. ParserInv'
  BY <1>1, CrashStep DEF AssembledInv
<1>3. QED
  BY <1>1, <1>2 DEF AssembledInv

(* The invariant of Assembly holds in every state.                          *)
THEOREM AssembledInvariant == Spec => []AssembledInv
<1>1. AssembledInv /\ NumbersInv /\ [Next]_assemblyVars => AssembledInv'
  <2> SUFFICES ASSUME AssembledInv, NumbersInv, [Next]_assemblyVars PROVE AssembledInv'
    OBVIOUS
  <2>1. CASE UNCHANGED assemblyVars
    <3>1. UNCHANGED <<parserVars, filenames, numbers, chunks, lost, combined, written>>
      BY <2>1 DEF assemblyVars, chunkVars
    <3>2. ParserInv'
      BY <3>1 DEF parserVars, archiveVars, AssembledInv, ParserInv
    <3>3. QED
      BY <3>1, <3>2 DEF parserVars, archiveVars, AssembledInv
  <2>2. QED
    BY <2>1, ParserKept, FailKept, CompleteKept, WildKept, Zenon DEF Next
<1>2. QED
  BY <1>1, AssembledInit, NumbersInvariant, PTL DEF Spec

(* For any number of segments, whichever fail or are lost, in whatever      *)
(* order they are decoded and whatever name and part their yEnc headers     *)
(* give: if the NZB file lists them in order, malloc put them into one      *)
(* region of 4 GB, no two were stored under one name and the names did not  *)
(* change in between, the combined file has those that were decoded, in     *)
(* order, up to the first one that was lost, and -1 says that there is one  *)
(* (yenc_parse_ybegin, file_write_chunk, file_combine).                     *)
THEOREM AssemblyCombinedInOrder == Spec => []CombinedInOrder
<1>1. AssembledInv => CombinedInOrder
  <2> SUFFICES ASSUME AssembledInv, NEW p \in DOMAIN combined, combined[p] # NotCombined,
                      OneRegion(posts[p]), Ascending(p), ChunksDiffer, NamesAgree(p)
               PROVE  CombinedRight(p, posts[p], lost, combined[p])
    BY Zenon DEF CombinedInOrder, CombinedRight, Expected, Gaps, Done, Decoded
  <2>1. Rising(posts[p])
    BY DEF Ascending, Rising
  <2>2. Differ(posts, written)
    BY Zenon DEF ChunksDiffer, Decoded, Differ, Done
  <2>3. Agree(posts[p], filenames[p], numbers[p], written[p])
    BY Zenon DEF NamesAgree, Decoded, Agree, Done, ChunkName
  <2>4. QED
    BY <2>1, <2>2, <2>3 DEF AssembledInv, CombinedOK
<1>2. QED
  BY <1>1, AssembledInvariant, PTL


-----------------------------------------------------------------------------
(* The text of an element, in whatever pieces it comes.  After k characters *)
(* of a text, its name is those of them that are not blank.                 *)
Solid(text) == {n \in 1 .. Len(text) : text[n] \notin Blank}
Picked(text, w) == [n \in DOMAIN w |-> text[w[n]]]
Solids(text, k) == Picked(text, InOrder(Solid(text), k))

LEMMA SolidsTurn ==
  ASSUME NEW text \in Seq(STRING), NEW k \in Nat, k <= Len(text)
  PROVE  /\ Solids(text, 0) = <<>>
         /\ Solids(text, k) \in Seq(STRING)
         /\ k < Len(text) =>
              Solids(text, k + 1) = IF text[k+1] \notin Blank
                                    THEN Append(Solids(text, k), text[k+1]) ELSE Solids(text, k)
<1>1. Solids(text, 0) = <<>>
  BY InOrderTurns DEF Solids, Picked
<1>2. PICK w \in Seq(Nat) : /\ InOrder(Solid(text), k) = w
                            /\ \A i \in 1 .. Len(w) : w[i] \in Solid(text)
  BY InOrderAscends
<1>3. PICK len \in Nat : len = Len(w) /\ DOMAIN w = 1 .. len
  OBVIOUS
<1>4. PICK s : s = Solids(text, k)
  OBVIOUS
<1>5. s = [n \in 1 .. len |-> text[w[n]]] /\ \A n \in 1 .. len : text[w[n]] \in STRING
  <2>1. \A n \in 1 .. Len(text) : text[n] \in STRING
    OBVIOUS
  <2>2. \A n \in 1 .. len : w[n] \in 1 .. Len(text)
    BY <1>2, <1>3 DEF Solid
  <2>3. QED
    BY <1>2, <1>3, <1>4, <2>1, <2>2 DEF Solids, Picked
<1>6. s \in Seq(STRING) /\ Len(s) = len
  BY <1>5
<1>7. ASSUME k < Len(text)
      PROVE  Solids(text, k + 1) = IF text[k+1] \notin Blank THEN Append(s, text[k+1]) ELSE s
  <2>1. InOrder(Solid(text), k + 1) = Chosen(Solid(text), k + 1, w)
    BY <1>2, InOrderTurns
  <2>2. k + 1 \in 1 .. Len(text)
    BY <1>7
  <2>3. CASE text[k+1] \in Blank
    <3>1. k + 1 \notin Solid(text)
      BY <2>3 DEF Solid
    <3>2. QED
      BY <1>2, <1>4, <2>1, <2>3, <3>1 DEF Solids, Chosen
  <2>4. CASE text[k+1] \notin Blank
    <3>1. k + 1 \in Solid(text)
      BY <2>2, <2>4 DEF Solid
    <3>2. PICK v : v = Append(w, k + 1)
      OBVIOUS
    <3>3. /\ DOMAIN v = 1 .. len + 1 /\ v[len+1] = k + 1
          /\ \A n \in 1 .. len : v[n] = w[n]
      <4>1. v \in Seq(Nat) /\ Len(v) = len + 1
        BY <1>3, <3>2, AppendProperties
      <4>2. QED
        BY <1>3, <3>2, <4>1, AppendProperties
    <3>4. Solids(text, k + 1) = Picked(text, v)
      BY <2>1, <3>1, <3>2 DEF Solids, Chosen
    <3>5. PICK t : t = Picked(text, v)
      OBVIOUS
    <3>6. t = [n \in 1 .. len + 1 |-> text[v[n]]]
      BY <3>3, <3>5 DEF Picked
    <3>7. t = Append(s, text[k+1])
      <4>1. text[k+1] \in STRING
        BY <2>2
      <4>2. PICK u : u = Append(s, text[k+1])
        OBVIOUS
      <4>3. /\ u \in Seq(STRING) /\ Len(u) = len + 1 /\ u[len+1] = text[k+1]
            /\ \A n \in 1 .. len : u[n] = s[n]
        BY <1>6, <4>1, <4>2, AppendProperties
      <4>4. ASSUME NEW n \in 1 .. len + 1 PROVE u[n] = text[v[n]]
        <5>1. n \in 1 .. len \/ n = len + 1
          BY <1>3
        <5>2. QED
          BY <1>5, <3>3, <4>3, <5>1
      <4>5. u = [n \in 1 .. len + 1 |-> text[v[n]]]
        BY <4>3, <4>4
      <4>6. QED
        BY <3>6, <4>2, <4>5
    <3>8. QED
      BY <2>4, <3>4, <3>5, <3>7
  <2>5. QED
    BY <2>3, <2>4
<1>8. QED
  BY <1>1, <1>4, <1>6, <1>7

\* Blanks first, and nothing but solid characters behind them.
LEMMA PieceSolids ==
  ASSUME NEW text \in Seq(STRING), NEW k \in Nat, NEW n \in Nat, k + n <= Len(text),
         NEW b \in 1 .. n + 1,
         \A m \in 1 .. n : text[k+m] \in Blank <=> m < b
  PROVE  Solids(text, k + n) = Solids(text, k) \o SubSeq(text, k + b, k + n)
<1>1. PICK X, x : X = STRING /\ x = Solids(text, k)
  OBVIOUS
<1>2. x \in Seq(X) /\ text \in Seq(X)
  BY <1>1, SolidsTurn
<1> DEFINE Read(m) == IF m < b THEN x ELSE x \o SubSeq(text, k + b, k + m)
           T == {m \in 0 .. n : Solids(text, k + m) = Read(m)}
<1>3. 0 \in T
  BY <1>1
<1>4. ASSUME NEW m \in 0 .. n - 1, m \in T PROVE m + 1 \in T
  <2>1. /\ k + m \in Nat /\ k + m < Len(text) /\ (k + m) + 1 = k + (m + 1)
        /\ m + 1 \in 1 .. n /\ m + 1 \in 0 .. n
    OBVIOUS
  <2>2. Solids(text, k + m) = Read(m)
    BY <1>4
  <2>3. Solids(text, k + (m + 1)) = IF text[k+(m+1)] \notin Blank
                                  THEN Append(Read(m), text[k+(m+1)]) ELSE Read(m)
    <3> HIDE DEF Read
    <3>1. k + m <= Len(text)
      BY <2>1
    <3>2. QED
      BY <2>1, <2>2, <3>1, SolidsTurn
  <2>4. text[k+(m+1)] \in Blank <=> m + 1 < b
    BY <2>1
  <2>5. CASE m + 1 < b
    BY <2>1, <2>3, <2>4, <2>5
  <2>6. CASE ~ (m + 1 < b)
    <3>1. text[k+(m+1)] \in X
      BY <1>2, <2>1
    <3>2. PICK c : c = text[k+(m+1)]
      OBVIOUS
    <3>3. CASE m < b
      <4>1. b = m + 1
        BY <2>6, <3>3
      <4>2. SubSeq(text, k + b, k + (m + 1)) = <<c>>
        <5>1. k + (m + 1) \in 1 .. Len(text)
          BY <2>1
        <5>2. QED
          BY <1>2, <3>2, <4>1, <5>1, Single
      <4>3. Append(x, c) = x \o <<c>>
        BY <1>2, <3>1, <3>2
      <4>4. QED
        BY <2>1, <2>3, <2>4, <2>6, <3>2, <3>3, <4>2, <4>3
    <3>4. CASE ~ (m < b)
      <4>1. PICK old, new : old = SubSeq(text, k + b, k + m) /\ new = SubSeq(text, k + b, k + (m + 1))
        OBVIOUS
      <4>2. old \in Seq(X) /\ new = Append(old, c)
        <5>1. old \in Seq(X)
          BY <1>2, <4>1
        <5>2. /\ k + b \in 1 .. Len(text) + 1 /\ k + m \in (k + b) - 1 .. Len(text)
              /\ k + (m + 1) \in k + m .. Len(text) /\ (k + m) + 1 = k + (m + 1)
          BY <2>1, <3>4
        <5>3. old \o SubSeq(text, (k + m) + 1, k + (m + 1)) = new
          BY <1>2, <4>1, <5>2, ConcatAdjacentSubSeq
        <5>4. SubSeq(text, k + (m + 1), k + (m + 1)) = <<c>>
          <6>1. k + (m + 1) \in 1 .. Len(text)
            BY <2>1
          <6>2. QED
            BY <1>2, <3>2, <6>1, Single
        <5>5. Append(old, c) = old \o <<c>>
          BY <3>1, <3>2, <5>1
        <5>6. QED
          BY <5>1, <5>2, <5>3, <5>4, <5>5
      <4>3. Append(x \o old, c) = x \o new
        <5>1. old \in Seq(X) /\ c \in X
          BY <3>1, <3>2, <4>2
        <5>2. x \o old \in Seq(X) /\ <<c>> \in Seq(X)
          BY <1>2, <5>1
        <5>3. Append(x \o old, c) = (x \o old) \o <<c>> /\ Append(old, c) = old \o <<c>>
          BY <5>1, <5>2, AppendIsConcat, Zenon
        <5>4. (x \o old) \o <<c>> = x \o (old \o <<c>>)
          BY <1>2, <5>1, <5>2, ConcatAssociative
        <5>5. QED
          BY <4>2, <5>3, <5>4, Zenon
      <4>4. Read(m) = x \o old /\ Read(m + 1) = x \o new
        BY <2>6, <3>4, <4>1
      <4>5. QED
        BY <2>1, <2>3, <2>4, <2>6, <3>2, <4>3, <4>4
    <3>5. QED
      BY <3>3, <3>4
  <2>7. QED
    BY <2>5, <2>6
<1> HIDE DEF T
<1>5. n \in T
  <2>1. 0 .. n \subseteq T
    BY <1>3, <1>4, BoundedInduction
  <2>2. QED
    BY <2>1
<1>6. Solids(text, k + n) = Read(n)
  BY <1>5 DEF T
<1>7. CASE n < b
  <2>1. SubSeq(text, k + b, k + n) = <<>>
    BY <1>7
  <2>2. x \o <<>> = x
    BY <1>2
  <2>3. QED
    BY <1>1, <1>6, <1>7, <2>1, <2>2
<1>8. QED
  BY <1>1, <1>6, <1>7


LEMMA SmallestIn ==
  ASSUME NEW S, S \in SUBSET Nat, S # {}
  PROVE  Smallest(S) \in S /\ \A m \in S : Smallest(S) <= m
<1>1. \E b \in S : \A m \in S : b <= m
  BY LeastNatural
<1>2. QED
  BY <1>1 DEF Smallest

\* id is the name of what was read of a text of which left is left.
Named(id, text, left) ==
  \E k \in 0 .. Len(text) : left = SubSeq(text, k + 1, Len(text)) /\ id = Solids(text, k)

LEMMA TextLength ==
  ASSUME NEW text \in Text
  PROVE  text \in Seq(STRING) /\ Len(text) \in Nat
<1>1. text \in Seq(STRING)
  BY DocumentAssumption, Zenon
<1>2. PICK X : X = STRING
  OBVIOUS
<1>3. Len(text) \in Nat
  BY <1>1, <1>2
<1>4. QED
  BY <1>1, <1>3

LEMMA NamedBegun ==
  ASSUME NEW text \in Text
  PROVE  Named(<<>>, text, text)
<1>1. text \in Seq(STRING)
  BY DocumentAssumption
<1>2. 0 \in 0 .. Len(text) /\ text = SubSeq(text, 0 + 1, Len(text))
  BY <1>1
<1>3. Solids(text, 0) = <<>>
  BY <1>1, SolidsTurn
<1>4. QED
  BY <1>2, <1>3 DEF Named

LEMMA NamedWhole ==
  ASSUME NEW text \in Text, NEW id, Named(id, text, <<>>)
  PROVE  id = Word(text)
<1>1. PICK len \in Nat : text \in Seq(STRING) /\ Len(text) = len
  BY TextLength, Zenon
<1>2. PICK k \in 0 .. len : <<>> = SubSeq(text, k + 1, len) /\ id = Solids(text, k)
  BY <1>1 DEF Named
<1>3. k = len
  <2>1. PICK left : left = SubSeq(text, k + 1, len)
    OBVIOUS
  <2>2. Len(left) = len - k
    BY <1>1, <2>1
  <2>3. Len(left) = 0
    BY <1>2, <2>1
  <2>4. QED
    BY <2>2, <2>3
<1>4. Word(text) = Solids(text, Len(text))
  BY DEF Word, Solids, Solid, Picked
<1>5. QED
  BY <1>1, <1>2, <1>3, <1>4

\* No line feed in a piece, unless it is the whole piece.
OnePiece(piece, n) == n = 1 \/ \A m \in 1 .. n : piece[m] # "\n"

LEMMA BlankBefore ==
  ASSUME NEW c \in Blank, c # "\n"
  PROVE  c = " "
BY Zenon DEF Blank

LEMMA NamedRead ==
  ASSUME NEW text \in Text, NEW id, NEW left, Named(id, text, left),
         NEW n \in 1 .. Len(left), NEW piece, piece = SubSeq(left, 1, n), OnePiece(piece, n)
  PROVE  Named(Extended(id, Strip(piece)), text, SubSeq(left, n + 1, Len(left)))
<1>1. PICK len \in Nat : text \in Seq(STRING) /\ Len(text) = len
  BY TextLength, Zenon
<1>2. PICK k \in 0 .. len : left = SubSeq(text, k + 1, len) /\ id = Solids(text, k)
  BY <1>1 DEF Named
<1>3. left \in Seq(STRING) /\ Len(left) = len - k /\ \A m \in 1 .. len - k : left[m] = text[k+m]
  BY <1>1, <1>2
<1>4. k \in Nat /\ n \in Nat /\ n \in 1 .. len - k /\ k + n \in 0 .. len /\ k + n <= len
  BY <1>3
<1>5. SubSeq(left, n + 1, Len(left)) = SubSeq(text, (k + n) + 1, len)
  <2>1. PICK u, v : u = SubSeq(left, n + 1, len - k) /\ v = SubSeq(text, (k + n) + 1, len)
    OBVIOUS
  <2>2. /\ u \in Seq(STRING) /\ Len(u) = len - (k + n)
        /\ \A m \in 1 .. len - (k + n) : u[m] = left[n+m]
    <3>1. PICK X, rem : X = STRING /\ rem = len - k
      OBVIOUS
    <3>2. left \in Seq(X) /\ Len(left) = rem /\ rem \in Nat /\ n \in 1 .. rem
      BY <1>3, <1>4, <3>1
    <3>3. /\ u \in Seq(X) /\ Len(u) = rem - n
          /\ \A m \in 1 .. rem - n : u[m] = left[n+m]
      BY <2>1, <3>1, <3>2
    <3>4. rem - n = len - (k + n)
      BY <1>4, <3>1
    <3>5. QED
      BY <3>1, <3>3, <3>4
  <2>3. /\ v \in Seq(STRING) /\ Len(v) = len - (k + n)
        /\ \A m \in 1 .. len - (k + n) : v[m] = text[(k+n)+m]
    <3>1. PICK X, from : X = STRING /\ from = k + n
      OBVIOUS
    <3>2. text \in Seq(X) /\ Len(text) = len /\ from \in Nat /\ from <= len
      BY <1>1, <1>4, <3>1
    <3>3. /\ v \in Seq(X) /\ Len(v) = len - from
          /\ \A m \in 1 .. len - from : v[m] = text[from+m]
      BY <2>1, <3>1, <3>2
    <3>4. QED
      BY <3>1, <3>3
  <2>4. ASSUME NEW m \in 1 .. len - (k + n) PROVE u[m] = v[m]
    <3>1. n + m \in 1 .. len - k /\ k + (n + m) = (k + n) + m
      BY <1>4
    <3>2. QED
      BY <1>3, <2>2, <2>3, <3>1
  <2>5. u = v
    BY <2>2, <2>3, <2>4, SeqEqual
  <2>6. QED
    BY <1>3, <2>1, <2>5
<1>6. piece \in Seq(STRING) /\ Len(piece) = n /\ \A m \in 1 .. n : piece[m] = text[k+m]
  BY <1>3, <1>4
<1> DEFINE solid == {m \in 1 .. Len(piece) : piece[m] \notin Blank}
           b == IF solid = {} THEN n + 1 ELSE Smallest(solid)
<1>7. b \in 1 .. n + 1 /\ \A m \in 1 .. n : m < b => piece[m] \in Blank
  <2>1. CASE solid = {}
    <3>1. b \in 1 .. n + 1
      BY <1>4, <2>1
    <3>2. \A m \in 1 .. n : m \notin solid => piece[m] \in Blank
      BY <1>6
    <3>3. \A m \in 1 .. n : piece[m] \in Blank
      BY <2>1, <3>2
    <3>4. QED
      BY <3>1, <3>3
  <2>2. CASE solid # {}
    <3>1. solid \in SUBSET Nat
      OBVIOUS
    <3>2. Smallest(solid) \in solid /\ \A m \in solid : Smallest(solid) <= m
      BY <2>2, <3>1, SmallestIn
    <3>3. b \in 1 .. n /\ \A m \in solid : b <= m
      BY <1>6, <2>2, <3>2
    <3> HIDE DEF b
    <3>4. \A m \in 1 .. n : m < b => m \notin solid
      BY <3>3
    <3>5. b \in 1 .. n + 1
      BY <1>4, <3>3
    <3>6. \A m \in 1 .. n : m \notin solid => piece[m] \in Blank
      BY <1>6
    <3>7. \A m \in 1 .. n : m < b => piece[m] \in Blank
      <4> HIDE DEF solid
      <4>1. QED
        BY <3>4, <3>6
    <3>8. QED
      BY <3>5, <3>7
  <2>3. QED
    BY <2>1, <2>2
<1>8. b <= n => piece[b] \notin Blank
  <2>1. solid = {} => ~ (b <= n)
    BY <1>4
  <2>2. CASE solid # {}
    <3>1. solid \in SUBSET Nat
      OBVIOUS
    <3>2. Smallest(solid) \in solid
      BY <2>2, <3>1, SmallestIn
    <3>3. QED
      BY <2>2, <3>2
  <2>3. QED
    BY <2>1, <2>2
<1>9. Strip(piece) = SubSeq(piece, b, n)
  <2>1. CASE solid = {}
    <3>1. Strip(piece) = <<>>
      BY <2>1 DEF Strip
    <3>2. SubSeq(piece, n + 1, n) = <<>>
      BY <1>4, <1>6
    <3>3. QED
      BY <2>1, <3>1, <3>2
  <2>2. CASE solid # {}
    BY <1>6, <2>2 DEF Strip
  <2>3. QED
    BY <2>1, <2>2
<1> HIDE DEF b, solid
<1>10. ASSUME NEW m \in 1 .. n, b <= m PROVE piece[m] \notin Blank
  <2> DEFINE T == {j \in 0 .. n - b : piece[b+j] \notin Blank}
  <2>1. b \in Nat /\ n - b \in Nat /\ b <= n
    BY <1>4, <1>7, <1>10
  <2>2. 0 \in T
    <3>1. 0 \in 0 .. n - b
      BY <2>1
    <3>2. b + 0 = b
      BY <2>1
    <3>3. piece[b] \notin Blank
      BY <1>8, <2>1
    <3>4. QED
      BY <3>1, <3>2, <3>3
  <2>3. ASSUME NEW j \in 0 .. (n - b) - 1, j \in T PROVE j + 1 \in T
    <3>1. /\ j + 1 \in 0 .. n - b /\ b + j \in 1 .. n /\ b + (j + 1) \in 1 .. n
          /\ k + (b + j) \in 1 .. len - 1 /\ (k + (b + j)) + 1 = k + (b + (j + 1)) /\ n # 1
      BY <1>4, <1>7, <2>1
    <3>2. piece[b+j] \notin Blank
      BY <2>3
    <3>3. text[k+(b+j)] = piece[b+j] /\ text[k+(b+(j+1))] = piece[b+(j+1)]
      BY <1>6, <3>1
    <3>4. piece[b+(j+1)] # " "
      <4>1. \A i \in 1 .. Len(text) - 1 : text[i] \notin Blank => text[i+1] # " "
        BY DocumentAssumption, Zenon
      <4>2. text[(k+(b+j))+1] # " "
        BY <1>1, <3>1, <3>2, <3>3, <4>1
      <4>3. QED
        BY <3>1, <3>3, <4>2
    <3>5. piece[b+(j+1)] # "\n"
      BY <3>1, Zenon DEF OnePiece
    <3>6. piece[b+(j+1)] \notin Blank
      BY <3>4, <3>5, BlankBefore, Zenon
    <3>7. QED
      BY <3>1, <3>6
  <2> HIDE DEF T
  <2>4. 0 .. n - b \subseteq T
    BY <2>1, <2>2, <2>3, BoundedInduction
  <2>5. m - b \in 0 .. n - b /\ b + (m - b) = m
    BY <1>10, <2>1
  <2>6. m - b \in T
    BY <2>4, <2>5
  <2>7. QED
    BY <2>5, <2>6 DEF T
<1>11. \A m \in 1 .. n : text[k+m] \in Blank <=> m < b
  <2> TAKE m \in 1 .. n
  <2>1. m < b \/ b <= m
    BY <1>4, <1>7
  <2>2. b <= m => ~ (m < b)
    BY <1>4, <1>7
  <2>3. QED
    BY <1>6, <1>7, <1>10, <2>1, <2>2
<1>12. Solids(text, k + n) = Solids(text, k) \o SubSeq(text, k + b, k + n)
  BY <1>1, <1>4, <1>7, <1>11, PieceSolids
<1>13. SubSeq(text, k + b, k + n) = SubSeq(piece, b, n)
  <2>1. PICK u, v : u = SubSeq(text, k + b, k + n) /\ v = SubSeq(piece, b, n)
    OBVIOUS
  <2>2. b \in Nat /\ 1 <= b /\ b <= n + 1
    BY <1>4, <1>7
  <2>3. /\ u \in Seq(STRING) /\ Len(u) = (n + 1) - b
        /\ \A m \in 1 .. (n + 1) - b : u[m] = text[((k+b)+m)-1]
    BY <1>1, <1>4, <2>1, <2>2
  <2>4. /\ v \in Seq(STRING) /\ Len(v) = (n + 1) - b
        /\ \A m \in 1 .. (n + 1) - b : v[m] = piece[(b+m)-1]
    <3>1. PICK X : X = STRING
      OBVIOUS
    <3>2. piece \in Seq(X) /\ Len(piece) = n /\ n \in Nat
      BY <1>4, <1>6, <3>1
    <3>3. v \in Seq(X) /\ Len(v) = (n + 1) - b
      BY <2>1, <2>2, <3>2
    <3>4. \A m \in 1 .. (n + 1) - b : v[m] = piece[(b+m)-1]
      BY <2>1, <2>2, <3>2
    <3>5. QED
      BY <3>1, <3>3, <3>4
  <2>5. ASSUME NEW m \in 1 .. (n + 1) - b PROVE u[m] = v[m]
    <3>1. (b + m) - 1 \in 1 .. n /\ k + ((b + m) - 1) = ((k + b) + m) - 1
      BY <1>4, <2>2
    <3>2. QED
      BY <1>6, <2>3, <2>4, <3>1
  <2>6. u = v
    BY <2>3, <2>4, <2>5, SeqEqual
  <2>7. QED
    BY <2>1, <2>6
<1>14. Solids(text, k + n) = Extended(id, Strip(piece))
  BY <1>2, <1>9, <1>12, <1>13 DEF Extended
<1>15. QED
  BY <1>1, <1>4, <1>5, <1>14 DEF Named


-----------------------------------------------------------------------------
(* The names of the elements of one kind in a post, the last one of which   *)
(* may still be open.                                                       *)
NamesOf(ids, texts, left) ==
  /\ ids \in Seq(Seq(STRING)) /\ texts \in Seq(Text) /\ Len(ids) = Len(texts)
  /\ \A n \in 1 .. Len(ids) : Named(ids[n], texts[n], IF n = Len(ids) THEN left ELSE <<>>)

LEMMA NamesAdded ==
  ASSUME NEW ids, NEW texts, NamesOf(ids, texts, <<>>), NEW text \in Text
  PROVE  NamesOf(Append(ids, <<>>), Append(texts, text), text)
<1>1. PICK X : X = Seq(STRING)
  OBVIOUS
<1>2. PICK len \in Nat : /\ Len(ids) = len /\ Len(texts) = len
                         /\ ids \in Seq(X) /\ texts \in Seq(Text)
  <2>1. Len(ids) = Len(texts) /\ ids \in Seq(X) /\ texts \in Seq(Text)
    BY <1>1 DEF NamesOf
  <2>2. Len(ids) \in Nat
    BY <2>1
  <2>3. QED
    BY <2>1, <2>2
<1>3. \A n \in 1 .. len : Named(ids[n], texts[n], <<>>)
  BY <1>2 DEF NamesOf
<1>4. PICK none : none = <<>> /\ none \in X
  <2>1. <<>> \in Seq(STRING)
    OBVIOUS
  <2>2. QED
    BY <1>1, <2>1, Zenon
<1>5. PICK ids1, texts1 : ids1 = Append(ids, none) /\ texts1 = Append(texts, text)
  OBVIOUS
<1>6. /\ ids1 \in Seq(X) /\ Len(ids1) = len + 1 /\ ids1[len+1] = none
      /\ \A n \in 1 .. len : ids1[n] = ids[n]
  BY <1>2, <1>4, <1>5, AppendProperties
<1>7. /\ texts1 \in Seq(Text) /\ Len(texts1) = len + 1 /\ texts1[len+1] = text
      /\ \A n \in 1 .. len : texts1[n] = texts[n]
  BY <1>2, <1>5, AppendProperties
<1>8. Named(none, text, text)
  BY <1>4, NamedBegun
<1>9. ASSUME NEW n \in 1 .. len + 1
      PROVE  Named(ids1[n], texts1[n], IF n = len + 1 THEN text ELSE <<>>)
  <2>1. CASE n = len + 1
    BY <1>6, <1>7, <1>8, <2>1
  <2>2. CASE n \in 1 .. len
    <3>1. n # len + 1
      BY <1>2, <2>2
    <3>2. QED
      BY <1>3, <1>6, <1>7, <2>2, <3>1
  <2>3. QED
    BY <1>2, <2>1, <2>2
<1>10. NamesOf(ids1, texts1, text)
  BY <1>1, <1>6, <1>7, <1>9 DEF NamesOf
<1>11. QED
  BY <1>4, <1>5, <1>10

LEMMA NamesRead ==
  ASSUME NEW ids, NEW texts, NEW left, NamesOf(ids, texts, left),
         NEW last0, last0 = Len(ids), last0 # 0,
         NEW n \in 1 .. Len(left), NEW piece, piece = SubSeq(left, 1, n), OnePiece(piece, n),
         NEW id, id = Extended(ids[last0], Strip(piece)), id \in Seq(STRING)
  PROVE  NamesOf([ids EXCEPT ![last0] = id], texts, SubSeq(left, n + 1, Len(left)))
<1>1. PICK X : X = Seq(STRING)
  OBVIOUS
<1>2. PICK len \in Nat : /\ last0 = len /\ Len(texts) = len /\ len \in 1 .. len
                         /\ ids \in [1 .. len -> X] /\ texts \in Seq(Text) /\ id \in X
  <2>1. Len(ids) = Len(texts) /\ ids \in Seq(X) /\ texts \in Seq(Text) /\ id \in X
    BY <1>1 DEF NamesOf
  <2>2. Len(ids) \in Nat
    BY <2>1
  <2>3. QED
    BY <2>1, <2>2
<1>3. \A m \in 1 .. len : Named(ids[m], texts[m], IF m = len THEN left ELSE <<>>)
  BY <1>2 DEF NamesOf
<1>4. PICK ids1, left1 : ids1 = [ids EXCEPT ![last0] = id] /\ left1 = SubSeq(left, n + 1, Len(left))
  OBVIOUS
<1>5. ids1 \in [1 .. len -> X] /\ ids1[len] = id /\ \A m \in 1 .. len : m # len => ids1[m] = ids[m]
  BY <1>2, <1>4
<1>6. ids1 \in Seq(X) /\ Len(ids1) = len
  BY <1>2, <1>5, FunctionIsSequence
<1>7. Named(id, texts[len], left1)
  <2>1. Named(ids[len], texts[len], left)
    BY <1>2, <1>3
  <2>2. texts[len] \in Text
    BY <1>2
  <2>3. Named(Extended(ids[len], Strip(piece)), texts[len], SubSeq(left, n + 1, Len(left)))
    BY <2>1, <2>2, NamedRead
  <2>4. QED
    BY <1>2, <1>4, <2>3
<1>8. ASSUME NEW m \in 1 .. len
      PROVE  Named(ids1[m], texts[m], IF m = len THEN left1 ELSE <<>>)
  BY <1>3, <1>5, <1>7
<1>9. NamesOf(ids1, texts, left1)
  BY <1>1, <1>2, <1>6, <1>8 DEF NamesOf
<1>10. QED
  BY <1>4, <1>9

LEMMA NoNames == NamesOf(<<>>, <<>>, <<>>)
<1>1. <<>> \in Seq(Seq(STRING)) /\ <<>> \in Seq(Text) /\ Len(<<>>) = 0
  OBVIOUS
<1>2. QED
  BY <1>1 DEF NamesOf


-----------------------------------------------------------------------------
(* What was read of the names in every post.                                *)
MessageIds(post) == [n \in DOMAIN post.made |-> post.made[n].messageid]
Texts(doc) == [n \in DOMAIN doc.segments |-> doc.segments[n].text]

\* What is left of the last group and of the last segment.
PostNamed(post, doc, group, segment) ==
  /\ NamesOf(post.groups, doc.groups, group)
  /\ NamesOf(MessageIds(post), Texts(doc), segment)

Left(element, o, r) == IF o = element THEN r ELSE <<>>

PostsNamed(ps, docs, o, r) ==
  \A p \in 1 .. Len(ps) :
    PostNamed(ps[p], docs[p], IF p = Len(ps) THEN Left("group", o, r) ELSE <<>>,
                              IF p = Len(ps) THEN Left("segment", o, r) ELSE <<>>)

NamesInv ==
  /\ open \in {"nzb", "file"} => rest = <<>>
  /\ open = "segment" => lastSegment = Len(posts[last].made)
  /\ PostsNamed(posts, document, open, rest)

\* The posts keep their groups and segments, and the texts what is left.
LEMMA NamesKept ==
  ASSUME NEW ps, NEW docs, NEW o, NEW r, PostsNamed(ps, docs, o, r),
         NEW ps1, NEW o1, NEW r1, Len(ps1) = Len(ps),
         \A p \in 1 .. Len(ps) : ps1[p].groups = ps[p].groups /\ ps1[p].made = ps[p].made,
         (o1 = o /\ r1 = r) \/ (r = <<>> /\ r1 = <<>>)
  PROVE  PostsNamed(ps1, docs, o1, r1)
<1>1. Left("group", o1, r1) = Left("group", o, r) /\ Left("segment", o1, r1) = Left("segment", o, r)
  BY DEF Left
<1>2. ASSUME NEW p \in 1 .. Len(ps), NEW g, NEW s, PostNamed(ps[p], docs[p], g, s)
      PROVE  PostNamed(ps1[p], docs[p], g, s)
  BY <1>2 DEF PostNamed, MessageIds
<1>3. QED
  BY <1>1, <1>2 DEF PostsNamed

\* The last post and its document change.
Renamed(ps, docs, l, q, d, ps1, docs1) ==
  /\ ps \in Seq(PostType) /\ docs \in Seq(DocType) /\ Len(docs) = Len(ps)
  /\ l = Len(ps) /\ l \in 1 .. Len(ps)
  /\ ps1 = [ps EXCEPT ![l] = q] /\ docs1 = [docs EXCEPT ![Len(docs)] = d]

LEMMA NamesChanged ==
  ASSUME NEW ps, NEW docs, NEW l, NEW q, NEW d, NEW ps1, NEW docs1,
         Renamed(ps, docs, l, q, d, ps1, docs1),
         NEW o, NEW r, PostsNamed(ps, docs, o, r),
         NEW o1, NEW r1, PostNamed(q, d, Left("group", o1, r1), Left("segment", o1, r1))
  PROVE  PostsNamed(ps1, docs1, o1, r1)
<1>1. PICK len \in Nat : /\ len = Len(ps) /\ ps \in [1 .. len -> PostType] /\ l = len
                         /\ docs \in [1 .. len -> DocType] /\ len \in 1 .. len
                         /\ ps1 = [ps EXCEPT ![len] = q] /\ docs1 = [docs EXCEPT ![len] = d]
  <2>1. /\ ps \in Seq(PostType) /\ docs \in Seq(DocType) /\ Len(docs) = Len(ps)
        /\ l = Len(ps) /\ l \in 1 .. Len(ps)
        /\ ps1 = [ps EXCEPT ![l] = q] /\ docs1 = [docs EXCEPT ![Len(docs)] = d]
    BY DEF Renamed
  <2>2. Len(ps) \in Nat /\ ps \in [1 .. Len(ps) -> PostType] /\ docs \in [1 .. Len(ps) -> DocType]
    BY <2>1
  <2>3. QED
    BY <2>1, <2>2
<1>2. ps1[len] = q /\ docs1[len] = d /\ Len(ps1) = len
  <2>1. DOMAIN ps = 1 .. len /\ DOMAIN docs = 1 .. len
    BY <1>1
  <2>2. DOMAIN ps1 = 1 .. len /\ ps1[len] = q /\ docs1[len] = d
    BY <1>1, <2>1
  <2>3. QED
    BY <2>2
<1>3. ASSUME NEW p \in 1 .. len, p # len
      PROVE  ps1[p] = ps[p] /\ docs1[p] = docs[p] /\ PostNamed(ps1[p], docs1[p], <<>>, <<>>)
  <2>1. ps1[p] = ps[p] /\ docs1[p] = docs[p]
    BY <1>1, <1>3
  <2>2. PostNamed(ps[p], docs[p], <<>>, <<>>)
    BY <1>1, <1>3 DEF PostsNamed
  <2>3. QED
    BY <2>1, <2>2
<1>4. QED
  BY <1>1, <1>2, <1>3 DEF PostsNamed

\* What holds between two elements of a file.
LEMMA NamesLast ==
  ASSUME ParserInv, NamesInv, open # "nzb"
  PROVE  /\ last = Len(posts) /\ last \in 1 .. Len(posts) /\ Len(document) = last
         /\ posts \in Seq(PostType) /\ document \in Seq(DocType)
         /\ posts[last] \in PostType /\ document[last] \in DocType
         /\ PostNamed(posts[last], document[last], Left("group", open, rest), Left("segment", open, rest))
<1>1. last = Len(posts) /\ last \in 1 .. Len(posts) /\ posts[last] \in PostType /\ last \in Nat
  BY LastPost
<1>2. posts \in Seq(PostType)
  BY DEF ParserInv, PostsOK
<1>3. document \in Seq(DocType) /\ Len(document) = Len(posts)
  BY <1>2 DEF ParserInv, Listing, FileNames
<1>4. document[last] \in DocType
  BY <1>1, <1>3
<1>5. PostNamed(posts[last], document[last], Left("group", open, rest), Left("segment", open, rest))
  BY <1>1 DEF NamesInv, PostsNamed
<1>6. QED
  BY <1>1, <1>2, <1>3, <1>4, <1>5

LEMMA NamesFileStep ==
  ASSUME ParserInv, ParserInv', NamesInv, NEW s \in Subject, ParseFileElement(s)
  PROVE  NamesInv'
<1>1. PICK len \in Nat : /\ len = Len(posts) /\ posts \in [1 .. len -> PostType]
                         /\ document \in [1 .. len -> DocType]
                         /\ last = (IF posts = <<>> THEN NULL ELSE len)
  <2>1. posts \in Seq(PostType) /\ document \in Seq(DocType) /\ Len(document) = Len(posts)
        /\ last = (IF posts = <<>> THEN NULL ELSE Len(posts))
    BY DEF ParserInv, PostsOK, Listing, FileNames, Pointers
  <2>2. Len(posts) \in Nat
    BY <2>1
  <2>3. QED
    BY <2>1, <2>2
<1> DEFINE n == len + 1
           record == [subject |-> s, groups |-> <<>>, segments |-> <<>>]
           linked == IF last = NULL THEN posts ELSE [posts EXCEPT ![last].next = n]
<1>2. /\ open = "nzb" /\ open' = "file" /\ rest' = rest
      /\ document' = Append(document, record) /\ posts' = Append(linked, PostCreate(s))
  BY <1>1 DEF ParseFileElement
<1>3. rest = <<>>
  BY <1>2 DEF NamesInv
<1>4. PICK new : new = PostCreate(s) /\ new.groups = <<>> /\ new.made = <<>>
  <2>1. PostCreate(s).groups = <<>> /\ PostCreate(s).made = <<>>
    BY DEF PostCreate
  <2>2. QED
    BY <2>1
<1>5. PICK d : d = record /\ d.groups = <<>> /\ d.segments = <<>> /\ d \in DocType
  <2>1. record.groups = <<>> /\ record.segments = <<>> /\ record \in DocType
    BY DEF DocType
  <2> HIDE DEF record
  <2>2. QED
    BY <2>1
<1>6. /\ Len(document') = n /\ document'[n] = d
      /\ \A p \in 1 .. len : document'[p] = document[p]
  <2>1. document \in Seq(DocType) /\ Len(document) = len
    BY <1>1, FunctionIsSequence
  <2>2. QED
    BY <1>2, <1>5, <2>1, AppendProperties
<1>7. /\ Len(posts') = n /\ posts'[n] = new
      /\ \A p \in 1 .. len : posts'[p].groups = posts[p].groups /\ posts'[p].made = posts[p].made
  <2>1. /\ DOMAIN linked = 1 .. len
        /\ linked = [p \in 1 .. len |-> linked[p]]
        /\ \A p \in 1 .. len : linked[p].groups = posts[p].groups /\ linked[p].made = posts[p].made
    <3>1. \A p \in 1 .. len : /\ [posts[p] EXCEPT !.next = n].groups = posts[p].groups
                              /\ [posts[p] EXCEPT !.next = n].made = posts[p].made
      <4> TAKE p \in 1 .. len
      <4>1. posts[p] \in PostType
        BY <1>1
      <4>2. QED
        BY <4>1 DEF PostType
    <3>2. QED
      BY <1>1, <3>1
  <2> HIDE DEF linked
  <2> DEFINE X == {linked[p] : p \in 1 .. len} \cup {new}
  <2>2. (\A p \in 1 .. len : linked[p] \in X) /\ new \in X
    OBVIOUS
  <2> HIDE DEF X
  <2>3. linked \in [1 .. len -> X]
    BY <2>1, <2>2
  <2>4. linked \in Seq(X) /\ Len(linked) = len
    BY <1>1, <2>3, FunctionIsSequence
  <2>5. posts' = Append(linked, new)
    BY <1>2, <1>4
  <2>6. Len(posts') = n /\ posts'[n] = new /\ \A p \in 1 .. len : posts'[p] = linked[p]
    BY <2>2, <2>4, <2>5, AppendProperties
  <2>7. QED
    BY <2>1, <2>6
<1> HIDE DEF linked, record
<1>8. Left("group", open', rest') = <<>> /\ Left("segment", open', rest') = <<>>
  BY <1>2 DEF Left
<1>9. ASSUME NEW p \in 1 .. n PROVE PostNamed(posts'[p], document'[p], <<>>, <<>>)
  <2>1. CASE p = n
    <3>1. MessageIds(new) = <<>> /\ Texts(d) = <<>>
      BY <1>4, <1>5 DEF MessageIds, Texts
    <3>2. QED
      BY <1>4, <1>5, <1>6, <1>7, <2>1, <3>1, NoNames DEF PostNamed
  <2>2. CASE p \in 1 .. len
    <3>1. Left("group", open, rest) = <<>> /\ Left("segment", open, rest) = <<>>
      BY <1>2 DEF Left
    <3>2. PostNamed(posts[p], document[p], <<>>, <<>>)
      BY <1>1, <2>2, <3>1 DEF NamesInv, PostsNamed
    <3>3. QED
      BY <1>6, <1>7, <2>2, <3>2 DEF PostNamed, MessageIds
  <2>3. QED
    BY <1>1, <2>1, <2>2
<1>10. PostsNamed(posts', document', open', rest')
  BY <1>7, <1>8, <1>9 DEF PostsNamed
<1>11. QED
  BY <1>2, <1>3, <1>10 DEF NamesInv


LEMMA NamesGroupStep ==
  ASSUME ParserInv, ParserInv', NamesInv, NEW text \in Text, ParseGroupElement(text)
  PROVE  NamesInv'
<1>1. /\ open = "file" /\ open' = "group" /\ rest' = text
      /\ posts' = [posts EXCEPT ![last].groups = Append(@, <<>>)]
      /\ document' = [document EXCEPT ![Len(document)].groups = Append(@, text)]
  BY DEF ParseGroupElement
<1>2. /\ last = Len(posts) /\ last \in 1 .. Len(posts) /\ Len(document) = last
      /\ posts \in Seq(PostType) /\ document \in Seq(DocType)
  BY <1>1, NamesLast
<1>3. PICK post, doc : /\ post = posts[last] /\ doc = document[last]
                       /\ post \in PostType /\ doc \in DocType
                       /\ PostNamed(post, doc, <<>>, <<>>)
  <2>1. Left("group", open, rest) = <<>> /\ Left("segment", open, rest) = <<>>
    BY <1>1 DEF Left
  <2>2. QED
    BY <1>1, <2>1, NamesLast
<1>4. PICK ids, texts : ids = Append(post.groups, <<>>) /\ texts = Append(doc.groups, text)
  OBVIOUS
<1>5. PICK q, d : q = [post EXCEPT !.groups = ids] /\ d = [doc EXCEPT !.groups = texts]
  OBVIOUS
<1>6. q.groups = ids /\ q.made = post.made
  BY <1>3, <1>5 DEF PostType
<1>7. d.groups = texts /\ d.segments = doc.segments
  BY <1>3, <1>5 DEF DocType
<1>8. NamesOf(ids, texts, text)
  BY <1>3, <1>4, NamesAdded DEF PostNamed
<1>9. PostNamed(q, d, text, <<>>)
  BY <1>3, <1>6, <1>7, <1>8 DEF PostNamed, MessageIds, Texts
<1>10. Left("group", open', rest') = text /\ Left("segment", open', rest') = <<>>
  BY <1>1 DEF Left
<1>11. posts' = [posts EXCEPT ![last] = q] /\ document' = [document EXCEPT ![Len(document)] = d]
  BY <1>1, <1>2, <1>3, <1>4, <1>5
<1>12. Len(posts') = Len(posts)
  BY <1>2, <1>11
<1>13. PostsNamed(posts, document, open, rest)
  BY DEF NamesInv
<1>14. PostsNamed(posts', document', open', rest')
  <2>1. Renamed(posts, document, last, q, d, posts', document')
    BY <1>2, <1>11 DEF Renamed
  <2>2. PostNamed(q, d, Left("group", open', rest'), Left("segment", open', rest'))
    BY <1>9, <1>10
  <2>3. QED
    BY <1>13, <2>1, <2>2, NamesChanged
<1>15. QED
  BY <1>1, <1>14 DEF NamesInv

\* What is known of the segments of a post, as sequences.
LEMMA MadeSequence ==
  ASSUME NEW post, post \in PostType, Shaped(post)
  PROVE  \E k \in Nat : /\ post.made \in [1 .. k -> Made] /\ Len(post.made) = k
                        /\ MessageIds(post) = [n \in 1 .. k |-> post.made[n].messageid]
                        /\ Len(MessageIds(post)) = k
<1>1. PICK k \in Nat : post.made \in [1 .. k -> Made]
  BY DEF Shaped
<1>2. DOMAIN post.made = 1 .. k /\ Len(post.made) = k
  BY <1>1
<1>3. MessageIds(post) = [n \in 1 .. k |-> post.made[n].messageid]
  BY <1>2 DEF MessageIds
<1>4. Len(MessageIds(post)) = k
  BY <1>3
<1>5. QED
  BY <1>1, <1>2, <1>3, <1>4

LEMMA AppendedFunction ==
  ASSUME NEW k \in Nat, NEW S, NEW e \in [1 .. k -> S], NEW x \in S
  PROVE  Append(e, x) = [n \in 1 .. k + 1 |-> IF n = k + 1 THEN x ELSE e[n]]
<1>1. e \in Seq(S) /\ Len(e) = k
  BY FunctionIsSequence
<1>2. /\ Append(e, x) \in Seq(S) /\ Len(Append(e, x)) = k + 1 /\ Append(e, x)[k+1] = x
      /\ \A n \in 1 .. k : Append(e, x)[n] = e[n]
  BY <1>1, AppendProperties
<1>3. PICK a : a = Append(e, x)
  OBVIOUS
<1>4. a = [n \in 1 .. k + 1 |-> a[n]]
  <2>1. a \in Seq(S) /\ Len(a) = k + 1
    BY <1>2, <1>3
  <2>2. a \in [1 .. k + 1 -> S]
    BY <2>1
  <2>3. QED
    BY <2>2
<1>5. ASSUME NEW n \in 1 .. k + 1 PROVE a[n] = IF n = k + 1 THEN x ELSE e[n]
  BY <1>2, <1>3
<1>6. QED
  BY <1>3, <1>4, <1>5

LEMMA NamesSegmentStep ==
  ASSUME ParserInv, ParserInv', NamesInv, NEW number \in Number, NEW text \in Text,
         NEW high \in AddressHigh, ParseSegmentElement(number, text, high)
  PROVE  NamesInv'
<1>1. /\ open = "file" /\ open' = "segment" /\ rest' = text /\ last' = last
      /\ lastSegment' = Len(posts[last].made) + 1
      /\ posts' =
           [posts EXCEPT
              ![last].made = Append(@, [number |-> number, index |-> lastSegment', high |-> high,
                                        messageid |-> <<>>]),
              ![last].segments = Append(@, lastSegment'),
              ![last].status = Append(@, "NEW")]
      /\ document' = [document EXCEPT
           ![Len(document)].segments = Append(@, [number |-> number, text |-> text])]
  BY DEF ParseSegmentElement
<1>2. /\ last = Len(posts) /\ last \in 1 .. Len(posts) /\ Len(document) = last
      /\ posts \in Seq(PostType) /\ document \in Seq(DocType)
  BY <1>1, NamesLast
<1>3. PICK post, doc : /\ post = posts[last] /\ doc = document[last]
                       /\ post \in PostType /\ doc \in DocType /\ Shaped(post)
                       /\ PostNamed(post, doc, <<>>, <<>>)
  <2>1. Left("group", open, rest) = <<>> /\ Left("segment", open, rest) = <<>>
    BY <1>1 DEF Left
  <2>2. QED
    BY <1>1, <2>1, LastPost, NamesLast
<1>4. PICK k \in Nat : /\ post.made \in [1 .. k -> Made] /\ Len(post.made) = k
                       /\ MessageIds(post) = [n \in 1 .. k |-> post.made[n].messageid]
                       /\ Len(MessageIds(post)) = k
  BY <1>3, MadeSequence
<1>5. PICK n : n = lastSegment' /\ n = k + 1
  BY <1>1, <1>3, <1>4
<1>6. PICK seg, said : /\ seg = [number |-> number, index |-> n, high |-> high,
                                 messageid |-> <<>>]
                       /\ said = [number |-> number, text |-> text]
  OBVIOUS
<1>7. seg \in Made /\ seg.messageid = <<>>
  BY <1>4, <1>5, <1>6 DEF Made
<1>8. said \in [number : Number, text : Text] /\ said.text = text
  BY <1>6
<1>9. PICK made, segs, status, saids :
        /\ made = Append(post.made, seg) /\ segs = Append(post.segments, n)
        /\ status = Append(post.status, "NEW") /\ saids = Append(doc.segments, said)
  OBVIOUS
<1>10. PICK q, d : /\ q = [post EXCEPT !.made = made, !.segments = segs, !.status = status]
                   /\ d = [doc EXCEPT !.segments = saids]
  OBVIOUS
<1>11. q.groups = post.groups /\ q.made = made
  BY <1>3, <1>10 DEF PostType
<1>12. d.groups = doc.groups /\ d.segments = saids
  BY <1>3, <1>10 DEF DocType
<1>13. made = [m \in 1 .. k + 1 |-> IF m = k + 1 THEN seg ELSE post.made[m]]
  BY <1>4, <1>7, <1>9, AppendedFunction
<1>14. MessageIds(q) = Append(MessageIds(post), <<>>)
  <2>1. PICK X : X = Seq(STRING)
    OBVIOUS
  <2>2. <<>> \in X
    <3>1. <<>> \in Seq(STRING)
      OBVIOUS
    <3>2. QED
      BY <2>1, <3>1, Zenon
  <2>3. MessageIds(post) \in [1 .. k -> X]
    <3>1. \A m \in 1 .. k : post.made[m].messageid \in X
      BY <1>4, <2>1 DEF Made
    <3>2. QED
      BY <1>4, <3>1
  <2>4. Append(MessageIds(post), <<>>) =
          [m \in 1 .. k + 1 |-> IF m = k + 1 THEN <<>> ELSE MessageIds(post)[m]]
    BY <2>2, <2>3, AppendedFunction
  <2>5. MessageIds(q) = [m \in 1 .. k + 1 |-> made[m].messageid]
    BY <1>11, <1>13 DEF MessageIds
  <2>6. ASSUME NEW m \in 1 .. k + 1
        PROVE  made[m].messageid = IF m = k + 1 THEN <<>> ELSE MessageIds(post)[m]
    BY <1>4, <1>7, <1>13
  <2>7. QED
    BY <2>4, <2>5, <2>6
<1>15. Texts(d) = Append(Texts(doc), text)
  <2>1. PICK X : X = [number : Number, text : Text]
    OBVIOUS
  <2>2. doc.segments \in Seq(X)
    BY <1>3, <2>1 DEF DocType
  <2>3. PICK j \in Nat : doc.segments \in [1 .. j -> X]
    BY <2>2
  <2>4. saids = [m \in 1 .. j + 1 |-> IF m = j + 1 THEN said ELSE doc.segments[m]]
    BY <1>8, <1>9, <2>1, <2>3, AppendedFunction
  <2>5. Texts(doc) = [m \in 1 .. j |-> doc.segments[m].text]
    BY <2>3 DEF Texts
  <2>6. Texts(doc) \in [1 .. j -> Text]
    <3>1. \A m \in 1 .. j : doc.segments[m].text \in Text
      BY <2>1, <2>3
    <3>2. QED
      BY <2>5, <3>1
  <2>7. Append(Texts(doc), text) = [m \in 1 .. j + 1 |-> IF m = j + 1 THEN text ELSE Texts(doc)[m]]
    BY <2>6, AppendedFunction
  <2>8. Texts(d) = [m \in 1 .. j + 1 |-> saids[m].text]
    BY <1>12, <2>4 DEF Texts
  <2>9. ASSUME NEW m \in 1 .. j + 1
        PROVE  saids[m].text = IF m = j + 1 THEN text ELSE Texts(doc)[m]
    BY <1>8, <2>4, <2>5
  <2>10. QED
    BY <2>7, <2>8, <2>9
<1>16. NamesOf(MessageIds(q), Texts(d), text)
  BY <1>3, <1>14, <1>15, NamesAdded DEF PostNamed
<1>17. PostNamed(q, d, <<>>, text)
  BY <1>3, <1>11, <1>12, <1>16 DEF PostNamed
<1>18. Left("group", open', rest') = <<>> /\ Left("segment", open', rest') = text
  BY <1>1 DEF Left
<1>19. posts' = [posts EXCEPT ![last] = q] /\ document' = [document EXCEPT ![Len(document)] = d]
  BY <1>1, <1>2, <1>3, <1>5, <1>6, <1>9, <1>10
<1>20. Len(posts') = Len(posts) /\ posts'[last] = q
  BY <1>2, <1>19
<1>21. PostsNamed(posts, document, open, rest)
  BY DEF NamesInv
<1>22. PostsNamed(posts', document', open', rest')
  <2>1. Renamed(posts, document, last, q, d, posts', document')
    BY <1>2, <1>19 DEF Renamed
  <2>2. PostNamed(q, d, Left("group", open', rest'), Left("segment", open', rest'))
    BY <1>17, <1>18
  <2>3. QED
    BY <1>21, <2>1, <2>2, NamesChanged
<1>23. lastSegment' = Len(posts'[last'].made)
  <2>1. Len(made) = k + 1
    BY <1>13
  <2>2. QED
    BY <1>1, <1>5, <1>11, <1>20, <2>1
<1>24. QED
  BY <1>1, <1>22, <1>23 DEF NamesInv


LEMMA NamesDataStep ==
  ASSUME ParserInv, ParserInv', NamesInv, NEW n \in 1 .. Len(rest), ElementData(n)
  PROVE  NamesInv'
<1>1. PICK piece, kept, group :
        /\ piece = SubSeq(rest, 1, n) /\ kept = Strip(piece)
        /\ group = Len(posts[last].groups) /\ OnePiece(piece, n)
        /\ rest' = SubSeq(rest, n + 1, Len(rest))
        /\ posts' =
             IF inSegment
             THEN [posts EXCEPT ![last].made[lastSegment].messageid = Extended(@, kept)]
             ELSE IF inGroup THEN [posts EXCEPT ![last].groups[group] = Extended(@, kept)]
             ELSE posts
        /\ last' = last /\ lastSegment' = lastSegment /\ open' = open /\ document' = document
  BY DEF ElementData, archiveVars, OnePiece
<1>2. rest \in Seq(STRING) /\ open \in {"nzb", "file", "group", "segment"} /\ Len(rest) # 0
  BY DEF ParserInv
<1>3. open \in {"group", "segment"}
  <2>1. rest # <<>>
    BY <1>2
  <2>2. QED
    BY <1>2, <2>1 DEF NamesInv
<1>4. /\ inGroup = (open = "group") /\ inSegment = (open = "segment")
      /\ open = "group" => posts[last].groups # <<>>
      /\ open = "segment" => lastSegment \in DOMAIN posts[last].made
  BY DEF ParserInv, Pointers
<1>5. kept \in Seq(STRING)
  BY <1>1, <1>2, Pieces
<1>6. /\ last = Len(posts) /\ last \in 1 .. Len(posts) /\ Len(document) = last
      /\ posts \in Seq(PostType) /\ document \in Seq(DocType)
  BY <1>3, NamesLast
<1>7. PICK post, doc : /\ post = posts[last] /\ doc = document[last]
                       /\ post \in PostType /\ doc \in DocType /\ Shaped(post)
                       /\ PostNamed(post, doc, Left("group", open, rest), Left("segment", open, rest))
  BY <1>3, LastPost, NamesLast
<1>8. PostsNamed(posts, document, open, rest)
  BY DEF NamesInv
<1>9. document' = [document EXCEPT ![Len(document)] = doc]
  <2>1. Len(document) \in 1 .. Len(document) /\ doc = document[Len(document)]
    BY <1>6, <1>7
  <2>2. QED
    BY <1>1, <1>6, <2>1
<1>10. ASSUME NEW q, posts' = [posts EXCEPT ![last] = q],
              PostNamed(q, doc, Left("group", open', rest'), Left("segment", open', rest'))
       PROVE  PostsNamed(posts', document', open', rest')
  <2>1. Renamed(posts, document, last, q, doc, posts', document')
    BY <1>6, <1>9, <1>10 DEF Renamed
  <2>2. QED
    BY <1>8, <1>10, <2>1, NamesChanged
<1>11. CASE open = "segment"
  <2>1. PICK k \in Nat : /\ post.made \in [1 .. k -> Made] /\ Len(post.made) = k
                         /\ MessageIds(post) = [m \in 1 .. k |-> post.made[m].messageid]
                         /\ Len(MessageIds(post)) = k
    BY <1>7, MadeSequence
  <2>2. lastSegment = k /\ k \in 1 .. k
    <3>1. lastSegment = k
      BY <1>7, <1>11, <2>1 DEF NamesInv
    <3>2. lastSegment \in DOMAIN post.made
      BY <1>4, <1>7, <1>11
    <3>3. QED
      BY <2>1, <3>1, <3>2
  <2>3. PICK seg, id : seg = post.made[k] /\ id = Extended(seg.messageid, kept)
    OBVIOUS
  <2>4. seg \in Made /\ seg.messageid = MessageIds(post)[k]
    BY <2>1, <2>2, <2>3
  <2>5. id \in Seq(STRING)
    BY <1>5, <2>3, <2>4 DEF Extended, Made
  <2>6. PICK seg1, made : /\ seg1 = [seg EXCEPT !.messageid = id]
                          /\ made = [post.made EXCEPT ![k] = seg1]
    OBVIOUS
  <2>7. seg1.messageid = id
    BY <2>4, <2>6 DEF Made
  <2>8. PICK q : q = [post EXCEPT !.made = made]
    OBVIOUS
  <2>9. q.made = made /\ q.groups = post.groups
    BY <1>7, <2>8 DEF PostType
  <2>10. posts' = [posts EXCEPT ![last] = q]
    BY <1>1, <1>4, <1>7, <1>11, <2>2, <2>3, <2>6, <2>8
  <2>11. MessageIds(q) = [MessageIds(post) EXCEPT ![k] = id]
    <3>1. DOMAIN made = 1 .. k
      BY <2>1, <2>6
    <3>2. MessageIds(q) = [m \in 1 .. k |-> made[m].messageid]
      BY <2>9, <3>1 DEF MessageIds
    <3>3. \A m \in 1 .. k : made[m].messageid = IF m = k THEN id ELSE post.made[m].messageid
      BY <2>1, <2>6, <2>7
    <3>4. QED
      BY <2>1, <3>2, <3>3
  <2>12. NamesOf(MessageIds(post), Texts(doc), rest)
    BY <1>7, <1>11 DEF PostNamed, Left
  <2>13. NamesOf(MessageIds(q), Texts(doc), rest')
    <3>1. k # 0 /\ id = Extended(MessageIds(post)[k], Strip(piece))
      BY <1>1, <2>2, <2>3, <2>4
    <3>2. PICK ids : ids = MessageIds(post)
      OBVIOUS
    <3>3. NamesOf([ids EXCEPT ![k] = id], Texts(doc), SubSeq(rest, n + 1, Len(rest)))
      BY <1>1, <2>1, <2>5, <2>12, <3>1, <3>2, NamesRead
    <3>4. QED
      BY <1>1, <2>11, <3>2, <3>3
  <2>14. /\ Left("group", open, rest) = <<>> /\ Left("group", open', rest') = <<>>
         /\ Left("segment", open', rest') = rest'
    BY <1>1, <1>11 DEF Left
  <2>15. PostNamed(q, doc, Left("group", open', rest'), Left("segment", open', rest'))
    BY <1>7, <2>9, <2>13, <2>14 DEF PostNamed
  <2>16. PostsNamed(posts', document', open', rest')
    BY <1>10, <2>10, <2>15
  <2>17. lastSegment' = Len(posts'[last'].made)
    <3>1. posts'[last'] = q
      BY <1>1, <1>6, <2>10
    <3>2. Len(made) = k
      BY <2>1, <2>6
    <3>3. QED
      BY <1>1, <2>2, <2>9, <3>1, <3>2
  <2>18. QED
    BY <1>1, <1>11, <2>16, <2>17 DEF NamesInv
<1>12. CASE open = "group"
  <2>1. PICK ids, k : ids = post.groups /\ k = Len(ids)
    OBVIOUS
  <2>2. ids \in Seq(Seq(STRING)) /\ k = group /\ k # 0 /\ k \in 1 .. Len(ids)
    <3>1. ids \in Seq(Seq(STRING)) /\ ids # <<>>
      BY <1>4, <1>7, <1>12, <2>1 DEF PostType
    <3>2. PICK X : X = Seq(STRING)
      OBVIOUS
    <3>3. k \in Nat /\ k # 0
      BY <2>1, <3>1, <3>2
    <3>4. QED
      BY <1>1, <1>7, <2>1, <3>1, <3>3
  <2>3. PICK id : id = Extended(ids[k], kept)
    OBVIOUS
  <2>4. id \in Seq(STRING)
    BY <1>5, <2>2, <2>3 DEF Extended
  <2>5. PICK ids1 : ids1 = [ids EXCEPT ![k] = id]
    OBVIOUS
  <2>6. PICK q : q = [post EXCEPT !.groups = ids1]
    OBVIOUS
  <2>7. q.groups = ids1 /\ q.made = post.made
    BY <1>7, <2>6 DEF PostType
  <2>8. posts' = [posts EXCEPT ![last] = q]
    BY <1>1, <1>4, <1>7, <1>12, <2>1, <2>2, <2>3, <2>5, <2>6
  <2>9. NamesOf(ids, doc.groups, rest)
    BY <1>7, <1>12, <2>1 DEF PostNamed, Left
  <2>10. NamesOf(ids1, doc.groups, rest')
    <3>1. id = Extended(ids[k], Strip(piece))
      BY <1>1, <2>3
    <3>2. NamesOf([ids EXCEPT ![k] = id], doc.groups, SubSeq(rest, n + 1, Len(rest)))
      BY <1>1, <2>1, <2>2, <2>4, <2>9, <3>1, NamesRead
    <3>3. QED
      BY <1>1, <2>5, <3>2
  <2>11. /\ Left("segment", open, rest) = <<>> /\ Left("segment", open', rest') = <<>>
         /\ Left("group", open', rest') = rest'
    BY <1>1, <1>12 DEF Left
  <2>12. PostNamed(q, doc, Left("group", open', rest'), Left("segment", open', rest'))
    BY <1>7, <2>7, <2>10, <2>11 DEF PostNamed, MessageIds
  <2>13. PostsNamed(posts', document', open', rest')
    BY <1>10, <2>8, <2>12
  <2>14. QED
    BY <1>1, <1>12, <2>13 DEF NamesInv
<1>13. QED
  BY <1>3, <1>11, <1>12


\* The other steps: no post gets another group or another message id.
LEMMA NamesSameStep ==
  ASSUME ParserInv, ParserInv', NamesInv,
         Len(posts') = Len(posts), last' = last, document' = document,
         \A p \in 1 .. Len(posts) : posts'[p].groups = posts[p].groups /\ posts'[p].made = posts[p].made,
         \/ open' = open /\ rest' = rest /\ lastSegment' = lastSegment
         \/ open' \in {"nzb", "file"} /\ rest = <<>> /\ rest' = <<>>
  PROVE  NamesInv'
<1>1. PostsNamed(posts, document, open, rest)
  BY DEF NamesInv
<1>2. (open' = open /\ rest' = rest) \/ (rest = <<>> /\ rest' = <<>>)
  OBVIOUS
<1>3. PostsNamed(posts', document, open', rest')
  BY <1>1, <1>2, NamesKept
<1>4. open' \in {"nzb", "file"} => rest' = <<>>
  BY DEF NamesInv
<1>5. open' = "segment" => lastSegment' = Len(posts'[last'].made)
  <2>1. CASE open' = "segment"
    <3>1. open = "segment" /\ lastSegment' = lastSegment
      BY <2>1
    <3>2. last \in 1 .. Len(posts)
      BY <3>1, LastPost
    <3>3. posts'[last'].made = posts[last].made
      BY <3>2
    <3>4. QED
      BY <3>1, <3>3 DEF NamesInv
  <2>2. QED
    BY <2>1
<1>6. QED
  BY <1>3, <1>4, <1>5 DEF NamesInv

LEMMA NamesEndStep ==
  ASSUME ParserInv, ParserInv', NamesInv, NEW wild, ElementEnd(wild)
  PROVE  NamesInv'
<1>1. /\ open # "nzb" /\ rest = <<>> /\ rest' = rest
      /\ open' \in {"nzb", "file"}
      /\ posts' = IF open = "file"
                  THEN [posts EXCEPT ![last].segments = PostSegmentsSort(posts[last], wild)]
                  ELSE posts
      /\ last' = last /\ document' = document
  BY DEF ElementEnd
<1>2. CASE open = "file"
  <2>1. PICK post, q : /\ post = posts[last]
                       /\ q = [post EXCEPT !.segments = PostSegmentsSort(post, wild)]
    OBVIOUS
  <2>2. /\ last \in 1 .. Len(posts) /\ post \in PostType
    BY <1>1, <2>1, LastPost
  <2>3. q.groups = post.groups /\ q.made = post.made
    BY <2>1, <2>2 DEF PostType
  <2>4. posts' = [posts EXCEPT ![last] = q]
    BY <1>1, <1>2, <2>1
  <2>5. PICK len \in Nat : len = Len(posts) /\ posts \in [1 .. len -> PostType]
    BY DEF ParserInv, PostsOK
  <2>6. Len(posts') = Len(posts)
    <3>1. DOMAIN posts' = 1 .. len
      BY <2>4, <2>5
    <3>2. QED
      BY <2>5, <3>1
  <2>7. ASSUME NEW p \in 1 .. Len(posts)
        PROVE  posts'[p].groups = posts[p].groups /\ posts'[p].made = posts[p].made
    BY <2>1, <2>3, <2>4, <2>5
  <2>8. QED
    BY <1>1, <2>6, <2>7, NamesSameStep
<1>3. CASE open # "file"
  <2>1. posts' = posts
    BY <1>1, <1>3
  <2>2. QED
    BY <1>1, <2>1, NamesSameStep
<1>4. QED
  BY <1>2, <1>3

LEMMA NamesVerdictStep ==
  ASSUME ParserInv, ParserInv', NamesInv, NEW p \in DOMAIN posts, NEW n, NEW v \in Verdict,
         Status(p, n, v), UNCHANGED <<archiveVars, open, rest, document>>
  PROVE  NamesInv'
<1>1. PICK post, q : post = posts[p] /\ q = [post EXCEPT !.status[StatusSlot(p, n)] = v]
  OBVIOUS
<1>2. PICK len \in Nat : len = Len(posts) /\ posts \in [1 .. len -> PostType] /\ p \in 1 .. len
  BY DEF ParserInv, PostsOK
<1>3. q.groups = post.groups /\ q.made = post.made
  <2>1. post \in PostType
    BY <1>1, <1>2
  <2>2. QED
    BY <1>1, <2>1 DEF PostType
<1>4. posts' = [posts EXCEPT ![p] = q]
  BY <1>1 DEF Status
<1>5. Len(posts') = Len(posts)
  <2>1. DOMAIN posts' = 1 .. len
    BY <1>2, <1>4
  <2>2. QED
    BY <1>2, <2>1
<1>6. ASSUME NEW m \in 1 .. Len(posts)
      PROVE  posts'[m].groups = posts[m].groups /\ posts'[m].made = posts[m].made
  BY <1>1, <1>2, <1>3, <1>4
<1>7. last' = last /\ lastSegment' = lastSegment /\ open' = open /\ rest' = rest /\ document' = document
  BY DEF archiveVars
<1>8. QED
  BY <1>5, <1>6, <1>7, NamesSameStep

(* However expat cuts the text, and however many files, groups and segments *)
(* there are: a message id and the name of a group are the text of their    *)
(* element without the blanks around it (element_start, element_data,       *)
(* element_end).                                                            *)
THEOREM AssemblyNamesWhole == Spec => []NamesWhole
<1>1. Init => NamesInv
  <2> SUFFICES ASSUME Init PROVE NamesInv
    OBVIOUS
  <2>1. posts = <<>> /\ open = "nzb" /\ rest = <<>>
    BY DEF Init, ParserInit
  <2>2. Len(posts) = 0
    BY <2>1
  <2>3. PostsNamed(posts, document, open, rest)
    BY <2>2 DEF PostsNamed
  <2>4. QED
    BY <2>1, <2>3 DEF NamesInv
<1>2. ParserInv /\ ParserInv' /\ NamesInv /\ [Next]_assemblyVars => NamesInv'
  <2> SUFFICES ASSUME ParserInv, ParserInv', NamesInv, [Next]_assemblyVars PROVE NamesInv'
    OBVIOUS
  <2>1. CASE UNCHANGED <<posts, archiveVars, open, rest, document>>
    BY <2>1, NamesSameStep DEF archiveVars
  <2>2. CASE Parse
    <3>1. ASSUME NEW s \in Subject, ParseFileElement(s) PROVE NamesInv'
      BY <3>1, NamesFileStep
    <3>2. ASSUME NEW t \in Text, ParseGroupElement(t) PROVE NamesInv'
      BY <3>2, NamesGroupStep
    <3>3. ASSUME NEW k \in Number, NEW t \in Text, NEW h \in AddressHigh, ParseSegmentElement(k, t, h)
          PROVE  NamesInv'
      BY <3>3, NamesSegmentStep
    <3>4. ASSUME NEW n \in 1 .. Len(rest), ElementData(n) PROVE NamesInv'
      BY <3>4, NamesDataStep
    <3>5. CASE ParseEnds
      BY <3>5, NamesSameStep DEF ParseEnds
    <3>6. CASE ListFiles
      BY <2>1, <3>6 DEF ListFiles
    <3>7. CASE SortCrash \/ \E s \in Subject : FilenameCrash(s)
      BY <2>1, <3>7 DEF SortCrash, FilenameCrash
    <3>8. QED
      BY <2>2, <3>1, <3>2, <3>3, <3>4, <3>5, <3>6, <3>7, NamesEndStep, Zenon DEF Parse, ParserNext
  <2>3. ASSUME NEW p \in DOMAIN posts, NEW n, NEW h, Fail(p, n, h) PROVE NamesInv'
    <3>1. "ERROR" \in Verdict
      BY DEF Verdict
    <3>2. QED
      BY <2>3, <3>1, NamesVerdictStep DEF Fail
  <2>4. ASSUME NEW p \in DOMAIN posts, NEW n, NEW h, Complete(p, n, h) PROVE NamesInv'
    <3>1. "COMPLETE" \in Verdict
      BY DEF Verdict
    <3>2. QED
      BY <2>4, <3>1, NamesVerdictStep DEF Complete
  <2>5. CASE UNCHANGED assemblyVars
    BY <2>1, <2>5 DEF assemblyVars, parserVars
  <2>6. ASSUME NEW p, DownloadWild(p) PROVE NamesInv'
    BY <2>1, <2>6 DEF DownloadWild
  <2>7. QED
    BY <2>2, <2>3, <2>4, <2>5, <2>6, Zenon DEF Next
<1>3. ParserInv /\ NamesInv => NamesWhole
  <2> SUFFICES ASSUME ParserInv, NamesInv, open \in {"nzb", "file"}, NEW p \in 1 .. Len(posts)
               PROVE  /\ \A n \in DOMAIN posts[p].made :
                           posts[p].made[n].messageid = Word(document[p].segments[n].text)
                      /\ \A n \in DOMAIN posts[p].groups :
                           posts[p].groups[n] = Word(document[p].groups[n])
    BY DEF NamesWhole
  <2>1. PICK post, doc : post = posts[p] /\ doc = document[p]
    OBVIOUS
  <2>2. post \in PostType /\ Shaped(post) /\ doc \in DocType
    <3>1. posts \in Seq(PostType) /\ Shaped(post)
      BY <2>1 DEF ParserInv, PostsOK
    <3>2. document \in Seq(DocType) /\ Len(document) = Len(posts)
      BY <3>1 DEF ParserInv, Listing, FileNames
    <3>3. QED
      BY <2>1, <3>1, <3>2
  <2>3. PostNamed(post, doc, <<>>, <<>>)
    <3>1. Left("group", open, rest) = <<>> /\ Left("segment", open, rest) = <<>>
      BY DEF Left
    <3>2. QED
      BY <2>1, <3>1 DEF NamesInv, PostsNamed
  <2>4. ASSUME NEW ids, NEW texts, NamesOf(ids, texts, <<>>), NEW n \in 1 .. Len(ids)
        PROVE  ids[n] = Word(texts[n])
    <3>1. Named(ids[n], texts[n], <<>>) /\ texts \in Seq(Text) /\ Len(ids) = Len(texts)
      BY <2>4 DEF NamesOf
    <3>2. texts[n] \in Text
      BY <3>1
    <3>3. QED
      BY <3>1, <3>2, NamedWhole
  <2>5. ASSUME NEW n \in DOMAIN post.groups PROVE post.groups[n] = Word(doc.groups[n])
    <3>1. post.groups \in Seq(Seq(STRING))
      BY <2>2 DEF PostType
    <3>2. n \in 1 .. Len(post.groups)
      <4>1. PICK X : X = Seq(STRING)
        OBVIOUS
      <4>2. QED
        BY <2>5, <3>1, <4>1
    <3>3. QED
      BY <2>3, <2>4, <3>2 DEF PostNamed
  <2>6. ASSUME NEW n \in DOMAIN post.made
        PROVE  post.made[n].messageid = Word(doc.segments[n].text)
    <3>1. PICK k \in Nat : /\ post.made \in [1 .. k -> Made]
                           /\ MessageIds(post) = [m \in 1 .. k |-> post.made[m].messageid]
                           /\ Len(MessageIds(post)) = k
      BY <2>2, MadeSequence
    <3>2. n \in 1 .. k
      BY <2>6, <3>1
    <3>3. NamesOf(MessageIds(post), Texts(doc), <<>>)
      BY <2>3 DEF PostNamed
    <3>4. MessageIds(post)[n] = Word(Texts(doc)[n])
      BY <2>4, <3>1, <3>2, <3>3
    <3>5. n \in DOMAIN doc.segments
      <4>1. Len(Texts(doc)) = k /\ Texts(doc) \in Seq(Text)
        BY <3>1, <3>3 DEF NamesOf
      <4>2. DOMAIN Texts(doc) = 1 .. k
        BY <4>1
      <4>3. QED
        BY <3>2, <4>2 DEF Texts
    <3>6. Texts(doc)[n] = doc.segments[n].text
      BY <3>5 DEF Texts
    <3>7. MessageIds(post)[n] = post.made[n].messageid
      BY <3>1, <3>2
    <3>8. QED
      BY <3>4, <3>6, <3>7
  <2>7. QED
    BY <2>1, <2>5, <2>6
<1>4. QED
  BY <1>1, <1>2, <1>3, ParserInvariant, PTL DEF Spec

=============================================================================
