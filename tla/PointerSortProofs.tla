-------------------------- MODULE PointerSortProofs --------------------------
(***************************************************************************)
(* What server_sort and post_segments_sort do to an array of any length:    *)
(* they rearrange the part they are given and nothing else, and leave it in *)
(* ascending order of the keys.  swap exchanges the lower halves of two     *)
(* pointers, so this holds if all upper halves are the same.                *)
(*                                                                          *)
(* The loop and the calls are recursive functions.  That there are such     *)
(* functions is shown by iterating their step (Induction!Iteration); what   *)
(* they compute follows by induction over the turns of the loop and over    *)
(* the depth of the calls.                                                  *)
(***************************************************************************)
EXTENDS PointerSort, Induction, FiniteSetTheorems

\* All upper halves are the same.
OneHigh(Pointer) == \E high, Low : Pointer = [high : {high}, low : Low]

(* The array and the part of it that a call has to sort.                    *)
Sortable(Pointer, N, key, arr, beg, end) ==
  /\ OneHigh(Pointer)
  /\ N \in Nat
  /\ key \in [Pointer -> Int]
  /\ arr \in [1 .. N -> Pointer]
  /\ beg \in 1 .. N
  /\ end \in 1 .. N + 1
  /\ beg < end

Exchanged(arr, m, n) ==
  [i \in DOMAIN arr |-> IF i = m THEN arr[n] ELSE IF i = n THEN arr[m] ELSE arr[i]]

(* p moves values within the part from beg up to but excluding end only.    *)
Moves(p, N, beg, end) ==
  /\ p \in Bijection(1 .. N, 1 .. N)
  /\ \A i \in 1 .. N : ~ (beg <= i /\ i < end) => p[i] = i

Rearranged(a, b, N, beg, end) ==
  \E p : Moves(p, N, beg, end) /\ b = [i \in 1 .. N |-> a[p[i]]]

Ordered(key, a, beg, end) ==
  \A i, j \in beg .. end - 1 : i < j => key[a[i]] <= key[a[j]]

-----------------------------------------------------------------------------
LEMMA SwapExchanges ==
  ASSUME NEW Pointer, OneHigh(Pointer), NEW N \in Nat, NEW arr \in [1 .. N -> Pointer],
         NEW m \in 1 .. N, NEW n \in 1 .. N
  PROVE  Swap(arr, m, n) = Exchanged(arr, m, n)
<1>1. PICK high, Low : Pointer = [high : {high}, low : Low]
  BY DEF OneHigh
<1>2. \A i \in 1 .. N : arr[i].high = high /\ arr[i].low \in Low
  BY <1>1
<1>3. \A p, r \in Pointer : [p EXCEPT !.low = r.low] = r
  BY <1>1
<1> DEFINE one == [arr EXCEPT ![m] = [arr[m] EXCEPT !.low = arr[n].low]]
<1>4. one = [arr EXCEPT ![m] = arr[n]]
  BY <1>3
<1>5. Swap(arr, m, n) = [one EXCEPT ![n] = [one[n] EXCEPT !.low = arr[m].low]]
  BY DEF Swap
<1>6. one[n] \in Pointer /\ arr[m] \in Pointer
  BY <1>4
<1>7. [one[n] EXCEPT !.low = arr[m].low] = arr[m]
  BY <1>3, <1>6
<1>8. Swap(arr, m, n) = [[arr EXCEPT ![m] = arr[n]] EXCEPT ![n] = arr[m]]
  BY <1>4, <1>5, <1>7
<1>9. QED
  BY <1>8 DEF Exchanged

LEMMA RearrangedSame ==
  ASSUME NEW Value, NEW N \in Nat, NEW a \in [1 .. N -> Value], NEW beg, NEW end
  PROVE  Rearranged(a, a, N, beg, end)
<1> DEFINE p == [i \in 1 .. N |-> i]
<1>1. Moves(p, N, beg, end)
  BY DEF Moves, Bijection, Injection, Surjection, IsInjective
<1>2. a = [i \in 1 .. N |-> a[p[i]]]
  OBVIOUS
<1>3. QED
  BY <1>1, <1>2 DEF Rearranged

LEMMA RearrangedSwap ==
  ASSUME NEW Value, NEW N \in Nat, NEW a \in [1 .. N -> Value],
         NEW beg \in Int, NEW end \in Int, NEW m \in 1 .. N, NEW n \in 1 .. N,
         beg <= m, m < end, beg <= n, n < end
  PROVE  Rearranged(a, Exchanged(a, m, n), N, beg, end)
<1> DEFINE p == [i \in 1 .. N |-> IF i = m THEN n ELSE IF i = n THEN m ELSE i]
<1>1. Moves(p, N, beg, end)
  <2>1. p \in [1 .. N -> 1 .. N]
    OBVIOUS
  <2>2. \A i, j \in 1 .. N : p[i] = p[j] => i = j
    OBVIOUS
  <2>3. \A j \in 1 .. N : \E i \in 1 .. N : p[i] = j
    <3> TAKE j \in 1 .. N
    <3>1. p[p[j]] = j
      OBVIOUS
    <3>2. QED
      BY <2>1, <3>1
  <2>4. \A i \in 1 .. N : ~ (beg <= i /\ i < end) => p[i] = i
    OBVIOUS
  <2> HIDE DEF p
  <2>5. QED
    BY <2>1, <2>2, <2>3, <2>4 DEF Moves, Bijection, Injection, Surjection, IsInjective
<1>2. Exchanged(a, m, n) = [i \in 1 .. N |-> a[p[i]]]
  BY DEF Exchanged
<1>3. QED
  BY <1>1, <1>2 DEF Rearranged

(* One rearrangement after another, the second in a part of the first.      *)
LEMMA RearrangedTwice ==
  ASSUME NEW Value, NEW N \in Nat, NEW a \in [1 .. N -> Value],
         NEW b, NEW c, NEW beg \in Int, NEW end \in Int, NEW l \in Int, NEW r \in Int,
         beg <= l, r <= end,
         Rearranged(a, b, N, beg, end), Rearranged(b, c, N, l, r)
  PROVE  Rearranged(a, c, N, beg, end)
<1>1. PICK p : Moves(p, N, beg, end) /\ b = [i \in 1 .. N |-> a[p[i]]]
  BY DEF Rearranged
<1>2. PICK q : Moves(q, N, l, r) /\ c = [i \in 1 .. N |-> b[q[i]]]
  BY DEF Rearranged
<1> DEFINE pq == [i \in 1 .. N |-> p[q[i]]]
<1>3. /\ p \in [1 .. N -> 1 .. N]
      /\ \A i, j \in 1 .. N : p[i] = p[j] => i = j
      /\ \A j \in 1 .. N : \E i \in 1 .. N : p[i] = j
  BY <1>1 DEF Moves, Bijection, Injection, Surjection, IsInjective
<1>4. /\ q \in [1 .. N -> 1 .. N]
      /\ \A i, j \in 1 .. N : q[i] = q[j] => i = j
      /\ \A j \in 1 .. N : \E i \in 1 .. N : q[i] = j
  BY <1>2 DEF Moves, Bijection, Injection, Surjection, IsInjective
<1>5. /\ pq \in [1 .. N -> 1 .. N]
      /\ \A i, j \in 1 .. N : pq[i] = pq[j] => i = j
  BY <1>3, <1>4
<1>6. \A j \in 1 .. N : \E i \in 1 .. N : pq[i] = j
  <2> TAKE j \in 1 .. N
  <2>1. PICK k \in 1 .. N : p[k] = j
    BY <1>3
  <2>2. PICK i \in 1 .. N : q[i] = k
    BY <1>4
  <2>3. QED
    BY <2>1, <2>2
<1>7. \A i \in 1 .. N : ~ (beg <= i /\ i < end) => pq[i] = i
  <2> SUFFICES ASSUME NEW i \in 1 .. N, ~ (beg <= i /\ i < end) PROVE pq[i] = i
    OBVIOUS
  <2>1. ~ (l <= i /\ i < r)
    OBVIOUS
  <2>2. q[i] = i /\ p[i] = i
    BY <1>1, <1>2, <2>1 DEF Moves
  <2>3. QED
    BY <2>2
<1>8. c = [i \in 1 .. N |-> a[pq[i]]]
  BY <1>1, <1>2, <1>3, <1>4
<1> HIDE DEF pq
<1>9. Moves(pq, N, beg, end)
  BY <1>5, <1>6, <1>7 DEF Moves, Bijection, Injection, Surjection, IsInjective
<1>10. QED
  BY <1>8, <1>9 DEF Rearranged

(* What a rearrangement leaves as it was.                                   *)
LEMMA RearrangedType ==
  ASSUME NEW Value, NEW N, NEW a \in [1 .. N -> Value],
         NEW b, NEW beg, NEW end, Rearranged(a, b, N, beg, end)
  PROVE  b \in [1 .. N -> Value]
BY DEF Rearranged, Moves, Bijection, Injection

Keeps(a, b, N, beg, end) ==
  /\ \A i \in 1 .. N : ~ (beg <= i /\ i < end) => b[i] = a[i]
  /\ \A i \in 1 .. N : beg <= i /\ i < end =>
       \E j \in 1 .. N : beg <= j /\ j < end /\ b[i] = a[j]
  /\ {b[i] : i \in 1 .. N} = {a[i] : i \in 1 .. N}

LEMMA RearrangedKeeps ==
  ASSUME NEW N \in Nat, NEW a, NEW b, NEW beg \in Int, NEW end \in Int,
         Rearranged(a, b, N, beg, end)
  PROVE  Keeps(a, b, N, beg, end)
<1>1. PICK p : Moves(p, N, beg, end) /\ b = [i \in 1 .. N |-> a[p[i]]]
  BY DEF Rearranged
<1>2. /\ p \in [1 .. N -> 1 .. N]
      /\ \A i, j \in 1 .. N : p[i] = p[j] => i = j
      /\ \A j \in 1 .. N : \E i \in 1 .. N : p[i] = j
      /\ \A i \in 1 .. N : ~ (beg <= i /\ i < end) => p[i] = i
  BY <1>1 DEF Moves, Bijection, Injection, Surjection, IsInjective
<1>3. \A i \in 1 .. N : b[i] = a[p[i]]
  BY <1>1, <1>2
<1>4. \A i \in 1 .. N : ~ (beg <= i /\ i < end) => b[i] = a[i]
  BY <1>2, <1>3
<1>5. ASSUME NEW i \in 1 .. N, beg <= i, i < end
      PROVE  \E j \in 1 .. N : beg <= j /\ j < end /\ b[i] = a[j]
  <2>1. p[i] \in 1 .. N /\ b[i] = a[p[i]]
    BY <1>2, <1>3
  <2>2. beg <= p[i] /\ p[i] < end
    <3>1. CASE ~ (beg <= p[i] /\ p[i] < end)
      <4>1. p[p[i]] = p[i]
        BY <1>2, <2>1, <3>1
      <4>2. p[i] = i
        BY <1>2, <2>1, <4>1
      <4>3. QED
        BY <1>5, <3>1, <4>2
    <3>2. QED
      BY <3>1
  <2>3. QED
    BY <2>1, <2>2
<1>6. {b[i] : i \in 1 .. N} = {a[i] : i \in 1 .. N}
  <2> DEFINE D == 1 .. N
  <2>1. \A i \in D : \E j \in D : b[i] = a[j]
    BY <1>2, <1>3
  <2>2. \A j \in D : \E i \in D : b[i] = a[j]
    <3> TAKE j \in D
    <3>1. PICK i \in D : p[i] = j
      BY <1>2
    <3>2. QED
      BY <1>3, <3>1
  <2> HIDE DEF D
  <2>3. {b[i] : i \in D} \subseteq {a[i] : i \in D}
    BY <2>1
  <2>4. {a[i] : i \in D} \subseteq {b[i] : i \in D}
    BY <2>2
  <2>5. QED
    BY <2>3, <2>4 DEF D
<1>7. QED
  BY <1>4, <1>5, <1>6 DEF Keeps

-----------------------------------------------------------------------------
(* The inner loop.                                                          *)
Turn(Pointer, N, beg, end) ==
  {s \in [arr : [1 .. N -> Pointer], l : Int, r : Int] :
     beg + 1 <= s.l /\ s.l <= s.r /\ s.r <= end}

LEMMA NarrowType ==
  ASSUME NEW Pointer, NEW N, NEW key, NEW arr, NEW beg, NEW end,
         Sortable(Pointer, N, key, arr, beg, end),
         NEW piv, piv = key[arr[beg]],
         NEW s \in Turn(Pointer, N, beg, end)
  PROVE  /\ Narrow(key, piv, s) \in Turn(Pointer, N, beg, end)
         /\ s.l >= s.r => Narrow(key, piv, s) = s
         /\ s.l < s.r => /\ s.l \in 1 .. N /\ s.r - 1 \in 1 .. N
                         /\ s.arr[s.l] \in Pointer
                         /\ key[s.arr[s.l]] \in Int
         /\ s.l < s.r /\ key[s.arr[s.l]] <= piv =>
              Narrow(key, piv, s) = [arr |-> s.arr, l |-> s.l + 1, r |-> s.r]
         /\ s.l < s.r /\ ~ (key[s.arr[s.l]] <= piv) =>
              Narrow(key, piv, s) =
                [arr |-> Exchanged(s.arr, s.l, s.r - 1), l |-> s.l, r |-> s.r - 1]
<1>0. /\ OneHigh(Pointer) /\ N \in Nat /\ key \in [Pointer -> Int]
      /\ arr \in [1 .. N -> Pointer] /\ beg \in 1 .. N /\ end \in 1 .. N + 1
      /\ beg < end /\ key[arr[beg]] \in Int
  BY DEF Sortable
<1> USE <1>0
<1>1. /\ s \in [arr : [1 .. N -> Pointer], l : Int, r : Int]
      /\ s.arr \in [1 .. N -> Pointer] /\ s.l \in Int /\ s.r \in Int
      /\ beg + 1 <= s.l /\ s.l <= s.r /\ s.r <= end
  BY DEF Turn
<1>2. CASE s.l >= s.r
  BY <1>1, <1>2 DEF Narrow
<1>3. CASE s.l < s.r
  <2>1. s.l \in 1 .. N /\ s.r - 1 \in 1 .. N
    BY <1>1, <1>3
  <2>2. s.arr[s.l] \in Pointer /\ key[s.arr[s.l]] \in Int
    BY <1>1, <2>1
  <2>3. CASE key[s.arr[s.l]] <= piv
    <3>1. Narrow(key, piv, s) = [s EXCEPT !.l = s.l + 1]
      BY <1>1, <1>3, <2>3 DEF Narrow
    <3>2. Narrow(key, piv, s) = [arr |-> s.arr, l |-> s.l + 1, r |-> s.r]
      BY <1>1, <3>1
    <3>3. Narrow(key, piv, s) \in Turn(Pointer, N, beg, end)
      BY <1>1, <1>3, <3>2 DEF Turn
    <3>4. QED
      BY <1>1, <1>3, <2>1, <2>2, <2>3, <3>2, <3>3
  <2>4. CASE ~ (key[s.arr[s.l]] <= piv)
    <3>1. Swap(s.arr, s.l, s.r - 1) = Exchanged(s.arr, s.l, s.r - 1)
      BY <1>1, <2>1, SwapExchanges
    <3>2. Narrow(key, piv, s) = [s EXCEPT !.arr = Exchanged(s.arr, s.l, s.r - 1), !.r = s.r - 1]
      <4>1. ~ (s.l >= s.r)
        BY <1>1, <1>3
      <4>2. Narrow(key, piv, s) = [s EXCEPT !.arr = Swap(s.arr, s.l, s.r - 1), !.r = s.r - 1]
        BY <4>1, <2>4, Zenon DEF Narrow
      <4>3. QED
        BY <3>1, <4>2, Zenon
    <3>3. Narrow(key, piv, s) = [arr |-> Exchanged(s.arr, s.l, s.r - 1), l |-> s.l, r |-> s.r - 1]
      BY <1>1, <3>2
    <3>4. Exchanged(s.arr, s.l, s.r - 1) \in [1 .. N -> Pointer]
      BY <1>1, <2>1 DEF Exchanged
    <3>5. Narrow(key, piv, s) \in Turn(Pointer, N, beg, end)
      <4>1. s.r - 1 \in Int /\ s.l <= s.r - 1 /\ s.r - 1 <= end
        BY <1>1, <1>3
      <4>2. QED
        BY <1>1, <3>3, <3>4, <4>1 DEF Turn
    <3>6. QED
      BY <1>1, <1>3, <2>1, <2>2, <2>4, <3>3, <3>5
  <2>5. QED
    BY <2>3, <2>4
<1>4. QED
  BY <1>1, <1>2, <1>3

\* f[n] is what n turns of the inner loop make of its variables.
Loops(f, key, arr, beg, end) ==
  /\ f[0] = [arr |-> arr, l |-> beg + 1, r |-> end]
  /\ \A n \in 1 .. end - beg : f[n] = Narrow(key, key[arr[beg]], f[n-1])

LEMMA PartitionLoop ==
  ASSUME NEW Pointer, NEW N, NEW key, NEW arr, NEW beg, NEW end,
         Sortable(Pointer, N, key, arr, beg, end)
  PROVE  \E f : Loops(f, key, arr, beg, end) /\ Partition(key, arr, beg, end) = f[end - beg]
<1>0. /\ OneHigh(Pointer) /\ N \in Nat /\ key \in [Pointer -> Int]
      /\ arr \in [1 .. N -> Pointer] /\ beg \in 1 .. N /\ end \in 1 .. N + 1
      /\ beg < end /\ key[arr[beg]] \in Int
  BY DEF Sortable
<1> USE <1>0
<1> DEFINE X == Turn(Pointer, N, beg, end)
           M == end - beg
           a == [arr |-> arr, l |-> beg + 1, r |-> end]
           piv == key[arr[beg]]
           turn == [n \in Nat |-> [s \in X |-> Narrow(key, piv, s)]]
           body(f) == [n \in 0 .. M |-> IF n = 0 THEN a ELSE Narrow(key, piv, f[n-1])]
           loop == CHOOSE f : f = body(f)
<1>1. M \in Nat /\ piv \in Int /\ a \in X
  BY DEF Turn
<1>2. Steps(turn, X)
  BY <1>1, NarrowType DEF Steps
<1>3. PICK f : Iterates(f, X, a, turn, M)
  <2> HIDE DEF X, a, turn, M
  <2>1. QED
    BY <1>1, <1>2, Iteration, Zenon
<1>4. f = body(f)
  <2> HIDE DEF X, a, M, piv
  <2>1. f \in [0 .. M -> X] /\ f[0] = a
    BY <1>3 DEF Iterates
  <2>2. ASSUME NEW n \in 1 .. M PROVE f[n] = Narrow(key, piv, f[n-1])
    <3>1. n \in Nat /\ f[n-1] \in X
      BY <1>1, <2>1
    <3>2. f[n] = turn[n][f[n-1]]
      BY <1>3 DEF Iterates
    <3>3. QED
      BY <3>1, <3>2, Zenon
  <2>3. \A n \in 0 .. M : f[n] = IF n = 0 THEN a ELSE Narrow(key, piv, f[n-1])
    BY <1>1, <2>1, <2>2
  <2>4. f = [n \in 0 .. M |-> f[n]]
    BY <2>1
  <2>5. QED
    BY <2>3, <2>4, Zenon
<1>5. loop = body(loop)
  <2> HIDE DEF body
  <2>1. QED
    BY <1>4
<1>6. Partition(key, arr, beg, end) = loop[M]
  BY Zenon DEF Partition
<1>7. /\ loop[0] = a
      /\ \A n \in 1 .. M : loop[n] = Narrow(key, piv, loop[n-1])
  <2> DEFINE g == loop
  <2>1. g = body(g)
    BY <1>5
  <2> HIDE DEF loop, g, a, piv, M
  <2>2. /\ g[0] = a
        /\ \A n \in 1 .. M : g[n] = Narrow(key, piv, g[n-1])
    BY <1>1, <2>1
  <2>3. QED
    BY <2>2 DEF g
<1> HIDE DEF loop
<1>8. Loops(loop, key, arr, beg, end)
  BY <1>7 DEF Loops
<1>9. QED
  BY <1>6, <1>8

(* What holds of the loop's variables: the values up to l are no greater    *)
(* than the pivot, those from r on are greater.                             *)
Parted(key, arr, N, beg, end, a, l, r) ==
  /\ Rearranged(arr, a, N, beg + 1, end)
  /\ \A i \in beg + 1 .. l - 1 : key[a[i]] <= key[arr[beg]]
  /\ \A i \in r .. end - 1 : key[a[i]] > key[arr[beg]]

LEMMA PartsGrow ==
  ASSUME NEW Pointer, NEW N \in Nat, NEW key \in [Pointer -> Int],
         NEW arr \in [1 .. N -> Pointer], NEW beg \in 1 .. N, NEW end \in 1 .. N + 1,
         NEW a \in [1 .. N -> Pointer], NEW l \in Int, NEW r \in Int,
         beg + 1 <= l, l < r, r <= end, Parted(key, arr, N, beg, end, a, l, r)
  PROVE  IF key[a[l]] <= key[arr[beg]]
         THEN Parted(key, arr, N, beg, end, a, l + 1, r)
         ELSE Parted(key, arr, N, beg, end, Exchanged(a, l, r - 1), l, r - 1)
<1> DEFINE piv == key[arr[beg]]
<1>1. /\ piv \in Int
      /\ l \in 1 .. N /\ r - 1 \in 1 .. N
      /\ key[a[l]] \in Int
  OBVIOUS
<1>2. CASE key[a[l]] <= piv
  <2>1. \A i \in beg + 1 .. l : key[a[i]] <= piv
    BY <1>2 DEF Parted
  <2>2. QED
    BY <1>2, <2>1 DEF Parted
<1>3. CASE ~ (key[a[l]] <= piv)
  <2> DEFINE b == Exchanged(a, l, r - 1)
  <2>1. \A i \in 1 .. N : b[i] = IF i = l THEN a[r - 1] ELSE IF i = r - 1 THEN a[l] ELSE a[i]
    BY <1>1 DEF Exchanged
  <2>2. Rearranged(arr, b, N, beg + 1, end)
    <3> DEFINE beg1 == beg + 1
               r1 == r - 1
    <3>1. /\ beg1 \in Int /\ end \in Int /\ l \in 1 .. N /\ r1 \in 1 .. N
          /\ beg1 <= l /\ l < end /\ beg1 <= r1 /\ r1 < end
          /\ beg1 <= beg1 /\ end <= end
      BY <1>1
    <3>2. Rearranged(arr, a, N, beg1, end)
      BY DEF Parted
    <3> HIDE DEF beg1, r1
    <3>3. Rearranged(a, Exchanged(a, l, r1), N, beg1, end)
      BY <3>1, RearrangedSwap
    <3>4. Rearranged(arr, Exchanged(a, l, r1), N, beg1, end)
      BY <3>1, <3>2, <3>3, RearrangedTwice
    <3>5. QED
      BY <3>4 DEF b, beg1, r1
  <2> HIDE DEF b
  <2>3. \A i \in beg + 1 .. l - 1 : key[b[i]] <= piv
    <3> TAKE i \in beg + 1 .. l - 1
    <3>1. i \in 1 .. N /\ i # l /\ i # r - 1
      OBVIOUS
    <3>2. b[i] = a[i]
      BY <2>1, <3>1
    <3>3. QED
      BY <3>2 DEF Parted
  <2>4. \A i \in r - 1 .. end - 1 : key[b[i]] > piv
    <3> TAKE i \in r - 1 .. end - 1
    <3>1. CASE i = r - 1
      <4>1. b[i] = a[l]
        BY <1>1, <2>1, <3>1
      <4>2. QED
        BY <1>1, <1>3, <4>1
    <3>2. CASE i # r - 1
      <4>1. i \in 1 .. N /\ i # l /\ i \in r .. end - 1
        BY <3>2
      <4>2. b[i] = a[i]
        BY <2>1, <3>2, <4>1
      <4>3. QED
        BY <4>1, <4>2 DEF Parted
    <3>3. QED
      BY <3>1, <3>2
  <2>5. Parted(key, arr, N, beg, end, b, l, r - 1)
    BY <2>2, <2>3, <2>4 DEF Parted
  <2>6. QED
    BY <1>3, <2>5 DEF b
<1>4. QED
  BY <1>2, <1>3

(* After n turns, the loop has at most M - 1 - n left.                      *)
LEMMA NarrowParts ==
  ASSUME NEW Pointer, NEW N, NEW key, NEW arr, NEW beg, NEW end,
         Sortable(Pointer, N, key, arr, beg, end),
         NEW s \in Turn(Pointer, N, beg, end),
         Parted(key, arr, N, beg, end, s.arr, s.l, s.r),
         NEW k \in Int, s.l = s.r \/ s.r - s.l <= k,
         NEW piv, piv = key[arr[beg]],
         NEW s1, s1 = Narrow(key, piv, s)
  PROVE  /\ s1 \in Turn(Pointer, N, beg, end)
         /\ Parted(key, arr, N, beg, end, s1.arr, s1.l, s1.r)
         /\ s1.l = s1.r \/ s1.r - s1.l <= k - 1
<1>a. Narrow(key, piv, s) \in Turn(Pointer, N, beg, end)
  BY NarrowType
<1>b. s.l >= s.r => Narrow(key, piv, s) = s
  BY NarrowType
<1>c. s.l < s.r /\ ~ (key[s.arr[s.l]] <= piv) =>
        Narrow(key, piv, s) =
          [arr |-> Exchanged(s.arr, s.l, s.r - 1), l |-> s.l, r |-> s.r - 1]
  BY NarrowType
<1>0. /\ OneHigh(Pointer) /\ N \in Nat /\ key \in [Pointer -> Int]
      /\ arr \in [1 .. N -> Pointer] /\ beg \in 1 .. N /\ end \in 1 .. N + 1
      /\ beg < end /\ key[arr[beg]] \in Int
  BY DEF Sortable
<1> USE <1>0
<1>1. PICK a \in [1 .. N -> Pointer], l \in Int, r \in Int :
        /\ s.arr = a /\ s.l = l /\ s.r = r
        /\ beg + 1 <= l /\ l <= r /\ r <= end
  BY DEF Turn
<1>2. l = r \/ r - l <= k
  <2>1. s.l = s.r \/ s.r - s.l <= k
    OBVIOUS
  <2>2. QED
    BY <1>1, <2>1, Zenon
<1>3. /\ s1 \in Turn(Pointer, N, beg, end)
      /\ s.l >= s.r => s1 = s
      /\ s.l < s.r /\ ~ (key[s.arr[s.l]] <= piv) =>
           s1 = [arr |-> Exchanged(s.arr, s.l, s.r - 1), l |-> s.l, r |-> s.r - 1]
  BY <1>a, <1>b, <1>c, Zenon
<1>4. CASE l = r
  <2>1. s1 = s
    BY <1>1, <1>3, <1>4
  <2>2. QED
    BY <1>1, <1>4, <2>1
<1>5. CASE l < r /\ key[a[l]] <= piv
  <2>1. s1 = [arr |-> a, l |-> l + 1, r |-> r]
    <3>1. s.l < s.r /\ key[s.arr[s.l]] <= piv
      BY <1>1, <1>5
    <3>2. s1 = [s EXCEPT !.l = l + 1]
      BY <1>1, <1>5, <3>1 DEF Narrow
    <3>3. s = [arr |-> a, l |-> l, r |-> r]
      BY <1>1 DEF Turn
    <3>4. QED
      BY <3>2, <3>3
  <2>2. s1.arr = a /\ s1.l = l + 1 /\ s1.r = r
    BY <2>1
  <2>3. Parted(key, arr, N, beg, end, a, l, r)
    BY <1>1
  <2>4. Parted(key, arr, N, beg, end, a, l + 1, r)
    BY <1>1, <1>5, <2>3, PartsGrow
  <2>5. r - (l + 1) <= k - 1
    BY <1>2, <1>5
  <2>6. QED
    BY <1>3, <2>2, <2>4, <2>5
<1>6. CASE l < r /\ ~ (key[a[l]] <= piv)
  <2>1. s1 = [arr |-> Exchanged(a, l, r - 1), l |-> l, r |-> r - 1]
    <3>1. s.l < s.r /\ ~ (key[s.arr[s.l]] <= piv)
      BY <1>1, <1>6
    <3>2. s1 = [arr |-> Exchanged(s.arr, s.l, s.r - 1), l |-> s.l, r |-> s.r - 1]
      BY <1>3, <3>1, Zenon
    <3>3. QED
      BY <1>1, <3>2, Zenon
  <2>2. s1.arr = Exchanged(a, l, r - 1) /\ s1.l = l /\ s1.r = r - 1
    BY <2>1
  <2>3. Parted(key, arr, N, beg, end, a, l, r)
    BY <1>1
  <2>4. Parted(key, arr, N, beg, end, Exchanged(a, l, r - 1), l, r - 1)
    BY <1>1, <1>6, <2>3, PartsGrow
  <2>5. (r - 1) - l <= k - 1
    BY <1>2, <1>6
  <2>6. QED
    BY <1>3, <2>2, <2>4, <2>5
<1>7. l = r \/ l < r
  BY <1>1
<1>8. QED
  BY <1>4, <1>5, <1>6, <1>7

LEMMA PartitionParts ==
  ASSUME NEW Pointer, NEW N, NEW key, NEW arr, NEW beg, NEW end,
         Sortable(Pointer, N, key, arr, beg, end)
  PROVE  \E a \in [1 .. N -> Pointer], l \in beg + 1 .. end :
           /\ Partition(key, arr, beg, end) = [arr |-> a, l |-> l, r |-> l]
           /\ Parted(key, arr, N, beg, end, a, l, l)
<1>0. /\ OneHigh(Pointer) /\ N \in Nat /\ key \in [Pointer -> Int]
      /\ arr \in [1 .. N -> Pointer] /\ beg \in 1 .. N /\ end \in 1 .. N + 1
      /\ beg < end /\ key[arr[beg]] \in Int
  BY DEF Sortable
<1> USE <1>0
<1> DEFINE X == Turn(Pointer, N, beg, end)
           M == end - beg
           Inv(n, s) == /\ s \in X
                        /\ Parted(key, arr, N, beg, end, s.arr, s.l, s.r)
                        /\ s.l = s.r \/ s.r - s.l <= M - 1 - n
<1>1. PICK f : Loops(f, key, arr, beg, end) /\ Partition(key, arr, beg, end) = f[M]
  BY PartitionLoop
<1>2. M \in Nat /\ key[arr[beg]] \in Int
  OBVIOUS
<1>3. Inv(0, f[0])
  <2>1. /\ f[0] \in X
        /\ f[0].arr = arr /\ f[0].l = beg + 1 /\ f[0].r = end
    BY <1>1 DEF Turn, Loops
  <2>2. Rearranged(arr, arr, N, beg + 1, end)
    BY RearrangedSame
  <2>3. Parted(key, arr, N, beg, end, arr, beg + 1, end)
    BY <2>2 DEF Parted
  <2>4. QED
    BY <2>1, <2>3
<1>4. ASSUME NEW n \in 0 .. M - 1, Inv(n, f[n]) PROVE Inv(n + 1, f[n + 1])
  <2>1. f[n + 1] = Narrow(key, key[arr[beg]], f[n])
    <3>1. n + 1 \in 1 .. M /\ (n + 1) - 1 = n
      BY <1>2
    <3>2. QED
      BY <1>1, <3>1 DEF Loops
  <2>2. PICK k \in Int : k = M - 1 - n
    BY <1>2
  <2>3. k - 1 = M - 1 - (n + 1)
    BY <1>2, <2>2
  <2> DEFINE s == f[n]
             s1 == f[n + 1]
  <2>4. /\ s \in Turn(Pointer, N, beg, end)
        /\ Parted(key, arr, N, beg, end, s.arr, s.l, s.r)
        /\ s.l = s.r \/ s.r - s.l <= k
        /\ s1 = Narrow(key, key[arr[beg]], s)
    BY <1>4, <2>1, <2>2
  <2> HIDE DEF s, s1, M
  <2>5. /\ s1 \in Turn(Pointer, N, beg, end)
        /\ Parted(key, arr, N, beg, end, s1.arr, s1.l, s1.r)
        /\ s1.l = s1.r \/ s1.r - s1.l <= k - 1
    BY <1>2, <2>4, NarrowParts
  <2>6. QED
    BY <2>3, <2>5 DEF s1
<1> DEFINE S == {n \in 0 .. M : Inv(n, f[n])}
<1> HIDE DEF Inv
<1>5. 0 \in S
  BY <1>2, <1>3
<1>6. \A n \in 0 .. M - 1 : n \in S => n + 1 \in S
  BY <1>2, <1>4
<1>7. M \in S
  <2> HIDE DEF S, M
  <2>1. 0 .. M \subseteq S
    BY <1>2, <1>5, <1>6, BoundedInduction
  <2>2. QED
    BY <1>2, <2>1
<1>8. Inv(M, f[M])
  BY <1>7
<1>9. PICK a \in [1 .. N -> Pointer], l \in Int, r \in Int :
        f[M] = [arr |-> a, l |-> l, r |-> r] /\ beg + 1 <= l /\ l <= r /\ r <= end
  BY <1>8 DEF Inv, Turn
<1>10. f[M].arr = a /\ f[M].l = l /\ f[M].r = r
  BY <1>9
<1>11. l = r
  BY <1>2, <1>8, <1>9, <1>10 DEF Inv
<1>12. Parted(key, arr, N, beg, end, a, l, l)
  BY <1>8, <1>10, <1>11 DEF Inv
<1>13. l \in beg + 1 .. end
  BY <1>9, <1>11
<1>14. QED
  BY <1>1, <1>9, <1>11, <1>12, <1>13

-----------------------------------------------------------------------------
(* The two calls.  The pivot at l is no less than what is before it and     *)
(* less than what is behind it.                                             *)
Pivoted(key, a, beg, end, l) ==
  /\ \A i \in beg .. l - 1 : key[a[i]] <= key[a[l]]
  /\ \A i \in l + 1 .. end - 1 : key[a[l]] <= key[a[i]]

LEMMA SplitPivots ==
  ASSUME NEW Pointer, NEW N, NEW key, NEW arr, NEW beg, NEW end,
         Sortable(Pointer, N, key, arr, beg, end)
  PROVE  \E a \in [1 .. N -> Pointer], l \in beg .. end - 1 :
           /\ Split(key, arr, beg, end) = [arr |-> a, l |-> l, r |-> l + 1]
           /\ Rearranged(arr, a, N, beg, end)
           /\ Pivoted(key, a, beg, end, l)
<1>0. /\ OneHigh(Pointer) /\ N \in Nat /\ key \in [Pointer -> Int]
      /\ arr \in [1 .. N -> Pointer] /\ beg \in 1 .. N /\ end \in 1 .. N + 1
      /\ beg < end /\ key[arr[beg]] \in Int
  BY DEF Sortable
<1> USE <1>0
<1>1. PICK a \in [1 .. N -> Pointer], r \in beg + 1 .. end :
        /\ Partition(key, arr, beg, end) = [arr |-> a, l |-> r, r |-> r]
        /\ Parted(key, arr, N, beg, end, a, r, r)
  BY PartitionParts
<1>2. PICK l \in beg .. end - 1 : l = r - 1 /\ l + 1 = r
  <2>1. r - 1 \in beg .. end - 1 /\ (r - 1) + 1 = r
    OBVIOUS
  <2>2. QED
    BY <2>1
<1>3. l \in 1 .. N /\ beg \in Int /\ end \in Int /\ beg <= l /\ l < end /\ beg <= beg
  OBVIOUS
<1> DEFINE b == Exchanged(a, l, beg)
<1>4. Split(key, arr, beg, end) = [arr |-> b, l |-> l, r |-> l + 1]
  <2>1. Swap(a, l, beg) = b
    BY <1>3, SwapExchanges
  <2>2. Split(key, arr, beg, end) = [arr |-> Swap(a, r - 1, beg), l |-> r - 1, r |-> r]
    BY <1>1 DEF Split
  <2>3. QED
    BY <1>2, <2>1, <2>2
<1>5. \A i \in 1 .. N : b[i] = IF i = l THEN a[beg] ELSE IF i = beg THEN a[l] ELSE a[i]
  BY DEF Exchanged
<1>6. b \in [1 .. N -> Pointer]
  BY <1>3 DEF Exchanged
<1> DEFINE beg1 == beg + 1
<1>7. /\ beg1 \in Int /\ beg <= beg1 /\ end <= end
      /\ Rearranged(arr, a, N, beg1, end)
  BY <1>1 DEF Parted
<1>8. a[beg] = arr[beg]
  <2>1. ~ (beg1 <= beg /\ beg < end)
    OBVIOUS
  <2> HIDE DEF beg1
  <2>2. \A i \in 1 .. N : ~ (beg1 <= i /\ i < end) => a[i] = arr[i]
    <3>1. Keeps(arr, a, N, beg1, end)
      BY <1>3, <1>7, RearrangedKeeps
    <3>2. QED
      BY <3>1 DEF Keeps
  <2>3. QED
    BY <2>1, <2>2
<1>9. Rearranged(arr, b, N, beg, end)
  <2> HIDE DEF beg1, b
  <2>1. Rearranged(arr, arr, N, beg, end)
    BY RearrangedSame
  <2>2. Rearranged(arr, a, N, beg, end)
    BY <1>3, <1>7, <2>1, RearrangedTwice
  <2>3. Rearranged(a, b, N, beg, end)
    BY <1>3, RearrangedSwap DEF b
  <2>4. beg <= beg
    OBVIOUS
  <2>5. QED
    BY <1>3, <1>7, <2>2, <2>3, <2>4, RearrangedTwice
<1> HIDE DEF b
<1>10. Pivoted(key, b, beg, end, l)
  <2>1. b[l] = arr[beg]
    BY <1>3, <1>5, <1>8
  <2>2. ASSUME NEW i \in beg .. l - 1 PROVE key[b[i]] <= key[b[l]]
    <3>1. CASE i = beg
      <4>1. b[i] = a[l] /\ l \in beg + 1 .. r - 1
        BY <1>2, <1>3, <1>5, <2>2, <3>1
      <4>2. QED
        BY <1>1, <2>1, <4>1 DEF Parted
    <3>2. CASE i # beg
      <4>1. i \in 1 .. N /\ i # l /\ i \in beg + 1 .. r - 1
        BY <1>2, <1>3, <2>2, <3>2
      <4>2. b[i] = a[i]
        BY <1>5, <3>2, <4>1
      <4>3. QED
        BY <1>1, <2>1, <4>1, <4>2 DEF Parted
    <3>3. QED
      BY <3>1, <3>2
  <2>3. ASSUME NEW i \in l + 1 .. end - 1 PROVE key[b[l]] <= key[b[i]]
    <3>1. i \in 1 .. N /\ i # l /\ i # beg /\ i \in r .. end - 1
      BY <1>2, <1>3, <2>3
    <3>2. b[i] = a[i] /\ key[a[i]] \in Int
      BY <1>5, <3>1
    <3>3. key[a[i]] > key[arr[beg]]
      BY <1>1, <3>1 DEF Parted
    <3>4. QED
      BY <2>1, <3>2, <3>3
  <2>4. QED
    BY <2>2, <2>3 DEF Pivoted
<1>11. QED
  BY <1>4, <1>6, <1>9, <1>10

(* a is arr split at l, b is a with the lower part sorted, c is b with the   *)
(* upper part sorted.                                                       *)
PartsSorted(key, Pointer, N, arr, beg, end, l, a, b, c) ==
  /\ l \in beg .. end - 1
  /\ a \in [1 .. N -> Pointer]
  /\ Rearranged(arr, a, N, beg, end) /\ Pivoted(key, a, beg, end, l)
  /\ Rearranged(a, b, N, beg, l) /\ Ordered(key, b, beg, l)
  /\ Rearranged(b, c, N, l + 1, end) /\ Ordered(key, c, l + 1, end)

(* Sorting the two parts sorts the whole.                                   *)
LEMMA SortedTogether ==
  ASSUME NEW Pointer, NEW N, NEW key, NEW arr, NEW beg, NEW end,
         Sortable(Pointer, N, key, arr, beg, end),
         NEW l, NEW a, NEW b, NEW c,
         PartsSorted(key, Pointer, N, arr, beg, end, l, a, b, c)
  PROVE  Rearranged(arr, c, N, beg, end) /\ Ordered(key, c, beg, end)
<1>a. /\ l \in beg .. end - 1 /\ a \in [1 .. N -> Pointer]
      /\ Rearranged(arr, a, N, beg, end) /\ Pivoted(key, a, beg, end, l)
      /\ Rearranged(a, b, N, beg, l) /\ Ordered(key, b, beg, l)
      /\ Rearranged(b, c, N, l + 1, end) /\ Ordered(key, c, l + 1, end)
  BY DEF PartsSorted
<1> USE <1>a
<1>0. /\ N \in Nat /\ key \in [Pointer -> Int]
      /\ arr \in [1 .. N -> Pointer] /\ beg \in 1 .. N /\ end \in 1 .. N + 1
      /\ beg < end
  BY DEF Sortable
<1> USE <1>0
<1> DEFINE l1 == l + 1
<1>1. /\ beg \in Int /\ end \in Int /\ l \in Int /\ l1 \in Int /\ beg <= beg /\ end <= end
      /\ beg <= l /\ l < end /\ l <= end /\ beg <= l1 /\ l < l1 /\ l \in 1 .. N
  OBVIOUS
<1>2. /\ Rearranged(b, c, N, l1, end) /\ Ordered(key, c, l1, end)
      /\ Rearranged(a, b, N, beg, l)
  OBVIOUS
<1> HIDE DEF l1
<1>3. /\ b \in [1 .. N -> Pointer]
      /\ \A i \in 1 .. N : ~ (beg <= i /\ i < l) => b[i] = a[i]
      /\ \A i \in 1 .. N : beg <= i /\ i < l => \E j \in 1 .. N : beg <= j /\ j < l /\ b[i] = a[j]
  <2>1. Keeps(a, b, N, beg, l)
    BY <1>1, <1>2, RearrangedKeeps
  <2>2. b \in [1 .. N -> Pointer]
    BY <1>2, RearrangedType
  <2>3. QED
    BY <2>1, <2>2 DEF Keeps
<1>4. /\ c \in [1 .. N -> Pointer]
      /\ \A i \in 1 .. N : ~ (l1 <= i /\ i < end) => c[i] = b[i]
      /\ \A i \in 1 .. N : l1 <= i /\ i < end => \E j \in 1 .. N : l1 <= j /\ j < end /\ c[i] = b[j]
  <2>1. Keeps(b, c, N, l1, end)
    BY <1>1, <1>2, RearrangedKeeps
  <2>2. c \in [1 .. N -> Pointer]
    BY <1>2, <1>3, RearrangedType
  <2>3. QED
    BY <2>1, <2>2 DEF Keeps
<1>5. Rearranged(arr, c, N, beg, end)
  <2>1. Rearranged(arr, b, N, beg, end)
    BY <1>1, <1>2, RearrangedTwice
  <2>2. QED
    BY <1>1, <1>2, <2>1, RearrangedTwice
<1>6. c[l] = a[l] /\ key[a[l]] \in Int
  <2>1. b[l] = a[l]
    BY <1>1, <1>3
  <2>2. c[l] = b[l]
    BY <1>1, <1>4
  <2>3. QED
    BY <1>1, <2>1, <2>2
<1>7. ASSUME NEW i \in beg .. l - 1
      PROVE  i \in 1 .. N /\ c[i] = b[i] /\ key[c[i]] \in Int /\ key[c[i]] <= key[a[l]]
  <2>1. i \in 1 .. N /\ beg <= i /\ i < l /\ ~ (l1 <= i /\ i < end)
    BY <1>1
  <2>2. c[i] = b[i]
    BY <1>4, <2>1
  <2>3. PICK j \in 1 .. N : beg <= j /\ j < l /\ b[i] = a[j]
    BY <1>3, <2>1
  <2>4. j \in beg .. l - 1
    BY <1>1, <2>3
  <2>5. key[a[j]] <= key[a[l]] /\ key[a[j]] \in Int
    BY <2>3, <2>4 DEF Pivoted
  <2>6. QED
    BY <2>1, <2>2, <2>3, <2>5
<1>8. ASSUME NEW i \in l + 1 .. end - 1
      PROVE  i \in 1 .. N /\ key[c[i]] \in Int /\ key[a[l]] <= key[c[i]]
  <2>1. i \in 1 .. N /\ l1 <= i /\ i < end
    BY <1>1 DEF l1
  <2>2. PICK j \in 1 .. N : l1 <= j /\ j < end /\ c[i] = b[j]
    BY <1>4, <2>1
  <2>3. j \in l + 1 .. end - 1 /\ ~ (beg <= j /\ j < l)
    BY <1>1, <2>2 DEF l1
  <2>4. b[j] = a[j]
    BY <1>3, <2>2, <2>3
  <2>5. key[a[l]] <= key[a[j]] /\ key[a[j]] \in Int
    BY <2>2, <2>3 DEF Pivoted
  <2>6. QED
    BY <2>1, <2>2, <2>4, <2>5
<1>9. Ordered(key, c, beg, end)
  <2> SUFFICES ASSUME NEW i \in beg .. end - 1, NEW j \in beg .. end - 1, i < j
               PROVE  key[c[i]] <= key[c[j]]
    BY DEF Ordered
  <2>1. CASE i \in beg .. l - 1 /\ j \in beg .. l - 1
    <3>1. key[b[i]] <= key[b[j]]
      BY <2>1 DEF Ordered
    <3>2. c[i] = b[i] /\ c[j] = b[j]
      BY <1>7, <2>1
    <3>3. QED
      BY <3>1, <3>2
  <2>2. CASE i \in beg .. l - 1 /\ j = l
    BY <1>6, <1>7, <2>2
  <2>3. CASE i \in beg .. l - 1 /\ j \in l + 1 .. end - 1
    <3>1. key[c[i]] \in Int /\ key[c[i]] <= key[a[l]]
      BY <1>7, <2>3
    <3>2. key[c[j]] \in Int /\ key[a[l]] <= key[c[j]]
      BY <1>8, <2>3
    <3>3. QED
      BY <1>6, <3>1, <3>2
  <2>4. CASE i = l /\ j \in l + 1 .. end - 1
    BY <1>6, <1>8, <2>4
  <2>5. CASE i \in l + 1 .. end - 1 /\ j \in l + 1 .. end - 1
    <3>1. \A m, n \in l + 1 .. end - 1 : m < n => key[c[m]] <= key[c[n]]
      BY <1>2 DEF Ordered, l1
    <3>2. QED
      BY <2>5, <3>1
  <2>6. \/ i \in beg .. l - 1
        \/ i = l
        \/ i \in l + 1 .. end - 1
    BY <1>1
  <2>7. \/ j \in beg .. l - 1
        \/ j = l
        \/ j \in l + 1 .. end - 1
    BY <1>1
  <2>8. CASE i \in beg .. l - 1
    BY <2>1, <2>2, <2>3, <2>7, <2>8
  <2>9. CASE i = l
    <3>1. j \in l + 1 .. end - 1
      BY <2>9
    <3>2. QED
      BY <2>4, <2>9, <3>1
  <2>10. CASE i \in l + 1 .. end - 1
    <3>1. j \in l + 1 .. end - 1
      BY <2>10
    <3>2. QED
      BY <2>5, <2>10, <3>1
  <2>11. QED
    BY <2>6, <2>8, <2>9, <2>10
<1>10. QED
  BY <1>5, <1>9

(* One call, when F is what the calls it makes do.                          *)
Calls(Pointer, N) ==
  [arr : [1 .. N -> Pointer], beg : 1 .. N + 1, end : 1 .. N + 1]

CallOf(arr, beg, end) == [arr |-> arr, beg |-> beg, end |-> end]

Sorts(key, F, c) ==
  IF c.end <= c.beg + 1 THEN c.arr
  ELSE LET split == Split(key, c.arr, c.beg, c.end)
           left == F[CallOf(split.arr, c.beg, split.l)]
       IN F[CallOf(left, split.r, c.end)]

\* sort[depth] is what a call does that goes no deeper.
SortsTo(sort, key, Pointer, N, depth) ==
  /\ sort[0] = [c \in Calls(Pointer, N) |-> c.arr]
  /\ \A n \in 1 .. depth : sort[n] = [c \in Calls(Pointer, N) |-> Sorts(key, sort[n-1], c)]

LEMMA SortsType ==
  ASSUME NEW Pointer, OneHigh(Pointer), NEW N \in Nat, NEW key \in [Pointer -> Int],
         NEW F \in [Calls(Pointer, N) -> [1 .. N -> Pointer]], NEW c \in Calls(Pointer, N)
  PROVE  Sorts(key, F, c) \in [1 .. N -> Pointer]
<1>1. PICK arr \in [1 .. N -> Pointer], beg \in 1 .. N + 1, end \in 1 .. N + 1 :
        c.arr = arr /\ c.beg = beg /\ c.end = end
  BY DEF Calls
<1>2. CASE end <= beg + 1
  BY <1>1, <1>2 DEF Sorts
<1>3. CASE ~ (end <= beg + 1)
  <2>1. beg \in 1 .. N /\ beg < end
    BY <1>3
  <2>2. Sortable(Pointer, N, key, arr, beg, end)
    BY <2>1 DEF Sortable
  <2>3. PICK a \in [1 .. N -> Pointer], l \in beg .. end - 1 :
          /\ Split(key, arr, beg, end) = [arr |-> a, l |-> l, r |-> l + 1]
          /\ Rearranged(arr, a, N, beg, end)
          /\ Pivoted(key, a, beg, end, l)
    BY <2>2, SplitPivots
  <2> DEFINE left == F[CallOf(a, beg, l)]
  <2>4. Sorts(key, F, c) = F[CallOf(left, l + 1, end)]
    BY <1>1, <1>3, <2>3 DEF Sorts
  <2>5. CallOf(a, beg, l) \in Calls(Pointer, N)
    BY <2>1 DEF CallOf, Calls
  <2>6. left \in [1 .. N -> Pointer]
    BY <2>5
  <2> HIDE DEF left
  <2>7. CallOf(left, l + 1, end) \in Calls(Pointer, N)
    BY <2>1, <2>6 DEF CallOf, Calls
  <2>8. QED
    BY <2>4, <2>7
<1>4. QED
  BY <1>2, <1>3

LEMMA SortCalls ==
  ASSUME NEW Pointer, OneHigh(Pointer), NEW N \in Nat, NEW key \in [Pointer -> Int],
         NEW arr \in [1 .. N -> Pointer], NEW beg \in 1 .. N + 1, NEW end \in beg .. N + 1
  PROVE  \E f : /\ SortsTo(f, key, Pointer, N, end - beg)
                /\ SortRange(key, arr, beg, end) = f[end - beg][CallOf(arr, beg, end)]
<1> DEFINE C == Calls(Pointer, N)
           X == [C -> [1 .. N -> Pointer]]
           M == end - beg
           a == [c \in C |-> c.arr]
           deeper == [n \in Nat |-> [F \in X |-> [c \in C |-> Sorts(key, F, c)]]]
           body(f) == [n \in 0 .. M |->
                         [c \in C |->
                            IF n = 0 \/ c.end <= c.beg + 1 THEN c.arr
                            ELSE LET split == Split(key, c.arr, c.beg, c.end)
                                     left == f[n-1][[arr |-> split.arr, beg |-> c.beg, end |-> split.l]]
                                 IN f[n-1][[arr |-> left, beg |-> split.r, end |-> c.end]]]]
           sort == CHOOSE f : f = body(f)
<1>1. M \in Nat /\ a \in X
  BY DEF Calls
<1>2. Steps(deeper, X)
  BY SortsType DEF Steps
<1>3. PICK f : Iterates(f, X, a, deeper, M)
  <2> HIDE DEF X, a, deeper, M
  <2>1. QED
    BY <1>1, <1>2, Iteration, Zenon
<1>4. \A h : body(h) = [n \in 0 .. M |->
                          [c \in C |-> IF n = 0 THEN c.arr ELSE Sorts(key, h[n-1], c)]]
  BY DEF Sorts, CallOf
<1> HIDE DEF body
<1>5. f = body(f)
  <2> HIDE DEF X, C, M
  <2>1. f \in [0 .. M -> X] /\ f[0] = a
    BY <1>3 DEF Iterates
  <2>2. ASSUME NEW n \in 1 .. M PROVE f[n] = [c \in C |-> Sorts(key, f[n-1], c)]
    <3>1. n \in Nat /\ f[n-1] \in X
      BY <1>1, <2>1
    <3>2. f[n] = deeper[n][f[n-1]]
      BY <1>3 DEF Iterates
    <3>3. QED
      BY <3>1, <3>2, Zenon
  <2>3. ASSUME NEW n \in 0 .. M
        PROVE  f[n] = [c \in C |-> IF n = 0 THEN c.arr ELSE Sorts(key, f[n-1], c)]
    <3>1. CASE n = 0
      BY <2>1, <3>1
    <3>2. CASE n # 0
      <4>1. n \in 1 .. M
        BY <1>1, <3>2
      <4>2. QED
        BY <2>2, <3>2, <4>1
    <3>3. QED
      BY <3>1, <3>2
  <2>4. f = [n \in 0 .. M |-> f[n]]
    BY <2>1
  <2>5. QED
    BY <1>4, <2>3, <2>4, Zenon
<1>6. sort = body(sort)
  BY <1>5
<1>7. SortRange(key, arr, beg, end) = sort[M][CallOf(arr, beg, end)]
  <2>1. DOMAIN arr = 1 .. N /\ DOMAIN key = Pointer /\ Len(arr) = N
    OBVIOUS
  <2>2. QED
    BY <2>1, Zenon DEF SortRange, CallOf, Calls, body
<1> HIDE DEF sort, C, M
<1>8. /\ sort[0] = [c \in C |-> c.arr]
      /\ \A n \in 1 .. M : sort[n] = [c \in C |-> Sorts(key, sort[n-1], c)]
  <2>1. sort = [n \in 0 .. M |->
                  [c \in C |-> IF n = 0 THEN c.arr ELSE Sorts(key, sort[n-1], c)]]
    BY <1>4, <1>6, Zenon
  <2>2. \A n \in 0 .. M :
          sort[n] = [c \in C |-> IF n = 0 THEN c.arr ELSE Sorts(key, sort[n-1], c)]
    BY <2>1, Zenon
  <2>3. 0 \in 0 .. M /\ \A n \in 1 .. M : n \in 0 .. M /\ n # 0
    BY <1>1
  <2>4. sort[0] = [c \in C |-> c.arr]
    BY <2>2, <2>3
  <2>5. ASSUME NEW n \in 1 .. M PROVE sort[n] = [c \in C |-> Sorts(key, sort[n-1], c)]
    BY <2>2, <2>3
  <2>6. QED
    BY <2>4, <2>5
<1>9. SortsTo(sort, key, Pointer, N, M)
  BY <1>8 DEF SortsTo, C
<1>10. QED
  BY <1>7, <1>9 DEF M

(* What a call whose part is no longer than depth does.                     *)
Right(key, F, Pointer, N, depth) ==
  \A a \in [1 .. N -> Pointer], b, e \in 1 .. N + 1 :
    e - b <= depth => /\ Rearranged(a, F[CallOf(a, b, e)], N, b, e)
                      /\ Ordered(key, F[CallOf(a, b, e)], b, e)

LEMMA ShortPart ==
  ASSUME NEW Pointer, NEW N \in Nat, NEW key \in [Pointer -> Int],
         NEW a \in [1 .. N -> Pointer], NEW b \in 1 .. N + 1, NEW e \in 1 .. N + 1,
         e <= b + 1
  PROVE  Rearranged(a, a, N, b, e) /\ Ordered(key, a, b, e)
<1>1. Rearranged(a, a, N, b, e)
  BY RearrangedSame
<1>2. Ordered(key, a, b, e)
  <2>1. \A i, j \in b .. e - 1 : ~ (i < j)
    OBVIOUS
  <2>2. QED
    BY <2>1 DEF Ordered
<1>3. QED
  BY <1>1, <1>2

LEMMA RightStep ==
  ASSUME NEW Pointer, OneHigh(Pointer), NEW N \in Nat, NEW key \in [Pointer -> Int],
         NEW depth \in Nat, NEW F, Right(key, F, Pointer, N, depth),
         NEW G, G = [c \in Calls(Pointer, N) |-> Sorts(key, F, c)]
  PROVE  Right(key, G, Pointer, N, depth + 1)
<1> SUFFICES ASSUME NEW arr \in [1 .. N -> Pointer], NEW beg \in 1 .. N + 1,
                    NEW end \in 1 .. N + 1, end - beg <= depth + 1,
                    NEW d, d = G[CallOf(arr, beg, end)]
             PROVE  Rearranged(arr, d, N, beg, end) /\ Ordered(key, d, beg, end)
  BY DEF Right
<1> DEFINE c == CallOf(arr, beg, end)
<1>1. c \in Calls(Pointer, N) /\ c.arr = arr /\ c.beg = beg /\ c.end = end
  BY DEF CallOf, Calls
<1>2. d = Sorts(key, F, c)
  BY <1>1
<1> HIDE DEF c
<1>3. CASE end <= beg + 1
  <2>1. d = arr
    BY <1>1, <1>2, <1>3 DEF Sorts
  <2>2. QED
    BY <1>3, <2>1, ShortPart
<1>4. CASE ~ (end <= beg + 1)
  <2>1. beg \in 1 .. N /\ beg < end
    BY <1>4
  <2>2. Sortable(Pointer, N, key, arr, beg, end)
    BY <2>1 DEF Sortable
  <2>3. PICK a \in [1 .. N -> Pointer], l \in beg .. end - 1 :
          /\ Split(key, arr, beg, end) = [arr |-> a, l |-> l, r |-> l + 1]
          /\ Rearranged(arr, a, N, beg, end)
          /\ Pivoted(key, a, beg, end, l)
    BY <2>2, SplitPivots
  <2> DEFINE left == F[CallOf(a, beg, l)]
  <2>4. d = F[CallOf(left, l + 1, end)]
    BY <1>1, <1>2, <1>4, <2>3 DEF Sorts
  <2>5. /\ l \in 1 .. N + 1 /\ l + 1 \in 1 .. N + 1
        /\ l - beg <= depth /\ end - (l + 1) <= depth
    BY <2>1
  <2>6. Rearranged(a, left, N, beg, l) /\ Ordered(key, left, beg, l)
    BY <2>5 DEF Right
  <2> HIDE DEF left
  <2>7. left \in [1 .. N -> Pointer]
    BY <2>6, RearrangedType
  <2>8. Rearranged(left, d, N, l + 1, end) /\ Ordered(key, d, l + 1, end)
    BY <2>4, <2>5, <2>7 DEF Right
  <2>9. PartsSorted(key, Pointer, N, arr, beg, end, l, a, left, d)
    BY <2>3, <2>6, <2>8 DEF PartsSorted
  <2>10. QED
    BY <2>2, <2>9, SortedTogether, Zenon
<1>5. QED
  BY <1>3, <1>4

(* server_sort and post_segments_sort, given any part of an array whose     *)
(* pointers all have the same upper half, rearrange that part, leave the    *)
(* rest alone, and put the keys of the part in ascending order.             *)
THEOREM SortRangeSorts ==
  ASSUME NEW Pointer, OneHigh(Pointer), NEW N \in Nat, NEW key \in [Pointer -> Int],
         NEW arr \in [1 .. N -> Pointer], NEW beg \in 1 .. N + 1, NEW end \in beg .. N + 1
  PROVE  /\ Rearranged(arr, SortRange(key, arr, beg, end), N, beg, end)
         /\ Ordered(key, SortRange(key, arr, beg, end), beg, end)
<1> DEFINE M == end - beg
<1>1. PICK sort : /\ SortsTo(sort, key, Pointer, N, M)
                  /\ SortRange(key, arr, beg, end) = sort[M][CallOf(arr, beg, end)]
  BY SortCalls
<1>2. M \in Nat /\ end \in 1 .. N + 1
  OBVIOUS
<1> DEFINE S == {n \in Nat : Right(key, sort[n], Pointer, N, n)}
<1>3. 0 \in S
  <2> SUFFICES ASSUME NEW a \in [1 .. N -> Pointer], NEW b \in 1 .. N + 1,
                      NEW e \in 1 .. N + 1, e - b <= 0
               PROVE  /\ Rearranged(a, sort[0][CallOf(a, b, e)], N, b, e)
                      /\ Ordered(key, sort[0][CallOf(a, b, e)], b, e)
    BY DEF Right
  <2>1. CallOf(a, b, e) \in Calls(Pointer, N) /\ CallOf(a, b, e).arr = a
    BY DEF CallOf, Calls
  <2>2. sort[0][CallOf(a, b, e)] = a
    BY <1>1, <2>1 DEF SortsTo
  <2>3. e <= b + 1
    OBVIOUS
  <2>4. QED
    BY <2>2, <2>3, ShortPart
<1>4. ASSUME NEW n \in 0 .. M - 1, n \in S PROVE n + 1 \in S
  <2>1. n \in Nat /\ n + 1 \in 1 .. M /\ (n + 1) - 1 = n
    BY <1>2
  <2>2. sort[n + 1] = [c \in Calls(Pointer, N) |-> Sorts(key, sort[n], c)]
    BY <1>1, <2>1 DEF SortsTo
  <2>3. Right(key, sort[n], Pointer, N, n)
    BY <1>4
  <2>4. Right(key, sort[n + 1], Pointer, N, n + 1)
    BY <2>1, <2>2, <2>3, RightStep
  <2>5. QED
    BY <2>1, <2>4
<1>5. M \in S
  <2> HIDE DEF S, M
  <2>1. 0 .. M \subseteq S
    BY <1>2, <1>3, <1>4, BoundedInduction
  <2>2. QED
    BY <1>2, <2>1
<1>6. Right(key, sort[M], Pointer, N, M)
  BY <1>5
<1>7. QED
  BY <1>1, <1>2, <1>6 DEF Right
=============================================================================
