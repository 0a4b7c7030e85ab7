---------------------------- MODULE ServersProofs ----------------------------
(***************************************************************************)
(* What nzb_fetch_add_server makes of any number of servers, and what the   *)
(* threads that nzb_fetch_connect starts read and report.                   *)
(***************************************************************************)
EXTENDS Connections, PointerSortProofs

(* All servers lie in one region of 4 GB: malloc has returned addresses     *)
(* with the same upper half.  An assumption about the heap, for which the   *)
(* code does nothing; without it server_sort mixes pointers up.             *)
OneAddressHigh == \E high : AddressHigh = {high}

Pointer == [high : AddressHigh, low : 1 .. MaxServers]

-----------------------------------------------------------------------------
(* The ranks along a sorted array.                                          *)
Risen(up, arr, n) == n = 1 \/ up[arr[n]] > up[arr[n-1]]

RankedTo(rank, up, arr, N) ==
  /\ rank \in [0 .. N -> Int]
  /\ rank[0] = -1
  /\ \A n \in 1 .. N : rank[n] = IF Risen(up, arr, n) THEN rank[n-1] + 1 ELSE rank[n-1]

LEMMA RanksLoop ==
  ASSUME NEW N \in Nat, NEW V, NEW arr \in [1 .. N -> V], NEW up
  PROVE  RankedTo(Ranks(up, arr), up, arr, N)
<1> DEFINE step == [n \in Nat |-> [x \in Int |-> IF Risen(up, arr, n) THEN x + 1 ELSE x]]
           body(f) == [n \in 0 .. N |->
                         IF n = 0 THEN -1
                         ELSE IF Risen(up, arr, n) THEN f[n-1] + 1 ELSE f[n-1]]
           rank == CHOOSE f : f = body(f)
<1>1. PICK f : Iterates(f, Int, -1, step, N)
  <2>1. Steps(step, Int)
    BY DEF Steps
  <2>2. -1 \in Int
    OBVIOUS
  <2> HIDE DEF step
  <2>3. QED
    BY <2>1, <2>2, Iteration, Zenon
<1>2. f = body(f)
  <2>1. f \in [0 .. N -> Int] /\ f[0] = -1
    BY <1>1 DEF Iterates
  <2>2. ASSUME NEW n \in 1 .. N
        PROVE  f[n] = IF Risen(up, arr, n) THEN f[n-1] + 1 ELSE f[n-1]
    <3>1. n \in Nat /\ f[n-1] \in Int
      BY <2>1
    <3>2. f[n] = step[n][f[n-1]]
      BY <1>1 DEF Iterates
    <3>3. QED
      BY <3>1, <3>2, Zenon
  <2>3. ASSUME NEW n \in 0 .. N
        PROVE  f[n] = IF n = 0 THEN -1
                      ELSE IF Risen(up, arr, n) THEN f[n-1] + 1 ELSE f[n-1]
    BY <2>1, <2>2
  <2>4. f = [n \in 0 .. N |-> f[n]]
    BY <2>1
  <2>5. QED
    BY <2>3, <2>4, Zenon
<1>3. rank = body(rank)
  <2> HIDE DEF body
  <2>1. QED
    BY <1>2
<1>4. Ranks(up, arr) = rank
  <2>1. Len(arr) = N
    OBVIOUS
  <2>2. QED
    BY <2>1, Zenon DEF Ranks, Risen
<1> HIDE DEF rank
<1>5. \A n \in 0 .. N :
        rank[n] = IF n = 0 THEN -1
                  ELSE IF Risen(up, arr, n) THEN rank[n-1] + 1 ELSE rank[n-1]
  BY <1>3, Zenon
<1>6. rank[0] = -1
  BY <1>5
<1>7. \A n \in 1 .. N : rank[n] = IF Risen(up, arr, n) THEN rank[n-1] + 1 ELSE rank[n-1]
  BY <1>5
<1>8. rank \in [0 .. N -> Int]
  <2> DEFINE S == {n \in 0 .. N : rank[n] \in Int}
  <2>1. 0 \in S
    BY <1>6
  <2>2. ASSUME NEW n \in 0 .. N - 1, n \in S PROVE n + 1 \in S
    <3>1. n + 1 \in 1 .. N /\ (n + 1) - 1 = n
      OBVIOUS
    <3>2. QED
      BY <1>7, <2>2, <3>1
  <2>3. 0 .. N \subseteq S
    <3> HIDE DEF S
    <3>1. QED
      BY <2>1, <2>2, BoundedInduction
  <2>4. rank = [n \in 0 .. N |-> rank[n]]
    BY <1>3, Zenon
  <2>5. QED
    BY <2>3, <2>4
<1>9. QED
  BY <1>4, <1>6, <1>7, <1>8 DEF RankedTo

(* The different values of S below v.                                       *)
Below(S, v) == Cardinality({u \in S : u < v})

LEMMA BelowFinite ==
  ASSUME NEW S \in SUBSET Nat, NEW v \in Nat
  PROVE  IsFiniteSet({u \in S : u < v}) /\ Below(S, v) \in Nat
<1>1. IsFiniteSet({u \in S : u < v})
  BY FS_BoundedSetOfNaturals
<1>2. QED
  BY <1>1, FS_CardinalityType DEF Below

LEMMA BelowNext ==
  ASSUME NEW S \in SUBSET Nat, NEW v \in S, NEW w \in S, v < w,
         \A u \in S : u < w => u <= v
  PROVE  Below(S, w) = Below(S, v) + 1
<1> DEFINE T == {u \in S : u < v}
<1>1. {u \in S : u < w} = T \cup {v}
  <2>1. ASSUME NEW u \in S PROVE u < w <=> u < v \/ u = v
    <3>1. u \in Nat /\ v \in Nat /\ w \in Nat
      OBVIOUS
    <3>2. QED
      BY <3>1
  <2>2. QED
    BY <2>1
<1>2. v \notin T /\ IsFiniteSet(T)
  BY BelowFinite
<1> HIDE DEF T
<1>3. Cardinality(T \cup {v}) = Cardinality(T) + 1
  BY <1>2, FS_AddElement
<1>4. QED
  BY <1>1, <1>3 DEF Below, T

LEMMA BelowLeast ==
  ASSUME NEW S \in SUBSET Nat, NEW v \in Nat, \A u \in S : v <= u
  PROVE  Below(S, v) = 0
<1>1. \A u \in S : ~ (u < v)
  <2> TAKE u \in S
  <2>1. u \in Nat /\ v <= u
    OBVIOUS
  <2>2. QED
    BY <2>1
<1>2. QED
  <2>1. {u \in S : u < v} = {}
    BY <1>1
  <2>2. QED
    BY <2>1, FS_EmptySet DEF Below

InOrder(up, arr, V, N) ==
  /\ N \in Nat /\ arr \in [1 .. N -> V] /\ up \in [V -> Nat]
  /\ Ordered(up, arr, 1, N + 1)

(* Along a sorted array the rank of a server is the number of different     *)
(* priorities below its own.                                                *)
LEMMA RanksCount ==
  ASSUME NEW N, NEW V, NEW arr, NEW up, InOrder(up, arr, V, N),
         NEW S, S = {up[arr[j]] : j \in 1 .. N}
  PROVE  \A k \in 1 .. N : Ranks(up, arr)[k] = Below(S, up[arr[k]])
<1> DEFINE rank == Ranks(up, arr)
           K == {n \in Nat : n = 0 \/ n > N \/ rank[n] = Below(S, up[arr[n]])}
<1> USE DEF InOrder
<1>1. RankedTo(rank, up, arr, N)
  BY RanksLoop
<1> HIDE DEF rank
<1>2. \A i, j \in 1 .. N : i < j => up[arr[i]] <= up[arr[j]]
  BY DEF Ordered
<1>3. S \in SUBSET Nat /\ \A k \in 1 .. N : up[arr[k]] \in S
  OBVIOUS
<1>4. \A u \in S : \E j \in 1 .. N : u = up[arr[j]]
  OBVIOUS
<1>5. 0 \in K
  OBVIOUS
<1>6. ASSUME NEW n \in 0 .. N - 1, n \in K PROVE n + 1 \in K
  <2>1. n + 1 \in 1 .. N /\ (n + 1) - 1 = n /\ n + 1 \in Nat
    OBVIOUS
  <2> DEFINE w == up[arr[n + 1]]
  <2>2. w \in S /\ w \in Nat
    BY <1>3, <2>1
  <2>3. rank[n + 1] = IF Risen(up, arr, n + 1) THEN rank[n] + 1 ELSE rank[n]
    BY <1>1, <2>1 DEF RankedTo
  <2>4. CASE n = 0
    <3>1. rank[n + 1] = 0
      BY <1>1, <2>3, <2>4 DEF RankedTo, Risen
    <3>2. \A u \in S : w <= u
      <4>1. \A j \in 1 .. N : w <= up[arr[j]]
        <5> TAKE j \in 1 .. N
        <5>1. CASE j = 1
          BY <2>2, <2>4, <5>1
        <5>2. CASE j # 1
          BY <1>2, <2>1, <2>4, <5>2
        <5>3. QED
          BY <5>1, <5>2
      <4>2. QED
        BY <1>4, <4>1
    <3>3. QED
      BY <1>3, <2>1, <2>2, <3>1, <3>2, BelowLeast
  <2>5. CASE n # 0
    <3> DEFINE v == up[arr[n]]
    <3>1. n \in 1 .. N /\ n < n + 1
      BY <2>5
    <3>2. v \in S /\ v \in Nat /\ v <= w
      BY <1>2, <1>3, <2>1, <3>1
    <3>3. rank[n] = Below(S, v)
      BY <1>6, <2>5, <3>1
    <3>4. CASE v < w
      <4>1. rank[n + 1] = rank[n] + 1
        BY <2>1, <2>2, <2>3, <3>2, <3>4 DEF Risen
      <4>2. \A u \in S : u < w => u <= v
        <5> SUFFICES ASSUME NEW j \in 1 .. N, up[arr[j]] < w
                     PROVE  up[arr[j]] <= v
          BY <1>4
        <5>1. j <= n
          <6>1. CASE j = n + 1
            BY <2>2, <6>1
          <6>2. CASE j > n + 1
            <7>1. w <= up[arr[j]]
              BY <1>2, <2>1, <6>2
            <7>2. up[arr[j]] \in Nat
              OBVIOUS
            <7>3. QED
              BY <2>2, <7>1, <7>2
          <6>3. QED
            BY <6>1, <6>2
        <5>2. CASE j = n
          BY <3>2, <5>2
        <5>3. CASE j < n
          BY <1>2, <3>1, <5>3
        <5>4. QED
          BY <5>1, <5>2, <5>3
      <4>3. Below(S, w) = Below(S, v) + 1
        <5> HIDE DEF v, w
        <5>1. QED
          BY <1>3, <2>2, <3>2, <3>4, <4>2, BelowNext
      <4>4. QED
        BY <2>1, <3>3, <4>1, <4>3
    <3>5. CASE ~ (v < w)
      <4>1. v = w
        BY <2>2, <3>2, <3>5
      <4>2. rank[n + 1] = rank[n]
        BY <2>1, <2>3, <2>5, <3>2, <4>1 DEF Risen
      <4>3. QED
        BY <2>1, <3>3, <4>1, <4>2
    <3>6. QED
      BY <3>4, <3>5
  <2>6. QED
    BY <2>4, <2>5
<1>7. 0 .. N \subseteq K
  <2> HIDE DEF K
  <2>1. QED
    BY <1>5, <1>6, BoundedInduction
<1>8. ASSUME NEW k \in 1 .. N PROVE rank[k] = Below(S, up[arr[k]])
  <2>1. k \in 0 .. N /\ k \in Nat /\ k # 0 /\ ~ (k > N)
    OBVIOUS
  <2>2. k \in K
    <3> HIDE DEF K
    <3>1. QED
      BY <1>7, <2>1
  <2>3. QED
    BY <2>1, <2>2
<1>9. QED
  BY <1>8 DEF rank

-----------------------------------------------------------------------------
(* The list of servers: n of them, each at an address of its own.           *)
Registered(n, users, addr) ==
  /\ n \in Nat /\ n <= MaxServers
  /\ users \in [1 .. n -> Nat]
  /\ addr \in [1 .. n -> Pointer]
  /\ \A m \in 1 .. n : addr[m].low = m

LEMMA ReadsPriority ==
  ASSUME NEW n, NEW users, NEW addr, Registered(n, users, addr)
  PROVE  /\ UserPriorityAt(users, addr) \in [Pointer -> Nat]
         /\ \A m \in 1 .. n : UserPriorityAt(users, addr)[addr[m]] = users[m]
<1>1. /\ DOMAIN addr = 1 .. n /\ users \in [1 .. n -> Nat]
      /\ \A m \in 1 .. n : addr[m] \in Pointer /\ addr[m].low = m
  BY DEF Registered
<1>2. ASSUME NEW m \in 1 .. n
      PROVE  (CHOOSE k \in 1 .. n : addr[k] = addr[m]) = m
  <2>1. \A k \in 1 .. n : addr[k] = addr[m] => k = m
    BY <1>1
  <2>2. QED
    BY <2>1
<1>3. UserPriorityAt(users, addr) =
        [p \in Pointer |-> IF \E m \in 1 .. n : addr[m] = p
                           THEN users[CHOOSE m \in 1 .. n : addr[m] = p] ELSE 0]
  BY <1>1 DEF UserPriorityAt, Pointer
<1>4. UserPriorityAt(users, addr) \in [Pointer -> Nat]
  <2>1. ASSUME NEW p \in Pointer PROVE UserPriorityAt(users, addr)[p] \in Nat
    <3>1. CASE \E m \in 1 .. n : addr[m] = p
      <4>1. PICK m \in 1 .. n : addr[m] = p
        BY <3>1
      <4>2. UserPriorityAt(users, addr)[p] = users[m]
        BY <1>2, <1>3, <3>1, <4>1
      <4>3. QED
        BY <1>1, <4>2
    <3>2. CASE ~ \E m \in 1 .. n : addr[m] = p
      BY <1>3, <3>2
    <3>3. QED
      BY <3>1, <3>2
  <2>2. QED
    BY <1>3, <2>1
<1>5. ASSUME NEW m \in 1 .. n PROVE UserPriorityAt(users, addr)[addr[m]] = users[m]
  BY <1>1, <1>2, <1>3
<1>6. QED
  BY <1>4, <1>5

(* What server_calc_priorities finds: the addresses, rearranged, the least  *)
(* user priority first, and the ranks.                                      *)
Calculated(n, users, addr, s, rank) ==
  /\ s \in [1 .. n -> Pointer]
  /\ {s[k] : k \in 1 .. n} = {addr[m] : m \in 1 .. n}
  /\ \A k, m \in 1 .. n : s[k] = addr[m] => rank[k] = Below(Range(users), users[m])
  /\ n > 0 => \A m \in 1 .. n : (\A k \in 1 .. n : users[k] <= users[m]) =>
                rank[n] = Below(Range(users), users[m])

LEMMA CalcPriorities ==
  ASSUME OneAddressHigh, NEW n, NEW users, NEW addr, Registered(n, users, addr),
         NEW up, up = UserPriorityAt(users, addr),
         NEW s, s = SortRange(up, addr, 1, n + 1)
  PROVE  Calculated(n, users, addr, s, Ranks(up, s))
<1>1. /\ n \in Nat /\ users \in [1 .. n -> Nat] /\ addr \in [1 .. n -> Pointer]
      /\ up \in [Pointer -> Nat] /\ \A m \in 1 .. n : up[addr[m]] = users[m]
  BY ReadsPriority DEF Registered
<1>2. OneHigh(Pointer)
  BY DEF OneAddressHigh, OneHigh, Pointer
<1>3. Rearranged(addr, s, n, 1, n + 1) /\ Ordered(up, s, 1, n + 1)
  <2>1. up \in [Pointer -> Int] /\ 1 \in 1 .. n + 1 /\ n + 1 \in 1 .. n + 1
    BY <1>1
  <2>2. QED
    BY <1>1, <1>2, <2>1, SortRangeSorts, Zenon
<1>4. s \in [1 .. n -> Pointer]
  BY <1>1, <1>3, RearrangedType
<1>5. {s[k] : k \in 1 .. n} = {addr[m] : m \in 1 .. n}
  <2>1. 1 \in Int /\ n + 1 \in Int
    BY <1>1
  <2>2. Keeps(addr, s, n, 1, n + 1)
    BY <1>1, <1>3, <2>1, RearrangedKeeps
  <2>3. QED
    BY <2>2 DEF Keeps
<1> DEFINE rank == Ranks(up, s)
<1>6. \A k \in 1 .. n : rank[k] = Below({up[s[j]] : j \in 1 .. n}, up[s[k]])
  <2>1. InOrder(up, s, Pointer, n)
    BY <1>1, <1>3, <1>4 DEF InOrder
  <2>2. PICK S : S = {up[s[j]] : j \in 1 .. n}
    OBVIOUS
  <2>3. \A k \in 1 .. n : Ranks(up, s)[k] = Below(S, up[s[k]])
    BY <2>1, <2>2, RanksCount
  <2>4. QED
    BY <2>2, <2>3
<1>7. {up[s[j]] : j \in 1 .. n} = Range(users)
  <2>1. Range(users) = {users[m] : m \in 1 .. n}
    BY <1>1 DEF Range
  <2>2. {up[s[j]] : j \in 1 .. n} \subseteq {users[m] : m \in 1 .. n}
    <3> SUFFICES ASSUME NEW j \in 1 .. n PROVE \E m \in 1 .. n : up[s[j]] = users[m]
      OBVIOUS
    <3>1. PICK m \in 1 .. n : s[j] = addr[m]
      BY <1>5
    <3>2. QED
      BY <1>1, <3>1
  <2>3. {users[m] : m \in 1 .. n} \subseteq {up[s[j]] : j \in 1 .. n}
    <3> SUFFICES ASSUME NEW m \in 1 .. n PROVE \E j \in 1 .. n : users[m] = up[s[j]]
      OBVIOUS
    <3>1. PICK j \in 1 .. n : s[j] = addr[m]
      BY <1>5
    <3>2. QED
      BY <1>1, <3>1
  <2>4. QED
    BY <2>1, <2>2, <2>3
<1> HIDE DEF rank
<1>8. ASSUME NEW k \in 1 .. n, NEW m \in 1 .. n, s[k] = addr[m]
      PROVE  rank[k] = Below(Range(users), users[m])
  BY <1>1, <1>6, <1>7, <1>8
<1>9. ASSUME n > 0, NEW m \in 1 .. n, \A k \in 1 .. n : users[k] <= users[m]
      PROVE  rank[n] = Below(Range(users), users[m])
  <2>1. n \in 1 .. n
    BY <1>1, <1>9
  <2>2. PICK last \in 1 .. n : s[n] = addr[last]
    BY <1>5, <2>1
  <2>3. PICK k \in 1 .. n : s[k] = addr[m]
    BY <1>5
  <2>4. up[s[k]] <= up[s[n]]
    <3>1. CASE k = n
      BY <1>1, <1>4, <3>1
    <3>2. CASE k # n
      <4>1. k \in 1 .. n + 1 - 1 /\ n \in 1 .. n + 1 - 1 /\ k < n
        BY <1>1, <2>1, <3>2
      <4>2. QED
        BY <1>3, <4>1 DEF Ordered
    <3>3. QED
      BY <3>1, <3>2
  <2>5. users[m] <= users[last] /\ users[last] <= users[m]
    BY <1>1, <1>9, <2>2, <2>3, <2>4
  <2>6. users[m] = users[last]
    BY <1>1, <2>5
  <2>7. QED
    BY <1>8, <2>1, <2>2, <2>6
<1>10. QED
  BY <1>4, <1>5, <1>8, <1>9 DEF Calculated, rank

-----------------------------------------------------------------------------
(* The priorities of the servers in the list.                               *)
Ranked(n, users, prio) ==
  /\ prio \in [1 .. n -> Nat]
  /\ \A m \in 1 .. n : prio[m] = Below(Range(users), users[m])

(* The table of queues, if the servers came in the order of their           *)
(* priorities: it goes up to the priority of the last one.                  *)
Tabled(n, prio, tab) ==
  \E top \in Nat :
    /\ n = 0 => top = 0
    /\ n > 0 => top = prio[n]
    /\ DOMAIN tab = 0 .. top
    /\ tab[0] = 0
    /\ \A q \in 1 .. top : tab[q] \in 1 .. n /\ prio[tab[q]] = q
    /\ \A m \in 1 .. n : prio[m] <= top

(* The list with one server more, no user priority above that of the last.  *)
Appended(n, users, prio, users1, prio1) ==
  /\ n \in Nat
  /\ users \in [1 .. n -> Nat] /\ users1 \in [1 .. n + 1 -> Nat]
  /\ \A m \in 1 .. n : users1[m] = users[m]
  /\ \A k, m \in 1 .. n + 1 : k < m => users1[k] <= users1[m]
  /\ Ranked(n, users, prio) /\ Ranked(n + 1, users1, prio1)

LEMMA AppendedRanks ==
  ASSUME NEW n, NEW users, NEW prio, NEW users1, NEW prio1,
         Appended(n, users, prio, users1, prio1)
  PROVE  /\ \A m \in 1 .. n : prio1[m] = prio[m]
         /\ n = 0 => prio1[n + 1] = 0
         /\ n > 0 => prio1[n + 1] = prio[n] \/ prio1[n + 1] = prio[n] + 1
<1>1. /\ n \in Nat
      /\ users \in [1 .. n -> Nat] /\ users1 \in [1 .. n + 1 -> Nat]
      /\ \A m \in 1 .. n : users1[m] = users[m]
      /\ \A k, m \in 1 .. n + 1 : k < m => users1[k] <= users1[m]
      /\ Ranked(n, users, prio) /\ Ranked(n + 1, users1, prio1)
  BY DEF Appended
<1>2. /\ Range(users) = {users[m] : m \in 1 .. n}
      /\ Range(users1) = {users1[m] : m \in 1 .. n + 1}
  BY <1>1 DEF Range
<1>3. ASSUME NEW m \in 1 .. n PROVE prio1[m] = prio[m]
  <2>1. m \in 1 .. n + 1 /\ users1[m] = users[m] /\ users[m] \in Nat
    BY <1>1
  <2>2. \A j \in 1 .. n + 1 : users1[j] < users[m] => j \in 1 .. n
    <3> SUFFICES ASSUME users1[n + 1] < users[m] PROVE FALSE
      BY <1>1
    <3>1. n + 1 \in 1 .. n + 1 /\ m < n + 1
      BY <1>1
    <3>2. users1[m] <= users1[n + 1]
      BY <1>1, <2>1, <3>1
    <3>3. users1[n + 1] \in Nat
      BY <1>1, <3>1
    <3>4. QED
      BY <2>1, <3>2, <3>3
  <2>3. \A j \in 1 .. n : j \in 1 .. n + 1
    BY <1>1
  <2>4. {u \in Range(users1) : u < users1[m]} = {u \in Range(users) : u < users[m]}
    BY <1>1, <1>2, <2>1, <2>2, <2>3
  <2>5. QED
    BY <1>1, <2>1, <2>4 DEF Ranked, Below
<1>4. ASSUME n = 0 PROVE prio1[n + 1] = 0
  <2>1. 1 .. n + 1 = {1}
    BY <1>4
  <2>2. \A u \in Range(users1) : users1[1] <= u
    BY <1>1, <1>2, <2>1
  <2>3. Range(users1) \in SUBSET Nat /\ users1[1] \in Nat
    BY <1>1, <1>2, <2>1
  <2>4. Below(Range(users1), users1[1]) = 0
    BY <2>2, <2>3, BelowLeast
  <2>5. QED
    BY <1>1, <1>4, <2>1, <2>4 DEF Ranked
<1>5. ASSUME n > 0 PROVE prio1[n + 1] = prio[n] \/ prio1[n + 1] = prio[n] + 1
  <2> DEFINE v == users1[n]
             w == users1[n + 1]
  <2>1. n \in 1 .. n /\ n \in 1 .. n + 1 /\ n + 1 \in 1 .. n + 1 /\ n < n + 1
    BY <1>1, <1>5
  <2>2. v \in Nat /\ w \in Nat /\ v <= w
    BY <1>1, <2>1
  <2>3. v \in Range(users1) /\ w \in Range(users1) /\ Range(users1) \in SUBSET Nat
    BY <1>1, <1>2, <2>1
  <2>4. /\ prio1[n] = Below(Range(users1), v) /\ prio1[n] = prio[n]
        /\ prio1[n + 1] = Below(Range(users1), w)
    BY <1>1, <1>3, <2>1 DEF Ranked
  <2>5. CASE v = w
    BY <2>4, <2>5
  <2>6. CASE v # w
    <3>1. v < w
      BY <2>2, <2>6
    <3>2. \A u \in Range(users1) : u < w => u <= v
      <4> SUFFICES ASSUME NEW j \in 1 .. n + 1, users1[j] < w PROVE users1[j] <= v
        BY <1>2
      <4>1. j = n + 1 \/ j = n \/ j < n
        BY <1>1
      <4>2. CASE j = n + 1
        BY <2>2, <4>2
      <4>3. CASE j = n
        BY <2>2, <4>3
      <4>4. CASE j < n
        BY <1>1, <2>1, <4>4
      <4>5. QED
        BY <4>1, <4>2, <4>3, <4>4
    <3> HIDE DEF v, w
    <3>3. Below(Range(users1), w) = Below(Range(users1), v) + 1
      BY <2>3, <3>1, <3>2, BelowNext
    <3>4. QED
      BY <2>4, <3>3
  <2>7. QED
    BY <2>5, <2>6
<1>6. QED
  BY <1>3, <1>4, <1>5

LEMMA TableGrows ==
  ASSUME NEW n, NEW users, NEW prio, NEW users1, NEW prio1,
         Appended(n, users, prio, users1, prio1),
         NEW tab, Tabled(n, prio, tab), NEW tab1, NEW required,
         required = prio1[n + 1] + 1,
         tab1 = IF required > 1
                THEN [m \in 0 .. required - 1 |->
                        IF m = prio1[n + 1] THEN n + 1
                        ELSE IF m \in DOMAIN tab THEN tab[m] ELSE Uninitialised]
                ELSE tab
  PROVE  Tabled(n + 1, prio1, tab1)
<1>1. PICK top \in Nat :
        /\ n = 0 => top = 0
        /\ n > 0 => top = prio[n]
        /\ DOMAIN tab = 0 .. top
        /\ tab[0] = 0
        /\ \A q \in 1 .. top : tab[q] \in 1 .. n /\ prio[tab[q]] = q
        /\ \A m \in 1 .. n : prio[m] <= top
  BY DEF Tabled
<1>2. PICK new : new = prio1[n + 1]
  OBVIOUS
<1>3. /\ \A m \in 1 .. n : prio1[m] = prio[m]
      /\ n = 0 => new = 0
      /\ n > 0 => new = prio[n] \/ new = prio[n] + 1
  BY <1>2, AppendedRanks
<1>4. n \in Nat /\ prio \in [1 .. n -> Nat] /\ prio1 \in [1 .. n + 1 -> Nat]
  BY DEF Appended, Ranked
<1>5. new \in Nat /\ (new = top \/ new = top + 1) /\ (n = 0 => new = top)
  <2>1. n + 1 \in 1 .. n + 1
    BY <1>4
  <2>2. new \in Nat
    BY <1>2, <1>4, <2>1
  <2>3. QED
    BY <1>1, <1>3, <1>4, <2>2
<1>6. \A m \in 1 .. n + 1 : prio1[m] <= new
  <2> SUFFICES ASSUME NEW m \in 1 .. n + 1 PROVE prio1[m] <= new
    OBVIOUS
  <2>1. CASE m = n + 1
    BY <1>2, <1>5, <2>1
  <2>2. CASE m # n + 1
    <3>1. m \in 1 .. n
      BY <1>4, <2>2
    <3>2. prio1[m] <= top /\ prio1[m] \in Nat
      BY <1>1, <1>3, <1>4, <3>1
    <3>3. QED
      BY <1>5, <3>2
  <2>3. QED
    BY <2>1, <2>2
<1>7. CASE new = 0
  <2>1. tab1 = tab /\ top = 0
    BY <1>2, <1>5, <1>7
  <2>2. QED
    BY <1>1, <1>2, <1>4, <1>6, <1>7, <2>1 DEF Tabled
<1>8. CASE new # 0
  <2>1. tab1 = [m \in 0 .. new |-> IF m = new THEN n + 1
                                   ELSE IF m \in DOMAIN tab THEN tab[m] ELSE Uninitialised]
    BY <1>2, <1>5, <1>8
  <2>2. DOMAIN tab1 = 0 .. new /\ tab1[0] = 0
    BY <1>1, <1>5, <1>8, <2>1
  <2>3. ASSUME NEW q \in 1 .. new
        PROVE  tab1[q] \in 1 .. n + 1 /\ prio1[tab1[q]] = q
    <3>1. CASE q = new
      <4>1. tab1[q] = n + 1
        BY <1>5, <2>1, <3>1
      <4>2. QED
        BY <1>2, <1>4, <3>1, <4>1
    <3>2. CASE q # new
      <4>1. q \in 1 .. top /\ q \in DOMAIN tab /\ q \in 0 .. new
        BY <1>1, <1>5, <3>2
      <4>2. tab1[q] = tab[q]
        BY <2>1, <3>2, <4>1
      <4>3. tab[q] \in 1 .. n /\ prio[tab[q]] = q
        BY <1>1, <4>1
      <4>4. QED
        BY <1>3, <1>4, <4>2, <4>3
    <3>3. QED
      BY <3>1, <3>2
  <2>4. /\ new \in Nat
        /\ n + 1 = 0 => new = 0
        /\ n + 1 > 0 => new = prio1[n + 1]
    BY <1>2, <1>4, <1>5
  <2>5. QED
    BY <1>6, <2>2, <2>3, <2>4 DEF Tabled
<1>9. QED
  BY <1>7, <1>8

-----------------------------------------------------------------------------
(* The invariant: the servers in the list, the last call of                 *)
(* server_calc_priorities, and the table.                                   *)
ServersInv ==
  LET n == Len(userPriority)
  IN /\ Registered(n, userPriority, address)
     /\ sorted \in [1 .. n -> Pointer]
     /\ {sorted[k] : k \in 1 .. n} = {address[m] : m \in 1 .. n}
     /\ Ranked(n, userPriority, priority)
     /\ Ascending => Tabled(n, priority, table)

\* r is seq, of n values, with v behind it.
Longer(r, seq, v, n, V) ==
  n \in Nat /\ seq \in [1 .. n -> V] /\ v \in V /\ r = Append(seq, v)

LEMMA Appending ==
  ASSUME NEW n, NEW V, NEW seq, NEW v, NEW r, Longer(r, seq, v, n, V)
  PROVE  /\ r \in [1 .. n + 1 -> V]
         /\ \A m \in 1 .. n : r[m] = seq[m]
         /\ r[n + 1] = v
<1> USE DEF Longer
<1>1. seq \in Seq(V) /\ Len(seq) = n
  OBVIOUS
<1>2. r \in Seq(V) /\ Len(r) = n + 1
  BY <1>1
<1>3. (\A m \in 1 .. n : r[m] = seq[m]) /\ r[n + 1] = v
  BY <1>1
<1>4. r \in [1 .. n + 1 -> V]
  <2> DEFINE g == r
  <2>1. g \in Seq(V) /\ Len(g) = n + 1
    BY <1>2
  <2> HIDE DEF g
  <2>2. g \in [1 .. n + 1 -> V]
    BY <2>1
  <2>3. QED
    BY <2>2 DEF g
<1>5. QED
  BY <1>3, <1>4

LEMMA ServersInit == Init => ServersInv
<1> SUFFICES ASSUME Init PROVE ServersInv
  OBVIOUS
<1>1. Len(userPriority) = 0 /\ 1 .. 0 = {}
  BY DEF Init
<1>2. Registered(0, userPriority, address)
  BY ServersAssumption DEF Init, Registered
<1>3. sorted \in [1 .. 0 -> Pointer] /\ Ranked(0, userPriority, priority)
  BY DEF Init, Ranked
<1>4. {sorted[k] : k \in 1 .. 0} = {address[m] : m \in 1 .. 0}
  BY <1>1
<1>5. Tabled(0, priority, table)
  <2>1. table = [k \in 0 .. 0 |-> 0]
    BY DEF Init
  <2>2. QED
    BY <2>1 DEF Tabled
<1>6. QED
  BY <1>1, <1>2, <1>3, <1>4, <1>5 DEF ServersInv

LEMMA ServersStep ==
  ASSUME OneAddressHigh, ServersInv, Next
  PROVE  ServersInv'
<1>1. PICK u \in UserPriority, high \in AddressHigh : AddServer(u, high)
  BY DEF Next
<1> DEFINE n == Len(userPriority)
           N == n + 1
<1>2. /\ Registered(n, userPriority, address)
      /\ Ranked(n, userPriority, priority)
      /\ Ascending => Tabled(n, priority, table)
      /\ n \in Nat
  BY DEF ServersInv, Registered
<1>3. PICK up, rank, required :
        /\ up = UserPriorityAt(userPriority', address')
        /\ rank = Ranks(up, sorted')
        /\ required = rank[N] + 1
        /\ N <= MaxServers /\ u >= 0
        /\ userPriority' = Append(userPriority, u)
        /\ address' = Append(address, [high |-> high, low |-> N])
        /\ sorted' = SortRange(up, address', 1, N + 1)
        /\ priority' = [m \in 1 .. N |->
                          IF \E k \in 1 .. N : sorted'[k] = address'[m]
                          THEN rank[CHOOSE k \in 1 .. N : sorted'[k] = address'[m]]
                          ELSE IF m \in DOMAIN priority THEN priority[m] ELSE -1]
        /\ table' =
             IF required > 1 /\ required > CurrentQueues
             THEN [m \in 0 .. required - 1 |->
                     IF m = priority'[N] THEN N
                     ELSE IF m \in DOMAIN table THEN table[m] ELSE Uninitialised]
             ELSE table
  BY <1>1, Zenon DEF AddServer
<1> HIDE DEF n
<1>4. /\ userPriority \in [1 .. n -> Nat] /\ userPriority' \in [1 .. N -> Nat]
      /\ \A m \in 1 .. n : userPriority'[m] = userPriority[m]
  <2>1. u \in Nat /\ userPriority \in [1 .. n -> Nat]
    BY <1>2, <1>3, ServersAssumption DEF Registered
  <2>2. Longer(userPriority', userPriority, u, n, Nat)
    BY <1>2, <1>3, <2>1 DEF Longer
  <2>3. /\ userPriority' \in [1 .. n + 1 -> Nat]
        /\ \A m \in 1 .. n : userPriority'[m] = userPriority[m]
    BY <2>2, Appending
  <2>4. QED
    BY <2>1, <2>3
<1>5. Registered(N, userPriority', address')
  <2>1. address \in [1 .. n -> Pointer] /\ \A m \in 1 .. n : address[m].low = m
    BY <1>2 DEF Registered
  <2>2. [high |-> high, low |-> N] \in Pointer
    BY <1>2, <1>3 DEF Pointer
  <2>3. /\ address' \in [1 .. N -> Pointer]
        /\ \A m \in 1 .. n : address'[m] = address[m]
        /\ address'[N] = [high |-> high, low |-> N]
    <3>1. Longer(address', address, [high |-> high, low |-> N], n, Pointer)
      BY <1>2, <1>3, <2>1, <2>2 DEF Longer
    <3>2. QED
      BY <3>1, Appending
  <2>4. ASSUME NEW m \in 1 .. N PROVE address'[m].low = m
    <3>1. m \in 1 .. n \/ m = N
      BY <1>2
    <3>2. QED
      BY <2>1, <2>3, <3>1
  <2>5. QED
    BY <1>2, <1>3, <1>4, <2>3, <2>4 DEF Registered
<1>6. Calculated(N, userPriority', address', sorted', rank)
  BY <1>3, <1>5, CalcPriorities
<1>7. Len(userPriority') = N
  BY <1>2, <1>4
<1>8. Ranked(N, userPriority', priority')
  <2>1. ASSUME NEW m \in 1 .. N
        PROVE  priority'[m] = Below(Range(userPriority'), userPriority'[m])
    <3>1. \E k \in 1 .. N : sorted'[k] = address'[m]
      BY <1>6 DEF Calculated
    <3>2. PICK k \in 1 .. N : /\ sorted'[k] = address'[m]
                              /\ k = CHOOSE i \in 1 .. N : sorted'[i] = address'[m]
      BY <3>1
    <3>3. priority'[m] = rank[k]
      BY <1>3, <3>1, <3>2
    <3>4. QED
      BY <1>6, <3>2, <3>3 DEF Calculated
  <2>2. Range(userPriority') \in SUBSET Nat
    BY <1>4 DEF Range
  <2>3. \A m \in 1 .. N : priority'[m] \in Nat
    BY <1>4, <2>1, <2>2, BelowFinite
  <2>4. QED
    BY <1>3, <2>1, <2>3 DEF Ranked
<1>9. ASSUME Ascending'
      PROVE  Tabled(N, priority', table')
  <2>1. \A k, m \in 1 .. N : k < m => userPriority'[k] <= userPriority'[m]
    BY <1>4, <1>9 DEF Ascending
  <2>2. Ascending
    BY <1>2, <1>4, <2>1 DEF Ascending
  <2>3. Appended(n, userPriority, priority, userPriority', priority')
    BY <1>2, <1>4, <1>8, <2>1 DEF Appended
  <2>4. required = priority'[N] + 1
    <3>1. N \in 1 .. N /\ N > 0
      BY <1>2
    <3>2. \A k \in 1 .. N : userPriority'[k] <= userPriority'[N]
      <4> TAKE k \in 1 .. N
      <4>1. CASE k = N
        BY <1>4, <3>1, <4>1
      <4>2. CASE k # N
        BY <1>2, <2>1, <3>1, <4>2
      <4>3. QED
        BY <4>1, <4>2
    <3>3. rank[N] = Below(Range(userPriority'), userPriority'[N])
      BY <1>6, <3>1, <3>2 DEF Calculated
    <3>4. QED
      BY <1>3, <1>8, <3>1, <3>3 DEF Ranked
  <2>5. table' = IF required > 1
                 THEN [m \in 0 .. required - 1 |->
                         IF m = priority'[n + 1] THEN n + 1
                         ELSE IF m \in DOMAIN table THEN table[m] ELSE Uninitialised]
                 ELSE table
    BY <1>3 DEF CurrentQueues
  <2>6. Tabled(n, priority, table)
    BY <1>2, <2>2
  <2>7. QED
    BY <2>3, <2>4, <2>5, <2>6, TableGrows, Zenon
<1>10. QED
  BY <1>5, <1>6, <1>7, <1>8, <1>9 DEF ServersInv, Calculated

-----------------------------------------------------------------------------
(* The connection threads.                                                  *)
Thread == [connected : BOOLEAN, table : Nat, queue : Int \cup {NULL},
           bytes : Nat, prevBytes : Nat, prevTime : Nat \cup {NULL}]

ConnectionsTypeOK ==
  /\ userPriority \in Seq(Int)
  /\ table \in [DOMAIN table -> Int]
  /\ allocation \in Nat /\ now \in Nat
  /\ state \in {"adding", "connected", "crashed"}
  /\ threads \in Seq(Thread \cup {NULL})

LEMMA ConnectionsInitType == InitConnections => ConnectionsTypeOK
<1> SUFFICES ASSUME InitConnections PROVE ConnectionsTypeOK
  OBVIOUS
<1>1. table \in [DOMAIN table -> Int]
  BY DEF InitConnections, Init
<1>2. userPriority \in Seq(Int) /\ threads \in Seq(Thread \cup {NULL})
  BY DEF InitConnections, Init
<1>3. QED
  BY <1>1, <1>2 DEF InitConnections, ConnectionsTypeOK

LEMMA SequenceExcept ==
  ASSUME NEW T, NEW seq \in Seq(T), NEW n \in DOMAIN seq, NEW v \in T
  PROVE  /\ [seq EXCEPT ![n] = v] \in Seq(T)
         /\ DOMAIN [seq EXCEPT ![n] = v] = DOMAIN seq
<1>1. PICK len \in Nat : len = Len(seq)
  OBVIOUS
<1>2. seq \in [1 .. len -> T]
  BY <1>1
<1>3. [seq EXCEPT ![n] = v] \in [1 .. len -> T]
  BY <1>2
<1>4. QED
  BY <1>1, <1>2, <1>3

LEMMA ConnectionsStepType ==
  ASSUME ConnectionsTypeOK, [NextConnections]_<<vars, connectionVars>>
  PROVE  ConnectionsTypeOK'
<1> USE DEF ConnectionsTypeOK
<1>1. CASE Add
  <2>1. PICK u \in UserPriority, high \in AddressHigh : AddServer(u, high)
    BY <1>1 DEF Add, Next
  <2>2. userPriority' \in Seq(Int)
    BY <2>1, ServersAssumption DEF AddServer
  <2>3. table' \in [DOMAIN table' -> Int]
    <3>1. Len(userPriority) + 1 \in Int
      OBVIOUS
    <3>2. PICK required, prio :
            table' = IF required > 1 /\ required > CurrentQueues
                     THEN [m \in 0 .. required - 1 |->
                             IF m = prio THEN Len(userPriority) + 1
                             ELSE IF m \in DOMAIN table THEN table[m] ELSE Uninitialised]
                     ELSE table
      BY <2>1, Zenon DEF AddServer
    <3>3. QED
      BY <3>1, <3>2 DEF Uninitialised
  <2>4. threads' \in Seq(Thread \cup {NULL})
    BY <1>1 DEF Add
  <2>5. QED
    BY <1>1, <2>2, <2>3, <2>4 DEF Add
<1>2. ASSUME NEW found, Connect(found) PROVE ConnectionsTypeOK'
  <2>1. NewThread \in Thread
    BY DEF NewThread, Thread
  <2>2. threads' \in Seq(Thread \cup {NULL})
    <3>1. threads' = [n \in DOMAIN threads |-> IF n \in found THEN NewThread ELSE NULL]
      BY <1>2 DEF Connect
    <3>2. PICK len \in Nat : DOMAIN threads = 1 .. len
      OBVIOUS
    <3>3. threads' \in [1 .. len -> Thread \cup {NULL}]
      BY <2>1, <3>1, <3>2
    <3>4. QED
      BY <3>3
  <2>3. QED
    BY <1>2, <2>2 DEF Connect, vars
<1>3. ASSUME NEW n \in DOMAIN threads, EnterLoop(n) PROVE ConnectionsTypeOK'
  <2>1. threads[n] \in Thread
    BY <1>3 DEF EnterLoop
  <2>2. QueueOf(n) \in Int
    BY DEF QueueOf, Uninitialised
  <2>3. [threads[n] EXCEPT !.connected = TRUE, !.queue = QueueOf(n)] \in Thread
    BY <2>1, <2>2 DEF Thread
  <2>4. threads' \in Seq(Thread \cup {NULL})
    <3>1. threads' = [threads EXCEPT ![n] =
                        [threads[n] EXCEPT !.connected = TRUE, !.queue = QueueOf(n)]]
      BY <1>3 DEF EnterLoop
    <3>2. QED
      BY <2>3, <3>1, SequenceExcept
  <2>5. QED
    BY <1>3, <2>4 DEF EnterLoop, vars
<1>4. ASSUME NEW n \in DOMAIN threads, Receive(n) PROVE ConnectionsTypeOK'
  <2>1. threads[n] \in Thread
    BY <1>4 DEF Receive
  <2>2. [threads[n] EXCEPT !.bytes = @ + 1] \in Thread
    <3>1. threads[n].bytes + 1 \in Nat
      BY <2>1 DEF Thread
    <3>2. QED
      BY <2>1, <3>1 DEF Thread
  <2>3. threads' \in Seq(Thread \cup {NULL})
    <3>1. threads' = [threads EXCEPT ![n] = [threads[n] EXCEPT !.bytes = @ + 1]]
      BY <1>4 DEF Receive
    <3>2. QED
      BY <2>2, <3>1, SequenceExcept
  <2>4. QED
    BY <1>4, <2>3 DEF Receive, vars
<1>5. CASE Tick
  BY <1>5 DEF Tick, vars
<1>6. CASE ListConnections
  <2>1. CASE \E n \in DOMAIN threads : threads[n] = NULL
    BY <1>6, <2>1 DEF ListConnections, vars
  <2>2. CASE ~ \E n \in DOMAIN threads : threads[n] = NULL
    <3>1. \A n \in DOMAIN threads : threads[n] \in Thread /\ Counted(threads[n]) \in Thread
      <4> TAKE n \in DOMAIN threads
      <4>1. threads[n] \in Thread
        BY <2>2
      <4>2. QED
        BY <4>1 DEF Counted, Thread
    <3>2. threads' = [n \in DOMAIN threads |->
                        IF threads[n].connected THEN Counted(threads[n]) ELSE threads[n]]
      BY <1>6, <2>2 DEF ListConnections
    <3>3. threads' \in Seq(Thread \cup {NULL})
      BY <3>1, <3>2
    <3>4. QED
      BY <1>6, <2>2, <3>3 DEF ListConnections, vars
  <2>3. QED
    BY <2>1, <2>2
<1>7. CASE UNCHANGED <<vars, connectionVars>>
  BY <1>7 DEF vars, connectionVars
<1>8. QED
  BY <1>1, <1>2, <1>3, <1>4, <1>5, <1>6, <1>7 DEF NextConnections

-----------------------------------------------------------------------------
(* The rates.                                                               *)
LEMMA DivisionBounds ==
  ASSUME NEW a \in Nat, NEW d \in Nat \ {0}
  PROVE  /\ a \div d \in Nat
         /\ (a \div d) * d <= a
         /\ a < (a \div d + 1) * d
<1>1. a \div d \in Int
  OBVIOUS
<1>2. (a \div d) * d <= a /\ a < (a \div d + 1) * d
  OBVIOUS
<1>3. QED
  BY <1>1, <1>2

(* The rate that is counted over whole seconds, of a time in ticks.         *)
LEMMA RateBounds ==
  ASSUME NEW bytes \in Nat, NEW ticks \in Nat, ticks >= Ticks,
         NEW seconds, seconds = ticks \div Ticks,
         NEW rate, rate = bytes \div seconds
  PROVE  /\ seconds # 0 /\ rate \in Nat
         /\ bytes * Ticks < (rate + 1) * ticks
         /\ rate > 0 => rate * ticks < 2 * Ticks * bytes
<1>1. seconds \in Nat /\ seconds > 0 /\ 4 * seconds <= ticks /\ ticks < 4 * (seconds + 1)
  BY DEF Ticks
<1>2. rate \in Nat /\ rate * seconds <= bytes /\ bytes < (rate + 1) * seconds
  BY <1>1, DivisionBounds
<1>3. bytes * 4 < (rate + 1) * ticks
  <2>1. bytes * 4 < ((rate + 1) * seconds) * 4
    BY <1>1, <1>2
  <2>2. ((rate + 1) * seconds) * 4 = (rate + 1) * (4 * seconds)
    BY <1>1, <1>2
  <2>3. (rate + 1) * (4 * seconds) <= (rate + 1) * ticks
    BY <1>1, <1>2
  <2>4. QED
    BY <1>1, <1>2, <2>1, <2>2, <2>3
<1>4. ASSUME rate > 0 PROVE rate * ticks < 2 * 4 * bytes
  <2>1. ticks < 8 * seconds
    BY <1>1
  <2>2. rate * ticks < rate * (8 * seconds)
    BY <1>1, <1>2, <1>4, <2>1
  <2>3. rate * (8 * seconds) = 8 * (rate * seconds)
    BY <1>1, <1>2
  <2>4. QED
    BY <1>1, <1>2, <2>2, <2>3
<1>5. QED
  BY <1>1, <1>2, <1>3, <1>4 DEF Ticks

\* What a thread remembers is what the last call told.
Remembers(m) ==
  LET t == threads[m]
  IN /\ t.prevBytes <= t.bytes
     /\ t.prevTime # NULL => t.connected /\ t.prevTime <= now
     /\ LastAsked(m) # NULL =>
          t.prevTime # NULL /\ LastAsked(m) = [at |-> t.prevTime, bytes |-> t.prevBytes]

RatesInv ==
  /\ ConnectionsTypeOK
  /\ state = "adding" => rates = <<>>
  /\ \A m \in DOMAIN threads : threads[m] # NULL => Remembers(m)
  /\ RateWithinTwice

LEMMA RatesInit == InitConnections => RatesInv
<1> SUFFICES ASSUME InitConnections PROVE RatesInv
  OBVIOUS
<1>1. ConnectionsTypeOK
  BY ConnectionsInitType
<1>2. rates = <<>> /\ threads = <<>>
  BY DEF InitConnections
<1>3. RateWithinTwice
  BY <1>2 DEF RateWithinTwice
<1>4. QED
  BY <1>1, <1>2, <1>3 DEF RatesInv

\* Of what ListConnections does.
LEMMA RatesListed ==
  ASSUME RatesInv, ListConnections, \A n \in DOMAIN threads : threads[n] # NULL
  PROVE  (\A m \in DOMAIN threads' : Remembers(m)') /\ RateWithinTwice'
<1>1. /\ state = "connected" /\ now' = now
      /\ rates' = [n \in DOMAIN threads |->
                     [rate |-> TransferRate(threads[n]),
                      before |-> LastAsked(n),
                      asked |-> IF threads[n].connected
                                THEN [at |-> now, bytes |-> threads[n].bytes] ELSE NULL]]
      /\ threads' = [n \in DOMAIN threads |->
                       IF threads[n].connected THEN Counted(threads[n]) ELSE threads[n]]
  BY DEF ListConnections
<1>2. now \in Nat /\ \A m \in DOMAIN threads : threads[m] \in Thread /\ Remembers(m)
  BY DEF RatesInv, ConnectionsTypeOK
<1>3. DOMAIN threads' = DOMAIN threads /\ DOMAIN rates' = DOMAIN threads
  BY <1>1
<1>4. ASSUME NEW m \in DOMAIN threads
      PROVE  Remembers(m)'
  <2>1. LastAsked(m)' = IF threads[m].connected
                        THEN [at |-> now, bytes |-> threads[m].bytes] ELSE NULL
    BY <1>1, <1>3 DEF LastAsked
  <2>2. CASE threads[m].connected
    <3>1. threads'[m] = [threads[m] EXCEPT !.prevBytes = threads[m].bytes, !.prevTime = now]
      BY <1>1, <2>2 DEF Counted
    <3>2. /\ threads'[m].bytes = threads[m].bytes /\ threads'[m].connected
          /\ threads'[m].prevBytes = threads[m].bytes
          /\ threads'[m].prevTime = now
          /\ threads[m].bytes \in Nat
      BY <1>2, <2>2, <3>1 DEF Thread
    <3>3. QED
      BY <1>1, <1>2, <2>1, <2>2, <3>2, ConnectionsAssumption DEF Remembers
  <2>3. CASE ~ threads[m].connected
    <3>1. threads'[m] = threads[m]
      BY <1>1, <2>3
    <3>2. QED
      BY <1>1, <1>2, <2>1, <2>3, <3>1 DEF Remembers
  <2>4. QED
    BY <2>2, <2>3
<1>5. ASSUME NEW n \in DOMAIN rates', rates'[n].before # NULL
      PROVE  LET rate == rates'[n].rate
                 ticks == rates'[n].asked.at - rates'[n].before.at
                 bytes == rates'[n].asked.bytes - rates'[n].before.bytes
             IN ticks >= Ticks =>
                  /\ rate # NULL
                  /\ bytes * Ticks < (rate + 1) * ticks
                  /\ rate > 0 => rate * ticks < 2 * Ticks * bytes
  <2>1. n \in DOMAIN threads
    BY <1>3
  <2>2. PICK t \in Thread : t = threads[n]
    BY <1>2, <2>1
  <2>3. /\ LastAsked(n) # NULL /\ t.prevTime # NULL /\ t.connected
        /\ LastAsked(n) = [at |-> t.prevTime, bytes |-> t.prevBytes]
        /\ t.prevBytes <= t.bytes /\ t.prevTime <= now
    BY <1>1, <1>2, <1>5, <2>1, <2>2 DEF Remembers
  <2>4. /\ rates'[n].rate = TransferRate(t)
        /\ rates'[n].before.at = t.prevTime /\ rates'[n].before.bytes = t.prevBytes
        /\ rates'[n].asked.at = now /\ rates'[n].asked.bytes = t.bytes
    BY <1>1, <2>1, <2>2, <2>3
  <2>5. PICK b \in Nat, p \in Nat, pt \in Nat :
          b = t.bytes /\ p = t.prevBytes /\ pt = t.prevTime
    BY <2>2, <2>3 DEF Thread
  <2> DEFINE ticks == now - pt
             bytes == b - p
             seconds == ticks \div Ticks
             rate == bytes \div seconds
  <2>6. ASSUME ticks >= Ticks
        PROVE  /\ TransferRate(t) = rate /\ rate # NULL
               /\ bytes * Ticks < (rate + 1) * ticks
               /\ rate > 0 => rate * ticks < 2 * Ticks * bytes
    <3>1. ticks \in Nat /\ bytes \in Nat
      BY <1>2, <2>3, <2>5
    <3> HIDE DEF ticks, bytes
    <3>2. /\ seconds # 0 /\ rate \in Nat
          /\ bytes * Ticks < (rate + 1) * ticks
          /\ rate > 0 => rate * ticks < 2 * Ticks * bytes
      BY <2>6, <3>1, RateBounds
    <3>3. TransferRate(t) = rate
      <4>1. Seconds(t) = seconds
        BY <2>5 DEF Seconds, ticks
      <4>2. QED
        BY <2>3, <2>5, <3>2, <4>1 DEF TransferRate, bytes
    <3>4. QED
      BY <3>2, <3>3, ConnectionsAssumption
  <2>7. QED
    BY <2>4, <2>5, <2>6
<1>6. RateWithinTwice'
  BY <1>5 DEF RateWithinTwice
<1>7. QED
  BY <1>3, <1>4, <1>6

LEMMA RatesStep ==
  ASSUME RatesInv, [NextConnections]_<<vars, connectionVars>>
  PROVE  RatesInv'
<1>1. ConnectionsTypeOK /\ ConnectionsTypeOK'
  BY ConnectionsStepType DEF RatesInv
<1>2. \A m \in DOMAIN threads : threads[m] # NULL => threads[m] \in Thread /\ Remembers(m)
  BY DEF RatesInv, ConnectionsTypeOK
<1>3. now \in Nat /\ threads \in Seq(Thread \cup {NULL}) /\ (state = "adding" => rates = <<>>)
  BY DEF RatesInv, ConnectionsTypeOK
<1>4. ASSUME rates' = rates PROVE RateWithinTwice' /\ \A m : LastAsked(m)' = LastAsked(m)
  BY <1>4 DEF RatesInv, RateWithinTwice, LastAsked
<1>5. CASE Add
  <2>1. threads' = Append(threads, NULL) /\ rates' = rates /\ now' = now
        /\ state' = state
    BY <1>5 DEF Add
  <2>2. ASSUME NEW m \in DOMAIN threads', threads'[m] # NULL
        PROVE  Remembers(m)'
    <3>1. m \in DOMAIN threads /\ threads'[m] = threads[m]
      BY <1>3, <2>1, <2>2
    <3>2. QED
      BY <1>2, <1>4, <2>1, <2>2, <3>1 DEF Remembers
  <2>3. QED
    BY <1>1, <1>3, <1>4, <2>1, <2>2 DEF RatesInv
<1>6. ASSUME NEW found, Connect(found) PROVE RatesInv'
  <2>1. /\ threads' = [n \in DOMAIN threads |-> IF n \in found THEN NewThread ELSE NULL]
        /\ rates = <<>> /\ rates' = rates /\ state' = "connected"
    BY <1>3, <1>6 DEF Connect
  <2>2. ASSUME NEW m \in DOMAIN threads', threads'[m] # NULL
        PROVE  Remembers(m)'
    <3>1. threads'[m] = NewThread
      BY <2>1, <2>2
    <3>2. LastAsked(m)' = NULL
      BY <2>1 DEF LastAsked
    <3>3. QED
      BY <3>1, <3>2 DEF Remembers, NewThread
  <2>3. QED
    BY <1>1, <1>4, <2>1, <2>2 DEF RatesInv
<1>7. ASSUME NEW n \in DOMAIN threads, EnterLoop(n) PROVE RatesInv'
  <2>1. /\ threads' = [threads EXCEPT ![n] =
                         [threads[n] EXCEPT !.connected = TRUE, !.queue = QueueOf(n)]]
        /\ threads[n] # NULL
        /\ rates' = rates /\ now' = now /\ state' = state
    BY <1>7 DEF EnterLoop
  <2>2. ASSUME NEW m \in DOMAIN threads', threads'[m] # NULL
        PROVE  Remembers(m)'
    <3>1. m \in DOMAIN threads
      BY <2>1
    <3>2. CASE m # n
      <4>1. threads'[m] = threads[m]
        BY <2>1, <3>1, <3>2
      <4>2. QED
        BY <1>2, <1>4, <2>1, <2>2, <3>1, <4>1 DEF Remembers
    <3>3. CASE m = n
      <4>1. /\ threads'[m].connected
            /\ threads'[m].bytes = threads[m].bytes
            /\ threads'[m].prevBytes = threads[m].prevBytes
            /\ threads'[m].prevTime = threads[m].prevTime
        BY <1>2, <2>1, <3>3 DEF Thread
      <4>2. QED
        BY <1>2, <1>4, <2>1, <3>1, <3>3, <4>1 DEF Remembers
    <3>4. QED
      BY <3>2, <3>3
  <2>3. QED
    BY <1>1, <1>3, <1>4, <2>1, <2>2 DEF RatesInv
<1>8. ASSUME NEW n \in DOMAIN threads, Receive(n) PROVE RatesInv'
  <2>1. /\ threads' = [threads EXCEPT ![n] = [threads[n] EXCEPT !.bytes = @ + 1]]
        /\ threads[n] # NULL
        /\ rates' = rates /\ now' = now /\ state' = state
    BY <1>8 DEF Receive
  <2>2. ASSUME NEW m \in DOMAIN threads', threads'[m] # NULL
        PROVE  Remembers(m)'
    <3>1. m \in DOMAIN threads
      BY <2>1
    <3>2. CASE m # n
      <4>1. threads'[m] = threads[m]
        BY <2>1, <3>1, <3>2
      <4>2. QED
        BY <1>2, <1>4, <2>1, <2>2, <3>1, <4>1 DEF Remembers
    <3>3. CASE m = n
      <4>1. /\ threads'[m].connected = threads[m].connected
            /\ threads'[m].bytes = threads[m].bytes + 1
            /\ threads[m].bytes \in Nat /\ threads[m].prevBytes \in Nat
            /\ threads'[m].prevBytes = threads[m].prevBytes
            /\ threads'[m].prevTime = threads[m].prevTime
        BY <1>2, <2>1, <3>3 DEF Thread
      <4>2. QED
        BY <1>2, <1>4, <2>1, <3>1, <3>3, <4>1 DEF Remembers
    <3>4. QED
      BY <3>2, <3>3
  <2>3. QED
    BY <1>1, <1>3, <1>4, <2>1, <2>2 DEF RatesInv
<1>9. CASE Tick
  <2>1. /\ threads' = threads /\ rates' = rates /\ now' = now + 1
        /\ state = "connected" /\ state' = state
    BY <1>9 DEF Tick
  <2>2. ASSUME NEW m \in DOMAIN threads', threads'[m] # NULL
        PROVE  Remembers(m)'
    <3>1. threads'[m] = threads[m] /\ threads[m].prevTime \in Nat \cup {NULL}
      BY <1>2, <2>1, <2>2 DEF Thread
    <3>2. Remembers(m) /\ LastAsked(m)' = LastAsked(m)
      BY <1>2, <1>4, <2>1, <2>2
    <3>3. threads[m].prevTime # NULL => threads[m].prevTime <= now + 1
      BY <1>3, <3>1, <3>2 DEF Remembers
    <3>4. QED
      BY <2>1, <3>1, <3>2, <3>3 DEF Remembers
  <2>3. QED
    BY <1>1, <1>4, <2>1, <2>2 DEF RatesInv
<1>10. CASE ListConnections
  <2>1. CASE \E n \in DOMAIN threads : threads[n] = NULL
    <3>1. threads' = threads /\ rates' = rates /\ now' = now /\ state' = "crashed"
      BY <1>10, <2>1 DEF ListConnections
    <3>2. \A m \in DOMAIN threads : threads[m] # NULL => Remembers(m)'
      BY <1>2, <1>4, <3>1 DEF Remembers
    <3>3. QED
      BY <1>1, <1>4, <3>1, <3>2 DEF RatesInv
  <2>2. CASE \A n \in DOMAIN threads : threads[n] # NULL
    <3>1. (\A m \in DOMAIN threads' : Remembers(m)') /\ RateWithinTwice'
      BY <1>10, <2>2, RatesListed
    <3>2. state' # "adding"
      BY <1>10, <2>2 DEF ListConnections
    <3>3. QED
      BY <1>1, <3>1, <3>2 DEF RatesInv
  <2>3. QED
    BY <2>1, <2>2
<1>11. CASE UNCHANGED <<vars, connectionVars>>
  <2>1. threads' = threads /\ rates' = rates /\ now' = now /\ state' = state
    BY <1>11 DEF connectionVars
  <2>2. \A m \in DOMAIN threads : threads[m] # NULL => Remembers(m)'
    BY <1>2, <1>4, <2>1 DEF Remembers
  <2>3. QED
    BY <1>1, <1>3, <1>4, <2>1, <2>2 DEF RatesInv
<1>12. QED
  BY <1>5, <1>6, <1>7, <1>8, <1>9, <1>10, <1>11 DEF NextConnections

(* Whenever nzb_fetch_list_connections tells a rate over a second or more,  *)
(* it is at least the real one, rounded down, and less than twice of it,    *)
(* whatever has been received and however often the client asked.           *)
THEOREM ServersRateWithinTwice == SpecConnections => []RateWithinTwice
<1>1. InitConnections => RatesInv
  BY RatesInit
<1>2. RatesInv /\ [NextConnections]_<<vars, connectionVars>> => RatesInv'
  BY RatesStep
<1>3. RatesInv => RateWithinTwice
  BY DEF RatesInv
<1>4. QED
  BY <1>1, <1>2, <1>3, PTL DEF SpecConnections

-----------------------------------------------------------------------------
(* The queues the threads read.                                             *)
QueuesInv ==
  /\ ConnectionsTypeOK
  /\ ServersInv
  /\ Len(threads) = Len(userPriority)
  /\ state = "adding" => \A m \in DOMAIN threads : threads[m] = NULL
  /\ state = "connected" /\ AllConnected =>
       /\ Len(threads) > 0
       /\ \A m \in DOMAIN threads :
            /\ threads[m].table = allocation
            /\ threads[m].connected => threads[m].queue = QueueOf(m)

LEMMA QueuesInit == InitConnections => QueuesInv
<1> SUFFICES ASSUME InitConnections PROVE QueuesInv
  OBVIOUS
<1>1. ConnectionsTypeOK /\ ServersInv
  BY ConnectionsInitType, ServersInit DEF InitConnections
<1>2. Len(threads) = Len(userPriority) /\ threads = <<>> /\ state = "adding"
  BY DEF InitConnections, Init
<1>3. QED
  BY <1>1, <1>2 DEF QueuesInv

LEMMA ServersUnchanged == ServersInv /\ UNCHANGED vars => ServersInv'
<1> SUFFICES ASSUME ServersInv, UNCHANGED vars PROVE ServersInv'
  OBVIOUS
<1>1. /\ userPriority' = userPriority /\ address' = address /\ sorted' = sorted
      /\ priority' = priority /\ table' = table
  BY DEF vars
<1>2. Ascending' <=> Ascending
  BY <1>1 DEF Ascending
<1>3. QED
  BY <1>1, <1>2 DEF ServersInv

LEMMA QueuesStep ==
  ASSUME OneAddressHigh, QueuesInv, [NextConnections]_<<vars, connectionVars>>
  PROVE  QueuesInv'
<1>1. ConnectionsTypeOK /\ ConnectionsTypeOK' /\ ServersInv
  BY ConnectionsStepType DEF QueuesInv
<1>2. /\ threads \in Seq(Thread \cup {NULL}) /\ userPriority \in Seq(Int)
      /\ Len(threads) = Len(userPriority)
      /\ state = "adding" => \A m \in DOMAIN threads : threads[m] = NULL
      /\ \A m \in DOMAIN threads : threads[m] # NULL => threads[m] \in Thread
  BY DEF QueuesInv, ConnectionsTypeOK
<1>3. state = "connected" /\ AllConnected =>
        /\ Len(threads) > 0
        /\ \A m \in DOMAIN threads :
             /\ threads[m].table = allocation
             /\ threads[m].connected => threads[m].queue = QueueOf(m)
  BY DEF QueuesInv
<1>4. CASE Add
  <2>1. Next /\ threads' = Append(threads, NULL) /\ state' = state
    BY <1>4 DEF Add
  <2>2. ServersInv'
    BY <1>1, <2>1, ServersStep
  <2>3. PICK u : userPriority' = Append(userPriority, u)
    BY <2>1 DEF Next, AddServer
  <2>4. Len(threads') = Len(userPriority')
    BY <1>2, <2>1, <2>3
  <2>5. ASSUME state' = "adding", NEW m \in DOMAIN threads' PROVE threads'[m] = NULL
    BY <1>2, <2>1, <2>5
  <2>6. ~ AllConnected'
    <3>1. Len(threads) + 1 \in DOMAIN threads' /\ threads'[Len(threads) + 1] = NULL
      BY <1>2, <2>1
    <3>2. QED
      BY <3>1 DEF AllConnected
  <2>7. QED
    BY <1>1, <2>2, <2>4, <2>5, <2>6 DEF QueuesInv
<1>5. ASSUME NEW found, Connect(found) PROVE QueuesInv'
  <2>1. /\ threads' = [n \in DOMAIN threads |-> IF n \in found THEN NewThread ELSE NULL]
        /\ Len(threads) \in 1 .. MaxConnected
        /\ state' = "connected" /\ UNCHANGED vars /\ allocation' = allocation
    BY <1>5 DEF Connect
  <2>2. Len(threads') = Len(threads) /\ Len(threads) > 0
    BY <1>2, <2>1
  <2>3. ServersInv' /\ Len(threads') = Len(userPriority')
    BY <1>1, <1>2, <2>1, <2>2, ServersUnchanged DEF vars
  <2>4. ASSUME AllConnected', NEW m \in DOMAIN threads'
        PROVE  threads'[m].table = allocation' /\ ~ threads'[m].connected
    <3>1. threads'[m] = NewThread
      BY <2>1, <2>4 DEF AllConnected
    <3>2. QED
      BY <2>1, <3>1 DEF NewThread
  <2>5. QED
    BY <1>1, <2>1, <2>2, <2>3, <2>4 DEF QueuesInv
<1>6. ASSUME UNCHANGED vars, allocation' = allocation, Len(threads') = Len(threads),
             state' = state \/ state' = "crashed",
             DOMAIN threads' = DOMAIN threads,
             \A m \in DOMAIN threads :
               /\ threads[m] = NULL => threads'[m] = NULL
               /\ threads[m] # NULL =>
                    /\ threads'[m].table = threads[m].table
                    /\ threads'[m].connected /\ threads'[m].queue # threads[m].queue =>
                         threads'[m].queue = QueueOf(m)
                    /\ threads'[m].connected # threads[m].connected =>
                         threads'[m].queue = QueueOf(m)
      PROVE  QueuesInv'
  <2>1. ServersInv' /\ Len(threads') = Len(userPriority')
    BY <1>1, <1>2, <1>6, ServersUnchanged DEF vars
  <2>2. ASSUME state' = "connected", AllConnected'
        PROVE  /\ Len(threads') > 0
               /\ \A m \in DOMAIN threads' :
                    /\ threads'[m].table = allocation'
                    /\ threads'[m].connected => threads'[m].queue = QueueOf(m)'
    <3>1. state = "connected" /\ AllConnected
      BY <1>6, <2>2 DEF AllConnected
    <3>2. Len(threads) > 0 /\ \A m \in DOMAIN threads :
            /\ threads[m].table = allocation
            /\ threads[m].connected => threads[m].queue = QueueOf(m)
      BY <1>3, <3>1
    <3>3. ASSUME NEW m \in DOMAIN threads
          PROVE  /\ threads'[m].table = allocation'
                 /\ threads'[m].connected => threads'[m].queue = QueueOf(m)'
      <4>1. threads'[m].table = threads[m].table /\ threads[m].table = allocation
        BY <1>6, <3>1, <3>2 DEF AllConnected
      <4>2. QueueOf(m)' = QueueOf(m)
        BY <1>6, <4>1 DEF QueueOf, vars
      <4>3. QED
        BY <1>6, <3>1, <3>2, <4>1, <4>2 DEF AllConnected
    <3>4. QED
      BY <1>6, <3>2, <3>3
  <2>3. state' = "adding" => \A m \in DOMAIN threads' : threads'[m] = NULL
    BY <1>2, <1>6
  <2>4. QED
    BY <1>1, <2>1, <2>2, <2>3 DEF QueuesInv
<1>7. ASSUME NEW n \in DOMAIN threads, EnterLoop(n) PROVE QueuesInv'
  <2>1. /\ threads' = [threads EXCEPT ![n] =
                         [threads[n] EXCEPT !.connected = TRUE, !.queue = QueueOf(n)]]
        /\ threads[n] # NULL /\ threads[n] \in Thread
        /\ UNCHANGED vars /\ allocation' = allocation /\ state' = state
    BY <1>2, <1>7 DEF EnterLoop
  <2>2. Len(threads') = Len(threads) /\ DOMAIN threads' = DOMAIN threads
    BY <1>2, <2>1
  <2>3. ASSUME NEW m \in DOMAIN threads
        PROVE  /\ threads[m] = NULL => threads'[m] = NULL
               /\ threads[m] # NULL =>
                    /\ threads'[m].table = threads[m].table
                    /\ threads'[m].connected /\ threads'[m].queue # threads[m].queue =>
                         threads'[m].queue = QueueOf(m)
                    /\ threads'[m].connected # threads[m].connected =>
                         threads'[m].queue = QueueOf(m)
    <3>1. CASE m = n
      <4>1. threads'[m].table = threads[m].table /\ threads'[m].queue = QueueOf(m)
        BY <2>1, <3>1 DEF Thread
      <4>2. QED
        BY <2>1, <3>1, <4>1
    <3>2. CASE m # n
      <4>1. threads'[m] = threads[m]
        BY <2>1, <3>2
      <4>2. QED
        BY <4>1
    <3>3. QED
      BY <3>1, <3>2
  <2>4. QED
    BY <1>6, <2>1, <2>2, <2>3
<1>8. ASSUME NEW n \in DOMAIN threads, Receive(n) PROVE QueuesInv'
  <2>1. /\ threads' = [threads EXCEPT ![n] = [threads[n] EXCEPT !.bytes = @ + 1]]
        /\ threads[n] # NULL /\ threads[n] \in Thread
        /\ UNCHANGED vars /\ allocation' = allocation /\ state' = state
    BY <1>2, <1>8 DEF Receive
  <2>2. Len(threads') = Len(threads) /\ DOMAIN threads' = DOMAIN threads
    BY <1>2, <2>1
  <2>3. ASSUME NEW m \in DOMAIN threads
        PROVE  /\ threads[m] = NULL => threads'[m] = NULL
               /\ threads[m] # NULL =>
                    /\ threads'[m].table = threads[m].table
                    /\ threads'[m].connected = threads[m].connected
                    /\ threads'[m].queue = threads[m].queue
    BY <2>1 DEF Thread
  <2>4. QED
    BY <1>6, <2>1, <2>2, <2>3
<1>9. CASE Tick
  BY <1>6, <1>9 DEF Tick
<1>10. CASE ListConnections
  <2>1. UNCHANGED vars /\ allocation' = allocation
    BY <1>10 DEF ListConnections
  <2>2. CASE \E n \in DOMAIN threads : threads[n] = NULL
    <3>1. threads' = threads /\ state' = "crashed"
      BY <1>10, <2>2 DEF ListConnections
    <3>2. QED
      BY <1>6, <2>1, <3>1
  <2>3. CASE ~ \E n \in DOMAIN threads : threads[n] = NULL
    <3>1. /\ threads' = [n \in DOMAIN threads |->
                           IF threads[n].connected THEN Counted(threads[n]) ELSE threads[n]]
          /\ state' = state
      BY <1>10, <2>3 DEF ListConnections
    <3>2. Len(threads') = Len(threads) /\ DOMAIN threads' = DOMAIN threads
      BY <1>2, <3>1
    <3>3. ASSUME NEW m \in DOMAIN threads
          PROVE  /\ threads[m] = NULL => threads'[m] = NULL
                 /\ threads[m] # NULL =>
                      /\ threads'[m].table = threads[m].table
                      /\ threads'[m].connected = threads[m].connected
                      /\ threads'[m].queue = threads[m].queue
      BY <1>2, <2>3, <3>1 DEF Counted, Thread
    <3>4. QED
      BY <1>6, <2>1, <3>1, <3>2, <3>3
  <2>4. QED
    BY <2>2, <2>3
<1>11. CASE UNCHANGED <<vars, connectionVars>>
  BY <1>6, <1>11 DEF connectionVars
<1>12. QED
  BY <1>4, <1>5, <1>7, <1>8, <1>9, <1>10, <1>11 DEF NextConnections

THEOREM QueuesInvariant ==
  ASSUME OneAddressHigh PROVE SpecConnections => []QueuesInv
<1>1. InitConnections => QueuesInv
  BY QueuesInit
<1>2. QueuesInv /\ [NextConnections]_<<vars, connectionVars>> => QueuesInv'
  BY QueuesStep
<1>3. QED
  BY <1>1, <1>2, PTL DEF SpecConnections

(* However many servers a client adds, and in whatever order, the priority  *)
(* of each is the number of different user priorities below its own         *)
(* (server_calc_priorities), if they lie in one region of 4 GB.             *)
THEOREM ServersPrioritiesDense ==
  ASSUME OneAddressHigh PROVE SpecConnections => []PrioritiesDense
<1>1. QueuesInv => PrioritiesDense
  <2> SUFFICES ASSUME QueuesInv PROVE PrioritiesDense
    OBVIOUS
  <2>1. PICK n : /\ userPriority \in [1 .. n -> Nat]
                 /\ Ranked(n, userPriority, priority)
    BY DEF QueuesInv, ServersInv, Registered
  <2>2. QED
    BY <2>1 DEF Ranked, Below, PrioritiesDense
<1>2. QED
  BY <1>1, QueuesInvariant, PTL

\* The table, spelled out.
LEMMA AscendingTable ==
  ASSUME QueuesInv, Ascending
  PROVE  \E n, top \in Nat :
           /\ n = Len(userPriority)
           /\ n > 0 => top = priority[n]
           /\ priority \in [1 .. n -> Nat]
           /\ DOMAIN table = 0 .. top
           /\ table[0] = 0
           /\ \A q \in 1 .. top : table[q] \in 1 .. n /\ priority[table[q]] = q
           /\ \A m \in 1 .. n : priority[m] \in 0 .. top
<1>1. PICK n \in Nat : /\ n = Len(userPriority)
                       /\ Ranked(n, userPriority, priority)
                       /\ Tabled(n, priority, table)
  BY DEF QueuesInv, ServersInv, Registered
<1>2. priority \in [1 .. n -> Nat]
  BY <1>1 DEF Ranked
<1>3. PICK top \in Nat :
        /\ n = 0 => top = 0
        /\ n > 0 => top = priority[n]
        /\ DOMAIN table = 0 .. top
        /\ table[0] = 0
        /\ \A q \in 1 .. top : table[q] \in 1 .. n /\ priority[table[q]] = q
        /\ \A m \in 1 .. n : priority[m] <= top
  BY <1>1 DEF Tabled
<1>4. \A m \in 1 .. n : priority[m] \in 0 .. top
  BY <1>2, <1>3
<1>5. QED
  BY <1>1, <1>2, <1>3, <1>4

(* If the servers lie in one region of 4 GB and are added in the order of   *)
(* their priorities, the table has a queue for every priority, each that of *)
(* a server of this priority, and the best servers have the main queue      *)
(* (nzb_fetch_add_server).                                                  *)
THEOREM ServersAscendingOrderWorks ==
  ASSUME OneAddressHigh PROVE SpecConnections => []AscendingOrderWorks
<1>1. QueuesInv => AscendingOrderWorks
  <2> SUFFICES ASSUME QueuesInv, Ascending
               PROVE  /\ TableReady
                      /\ table[0] = 0
                      /\ \A n \in DOMAIN table \ {0} : priority[table[n]] = n
    BY DEF AscendingOrderWorks
  <2>1. PICK n, top \in Nat :
          /\ priority \in [1 .. n -> Nat]
          /\ DOMAIN table = 0 .. top
          /\ table[0] = 0
          /\ \A q \in 1 .. top : table[q] \in 1 .. n /\ priority[table[q]] = q
          /\ \A m \in 1 .. n : priority[m] \in 0 .. top
    BY AscendingTable
  <2>2. \A q \in 0 .. top : q = 0 \/ q \in 1 .. top
    OBVIOUS
  <2>3. \A q \in 0 .. top : table[q] # Uninitialised
    BY <2>1, <2>2 DEF Uninitialised
  <2>4. TableReady
    BY <2>1, <2>3 DEF TableReady
  <2>5. QED
    BY <2>1, <2>2, <2>4
<1>2. QED
  BY <1>1, QueuesInvariant, PTL

(* When all servers lie in one region of 4 GB, were added in the order of   *)
(* their priorities before nzb_fetch_connect, and all have connected, each  *)
(* queue of the table is read by the threads of exactly the servers of its  *)
(* priority, and every queue by at least one (nzb_fetch_connect,            *)
(* nttp_process_queue).                                                     *)
THEOREM ServersEveryQueueIsRead ==
  ASSUME OneAddressHigh PROVE SpecConnections => []EveryQueueIsRead
<1>1. QueuesInv => EveryQueueIsRead
  <2> SUFFICES ASSUME QueuesInv, state = "connected", Ascending, AllConnected,
                      \A m \in DOMAIN threads : threads[m].connected,
                      NEW q \in DOMAIN table
               PROVE  LET readers == {m \in DOMAIN threads : threads[m].queue = table[q]}
                      IN readers = {m \in DOMAIN priority : priority[m] = q} /\ readers # {}
    BY DEF EveryQueueIsRead
  <2>1. PICK n, top \in Nat :
          /\ n = Len(userPriority)
          /\ n > 0 => top = priority[n]
          /\ priority \in [1 .. n -> Nat]
          /\ DOMAIN table = 0 .. top
          /\ table[0] = 0
          /\ \A r \in 1 .. top : table[r] \in 1 .. n /\ priority[table[r]] = r
          /\ \A m \in 1 .. n : priority[m] \in 0 .. top
    BY AscendingTable
  <2>2. DOMAIN threads = 1 .. n /\ n > 0
    BY <2>1 DEF QueuesInv, ConnectionsTypeOK
  <2>3. ASSUME NEW m \in 1 .. n PROVE threads[m].queue = table[priority[m]]
    <3>1. threads[m].table = allocation /\ threads[m].queue = QueueOf(m)
      BY <2>2 DEF QueuesInv
    <3>2. priority[m] \in DOMAIN table
      BY <2>1
    <3>3. QED
      BY <3>1, <3>2 DEF QueueOf
  <2>4. ASSUME NEW p \in 0 .. top, NEW r \in 0 .. top, table[p] = table[r]
        PROVE  p = r
    <3>1. CASE p = 0 /\ r # 0
      BY <2>1, <2>4, <3>1
    <3>2. CASE p # 0 /\ r = 0
      BY <2>1, <2>4, <3>2
    <3>3. CASE p # 0 /\ r # 0
      <4>1. p \in 1 .. top /\ r \in 1 .. top
        BY <3>3
      <4>2. QED
        BY <2>1, <2>4, <4>1
    <3>4. QED
      BY <3>1, <3>2, <3>3
  <2>5. {m \in DOMAIN threads : threads[m].queue = table[q]}
          = {m \in DOMAIN priority : priority[m] = q}
    <3>1. \A m \in 1 .. n : threads[m].queue = table[q] <=> priority[m] = q
      BY <2>1, <2>3, <2>4
    <3>2. DOMAIN priority = 1 .. n
      BY <2>1
    <3>3. QED
      BY <2>2, <3>1, <3>2
  <2>6. \E m \in 1 .. n : priority[m] = q
    <3>1. CASE q = 0
      <4>1. 1 \in 1 .. n
        BY <2>1, <2>2
      <4>2. priority[1] = 0
        <5>1. /\ Ranked(n, userPriority, priority)
              /\ userPriority \in [1 .. n -> Nat]
          BY <2>1 DEF QueuesInv, ServersInv, Registered
        <5>2. Range(userPriority) = {userPriority[m] : m \in 1 .. n}
          BY <5>1 DEF Range
        <5>3. \A m \in 1 .. n : userPriority[1] <= userPriority[m]
          <6> TAKE m \in 1 .. n
          <6>1. CASE m = 1
            BY <4>1, <5>1, <6>1
          <6>2. CASE m # 1
            BY <4>1, <5>1, <6>2 DEF Ascending
          <6>3. QED
            BY <6>1, <6>2
        <5>4. \A u \in Range(userPriority) : userPriority[1] <= u
          BY <5>2, <5>3
        <5>5. Range(userPriority) \in SUBSET Nat /\ userPriority[1] \in Nat
          BY <4>1, <5>1, <5>2
        <5>6. Below(Range(userPriority), userPriority[1]) = 0
          BY <5>4, <5>5, BelowLeast
        <5>7. QED
          BY <4>1, <5>1, <5>6 DEF Ranked
      <4>3. QED
        BY <3>1, <4>1, <4>2
    <3>2. CASE q # 0
      <4>1. q \in 1 .. top
        BY <2>1, <3>2
      <4>2. QED
        BY <2>1, <4>1
    <3>3. QED
      BY <3>1, <3>2
  <2>7. \E m \in DOMAIN priority : priority[m] = q
    BY <2>1, <2>6
  <2>8. QED
    BY <2>5, <2>7
<1>2. QED
  BY <1>1, QueuesInvariant, PTL

=============================================================================
