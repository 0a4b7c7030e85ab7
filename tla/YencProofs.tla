------------------------------ MODULE YencProofs ------------------------------
(***************************************************************************)
(* What yenc_decode makes of any article of any payload.                    *)
(***************************************************************************)
EXTENDS Yenc, Induction, SequenceTheorems

Word == SUBSET Ones

-----------------------------------------------------------------------------
(* The checksum.  A word stays one of 32 bits.                              *)
LEMMA XorType ==
  ASSUME NEW a \in Word, NEW b \in Word
  PROVE  Xor(a, b) \in Word
BY DEF Xor, Word

LEMMA ShiftType ==
  ASSUME NEW a \in Word, NEW n \in Nat
  PROVE  ShiftRight(a, n) \in Word
BY DEF ShiftRight, Word, Ones

LEMMA DivideType ==
  ASSUME NEW a \in Word
  PROVE  Divide(a) \in Word
<1>1. Polynomial \in Word
  BY DEF Polynomial, Word, Ones
<1>2. ShiftRight(a, 1) \in Word
  BY ShiftType
<1>3. Xor(ShiftRight(a, 1), Polynomial) \in Word
  BY <1>1, <1>2, XorType
<1>4. QED
  BY <1>2, <1>3 DEF Divide

LEMMA TabType ==
  ASSUME NEW a \in Word
  PROVE  Crc32Tab(a) \in Word
<1>1. \A b \in Word : DivideTwice(b) \in Word
  BY DivideType DEF DivideTwice
<1>2. QED
  BY <1>1 DEF Crc32Tab

LEMMA AddType ==
  ASSUME NEW crc \in Word, NEW byte
  PROVE  Crc32Add(crc, byte) \in Word
<1>1. Bits(byte) \in Word
  BY DEF Bits, Word, Ones
<1>2. Xor(crc, Bits(byte)) \in Word
  BY <1>1, XorType
<1>3. Xor(crc, Bits(byte)) \cap (0 .. 7) \in Word
  BY <1>2 DEF Word
<1>4. Crc32Tab(Xor(crc, Bits(byte)) \cap (0 .. 7)) \in Word
  BY <1>3, TabType
<1>5. ShiftRight(crc, 8) \in Word
  BY ShiftType
<1>6. QED
  BY <1>4, <1>5, XorType DEF Crc32Add

\* f[n] is the checksum behind n bytes.
Sums(f, crc, bytes, len) ==
  /\ f \in [0 .. len -> Word]
  /\ f[0] = crc
  /\ \A n \in 1 .. len : f[n] = Crc32Add(f[n-1], bytes[n])

LEMMA CrcLoop ==
  ASSUME NEW crc \in Word, NEW bytes, NEW len \in Nat, Len(bytes) = len
  PROVE  \E f : Sums(f, crc, bytes, len) /\ Crc32Over(crc, bytes) = f[len]
<1> DEFINE step == [n \in Nat |-> [c \in Word |-> Crc32Add(c, bytes[n])]]
           body(f) == [n \in 0 .. Len(bytes) |-> IF n = 0 THEN crc ELSE Crc32Add(f[n-1], bytes[n])]
           over == CHOOSE f : f = body(f)
<1>1. Steps(step, Word)
  BY AddType DEF Steps
<1>2. PICK f : Iterates(f, Word, crc, step, len)
  <2> HIDE DEF step
  <2>1. QED
    BY <1>1, Iteration, Zenon
<1>3. f = body(f)
  <2>1. f \in [0 .. len -> Word] /\ f[0] = crc
    BY <1>2 DEF Iterates
  <2>2. ASSUME NEW n \in 1 .. len PROVE f[n] = Crc32Add(f[n-1], bytes[n])
    <3>1. n \in Nat /\ f[n-1] \in Word
      BY <2>1
    <3>2. f[n] = step[n][f[n-1]]
      BY <1>2 DEF Iterates
    <3>3. QED
      BY <3>1, <3>2, Zenon
  <2>3. \A n \in 0 .. len : f[n] = IF n = 0 THEN crc ELSE Crc32Add(f[n-1], bytes[n])
    BY <2>1, <2>2
  <2>4. f = [n \in 0 .. len |-> f[n]]
    BY <2>1
  <2>5. QED
    BY <2>3, <2>4
<1>4. over = body(over)
  <2> HIDE DEF body
  <2>1. QED
    BY <1>3
<1>5. Crc32Over(crc, bytes) = over[len]
  BY Zenon DEF Crc32Over
<1>6. over \in [0 .. len -> Word]
  <2> DEFINE K == {n \in Nat : n > len \/ over[n] \in Word}
             g == over
  <2>1. g = body(g)
    BY <1>4
  <2> HIDE DEF over, g
  <2>2. 0 \in {n \in Nat : n > len \/ g[n] \in Word}
    BY <2>1
  <2>3. ASSUME NEW n \in 0 .. len - 1, n \in {k \in Nat : k > len \/ g[k] \in Word}
        PROVE  n + 1 \in {k \in Nat : k > len \/ g[k] \in Word}
    <3>1. g[n] \in Word /\ n + 1 \in 1 .. len /\ (n + 1) - 1 = n
      BY <2>3
    <3>2. g[n + 1] = Crc32Add(g[n], bytes[n + 1])
      BY <2>1, <3>1
    <3>3. QED
      BY <3>1, <3>2, AddType
  <2>4. 0 .. len \subseteq {n \in Nat : n > len \/ g[n] \in Word}
    BY <2>2, <2>3, BoundedInduction
  <2>5. \A n \in 0 .. len : g[n] \in Word
    BY <2>4
  <2>6. g = [n \in 0 .. len |-> g[n]]
    BY <2>1
  <2>7. QED
    BY <2>5, <2>6 DEF g
<1>7. over[0] = crc /\ \A n \in 1 .. len : over[n] = Crc32Add(over[n-1], bytes[n])
  <2> DEFINE g == over
  <2>1. g = body(g)
    BY <1>4
  <2> HIDE DEF over, g
  <2>2. g[0] = crc /\ \A n \in 1 .. len : g[n] = Crc32Add(g[n-1], bytes[n])
    BY <2>1
  <2>3. QED
    BY <2>2 DEF g
<1> HIDE DEF over
<1>8. Sums(over, crc, bytes, len)
  BY <1>6, <1>7 DEF Sums
<1>9. QED
  BY <1>5, <1>8

LEMMA CrcType ==
  ASSUME NEW crc \in Word, NEW S, NEW bytes \in Seq(S)
  PROVE  Crc32Over(crc, bytes) \in Word
<1>1. PICK len \in Nat : Len(bytes) = len
  OBVIOUS
<1>2. PICK f : Sums(f, crc, bytes, len) /\ Crc32Over(crc, bytes) = f[len]
  BY <1>1, CrcLoop
<1>3. QED
  BY <1>1, <1>2 DEF Sums

\* Sum f begins at byte `from' of a like g at the first of b, and goes on over
\* the same bytes.
Alike(f, g, from, len, a, b) ==
  /\ f[from] = g[0]
  /\ \A n \in 1 .. len : f[from + n] = Crc32Add(f[from + n - 1], a[from + n])
  /\ \A n \in 1 .. len : g[n] = Crc32Add(g[n-1], b[n])
  /\ \A n \in 1 .. len : a[from + n] = b[n]

LEMMA SumsAgree ==
  ASSUME NEW f, NEW g, NEW from \in Nat, NEW len \in Nat, NEW a, NEW b,
         Alike(f, g, from, len, a, b)
  PROVE  f[from + len] = g[len]
<1> USE DEF Alike
<1> DEFINE K == {n \in Nat : n > len \/ f[from + n] = g[n]}
<1>1. 0 \in K
  <2>1. from + 0 = from
    OBVIOUS
  <2>2. QED
    BY <2>1
<1>2. ASSUME NEW n \in 0 .. len - 1, n \in K
      PROVE  n + 1 \in K
  <2>1. /\ n + 1 \in 1 .. len /\ (n + 1) - 1 = n /\ from + (n + 1) - 1 = from + n
        /\ f[from + n] = g[n]
    BY <1>2
  <2>2. f[from + (n + 1)] = Crc32Add(f[from + n], a[from + (n + 1)])
    BY <2>1
  <2>3. g[n + 1] = Crc32Add(g[n], b[n + 1]) /\ a[from + (n + 1)] = b[n + 1]
    BY <2>1
  <2>4. QED
    BY <2>1, <2>2, <2>3
<1>3. 0 .. len \subseteq K
  <2> HIDE DEF K
  <2>1. QED
    BY <1>1, <1>2, BoundedInduction
<1>4. QED
  BY <1>3

(* The checksum of two pieces, one behind the other.                        *)
LEMMA CrcConcat ==
  ASSUME NEW crc \in Word, NEW S, NEW a \in Seq(S), NEW b \in Seq(S)
  PROVE  Crc32Over(crc, a \o b) = Crc32Over(Crc32Over(crc, a), b)
<1>1. PICK m \in Nat, n \in Nat : Len(a) = m /\ Len(b) = n
  OBVIOUS
<1>2. PICK c : c = a \o b
  OBVIOUS
<1>3. /\ Len(c) = m + n /\ m + n \in Nat
      /\ \A i \in 1 .. m : c[i] = a[i]
      /\ \A i \in 1 .. n : c[m + i] = b[i]
  <2>1. Len(c) = m + n
    BY <1>1, <1>2
  <2>2. \A i \in 1 .. m + n : c[i] = IF i <= m THEN a[i] ELSE b[i - m]
    BY <1>1, <1>2
  <2>3. QED
    BY <2>1, <2>2
<1>4. PICK f : Sums(f, crc, a, m) /\ Crc32Over(crc, a) = f[m]
  BY <1>1, CrcLoop
<1>5. f[m] \in Word
  BY <1>4 DEF Sums
<1>6. PICK g : Sums(g, f[m], b, n) /\ Crc32Over(f[m], b) = g[n]
  BY <1>1, <1>5, CrcLoop
<1>7. PICK h : Sums(h, crc, c, m + n) /\ Crc32Over(crc, c) = h[m + n]
  BY <1>3, CrcLoop
<1>8. h[m] = f[m]
  <2>1. h[0] = f[0]
    BY <1>4, <1>7 DEF Sums
  <2>2. /\ \A i \in 1 .. m : h[0 + i] = Crc32Add(h[0 + i - 1], c[0 + i])
        /\ \A i \in 1 .. m : f[i] = Crc32Add(f[i-1], a[i])
        /\ \A i \in 1 .. m : c[0 + i] = a[i]
    BY <1>3, <1>4, <1>7 DEF Sums
  <2>3. Alike(h, f, 0, m, c, a)
    BY <2>1, <2>2 DEF Alike
  <2>4. h[0 + m] = f[m]
    BY <2>3, SumsAgree
  <2>5. QED
    BY <2>4
<1>9. h[m + n] = g[n]
  <2>1. h[m] = g[0]
    BY <1>6, <1>8 DEF Sums
  <2>2. /\ \A i \in 1 .. n : h[m + i] = Crc32Add(h[m + i - 1], c[m + i])
        /\ \A i \in 1 .. n : g[i] = Crc32Add(g[i-1], b[i])
    BY <1>3, <1>6, <1>7 DEF Sums
  <2>3. Alike(h, g, m, n, c, b)
    BY <1>3, <2>1, <2>2 DEF Alike
  <2>4. QED
    BY <2>3, SumsAgree
<1>10. QED
  BY <1>2, <1>4, <1>6, <1>7, <1>9

LEMMA CrcNothing ==
  ASSUME NEW crc \in Word
  PROVE  Crc32Over(crc, <<>>) = crc
<1>1. PICK f : Sums(f, crc, <<>>, 0) /\ Crc32Over(crc, <<>>) = f[0]
  BY CrcLoop
<1>2. QED
  BY <1>1 DEF Sums

-----------------------------------------------------------------------------
(* The loop over a line.                                                    *)
Octet == 0 .. 255

\* Where the loop is, and what it has written.
Place == [i : Nat \ {0}, out : Seq(Octet)]

LEMMA OctetMod ==
  ASSUME NEW n \in Int
  PROVE  n % 256 \in Octet
BY DEF Octet

LEMMA OctetInt ==
  ASSUME NEW c \in Octet
  PROVE  c - 64 - 42 \in Int /\ c - 42 \in Int
BY DEF Octet

LEMMA AtType ==
  ASSUME NEW line \in Seq(Octet), NEW n \in Nat \ {0}
  PROVE  At(line, n) \in Octet
<1>1. PICK len \in Nat : len = Len(line)
  OBVIOUS
<1>2. CASE n <= len
  <2>1. n \in 1 .. Len(line)
    BY <1>1, <1>2
  <2>2. line[n] \in Octet
    BY <2>1, ElementOfSeq
  <2>3. QED
    BY <1>1, <1>2, <2>2 DEF At
<1>3. CASE ~ (n <= len)
  BY <1>1, <1>3 DEF At, Octet
<1>4. QED
  BY <1>2, <1>3

LEMMA AppendOctet ==
  ASSUME NEW out \in Seq(Octet), NEW byte \in Octet
  PROVE  Append(out, byte) \in Seq(Octet) /\ Append(out, byte) # <<>>
BY AppendProperties

LEMMA TurnType ==
  ASSUME NEW line \in Seq(Octet), NEW length \in Int, NEW s \in Place
  PROVE  /\ Turn(line, length, s) \in Place
         /\ s.out # <<>> => Turn(line, length, s).out # <<>>
<1>1. s.i \in Nat \ {0} /\ s.out \in Seq(Octet) /\ s = [i |-> s.i, out |-> s.out]
  BY DEF Place
<1>2. \A n \in Nat \ {0} : At(line, n) \in Octet
  BY AtType
<1>3. CASE s.i > Limit(line, length) \/ At(line, s.i) = 0
  BY <1>3 DEF Turn
<1>4. CASE ~ (s.i > Limit(line, length) \/ At(line, s.i) = 0)
  <2>1. CASE s.i = 1 /\ DotDoubled(line)
    <3>1. Turn(line, length, s) = [s EXCEPT !.i = 2]
      BY <1>4, <2>1 DEF Turn
    <3>2. Turn(line, length, s) = [i |-> 2, out |-> s.out]
      BY <1>1, <3>1
    <3>3. QED
      BY <1>1, <3>2 DEF Place
  <2>2. CASE ~ (s.i = 1 /\ DotDoubled(line)) /\ At(line, s.i) = 61
    <3>1. PICK byte : byte = (At(line, s.i + 1) - 64 - 42) % 256
      OBVIOUS
    <3>2. byte \in Octet /\ s.i + 2 \in Nat \ {0}
      <4>1. s.i + 1 \in Nat \ {0} /\ s.i + 2 \in Nat \ {0}
        BY <1>1
      <4>2. At(line, s.i + 1) - 64 - 42 \in Int
        BY <1>2, <4>1, OctetInt
      <4>3. QED
        BY <3>1, <4>1, <4>2, OctetMod
    <3>3. Turn(line, length, s) = [i |-> s.i + 2, out |-> Append(s.out, byte)]
      BY <1>4, <2>2, <3>1, Zenon DEF Turn
    <3>4. Append(s.out, byte) \in Seq(Octet) /\ Append(s.out, byte) # <<>>
      BY <1>1, <3>2, AppendOctet
    <3>5. QED
      BY <3>2, <3>3, <3>4 DEF Place
  <2>3. CASE ~ (s.i = 1 /\ DotDoubled(line)) /\ At(line, s.i) # 61
    <3>1. PICK byte : byte = (At(line, s.i) - 42) % 256
      OBVIOUS
    <3>2. byte \in Octet /\ s.i + 1 \in Nat \ {0}
      <4>1. s.i + 1 \in Nat \ {0}
        BY <1>1
      <4>2. At(line, s.i) - 42 \in Int
        BY <1>1, <1>2, OctetInt
      <4>3. QED
        BY <3>1, <4>1, <4>2, OctetMod
    <3>3. Turn(line, length, s) = [i |-> s.i + 1, out |-> Append(s.out, byte)]
      BY <1>4, <2>3, <3>1, Zenon DEF Turn
    <3>4. Append(s.out, byte) \in Seq(Octet) /\ Append(s.out, byte) # <<>>
      BY <1>1, <3>2, AppendOctet
    <3>5. QED
      BY <3>2, <3>3, <3>4 DEF Place
  <2>4. QED
    BY <2>1, <2>2, <2>3
<1>5. QED
  BY <1>3, <1>4

Start == [i |-> 1, out |-> <<>>]

\* f[n] is where n turns lead.
Turns(f, line, length, len) ==
  /\ f \in [0 .. len -> Place]
  /\ f[0] = Start
  /\ \A n \in 1 .. len : f[n] = Turn(line, length, f[n-1])

LEMMA DecodeLoop ==
  ASSUME NEW line \in Seq(Octet), NEW length \in Int, NEW len \in Nat, Len(line) = len
  PROVE  \E f : Turns(f, line, length, len) /\ DecodeLine(line, length) = f[len].out
<1> DEFINE step == [n \in Nat |-> [s \in Place |-> Turn(line, length, s)]]
           body(f) == [n \in 0 .. Len(line) |->
                         IF n = 0 THEN Start ELSE Turn(line, length, f[n-1])]
           loop == CHOOSE f : f = body(f)
<1>1. Steps(step, Place)
  BY TurnType DEF Steps
<1>2. Start \in Place
  BY DEF Start, Place
<1>3. PICK f : Iterates(f, Place, Start, step, len)
  <2> HIDE DEF step
  <2>1. QED
    BY <1>1, <1>2, Iteration, Zenon
<1>4. f = body(f)
  <2>1. f \in [0 .. len -> Place] /\ f[0] = Start
    BY <1>3 DEF Iterates
  <2>2. ASSUME NEW n \in 1 .. len PROVE f[n] = Turn(line, length, f[n-1])
    <3>1. n \in Nat /\ f[n-1] \in Place
      BY <2>1
    <3>2. f[n] = step[n][f[n-1]]
      BY <1>3 DEF Iterates
    <3>3. QED
      BY <3>1, <3>2, Zenon
  <2>3. \A n \in 0 .. len : f[n] = IF n = 0 THEN Start ELSE Turn(line, length, f[n-1])
    BY <2>1, <2>2
  <2>4. f = [n \in 0 .. len |-> f[n]]
    BY <2>1
  <2>5. QED
    BY <2>3, <2>4
<1>5. loop = body(loop)
  <2> HIDE DEF body
  <2>1. QED
    BY <1>4
<1>6. DecodeLine(line, length) = loop[len].out
  BY Zenon DEF DecodeLine, Start
<1>7. PICK g : g = loop
  OBVIOUS
<1>8. g = [n \in 0 .. len |-> IF n = 0 THEN Start ELSE Turn(line, length, g[n-1])]
  BY <1>5, <1>7
<1> HIDE DEF loop
<1>9. g[0] = Start /\ \A n \in 1 .. len : g[n] = Turn(line, length, g[n-1])
  BY <1>8
<1>10. ASSUME NEW n \in 0 .. len PROVE g[n] \in Place
  <2> DEFINE K == {m \in Nat : m > len \/ g[m] \in Place}
  <2>1. 0 \in K
    BY <1>2, <1>9
  <2>2. ASSUME NEW m \in 0 .. len - 1, m \in K
        PROVE  m + 1 \in K
    <3>1. g[m] \in Place /\ m + 1 \in 1 .. len /\ (m + 1) - 1 = m
      BY <2>2
    <3>2. g[m + 1] = Turn(line, length, g[m])
      BY <1>9, <3>1
    <3>3. QED
      BY <3>1, <3>2, TurnType
  <2>3. 0 .. len \subseteq K
    <3> HIDE DEF K
    <3>1. QED
      BY <2>1, <2>2, BoundedInduction
  <2>4. QED
    BY <2>3
<1>11. Turns(g, line, length, len)
  <2>1. g \in [0 .. len -> Place]
    BY <1>8, <1>10
  <2>2. QED
    BY <1>9, <2>1 DEF Turns
<1>12. QED
  BY <1>6, <1>7, <1>11

(* A line with a character, not NUL, yields a byte at least.                *)
LEMMA DecodesSome ==
  ASSUME NEW line \in Seq(Octet), line # <<>>, line[1] # 0,
         NEW length \in Int, length = -1 \/ length > 0
  PROVE  DecodeLine(line, length) \in Seq(Octet) /\ DecodeLine(line, length) # <<>>
<1>1. PICK len \in Nat \ {0} : Len(line) = len
  BY EmptySeq
<1>2. PICK f : Turns(f, line, length, len) /\ DecodeLine(line, length) = f[len].out
  BY <1>1, DecodeLoop
<1>3. /\ f \in [0 .. len -> Place] /\ f[0] = Start
      /\ \A n \in 1 .. len : f[n] = Turn(line, length, f[n-1])
  BY <1>2 DEF Turns
<1>4. \A n \in 1 .. len : n <= 2 => n <= Limit(line, length)
  BY <1>1 DEF Limit
<1>5. \A n \in 1 .. len : At(line, n) = line[n]
  BY <1>1 DEF At
<1>6. f[1] = Turn(line, length, Start)
  BY <1>3
<1>7. PICK k \in 1 .. len : f[k].out # <<>>
  <2>1. CASE DotDoubled(line)
    <3>1. len >= 2 /\ At(line, 1) = 46 /\ At(line, 2) = 46 /\ 1 \in 1 .. len /\ 2 \in 1 .. len
      BY <1>1, <1>5, <2>1 DEF DotDoubled
    <3>2. ~ (1 > Limit(line, length)) /\ ~ (2 > Limit(line, length))
      BY <1>4, <3>1 DEF Limit
    <3>3. f[1] = [i |-> 2, out |-> <<>>]
      BY <1>6, <2>1, <3>1, <3>2 DEF Turn, Start
    <3>4. f[2] = Turn(line, length, f[1])
      BY <1>3, <3>1
    <3>5. f[2] = [i |-> 3, out |-> Append(<<>>, (46 - 42) % 256)]
      BY <3>1, <3>2, <3>3, <3>4 DEF Turn
    <3>6. f[2].out # <<>>
      BY <3>5
    <3>7. QED
      BY <3>1, <3>6
  <2>2. CASE ~ DotDoubled(line)
    <3>1. 1 \in 1 .. len /\ At(line, 1) # 0
      BY <1>1, <1>5
    <3>2. ~ (1 > Limit(line, length))
      BY <1>4, <3>1 DEF Limit
    <3>3. PICK byte : f[1].out = Append(<<>>, byte)
      BY <1>6, <2>2, <3>1, <3>2 DEF Turn, Start
    <3>4. <<>> \in Seq({byte}) /\ byte \in {byte}
      OBVIOUS
    <3>5. Append(<<>>, byte) # <<>>
      BY <3>4, AppendProperties
    <3>6. QED
      BY <3>1, <3>3, <3>5
  <2>3. QED
    BY <2>1, <2>2
<1>8. f[len].out # <<>>
  <2> DEFINE K == {n \in Nat : n > len - k \/ f[k + n].out # <<>>}
  <2>1. 0 \in K
    BY <1>7
  <2>2. ASSUME NEW n \in 0 .. len - k - 1, n \in K
        PROVE  n + 1 \in K
    <3>1. k + n \in 0 .. len /\ k + (n + 1) \in 1 .. len /\ (k + (n + 1)) - 1 = k + n
      BY <1>7
    <3>2. f[k + n] \in Place /\ f[k + n].out # <<>>
      BY <1>3, <2>2, <3>1
    <3>3. f[k + (n + 1)] = Turn(line, length, f[k + n])
      BY <1>3, <3>1
    <3>4. f[k + (n + 1)].out # <<>>
      BY <3>2, <3>3, TurnType
    <3>5. QED
      BY <3>4
  <2>3. len - k \in Nat /\ len - k \in 0 .. len - k /\ k + (len - k) = len
    BY <1>7
  <2>4. 0 .. len - k \subseteq K
    <3> HIDE DEF K
    <3>1. QED
      BY <2>1, <2>2, <2>3, BoundedInduction
  <2>5. QED
    BY <2>3, <2>4
<1>9. f[len] \in Place
  BY <1>3
<1>10. QED
  BY <1>2, <1>8, <1>9 DEF Place

-----------------------------------------------------------------------------
(* How a byte is written.                                                   *)
Code(byte) == (byte + 42) % 256
Special(byte) == Code(byte) \in {0, 10, 13, 61}
Wide(byte) == IF Special(byte) THEN 2 ELSE 1

\* Byte is written from character p of a line on.
WrittenAt(line, p, byte) ==
  /\ line[p] # 0
  /\ Special(byte) => /\ line[p] = 61
                      /\ line[p + 1] # 0
                      /\ (line[p + 1] - 64 - 42) % 256 = byte
  /\ ~ Special(byte) => line[p] # 61 /\ (line[p] - 42) % 256 = byte

LEMMA EscapedByte ==
  ASSUME NEW byte \in Octet
  PROVE  /\ Escaped(byte) \in Seq(Octet)
         /\ Len(Escaped(byte)) = Wide(byte)
         /\ WrittenAt(Escaped(byte), 1, byte)
<1>1. Code(byte) \in Octet /\ (Code(byte) - 42) % 256 = byte
  BY DEF Code, Octet
<1>2. CASE Special(byte)
  <2>1. PICK c : c = (Code(byte) + 64) % 256
    OBVIOUS
  <2>2. c = Code(byte) + 64 /\ c \in Octet /\ c # 0
    BY <1>2, <2>1 DEF Special, Octet
  <2>3. Escaped(byte) = <<61, c>>
    BY <1>2, <2>1 DEF Escaped, Special, Code
  <2>4. (c - 64 - 42) % 256 = byte
    <3>1. c - 64 - 42 = Code(byte) - 42
      BY <1>1, <2>2 DEF Octet
    <3>2. QED
      BY <1>1, <3>1
  <2>5. <<61, c>> \in Seq(Octet) /\ Len(<<61, c>>) = 2
    BY <2>2 DEF Octet
  <2>6. QED
    BY <1>2, <2>2, <2>3, <2>4, <2>5 DEF Wide, WrittenAt
<1>3. CASE ~ Special(byte)
  <2>1. Escaped(byte) = <<Code(byte)>>
    BY <1>3 DEF Escaped, Special, Code
  <2>2. Code(byte) # 0 /\ Code(byte) # 61
    BY <1>3 DEF Special
  <2>3. <<Code(byte)>> \in Seq(Octet) /\ Len(<<Code(byte)>>) = 1
    BY <1>1
  <2>4. QED
    BY <1>1, <1>3, <2>1, <2>2, <2>3 DEF Wide, WrittenAt
<1>4. QED
  BY <1>2, <1>3

\* The loop is at a byte that is written in the line, within its limit, and
\* not at a doubled dot.
Faces(line, length, s, byte) ==
  /\ line \in Seq(Octet) /\ length \in Int /\ s \in Place /\ byte \in Octet
  /\ s.i + Wide(byte) - 1 <= Len(line) /\ WrittenAt(line, s.i, byte)
  /\ s.i <= Limit(line, length) /\ ~ (s.i = 1 /\ DotDoubled(line))

(* A turn of the loop reads a byte.                                         *)
LEMMA TurnReads ==
  ASSUME NEW line, NEW length, NEW s, NEW byte, Faces(line, length, s, byte)
  PROVE  Turn(line, length, s) = [i |-> s.i + Wide(byte), out |-> Append(s.out, byte)]
<1>1. /\ line \in Seq(Octet) /\ length \in Int /\ s \in Place /\ byte \in Octet
      /\ s.i + Wide(byte) - 1 <= Len(line) /\ WrittenAt(line, s.i, byte)
      /\ s.i <= Limit(line, length) /\ ~ (s.i = 1 /\ DotDoubled(line))
  BY DEF Faces
<1>2. PICK len \in Nat : Len(line) = len
  BY <1>1
<1>3. s.i \in Nat \ {0}
  BY <1>1 DEF Place
<1>4. Limit(line, length) \in Int
  BY <1>1, <1>2 DEF Limit
<1>5. ~ (s.i > Limit(line, length))
  BY <1>1, <1>3, <1>4
<1>6. CASE Special(byte)
  <2>1. At(line, s.i) = line[s.i] /\ At(line, s.i + 1) = line[s.i + 1]
    BY <1>1, <1>2, <1>3, <1>6 DEF At, Wide
  <2>2. At(line, s.i) # 0 /\ At(line, s.i) = 61 /\ (At(line, s.i + 1) - 64 - 42) % 256 = byte
    BY <1>1, <1>6, <2>1 DEF WrittenAt
  <2>3. Turn(line, length, s) = [i |-> s.i + 2, out |-> Append(s.out, byte)]
    BY <1>1, <1>5, <2>2, Zenon DEF Turn
  <2>4. QED
    BY <1>6, <2>3 DEF Wide
<1>7. CASE ~ Special(byte)
  <2>1. At(line, s.i) = line[s.i]
    BY <1>1, <1>2, <1>3, <1>7 DEF At, Wide
  <2>2. At(line, s.i) # 0 /\ At(line, s.i) # 61 /\ (At(line, s.i) - 42) % 256 = byte
    BY <1>1, <1>7, <2>1 DEF WrittenAt
  <2>3. Turn(line, length, s) = [i |-> s.i + 1, out |-> Append(s.out, byte)]
    BY <1>1, <1>5, <2>2, Zenon DEF Turn
  <2>4. QED
    BY <1>7, <2>3 DEF Wide
<1>8. QED
  BY <1>6, <1>7

-----------------------------------------------------------------------------
(* The decoding of a line.                                                  *)
Part(bytes, lo, k) == SubSeq(bytes, lo + 1, lo + k)

LEMMA PartFacts ==
  ASSUME NEW S, NEW bytes \in Seq(S), NEW lo \in Nat, NEW k \in Nat, lo + k <= Len(bytes)
  PROVE  /\ Part(bytes, lo, k) \in Seq(S)
         /\ Len(Part(bytes, lo, k)) = k
         /\ \A j \in 1 .. k : Part(bytes, lo, k)[j] = bytes[lo + j]
<1>1. PICK len \in Nat : Len(bytes) = len
  OBVIOUS
<1>2. /\ lo + 1 \in Int /\ lo + k \in Int /\ lo + k - (lo + 1) + 1 = k
      /\ \A j \in 1 .. k : lo + 1 + j - 1 = lo + j
  OBVIOUS
<1>3. \A i \in lo + 1 .. lo + k : bytes[i] \in S
  BY <1>1, ElementOfSeq
<1>4. /\ SubSeq(bytes, lo + 1, lo + k) \in Seq(S)
      /\ Len(SubSeq(bytes, lo + 1, lo + k)) = IF lo + 1 <= lo + k THEN lo + k - (lo + 1) + 1 ELSE 0
      /\ \A j \in 1 .. lo + k - (lo + 1) + 1 :
           SubSeq(bytes, lo + 1, lo + k)[j] = bytes[lo + 1 + j - 1]
  BY <1>2, <1>3, SubSeqProperties
<1>5. QED
  BY <1>2, <1>4 DEF Part

LEMMA PartNext ==
  ASSUME NEW S, NEW bytes \in Seq(S), NEW lo \in Nat, NEW k \in Nat, lo + k + 1 <= Len(bytes)
  PROVE  Append(Part(bytes, lo, k), bytes[lo + k + 1]) = Part(bytes, lo, k + 1)
<1>1. PICK len \in Nat : Len(bytes) = len
  OBVIOUS
<1>2. PICK u, v : u = Part(bytes, lo, k) /\ v = Part(bytes, lo, k + 1)
  OBVIOUS
<1>3. u \in Seq(S) /\ Len(u) = k /\ \A j \in 1 .. k : u[j] = bytes[lo + j]
  <2>1. lo + k <= Len(bytes)
    BY <1>1
  <2>2. QED
    BY <1>2, <2>1, PartFacts
<1>4. v \in Seq(S) /\ Len(v) = k + 1 /\ \A j \in 1 .. k + 1 : v[j] = bytes[lo + j]
  <2>1. k + 1 \in Nat /\ lo + (k + 1) <= Len(bytes)
    BY <1>1
  <2>2. QED
    BY <1>2, <2>1, PartFacts
<1>5. bytes[lo + k + 1] \in S
  BY <1>1, ElementOfSeq
<1>6. PICK w : w = Append(u, bytes[lo + k + 1])
  OBVIOUS
<1>7. /\ w \in Seq(S) /\ Len(w) = k + 1 /\ w[k + 1] = bytes[lo + k + 1]
      /\ \A j \in 1 .. k : w[j] = u[j]
  BY <1>3, <1>5, <1>6, AppendProperties
<1>8. ASSUME NEW j \in 1 .. k + 1 PROVE w[j] = v[j]
  <2>1. CASE j = k + 1
    <3>1. lo + (k + 1) = lo + k + 1 /\ k + 1 \in 1 .. k + 1
      OBVIOUS
    <3>2. QED
      BY <1>4, <1>7, <2>1, <3>1
  <2>2. CASE j # k + 1
    <3>1. j \in 1 .. k
      BY <2>2
    <3>2. QED
      BY <1>3, <1>4, <1>7, <3>1
  <2>3. QED
    BY <2>1, <2>2
<1>9. w = v
  BY <1>4, <1>7, <1>8, SeqEqual
<1>10. QED
  BY <1>2, <1>6, <1>9

\* Line text holds cnt bytes, those behind byte lo; behind byte k of them pos[k]
\* characters are full.
Written(text, pos, lo, cnt, bytes, length) ==
  /\ text \in Seq(Octet)
  /\ lo \in Nat /\ cnt \in Nat \ {0} /\ lo + cnt <= Len(bytes)
  /\ pos \in [0 .. cnt -> Nat]
  /\ pos[0] = 0 /\ pos[cnt] = Len(text)
  /\ \A k \in 1 .. cnt :
       /\ pos[k - 1] < length
       /\ pos[k] = pos[k - 1] + Wide(bytes[lo + k])
       /\ k <= pos[k] /\ pos[k] <= Len(text)
       /\ WrittenAt(text, pos[k - 1] + 1, bytes[lo + k])

\* A line as it is sent: d characters come before the text.
Sent(line, text, d) ==
  /\ line \in Seq(Octet)
  /\ Len(line) = d + Len(text)
  /\ \A i \in 1 .. Len(text) : line[d + i] = text[i]
  /\ \/ d = 1 /\ DotDoubled(line)
     \/ d = 0 /\ ~ DotDoubled(line)

LEMMA DottedSent ==
  ASSUME NEW text \in Seq(Octet), text # <<>>
  PROVE  \E d \in {0, 1} : Sent(Dotted(text), text, d)
<1>1. PICK len \in Nat \ {0} : Len(text) = len
  BY EmptySeq
<1>2. CASE text[1] = 46
  <2>1. PICK line : line = <<46>> \o text
    OBVIOUS
  <2>2. <<46>> \in Seq(Octet) /\ Len(<<46>>) = 1 /\ <<46>>[1] = 46
    BY DEF Octet
  <2>3. /\ line \in Seq(Octet) /\ Len(line) = 1 + len
        /\ \A i \in 1 .. 1 + len : line[i] = IF i <= 1 THEN <<46>>[i] ELSE text[i - 1]
    BY <1>1, <2>1, <2>2, ConcatProperties
  <2>4. ASSUME NEW i \in 1 .. len PROVE line[1 + i] = text[i]
    <3>1. 1 + i \in 1 .. 1 + len /\ ~ (1 + i <= 1) /\ (1 + i) - 1 = i
      OBVIOUS
    <3>2. QED
      BY <2>3, <3>1
  <2>5. line[1] = 46 /\ line[2] = 46 /\ Len(line) >= 2
    <3>1. 1 \in 1 .. 1 + len /\ 1 \in 1 .. len /\ 1 + 1 = 2
      BY <1>1
    <3>2. QED
      BY <1>1, <1>2, <2>2, <2>3, <2>4, <3>1
  <2>6. Sent(line, text, 1)
    BY <1>1, <2>3, <2>4, <2>5 DEF Sent, DotDoubled
  <2>7. QED
    BY <1>2, <2>1, <2>6 DEF Dotted
<1>3. CASE text[1] # 46
  <2>1. Dotted(text) = text
    BY <1>3 DEF Dotted
  <2>2. Sent(text, text, 0)
    BY <1>1, <1>3 DEF Sent, DotDoubled
  <2>3. QED
    BY <2>1, <2>2
<1>4. QED
  BY <1>2, <1>3

\* Where the loop is behind k bytes of a line that is sent with d characters more.
After(pos, d, bytes, lo, k) == [i |-> d + pos[k] + 1, out |-> Part(bytes, lo, k)]

\* One byte more.
LEMMA ReadsByte ==
  ASSUME NEW bytes \in Seq(Octet), NEW text, NEW pos, NEW lo, NEW cnt,
         NEW length \in Nat \ {0}, Written(text, pos, lo, cnt, bytes, length),
         NEW line, NEW d \in {0, 1}, Sent(line, text, d),
         NEW told \in {-1, length}, NEW k \in 0 .. cnt - 1
  PROVE  Turn(line, told, After(pos, d, bytes, lo, k)) = After(pos, d, bytes, lo, k + 1)
<1> DEFINE s == After(pos, d, bytes, lo, k)
           byte == bytes[lo + k + 1]
<1>1. PICK len \in Nat, all \in Nat : Len(text) = len /\ Len(bytes) = all
  BY DEF Written
<1>2. /\ lo \in Nat /\ cnt \in Nat /\ lo + cnt <= all /\ k \in Nat
      /\ k + 1 \in 1 .. cnt /\ (k + 1) - 1 = k /\ lo + (k + 1) = lo + k + 1
      /\ pos \in [0 .. cnt -> Nat]
  BY <1>1 DEF Written
<1>3. /\ pos[k] \in Nat /\ pos[k + 1] \in Nat
      /\ pos[k] < length
      /\ pos[k + 1] = pos[k] + Wide(byte)
      /\ pos[k + 1] <= len
      /\ WrittenAt(text, pos[k] + 1, byte)
  <2>1. \A q \in 1 .. cnt : /\ pos[q - 1] < length
                            /\ pos[q] = pos[q - 1] + Wide(bytes[lo + q])
                            /\ pos[q] <= len
                            /\ WrittenAt(text, pos[q - 1] + 1, bytes[lo + q])
    BY <1>1, Zenon DEF Written
  <2>2. k \in 0 .. cnt /\ k + 1 \in 0 .. cnt
    BY <1>2
  <2>3. pos[k] \in Nat /\ pos[k + 1] \in Nat
    BY <1>2, <2>2
  <2>4. QED
    BY <1>2, <2>1, <2>3, Zenon
<1>4. byte \in Octet
  <2>1. lo + k + 1 \in 1 .. Len(bytes)
    BY <1>1, <1>2
  <2>2. QED
    BY <2>1, ElementOfSeq
<1>5. Wide(byte) \in {1, 2} /\ (Special(byte) => Wide(byte) = 2)
  BY DEF Wide
<1>6. /\ line \in Seq(Octet) /\ Len(line) = d + len
      /\ \A i \in 1 .. len : line[d + i] = text[i]
      /\ d = 0 => ~ DotDoubled(line)
  BY <1>1 DEF Sent
<1>7. WrittenAt(line, d + pos[k] + 1, byte)
  <2>1. /\ pos[k] + 1 \in 1 .. len /\ d + (pos[k] + 1) = d + pos[k] + 1
        /\ Special(byte) => /\ pos[k] + 1 + 1 \in 1 .. len
                            /\ d + (pos[k] + 1 + 1) = d + pos[k] + 1 + 1
    BY <1>1, <1>3, <1>5
  <2>2. /\ line[d + pos[k] + 1] = text[pos[k] + 1]
        /\ Special(byte) => line[d + pos[k] + 1 + 1] = text[pos[k] + 1 + 1]
    <3>1. \A j : \A i \in 1 .. len : d + i = j => line[j] = text[i]
      BY <1>6
    <3>2. QED
      BY <2>1, <3>1, Zenon
  <2>3. QED
    BY <1>3, <2>2 DEF WrittenAt
<1>8. s.i = d + pos[k] + 1 /\ s.out = Part(bytes, lo, k) /\ s \in Place
  <2>1. Part(bytes, lo, k) \in Seq(Octet)
    BY <1>1, <1>2, PartFacts
  <2>2. d + pos[k] + 1 \in Nat \ {0}
    BY <1>3
  <2>3. QED
    BY <2>1, <2>2 DEF After, Place
<1> HIDE DEF s, byte
<1>9. s.i + Wide(byte) - 1 <= Len(line)
  <2>1. pos[k] \in Nat /\ pos[k + 1] = pos[k] + Wide(byte) /\ pos[k + 1] <= len
    BY <1>3, Zenon
  <2>2. s.i = d + pos[k] + 1 /\ Len(line) = d + len /\ Wide(byte) \in {1, 2}
    BY <1>5, <1>6, <1>8
  <2>3. QED
    BY <2>1, <2>2
<1>10. s.i <= Limit(line, told)
  <2>1. CASE told = -1
    <3>1. Limit(line, told) = d + len
      BY <1>6, <2>1 DEF Limit
    <3>2. /\ pos[k] \in Nat /\ pos[k + 1] = pos[k] + Wide(byte) /\ pos[k + 1] <= len
          /\ Wide(byte) \in {1, 2} /\ s.i = d + pos[k] + 1
      BY <1>3, <1>5, <1>8, Zenon
    <3>3. QED
      BY <3>1, <3>2
  <2>2. CASE told = length
    <3>1. Limit(line, told) = length + 1
      BY <2>2 DEF Limit
    <3>2. pos[k] \in Nat /\ pos[k] < length /\ s.i = d + pos[k] + 1
      BY <1>3, <1>8, Zenon
    <3>3. QED
      BY <3>1, <3>2
  <2>3. QED
    BY <2>1, <2>2
<1>11. ~ (s.i = 1 /\ DotDoubled(line))
  <2>1. pos[k] \in Nat /\ s.i = d + pos[k] + 1
    BY <1>3, <1>8, Zenon
  <2>2. s.i = 1 => d = 0
    BY <2>1
  <2>3. QED
    BY <1>6, <2>2, Zenon
<1>12. Turn(line, told, s) = [i |-> s.i + Wide(byte), out |-> Append(s.out, byte)]
  <2>1. WrittenAt(line, s.i, byte)
    BY <1>7, <1>8, Zenon
  <2>2. told \in Int
    OBVIOUS
  <2>3. Faces(line, told, s, byte)
    BY <1>4, <1>6, <1>8, <1>9, <1>10, <1>11, <2>1, <2>2, Zenon DEF Faces
  <2>4. QED
    BY <2>3, TurnReads
<1>13. Append(s.out, byte) = Part(bytes, lo, k + 1)
  <2>1. lo + k + 1 <= Len(bytes)
    BY <1>1, <1>2
  <2>2. Append(Part(bytes, lo, k), bytes[lo + k + 1]) = Part(bytes, lo, k + 1)
    BY <1>2, <2>1, PartNext
  <2>3. QED
    BY <1>8, <2>2 DEF byte
<1>14. s.i + Wide(byte) = d + pos[k + 1] + 1
  <2>1. PICK w \in {1, 2}, m \in Nat : w = Wide(byte) /\ m = pos[k]
    BY <1>3, <1>5
  <2>2. s.i = d + m + 1 /\ pos[k + 1] = m + w
    BY <1>3, <1>8, <2>1
  <2>3. d + m + 1 + w = d + (m + w) + 1
    BY <2>1
  <2>4. QED
    BY <2>1, <2>2, <2>3
<1>15. QED
  BY <1>12, <1>13, <1>14 DEF After, s

(* Whatever the line holds, and whether or not its length is known, the     *)
(* loop yields the bytes that were written into it.                         *)
LEMMA LineDecodes ==
  ASSUME NEW bytes \in Seq(Octet), NEW text, NEW pos, NEW lo, NEW cnt,
         NEW length \in Nat \ {0}, Written(text, pos, lo, cnt, bytes, length),
         NEW told \in {-1, length}
  PROVE  DecodeLine(Dotted(text), told) = Part(bytes, lo, cnt)
<1>1. PICK len \in Nat : Len(text) = len
  BY DEF Written
<1>2. /\ text \in Seq(Octet) /\ cnt \in Nat \ {0} /\ lo \in Nat
      /\ pos \in [0 .. cnt -> Nat] /\ pos[0] = 0 /\ pos[cnt] = len
      /\ cnt <= len
  <2>1. cnt \in 1 .. cnt
    BY DEF Written
  <2>2. QED
    BY <1>1, <2>1 DEF Written
<1>3. PICK line : line = Dotted(text)
  OBVIOUS
<1>4. PICK d \in {0, 1} : Sent(line, text, d)
  BY <1>1, <1>2, <1>3, EmptySeq, DottedSent
<1>5. line \in Seq(Octet) /\ Len(line) = d + len /\ d + len \in Nat /\ told \in Int
  BY <1>1, <1>4 DEF Sent
<1>6. PICK f : Turns(f, line, told, d + len) /\ DecodeLine(line, told) = f[d + len].out
  BY <1>5, DecodeLoop
<1>7. f[0] = Start /\ \A n \in 1 .. d + len : f[n] = Turn(line, told, f[n-1])
  BY <1>6 DEF Turns
<1>8. f[d] = After(pos, d, bytes, lo, 0)
  <2>1. Part(bytes, lo, 0) = <<>>
    BY <1>2, SubSeqEmpty DEF Part
  <2>2. After(pos, d, bytes, lo, 0) = [i |-> d + 1, out |-> <<>>]
    BY <1>2, <2>1 DEF After
  <2>3. CASE d = 0
    BY <1>7, <2>2, <2>3 DEF Start
  <2>4. CASE d = 1
    <3>1. f[1] = Turn(line, told, Start)
      BY <1>2, <1>7, <2>4
    <3>2. line[1] = 46 /\ Len(line) >= 2 /\ DotDoubled(line)
      BY <1>4, <2>4 DEF Sent, DotDoubled
    <3>3. ~ (1 > Limit(line, told)) /\ At(line, 1) = 46
      BY <1>5, <3>2 DEF Limit, At
    <3>4. Turn(line, told, Start) = [i |-> 2, out |-> <<>>]
      BY <3>2, <3>3 DEF Turn, Start
    <3>5. QED
      BY <2>2, <2>4, <3>1, <3>4
  <2>5. QED
    BY <2>3, <2>4
<1>9. f[d + cnt] = After(pos, d, bytes, lo, cnt)
  <2> DEFINE K == {k \in Nat : k > cnt \/ f[d + k] = After(pos, d, bytes, lo, k)}
  <2>1. 0 \in K
    BY <1>8
  <2>2. ASSUME NEW k \in 0 .. cnt - 1, k \in K
        PROVE  k + 1 \in K
    <3>1. d + (k + 1) \in 1 .. d + len /\ (d + (k + 1)) - 1 = d + k
      BY <1>2
    <3>2. f[d + k] = After(pos, d, bytes, lo, k)
      BY <1>2, <2>2
    <3>3. f[d + (k + 1)] = Turn(line, told, f[d + k])
      BY <1>7, <3>1
    <3>4. f[d + (k + 1)] = After(pos, d, bytes, lo, k + 1)
      BY <1>4, <3>2, <3>3, ReadsByte
    <3>5. QED
      BY <3>4
  <2>3. 0 .. cnt \subseteq K
    <3> HIDE DEF K
    <3>1. QED
      BY <1>2, <2>1, <2>2, BoundedInduction
  <2>4. QED
    BY <1>2, <2>3
<1>10. f[d + len] = f[d + cnt]
  <2>1. PICK s : s = f[d + cnt]
    OBVIOUS
  <2>2. s.i = d + len + 1
    BY <1>2, <1>9, <2>1 DEF After
  <2>3. Turn(line, told, s) = s
    <3>1. At(line, s.i) = 0
      BY <1>5, <2>2 DEF At
    <3>2. QED
      BY <3>1 DEF Turn
  <2> DEFINE K == {n \in Nat : n > len - cnt \/ f[d + cnt + n] = s}
  <2>4. 0 \in K
    BY <1>2, <2>1
  <2>5. ASSUME NEW n \in 0 .. len - cnt - 1, n \in K
        PROVE  n + 1 \in K
    <3>1. /\ d + cnt + (n + 1) \in 1 .. d + len
          /\ (d + cnt + (n + 1)) - 1 = d + cnt + n
      BY <1>1, <1>2
    <3>2. f[d + cnt + n] = s
      BY <1>1, <1>2, <2>5
    <3>3. f[d + cnt + (n + 1)] = Turn(line, told, s)
      BY <1>7, <3>1, <3>2
    <3>4. QED
      BY <2>3, <3>3
  <2>6. len - cnt \in Nat /\ len - cnt \in 0 .. len - cnt /\ d + cnt + (len - cnt) = d + len
    BY <1>1, <1>2
  <2>7. 0 .. len - cnt \subseteq K
    <3> HIDE DEF K
    <3>1. QED
      BY <2>4, <2>5, <2>6, BoundedInduction
  <2>8. QED
    BY <2>1, <2>6, <2>7
<1>11. QED
  BY <1>3, <1>6, <1>9, <1>10 DEF After

-----------------------------------------------------------------------------
(* The lines of the poster.                                                 *)
LEMMA WrittenFirst ==
  ASSUME NEW bytes \in Seq(Octet), NEW length \in Nat \ {0}, NEW lo \in Nat, lo + 1 <= Len(bytes)
  PROVE  \E pos : Written(Escaped(bytes[lo + 1]), pos, lo, 1, bytes, length)
<1>1. PICK all \in Nat : Len(bytes) = all
  OBVIOUS
<1>2. PICK byte \in Octet : byte = bytes[lo + 1]
  <2>1. lo + 1 \in 1 .. Len(bytes)
    BY <1>1
  <2>2. QED
    BY <2>1, ElementOfSeq
<1>3. /\ Escaped(byte) \in Seq(Octet) /\ Len(Escaped(byte)) = Wide(byte)
      /\ WrittenAt(Escaped(byte), 1, byte)
  BY EscapedByte
<1>4. PICK w \in {1, 2} : w = Wide(byte)
  BY DEF Wide
<1> DEFINE pos == [k \in 0 .. 1 |-> IF k = 0 THEN 0 ELSE w]
<1>5. pos \in [0 .. 1 -> Nat] /\ pos[0] = 0 /\ pos[1] = w
  OBVIOUS
<1> HIDE DEF pos
<1>6. ASSUME NEW k \in 1 .. 1
      PROVE  /\ pos[k - 1] < length
             /\ pos[k] = pos[k - 1] + Wide(bytes[lo + k])
             /\ k <= pos[k] /\ pos[k] <= Len(Escaped(byte))
             /\ WrittenAt(Escaped(byte), pos[k - 1] + 1, bytes[lo + k])
  <2>1. k = 1 /\ k - 1 = 0 /\ 0 + 1 = 1
    OBVIOUS
  <2>2. pos[k - 1] = 0 /\ pos[k] = w
    BY <1>5, <2>1
  <2>3. WrittenAt(Escaped(byte), pos[k - 1] + 1, bytes[lo + k])
    BY <1>2, <1>3, <2>1, <2>2
  <2>4. QED
    BY <1>2, <1>3, <1>4, <2>1, <2>2, <2>3
<1>7. Written(Escaped(byte), pos, lo, 1, bytes, length)
  BY <1>3, <1>4, <1>5, <1>6 DEF Written
<1>8. QED
  BY <1>2, <1>7

LEMMA WrittenNext ==
  ASSUME NEW bytes \in Seq(Octet), NEW length \in Nat \ {0},
         NEW text, NEW pos, NEW lo, NEW cnt, Written(text, pos, lo, cnt, bytes, length),
         lo + cnt + 1 <= Len(bytes), Len(text) < length
  PROVE  \E pos1 : Written(text \o Escaped(bytes[lo + cnt + 1]), pos1, lo, cnt + 1, bytes, length)
<1>1. PICK all \in Nat, len \in Nat : Len(bytes) = all /\ Len(text) = len
  BY DEF Written
<1>2. /\ text \in Seq(Octet) /\ lo \in Nat /\ cnt \in Nat \ {0}
      /\ pos \in [0 .. cnt -> Nat] /\ pos[0] = 0 /\ pos[cnt] = len
      /\ \A k \in 1 .. cnt : /\ pos[k - 1] < length
                             /\ pos[k] = pos[k - 1] + Wide(bytes[lo + k])
                             /\ k <= pos[k] /\ pos[k] <= len
                             /\ WrittenAt(text, pos[k - 1] + 1, bytes[lo + k])
  BY <1>1 DEF Written
<1>3. PICK byte \in Octet : byte = bytes[lo + cnt + 1]
  <2>1. lo + cnt + 1 \in 1 .. Len(bytes)
    BY <1>1, <1>2
  <2>2. QED
    BY <2>1, ElementOfSeq
<1>4. /\ Escaped(byte) \in Seq(Octet) /\ Len(Escaped(byte)) = Wide(byte)
      /\ WrittenAt(Escaped(byte), 1, byte)
  BY EscapedByte
<1>5. PICK w \in {1, 2} : w = Wide(byte) /\ (Special(byte) => w = 2)
  BY DEF Wide
<1>6. PICK text1 : text1 = text \o Escaped(byte)
  OBVIOUS
<1>7. /\ text1 \in Seq(Octet) /\ Len(text1) = len + w
      /\ \A i \in 1 .. len + w : text1[i] = IF i <= len THEN text[i] ELSE Escaped(byte)[i - len]
  <2>1. PICK e : e = Escaped(byte)
    OBVIOUS
  <2>2. e \in Seq(Octet) /\ Len(e) = w
    BY <1>4, <1>5, <2>1
  <2>3. text \in Seq(Octet) /\ e \in Seq(Octet)
    BY <1>2, <2>2
  <2>4. /\ text \o e \in Seq(Octet) /\ Len(text \o e) = Len(text) + Len(e)
        /\ \A i \in 1 .. Len(text) + Len(e) :
             (text \o e)[i] = IF i <= Len(text) THEN text[i] ELSE e[i - Len(text)]
    BY <2>3, ConcatProperties, Zenon
  <2>5. QED
    BY <1>1, <1>6, <2>1, <2>2, <2>4
<1> DEFINE pos1 == [k \in 0 .. cnt + 1 |-> IF k = cnt + 1 THEN len + w ELSE pos[k]]
<1>8. /\ pos1 \in [0 .. cnt + 1 -> Nat] /\ pos1[cnt + 1] = len + w
      /\ \A k \in 0 .. cnt : pos1[k] = pos[k]
  <2>1. pos \in [0 .. cnt -> Nat] /\ cnt \in Nat /\ len + w \in Nat
    BY <1>2
  <2>2. \A k \in 0 .. cnt + 1 : (IF k = cnt + 1 THEN len + w ELSE pos[k]) \in Nat
    BY <2>1
  <2>3. pos1 \in [0 .. cnt + 1 -> Nat]
    BY <2>2
  <2>4. cnt + 1 \in 0 .. cnt + 1 /\ \A k \in 0 .. cnt : k \in 0 .. cnt + 1 /\ k # cnt + 1
    BY <2>1
  <2>5. QED
    BY <2>3, <2>4, Zenon
<1> HIDE DEF pos1
<1>9. ASSUME NEW k \in 1 .. cnt + 1
      PROVE  /\ pos1[k - 1] < length
             /\ pos1[k] = pos1[k - 1] + Wide(bytes[lo + k])
             /\ k <= pos1[k] /\ pos1[k] <= len + w
             /\ WrittenAt(text1, pos1[k - 1] + 1, bytes[lo + k])
  <2>1. CASE k = cnt + 1
    <3>1. /\ k - 1 = cnt /\ lo + k = lo + cnt + 1 /\ cnt \in Nat
          /\ cnt \in 0 .. cnt /\ cnt \in 1 .. cnt
      BY <1>2, <2>1
    <3>2. pos1[k - 1] = len /\ pos1[k] = len + w /\ bytes[lo + k] = byte /\ cnt <= len
      BY <1>2, <1>3, <1>8, <2>1, <3>1
    <3>3. /\ text1[len + 1] = Escaped(byte)[1]
          /\ Special(byte) => text1[len + 1 + 1] = Escaped(byte)[1 + 1]
      <4>1. /\ len + 1 \in 1 .. len + w /\ ~ (len + 1 <= len) /\ len + 1 - len = 1
            /\ Special(byte) => /\ len + 1 + 1 \in 1 .. len + w
                                /\ ~ (len + 1 + 1 <= len) /\ len + 1 + 1 - len = 1 + 1
        BY <1>5
      <4>2. QED
        BY <1>7, <4>1
    <3>4. WrittenAt(text1, len + 1, byte)
      BY <1>4, <3>3 DEF WrittenAt
    <3>5. len < length
      BY <1>1
    <3>6. k <= len + w /\ len + w \in Nat
      BY <2>1, <3>1, <3>2
    <3>7. QED
      BY <1>5, <3>2, <3>4, <3>5, <3>6
  <2>2. CASE k # cnt + 1
    <3>1. k \in 1 .. cnt /\ k \in 0 .. cnt /\ k - 1 \in 0 .. cnt
      BY <1>2, <2>2
    <3>2. PICK p \in Nat : p = pos[k - 1]
      BY <1>2, <3>1
    <3>3. PICK b : b = bytes[lo + k]
      OBVIOUS
    <3>4. /\ p < length /\ pos[k] = p + Wide(b) /\ k <= pos[k] /\ pos[k] <= len
          /\ WrittenAt(text, p + 1, b)
      BY <1>2, <3>1, <3>2, <3>3
    <3>5. WrittenAt(text1, p + 1, b)
      <4>1. Wide(b) \in {1, 2} /\ (Special(b) => Wide(b) = 2) /\ pos[k] \in Nat
        BY <1>2, <3>1 DEF Wide
      <4>2. /\ p + 1 \in 1 .. len + w /\ p + 1 <= len
            /\ Special(b) => p + 1 + 1 \in 1 .. len + w /\ p + 1 + 1 <= len
        BY <1>5, <3>4, <4>1
      <4>3. /\ text1[p + 1] = text[p + 1]
            /\ Special(b) => text1[p + 1 + 1] = text[p + 1 + 1]
        BY <1>7, <4>2
      <4>4. QED
        BY <3>4, <4>3 DEF WrittenAt
    <3>6. pos1[k - 1] = p /\ pos1[k] = pos[k] /\ pos[k] \in Nat
      BY <1>2, <1>8, <3>1, <3>2
    <3>7. pos1[k] <= len + w
      BY <1>5, <3>4, <3>6
    <3>8. QED
      BY <3>2, <3>3, <3>4, <3>5, <3>6, <3>7
  <2>3. QED
    BY <2>1, <2>2
<1>10. Written(text1, pos1, lo, cnt + 1, bytes, length)
  <2>1. lo + (cnt + 1) <= Len(bytes) /\ cnt + 1 \in Nat \ {0} /\ pos1[0] = 0
    BY <1>1, <1>2, <1>8
  <2>2. \A k \in 1 .. cnt + 1 :
          /\ pos1[k - 1] < length
          /\ pos1[k] = pos1[k - 1] + Wide(bytes[lo + k])
          /\ k <= pos1[k] /\ pos1[k] <= Len(text1)
          /\ WrittenAt(text1, pos1[k - 1] + 1, bytes[lo + k])
    BY <1>7, <1>9
  <2>3. pos1[cnt + 1] = Len(text1)
    BY <1>7, <1>8
  <2>4. QED
    BY <1>2, <1>7, <1>8, <2>1, <2>2, <2>3 DEF Written
<1>11. QED
  BY <1>3, <1>6, <1>10

\* The lines hold the first n bytes: line j those up to end[j].
Cut(lines, end, n, bytes, length) ==
  /\ lines \in Seq(Seq(Octet))
  /\ n \in Nat /\ n <= Len(bytes)
  /\ end \in [0 .. Len(lines) -> Nat]
  /\ end[0] = 0 /\ end[Len(lines)] = n
  /\ \A j \in 1 .. Len(lines) :
       /\ end[j - 1] < end[j] /\ end[j] <= n
       /\ \E pos : Written(lines[j], pos, end[j - 1], end[j] - end[j - 1], bytes, length)

LEMMA CutAppend ==
  ASSUME NEW bytes \in Seq(Octet), NEW length \in Nat \ {0},
         NEW lines, NEW end, NEW n, Cut(lines, end, n, bytes, length), n + 1 <= Len(bytes)
  PROVE  \E end1 : Cut(Append(lines, Escaped(bytes[n + 1])), end1, n + 1, bytes, length)
<1>1. PICK m \in Nat : Len(lines) = m
  BY DEF Cut
<1>2. /\ lines \in Seq(Seq(Octet)) /\ n \in Nat
      /\ end \in [0 .. m -> Nat] /\ end[0] = 0 /\ end[m] = n
      /\ \A j \in 1 .. m : /\ end[j - 1] < end[j] /\ end[j] <= n
                           /\ \E pos : Written(lines[j], pos, end[j - 1],
                                               end[j] - end[j - 1], bytes, length)
  BY <1>1 DEF Cut
<1>3. PICK text : text = Escaped(bytes[n + 1])
  OBVIOUS
<1>4. text \in Seq(Octet)
  <2>1. n + 1 \in 1 .. Len(bytes)
    BY <1>2
  <2>2. bytes[n + 1] \in Octet
    BY <2>1, ElementOfSeq
  <2>3. QED
    BY <1>3, <2>2, EscapedByte
<1>5. PICK lines1 : lines1 = Append(lines, text)
  OBVIOUS
<1>6. /\ lines1 \in Seq(Seq(Octet)) /\ Len(lines1) = m + 1 /\ lines1[m + 1] = text
      /\ \A j \in 1 .. m : lines1[j] = lines[j]
  BY <1>1, <1>2, <1>4, <1>5, AppendProperties
<1> DEFINE end1 == [j \in 0 .. m + 1 |-> IF j = m + 1 THEN n + 1 ELSE end[j]]
<1>7. /\ end1 \in [0 .. m + 1 -> Nat] /\ end1[m + 1] = n + 1
      /\ \A j \in 0 .. m : end1[j] = end[j]
  BY <1>2
<1> HIDE DEF end1
<1>8. ASSUME NEW j \in 1 .. m + 1
      PROVE  /\ end1[j - 1] < end1[j] /\ end1[j] <= n + 1
             /\ \E pos : Written(lines1[j], pos, end1[j - 1], end1[j] - end1[j - 1], bytes, length)
  <2>1. CASE j = m + 1
    <3>1. end1[j - 1] = n /\ end1[j] = n + 1 /\ lines1[j] = text /\ (n + 1) - n = 1
      BY <1>2, <1>6, <1>7, <2>1
    <3>2. PICK pos : Written(text, pos, n, 1, bytes, length)
      BY <1>2, <1>3, WrittenFirst
    <3>3. Written(lines1[j], pos, end1[j - 1], end1[j] - end1[j - 1], bytes, length)
      <4>1. end1[j] - end1[j - 1] = 1
        BY <3>1
      <4>2. QED
        BY <3>1, <3>2, <4>1, Zenon
    <3>4. end1[j - 1] < end1[j] /\ end1[j] <= n + 1
      BY <1>2, <3>1
    <3>5. QED
      BY <3>3, <3>4
  <2>2. CASE j # m + 1
    <3>1. j \in 1 .. m /\ j \in 0 .. m /\ j - 1 \in 0 .. m
      BY <2>2
    <3>2. end1[j - 1] = end[j - 1] /\ end1[j] = end[j] /\ lines1[j] = lines[j] /\ end[j] \in Nat
      BY <1>2, <1>6, <1>7, <3>1
    <3>3. end[j - 1] < end[j] /\ end[j] <= n
      BY <1>2, <3>1
    <3>4. PICK pos : Written(lines[j], pos, end[j - 1], end[j] - end[j - 1], bytes, length)
      BY <1>2, <3>1
    <3>5. Written(lines1[j], pos, end1[j - 1], end1[j] - end1[j - 1], bytes, length)
      BY <3>2, <3>4, Zenon
    <3>6. end1[j - 1] < end1[j] /\ end1[j] <= n + 1
      BY <1>2, <3>2, <3>3
    <3>7. QED
      BY <3>5, <3>6
  <2>3. QED
    BY <2>1, <2>2
<1>9. Cut(lines1, end1, n + 1, bytes, length)
  <2>1. n + 1 \in Nat /\ end1[0] = 0
    BY <1>2, <1>7
  <2>2. QED
    BY <1>6, <1>7, <1>8, <2>1 DEF Cut
<1>10. QED
  BY <1>3, <1>5, <1>9

LEMMA CutExtend ==
  ASSUME NEW bytes \in Seq(Octet), NEW length \in Nat \ {0},
         NEW lines, NEW end, NEW n, Cut(lines, end, n, bytes, length), n + 1 <= Len(bytes),
         lines # <<>>, Len(lines[Len(lines)]) < length
  PROVE  \E end1 : Cut([lines EXCEPT ![Len(lines)] = @ \o Escaped(bytes[n + 1])],
                       end1, n + 1, bytes, length)
<1>1. PICK m \in Nat \ {0} : Len(lines) = m
  BY EmptySeq DEF Cut
<1>2. /\ lines \in Seq(Seq(Octet)) /\ n \in Nat
      /\ end \in [0 .. m -> Nat] /\ end[0] = 0 /\ end[m] = n
      /\ \A j \in 1 .. m : /\ end[j - 1] < end[j] /\ end[j] <= n
                           /\ \E pos : Written(lines[j], pos, end[j - 1],
                                               end[j] - end[j - 1], bytes, length)
  BY <1>1 DEF Cut
<1>3. PICK lo \in Nat : lo = end[m - 1]
  BY <1>2
<1>4. lo < n /\ \E pos : Written(lines[m], pos, lo, n - lo, bytes, length)
  <2>1. m \in 1 .. m
    OBVIOUS
  <2>2. QED
    BY <1>2, <1>3, <2>1
<1>5. PICK text1 : text1 = lines[m] \o Escaped(bytes[n + 1])
  OBVIOUS
<1>6. \E pos : Written(text1, pos, lo, n + 1 - lo, bytes, length)
  <2>1. PICK pos : Written(lines[m], pos, lo, n - lo, bytes, length)
    BY <1>4
  <2>2. lo + (n - lo) = n /\ n - lo + 1 = n + 1 - lo
    BY <1>2
  <2>3. lo + (n - lo) + 1 <= Len(bytes) /\ Len(lines[m]) < length
    BY <1>1, <2>2
  <2>4. \E pos1 : Written(lines[m] \o Escaped(bytes[lo + (n - lo) + 1]), pos1, lo,
                          (n - lo) + 1, bytes, length)
    BY <2>1, <2>3, WrittenNext
  <2>5. QED
    BY <1>5, <2>2, <2>4
<1>7. text1 \in Seq(Octet)
  BY <1>6 DEF Written
<1>8. PICK lines1 : lines1 = [lines EXCEPT ![m] = text1]
  OBVIOUS
<1>9. /\ lines1 \in Seq(Seq(Octet)) /\ Len(lines1) = m /\ lines1[m] = text1
      /\ \A j \in 1 .. m : j # m => lines1[j] = lines[j]
  BY <1>1, <1>2, <1>7, <1>8
<1> DEFINE end1 == [j \in 0 .. m |-> IF j = m THEN n + 1 ELSE end[j]]
<1>10. /\ end1 \in [0 .. m -> Nat] /\ end1[m] = n + 1
       /\ \A j \in 0 .. m : j # m => end1[j] = end[j]
  BY <1>2
<1> HIDE DEF end1
<1>11. ASSUME NEW j \in 1 .. m
       PROVE  /\ end1[j - 1] < end1[j] /\ end1[j] <= n + 1
              /\ \E pos : Written(lines1[j], pos, end1[j - 1], end1[j] - end1[j - 1], bytes, length)
  <2>1. CASE j = m
    <3>1. m - 1 \in 0 .. m /\ m - 1 # m
      OBVIOUS
    <3>2. end1[j - 1] = lo /\ end1[j] = n + 1 /\ lines1[j] = text1
      BY <1>3, <1>9, <1>10, <2>1, <3>1
    <3>3. lo < n + 1 /\ n + 1 <= n + 1
      BY <1>2, <1>4
    <3>4. PICK pos : Written(text1, pos, lo, n + 1 - lo, bytes, length)
      BY <1>6
    <3>5. Written(lines1[j], pos, end1[j - 1], end1[j] - end1[j - 1], bytes, length)
      <4>1. n + 1 - lo = end1[j] - end1[j - 1]
        BY <1>2, <3>2
      <4>2. QED
        BY <3>2, <3>4, <4>1, Zenon
    <3>6. end1[j - 1] < end1[j] /\ end1[j] <= n + 1
      BY <3>2, <3>3
    <3>7. QED
      BY <3>5, <3>6
  <2>2. CASE j # m
    <3>1. j \in 0 .. m /\ j - 1 \in 0 .. m /\ j - 1 # m
      BY <2>2
    <3>2. end1[j - 1] = end[j - 1] /\ end1[j] = end[j] /\ lines1[j] = lines[j] /\ end[j] \in Nat
      BY <1>2, <1>9, <1>10, <2>2, <3>1
    <3>3. end[j - 1] < end[j] /\ end[j] <= n
      BY <1>2
    <3>4. PICK pos : Written(lines[j], pos, end[j - 1], end[j] - end[j - 1], bytes, length)
      BY <1>2
    <3>5. Written(lines1[j], pos, end1[j - 1], end1[j] - end1[j - 1], bytes, length)
      BY <3>2, <3>4, Zenon
    <3>6. end1[j - 1] < end1[j] /\ end1[j] <= n + 1
      BY <1>2, <3>2, <3>3
    <3>7. QED
      BY <3>5, <3>6
  <2>3. QED
    BY <2>1, <2>2
<1>12. Cut(lines1, end1, n + 1, bytes, length)
  <2>1. n + 1 \in Nat /\ end1[0] = 0
    BY <1>2, <1>10
  <2>2. QED
    BY <1>9, <1>10, <1>11, <2>1 DEF Cut
<1>13. [lines EXCEPT ![Len(lines)] = @ \o Escaped(bytes[n + 1])] = lines1
  BY <1>1, <1>5, <1>8
<1>14. QED
  BY <1>12, <1>13

LEMMA CutNext ==
  ASSUME NEW bytes \in Seq(Octet), NEW length \in Nat \ {0},
         NEW lines, NEW end, NEW n, Cut(lines, end, n, bytes, length), n + 1 <= Len(bytes)
  PROVE  \E end1 : Cut(AddByte(lines, bytes[n + 1], length), end1, n + 1, bytes, length)
<1>1. CASE lines = <<>> \/ Len(lines[Len(lines)]) >= length
  <2>1. AddByte(lines, bytes[n + 1], length) = Append(lines, Escaped(bytes[n + 1]))
    BY <1>1 DEF AddByte
  <2>2. QED
    BY <2>1, CutAppend
<1>2. CASE lines # <<>> /\ ~ (Len(lines[Len(lines)]) >= length)
  <2>1. PICK m \in Nat \ {0} : Len(lines) = m
    BY <1>2, EmptySeq DEF Cut
  <2>2. lines[m] \in Seq(Octet)
    BY <2>1, ElementOfSeq DEF Cut
  <2>3. Len(lines[Len(lines)]) < length
    BY <1>2, <2>1, <2>2
  <2>4. AddByte(lines, bytes[n + 1], length) =
          [lines EXCEPT ![Len(lines)] = @ \o Escaped(bytes[n + 1])]
    BY <1>2, Zenon DEF AddByte
  <2>5. \E end1 : Cut([lines EXCEPT ![Len(lines)] = @ \o Escaped(bytes[n + 1])],
                      end1, n + 1, bytes, length)
    BY <1>2, <2>3, CutExtend
  <2>6. QED
    BY <2>4, <2>5, Zenon
<1>3. QED
  BY <1>1, <1>2

LEMMA AddByteType ==
  ASSUME NEW lines \in Seq(Seq(Octet)), NEW byte \in Octet, NEW length \in Nat
  PROVE  AddByte(lines, byte, length) \in Seq(Seq(Octet))
<1>1. Escaped(byte) \in Seq(Octet)
  BY EscapedByte
<1>2. CASE lines = <<>> \/ Len(lines[Len(lines)]) >= length
  BY <1>1, <1>2, AppendProperties DEF AddByte
<1>3. CASE ~ (lines = <<>> \/ Len(lines[Len(lines)]) >= length)
  <2>1. PICK m \in Nat \ {0} : Len(lines) = m
    BY <1>3, EmptySeq
  <2>2. lines[m] \in Seq(Octet)
    BY <2>1, ElementOfSeq
  <2>3. PICK text : text = lines[m] \o Escaped(byte)
    OBVIOUS
  <2>4. text \in Seq(Octet)
    BY <1>1, <2>2, <2>3, ConcatProperties
  <2>5. AddByte(lines, byte, length) = [lines EXCEPT ![m] = text]
    BY <1>3, <2>1, <2>3 DEF AddByte
  <2>6. QED
    BY <2>1, <2>4, <2>5
<1>4. QED
  BY <1>2, <1>3

(* A payload is cut into lines that hold it from its first byte to its last. *)
LEMMA EncodedCut ==
  ASSUME NEW bytes \in Seq(Octet), NEW length \in Nat \ {0}
  PROVE  \E end : Cut(Encoded(bytes, length), end, Len(bytes), bytes, length)
<1>1. PICK len \in Nat : Len(bytes) = len
  OBVIOUS
<1> DEFINE X == Seq(Seq(Octet))
           step == [n \in Nat |->
                      [ls \in X |-> IF n \in 1 .. len THEN AddByte(ls, bytes[n], length) ELSE ls]]
           body(f) == [n \in 0 .. Len(bytes) |->
                         IF n = 0 THEN <<>> ELSE AddByte(f[n-1], bytes[n], length)]
           lines == CHOOSE f : f = body(f)
<1>2. Steps(step, X)
  <2>1. ASSUME NEW n \in 1 .. len, NEW ls \in X PROVE AddByte(ls, bytes[n], length) \in X
    <3>1. bytes[n] \in Octet
      BY <1>1, ElementOfSeq
    <3>2. QED
      BY <3>1, AddByteType
  <2>2. ASSUME NEW n \in Nat, NEW ls \in X
        PROVE  (IF n \in 1 .. len THEN AddByte(ls, bytes[n], length) ELSE ls) \in X
    BY <2>1
  <2> HIDE DEF X
  <2>3. QED
    BY <2>2 DEF Steps
<1>3. <<>> \in X
  OBVIOUS
<1>4. PICK f : Iterates(f, X, <<>>, step, len)
  <2> HIDE DEF step, X
  <2>1. QED
    BY <1>2, <1>3, Iteration, Zenon
<1>5. f = body(f)
  <2> HIDE DEF X
  <2>1. f \in [0 .. len -> X] /\ f[0] = <<>>
    BY <1>4 DEF Iterates
  <2>2. ASSUME NEW n \in 1 .. len PROVE f[n] = AddByte(f[n-1], bytes[n], length)
    <3>1. n \in Nat /\ f[n-1] \in X
      BY <2>1
    <3>2. f[n] = step[n][f[n-1]]
      BY <1>4 DEF Iterates
    <3>3. QED
      BY <3>1, <3>2, Zenon
  <2>3. \A n \in 0 .. len : f[n] = IF n = 0 THEN <<>> ELSE AddByte(f[n-1], bytes[n], length)
    BY <2>1, <2>2
  <2>4. f = [n \in 0 .. len |-> f[n]]
    BY <2>1
  <2>5. QED
    BY <1>1, <2>3, <2>4
<1>6. lines = body(lines)
  <2> HIDE DEF body
  <2>1. QED
    BY <1>5
<1>7. Encoded(bytes, length) = lines[len]
  BY <1>1, Zenon DEF Encoded
<1>8. PICK g : g = lines
  OBVIOUS
<1>9. g = [n \in 0 .. len |-> IF n = 0 THEN <<>> ELSE AddByte(g[n-1], bytes[n], length)]
  BY <1>1, <1>6, <1>8
<1> HIDE DEF lines
<1>10. g[0] = <<>> /\ \A n \in 1 .. len : g[n] = AddByte(g[n-1], bytes[n], length)
  BY <1>9
<1> DEFINE K == {n \in Nat : n > len \/ \E end : Cut(g[n], end, n, bytes, length)}
<1>11. 0 \in K
  <2> DEFINE end == [j \in 0 .. 0 |-> 0]
  <2>1. Len(<<>>) = 0 /\ <<>> \in Seq(Seq(Octet)) /\ end \in [0 .. 0 -> Nat] /\ end[0] = 0
    OBVIOUS
  <2> HIDE DEF end
  <2>2. Cut(<<>>, end, 0, bytes, length)
    BY <1>1, <2>1 DEF Cut
  <2>3. QED
    BY <1>10, <2>2
<1>12. ASSUME NEW n \in 0 .. len - 1, n \in K
       PROVE  n + 1 \in K
  <2>1. n + 1 \in 1 .. len /\ (n + 1) - 1 = n /\ n + 1 <= Len(bytes)
    BY <1>1
  <2>2. PICK end : Cut(g[n], end, n, bytes, length)
    BY <1>12
  <2>3. g[n + 1] = AddByte(g[n], bytes[n + 1], length)
    BY <1>10, <2>1
  <2>4. \E end1 : Cut(g[n + 1], end1, n + 1, bytes, length)
    BY <2>1, <2>2, <2>3, CutNext
  <2>5. QED
    BY <2>4
<1>13. 0 .. len \subseteq K
  <2> HIDE DEF K
  <2>1. QED
    BY <1>11, <1>12, BoundedInduction
<1>14. \E end : Cut(g[len], end, len, bytes, length)
  BY <1>13
<1>15. QED
  BY <1>1, <1>7, <1>8, <1>14

-----------------------------------------------------------------------------
(* The article.                                                             *)
\* How many lines are in front of the data.
Heads(multipart) == IF multipart THEN 3 ELSE 2

\* Lines put together, h of them in front of the data.
Joint(a, s, b, p, data, y, z, m, h, S) ==
  /\ {s, b, p, y, z} \subseteq S /\ data \in Seq(S)
  /\ m \in Nat /\ Len(data) = m /\ h \in {2, 3}
  /\ a = <<s, b>> \o (IF h = 3 THEN <<p>> ELSE <<>>) \o data \o <<y, z>>

LEMMA Joined ==
  ASSUME NEW a, NEW s, NEW b, NEW p, NEW data, NEW y, NEW z, NEW m, NEW h, NEW S,
         Joint(a, s, b, p, data, y, z, m, h, S)
  PROVE  /\ a \in Seq(S) /\ Len(a) = h + m + 2
         /\ a[1] = s /\ a[2] = b /\ (h = 3 => a[3] = p)
         /\ \A j \in 1 .. m : a[h + j] = data[j]
         /\ a[h + m + 1] = y /\ a[h + m + 2] = z
<1>1. /\ s \in S /\ b \in S /\ p \in S /\ y \in S /\ z \in S
      /\ data \in Seq(S) /\ m \in Nat /\ Len(data) = m
  BY DEF Joint
<1>2. PICK u : u = <<s, b>> \o (IF h = 3 THEN <<p>> ELSE <<>>)
  OBVIOUS
<1>3. h \in {2, 3}
  BY DEF Joint
<1>4. u \in Seq(S) /\ Len(u) = h /\ u[1] = s /\ u[2] = b /\ (h = 3 => u[3] = p)
  <2>1. CASE h = 3
    <3>1. u = <<s, b>> \o <<p>> /\ <<s, b>> \in Seq(S) /\ <<p>> \in Seq(S)
      BY <1>1, <1>2, <2>1
    <3>2. u \in Seq(S) /\ Len(u) = 3 /\ u[1] = s /\ u[2] = b /\ u[3] = p
      BY <3>1
    <3>3. QED
      BY <2>1, <3>1, <3>2
  <2>2. CASE h = 2
    <3>1. u = <<s, b>> \o <<>> /\ <<s, b>> \in Seq(S)
      BY <1>1, <1>2, <2>2
    <3>2. u = <<s, b>>
      BY <3>1, ConcatEmptySeq
    <3>3. QED
      BY <2>2, <3>1, <3>2
  <2>3. QED
    BY <1>1, <1>3, <2>1, <2>2
<1>5. PICK v : v = u \o data
  OBVIOUS
<1>6. /\ v \in Seq(S) /\ Len(v) = h + m
      /\ \A i \in 1 .. h + m : v[i] = IF i <= h THEN u[i] ELSE data[i - h]
  <2>1. /\ u \o data \in Seq(S) /\ Len(u \o data) = Len(u) + Len(data)
        /\ \A i \in 1 .. Len(u) + Len(data) :
             (u \o data)[i] = IF i <= Len(u) THEN u[i] ELSE data[i - Len(u)]
    BY <1>1, <1>4, ConcatProperties
  <2>2. QED
    BY <1>1, <1>4, <1>5, <2>1
<1>7. PICK w : w = <<y, z>>
  OBVIOUS
<1>8. w \in Seq(S) /\ Len(w) = 2 /\ w[1] = y /\ w[2] = z
  BY <1>1, <1>7
<1>9. a = v \o w
  BY <1>2, <1>5, <1>7 DEF Joint
<1>10. /\ a \in Seq(S) /\ Len(a) = h + m + 2
      /\ \A i \in 1 .. h + m + 2 : a[i] = IF i <= h + m THEN v[i] ELSE w[i - (h + m)]
  <2>1. /\ v \o w \in Seq(S) /\ Len(v \o w) = Len(v) + Len(w)
        /\ \A i \in 1 .. Len(v) + Len(w) :
             (v \o w)[i] = IF i <= Len(v) THEN v[i] ELSE w[i - Len(v)]
    BY <1>1, <1>3, <1>6, <1>8, ConcatProperties
  <2>2. QED
    BY <1>1, <1>3, <1>6, <1>8, <1>9, <2>1
<1>11. ASSUME NEW i \in 1 .. h PROVE a[i] = u[i]
  <2>1. i \in 1 .. h + m + 2 /\ i \in 1 .. h + m /\ i <= h + m /\ i <= h
    BY <1>1, <1>3
  <2>2. QED
    BY <1>6, <1>10, <2>1
<1>12. ASSUME NEW j \in 1 .. m PROVE a[h + j] = data[j]
  <2>1. h \in Nat
    BY <1>1, <1>3
  <2>2. PICK i \in Nat : i = h + j
    BY <2>1
  <2>3. i \in 1 .. h + m + 2 /\ i \in 1 .. h + m /\ i <= h + m /\ ~ (i <= h) /\ i - h = j
    BY <1>1, <2>1, <2>2
  <2>4. a[i] = v[i]
    BY <1>10, <2>3, Zenon
  <2>5. v[i] = data[i - h]
    BY <1>6, <2>3, Zenon
  <2>6. QED
    BY <2>2, <2>3, <2>4, <2>5, Zenon
<1>13. a[h + m + 1] = y /\ a[h + m + 2] = z
  <2>1. PICK i, k : i = h + m + 1 /\ k = h + m + 2
    OBVIOUS
  <2>2. /\ i \in 1 .. h + m + 2 /\ ~ (i <= h + m) /\ i - (h + m) = 1
        /\ k \in 1 .. h + m + 2 /\ ~ (k <= h + m) /\ k - (h + m) = 2
    BY <1>1, <1>3, <2>1
  <2>3. a[i] = w[i - (h + m)] /\ a[k] = w[k - (h + m)]
    BY <1>10, <2>2, Zenon
  <2>4. QED
    BY <1>8, <2>1, <2>2, <2>3, Zenon
<1>14. a[1] = s /\ a[2] = b /\ (h = 3 => a[3] = p)
  BY <1>1, <1>4, <1>3, <1>11
<1>15. QED
  BY <1>10, <1>12, <1>13, <1>14

\* The texts of data lines, and the lines an article of a payload is made of.
Text == {t \in Seq(Octet) : t # <<>> /\ t[1] # 0}

Lines(bytes) ==
  [kind : {"status"}] \cup
  [kind : {"ybegin"}, size : Int, line : LineLength \cup {NULL},
   part : {2, NULL}, name : {"posted"}] \cup
  [kind : {"ypart"}, begin : Int, end : Int] \cup
  [kind : {"data"}, text : Text] \cup
  [kind : {"yend"}, crc32 : {NULL, Crc32Of(bytes)}]

\* What the header tells the decoder of the lines, and of the file.
Told(length, tellsLength) == IF tellsLength THEN length ELSE -1
FileSize(bytes, h) == (IF h = 3 THEN Before ELSE 0) + Len(bytes)

PartLine(bytes) == [kind |-> "ypart", begin |-> Before + 1, end |-> Before + Len(bytes)]

\* An article as it is sent: h lines of header, and m of data, the j-th of which
\* holds the bytes up to end[j].
Shape(sent, bytes, h, m, end, told, crc) ==
  /\ h \in {2, 3} /\ Len(sent) = h + m + 2
  /\ sent[1].kind = "status"
  /\ sent[2] = [kind |-> "ybegin", size |-> FileSize(bytes, h),
                line |-> IF told = -1 THEN NULL ELSE told,
                part |-> IF h = 3 THEN 2 ELSE NULL, name |-> "posted"]
  /\ h = 3 => sent[3] = PartLine(bytes)
  /\ \A j \in 1 .. m :
       /\ sent[h + j].kind = "data"
       /\ DecodeLine(sent[h + j].text, told) = Part(bytes, end[j - 1], end[j] - end[j - 1])
  /\ sent[h + m + 1] = [kind |-> "yend", crc32 |-> crc]

Ends(bytes, m, end) ==
  /\ m \in Nat /\ end \in [0 .. m -> Nat]
  /\ end[0] = 0 /\ end[m] = Len(bytes)
  /\ \A j \in 1 .. m : end[j - 1] < end[j] /\ end[j] <= Len(bytes)

LEMMA DottedText ==
  ASSUME NEW text \in Seq(Octet), text # <<>>, text[1] # 0
  PROVE  Dotted(text) \in Text
<1>1. CASE text[1] = 46
  <2>1. <<46>> \in Seq(Octet)
    BY DEF Octet
  <2>2. PICK line : line = <<46>> \o text
    OBVIOUS
  <2>3. line \in Seq(Octet) /\ line # <<>> /\ line[1] = 46
    BY <2>1, <2>2
  <2>4. QED
    BY <1>1, <2>2, <2>3 DEF Dotted, Text
<1>2. CASE text[1] # 46
  BY <1>2 DEF Dotted, Text
<1>3. QED
  BY <1>1, <1>2


LEMMA WrittenText ==
  ASSUME NEW bytes, NEW text, NEW pos, NEW lo, NEW cnt, NEW length \in Nat,
         Written(text, pos, lo, cnt, bytes, length)
  PROVE  text \in Seq(Octet) /\ text # <<>> /\ text[1] # 0
<1>1. /\ text \in Seq(Octet) /\ cnt \in Nat \ {0} /\ pos[0] = 0
      /\ \A k \in 1 .. cnt : /\ k <= pos[k] /\ pos[k] <= Len(text)
                             /\ WrittenAt(text, pos[k - 1] + 1, bytes[lo + k])
      /\ pos \in [0 .. cnt -> Nat]
  BY DEF Written
<1>2. 1 \in 1 .. cnt /\ 1 - 1 = 0
  BY <1>1
<1>3. WrittenAt(text, pos[0] + 1, bytes[lo + 1]) /\ 1 <= pos[1] /\ pos[1] <= Len(text)
  BY <1>1, <1>2
<1>4. text[pos[0] + 1] # 0
  BY <1>3 DEF WrittenAt
<1>5. pos[0] + 1 = 1
  BY <1>1
<1>6. pos[1] \in Nat
  BY <1>1
<1>7. text # <<>>
  BY <1>1, <1>3, <1>6
<1>8. QED
  BY <1>1, <1>4, <1>5, <1>7

DataLine == [kind : {"data"}, text : Text]

\* Line j of the data holds the bytes up to end[j].
Holds(data, bytes, length, m, end) ==
  /\ data \in Seq(DataLine) /\ Len(data) = m
  /\ \A j \in 1 .. m : \A told \in {-1, length} :
       DecodeLine(data[j].text, told) = Part(bytes, end[j - 1], end[j] - end[j - 1])

LEMMA DataHolds ==
  ASSUME NEW bytes \in Seq(Octet), NEW length \in Nat \ {0}
  PROVE  \E m, end : Ends(bytes, m, end) /\ Holds(DataLines(bytes, length), bytes, length, m, end)
<1>1. PICK lines : lines = Encoded(bytes, length)
  OBVIOUS
<1>2. PICK end : Cut(lines, end, Len(bytes), bytes, length)
  BY <1>1, EncodedCut
<1>3. PICK m \in Nat : m = Len(lines) /\ lines \in Seq(Seq(Octet)) /\ DOMAIN lines = 1 .. m
  BY <1>2 DEF Cut
<1>4. PICK data : data = [n \in DOMAIN lines |-> [kind |-> "data", text |-> Dotted(lines[n])]]
  OBVIOUS
<1>5. data = DataLines(bytes, length)
  BY <1>1, <1>4 DEF DataLines
<1>6. Ends(bytes, m, end)
  BY <1>2, <1>3 DEF Cut, Ends
<1>7. ASSUME NEW j \in 1 .. m
      PROVE  /\ data[j] = [kind |-> "data", text |-> Dotted(lines[j])]
             /\ Dotted(lines[j]) \in Text
             /\ \A told \in {-1, length} :
                  DecodeLine(data[j].text, told) = Part(bytes, end[j - 1], end[j] - end[j - 1])
  <2>1. data[j] = [kind |-> "data", text |-> Dotted(lines[j])]
    BY <1>3, <1>4
  <2>2. PICK pos : Written(lines[j], pos, end[j - 1], end[j] - end[j - 1], bytes, length)
    BY <1>2, <1>3 DEF Cut
  <2>3. PICK text, lo, cnt : text = lines[j] /\ lo = end[j - 1] /\ cnt = end[j] - end[j - 1]
    OBVIOUS
  <2>4. Written(text, pos, lo, cnt, bytes, length)
    BY <2>2, <2>3, Zenon
  <2>5. text \in Seq(Octet) /\ text # <<>> /\ text[1] # 0
    BY <2>4, WrittenText
  <2>6. Dotted(text) \in Text
    BY <2>5, DottedText
  <2>7. \A told \in {-1, length} : DecodeLine(Dotted(text), told) = Part(bytes, lo, cnt)
    BY <2>4, LineDecodes
  <2>8. data[j].text = Dotted(text)
    BY <2>1, <2>3
  <2>9. QED
    BY <2>1, <2>3, <2>6, <2>7, <2>8, Zenon
<1>8. data \in Seq(DataLine) /\ Len(data) = m
  <2>1. ASSUME NEW j \in 1 .. m PROVE data[j] \in DataLine
    <3>1. data[j] = [kind |-> "data", text |-> Dotted(lines[j])] /\ Dotted(lines[j]) \in Text
      BY <1>7
    <3>2. QED
      BY <3>1 DEF DataLine
  <2>2. data = [j \in 1 .. m |-> data[j]]
    BY <1>3, <1>4
  <2>3. data \in [1 .. m -> DataLine]
    BY <2>1, <2>2
  <2>4. QED
    BY <2>3
<1>9. Holds(data, bytes, length, m, end)
  BY <1>7, <1>8 DEF Holds
<1>10. QED
  BY <1>5, <1>6, <1>9

LEMMA ArticleShape ==
  ASSUME NEW bytes \in Seq(Octet), NEW length \in LineLength,
         NEW multipart \in BOOLEAN, NEW tellsLength \in BOOLEAN,
         NEW crc \in {NULL, Crc32Of(bytes)}
  PROVE  /\ Article(bytes, length, multipart, tellsLength, crc) \in Seq(Lines(bytes))
         /\ \E m, end :
              /\ Ends(bytes, m, end)
              /\ Shape(Article(bytes, length, multipart, tellsLength, crc),
                       bytes, Heads(multipart), m, end, Told(length, tellsLength), crc)
<1>1. length \in Nat \ {0}
  BY YencAssumption
<1>2. PICK data : data = DataLines(bytes, length)
  OBVIOUS
<1>3. PICK m, end : Ends(bytes, m, end) /\ Holds(data, bytes, length, m, end)
  BY <1>1, <1>2, DataHolds
<1>4. PICK sent : sent = Article(bytes, length, multipart, tellsLength, crc)
  OBVIOUS
<1>5. PICK s, b, p, y, z :
        /\ s = [kind |-> "status"]
        /\ b = [kind |-> "ybegin", size |-> (IF multipart THEN Before ELSE 0) + Len(bytes),
                line |-> IF tellsLength THEN length ELSE NULL,
                part |-> IF multipart THEN 2 ELSE NULL, name |-> "posted"]
        /\ p = [kind |-> "ypart", begin |-> (IF multipart THEN Before ELSE 0) + 1,
                end |-> (IF multipart THEN Before ELSE 0) + Len(bytes)]
        /\ y = [kind |-> "yend", crc32 |-> crc]
        /\ z = [kind |-> "data", text |-> <<46>>]
  OBVIOUS
<1>6. PICK h : h = Heads(multipart)
  OBVIOUS
<1>7. PICK S : S = Lines(bytes)
  OBVIOUS
<1>8. s \in S /\ b \in S /\ p \in S /\ y \in S /\ z \in S
  <2>1. Len(bytes) \in Int /\ (IF multipart THEN Before ELSE 0) \in Int
    BY DEF Before
  <2>2. s \in S
    BY <1>5, <1>7 DEF Lines
  <2>3. b \in S
    BY <1>5, <1>7, <2>1 DEF Lines
  <2>4. p \in S
    BY <1>5, <1>7, <2>1 DEF Lines
  <2>5. y \in S
    BY <1>5, <1>7 DEF Lines
  <2>6. z \in S
    <3>1. <<46>> \in Seq(Octet) /\ <<46>> # <<>> /\ <<46>>[1] # 0
      BY DEF Octet
    <3>2. <<46>> \in Text
      BY <3>1 DEF Text
    <3>3. QED
      BY <1>5, <1>7, <3>2 DEF Lines
  <2>7. QED
    BY <2>2, <2>3, <2>4, <2>5, <2>6
<1>9. data \in Seq(S) /\ m \in Nat /\ Len(data) = m
  <2>1. DataLine \subseteq S
    BY <1>7 DEF Lines, DataLine
  <2>2. data \in Seq(DataLine) /\ m \in Nat /\ Len(data) = m
    BY <1>3 DEF Holds, Ends
  <2>3. QED
    BY <2>1, <2>2
<1>10. Joint(sent, s, b, p, data, y, z, m, h, S)
  <2>1. h \in {2, 3} /\ (h = 3 <=> multipart)
    BY <1>6 DEF Heads
  <2>2. sent = <<s, b>> \o (IF multipart THEN <<p>> ELSE <<>>) \o data \o <<y, z>>
    BY <1>2, <1>4, <1>5, Zenon DEF Article
  <2>3. QED
    BY <1>8, <1>9, <2>1, <2>2, Zenon DEF Joint
<1>11. /\ sent \in Seq(S) /\ Len(sent) = h + m + 2
       /\ sent[1] = s /\ sent[2] = b /\ (h = 3 => sent[3] = p)
       /\ \A j \in 1 .. m : sent[h + j] = data[j]
       /\ sent[h + m + 1] = y
  BY <1>10, Joined
<1>12. h = 3 => sent[3] = PartLine(bytes)
  BY <1>5, <1>6, <1>11 DEF PartLine, Heads
<1>13. ASSUME NEW j \in 1 .. m
       PROVE  /\ sent[h + j].kind = "data"
              /\ DecodeLine(sent[h + j].text, Told(length, tellsLength)) =
                   Part(bytes, end[j - 1], end[j] - end[j - 1])
  <2>1. data[j] \in DataLine
    BY <1>3, <1>9, ElementOfSeq DEF Holds
  <2>2. Told(length, tellsLength) \in {-1, length}
    BY DEF Told
  <2>3. DecodeLine(data[j].text, Told(length, tellsLength)) =
          Part(bytes, end[j - 1], end[j] - end[j - 1])
    BY <1>3, <2>2, Zenon DEF Holds
  <2>4. QED
    BY <1>11, <2>1, <2>3 DEF DataLine
<1>14. Shape(sent, bytes, h, m, end, Told(length, tellsLength), crc)
  <2>1. sent[1].kind = "status" /\ h \in {2, 3}
    BY <1>5, <1>6, <1>11 DEF Heads
  <2>2. FileSize(bytes, h) = (IF multipart THEN Before ELSE 0) + Len(bytes)
    BY <1>6 DEF Heads, FileSize
  <2>3. Told(length, tellsLength) = -1 <=> ~ tellsLength
    BY <1>1 DEF Told
  <2>4. (IF Told(length, tellsLength) = -1 THEN NULL ELSE Told(length, tellsLength)) =
          IF tellsLength THEN length ELSE NULL
    BY <2>3, Zenon DEF Told
  <2>5. b = [kind |-> "ybegin", size |-> FileSize(bytes, h),
             line |-> IF Told(length, tellsLength) = -1 THEN NULL ELSE Told(length, tellsLength),
             part |-> IF h = 3 THEN 2 ELSE NULL, name |-> "posted"]
    <3>1. h = 3 <=> multipart
      BY <1>6 DEF Heads
    <3>2. (IF h = 3 THEN 2 ELSE NULL) = IF multipart THEN 2 ELSE NULL
      BY <3>1, Zenon
    <3>3. QED
      BY <1>5, <2>2, <2>4, <3>2, Zenon
  <2>6. QED
    BY <1>5, <1>11, <1>12, <1>13, <2>1, <2>5, Zenon DEF Shape
<1>15. QED
  BY <1>3, <1>4, <1>6, <1>7, <1>11, <1>14, Zenon


-----------------------------------------------------------------------------
(* What holds of any article, damaged or not.                               *)
Sound ==
  /\ payload \in Seq(Octet)
  /\ article \in Seq(Lines(payload))
  /\ next \in 1 .. Len(article) + 1
  /\ lineLength \in {-1} \cup LineLength
  /\ decoded \in Seq(Octet)
  /\ allocated = (decoded # <<>>)
  /\ checksum = Crc32Over(Crc32Init, decoded)
  /\ yencChecksum \in {{}, Crc32Of(payload)}
  /\ Accepted => allocated /\ yencChecksum # {} /\ yencChecksum = Crc32Finish(checksum)

\* How many lines of data are behind when line n is next.
Behind(n, h, m) == IF n <= h + 1 THEN 0 ELSE IF n <= h + m + 1 THEN n - h - 1 ELSE m

\* What holds of an article that is as it was sent: how far its lines have been
\* read says what the decoder knows.
Progress(h, m, end, told, crc) ==
  /\ next \in 1 .. h + m + 2
  /\ next <= 2 => ~ inData /\ lineLength = -1
  /\ next \in 3 .. h + m + 1 => inData
  /\ next >= 3 => lineLength = told /\ fileSize = FileSize(payload, h)
  /\ next <= h => dataSize = 0
  /\ next = h + 1 => dataSize = IF h = 3 THEN Len(payload) ELSE 0
  /\ Behind(next, h, m) > 0 => dataSize = Len(payload)
  /\ decoded = Part(payload, 0, end[Behind(next, h, m)])
  /\ yencChecksum = IF next = h + m + 2 THEN ReadKeyword(crc, {}) ELSE {}
  /\ result # NULL => /\ next = h + m + 2
                      /\ result = IF allocated THEN Verdict(dataSize) ELSE Crashed

Intact ==
  ~ damaged =>
    \E h \in {2, 3}, told \in {-1} \cup LineLength, crc \in {NULL, Crc32Of(payload)} :
      \E m, end : /\ Ends(payload, m, end)
                  /\ Shape(article, payload, h, m, end, told, crc)
                  /\ Progress(h, m, end, told, crc)

-----------------------------------------------------------------------------
(* Damage leaves an article of the same lines.                              *)
LEMMA DamagedType ==
  ASSUME NEW S, NEW sent \in Seq(S), NEW hurt \in Damaged(sent)
  PROVE  hurt \in Seq(S)
<1>1. PICK n \in Nat : n = Len(sent)
  OBVIOUS
<1>2. ASSUME NEW lo \in Int, NEW hi \in Int, 1 <= lo, hi <= n
      PROVE  SubSeq(sent, lo, hi) \in Seq(S)
  <2>1. \A i \in lo .. hi : sent[i] \in S
    BY <1>1, <1>2, ElementOfSeq
  <2>2. QED
    BY <2>1, SubSeqProperties
<1>3. ASSUME NEW k \in 1 .. n, hurt = RemoveAt(sent, k)
      PROVE  hurt \in Seq(S)
  <2>1. SubSeq(sent, 1, k - 1) \in Seq(S)
    BY <1>2
  <2>2. SubSeq(sent, k + 1, n) \in Seq(S)
    BY <1>2
  <2>3. PICK a, b : a = SubSeq(sent, 1, k - 1) /\ b = SubSeq(sent, k + 1, n)
    OBVIOUS
  <2>4. hurt = a \o b
    BY <1>1, <1>3, <2>3, Zenon DEF RemoveAt
  <2>5. a \in Seq(S) /\ b \in Seq(S)
    BY <2>1, <2>2, <2>3, Zenon
  <2>6. QED
    BY <2>4, <2>5
<1>4. ASSUME NEW k \in 1 .. n, hurt = InsertAt(sent, k, sent[k])
      PROVE  hurt \in Seq(S)
  <2>1. SubSeq(sent, 1, k - 1) \in Seq(S)
    BY <1>2
  <2>2. SubSeq(sent, k, n) \in Seq(S)
    BY <1>2
  <2>3. PICK a, b, c : a = SubSeq(sent, 1, k - 1) /\ b = <<sent[k]>> /\ c = SubSeq(sent, k, n)
    OBVIOUS
  <2>4. hurt = a \o b \o c
    BY <1>1, <1>4, <2>3, Zenon DEF InsertAt
  <2>5. sent[k] \in S
    BY <1>1, ElementOfSeq
  <2>6. a \in Seq(S) /\ c \in Seq(S)
    BY <2>1, <2>2, <2>3, Zenon
  <2>7. b \in Seq(S)
    BY <2>3, <2>5
  <2>8. QED
    BY <2>4, <2>6, <2>7
<1>5. ASSUME NEW k \in 1 .. n - 1,
             hurt = [sent EXCEPT ![k] = sent[k + 1], ![k + 1] = sent[k]]
      PROVE  hurt \in Seq(S)
  <2>1. sent \in [1 .. n -> S] /\ k + 1 \in 1 .. n
    BY <1>1
  <2>2. hurt \in [1 .. n -> S]
    BY <1>5, <2>1
  <2>3. QED
    BY <2>2
<1>6. QED
  BY <1>1, <1>3, <1>4, <1>5 DEF Damaged

LEMMA PayloadType == Payload \subseteq Seq(Octet)
<1>1. SUFFICES ASSUME NEW n \in Nat, NEW p \in [1 .. n -> Byte] PROVE p \in Seq(Octet)
  BY YencAssumption DEF Payload
<1>2. Byte \subseteq Octet
  BY YencAssumption DEF Octet
<1>3. p \in [1 .. n -> Octet]
  BY <1>2
<1>4. QED
  BY <1>3

LEMMA CrcOfType ==
  ASSUME NEW S, NEW bytes \in Seq(S)
  PROVE  Crc32Of(bytes) \in Word
<1>1. Ones \in Word /\ Crc32Init \in Word
  BY DEF Word, Crc32Init
<1>2. Crc32Over(Crc32Init, bytes) \in Word
  BY <1>1, CrcType
<1>3. QED
  BY <1>1, <1>2, XorType DEF Crc32Of, Crc32Finish

\* The lines by their kind.
LEMMA LineOfKind ==
  ASSUME NEW bytes, NEW line \in Lines(bytes)
  PROVE  /\ line.kind = "data" => line.text \in Text
         /\ line.kind = "ybegin" => line.line \in LineLength \cup {NULL}
         /\ line.kind = "yend" => line.crc32 \in {NULL, Crc32Of(bytes)}
<1>1. CASE line \in [kind : {"status"}]
  BY <1>1
<1>2. CASE line \in [kind : {"ybegin"}, size : Int, line : LineLength \cup {NULL},
                      part : {2, NULL}, name : {"posted"}]
  BY <1>2
<1>3. CASE line \in [kind : {"ypart"}, begin : Int, end : Int]
  BY <1>3
<1>4. CASE line \in [kind : {"data"}, text : Text]
  BY <1>4
<1>5. CASE line \in [kind : {"yend"}, crc32 : {NULL, Crc32Of(bytes)}]
  BY <1>5
<1>6. QED
  BY <1>1, <1>2, <1>3, <1>4, <1>5, Zenon DEF Lines


LEMMA SoundInit == Init => Sound
<1> SUFFICES ASSUME Init PROVE Sound
  OBVIOUS
<1>1. payload \in Seq(Octet)
  BY PayloadType DEF Init
<1>2. article \in Seq(Lines(payload))
  <2>1. PICK length \in LineLength, multipart \in BOOLEAN, tellsLength \in BOOLEAN,
             crc \in {NULL, Crc32Of(payload)} :
          LET sent == Article(payload, length, multipart, tellsLength, crc)
          IN article \in {sent} \cup Damaged(sent)
    BY Zenon DEF Init
  <2>2. PICK sent : sent = Article(payload, length, multipart, tellsLength, crc)
    OBVIOUS
  <2>3. sent \in Seq(Lines(payload))
    BY <1>1, <2>2, ArticleShape, Zenon
  <2>4. article = sent \/ article \in Damaged(sent)
    BY <2>1, <2>2, Zenon
  <2>5. QED
    BY <2>3, <2>4, DamagedType, Zenon
<1>3. next \in 1 .. Len(article) + 1
  BY <1>2 DEF Init
<1>4. lineLength \in {-1} \cup LineLength /\ decoded \in Seq(Octet)
  BY DEF Init
<1>5. allocated = (decoded # <<>>)
  BY Zenon DEF Init
<1>6. checksum = Crc32Over(Crc32Init, decoded)
  <2>1. Crc32Init \in Word
    BY DEF Crc32Init, Word
  <2>2. QED
    BY <2>1, CrcNothing, Zenon DEF Init
<1>7. yencChecksum \in {{}, Crc32Of(payload)} /\ ~ Accepted
  BY Zenon DEF Init, Accepted
<1>8. QED
  BY <1>1, <1>2, <1>3, <1>4, <1>5, <1>6, <1>7, Zenon DEF Sound

LEMMA NextInside ==
  ASSUME Sound, next <= Len(article)
  PROVE  next + 1 \in 1 .. Len(article) + 1 /\ article[next] \in Lines(payload)
<1>1. next \in 1 .. Len(article)
  BY DEF Sound
<1>2. article[next] \in Lines(payload)
  BY <1>1, ElementOfSeq DEF Sound
<1>3. QED
  BY <1>1, <1>2

LEMMA SoundNext == Sound /\ [Next]_vars => Sound'
<1> SUFFICES ASSUME Sound, [Next]_vars PROVE Sound'
  OBVIOUS
<1>1. CASE UNCHANGED vars
  BY <1>1, Zenon DEF Sound, Accepted, vars, posted, header, output
<1>2. CASE OtherLine
  <2>1. /\ UNCHANGED <<payload, article, lineLength, decoded, allocated, checksum,
                       yencChecksum, result>>
        /\ next' = next + 1 /\ next <= Len(article)
    BY <1>2, Zenon DEF OtherLine, Reading, posted, header, output
  <2>2. next' \in 1 .. Len(article) + 1
    BY <2>1, NextInside, Zenon
  <2>3. QED
    BY <2>1, <2>2, Zenon DEF Sound, Accepted
<1>3. CASE YBegin
  <2>1. /\ UNCHANGED <<payload, article, decoded, allocated, checksum, yencChecksum, result>>
        /\ next' = next + 1 /\ next <= Len(article) /\ article[next].kind = "ybegin"
        /\ lineLength' = ReadKeyword(article[next].line, lineLength)
    BY <1>3, Zenon DEF YBegin, Reading, posted, output
  <2>2. next' \in 1 .. Len(article) + 1 /\ article[next] \in Lines(payload)
    BY <2>1, NextInside, Zenon
  <2>3. article[next].line \in LineLength \cup {NULL}
    BY <2>1, <2>2, LineOfKind, Zenon
  <2>4. lineLength' \in {-1} \cup LineLength
    BY <2>1, <2>3, Zenon DEF Sound, ReadKeyword
  <2>5. QED
    BY <2>1, <2>2, <2>4, Zenon DEF Sound, Accepted
<1>4. CASE YPart
  <2>1. /\ UNCHANGED <<payload, article, lineLength, decoded, allocated, checksum,
                       yencChecksum, result>>
        /\ next' = next + 1 /\ next <= Len(article)
    BY <1>4, Zenon DEF YPart, Reading, posted, output
  <2>2. next' \in 1 .. Len(article) + 1
    BY <2>1, NextInside, Zenon
  <2>3. QED
    BY <2>1, <2>2, Zenon DEF Sound, Accepted
<1>5. CASE Data
  <2>1. PICK bytes : bytes = DecodeLine(article[next].text, lineLength)
    OBVIOUS
  <2>2. /\ UNCHANGED <<payload, article, lineLength, yencChecksum, result>>
        /\ next' = next + 1 /\ next <= Len(article) /\ article[next].kind = "data"
        /\ result = NULL /\ allocated' = TRUE
        /\ decoded' = decoded \o bytes
        /\ checksum' = Crc32Over(checksum, bytes)
    BY <1>5, <2>1, Zenon DEF Data, Reading, posted
  <2>3. next' \in 1 .. Len(article) + 1 /\ article[next] \in Lines(payload)
    BY <2>2, NextInside, Zenon
  <2>4. PICK text : text = article[next].text
    OBVIOUS
  <2>5. text \in Text
    BY <2>2, <2>3, <2>4, LineOfKind, Zenon
  <2>6. text \in Seq(Octet) /\ text # <<>> /\ text[1] # 0
    BY <2>5 DEF Text
  <2>7. lineLength \in Int /\ (lineLength = -1 \/ lineLength > 0)
    BY YencAssumption DEF Sound
  <2>8. bytes \in Seq(Octet) /\ bytes # <<>>
    BY <2>1, <2>4, <2>6, <2>7, DecodesSome, Zenon
  <2>9. decoded \in Seq(Octet) /\ checksum = Crc32Over(Crc32Init, decoded)
    BY DEF Sound
  <2>10. decoded' \in Seq(Octet) /\ decoded' # <<>>
    BY <2>2, <2>8, <2>9
  <2>11. checksum' = Crc32Over(Crc32Init, decoded')
    <3>1. Crc32Init \in Word
      BY DEF Crc32Init, Word
    <3>2. Crc32Over(Crc32Init, decoded \o bytes) = Crc32Over(Crc32Over(Crc32Init, decoded), bytes)
      BY <2>8, <2>9, <3>1, CrcConcat
    <3>3. QED
      BY <2>2, <2>9, <3>2, Zenon
  <2>12. allocated' = (decoded' # <<>>)
    BY <2>2, <2>10, Zenon
  <2>13. ~ Accepted'
    BY <2>2, Zenon DEF Accepted
  <2>14. QED
    BY <2>2, <2>3, <2>10, <2>11, <2>12, <2>13, Zenon DEF Sound
<1>6. CASE YEnd
  <2>1. /\ UNCHANGED <<payload, article, lineLength, decoded, allocated, checksum, result>>
        /\ next' = next + 1 /\ next <= Len(article) /\ article[next].kind = "yend"
        /\ result = NULL /\ yencChecksum' = ReadKeyword(article[next].crc32, {})
    BY <1>6, Zenon DEF YEnd, Reading, ParseYEnd, posted, header, output
  <2>2. next' \in 1 .. Len(article) + 1 /\ article[next] \in Lines(payload)
    BY <2>1, NextInside, Zenon
  <2>3. article[next].crc32 \in {NULL, Crc32Of(payload)}
    BY <2>1, <2>2, LineOfKind, Zenon
  <2>4. yencChecksum' \in {{}, Crc32Of(payload)}
    BY <2>1, <2>3, Zenon DEF ReadKeyword
  <2>5. ~ Accepted'
    BY <2>1, Zenon DEF Accepted
  <2>6. QED
    BY <2>1, <2>2, <2>4, <2>5, Zenon DEF Sound
<1>7. CASE Finish
  <2>1. /\ UNCHANGED <<payload, article, next, lineLength, decoded, allocated, checksum,
                       yencChecksum>>
        /\ result' = IF allocated THEN Verdict(dataSize) ELSE Crashed
    BY <1>7, Zenon DEF Finish, posted, header, output
  <2>2. Accepted' => allocated /\ yencChecksum # {} /\ yencChecksum = Crc32Finish(checksum)
    BY <2>1, Zenon DEF Accepted, Verdict
  <2>3. QED
    BY <2>1, <2>2, Zenon DEF Sound
<1>8. QED
  BY <1>1, <1>2, <1>3, <1>4, <1>5, <1>6, <1>7, Zenon DEF Next

(* The types hold of every article that comes.                              *)
LEMMA SoundTypeOK == Sound => TypeOK
<1> SUFFICES ASSUME Sound PROVE TypeOK
  OBVIOUS
<1>1. Crc32Init \in Word /\ decoded \in Seq(Octet) /\ payload \in Seq(Octet)
  BY DEF Crc32Init, Word, Sound
<1>2. checksum \in Word
  BY <1>1, CrcType DEF Sound
<1>3. yencChecksum \in Word
  <2>1. {} \in Word /\ Crc32Of(payload) \in Word
    BY <1>1, CrcOfType DEF Word
  <2>2. QED
    BY <2>1 DEF Sound
<1>4. decoded \in Seq(0 .. 255) /\ checksum \subseteq Ones /\ yencChecksum \subseteq Ones
  BY <1>1, <1>2, <1>3, Zenon DEF Word, Octet
<1>5. QED
  BY <1>4, Zenon DEF Sound, TypeOK

-----------------------------------------------------------------------------
(* An article that is as it was sent.                                       *)
LEMMA EndsFacts ==
  ASSUME NEW bytes \in Seq(Octet), NEW m, NEW end, Ends(bytes, m, end)
  PROVE  /\ m \in Nat /\ Len(bytes) \in Nat
         /\ Part(bytes, 0, end[0]) = <<>>
         /\ Part(bytes, 0, end[m]) = bytes
         /\ m = 0 <=> bytes = <<>>
         /\ m > 0 => Len(bytes) > 0
<1>1. m \in Nat /\ end[0] = 0 /\ end[m] = Len(bytes)
  BY DEF Ends
<1>2. PICK len \in Nat : len = Len(bytes)
  OBVIOUS
<1>3. m > 0 => len > 0
  <2>1. ASSUME m > 0 PROVE len > 0
    <3>1. 1 \in 1 .. m /\ 0 \in 0 .. m /\ 1 \in 0 .. m /\ 1 - 1 = 0
      BY <1>1, <2>1
    <3>2. end[0] < end[1] /\ end[1] <= len /\ end[1] \in Nat
      BY <1>2, <3>1 DEF Ends
    <3>3. QED
      BY <1>1, <1>2, <3>2
  <2>2. QED
    BY <2>1
<1>4. Part(bytes, 0, end[0]) = <<>>
  <2>1. Part(bytes, 0, 0) = SubSeq(bytes, 1, 0)
    BY DEF Part
  <2>2. SubSeq(bytes, 1, 0) = <<>>
    BY SubSeqEmpty
  <2>3. QED
    BY <1>1, <2>1, <2>2
<1>5. Part(bytes, 0, end[m]) = bytes
  <2>1. Part(bytes, 0, len) = SubSeq(bytes, 1, len)
    BY DEF Part
  <2>2. SubSeq(bytes, 1, len) = bytes
    BY <1>2, SubSeqFull
  <2>3. QED
    BY <1>1, <1>2, <2>1, <2>2
<1>6. m = 0 <=> bytes = <<>>
  <2>1. m = 0 => len = 0
    BY <1>1, <1>2
  <2>2. len = 0 <=> bytes = <<>>
    BY <1>2, EmptySeq
  <2>3. QED
    BY <1>1, <1>2, <1>3, <2>1, <2>2
<1>7. QED
  BY <1>1, <1>2, <1>3, <1>4, <1>5, <1>6

LEMMA IntactInit == Init => Intact
<1> SUFFICES ASSUME Init, ~ damaged PROVE Intact
  BY DEF Intact
<1>1. payload \in Seq(Octet)
  BY SoundInit DEF Sound
<1>2. PICK length \in LineLength, multipart \in BOOLEAN, tellsLength \in BOOLEAN,
           crc \in {NULL, Crc32Of(payload)} :
        LET sent == Article(payload, length, multipart, tellsLength, crc)
        IN damaged = (article # sent)
  BY Zenon DEF Init
<1>3. article = Article(payload, length, multipart, tellsLength, crc)
  BY <1>2, Zenon
<1>4. PICK h, told : h = Heads(multipart) /\ told = Told(length, tellsLength)
  OBVIOUS
<1>5. h \in {2, 3} /\ told \in {-1} \cup LineLength
  BY <1>4 DEF Heads, Told
<1>6. PICK m, end : Ends(payload, m, end) /\ Shape(article, payload, h, m, end, told, crc)
  BY <1>1, <1>3, <1>4, ArticleShape, Zenon
<1>7. m \in Nat /\ Part(payload, 0, end[0]) = <<>>
  BY <1>1, <1>6, EndsFacts
<1>8. /\ next = 1 /\ inData = FALSE /\ lineLength = -1 /\ dataSize = 0
      /\ decoded = <<>> /\ yencChecksum = {} /\ result = NULL
  BY DEF Init
<1>9. /\ 1 \in 1 .. h + m + 2 /\ 1 <= 2 /\ 1 \notin 3 .. h + m + 1 /\ ~ (1 >= 3)
      /\ 1 # h + 1 /\ 1 # h + m + 2 /\ Behind(1, h, m) = 0 /\ ~ (0 > 0)
  BY <1>5, <1>7 DEF Behind
<1>10. Progress(h, m, end, told, crc)
  BY <1>7, <1>8, <1>9, Zenon DEF Progress
<1>11. QED
  BY <1>5, <1>6, <1>10, Zenon DEF Intact

\* The line that is next says what is done.
LEMMA WhichStep ==
  ASSUME NEW h, NEW m \in Nat, NEW end, NEW told, NEW crc,
         Shape(article, payload, h, m, end, told, crc),
         Progress(h, m, end, told, crc), Next
  PROVE  \/ next = 1 /\ OtherLine
         \/ next = 2 /\ YBegin
         \/ next = 3 /\ h = 3 /\ YPart
         \/ next \in h + 1 .. h + m /\ Data
         \/ next = h + m + 1 /\ YEnd
         \/ next = h + m + 2 /\ Finish
<1>1. /\ h \in {2, 3} /\ Len(article) = h + m + 2
      /\ article[1].kind = "status" /\ article[2].kind = "ybegin"
      /\ h = 3 => article[3].kind = "ypart"
      /\ \A j \in 1 .. m : article[h + j].kind = "data"
      /\ article[h + m + 1].kind = "yend"
  <2>1. article[2] = [kind |-> "ybegin", size |-> FileSize(payload, h),
                      line |-> IF told = -1 THEN NULL ELSE told,
                      part |-> IF h = 3 THEN 2 ELSE NULL, name |-> "posted"]
    BY Zenon DEF Shape
  <2>2. article[2].kind = "ybegin"
    BY <2>1
  <2>3. h = 3 => article[3].kind = "ypart"
    <3>1. h = 3 => article[3] = PartLine(payload)
      BY Zenon DEF Shape
    <3>2. PartLine(payload).kind = "ypart"
      BY DEF PartLine
    <3>3. QED
      BY <3>1, <3>2, Zenon
  <2>4. article[h + m + 1].kind = "yend"
    <3>1. article[h + m + 1] = [kind |-> "yend", crc32 |-> crc]
      BY Zenon DEF Shape
    <3>2. QED
      BY <3>1
  <2>5. QED
    BY <2>2, <2>3, <2>4, Zenon DEF Shape
<1>2. next \in 1 .. h + m + 2 /\ (next \in 3 .. h + m + 1 => inData) /\ (next <= 2 => ~ inData)
  BY Zenon DEF Progress
<1>3. ASSUME NEW k \in h + 1 .. h + m PROVE article[k].kind = "data"
  <2>1. k - h \in 1 .. m /\ h + (k - h) = k
    BY <1>1
  <2>2. QED
    BY <1>1, <2>1
<1>4. PICK kind : kind = article[next].kind
  OBVIOUS
<1>5. /\ OtherLine => kind = "status" \/ (kind = "data" /\ ~ inData)
      /\ YBegin => kind = "ybegin"
      /\ YPart => kind = "ypart"
      /\ Data => kind = "data"
      /\ YEnd => kind = "yend"
  BY <1>4, Zenon DEF OtherLine, YBegin, YPart, Data, YEnd, Reading
<1>6. \/ ~ (next > 1 /\ article[next - 1].kind = "yend")
         /\ (OtherLine \/ YBegin \/ YPart \/ Data \/ YEnd)
      \/ Finish
  BY Zenon DEF Next
<1>7. Finish => next > Len(article) \/ (next > 1 /\ article[next - 1].kind = "yend")
  BY Zenon DEF Finish
<1>8. CASE next = h + m + 2
  <2>1. next - 1 = h + m + 1 /\ next > 1
    BY <1>1, <1>8
  <2>2. article[next - 1].kind = "yend"
    BY <1>1, <2>1
  <2>3. Finish
    BY <1>6, <2>1, <2>2, Zenon
  <2>4. QED
    BY <1>8, <2>3
<1>9. CASE next # h + m + 2
  <2>1. next \in 1 .. h + m + 1 /\ ~ (next > Len(article))
    BY <1>1, <1>2, <1>9
  <2>2. ASSUME next > 1 PROVE article[next - 1].kind # "yend"
    <3>1. next - 1 = 1 \/ next - 1 = 2 \/ (next - 1 = 3 /\ h = 3) \/ next - 1 \in h + 1 .. h + m
      BY <1>1, <2>1, <2>2
    <3>2. QED
      BY <1>1, <1>3, <3>1
  <2>3. ~ Finish
    BY <1>7, <2>1, <2>2, Zenon
  <2>4. OtherLine \/ YBegin \/ YPart \/ Data \/ YEnd
    BY <1>6, <2>3, Zenon
  <2>5. CASE next = 1
    <3>1. kind = "status"
      BY <1>1, <1>4, <2>5
    <3>2. QED
      BY <1>5, <2>4, <2>5, <3>1
  <2>6. CASE next = 2
    <3>1. kind = "ybegin"
      BY <1>1, <1>4, <2>6
    <3>2. QED
      BY <1>5, <2>4, <2>6, <3>1
  <2>7. CASE next = 3 /\ h = 3
    <3>1. kind = "ypart"
      BY <1>1, <1>4, <2>7
    <3>2. QED
      BY <1>5, <2>4, <2>7, <3>1
  <2>8. CASE next \in h + 1 .. h + m
    <3>1. kind = "data" /\ inData
      <4>1. next \in 3 .. h + m + 1
        BY <1>1, <2>1, <2>8
      <4>2. QED
        BY <1>2, <1>3, <1>4, <2>8, <4>1, Zenon
    <3>2. QED
      BY <1>5, <2>4, <2>8, <3>1
  <2>9. CASE next = h + m + 1
    <3>1. kind = "yend"
      BY <1>1, <1>4, <2>9
    <3>2. QED
      BY <1>5, <2>4, <2>9, <3>1
  <2>10. next = 1 \/ next = 2 \/ (next = 3 /\ h = 3) \/ next \in h + 1 .. h + m \/ next = h + m + 1
    BY <1>1, <2>1
  <2>11. QED
    BY <2>5, <2>6, <2>7, <2>8, <2>9, <2>10, Zenon
<1>10. QED
  BY <1>8, <1>9, Zenon


LEMMA PartJoin ==
  ASSUME NEW bytes \in Seq(Octet), NEW k \in Nat, NEW n \in Nat, k <= n, n <= Len(bytes)
  PROVE  Part(bytes, 0, k) \o Part(bytes, k, n - k) = Part(bytes, 0, n)
<1>1. Part(bytes, 0, k) = SubSeq(bytes, 1, k) /\ Part(bytes, 0, n) = SubSeq(bytes, 1, n)
  BY DEF Part
<1>2. Part(bytes, k, n - k) = SubSeq(bytes, k + 1, n)
  <2>1. k + (n - k) = n
    OBVIOUS
  <2>2. QED
    BY <2>1 DEF Part
<1>3. PICK len \in Nat : len = Len(bytes)
  OBVIOUS
<1>4. 1 \in 1 .. len + 1 /\ k \in 1 - 1 .. len /\ n \in k .. len
  BY <1>3
<1>5. SubSeq(bytes, 1, k) \o SubSeq(bytes, k + 1, n) = SubSeq(bytes, 1, n)
  BY <1>3, <1>4, ConcatAdjacentSubSeq
<1>6. QED
  BY <1>1, <1>2, <1>5, Zenon

LEMMA BehindNext ==
  ASSUME NEW h \in {2, 3}, NEW m \in Nat, NEW n \in 1 .. h + m + 2
  PROVE  /\ Behind(n, h, m) \in 0 .. m
         /\ n \in h + 1 .. h + m =>
              Behind(n, h, m) = n - h - 1 /\ Behind(n + 1, h, m) = n - h
         /\ n \notin h + 1 .. h + m => Behind(n + 1, h, m) = Behind(n, h, m)
         /\ n <= h + 1 => Behind(n, h, m) = 0
         /\ n = h + m + 2 => Behind(n, h, m) = m
BY DEF Behind

\* What the header tells, once it is read.
Tells(sent, bytes, h, m, told, crc) ==
  /\ \A old : ReadKeyword(sent[2].size, old) = FileSize(bytes, h)
  /\ ReadKeyword(sent[2].line, -1) = told
  /\ h = 3 => PartSize(sent[3]) = Len(bytes)
  /\ sent[h + m + 1].crc32 = crc

LEMMA HeaderRead ==
  ASSUME NEW bytes \in Seq(Octet), NEW h, NEW m, NEW end,
         NEW told \in {-1} \cup LineLength, NEW crc,
         NEW sent, Shape(sent, bytes, h, m, end, told, crc)
  PROVE  Tells(sent, bytes, h, m, told, crc)
<1>1. PICK len \in Nat : len = Len(bytes)
  OBVIOUS
<1>2. FileSize(bytes, h) \in Int
  BY <1>1 DEF FileSize, Before
<1>3. FileSize(bytes, h) # NULL
  BY <1>2, YencAssumption
<1>4. PICK size, line : size = FileSize(bytes, h) /\ line = IF told = -1 THEN NULL ELSE told
  OBVIOUS
<1>5. sent[2] = [kind |-> "ybegin", size |-> size, line |-> line,
                 part |-> IF h = 3 THEN 2 ELSE NULL, name |-> "posted"]
  BY <1>4, Zenon DEF Shape
<1>6. sent[2].size = size /\ sent[2].line = line
  BY <1>5
<1>7. ReadKeyword(line, -1) = told
  <2>1. told \in Int /\ told # NULL
    BY YencAssumption
  <2>2. QED
    BY <1>4, <2>1, Zenon DEF ReadKeyword
<1>8. ASSUME h = 3 PROVE PartSize(sent[3]) = Len(bytes)
  <2>1. sent[3] = PartLine(bytes)
    BY <1>8, Zenon DEF Shape
  <2>2. sent[3].begin = 6 /\ sent[3].end = 5 + len
    BY <1>1, <2>1 DEF PartLine, Before
  <2>3. ReadKeyword(6, 0) = 6 /\ ReadKeyword(5 + len, 0) = 5 + len
    <3>1. 6 # NULL /\ 5 + len # NULL
      BY YencAssumption
    <3>2. QED
      BY <3>1, Zenon DEF ReadKeyword
  <2>4. PartSize(sent[3]) = (5 + len) - (6 - 1)
    BY <2>2, <2>3, Zenon DEF PartSize
  <2>5. QED
    BY <1>1, <2>4
<1>9. sent[h + m + 1].crc32 = crc
  <2>1. sent[h + m + 1] = [kind |-> "yend", crc32 |-> crc]
    BY Zenon DEF Shape
  <2>2. QED
    BY <2>1
<1>10. QED
  BY <1>3, <1>4, <1>6, <1>7, <1>8, <1>9, Zenon DEF ReadKeyword, Tells


LEMMA ProgressNext ==
  ASSUME Sound, NEW h \in {2, 3}, NEW m, NEW end, NEW told \in {-1} \cup LineLength, NEW crc,
         Ends(payload, m, end), Shape(article, payload, h, m, end, told, crc),
         Progress(h, m, end, told, crc), Next
  PROVE  Progress(h, m, end, told, crc)'
<1>1. /\ payload \in Seq(Octet) /\ m \in Nat /\ Len(payload) \in Nat
      /\ m > 0 => Len(payload) > 0
  <2>1. payload \in Seq(Octet)
    BY DEF Sound
  <2>2. QED
    BY <2>1, EndsFacts
<1>2. /\ next \in 1 .. h + m + 2
      /\ next <= 2 => ~ inData /\ lineLength = -1
      /\ next \in 3 .. h + m + 1 => inData
      /\ next >= 3 => lineLength = told /\ fileSize = FileSize(payload, h)
      /\ next <= h => dataSize = 0
      /\ next = h + 1 => dataSize = IF h = 3 THEN Len(payload) ELSE 0
      /\ Behind(next, h, m) > 0 => dataSize = Len(payload)
      /\ decoded = Part(payload, 0, end[Behind(next, h, m)])
      /\ yencChecksum = IF next = h + m + 2 THEN ReadKeyword(crc, {}) ELSE {}
      /\ result # NULL => /\ next = h + m + 2
                          /\ result = IF allocated THEN Verdict(dataSize) ELSE Crashed
  BY Zenon DEF Progress
<1>3. payload' = payload
  BY Zenon DEF Next, OtherLine, YBegin, YPart, Data, YEnd, Finish, posted
<1>4. /\ \A n \in 1 .. h + m + 2 : Behind(n, h, m) \in 0 .. m
      /\ \A n \in h + 1 .. h + m : Behind(n, h, m) = n - h - 1 /\ Behind(n + 1, h, m) = n - h
      /\ \A n \in 1 .. h + 1 : Behind(n, h, m) = 0
      /\ Behind(h + m + 1, h, m) = m /\ Behind(h + m + 2, h, m) = m
  BY <1>1 DEF Behind
<1>5. /\ \A old : ReadKeyword(article[2].size, old) = FileSize(payload, h)
      /\ ReadKeyword(article[2].line, -1) = told
      /\ h = 3 => PartSize(article[3]) = Len(payload)
      /\ article[h + m + 1].crc32 = crc
  <2>1. payload \in Seq(Octet)
    BY <1>1
  <2>2. Tells(article, payload, h, m, told, crc)
    BY <2>1, HeaderRead
  <2>3. QED
    BY <2>2, Zenon DEF Tells
<1>6. CASE next = 1 /\ OtherLine
  <2>1. /\ next' = next + 1
        /\ UNCHANGED <<inData, dataSize, lineLength, decoded, yencChecksum, result>>
        /\ result = NULL
    BY <1>6, Zenon DEF OtherLine, Reading, header, output
  <2>2. /\ next' = 2 /\ next = 1 /\ 2 \in 1 .. h + m + 2 /\ 2 <= 2 /\ 2 \notin 3 .. h + m + 1
        /\ ~ (2 >= 3) /\ 2 # h + 1 /\ 2 # h + m + 2 /\ 1 # h + m + 2 /\ 1 <= 2 /\ 1 <= h
        /\ Behind(1, h, m) = 0 /\ Behind(2, h, m) = 0 /\ ~ (0 > 0)
    BY <1>1, <1>4, <1>6, <2>1
  <2>3. QED
    BY <1>2, <1>3, <2>1, <2>2, Zenon DEF Progress
<1>7. CASE next = 2 /\ YBegin
  <2>1. /\ next' = next + 1 /\ inData' = TRUE
        /\ fileSize' = ReadKeyword(article[2].size, fileSize)
        /\ lineLength' = ReadKeyword(article[2].line, lineLength)
        /\ UNCHANGED <<dataSize, decoded, yencChecksum, result>>
        /\ result = NULL
    BY <1>7, Zenon DEF YBegin, Reading, output
  <2>2. /\ next' = 3 /\ 3 \in 1 .. h + m + 2 /\ ~ (3 <= 2)
        /\ 3 # h + m + 2 /\ 2 # h + m + 2 /\ 2 <= 2 /\ 2 <= h /\ (3 = h + 1 => h # 3)
        /\ Behind(2, h, m) = 0 /\ Behind(3, h, m) = 0 /\ ~ (0 > 0)
    BY <1>1, <1>4, <1>7, <2>1
  <2>3. fileSize' = FileSize(payload, h) /\ lineLength' = told
    BY <1>2, <1>5, <1>7, <2>1, <2>2, Zenon
  <2>4. QED
    BY <1>2, <1>3, <1>7, <2>1, <2>2, <2>3, Zenon DEF Progress
<1>8. CASE next = 3 /\ h = 3 /\ YPart
  <2>1. /\ next' = next + 1 /\ dataSize' = PartSize(article[3])
        /\ UNCHANGED <<inData, fileSize, lineLength, decoded, yencChecksum, result>>
        /\ result = NULL
    BY <1>8, Zenon DEF YPart, Reading, output
  <2>2. /\ next' = 4 /\ 4 \in 1 .. h + m + 2 /\ ~ (4 <= 2) /\ 3 \in 3 .. h + m + 1 /\ 3 >= 3
        /\ ~ (4 <= h) /\ 4 # h + m + 2 /\ 3 # h + m + 2
        /\ Behind(3, h, m) = 0 /\ Behind(4, h, m) = 0 /\ ~ (0 > 0)
    BY <1>1, <1>4, <1>8, <2>1
  <2>3. dataSize' = Len(payload)
    BY <1>5, <1>8, <2>1, Zenon
  <2>4. QED
    BY <1>2, <1>3, <1>8, <2>1, <2>2, <2>3, Zenon DEF Progress
<1>9. CASE next \in h + 1 .. h + m /\ Data
  <2>1. /\ next' = next + 1
        /\ dataSize' = IF dataSize = 0 THEN fileSize ELSE dataSize
        /\ decoded' = decoded \o DecodeLine(article[next].text, lineLength)
        /\ UNCHANGED <<inData, fileSize, lineLength, yencChecksum, result>>
        /\ result = NULL
    BY <1>9, Zenon DEF Data, Reading
  <2>2. PICK j : j = next - h
    OBVIOUS
  <2>3. /\ j \in 1 .. m /\ next = h + j /\ next' = h + j + 1
        /\ Behind(next, h, m) = j - 1 /\ Behind(next', h, m) = j
    BY <1>1, <1>4, <1>9, <2>1, <2>2
  <2>4. /\ next >= 3 /\ next # h + m + 2 /\ next \in 3 .. h + m + 1
        /\ next' \in 1 .. h + m + 2 /\ ~ (next' <= 2) /\ next' \in 3 .. h + m + 1 /\ next' >= 3
        /\ ~ (next' <= h) /\ next' # h + 1 /\ next' # h + m + 2
    BY <1>1, <2>3
  <2>5. dataSize' = Len(payload)
    <3>1. Len(payload) > 0
      BY <1>1, <2>3
    <3>2. CASE j = 1
      <4>1. next = h + 1
        BY <2>3, <3>2
      <4>2. dataSize = IF h = 3 THEN Len(payload) ELSE 0
        BY <1>2, <4>1, Zenon
      <4>3. fileSize = (IF h = 3 THEN Before ELSE 0) + Len(payload)
        BY <1>2, <2>4, Zenon DEF FileSize
      <4>4. QED
        BY <1>1, <2>1, <3>1, <4>2, <4>3
    <3>3. CASE j # 1
      <4>1. Behind(next, h, m) > 0
        BY <2>3, <3>3
      <4>2. dataSize = Len(payload)
        BY <1>2, <4>1, Zenon
      <4>3. QED
        BY <1>1, <2>1, <3>1, <4>2
    <3>4. QED
      BY <3>2, <3>3
  <2>6. decoded' = Part(payload, 0, end[j])
    <3>1. PICK lo, hi : lo = end[j - 1] /\ hi = end[j]
      OBVIOUS
    <3>2. lo \in Nat /\ hi \in Nat /\ lo <= hi /\ hi <= Len(payload)
      BY <1>1, <2>3, <3>1 DEF Ends
    <3>3. decoded = Part(payload, 0, lo)
      BY <1>2, <2>3, <3>1, Zenon
    <3>4. lineLength = told
      BY <1>2, <2>4, Zenon
    <3>5. DecodeLine(article[next].text, lineLength) = Part(payload, lo, hi - lo)
      BY <2>3, <3>1, <3>4, Zenon DEF Shape
    <3>6. Part(payload, 0, lo) \o Part(payload, lo, hi - lo) = Part(payload, 0, hi)
      BY <1>1, <3>2, PartJoin
    <3>7. QED
      BY <2>1, <3>1, <3>3, <3>5, <3>6, Zenon
  <2>7. QED
    BY <1>2, <1>3, <2>1, <2>3, <2>4, <2>5, <2>6, Zenon DEF Progress
<1>10. CASE next = h + m + 1 /\ YEnd
  <2>1. /\ next' = next + 1
        /\ yencChecksum' = ReadKeyword(article[next].crc32, {})
        /\ UNCHANGED <<dataSize, fileSize, lineLength, decoded, result>>
        /\ result = NULL
    BY <1>10, Zenon DEF YEnd, Reading, ParseYEnd, output
  <2>2. /\ next' = h + m + 2 /\ next >= 3
        /\ next' \in 1 .. h + m + 2 /\ ~ (next' <= 2) /\ next' \notin 3 .. h + m + 1 /\ next' >= 3
        /\ ~ (next' <= h) /\ next' # h + 1 /\ next \notin h + 1 .. h + m
        /\ next' = next + 1
    BY <1>1, <1>10, <2>1
  <2>3. Behind(next', h, m) = Behind(next, h, m)
    BY <1>4, <1>10, <2>2, Zenon
  <2>4. yencChecksum' = ReadKeyword(crc, {})
    BY <1>5, <1>10, <2>1, Zenon
  <2>5. QED
    BY <1>2, <1>3, <2>1, <2>2, <2>3, <2>4, Zenon DEF Progress
<1>11. CASE next = h + m + 2 /\ Finish
  <2>1. /\ result' = IF allocated THEN Verdict(dataSize) ELSE Crashed
        /\ UNCHANGED <<next, inData, dataSize, fileSize, lineLength, allocated, decoded,
                       checksum, yencChecksum>>
    BY <1>11, Zenon DEF Finish, header, output
  <2>2. Verdict(dataSize)' = Verdict(dataSize)
    BY <2>1, Zenon DEF Verdict
  <2>3. result' = IF allocated' THEN Verdict(dataSize)' ELSE Crashed
    BY <2>1, <2>2, Zenon
  <2>4. QED
    BY <1>2, <1>3, <1>11, <2>1, <2>3, Zenon DEF Progress
<1>12. QED
  BY <1>1, <1>6, <1>7, <1>8, <1>9, <1>10, <1>11, WhichStep, Zenon

LEMMA IntactNext == Sound /\ Intact /\ [Next]_vars => Intact'
<1> SUFFICES ASSUME Sound, Intact, [Next]_vars, ~ damaged'
             PROVE  \E h \in {2, 3}, told \in {-1} \cup LineLength,
                       crc \in {NULL, Crc32Of(payload')} :
                      \E m, end : /\ Ends(payload', m, end)
                                  /\ Shape(article', payload', h, m, end, told, crc)
                                  /\ Progress(h, m, end, told, crc)'
  BY Zenon DEF Intact
<1>1. UNCHANGED posted
  BY Zenon DEF Next, OtherLine, YBegin, YPart, Data, YEnd, Finish, vars
<1>2. payload' = payload /\ article' = article /\ ~ damaged
  BY <1>1, Zenon DEF posted
<1>3. PICK h \in {2, 3}, told \in {-1} \cup LineLength, crc \in {NULL, Crc32Of(payload)} :
        \E m, end : /\ Ends(payload, m, end)
                    /\ Shape(article, payload, h, m, end, told, crc)
                    /\ Progress(h, m, end, told, crc)
  BY <1>2, Zenon DEF Intact
<1>4. PICK m, end : /\ Ends(payload, m, end)
                    /\ Shape(article, payload, h, m, end, told, crc)
                    /\ Progress(h, m, end, told, crc)
  BY <1>3, Zenon
<1>5. Progress(h, m, end, told, crc)'
  <2>1. CASE Next
    BY <1>4, <2>1, ProgressNext, Zenon
  <2>2. CASE UNCHANGED vars
    BY <1>4, <2>2, Zenon DEF Progress, Verdict, vars, posted, header, output
  <2>3. QED
    BY <2>1, <2>2
<1>6. QED
  BY <1>2, <1>4, <1>5, Zenon

LEMMA IntactDecodes == Sound /\ Intact => DecodesPayload
<1> SUFFICES ASSUME Sound, Intact, ~ damaged PROVE IsPrefix(decoded, payload)
  BY DEF DecodesPayload
<1>1. PICK h \in {2, 3}, told \in {-1} \cup LineLength, crc \in {NULL, Crc32Of(payload)} :
        \E m, end : /\ Ends(payload, m, end)
                    /\ Shape(article, payload, h, m, end, told, crc)
                    /\ Progress(h, m, end, told, crc)
  BY Zenon DEF Intact
<1>2. PICK m, end : Ends(payload, m, end) /\ Progress(h, m, end, told, crc)
  BY <1>1, Zenon
<1>3. PICK k : k = Behind(next, h, m)
  OBVIOUS
<1>4. decoded = Part(payload, 0, end[k]) /\ next \in 1 .. h + m + 2
  BY <1>2, <1>3, Zenon DEF Progress
<1>5. payload \in Seq(Octet) /\ m \in Nat
  BY <1>2 DEF Sound, Ends
<1>6. k \in 0 .. m
  BY <1>3, <1>4, <1>5, BehindNext
<1>7. PICK n : n = end[k]
  OBVIOUS
<1>8. PICK len \in Nat : len = Len(payload)
  BY <1>5
<1>9. n \in Nat /\ n <= len
  <2>1. CASE k = 0
    BY <1>2, <1>7, <1>8, <2>1 DEF Ends
  <2>2. CASE k # 0
    <3>1. k \in 1 .. m
      BY <1>5, <1>6, <2>2
    <3>2. QED
      BY <1>2, <1>6, <1>7, <1>8, <3>1 DEF Ends
  <2>3. QED
    BY <2>1, <2>2
<1>10. Len(Part(payload, 0, n)) = n
  BY <1>5, <1>8, <1>9, PartFacts
<1>11. Part(payload, 0, n) = SubSeq(payload, 1, n)
  BY <1>9 DEF Part
<1>12. Len(decoded) = n /\ decoded = SubSeq(payload, 1, n)
  BY <1>4, <1>7, <1>10, <1>11, Zenon
<1>13. SubSeq(decoded, 1, Len(decoded)) = decoded
  BY SubSeqFull DEF Sound
<1>14. QED
  BY <1>8, <1>9, <1>12, <1>13, Zenon DEF IsPrefix

LEMMA IntactAccepts == Sound /\ Intact => IntactAccepted
<1> SUFFICES ASSUME Sound, Intact, ~ damaged, payload # <<>>, result # NULL
             PROVE  IF Crc32Of(payload) # {} /\ yencChecksum # {}
                    THEN decoded = payload /\ result = Len(payload)
                    ELSE result = -1
  BY Zenon DEF IntactAccepted
<1>1. PICK h \in {2, 3}, told \in {-1} \cup LineLength, crc \in {NULL, Crc32Of(payload)} :
        \E m, end : /\ Ends(payload, m, end)
                    /\ Shape(article, payload, h, m, end, told, crc)
                    /\ Progress(h, m, end, told, crc)
  BY Zenon DEF Intact
<1>2. PICK m, end : Ends(payload, m, end) /\ Progress(h, m, end, told, crc)
  BY <1>1, Zenon
<1>3. payload \in Seq(Octet)
  BY DEF Sound
<1>4. m \in Nat /\ m # 0 /\ Part(payload, 0, end[m]) = payload
  BY <1>2, <1>3, EndsFacts
<1>5. next = h + m + 2 /\ result = IF allocated THEN Verdict(dataSize) ELSE Crashed
  BY <1>2, Zenon DEF Progress
<1>6. Behind(next, h, m) = m /\ m > 0
  <2>1. next \in 1 .. h + m + 2
    BY <1>2, Zenon DEF Progress
  <2>2. Behind(next, h, m) = m
    BY <1>4, <1>5 DEF Behind
  <2>3. QED
    BY <1>4, <2>2
<1>7. decoded = payload /\ dataSize = Len(payload) /\ yencChecksum = ReadKeyword(crc, {})
  BY <1>2, <1>4, <1>5, <1>6, Zenon DEF Progress
<1>8. allocated
  BY <1>7, Zenon DEF Sound
<1>9. result = IF yencChecksum # Crc32Of(payload) \/ yencChecksum = {} THEN -1 ELSE Len(payload)
  <2>1. Crc32Finish(checksum) = Crc32Of(payload)
    BY <1>7, Zenon DEF Sound, Crc32Of
  <2>2. QED
    BY <1>5, <1>7, <1>8, <2>1, Zenon DEF Verdict
<1>10. yencChecksum = {} \/ yencChecksum = Crc32Of(payload)
  BY Zenon DEF Sound
<1>11. QED
  BY <1>7, <1>9, <1>10, Zenon


-----------------------------------------------------------------------------
LEMMA SpecSound == Spec => []Sound
<1>1. Init => Sound
  BY SoundInit
<1>2. Sound /\ [Next]_vars => Sound'
  BY SoundNext
<1>3. QED
  BY <1>1, <1>2, PTL DEF Spec

LEMMA SpecIntact == Spec => []Intact
<1>1. Init => Intact
  BY IntactInit
<1>2. Sound /\ Intact /\ [Next]_vars => Intact'
  BY IntactNext
<1>3. QED
  BY <1>1, <1>2, SpecSound, PTL DEF Spec

(* The decoder's variables keep their types, whatever article comes, and    *)
(* the output is allocated as soon as, and only when, there is some         *)
(* (yenc_decode).                                                           *)
THEOREM YencTypeOK == Spec => []TypeOK
<1>1. Sound => TypeOK
  BY SoundTypeOK
<1>2. QED
  BY <1>1, SpecSound, PTL

(* What is decoded of an article as it was sent is always the beginning of  *)
(* the payload, for every payload, line length and form of the header.      *)
THEOREM YencDecodesPayload == Spec => []DecodesPayload
<1>1. Sound /\ Intact => DecodesPayload
  BY IntactDecodes
<1>2. QED
  BY <1>1, SpecSound, SpecIntact, PTL

(* An article as it was sent is accepted in full when its checksum is there *)
(* and not zero, and is not accepted otherwise.                             *)
THEOREM YencIntactAccepted == Spec => []IntactAccepted
<1>1. Sound /\ Intact => IntactAccepted
  BY IntactAccepts
<1>2. QED
  BY <1>1, SpecSound, SpecIntact, PTL

=============================================================================
