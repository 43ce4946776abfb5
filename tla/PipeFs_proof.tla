------------------------------ MODULE PipeFs_proof ------------------------------
(***************************************************************************)
(* Proofs about PipeFs: the inductive invariant IInv, the counts of ends,  *)
(* and that the ring buffer is a bounded queue of bytes.                   *)
(***************************************************************************)
EXTENDS PipeFs, TLAPS

-------------------------------------------------------------------------------
(* Sequences: when two are equal, and what joining two gives.              *)
LEMMA SameElements ==
  ASSUME NEW S, NEW s \in Seq(S), NEW t \in Seq(S), Len(s) = Len(t),
         \A i \in 1 .. Len(t) : s[i] = t[i]
  PROVE  s = t
OBVIOUS

LEMMA Joined ==
  ASSUME NEW S, NEW s \in Seq(S), NEW t \in Seq(S)
  PROVE  /\ s \o t \in Seq(S) /\ Len(s \o t) = Len(s) + Len(t)
         /\ \A i \in 1 .. Len(s) + Len(t) :
              (s \o t)[i] = IF i <= Len(s) THEN s[i] ELSE t[i - Len(s)]
OBVIOUS

(* Finite sets: what counting the handles of a pipe uses of them.  The     *)
(* lemmas that count assume it; FiniteSetsCount, at the end, proves it     *)
(* from the library.                                                       *)
Counting ==
  /\ IsFiniteSet({}) /\ Cardinality({}) = 0
  /\ \A S : IsFiniteSet(S) =>
       /\ Cardinality(S) \in Nat
       /\ Cardinality(S) = 0 <=> S = {}
       /\ \A T \in SUBSET S : IsFiniteSet(T)
       /\ \A x : x \notin S => Cardinality(S \cup {x}) = Cardinality(S) + 1
       /\ \A x \in S : Cardinality(S \ {x}) = Cardinality(S) - 1

-------------------------------------------------------------------------------
(* The ring buffer.  A position that runs over the end comes back to the   *)
(* start once.                                                             *)
Wrap(x) == IF x < Capacity THEN x ELSE x - Capacity

(* Going on from a wrapped position.                                       *)
LEMMA WrapTwice ==
  ASSUME NEW r \in Positions, NEW d \in 0 .. Capacity, NEW n \in 0 .. d
  PROVE  Wrap(Wrap(r + n) + (d - n)) = Wrap(r + d)
BY PipeAssumption, SMTT(30) DEF Wrap, Positions

LEMMA ModIsWrap ==
  \A x \in 0 .. 2 * Capacity - 1 : x % Capacity = Wrap(x)
<1> SUFFICES ASSUME NEW x \in 0 .. 2 * Capacity - 1
             PROVE  x % Capacity = Wrap(x)
  BY Zenon
<1> DEFINE C == Capacity
           d == x \div C
           r == x % C
<1>1. C \in Nat /\ C > 0
  BY PipeAssumption
<1> HIDE DEF C
<1>2. r \in 0 .. C - 1 /\ d \in Int /\ x = C * d + r
  BY <1>1 DEF C
<1> HIDE DEF d, r
<1>3. x \in Int /\ x >= 0 /\ x < 2 * C
  BY <1>1 DEF C
<1>4. CASE d <= -1
  <2>1. C * d <= -C
    BY <1>1, <1>2, <1>4
  <2> QED BY <2>1, <1>1, <1>2, <1>3
<1>5. CASE d >= 2
  <2>1. C * d >= 2 * C
    BY <1>1, <1>2, <1>5
  <2> QED BY <2>1, <1>1, <1>2, <1>3
<1>6. CASE d = 0
  BY <1>1, <1>2, <1>3, <1>6 DEF Wrap, C, r
<1>7. CASE d = 1
  BY <1>1, <1>2, <1>3, <1>7 DEF Wrap, C, r
<1> QED BY <1>2, <1>4, <1>5, <1>6, <1>7

LEMMA WrapPosition ==
  \A x \in 0 .. 2 * Capacity - 1 : Wrap(x) \in Positions
BY PipeAssumption DEF Wrap, Positions

(* Copying in one or two pieces moves a position around the ring.          *)
LEMMA AdvanceIsWrap ==
  \A pos \in Positions, n \in 0 .. Capacity : Advance(pos, n) = Wrap(pos + n)
<1> SUFFICES ASSUME NEW pos \in Positions, NEW n \in 0 .. Capacity
             PROVE  Advance(pos, n) = Wrap(pos + n)
  BY Zenon
<1>1. pos + n \in 0 .. 2 * Capacity - 1
  BY PipeAssumption DEF Positions
<1>2. (pos + n) % Capacity = Wrap(pos + n)
  BY <1>1, ModIsWrap, Zenon
<1>3. CASE n > Capacity - pos
  BY <1>3, PipeAssumption DEF Advance, Wrap, Positions
<1>4. CASE ~(n > Capacity - pos)
  BY <1>2, <1>4, Zenon DEF Advance
<1> QED BY <1>3, <1>4, Zenon

LEMMA AtIsWrap ==
  \A pos \in Positions, i \in 1 .. Capacity : At(pos, i) = Wrap(pos + i - 1)
BY PipeAssumption DEF At, Wrap, Positions

(* Where the i-th byte, from 1, of a ring that starts at r is.  With l     *)
(* bytes in the ring and n more to come, at w:                             *)
Misses(j, w, n) == ~(j >= w /\ j - w < n) /\ ~(j < w /\ j < n - (Capacity - w))
Lands(j, w, n, k) ==
  \/ j >= w /\ j - w < n /\ j - w + 1 = k
  \/ j < w /\ j < n - (Capacity - w) /\ Capacity - w + j + 1 = k /\ ~(j >= w)

LEMMA WrapArith ==
  ASSUME NEW r \in Positions, NEW l \in Nat, NEW n \in Nat, l + n <= Capacity
  PROVE  LET w == Wrap(r + l) IN
         /\ Wrap(w + n) = Wrap(r + (l + n))
         /\ \A i \in 1 .. l + n : Wrap(r + i - 1) \in Positions
         /\ \A i \in 1 .. l : Misses(Wrap(r + i - 1), w, n)
         /\ \A i \in l + 1 .. l + n : Lands(Wrap(r + i - 1), w, n, i - l)
<1> DEFINE w == Wrap(r + l)
<1>1. Capacity \in Int /\ Capacity > 0 /\ r \in Int /\ 0 <= r /\ r < Capacity
  BY PipeAssumption DEF Positions
<1>2. w \in Int /\ w = (IF r + l < Capacity THEN r + l ELSE r + l - Capacity)
  BY <1>1 DEF Wrap
<1> HIDE DEF w
<1>3. Wrap(w + n) = Wrap(r + (l + n))
  BY <1>1, <1>2 DEF Wrap
<1>4. \A i \in 1 .. l + n : Wrap(r + i - 1) \in Positions
  BY <1>1 DEF Wrap, Positions
<1>5. \A i \in 1 .. l : Misses(Wrap(r + i - 1), w, n)
  BY <1>1, <1>2 DEF Wrap, Misses
<1>6. \A i \in l + 1 .. l + n : Lands(Wrap(r + i - 1), w, n, i - l)
  BY <1>1, <1>2 DEF Wrap, Lands
<1> QED BY <1>3, <1>4, <1>5, <1>6, Zenon DEF w

(* A pipe whose ring buffer is in order.                                   *)
Ring(p) == p \in PipeType /\ p.write_pos = (p.read_pos + p.data_len) % Capacity

LEMMA RingFacts ==
  ASSUME NEW p, Ring(p)
  PROVE  /\ p.data \in [Positions -> Bytes] /\ p.data_len \in 0 .. Capacity
         /\ p.write_pos \in Positions /\ p.read_pos \in Positions
         /\ p.write_pos = Wrap(p.read_pos + p.data_len)
<1>1. /\ p.data \in [Positions -> Bytes] /\ p.data_len \in 0 .. Capacity
      /\ p.write_pos \in Positions /\ p.read_pos \in Positions
  BY Zenon DEF Ring, PipeType
<1>2. p.read_pos + p.data_len \in 0 .. 2 * Capacity - 1
  BY <1>1, PipeAssumption, SMTT(30) DEF Positions
<1>3. p.write_pos = Wrap(p.read_pos + p.data_len)
  BY <1>2, ModIsWrap, Zenon DEF Ring
<1> QED BY <1>1, <1>3, Zenon

LEMMA ContentsFacts ==
  ASSUME NEW p, Ring(p)
  PROVE  /\ Contents(p) \in Seq(Bytes) /\ Len(Contents(p)) = p.data_len
         /\ \A i \in 1 .. p.data_len : Contents(p)[i] = p.data[Wrap(p.read_pos + i - 1)]
<1>1. /\ p.data \in [Positions -> Bytes] /\ p.data_len \in 0 .. Capacity
      /\ p.read_pos \in Positions
  BY RingFacts, Zenon
<1>2. \A i \in 1 .. p.data_len : p.read_pos + i - 1 \in 0 .. 2 * Capacity - 1
  BY <1>1, PipeAssumption, SMTT(30) DEF Positions
<1>3. \A i \in 1 .. p.data_len :
        /\ (p.read_pos + i - 1) % Capacity = Wrap(p.read_pos + i - 1)
        /\ Wrap(p.read_pos + i - 1) \in Positions
  BY <1>2, ModIsWrap, WrapPosition, Zenon
<1>4. Contents(p) = [i \in 1 .. p.data_len |-> p.data[Wrap(p.read_pos + i - 1)]]
  BY <1>3, Zenon DEF Contents
<1>5. \A i \in 1 .. p.data_len : p.data[Wrap(p.read_pos + i - 1)] \in Bytes
  BY <1>1, <1>3, Zenon
<1>6. p.data_len \in Nat
  BY <1>1, PipeAssumption
<1>7. Contents(p) \in [1 .. p.data_len -> Bytes]
  BY <1>4, <1>5, Zenon
<1>8. Contents(p) \in Seq(Bytes) /\ Len(Contents(p)) = p.data_len
  BY <1>6, <1>7
<1> QED BY <1>4, <1>8, ZenonT(30)

(* Pipe::read copies out the oldest bytes and leaves the others.           *)
LEMMA ReadIsDequeue ==
  ASSUME NEW p, Ring(p), NEW n \in 0 .. p.data_len
  PROVE  /\ Taken(p, n) = SubSeq(Contents(p), 1, n)
         /\ Ring(ReadN(p, n))
         /\ Contents(ReadN(p, n)) = SubSeq(Contents(p), n + 1, p.data_len)
<1> DEFINE c == Contents(p)
           q == ReadN(p, n)
<1>1. /\ p.data \in [Positions -> Bytes] /\ p.data_len \in 0 .. Capacity
      /\ p.write_pos \in Positions /\ p.read_pos \in Positions
      /\ p.write_pos = Wrap(p.read_pos + p.data_len)
  BY RingFacts, Zenon
<1>2. /\ c \in Seq(Bytes) /\ Len(c) = p.data_len
      /\ \A i \in 1 .. p.data_len : c[i] = p.data[Wrap(p.read_pos + i - 1)]
  BY ContentsFacts, Zenon
<1>3. n \in 0 .. Capacity /\ p.data_len \in Nat /\ n \in Nat
  BY <1>1, PipeAssumption
<1> HIDE DEF c
<1>4. Taken(p, n) = SubSeq(c, 1, n)
  <2>1. Taken(p, n) = [i \in 1 .. n |-> p.data[At(p.read_pos, i)]]
    BY Zenon DEF Taken
  <2>2. \A i \in 1 .. n : p.data[At(p.read_pos, i)] = c[i]
    <3>1. \A i \in 1 .. n : i \in 1 .. Capacity /\ i \in 1 .. p.data_len
      BY <1>1, <1>3, PipeAssumption
    <3>2. \A i \in 1 .. n : At(p.read_pos, i) = Wrap(p.read_pos + i - 1)
      BY <1>1, <3>1, AtIsWrap, Zenon
    <3> QED BY <1>2, <3>1, <3>2, Zenon
  <2>3. SubSeq(c, 1, n) = [i \in 1 .. n |-> c[i]]
    BY <1>2, <1>3
  <2> QED BY <2>1, <2>2, <2>3, Zenon
<1>5. Advance(p.read_pos, n) = Wrap(p.read_pos + n)
  BY <1>1, <1>3, AdvanceIsWrap, Zenon
<1>6. p.read_pos + n \in 0 .. 2 * Capacity - 1
  BY <1>1, <1>3, PipeAssumption, SMTT(30) DEF Positions
<1>7. Wrap(p.read_pos + n) \in Positions
  BY <1>6, WrapPosition, Zenon
<1>8. p.data_len - n \in 0 .. Capacity
  BY <1>1, <1>3, PipeAssumption, SMTT(30)
<1>9. /\ q \in PipeType /\ q.data = p.data /\ q.write_pos = p.write_pos
      /\ q.read_pos = Wrap(p.read_pos + n) /\ q.data_len = p.data_len - n
  BY <1>5, <1>7, <1>8, Zenon DEF Ring, PipeType, ReadN
<1> HIDE DEF q
<1>10. Ring(q)
  <2>1. q.read_pos + q.data_len \in 0 .. 2 * Capacity - 1
    BY <1>7, <1>8, <1>9, PipeAssumption, SMTT(30) DEF Positions
  <2>2. (q.read_pos + q.data_len) % Capacity = Wrap(q.read_pos + q.data_len)
    BY <2>1, ModIsWrap, Zenon
  <2>3. Wrap(q.read_pos + q.data_len) = Wrap(p.read_pos + p.data_len)
    BY <1>1, <1>9, WrapTwice, Zenon
  <2> QED BY <1>1, <1>9, <2>2, <2>3, Zenon DEF Ring
<1>11. Contents(q) = SubSeq(c, n + 1, p.data_len)
  <2> DEFINE t == SubSeq(c, n + 1, p.data_len)
  <2>1. /\ Contents(q) \in Seq(Bytes) /\ Len(Contents(q)) = p.data_len - n
        /\ \A i \in 1 .. p.data_len - n : Contents(q)[i] = p.data[Wrap(q.read_pos + i - 1)]
    BY <1>9, <1>10, ContentsFacts, SMTT(30)
  <2>2. /\ t \in Seq(Bytes) /\ Len(t) = p.data_len - n
        /\ \A i \in 1 .. p.data_len - n : t[i] = c[n + i]
    BY <1>2, <1>3, SMTT(30)
  <2>3. \A i \in 1 .. p.data_len - n : Wrap(q.read_pos + i - 1) = Wrap(p.read_pos + (n + i) - 1)
    <3> DEFINE r == p.read_pos
               l == p.data_len - n
    <3>1. r \in Positions /\ l \in Nat /\ n + l <= Capacity /\ q.read_pos = Wrap(r + n)
      BY <1>1, <1>3, <1>9, PipeAssumption, SMTT(30)
    <3> HIDE DEF r, l
    <3>2. \A i \in 1 .. l : Wrap(Wrap(r + n) + i - 1) = Wrap(r + (n + i) - 1)
      BY <1>3, <3>1, PipeAssumption DEF Wrap, Positions
    <3> QED BY <3>1, <3>2, Zenon DEF r, l
  <2>4. \A i \in 1 .. p.data_len - n : c[n + i] = p.data[Wrap(p.read_pos + (n + i) - 1)]
    BY <1>2, <1>3
  <2> HIDE DEF t
  <2>5. \A i \in 1 .. Len(t) : Contents(q)[i] = t[i]
    BY <2>1, <2>2, <2>3, <2>4, ZenonT(30)
  <2>6. Contents(q) = t
    BY <2>1, <2>2, <2>5, SameElements, Zenon
  <2> QED BY <2>6, Zenon DEF t
<1> QED BY <1>4, <1>10, <1>11, Zenon DEF c, q

(* Pipe::write appends the bytes, and overwrites none that was not read.   *)
LEMMA WriteIsEnqueue ==
  ASSUME NEW p, Ring(p), NEW buf \in Seq(Bytes),
         NEW n \in 0 .. Len(buf), n <= Capacity - p.data_len
  PROVE  /\ Ring(WriteN(p, buf, n))
         /\ Contents(WriteN(p, buf, n)) = Contents(p) \o SubSeq(buf, 1, n)
<1> DEFINE c == Contents(p)
           q == WriteN(p, buf, n)
           d == Stored(p, buf, n)
           w == p.write_pos
           r == p.read_pos
           l == p.data_len
<1>1. /\ p.data \in [Positions -> Bytes] /\ p.data_len \in 0 .. Capacity
      /\ p.write_pos \in Positions /\ p.read_pos \in Positions
      /\ p.write_pos = Wrap(p.read_pos + p.data_len)
  BY RingFacts, Zenon
<1>2. /\ c \in Seq(Bytes) /\ Len(c) = p.data_len
      /\ \A i \in 1 .. p.data_len : c[i] = p.data[Wrap(p.read_pos + i - 1)]
  BY ContentsFacts, Zenon
<1>3. n \in 0 .. Capacity /\ p.data_len \in Nat /\ n \in Nat /\ Len(buf) \in Nat
  BY <1>1, PipeAssumption
<1> HIDE DEF c
<1>w. /\ w = Wrap(r + l) /\ Wrap(w + n) = Wrap(r + (l + n))
      /\ \A i \in 1 .. l + n : Wrap(r + i - 1) \in Positions
      /\ \A i \in 1 .. l : Misses(Wrap(r + i - 1), w, n)
      /\ \A i \in l + 1 .. l + n : Lands(Wrap(r + i - 1), w, n, i - l)
  <2>1. r \in Positions /\ l \in Nat /\ n \in Nat /\ l + n <= Capacity /\ w = Wrap(r + l)
    BY <1>1, <1>3, PipeAssumption
  <2> HIDE DEF r, l, w
  <2> QED BY <2>1, WrapArith, Zenon
<1>4. /\ \A j \in Positions : d[j] =
             IF j >= w /\ j - w < n THEN buf[j - w + 1]
             ELSE IF j < w /\ j < n - (Capacity - w) THEN buf[Capacity - w + j + 1]
             ELSE p.data[j]
      /\ DOMAIN d = Positions /\ d = [j \in Positions |-> d[j]]
  BY Zenon DEF Stored
<1>5. d \in [Positions -> Bytes]
  <2>1. \A i \in 1 .. Len(buf) : buf[i] \in Bytes
    OBVIOUS
  <2>2. \A j \in Positions : d[j] \in Bytes
    <3> HIDE DEF d
    <3> SUFFICES ASSUME NEW j \in Positions PROVE d[j] \in Bytes
      BY Zenon
    <3>1. CASE j >= w /\ j - w < n
      <4>1. j - w + 1 \in 1 .. Len(buf)
        BY <1>1, <1>3, <3>1, PipeAssumption, SMTT(30) DEF Positions
      <4> QED BY <1>4, <2>1, <3>1, <4>1, Zenon
    <3>2. CASE j < w /\ j < n - (Capacity - w)
      <4>1. Capacity - w + j + 1 \in 1 .. Len(buf) /\ ~(j >= w)
        <5>1. w \in Int /\ j \in Int /\ w < Capacity /\ j >= 0 /\ Capacity \in Int
          BY <1>1, PipeAssumption DEF Positions
        <5> HIDE DEF w
        <5> QED BY <1>3, <3>2, <5>1
      <4> QED BY <1>4, <2>1, <3>2, <4>1, Zenon
    <3>3. CASE ~(j >= w /\ j - w < n) /\ ~(j < w /\ j < n - (Capacity - w))
      BY <1>1, <1>4, <3>3, Zenon
    <3> QED BY <3>1, <3>2, <3>3, Zenon
  <2> HIDE DEF d
  <2> QED BY <1>4, <2>2, Zenon
<1>6. /\ Advance(w, n) = Wrap(w + n) /\ Wrap(w + n) \in Positions
      /\ p.data_len + n \in 0 .. Capacity
  <2>1. w + n \in 0 .. 2 * Capacity - 1 /\ p.data_len + n \in 0 .. Capacity
    BY <1>1, <1>3, PipeAssumption, SMTT(30) DEF Positions
  <2>2. Advance(w, n) = Wrap(w + n)
    BY <1>1, <1>3, AdvanceIsWrap, Zenon
  <2> QED BY <2>1, <2>2, WrapPosition, Zenon
<1>7. /\ q \in PipeType /\ q.data = d /\ q.write_pos = Wrap(w + n)
      /\ q.read_pos = p.read_pos /\ q.data_len = p.data_len + n
  <2> HIDE DEF d
  <2>1. q = [p EXCEPT !.data = d, !.write_pos = Advance(w, n), !.data_len = p.data_len + n]
    BY Zenon DEF WriteN, d
  <2> HIDE DEF q
  <2> QED BY <1>5, <1>6, <2>1, Zenon DEF Ring, PipeType
<1> HIDE DEF q, d
<1>8. Ring(q)
  <2>1. q.read_pos + q.data_len \in 0 .. 2 * Capacity - 1
    <3>1. q.read_pos \in 0 .. Capacity - 1 /\ q.data_len \in 0 .. Capacity
      BY <1>1, <1>6, <1>7, Zenon DEF Positions
    <3> QED BY <3>1, PipeAssumption, SMTT(30)
  <2>2. (q.read_pos + q.data_len) % Capacity = Wrap(q.read_pos + q.data_len)
    BY <2>1, ModIsWrap, Zenon
  <2> QED BY <1>7, <1>w, <2>2, Zenon DEF Ring
<1>9. Contents(q) = c \o SubSeq(buf, 1, n)
  <2> DEFINE b == SubSeq(buf, 1, n)
             t == c \o b
  <2>1. /\ Contents(q) \in Seq(Bytes) /\ Len(Contents(q)) = l + n
        /\ \A i \in 1 .. l + n : Contents(q)[i] = d[Wrap(r + i - 1)]
    BY <1>7, <1>8, ContentsFacts, SMTT(30)
  <2>2. b \in Seq(Bytes) /\ Len(b) = n /\ \A i \in 1 .. n : b[i] = buf[i]
    BY <1>3
  <2> HIDE DEF b
  <2>3. /\ t \in Seq(Bytes) /\ Len(t) = l + n
        /\ \A i \in 1 .. l + n : t[i] = IF i <= l THEN c[i] ELSE b[i - l]
    <3>1. Len(c) = l
      BY <1>2, Zenon
    <3> HIDE DEF l
    <3> QED BY <1>2, <2>2, <3>1, Joined, ZenonT(30)
  <2> HIDE DEF t
  <2>4. \A i \in 1 .. l : d[Wrap(r + i - 1)] = p.data[Wrap(r + i - 1)]
    <3> SUFFICES ASSUME NEW i \in 1 .. l PROVE d[Wrap(r + i - 1)] = p.data[Wrap(r + i - 1)]
      BY Zenon
    <3> DEFINE j == Wrap(r + i - 1)
    <3>1. j \in Positions
      <4>1. i \in 1 .. l + n
        BY <1>3
      <4> QED BY <1>w, <4>1, Zenon
    <3>2. Misses(j, w, n)
      BY <1>w, Zenon
    <3> HIDE DEF j
    <3>3. d[j] = p.data[j]
      BY <1>4, <3>1, <3>2, Zenon DEF Misses
    <3> QED BY <3>3, Zenon DEF j
  <2>5. \A i \in l + 1 .. l + n : d[Wrap(r + i - 1)] = buf[i - l]
    <3> SUFFICES ASSUME NEW i \in l + 1 .. l + n PROVE d[Wrap(r + i - 1)] = buf[i - l]
      BY Zenon
    <3> DEFINE j == Wrap(r + i - 1)
    <3>1. j \in Positions
      <4>1. i \in 1 .. l + n
        BY <1>3
      <4> QED BY <1>w, <4>1, Zenon
    <3>2. Lands(j, w, n, i - l)
      BY <1>w, Zenon
    <3> HIDE DEF j
    <3>3. d[j] = buf[i - l]
      BY <1>4, <3>1, <3>2, Zenon DEF Lands
    <3> QED BY <3>3, Zenon DEF j
  <2>6. \A i \in 1 .. l + n : Contents(q)[i] = t[i]
    <3> SUFFICES ASSUME NEW i \in 1 .. l + n PROVE Contents(q)[i] = t[i]
      BY Zenon
    <3>1. CASE i <= l
      <4>1. i \in 1 .. l
        BY <1>3, <3>1
      <4> QED BY <1>2, <2>1, <2>3, <2>4, <3>1, <4>1, SMTT(30)
    <3>2. CASE ~(i <= l)
      <4>1. i \in l + 1 .. l + n /\ i - l \in 1 .. n
        BY <1>3, <3>2
      <4> QED BY <2>1, <2>2, <2>3, <2>5, <3>2, <4>1, SMTT(30)
    <3> QED BY <3>1, <3>2, Zenon
  <2>7. Contents(q) = t
    BY <2>1, <2>3, <2>6, SameElements, Zenon
  <2> QED BY <2>7, Zenon DEF t, b
<1> QED BY <1>8, <1>9, Zenon DEF c, q

-------------------------------------------------------------------------------
(* Pipes and the sets of their ends.                                       *)
LEMMA NewPipe ==
  new_anonymous \in PipeType /\ Ring(new_anonymous) /\ Contents(new_anonymous) = <<>>
<1> DEFINE p == new_anonymous
<1>1. /\ p \in PipeType /\ p.data_len = 0 /\ p.read_pos = 0 /\ p.write_pos = 0
  BY PipeAssumption DEF new_anonymous, PipeType, Positions
<1> HIDE DEF p
<1>2. 0 % Capacity = 0
  BY PipeAssumption, ModIsWrap DEF Wrap
<1>3. Ring(p)
  BY <1>1, <1>2 DEF Ring
<1>4. Contents(p) \in Seq(Bytes) /\ Len(Contents(p)) = 0
  BY <1>1, <1>3, ContentsFacts, Zenon
<1>5. Contents(p) = <<>>
  BY <1>4
<1> QED BY <1>1, <1>3, <1>5, Zenon DEF p

LEMMA OpenedFacts ==
  ASSUME NEW p, Ring(p), NEW m \in Modes
  PROVE  LET q == Opened(p, m)
         IN  /\ Ring(q) /\ Contents(q) = Contents(p) /\ q.closed = p.closed
             /\ q.readers = IF m = "Read" THEN p.readers + 1 ELSE p.readers
             /\ q.writers = IF m = "Write" THEN p.writers + 1 ELSE p.writers
<1> DEFINE q == Opened(p, m)
<1>1. p \in PipeType /\ p.readers \in Int /\ p.writers \in Int
  BY Zenon DEF Ring, PipeType
<1>2. CASE m = "Read"
  <2>1. q = [p EXCEPT !.readers = p.readers + 1]
    BY <1>2, Zenon DEF Opened, Count
  <2> HIDE DEF q
  <2>2. /\ q \in PipeType /\ q.data = p.data /\ q.data_len = p.data_len
        /\ q.read_pos = p.read_pos /\ q.write_pos = p.write_pos /\ q.closed = p.closed
        /\ q.readers = p.readers + 1 /\ q.writers = p.writers
    BY <1>1, <2>1 DEF PipeType
  <2>3. Ring(q) /\ Contents(q) = Contents(p)
    BY <2>2, Zenon DEF Ring, Contents
  <2> QED BY <1>2, <2>2, <2>3, Zenon DEF q
<1>3. CASE m = "Write"
  <2>1. q = [p EXCEPT !.writers = p.writers + 1]
    BY <1>3, Zenon DEF Opened, Count
  <2> HIDE DEF q
  <2>2. /\ q \in PipeType /\ q.data = p.data /\ q.data_len = p.data_len
        /\ q.read_pos = p.read_pos /\ q.write_pos = p.write_pos /\ q.closed = p.closed
        /\ q.readers = p.readers /\ q.writers = p.writers + 1
    BY <1>1, <2>1 DEF PipeType
  <2>3. Ring(q) /\ Contents(q) = Contents(p)
    BY <2>2, Zenon DEF Ring, Contents
  <2> QED BY <1>3, <2>2, <2>3, Zenon DEF q
<1> QED BY <1>2, <1>3, Zenon DEF Modes

LEMMA ClosedFacts ==
  ASSUME NEW p, Ring(p), NEW m \in Modes
  PROVE  LET q == Closed(p, m)
         IN  /\ Ring(q) /\ Contents(q) = Contents(p)
             /\ q.closed <=> p.closed \/ p[Count(m)] = 1
             /\ q.readers = IF m = "Read" THEN p.readers - 1 ELSE p.readers
             /\ q.writers = IF m = "Write" THEN p.writers - 1 ELSE p.writers
<1> DEFINE q == Closed(p, m)
<1>1. p \in PipeType /\ p.readers \in Int /\ p.writers \in Int
  BY Zenon DEF Ring, PipeType
<1>2. CASE m = "Read"
  <2> DEFINE e == p.closed \/ p.readers = 1
  <2>1. /\ q = [p EXCEPT !.readers = p.readers - 1, !.closed = e]
        /\ p[Count(m)] = p.readers
    BY <1>2, Zenon DEF Closed, Count
  <2>e. e \in BOOLEAN
    BY Zenon
  <2> HIDE DEF q, e
  <2>2. /\ q \in PipeType /\ q.data = p.data /\ q.data_len = p.data_len
        /\ q.read_pos = p.read_pos /\ q.write_pos = p.write_pos /\ q.closed = e
        /\ q.readers = p.readers - 1 /\ q.writers = p.writers
    <3>1. p.readers - 1 \in Int /\ p.writers - 1 \in Int
      BY <1>1
    <3> QED BY <1>1, <2>1, <2>e, <3>1, ZenonT(30) DEF PipeType
  <2>3. Ring(q) /\ Contents(q) = Contents(p)
    BY <2>2, Zenon DEF Ring, Contents
  <2> QED BY <1>2, <2>1, <2>2, <2>3, Zenon DEF q, e
<1>3. CASE m = "Write"
  <2> DEFINE e == p.closed \/ p.writers = 1
  <2>1. /\ q = [p EXCEPT !.writers = p.writers - 1, !.closed = e]
        /\ p[Count(m)] = p.writers
    BY <1>3, Zenon DEF Closed, Count
  <2>e. e \in BOOLEAN
    BY Zenon
  <2> HIDE DEF q, e
  <2>2. /\ q \in PipeType /\ q.data = p.data /\ q.data_len = p.data_len
        /\ q.read_pos = p.read_pos /\ q.write_pos = p.write_pos /\ q.closed = e
        /\ q.readers = p.readers /\ q.writers = p.writers - 1
    <3>1. p.readers - 1 \in Int /\ p.writers - 1 \in Int
      BY <1>1
    <3> QED BY <1>1, <2>1, <2>e, <3>1, ZenonT(30) DEF PipeType
  <2>3. Ring(q) /\ Contents(q) = Contents(p)
    BY <2>2, Zenon DEF Ring, Contents
  <2> QED BY <1>3, <2>1, <2>2, <2>3, Zenon DEF q, e
<1> QED BY <1>2, <1>3, Zenon DEF Modes

LEMMA HeldFinite ==
  ASSUME Counting, TypeOK, NEW id, NEW m
  PROVE  /\ IsFiniteSet(Held(id, m)) /\ Held(id, m) \subseteq Addresses
         /\ Cardinality(Held(id, m)) \in Nat
         /\ Cardinality(Held(id, m)) = 0 <=> Held(id, m) = {}
<1>1. Held(id, m) \subseteq Addresses /\ IsFiniteSet(Addresses)
  BY PipeAssumption, Zenon DEF Held, TypeOK
<1>2. IsFiniteSet(Held(id, m))
  BY <1>1, Zenon DEF Counting
<1> QED BY <1>1, <1>2, Zenon DEF Counting

LEMMA HeldAdd ==
  ASSUME TypeOK, NEW a \in Addresses, a \notin live, NEW id \in Ids, NEW m \in Modes,
         NewHandle(id, m, a)
  PROVE  /\ live' \subseteq Addresses /\ handles' \in [live' -> PipeFsHandle]
         /\ \A b \in live' : handles'[b].pipe = id \/ (b \in live /\ handles'[b] = handles[b])
         /\ \A i, k : Held(i, k)' = IF i = id /\ k = m THEN Held(i, k) \cup {a} ELSE Held(i, k)
<1> DEFINE h == [pipe |-> id, mode |-> m]
<1>1. handles' = [b \in live \cup {a} |-> IF b = a THEN h ELSE handles[b]]
  BY Zenon DEF NewHandle
<1>2. h \in PipeFsHandle /\ h.pipe = id
  BY Zenon DEF PipeFsHandle
<1>3. \A i, k : h = [pipe |-> i, mode |-> k] <=> i = id /\ k = m
  BY Zenon
<1> HIDE DEF h
<1>4. live' = live \cup {a}
  BY <1>1, Zenon DEF live
<1>5. handles' \in [live' -> PipeFsHandle]
  BY <1>1, <1>2, <1>4, Zenon DEF TypeOK
<1>6. \A i, k : Held(i, k)' = IF i = id /\ k = m THEN Held(i, k) \cup {a} ELSE Held(i, k)
  <2> TAKE i, k
  <2>1. Held(i, k)' = {b \in live \cup {a} : handles'[b] = [pipe |-> i, mode |-> k]}
    BY <1>4, Zenon DEF Held
  <2>2. \A b \in live : handles'[b] = handles[b]
    BY <1>1, Zenon
  <2>3. handles'[a] = h
    BY <1>1, Zenon
  <2> QED BY <1>3, <2>1, <2>2, <2>3, SMTT(30) DEF Held
<1> QED BY <1>1, <1>2, <1>4, <1>5, <1>6, Zenon DEF TypeOK

LEMMA HeldRemove ==
  ASSUME TypeOK, NEW a \in live, Freed(a)
  PROVE  /\ live' = live \ {a} /\ handles' \in [live' -> PipeFsHandle]
         /\ \A b \in live' : handles'[b] = handles[b]
         /\ \A i, k : Held(i, k)' = Held(i, k) \ {a}
         /\ handles[a].pipe \in Ids /\ handles[a].mode \in Modes
         /\ \A i, k : a \in Held(i, k) <=> i = handles[a].pipe /\ k = handles[a].mode
<1>1. handles' = [b \in live \ {a} |-> handles[b]]
  BY Zenon DEF Freed
<1>2. live' = live \ {a}
  BY <1>1, Zenon DEF live
<1>3. handles' \in [live' -> PipeFsHandle]
  BY <1>1, <1>2, Zenon DEF TypeOK
<1>4. \A i, k : Held(i, k)' = Held(i, k) \ {a}
  BY <1>1, <1>2, Zenon DEF Held
<1>5. handles[a] \in PipeFsHandle
  BY Zenon DEF TypeOK
<1>6. \A i, k : handles[a] = [pipe |-> i, mode |-> k] <=> i = handles[a].pipe /\ k = handles[a].mode
  BY <1>5, SMTT(30) DEF PipeFsHandle
<1>7. \A i, k : a \in Held(i, k) <=> i = handles[a].pipe /\ k = handles[a].mode
  BY <1>6, ZenonT(30) DEF Held
<1> QED BY <1>1, <1>2, <1>3, <1>4, <1>5, <1>7, Zenon DEF PipeFsHandle

-------------------------------------------------------------------------------
(* The state of the queue that a state of the file system stands for.      *)
QueueOf == [id \in Ids |-> Contents(pipe[id])]
EndsOf == [id \in Ids |-> [m \in Modes |-> Held(id, m)]]
HungUp == {id \in Ids : pipe[id].closed}

LEMMA IInvRing ==
  ASSUME IInv, NEW id \in Ids
  PROVE  /\ Ring(pipe[id]) /\ pipe[id] \in PipeType /\ pipe[id].closed \in BOOLEAN
         /\ pipe[id].readers \in Int /\ pipe[id].writers \in Int
BY Zenon DEF IInv, TypeOK, RingsClosed, Ring, PipeType

(* A call that changes no pipe and no handle.                              *)
LEMMA QuietStep ==
  ASSUME IInv, UNCHANGED <<mounted, next_pipe_id, pipes, pipe, handles>>,
         \/ ret' = Done
         \/ \E e \in {"BadHandle", "InvalidOpenMode", "FileAlreadyExists", "PathNotFound",
                      "ActionNotAllowed", "FileSystemMismatch"} : ret' = Err(e)
  PROVE  IInv' /\ Queue!Next
<1>1. IInv'
  BY ZenonT(30) DEF IInv, TypeOK, RingsClosed, HandlesCreated, HungUpLostSide, CountsExact, live, Held
<1>2. Queue!Quiet
  BY Zenon DEF Queue!Quiet, Queue!Refuse, Queue!Answer, Done, Err, Outcome, Held, live
<1> QED BY <1>1, <1>2, Zenon DEF Queue!Next

LEMMA FailsStep ==
  ASSUME IInv,
         NEW e \in {"BadHandle", "InvalidOpenMode", "FileAlreadyExists", "PathNotFound",
                    "ActionNotAllowed", "FileSystemMismatch"},
         Fails(e)
  PROVE  IInv' /\ Queue!Next
BY QuietStep, Zenon DEF Fails

LEMMA CreateChildStep ==
  ASSUME IInv, CreateChild
  PROVE  IInv' /\ Queue!Next
<1>1. CASE ~mounted
  BY <1>1, FailsStep, Zenon DEF CreateChild
<1>2. CASE mounted
  <2> DEFINE new == next_pipe_id
  <2>1. /\ mounted' /\ new \in Ids /\ next_pipe_id' = new + 1 /\ pipes' = pipes \cup {new}
        /\ pipe' = [pipe EXCEPT ![new] = new_anonymous] /\ handles' = handles
        /\ mounted' = mounted /\ ret' = Done
    BY <1>2, Zenon DEF CreateChild
  <2>2. new \in Nat /\ Ids \subseteq Nat /\ pipe \in [Ids -> PipeType]
    BY PipeAssumption, Zenon DEF IInv, TypeOK
  <2>3. pipe[new] = new_anonymous
    BY <2>1, <2>2 DEF IInv, HandlesCreated
  <2>4. pipe' = pipe
    BY <2>1, <2>2, <2>3, Zenon
  <2>5. TypeOK'
    BY <2>1, <2>4, SMTT(30) DEF IInv, TypeOK, live
  <2>6. RingsClosed' /\ HungUpLostSide'
    BY <2>1, <2>4, SMTT(30) DEF IInv, RingsClosed, HungUpLostSide, Held, live
  <2>7. HandlesCreated'
    BY <2>1, <2>2, <2>4, SMTT(30) DEF IInv, HandlesCreated, TypeOK, live, PipeFsHandle
  <2>8. CountsExact'
    <3>1. \A id \in Ids : \A m : Held(id, m)' = Held(id, m)
      BY <2>1, Zenon DEF Held, live
    <3>2. new \notin pipes /\ pipe[new].closed = FALSE
      BY <1>2, <2>1, <2>2, <2>3, SMTT(30) DEF IInv, CountsExact, new_anonymous
    <3>3. \A id \in Ids : id < new + 1 <=> id < new \/ id = new
      BY <2>2
    <3> QED BY <1>2, <2>1, <2>4, <3>1, <3>2, <3>3, SMTT(30) DEF IInv, CountsExact
  <2>9. Queue!Quiet
    BY <2>1, <2>4, Zenon DEF Queue!Quiet, Queue!Answer, Done, Outcome, Held, live
  <2> QED BY <2>5, <2>6, <2>7, <2>8, <2>9, Zenon DEF IInv, Queue!Next
<1> QED BY <1>1, <1>2, Zenon DEF IInv, TypeOK

LEMMA UnmountStep ==
  ASSUME IInv, Unmount
  PROVE  IInv' /\ Queue!Next
<1>1. /\ mounted' = FALSE /\ handles' = [a \in {} |-> [pipe |-> 0, mode |-> "Read"]] /\ ret' = Done
      /\ UNCHANGED <<next_pipe_id, pipes, pipe>>
  BY Zenon DEF Unmount
<1>2. live' = {}
  BY <1>1, Zenon DEF live
<1>3. \A id, m : Held(id, m)' = {}
  BY <1>2, Zenon DEF Held
<1>4. TypeOK' /\ RingsClosed' /\ HandlesCreated'
  BY <1>1, <1>2, Zenon DEF IInv, TypeOK, RingsClosed, HandlesCreated
<1>5. HungUpLostSide' /\ CountsExact'
  BY <1>1, <1>3, Zenon DEF HungUpLostSide, CountsExact
<1>6. Queue!Shutdown
  BY <1>1, <1>3, Zenon DEF Queue!Shutdown, Queue!Answer, Done, Outcome, Modes, Queue!Modes
<1> QED BY <1>4, <1>5, <1>6, Zenon DEF IInv, Queue!Next

LEMMA FopenStep ==
  ASSUME Counting, IInv, NEW id \in Ids, NEW m \in Modes, NEW flags, NEW a \in Addresses,
         Fopen(id, m, flags, a)
  PROVE  IInv' /\ Queue!Next
<1>1. CASE \E e \in {"PathNotFound", "InvalidOpenMode", "FileAlreadyExists", "FileSystemMismatch"} :
             Fails(e)
  BY <1>1, FailsStep, Zenon
<1>2. CASE /\ mounted /\ MayOpen(id) /\ a \notin live /\ id \in 0 .. next_pipe_id - 1
           /\ pipe' = [pipe EXCEPT ![id] = Opened(pipe[id], m)]
           /\ NewHandle(id, m, a)
           /\ ret' = Outcome(id, "Ok", 0, <<>>)
           /\ UNCHANGED <<mounted, next_pipe_id, pipes>>
  <2> DEFINE p == pipe[id]
             q == Opened(p, m)
  <2>1. /\ Ring(p) /\ pipe \in [Ids -> PipeType] /\ id \in pipes /\ ~p.closed
        /\ next_pipe_id \in Nat /\ id < next_pipe_id
    BY <1>2, IInvRing, SMTT(30) DEF MayOpen, IInv, TypeOK
  <2>2. /\ Ring(q) /\ Contents(q) = Contents(p) /\ q.closed = p.closed
        /\ q.readers = IF m = "Read" THEN p.readers + 1 ELSE p.readers
        /\ q.writers = IF m = "Write" THEN p.writers + 1 ELSE p.writers
    <3> HIDE DEF p
    <3> QED BY <2>1, OpenedFacts, Zenon
  <2>3. pipe' = [pipe EXCEPT ![id] = q]
    BY <1>2, Zenon
  <2>4. /\ live' \subseteq Addresses /\ handles' \in [live' -> PipeFsHandle]
        /\ \A b \in live' : handles'[b].pipe = id \/ (b \in live /\ handles'[b] = handles[b])
        /\ \A i, k : Held(i, k)' = IF i = id /\ k = m THEN Held(i, k) \cup {a} ELSE Held(i, k)
    BY <1>2, HeldAdd, SMTT(30) DEF IInv
  <2> HIDE DEF q
  <2>5. q \in PipeType /\ q.write_pos = (q.read_pos + q.data_len) % Capacity
    BY <2>2, Zenon DEF Ring
  <2>6. /\ pipe' \in [Ids -> PipeType] /\ pipe'[id] = q
        /\ \A i \in Ids : i # id => pipe'[i] = pipe[i]
    BY <2>1, <2>3, <2>5, Zenon
  <2>7. TypeOK'
    BY <1>2, <2>4, <2>6, Zenon DEF IInv, TypeOK
  <2>8. RingsClosed'
    BY <2>5, <2>6, Zenon DEF IInv, RingsClosed
  <2>9. HandlesCreated'
    <3>1. ~mounted' => live' = {}
      BY <1>2, Zenon
    <3>2. ASSUME NEW b \in live' PROVE handles'[b].pipe < next_pipe_id'
      BY <1>2, <2>1, <2>4, Zenon DEF IInv, HandlesCreated
    <3>3. ASSUME NEW i \in Ids, i >= next_pipe_id' PROVE pipe'[i] = new_anonymous
      <4>1. i \in Nat /\ id \in Nat /\ i >= next_pipe_id /\ next_pipe_id \in Nat /\ id < next_pipe_id
        BY <1>2, <2>1, <3>3, PipeAssumption, Zenon
      <4>2. i # id
        BY <4>1, SMTT(30)
      <4> QED BY <2>6, <4>1, <4>2, Zenon DEF IInv, HandlesCreated
    <3> QED BY <3>1, <3>2, <3>3, Zenon DEF HandlesCreated
  <2>10. HungUpLostSide'
    BY <2>1, <2>2, <2>4, <2>6, Zenon DEF IInv, HungUpLostSide
  <2>11. CountsExact'
    <3>1. \A i, k : IsFiniteSet(Held(i, k)) /\ a \notin Held(i, k)
      BY <1>2, HeldFinite, Zenon DEF IInv, Held
    <3>2. \A i, k : Cardinality(Held(i, k) \cup {a}) = Cardinality(Held(i, k)) + 1
      BY <3>1, Zenon DEF Counting
    <3>3. \A i \in Ids :
            /\ pipe'[i].readers = Cardinality(Held(i, "Read")')
            /\ pipe'[i].writers = Cardinality(Held(i, "Write")')
      <4> SUFFICES ASSUME NEW i \in Ids
                   PROVE  /\ pipe'[i].readers = Cardinality(Held(i, "Read")')
                          /\ pipe'[i].writers = Cardinality(Held(i, "Write")')
        BY Zenon
      <4>1. /\ pipe[i].readers = Cardinality(Held(i, "Read"))
            /\ pipe[i].writers = Cardinality(Held(i, "Write"))
        BY <1>2, Zenon DEF IInv, CountsExact
      <4>2. CASE i = id
        BY <2>2, <2>4, <2>6, <3>2, <4>1, <4>2, SMTT(30) DEF Modes
      <4>3. CASE i # id
        BY <2>4, <2>6, <4>1, <4>3, Zenon
      <4> QED BY <4>2, <4>3, Zenon
    <3>4. \A i \in Ids :
             i \in pipes' <=>
               /\ i < next_pipe_id'
               /\ ~pipe'[i].closed \/ Held(i, "Read")' \cup Held(i, "Write")' # {}
      <4> SUFFICES ASSUME NEW i \in Ids
                   PROVE  i \in pipes' <=>
                            /\ i < next_pipe_id'
                            /\ ~pipe'[i].closed \/ Held(i, "Read")' \cup Held(i, "Write")' # {}
        BY Zenon
      <4>1. CASE i = id
        BY <1>2, <2>1, <2>2, <2>6, <4>1, Zenon
      <4>2. CASE i # id
        BY <1>2, <2>4, <2>6, <4>2, Zenon DEF IInv, CountsExact
      <4> QED BY <4>1, <4>2, Zenon
    <3> QED BY <3>3, <3>4, Zenon DEF CountsExact
  <2>12. Queue!Open(id, m, a)
    <3>1. id \notin HungUp /\ a \notin EndsOf[id][m]
      BY <1>2, <2>1, Zenon DEF HungUp, EndsOf, Held
    <3>2. EndsOf' = [EndsOf EXCEPT ![id][m] = @ \cup {a}]
      BY <2>4, ZenonT(30) DEF EndsOf
    <3>3. QueueOf' = QueueOf
      BY <2>2, <2>6, Zenon DEF QueueOf
    <3>4. HungUp' = HungUp
      BY <2>2, <2>6, Zenon DEF HungUp
    <3> QED BY <1>2, <3>1, <3>2, <3>3, <3>4, Zenon
          DEF Queue!Open, Queue!Answer, Outcome, QueueOf, EndsOf, HungUp
  <2> QED BY <2>7, <2>8, <2>9, <2>10, <2>11, <2>12, Zenon DEF IInv, Queue!Next, Modes, Queue!Modes
<1> QED BY <1>1, <1>2, Zenon DEF Fopen

LEMMA FcloseStep ==
  ASSUME Counting, IInv, NEW a \in Addresses, Fclose(a)
  PROVE  IInv' /\ Queue!Next
<1>1. CASE a \notin live
  BY <1>1, FailsStep, Zenon DEF Fclose
<1>2. CASE a \in live
  <2>0. PICK id \in Ids, m \in Modes : id = handles[a].pipe /\ m = handles[a].mode
    BY <1>2, Zenon DEF IInv, TypeOK, PipeFsHandle
  <2> DEFINE p == pipe[id]
             q == Closed(p, m)
  <2>1. /\ pipe' = [pipe EXCEPT ![id] = Closed(pipe[id], m)]
        /\ pipes' = IF Unused(pipe[id], m) THEN pipes \ {id} ELSE pipes
        /\ ret' = Outcome(id, "Ok", 0, <<>>)
        /\ Freed(a)
        /\ UNCHANGED <<mounted, next_pipe_id>>
    BY <1>2, <2>0, Zenon DEF Fclose
  <2>2. /\ live' = live \ {a} /\ handles' \in [live' -> PipeFsHandle]
        /\ \A b \in live' : handles'[b] = handles[b]
        /\ \A i, k : Held(i, k)' = Held(i, k) \ {a}
        /\ id \in Ids /\ m \in Modes
        /\ \A i, k : a \in Held(i, k) <=> i = id /\ k = m
    BY <1>2, <2>0, <2>1, HeldRemove, Zenon DEF IInv
  <2>3. mounted /\ next_pipe_id \in Nat /\ id < next_pipe_id /\ live \subseteq Addresses
    BY <1>2, <2>0, Zenon DEF IInv, HandlesCreated, TypeOK
  <2>4. Ring(p) /\ pipe \in [Ids -> PipeType] /\ p.closed \in BOOLEAN /\ p.readers \in Int /\ p.writers \in Int
    BY <2>2, IInvRing, Zenon DEF IInv, TypeOK
  <2>5. /\ Ring(q) /\ Contents(q) = Contents(p)
        /\ q.closed <=> p.closed \/ p[Count(m)] = 1
        /\ q.readers = IF m = "Read" THEN p.readers - 1 ELSE p.readers
        /\ q.writers = IF m = "Write" THEN p.writers - 1 ELSE p.writers
    <3> HIDE DEF p
    <3> QED BY <2>2, <2>4, ClosedFacts, Zenon
  <2>6. /\ pipe' = [pipe EXCEPT ![id] = q] /\ pipes' = IF Unused(p, m) THEN pipes \ {id} ELSE pipes
    BY <2>1, Zenon
  <2> HIDE DEF q
  <2>7. q \in PipeType /\ q.write_pos = (q.read_pos + q.data_len) % Capacity
    BY <2>5, Zenon DEF Ring
  <2>8. /\ pipe' \in [Ids -> PipeType] /\ pipe'[id] = q
        /\ \A i \in Ids : i # id => pipe'[i] = pipe[i]
    BY <2>2, <2>4, <2>6, <2>7, Zenon
  <2>9. /\ p.readers = Cardinality(Held(id, "Read")) /\ p.writers = Cardinality(Held(id, "Write"))
    BY <2>2, <2>3, Zenon DEF IInv, CountsExact
  <2>10. /\ p[Count(m)] = Cardinality(Held(id, m))
         /\ m = "Read" => p[Count(m)] = p.readers /\ p[Other(m)] = p.writers
         /\ m = "Write" => p[Count(m)] = p.writers /\ p[Other(m)] = p.readers
    BY <2>2, <2>9, Zenon DEF Modes, Count, Other
  <2> HIDE DEF p
  <2>11. \A i, k : /\ IsFiniteSet(Held(i, k)) /\ Cardinality(Held(i, k)) \in Nat
                   /\ Cardinality(Held(i, k)) = 0 <=> Held(i, k) = {}
    BY HeldFinite, Zenon DEF IInv
  <2>12. /\ IsFiniteSet(Held(id, m) \ {a})
         /\ Cardinality(Held(id, m) \ {a}) = Cardinality(Held(id, m)) - 1
         /\ Cardinality(Held(id, m) \ {a}) = 0 <=> Held(id, m) \ {a} = {}
    <3>1. a \in Held(id, m) /\ Held(id, m) \ {a} \in SUBSET Held(id, m)
      BY <2>2, Zenon
    <3> QED BY <2>11, <3>1, ZenonT(30) DEF Counting
  <2>13. \A i, k : ~(i = id /\ k = m) => Held(i, k) \ {a} = Held(i, k)
    BY <2>2, SMTT(30)
  <2>14. p[Count(m)] = 1 <=> Held(id, m)' = {}
    <3>1. Cardinality(Held(id, m)) \in Nat /\ Held(id, m)' = Held(id, m) \ {a}
      BY <2>2, <2>11, Zenon
    <3> QED BY <2>10, <2>12, <3>1, SMTT(30)
  <2>15. Held(id, m)' = {} <=> Held(id, m) = {a}
    BY <2>2, Zenon
  <2>16. TypeOK'
    <3>1. live' \subseteq Addresses
      BY <2>2, <2>3, Zenon
    <3>2. pipes' \subseteq Ids
      BY <2>6, Zenon DEF IInv, TypeOK
    <3> QED BY <2>1, <2>2, <2>8, <3>1, <3>2, Zenon DEF IInv, TypeOK
  <2>17. RingsClosed'
    BY <2>7, <2>8, Zenon DEF IInv, RingsClosed
  <2>18. HandlesCreated'
    <3>1. \A i \in Ids : i >= next_pipe_id => i # id
      BY <2>3, PipeAssumption, SMTT(30)
    <3> QED BY <2>1, <2>2, <2>3, <2>8, <3>1, Zenon DEF IInv, HandlesCreated
  <2>19. HungUpLostSide'
    <3> SUFFICES ASSUME NEW i \in Ids, pipe'[i].closed
                 PROVE  Held(i, "Read")' = {} \/ Held(i, "Write")' = {}
      BY Zenon DEF HungUpLostSide
    <3>1. pipe[i].closed => Held(i, "Read") = {} \/ Held(i, "Write") = {}
      BY Zenon DEF IInv, HungUpLostSide
    <3>2. CASE pipe[i].closed
      BY <2>2, <3>1, <3>2, Zenon
    <3>3. CASE ~pipe[i].closed
      <4>1. i = id /\ Held(id, m)' = {}
        BY <2>5, <2>8, <2>14, <3>3, Zenon DEF p
      <4> QED BY <2>2, <4>1, Zenon DEF Modes
    <3> QED BY <3>2, <3>3, Zenon
  <2>20. CountsExact'
    <3>1. \A i \in Ids :
            /\ pipe'[i].readers = Cardinality(Held(i, "Read")')
            /\ pipe'[i].writers = Cardinality(Held(i, "Write")')
      <4> SUFFICES ASSUME NEW i \in Ids
                   PROVE  /\ pipe'[i].readers = Cardinality(Held(i, "Read")')
                          /\ pipe'[i].writers = Cardinality(Held(i, "Write")')
        BY Zenon
      <4>1. CASE i = id
        <5>1. CASE m = "Read"
          <6>1. Held(i, "Write")' = Held(id, "Write") /\ Held(i, "Read")' = Held(id, m) \ {a}
            BY <2>2, <2>13, <4>1, <5>1, Zenon
          <6> QED BY <2>5, <2>8, <2>9, <2>12, <4>1, <5>1, <6>1, Zenon
        <5>2. CASE m = "Write"
          <6>1. Held(i, "Read")' = Held(id, "Read") /\ Held(i, "Write")' = Held(id, m) \ {a}
            BY <2>2, <2>13, <4>1, <5>2, Zenon
          <6> QED BY <2>5, <2>8, <2>9, <2>12, <4>1, <5>2, <6>1, SMTT(30)
        <5> QED BY <2>2, <5>1, <5>2, Zenon DEF Modes
      <4>2. CASE i # id
        <5>1. /\ pipe[i].readers = Cardinality(Held(i, "Read"))
              /\ pipe[i].writers = Cardinality(Held(i, "Write"))
          BY <2>3, Zenon DEF IInv, CountsExact
        <5> QED BY <2>2, <2>8, <2>13, <4>2, <5>1, SMTT(30)
      <4> QED BY <4>1, <4>2, Zenon
    <3>2. \A i \in Ids :
             i \in pipes' <=>
               /\ i < next_pipe_id
               /\ ~pipe'[i].closed \/ Held(i, "Read")' \cup Held(i, "Write")' # {}
      <4> SUFFICES ASSUME NEW i \in Ids
                   PROVE  i \in pipes' <=>
                            /\ i < next_pipe_id
                            /\ ~pipe'[i].closed \/ Held(i, "Read")' \cup Held(i, "Write")' # {}
        BY Zenon
      <4>0. i \in pipes <=> /\ i < next_pipe_id
                            /\ ~pipe[i].closed \/ Held(i, "Read") \cup Held(i, "Write") # {}
        BY <2>3, Zenon DEF IInv, CountsExact
      <4>1. CASE i = id
        <5>1. Held(id, m) # {} /\ id \in pipes
          BY <2>2, <2>3, <4>0, <4>1, Zenon DEF Modes
        <5>2. Unused(p, m) <=> Held(id, "Read")' \cup Held(id, "Write")' = {}
          <6>1. CASE m = "Read"
            <7>1. p[Other(m)] = 0 <=> Held(id, "Write") = {}
              BY <2>9, <2>10, <2>11, <6>1, Zenon
            <7>2. Held(id, "Write")' = Held(id, "Write")
              BY <2>2, <2>13, <6>1, Zenon
            <7> QED BY <2>14, <6>1, <7>1, <7>2, Zenon DEF Unused
          <6>2. CASE m = "Write"
            <7>1. p[Other(m)] = 0 <=> Held(id, "Read") = {}
              BY <2>9, <2>10, <2>11, <6>2, Zenon
            <7>2. Held(id, "Read")' = Held(id, "Read")
              BY <2>2, <2>13, <6>2, Zenon
            <7> QED BY <2>14, <6>2, <7>1, <7>2, Zenon DEF Unused
          <6> QED BY <2>2, <6>1, <6>2, Zenon DEF Modes
        <5>3. CASE Unused(p, m)
          <6>1. q.closed
            BY <2>5, <5>3, Zenon DEF Unused
          <6> QED BY <2>6, <2>8, <4>1, <5>2, <5>3, <6>1, Zenon
        <5>4. CASE ~Unused(p, m)
          BY <2>3, <2>6, <4>1, <5>1, <5>2, <5>4, Zenon
        <5> QED BY <5>3, <5>4, Zenon
      <4>2. CASE i # id
        <5>1. i \in pipes' <=> i \in pipes
          BY <2>6, <4>2, Zenon
        <5>2. pipe'[i] = pipe[i] /\ Held(i, "Read")' = Held(i, "Read") /\ Held(i, "Write")' = Held(i, "Write")
          BY <2>2, <2>8, <2>13, <4>2, Zenon
        <5> QED BY <4>0, <5>1, <5>2, Zenon
      <4> QED BY <4>1, <4>2, Zenon
    <3> QED BY <2>1, <3>1, <3>2, ZenonT(30) DEF CountsExact
  <2>21. Queue!Close(id, m, a)
    <3>1. a \in EndsOf[id][m] /\ EndsOf[id][m] = Held(id, m)
      BY <2>2, Zenon DEF EndsOf
    <3>2. EndsOf' = [EndsOf EXCEPT ![id][m] = @ \ {a}]
      <4>1. \A i \in Ids, k \in Modes :
              Held(i, k)' = IF i = id /\ k = m THEN Held(i, k) \ {a} ELSE Held(i, k)
        BY <2>2, <2>13, Zenon
      <4> QED BY <4>1, Zenon DEF EndsOf
    <3>3. QueueOf' = QueueOf
      BY <2>5, <2>8, Zenon DEF QueueOf, p
    <3>4. HungUp' = IF EndsOf[id][m] = {a} THEN HungUp \cup {id} ELSE HungUp
      <4>1. q.closed <=> p.closed \/ EndsOf[id][m] = {a}
        BY <2>5, <2>14, <2>15, <3>1, Zenon
      <4>2. \A i \in Ids : pipe'[i].closed <=> pipe[i].closed \/ (i = id /\ EndsOf[id][m] = {a})
        BY <2>8, <4>1, Zenon DEF p
      <4> QED BY <2>2, <4>2, Zenon DEF HungUp
    <3> QED BY <2>1, <3>1, <3>2, <3>3, <3>4, Zenon
          DEF Queue!Close, Queue!Answer, Outcome, QueueOf, EndsOf, HungUp
  <2> QED BY <2>2, <2>16, <2>17, <2>18, <2>19, <2>20, <2>21, ZenonT(30) DEF IInv, Queue!Next, Modes, Queue!Modes
<1> QED BY <1>1, <1>2, Zenon

(* A read or a write changes the ring buffer of one pipe and no count.     *)
LEMMA DataStep ==
  ASSUME IInv, NEW a \in live, NEW id \in Ids, id = handles[a].pipe,
         UNCHANGED <<mounted, next_pipe_id, pipes, handles>>,
         NEW q, pipe' = [pipe EXCEPT ![id] = q], Ring(q),
         q.readers = pipe[id].readers, q.writers = pipe[id].writers, q.closed = pipe[id].closed
  PROVE  /\ IInv' /\ EndsOf' = EndsOf /\ HungUp' = HungUp
         /\ QueueOf' = [QueueOf EXCEPT ![id] = Contents(q)]
<1>1. q \in PipeType /\ q.write_pos = (q.read_pos + q.data_len) % Capacity
  BY Zenon DEF Ring
<1>2. pipe \in [Ids -> PipeType] /\ next_pipe_id \in Nat /\ id < next_pipe_id
  BY Zenon DEF IInv, TypeOK, HandlesCreated
<1>3. /\ pipe' \in [Ids -> PipeType] /\ pipe'[id] = q
      /\ \A i \in Ids : i # id => pipe'[i] = pipe[i]
  BY <1>1, <1>2, Zenon
<1>4. live' = live /\ \A i, k : Held(i, k)' = Held(i, k)
  BY Zenon DEF live, Held
<1>5. TypeOK'
  BY <1>3, <1>4, Zenon DEF IInv, TypeOK
<1>6. RingsClosed'
  BY <1>1, <1>3, Zenon DEF IInv, RingsClosed
<1>7. HandlesCreated'
  <2>1. \A i \in Ids : i >= next_pipe_id => i # id
    BY <1>2, PipeAssumption, SMTT(30)
  <2> QED BY <1>3, <1>4, <2>1, Zenon DEF IInv, HandlesCreated
<1>8. \A i \in Ids : /\ pipe'[i].closed = pipe[i].closed /\ pipe'[i].readers = pipe[i].readers
                     /\ pipe'[i].writers = pipe[i].writers
  BY <1>3, Zenon
<1>9. HungUpLostSide'
  BY <1>4, <1>8, ZenonT(30) DEF IInv, HungUpLostSide
<1>10. CountsExact'
  BY <1>4, <1>8, SMTT(30) DEF IInv, CountsExact
<1>11. EndsOf' = EndsOf
  BY <1>4, Zenon DEF EndsOf
<1>12. HungUp' = HungUp
  BY <1>8, SMTT(30) DEF HungUp
<1>13. QueueOf' = [QueueOf EXCEPT ![id] = Contents(q)]
  BY <1>3, Zenon DEF QueueOf
<1> QED BY <1>5, <1>6, <1>7, <1>9, <1>10, <1>11, <1>12, <1>13, Zenon DEF IInv

LEMMA SameQueues ==
  ASSUME IInv, UNCHANGED <<mounted, next_pipe_id, pipes, pipe, handles>>
  PROVE  IInv' /\ QueueOf' = QueueOf /\ EndsOf' = EndsOf /\ HungUp' = HungUp
BY ZenonT(30) DEF IInv, TypeOK, RingsClosed, HandlesCreated, HungUpLostSide, CountsExact, live, Held,
       QueueOf, EndsOf, HungUp

(* A live handle: its pipe and mode, and what the counts say of the pipe.  *)
LEMMA LiveHandle ==
  ASSUME Counting, IInv, NEW a \in live
  PROVE  \E id \in Ids, m \in Modes :
           /\ id = handles[a].pipe /\ m = handles[a].mode
           /\ a \in Held(id, m) /\ a \in EndsOf[id][m] /\ Ring(pipe[id])
           /\ pipe[id].closed \in BOOLEAN
           /\ pipe[id].readers = 0 <=> EndsOf[id]["Read"] = {}
           /\ pipe[id].closed => EndsOf[id]["Read"] = {} \/ EndsOf[id]["Write"] = {}
           /\ id \in HungUp <=> pipe[id].closed
           /\ QueueOf[id] \in Seq(Bytes) /\ QueueOf[id] = Contents(pipe[id])
           /\ Len(QueueOf[id]) = pipe[id].data_len
           /\ pipe[id].data_len \in 0 .. Capacity
<1>1. PICK id \in Ids, m \in Modes : id = handles[a].pipe /\ m = handles[a].mode
  BY Zenon DEF IInv, TypeOK, PipeFsHandle
<1>2. handles[a] = [pipe |-> id, mode |-> m]
  BY <1>1, Zenon DEF IInv, TypeOK, PipeFsHandle
<1>3. a \in Held(id, m) /\ a \in EndsOf[id][m]
  BY <1>2, Zenon DEF Held, EndsOf
<1>4. Ring(pipe[id]) /\ pipe[id].closed \in BOOLEAN
  BY IInvRing, Zenon
<1>5. mounted /\ pipe[id].readers = Cardinality(Held(id, "Read"))
  BY <1>1, Zenon DEF IInv, HandlesCreated, CountsExact
<1>6. EndsOf[id]["Read"] = Held(id, "Read") /\ EndsOf[id]["Write"] = Held(id, "Write")
  BY Zenon DEF EndsOf, Modes
<1>7. pipe[id].readers = 0 <=> EndsOf[id]["Read"] = {}
  BY <1>5, <1>6, HeldFinite, Zenon DEF IInv
<1>8. pipe[id].closed => EndsOf[id]["Read"] = {} \/ EndsOf[id]["Write"] = {}
  BY <1>6, Zenon DEF IInv, HungUpLostSide
<1>9. id \in HungUp <=> pipe[id].closed
  BY Zenon DEF HungUp
<1>10. QueueOf[id] = Contents(pipe[id])
  BY Zenon DEF QueueOf
<1>11. QueueOf[id] \in Seq(Bytes) /\ Len(QueueOf[id]) = pipe[id].data_len
  BY <1>4, <1>10, ContentsFacts, Zenon
<1>12. pipe[id].data_len \in 0 .. Capacity
  BY <1>4, RingFacts, Zenon
<1> QED BY <1>1, <1>3, <1>4, <1>7, <1>8, <1>9, <1>10, <1>11, <1>12, ZenonT(30)

LEMMA FreadStep ==
  ASSUME Counting, IInv, NEW a \in Addresses, NEW n \in ReadSizes, Fread(a, n)
  PROVE  IInv' /\ Queue!Next
<1>1. CASE a \notin live \/ handles[a].mode # "Read"
  BY <1>1, FailsStep, Zenon DEF Fread
<1>2. CASE a \in live /\ handles[a].mode = "Read"
  <2>1. PICK id \in Ids :
           /\ id = handles[a].pipe /\ a \in EndsOf[id]["Read"] /\ Ring(pipe[id])
           /\ pipe[id].closed \in BOOLEAN
           /\ pipe[id].closed => EndsOf[id]["Read"] = {} \/ EndsOf[id]["Write"] = {}
           /\ id \in HungUp <=> pipe[id].closed
           /\ QueueOf[id] \in Seq(Bytes) /\ QueueOf[id] = Contents(pipe[id])
           /\ Len(QueueOf[id]) = pipe[id].data_len
           /\ pipe[id].data_len \in 0 .. Capacity
    BY <1>2, LiveHandle, ZenonT(30)
  <2> DEFINE p == pipe[id]
             k == Min(readable_bytes(p), n)
             j == IF n <= Len(QueueOf[id]) THEN n ELSE Len(QueueOf[id])
             q == ReadN(p, k)
  <2>2. FreadFrom(id, n)
    BY <1>2, <2>1, Zenon DEF Fread
  <2>3. n \in Nat /\ p.data_len \in Nat
    BY <2>1, PipeAssumption, SMTT(30)
  <2>4. k \in 0 .. p.data_len /\ k = j
    BY <2>1, <2>3, SMTT(30) DEF Min, readable_bytes
  <2>5. UNCHANGED <<mounted, next_pipe_id, pipes, handles>>
    BY <2>2, Zenon DEF FreadFrom
  <2>6. is_empty(p) <=> QueueOf[id] = <<>>
    BY <2>1 DEF is_empty
  <2>7. CASE is_empty(p)
    <3>1. UNCHANGED pipe
      BY <2>2, <2>7, Zenon DEF FreadFrom
    <3>2. IInv' /\ QueueOf' = QueueOf /\ EndsOf' = EndsOf /\ HungUp' = HungUp
      BY <2>5, <3>1, SameQueues, Zenon
    <3>3. \/ p.closed /\ ret' = Outcome(id, "Ok", 0, <<>>)
          \/ ~p.closed /\ ret' = Outcome(id, "WouldBlock", 0, <<>>)
      BY <2>2, <2>7, Zenon DEF FreadFrom
    <3>4. Queue!Read(id, a, n)
      <4> HIDE DEF p, k, j, q
      <4>1. \/ QueueOf[id] = <<>> /\ id \notin HungUp /\ ret' = Outcome(id, "WouldBlock", 0, <<>>)
            \/ /\ QueueOf[id] = <<>> /\ EndsOf[id]["Write"] = {} /\ id \in HungUp
               /\ ret' = Outcome(id, "Ok", 0, <<>>)
        BY <2>1, <2>6, <2>7, <3>3, Zenon DEF p
      <4> QED BY <2>1, <3>2, <4>1, ZenonT(30)
            DEF Queue!Read, Queue!Answer, Outcome, QueueOf, EndsOf, HungUp
    <3> QED BY <3>2, <3>4, Zenon DEF Queue!Next
  <2>8. CASE ~is_empty(p)
    <3>1. ret' = Outcome(id, "Ok", k, Taken(p, k)) /\ pipe' = [pipe EXCEPT ![id] = q]
      BY <2>2, <2>8, Zenon DEF FreadFrom
    <3>2. /\ Taken(p, k) = SubSeq(Contents(p), 1, k) /\ Ring(q)
          /\ Contents(q) = SubSeq(Contents(p), k + 1, p.data_len)
      <4> HIDE DEF p, k
      <4> QED BY <2>1, <2>4, ReadIsDequeue, ZenonT(30) DEF p
    <3>3. q.readers = p.readers /\ q.writers = p.writers /\ q.closed = p.closed
      BY <2>1, Zenon DEF ReadN, Ring, PipeType
    <3> HIDE DEF q, k
    <3>4. /\ IInv' /\ EndsOf' = EndsOf /\ HungUp' = HungUp
          /\ QueueOf' = [QueueOf EXCEPT ![id] = Contents(q)]
      BY <1>2, <2>1, <2>5, <3>1, <3>2, <3>3, DataStep, ZenonT(30)
    <3>5. Queue!Read(id, a, n)
      <4>1. /\ QueueOf[id] # <<>>
            /\ ret' = Outcome(id, "Ok", j, SubSeq(QueueOf[id], 1, j))
            /\ QueueOf' = [QueueOf EXCEPT ![id] = SubSeq(QueueOf[id], j + 1, Len(QueueOf[id]))]
        <5> HIDE DEF p, j
        <5> QED BY <2>1, <2>4, <2>6, <2>8, <3>1, <3>2, <3>4, ZenonT(30) DEF p
      <4> QED BY <2>1, <3>4, <4>1, ZenonT(30)
            DEF Queue!Read, Queue!Answer, Queue!Least, Outcome, QueueOf, EndsOf, HungUp
    <3> QED BY <3>4, <3>5, Zenon DEF Queue!Next
  <2> QED BY <2>7, <2>8, Zenon
<1> QED BY <1>1, <1>2, Zenon

LEMMA FwriteStep ==
  ASSUME Counting, IInv, NEW a \in Addresses, NEW buf \in Requests, Fwrite(a, buf)
  PROVE  IInv' /\ Queue!Next
<1>1. CASE a \notin live \/ handles[a].mode # "Write"
  BY <1>1, FailsStep, Zenon DEF Fwrite
<1>2. CASE a \in live /\ handles[a].mode = "Write"
  <2>1. PICK id \in Ids :
           /\ id = handles[a].pipe /\ a \in EndsOf[id]["Write"] /\ Ring(pipe[id])
           /\ pipe[id].readers = 0 <=> EndsOf[id]["Read"] = {}
           /\ QueueOf[id] \in Seq(Bytes) /\ QueueOf[id] = Contents(pipe[id])
           /\ Len(QueueOf[id]) = pipe[id].data_len
           /\ pipe[id].data_len \in 0 .. Capacity
    BY <1>2, LiveHandle, ZenonT(30)
  <2> DEFINE p == pipe[id]
             k == Min(writable_bytes(p), Len(buf))
             j == IF Len(buf) <= Capacity - Len(QueueOf[id]) THEN Len(buf)
                  ELSE Capacity - Len(QueueOf[id])
             q == WriteN(p, buf, k)
  <2>2. FwriteTo(id, buf)
    BY <1>2, <2>1, Zenon DEF Fwrite
  <2>3. buf \in Seq(Bytes) /\ Len(buf) \in Nat /\ p.data_len \in Nat /\ Capacity \in Nat
    BY <2>1, PipeAssumption
  <2>4. k \in 0 .. Len(buf) /\ k <= Capacity - p.data_len /\ k = j
    <3> DEFINE x == Capacity - p.data_len
               y == Len(buf)
    <3>1. x \in Nat /\ y \in Nat /\ Capacity - Len(QueueOf[id]) = x
      BY <2>1, <2>3, SMTT(30)
    <3>2. k = Min(x, y) /\ j = IF y <= x THEN y ELSE x
      BY <2>1, <3>1, Zenon DEF writable_bytes
    <3> HIDE DEF x, y, k, j
    <3>3. k \in 0 .. y /\ k <= x /\ k = j
      BY <3>1, <3>2 DEF Min
    <3> QED BY <3>3, Zenon DEF x, y
  <2>5. UNCHANGED <<mounted, next_pipe_id, pipes, handles>>
    BY <2>2, Zenon DEF FwriteTo
  <2>6. /\ is_full(p) => Len(QueueOf[id]) = Capacity
        /\ ~is_full(p) => Len(QueueOf[id]) < Capacity
    BY <2>1, <2>3 DEF is_full
  <2>7. CASE Broken(p) \/ is_full(p)
    <3>1. UNCHANGED pipe
      BY <2>2, <2>7, Zenon DEF FwriteTo
    <3>2. IInv' /\ QueueOf' = QueueOf /\ EndsOf' = EndsOf /\ HungUp' = HungUp
      BY <2>5, <3>1, SameQueues, Zenon
    <3>3. \/ Broken(p) /\ ret' = Outcome(id, "BrokenPipe", 0, <<>>)
          \/ ~Broken(p) /\ is_full(p) /\ ret' = Outcome(id, "WouldBlock", 0, <<>>)
      BY <2>2, <2>7, Zenon DEF FwriteTo
    <3>4. Queue!Write(id, a, buf)
      <4> HIDE DEF p, k, j, q
      <4>1. \/ EndsOf[id]["Read"] = {} /\ ret' = Outcome(id, "BrokenPipe", 0, <<>>)
            \/ /\ EndsOf[id]["Read"] # {} /\ Len(QueueOf[id]) = Capacity
               /\ ret' = Outcome(id, "WouldBlock", 0, <<>>)
        BY <2>1, <2>6, <3>3, ZenonT(30) DEF p, Broken
      <4> QED BY <2>1, <3>2, <4>1, ZenonT(30)
            DEF Queue!Write, Queue!Answer, Outcome, QueueOf, EndsOf, HungUp
    <3> QED BY <3>2, <3>4, Zenon DEF Queue!Next
  <2>8. CASE ~Broken(p) /\ ~is_full(p)
    <3>1. ret' = Outcome(id, "Ok", k, SubSeq(buf, 1, k)) /\ pipe' = [pipe EXCEPT ![id] = q]
      BY <2>2, <2>8, Zenon DEF FwriteTo
    <3>2. Ring(q) /\ Contents(q) = Contents(p) \o SubSeq(buf, 1, k)
      <4> HIDE DEF p, k
      <4> QED BY <2>1, <2>3, <2>4, WriteIsEnqueue, ZenonT(30) DEF p
    <3>3. q.readers = p.readers /\ q.writers = p.writers /\ q.closed = p.closed
      BY <2>1, Zenon DEF WriteN, Ring, PipeType
    <3> HIDE DEF q, k
    <3>4. /\ IInv' /\ EndsOf' = EndsOf /\ HungUp' = HungUp
          /\ QueueOf' = [QueueOf EXCEPT ![id] = Contents(q)]
      BY <1>2, <2>1, <2>5, <3>1, <3>2, <3>3, DataStep, ZenonT(30)
    <3>5. Queue!Write(id, a, buf)
      <4>1. /\ EndsOf[id]["Read"] # {} /\ Len(QueueOf[id]) < Capacity
            /\ ret' = Outcome(id, "Ok", j, SubSeq(buf, 1, j))
            /\ QueueOf' = [QueueOf EXCEPT ![id] = QueueOf[id] \o SubSeq(buf, 1, j)]
        <5> HIDE DEF p, j
        <5> QED BY <2>1, <2>4, <2>6, <2>8, <3>1, <3>2, <3>4, ZenonT(30) DEF p, Broken
      <4> QED BY <2>1, <3>4, <4>1, ZenonT(30)
            DEF Queue!Write, Queue!Answer, Queue!Least, Outcome, QueueOf, EndsOf, HungUp
    <3> QED BY <3>4, <3>5, Zenon DEF Queue!Next
  <2> QED BY <2>7, <2>8, Zenon
<1> QED BY <1>1, <1>2, Zenon

-------------------------------------------------------------------------------
LEMMA InitStep ==
  ASSUME Counting, Init
  PROVE  IInv /\ Queue!Init
<1>1. /\ mounted = TRUE /\ next_pipe_id = 0 /\ pipes = {} /\ ret = Done
      /\ pipe = [id \in Ids |-> new_anonymous]
      /\ handles = [a \in {} |-> [pipe |-> 0, mode |-> "Read"]]
  BY Zenon DEF Init
<1>2. live = {} /\ \A id, m : Held(id, m) = {}
  BY <1>1, Zenon DEF live, Held
<1>3. TypeOK
  BY <1>1, <1>2, NewPipe, Zenon DEF TypeOK
<1>4. RingsClosed
  BY <1>1, NewPipe, Zenon DEF RingsClosed, Ring
<1>5. HandlesCreated /\ HungUpLostSide
  BY <1>1, <1>2, Zenon DEF HandlesCreated, HungUpLostSide
<1>6. CountsExact
  <2>1. new_anonymous.readers = 0 /\ new_anonymous.writers = 0
    BY Zenon DEF new_anonymous
  <2>2. \A id \in Ids : ~(id < 0)
    BY PipeAssumption
  <2> QED BY <1>1, <1>2, <2>1, <2>2, ZenonT(30) DEF CountsExact, Counting
<1>7. Queue!Init
  <2>1. new_anonymous.closed = FALSE
    BY Zenon DEF new_anonymous
  <2>2. /\ [id \in Ids |-> Contents(pipe[id])] = [id \in Ids |-> <<>>]
        /\ {id \in Ids : pipe[id].closed} = {}
    BY <1>1, <2>1, NewPipe, Zenon
  <2> QED BY <1>1, <1>2, <2>2, Zenon DEF Queue!Init, Queue!Answer, Done, Outcome, Modes, Queue!Modes
<1> QED BY <1>3, <1>4, <1>5, <1>6, <1>7, Zenon DEF IInv

LEMMA NextStep ==
  ASSUME Counting, IInv, [Next]_vars
  PROVE  IInv' /\ [Queue!Next]_(Queue!vars)
<1>1. CASE UNCHANGED vars
  <2>1. ret' = ret /\ UNCHANGED <<mounted, next_pipe_id, pipes, pipe, handles>>
    BY <1>1, Zenon DEF vars
  <2>2. IInv' /\ QueueOf' = QueueOf /\ EndsOf' = EndsOf /\ HungUp' = HungUp
    BY <2>1, SameQueues, Zenon
  <2> QED BY <2>1, <2>2, Zenon DEF Queue!vars, QueueOf, EndsOf, HungUp
<1>2. CASE CreateChild
  BY <1>2, CreateChildStep, Zenon
<1>3. CASE NotAllowed
  BY <1>3, FailsStep, Zenon DEF NotAllowed
<1>4. CASE Unmount
  BY <1>4, UnmountStep, Zenon
<1>5. ASSUME NEW a \in Addresses,
             \/ \E id \in Ids, m \in Modes, flags \in OpenFlags : Fopen(id, m, flags, a)
             \/ Fclose(a) \/ Fflush(a)
             \/ \E n \in ReadSizes : Fread(a, n)
             \/ \E buf \in Requests : Fwrite(a, buf)
      PROVE  IInv' /\ Queue!Next
  <2>1. CASE Fflush(a)
    BY <2>1, QuietStep, Zenon DEF Fflush
  <2> QED BY <1>5, <2>1, FopenStep, FcloseStep, FreadStep, FwriteStep, Zenon
<1> QED BY <1>1, <1>2, <1>3, <1>4, <1>5, Zenon DEF Next

-------------------------------------------------------------------------------
INSTANCE FiniteSetTheorems

LEMMA FiniteSetsCount == Counting
<1>1. IsFiniteSet({}) /\ Cardinality({}) = 0
  BY FS_EmptySet, Zenon
<1>2. ASSUME NEW S, IsFiniteSet(S)
      PROVE  /\ Cardinality(S) \in Nat
             /\ Cardinality(S) = 0 <=> S = {}
             /\ \A T \in SUBSET S : IsFiniteSet(T)
             /\ \A x : x \notin S => Cardinality(S \cup {x}) = Cardinality(S) + 1
             /\ \A x \in S : Cardinality(S \ {x}) = Cardinality(S) - 1
  <2>1. Cardinality(S) \in Nat
    BY <1>2, FS_CardinalityType, ZenonT(30)
  <2>2. Cardinality(S) = 0 <=> S = {}
    BY <1>2, FS_EmptySet, ZenonT(30)
  <2>3. \A T \in SUBSET S : IsFiniteSet(T)
    BY <1>2, FS_Subset, Zenon
  <2>4. \A x : x \notin S => Cardinality(S \cup {x}) = Cardinality(S) + 1
    BY <1>2, FS_AddElement, ZenonT(30)
  <2>5. \A x \in S : Cardinality(S \ {x}) = Cardinality(S) - 1
    BY <1>2, FS_RemoveElement, ZenonT(30)
  <2> QED BY <2>1, <2>2, <2>3, <2>4, <2>5, ZenonT(30)
<1> QED BY <1>1, <1>2, ZenonT(30) DEF Counting

(* IInv is an invariant of every instance: any buffer size, any number of  *)
(* pipes and of handle addresses.                                          *)
THEOREM Invariance == Spec => []IInv
<1>1. Init => IInv
  BY FiniteSetsCount, InitStep, Zenon
<1>2. IInv /\ [Next]_vars => IInv'
  BY FiniteSetsCount, NextStep, ZenonT(30)
<1> QED BY <1>1, <1>2, PTL DEF Spec

(* readers and writers of a Pipe are the numbers of its live handles, and  *)
(* fclose drops a pipe from the map with its last handle, for every number *)
(* of pipes and handles.                                                   *)
THEOREM CountsAreExact == Spec => []CountsExact
<1>1. IInv => CountsExact
  BY Zenon DEF IInv
<1> QED BY <1>1, Invariance, PTL

(* The pipe file system implements a bounded queue of bytes, for every     *)
(* size of the ring buffer and whatever is written: no call of fread or    *)
(* fwrite loses, repeats or reorders a byte, also where the copy is made   *)
(* in two pieces.                                                          *)
THEOREM ImplementsQueue == Spec => RefinesQueue
<1>1. Init => Queue!Init
  BY FiniteSetsCount, InitStep, ZenonT(30)
<1>2. IInv /\ [Next]_vars => [Queue!Next]_(Queue!vars)
  BY FiniteSetsCount, NextStep, ZenonT(30)
<1> QED BY <1>1, <1>2, Invariance, PTL DEF Spec, RefinesQueue, Queue!Spec
===============================================================================
