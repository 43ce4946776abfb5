---------------------------- MODULE PataDisk_proof -----------------------------
(***************************************************************************)
(* Proofs about PataDisk: the hooks of DevFs, the partition that fwrite    *)
(* keeps to, and what fread returns.                                       *)
(***************************************************************************)
EXTENDS PataDisk, TLAPS

-------------------------------------------------------------------------------
(* Sequences.                                                              *)

(* What SubSeq returns, from positions m to n of s.                        *)
LEMMA Sliced ==
  ASSUME NEW S, NEW s, NEW m \in Int, NEW n \in Int, \A i \in m .. n : s[i] \in S
  PROVE  /\ SubSeq(s, m, n) \in Seq(S)
         /\ Len(SubSeq(s, m, n)) = IF m <= n THEN n - m + 1 ELSE 0
         /\ \A i \in 1 .. n - m + 1 : SubSeq(s, m, n)[i] = s[m + i - 1]
OBVIOUS

(* What a concatenation holds.                                             *)
LEMMA Joined ==
  ASSUME NEW S, NEW s \in Seq(S), NEW t \in Seq(S)
  PROVE  /\ s \o t \in Seq(S) /\ Len(s \o t) = Len(s) + Len(t)
         /\ \A i \in 1 .. Len(s) + Len(t) :
              (s \o t)[i] = IF i <= Len(s) THEN s[i] ELSE t[i - Len(s)]
OBVIOUS

(* An element of a sequence over S is in S.                                *)
LEMMA Element ==
  ASSUME NEW S, NEW s \in Seq(S), NEW n \in 1 .. Len(s)
  PROVE  s[n] \in S
OBVIOUS

(* The sequences over S are the functions from 1 .. n to S.                *)
LEMMA AnySeq ==
  ASSUME NEW S
  PROVE  Seq(S) = UNION {[1 .. n -> S] : n \in Nat}
OBVIOUS

-------------------------------------------------------------------------------
(* Loops.                                                                  *)

(* Every set of numbers that is not empty has a least one.  The lemmas     *)
(* that need it assume it; NumbersOrdered, at the end, proves it.          *)
Ordered == \A T \in SUBSET Nat : T # {} => \E x \in T : \A y \in T : x <= y

(* Induction: a set with 0 and, below n, the successors of its members     *)
(* holds all numbers up to n.                                              *)
LEMMA Ascends ==
  ASSUME Ordered, NEW n \in Nat, NEW T, 0 \in T,
         \A k \in 0 .. n - 1 : k \in T => k + 1 \in T
  PROVE  \A k \in 0 .. n : k \in T
<1> DEFINE S == {k \in Nat : k <= n /\ k \notin T}
<1> SUFFICES ASSUME S # {}
             PROVE  FALSE
  OBVIOUS
<1>1. PICK x \in S : \A y \in S : x <= y
  <2>1. S \in SUBSET Nat
    BY Zenon
  <2> HIDE DEF S
  <2> QED BY <2>1, Zenon DEF Ordered
<1>2. x \in Nat /\ x <= n /\ x \notin T /\ x # 0
  BY Zenon
<1>3. x - 1 \in 0 .. n - 1 /\ x - 1 \notin S /\ (x - 1) + 1 = x
  BY <1>1, <1>2
<1>4. x - 1 \in T
  BY <1>3
<1> QED BY <1>2, <1>3, <1>4, Zenon

(* The loop of fwrite goes through the states that its turns lead to.    *)
LEMMA WriteRuns ==
  ASSUME Ordered, NEW fault, NEW base, NEW n \in Nat
  PROVE  \E acc :
           /\ acc[0] = base
           /\ \A k \in 0 .. n - 1 : acc[k + 1] = WriteTurn(acc[k], fault)
           /\ WriteLoop(base, n, fault) = acc[n]
<1> DEFINE Body(it, m) == [k \in 0 .. m |-> IF k = 0 THEN base ELSE WriteTurn(it[k - 1], fault)]
           T == {m \in Nat : \E it : it = Body(it, m)}
<1>1. 0 \in T
  <2> DEFINE it == [k \in 0 .. 0 |-> base]
  <2>1. it = Body(it, 0)
    OBVIOUS
  <2> QED BY <2>1, Zenon
<1>2. ASSUME NEW m \in Nat, m \in T PROVE m + 1 \in T
  <2>1. PICK it : it = Body(it, m)
    BY <1>2, Zenon
  <2> DEFINE g == [k \in 0 .. m + 1 |-> IF k = m + 1 THEN WriteTurn(it[m], fault) ELSE it[k]]
  <2>2. ASSUME NEW k \in 0 .. m + 1
        PROVE  g[k] = IF k = 0 THEN base ELSE WriteTurn(g[k - 1], fault)
    <3>1. CASE k = m + 1
      <4>1. m \in 0 .. m + 1 /\ m # m + 1 /\ k - 1 = m /\ k # 0
        BY <3>1
      <4>2. g[k] = WriteTurn(it[m], fault) /\ g[m] = it[m]
        BY <3>1, <4>1, Zenon
      <4> HIDE DEF g
      <4> QED BY <4>1, <4>2, Zenon
    <3>2. CASE k # m + 1
      <4>1. k \in 0 .. m /\ (k # 0 => k - 1 \in 0 .. m + 1 /\ k - 1 # m + 1)
        BY <3>2
      <4>2. g[k] = it[k] /\ (k # 0 => g[k - 1] = it[k - 1])
        BY <3>2, <4>1, Zenon
      <4>3. it[k] = IF k = 0 THEN base ELSE WriteTurn(it[k - 1], fault)
        BY <2>1, <4>1, Zenon
      <4> HIDE DEF g
      <4> QED BY <4>2, <4>3, Zenon
    <3> QED BY <3>1, <3>2, Zenon
  <2>3. g = Body(g, m + 1)
    <3>1. g = [k \in 0 .. m + 1 |-> g[k]]
      BY Zenon
    <3> HIDE DEF g
    <3> QED BY <2>2, <3>1, Zenon
  <2> HIDE DEF g, Body
  <2>4. \E it_ : it_ = Body(it_, m + 1)
    BY <2>3, Zenon
  <2> QED BY <2>4
<1>3. n \in T
  <2> HIDE DEF T
  <2>1. \A k \in 0 .. n : k \in T
    BY <1>1, <1>2, Ascends
  <2> QED BY <2>1
<1> DEFINE acc == CHOOSE it : it = Body(it, n)
<1>4. acc = Body(acc, n)
  BY <1>3, Zenon
<1>5. WriteLoop(base, n, fault) = acc[n]
  BY Zenon DEF WriteLoop
<1> HIDE DEF acc
<1>6. acc[0] = base
  BY <1>4
<1>7. ASSUME NEW k \in 0 .. n - 1 PROVE acc[k + 1] = WriteTurn(acc[k], fault)
  <2>1. k + 1 \in 0 .. n /\ k + 1 # 0 /\ (k + 1) - 1 = k
    BY SMTT(30)
  <2> QED BY <1>4, <2>1, Zenon
<1> QED BY <1>5, <1>6, <1>7, Zenon

(* The loop of fread goes through the states that its turns lead to.     *)
LEMMA ReadRuns ==
  ASSUME Ordered, NEW fault, NEW base, NEW n \in Nat
  PROVE  \E acc :
           /\ acc[0] = base
           /\ \A k \in 0 .. n - 1 : acc[k + 1] = ReadTurn(acc[k], fault)
           /\ ReadLoop(base, n, fault) = acc[n]
<1> DEFINE Body(it, m) == [k \in 0 .. m |-> IF k = 0 THEN base ELSE ReadTurn(it[k - 1], fault)]
           T == {m \in Nat : \E it : it = Body(it, m)}
<1>1. 0 \in T
  <2> DEFINE it == [k \in 0 .. 0 |-> base]
  <2>1. it = Body(it, 0)
    OBVIOUS
  <2> QED BY <2>1, Zenon
<1>2. ASSUME NEW m \in Nat, m \in T PROVE m + 1 \in T
  <2>1. PICK it : it = Body(it, m)
    BY <1>2, Zenon
  <2> DEFINE g == [k \in 0 .. m + 1 |-> IF k = m + 1 THEN ReadTurn(it[m], fault) ELSE it[k]]
  <2>2. ASSUME NEW k \in 0 .. m + 1
        PROVE  g[k] = IF k = 0 THEN base ELSE ReadTurn(g[k - 1], fault)
    <3>1. CASE k = m + 1
      <4>1. m \in 0 .. m + 1 /\ m # m + 1 /\ k - 1 = m /\ k # 0
        BY <3>1
      <4>2. g[k] = ReadTurn(it[m], fault) /\ g[m] = it[m]
        BY <3>1, <4>1, Zenon
      <4> HIDE DEF g
      <4> QED BY <4>1, <4>2, Zenon
    <3>2. CASE k # m + 1
      <4>1. k \in 0 .. m /\ (k # 0 => k - 1 \in 0 .. m + 1 /\ k - 1 # m + 1)
        BY <3>2
      <4>2. g[k] = it[k] /\ (k # 0 => g[k - 1] = it[k - 1])
        BY <3>2, <4>1, Zenon
      <4>3. it[k] = IF k = 0 THEN base ELSE ReadTurn(it[k - 1], fault)
        BY <2>1, <4>1, Zenon
      <4> HIDE DEF g
      <4> QED BY <4>2, <4>3, Zenon
    <3> QED BY <3>1, <3>2, Zenon
  <2>3. g = Body(g, m + 1)
    <3>1. g = [k \in 0 .. m + 1 |-> g[k]]
      BY Zenon
    <3> HIDE DEF g
    <3> QED BY <2>2, <3>1, Zenon
  <2> HIDE DEF g, Body
  <2>4. \E it_ : it_ = Body(it_, m + 1)
    BY <2>3, Zenon
  <2> QED BY <2>4
<1>3. n \in T
  <2> HIDE DEF T
  <2>1. \A k \in 0 .. n : k \in T
    BY <1>1, <1>2, Ascends
  <2> QED BY <2>1
<1> DEFINE acc == CHOOSE it : it = Body(it, n)
<1>4. acc = Body(acc, n)
  BY <1>3, Zenon
<1>5. ReadLoop(base, n, fault) = acc[n]
  BY Zenon DEF ReadLoop
<1> HIDE DEF acc
<1>6. acc[0] = base
  BY <1>4
<1>7. ASSUME NEW k \in 0 .. n - 1 PROVE acc[k + 1] = ReadTurn(acc[k], fault)
  <2>1. k + 1 \in 0 .. n /\ k + 1 # 0 /\ (k + 1) - 1 = k
    OBVIOUS
  <2> QED BY <1>4, <2>1, Zenon
<1> QED BY <1>5, <1>6, <1>7, Zenon

-------------------------------------------------------------------------------
(* What the driver is given: every table that a disk may hold has ranges   *)
(* of sectors for partitions, and what is written are words.               *)
Images == [Disk -> [1 .. Words -> Int]]
Environment ==
  /\ \A d \in Images : get_partitions(TableOf(d)) \in Seq(Ranges)
  /\ \A d : Buffers(d) \subseteq Seq(Int)

-------------------------------------------------------------------------------
(* Arithmetic of sectors and words.                                        *)
LEMMA DivMod ==
  ASSUME NEW p \in Nat, NEW w \in Nat \ {0}
  PROVE  /\ p \div w \in Nat /\ p % w \in 0 .. w - 1
         /\ p = w * (p \div w) + (p % w)
OBVIOUS

LEMMA Product == ASSUME NEW a \in Int, NEW b \in Int PROVE a * b \in Int
OBVIOUS

LEMMA TimesMonotone ==
  ASSUME NEW a \in Int, NEW b \in Int, NEW w \in Nat \ {0}, a <= b
  PROVE  a * w <= b * w
<1>1. b - a \in Nat
  OBVIOUS
<1>2. (b - a) * w >= 0
  BY <1>1
<1>3. (b - a) * w = b * w - a * w
  OBVIOUS
<1> QED BY <1>2, <1>3

(* A word between the first of sector `start' and that of sector `end'     *)
(* belongs to a sector between them.                                       *)
LEMMA WordInRange ==
  ASSUME NEW w \in Nat \ {0}, NEW q \in Int, NEW i \in 1 .. w,
         NEW start \in Int, NEW end \in Int,
         start * w <= q * w + i - 1, q * w + i - 1 < end * w
  PROVE  start <= q /\ q < end
<1>1. ASSUME q < start PROVE FALSE
  <2>1. (q + 1) * w <= start * w
    BY <1>1, TimesMonotone
  <2>2. (q + 1) * w = q * w + w
    OBVIOUS
  <2> QED BY <2>1, <2>2
<1>2. ASSUME end <= q PROVE FALSE
  <2>1. end * w <= q * w
    BY <1>2, TimesMonotone, Zenon
  <2> QED BY <2>1
<1> QED BY <1>1, <1>2

-------------------------------------------------------------------------------
(* A turn of the loops.                                                    *)
Calls ==
  [d : HandleData, disk : Images, left : Nat, data : Seq(Int), out : Seq(Int),
   err : {"Ok", "DriverError"}]

SameFile(d, d0) ==
  /\ d.file = d0.file /\ d.mode = d0.mode
  /\ d.generation = d0.generation /\ d.range = d0.range

Sound(d, dk) ==
  ~d.stale /\ d.last_sector # NoSector => d.last_sector \in Disk /\ d.cache = dk[d.last_sector]

LEMMA Spot ==
  ASSUME NEW d \in HandleData
  PROVE  /\ Sector(d) \in Nat /\ Offset(d) \in 0 .. Words - 1
         /\ Sector(d) * Words + Offset(d) = d.range.start * Words + d.position
<1>1. d.position \in Nat /\ d.range.start \in Nat /\ Words \in Nat \ {0}
  BY PataAssumption, Zenon DEF HandleData, Ranges
<1> DEFINE p == d.position
           a == d.range.start
           q == p \div Words
           r == p % Words
<1>2. q \in Nat /\ r \in 0 .. Words - 1 /\ p = Words * q + r
  BY <1>1, DivMod, Zenon
<1>3. Sector(d) = q + a /\ Offset(d) = r
  BY Zenon DEF Sector, Offset
<1> HIDE DEF q, r
<1>4. (q + a) * Words + r = a * Words + p
  <2>1. (q + a) * Words = Words * q + a * Words
    BY <1>1, <1>2
  <2> HIDE DEF p, a
  <2> QED BY <1>1, <1>2, <2>1 DEF p, a
<1> QED BY <1>1, <1>2, <1>3, <1>4

LEMMA PieceFacts ==
  ASSUME NEW s \in Calls, s.left # 0
  PROVE  /\ Piece(s) \in 1 .. Words /\ Piece(s) <= s.left
         /\ Offset(s.d) + Piece(s) <= Words
<1>1. s.d \in HandleData /\ s.left \in Nat /\ Words \in Nat
  BY PataAssumption, Zenon DEF Calls
<1>2. Offset(s.d) \in 0 .. Words - 1
  BY <1>1, Spot, Zenon
<1> QED BY <1>1, <1>2 DEF Piece, Least

(* Handles and calls with some fields replaced.                            *)
MoveTo(d, p) == [d EXCEPT !.position = p]
Spoilt(d) == [d EXCEPT !.stale = TRUE]
MoveCall(s, e, l, t) == [s EXCEPT !.d = e, !.left = l, !.data = t]

LEMMA HandleMoved ==
  ASSUME NEW d \in HandleData, NEW p \in Nat
  PROVE  /\ MoveTo(d, p) \in HandleData /\ SameFile(MoveTo(d, p), d) /\ MoveTo(d, p).position = p
         /\ MoveTo(d, p).cache = d.cache /\ MoveTo(d, p).last_sector = d.last_sector
         /\ MoveTo(d, p).stale = d.stale
BY Zenon DEF HandleData, SameFile, MoveTo

LEMMA HandleCaches ==
  ASSUME NEW d \in HandleData, NEW q \in Int, NEW words \in [1 .. Words -> Int]
  PROVE  /\ Caches(d, q, words) \in HandleData
         /\ SameFile(Caches(d, q, words), d)
         /\ Caches(d, q, words).position = d.position
         /\ Caches(d, q, words).cache = words
         /\ Caches(d, q, words).last_sector = q
         /\ ~Caches(d, q, words).stale
BY Zenon DEF HandleData, SameFile, Caches

LEMMA HandleSpoilt ==
  ASSUME NEW d \in HandleData
  PROVE  /\ Spoilt(d) \in HandleData /\ SameFile(Spoilt(d), d)
         /\ Spoilt(d).position = d.position /\ Spoilt(d).stale
BY Zenon DEF HandleData, SameFile, Spoilt

LEMMA CallMoves ==
  ASSUME NEW s \in Calls, NEW e \in HandleData, NEW l \in Nat, NEW t \in Seq(Int)
  PROVE  /\ MoveCall(s, e, l, t) \in Calls
         /\ MoveCall(s, e, l, t).d = e /\ MoveCall(s, e, l, t).left = l
         /\ MoveCall(s, e, l, t).data = t /\ MoveCall(s, e, l, t).disk = s.disk
         /\ MoveCall(s, e, l, t).out = s.out /\ MoveCall(s, e, l, t).err = s.err
BY Zenon DEF Calls, MoveCall

(* The words that `Moved' leaves.                                          *)
LEMMA MovedFacts ==
  ASSUME NEW s \in Calls, NEW n \in 1 .. s.left
  PROVE  /\ Moved(s, n) \in Calls
         /\ Moved(s, n).left = s.left - n
         /\ Moved(s, n).d = MoveTo(s.d, s.d.position + n)
         /\ Moved(s, n).disk = s.disk /\ Moved(s, n).out = s.out /\ Moved(s, n).err = s.err
         /\ s.left <= Len(s.data) => Moved(s, n).left <= Len(Moved(s, n).data)
<1>1. s.d \in HandleData /\ s.left \in Nat /\ s.data \in Seq(Int) /\ s.d.position \in Nat
  BY Zenon DEF Calls, HandleData
<1> DEFINE t == SubSeq(s.data, n + 1, Len(s.data))
           e == MoveTo(s.d, s.d.position + n)
<1>2. /\ t \in Seq(Int)
      /\ Len(t) = IF n + 1 <= Len(s.data) THEN Len(s.data) - n ELSE 0
  <2>1. n + 1 \in Int /\ Len(s.data) \in Int
        /\ \A i \in n + 1 .. Len(s.data) : s.data[i] \in Int
    BY <1>1, Element
  <2> QED BY <1>1, <2>1, Sliced
<1>3. e \in HandleData
  <2>1. s.d.position + n \in Nat
    BY <1>1, SMTT(30)
  <2> QED BY <1>1, <2>1, HandleMoved, Zenon
<1>4. Moved(s, n) = MoveCall(s, e, s.left - n, t)
  BY Zenon DEF Moved, Calls, MoveCall, MoveTo
<1>5. s.left <= Len(s.data) => s.left - n <= Len(t)
  BY <1>1, <1>2, SMTT(30)
<1>6. s.left - n \in Nat
  BY <1>1
<1> HIDE DEF e, t
<1>7. /\ Moved(s, n) \in Calls /\ Moved(s, n).d = e
      /\ Moved(s, n).left = s.left - n /\ Moved(s, n).data = t
      /\ Moved(s, n).disk = s.disk /\ Moved(s, n).out = s.out /\ Moved(s, n).err = s.err
  BY <1>2, <1>3, <1>4, <1>6, CallMoves, SMTT(30)
<1> QED BY <1>5, <1>7, Zenon DEF e

-------------------------------------------------------------------------------
(* What the loop of fwrite keeps true of a call that began with handle d0, *)
(* disk dk and n words to write.                                           *)
WriteInv(s, d0, dk, n) ==
  /\ s \in Calls
  /\ s.left <= n /\ s.left <= Len(s.data)
  /\ s.d.position = d0.position + (n - s.left)
  /\ SameFile(s.d, d0) /\ Sound(s.d, s.disk)
  /\ \A q \in Disk, i \in 1 .. Words :
       s.disk[q][i] # dk[q][i] =>
         Place(q, i) \in d0.range.start * Words + d0.position
                         .. d0.range.start * Words + d0.position + (n - s.left) - 1

LEMMA WriteTurnKeeps ==
  ASSUME NEW fault, NEW d0 \in HandleData, NEW dk \in Images, NEW n \in Nat,
         NEW s, WriteInv(s, d0, dk, n)
  PROVE  WriteInv(WriteTurn(s, fault), d0, dk, n)
<1> DEFINE sector == Sector(s.d)
           off == Offset(s.d)
           m == Piece(s)
           base == IF m # Words THEN s.disk[sector] ELSE s.d.cache
           words == [i \in 1 .. Words |-> IF i \in off + 1 .. off + m THEN s.data[i - off] ELSE base[i]]
           d == Caches(s.d, sector, words)
<1>1. CASE Ended(s)
  <2>1. WriteTurn(s, fault) = s
    BY <1>1, Zenon DEF WriteTurn
  <2> QED BY <2>1, Zenon
<1>2. CASE ~Ended(s)
  <2>1. /\ s \in Calls /\ s.d \in HandleData /\ s.disk \in Images /\ s.left \in Nat \ {0}
        /\ s.data \in Seq(Int) /\ s.err = "Ok" /\ s.d.cache \in [1 .. Words -> Int]
        /\ s.d.position \in Nat /\ Words \in Nat \ {0} /\ d0.position \in Nat
        /\ d0.range.start \in Nat /\ s.left <= n /\ s.left <= Len(s.data)
    BY <1>2, PataAssumption, Zenon DEF WriteInv, Ended, Calls, HandleData, Ranges
  <2>2. /\ sector \in Nat /\ off \in 0 .. Words - 1
        /\ sector * Words + off = s.d.range.start * Words + s.d.position
    BY <2>1, Spot, ZenonT(30)
  <2>3. m \in 1 .. Words /\ m <= s.left /\ off + m <= Words
    BY <2>1, PieceFacts, Zenon
  <2>3a. /\ n \in Int /\ s.left \in Int /\ s.left <= n /\ m \in Nat /\ Words \in Int
         /\ d0.position \in Int /\ d0.range.start \in Int
    <3>1. /\ n \in Nat /\ s.left \in Nat /\ s.left <= n /\ m \in 1 .. Words /\ Words \in Nat
          /\ d0.position \in Nat /\ d0.range.start \in Nat
      BY <2>1, <2>3, Zenon
    <3> HIDE DEF m
    <3> QED BY <3>1, SMTT(30)
  <2>4. CASE m # Words /\ Fails(fault, "read", sector)
    <3> DEFINE t == [s EXCEPT !.err = "DriverError"]
    <3>1. WriteTurn(s, fault) = t
      BY <1>2, <2>4, Zenon DEF WriteTurn
    <3>2. /\ t \in Calls /\ t.d = s.d /\ t.disk = s.disk /\ t.left = s.left /\ t.data = s.data
      BY <2>1, Zenon DEF Calls
    <3> HIDE DEF t
    <3> QED BY <3>1, <3>2 DEF WriteInv
  <2>5. CASE ~(m # Words /\ Fails(fault, "read", sector))
    <3>1. words \in [1 .. Words -> Int]
      <4>1. m # Words => sector \in Disk
        BY <2>5, Zenon DEF Fails
      <4>2. m # Words => s.disk[sector] \in [1 .. Words -> Int]
        BY <2>1, <4>1, Zenon DEF Images
      <4>3. base \in [1 .. Words -> Int]
        BY <2>1, <4>2, Zenon
      <4>4. \A i \in off + 1 .. off + m : i - off \in 1 .. Len(s.data)
        <5> DEFINE l == Len(s.data)
        <5>1. l \in Nat /\ m <= l
          <6>1. s.data \in Seq(Int) /\ s.left <= Len(s.data) /\ m <= s.left
            BY <2>1, <2>3, Zenon
          <6> HIDE DEF m
          <6> QED BY <2>3a, <6>1, SMTT(30)
        <5> HIDE DEF l, off, m
        <5>2. \A i \in off + 1 .. off + m : i - off \in 1 .. l
          <6>1. off \in 0 .. Words - 1 /\ m \in 1 .. Words
            BY <2>2, <2>3, Zenon
          <6> QED BY <2>3a, <5>1, <6>1, SMTT(30)
        <5> QED BY <5>2, Zenon DEF l
      <4>5. \A i \in off + 1 .. off + m : s.data[i - off] \in Int
        BY <2>1, <4>4, Element, Zenon
      <4> HIDE DEF base, off, m
      <4> QED BY <4>3, <4>5, Zenon
    <3> HIDE DEF words
    <3>2. CASE Fails(fault, "write", sector)
      <4> DEFINE e == Spoilt(d)
                 t == [s EXCEPT !.d = e, !.err = "DriverError"]
      <4>2. WriteTurn(s, fault) = t
        BY <1>2, <2>5, <3>2, Zenon DEF WriteTurn, words, Spoilt
      <4>3. /\ e \in HandleData /\ SameFile(e, s.d) /\ e.position = s.d.position /\ e.stale
        <5>1. d \in HandleData /\ SameFile(d, s.d) /\ d.position = s.d.position
          <6>1. s.d \in HandleData /\ sector \in Int
            BY <2>1, <2>2
          <6> HIDE DEF sector
          <6> QED BY <3>1, <6>1, HandleCaches
        <5> HIDE DEF d
        <5> QED BY <5>1, HandleSpoilt, Zenon DEF SameFile
      <4> HIDE DEF e
      <4>4. /\ t \in Calls /\ t.d = e /\ t.disk = s.disk /\ t.left = s.left /\ t.data = s.data
        BY <2>1, <4>3, Zenon DEF Calls
      <4> HIDE DEF t
      <4> QED BY <4>2, <4>3, <4>4 DEF WriteInv, SameFile, Sound
    <3>3. CASE ~Fails(fault, "write", sector)
      <4> DEFINE nd == [s.disk EXCEPT ![sector] = words]
                 u == [s EXCEPT !.d = d, !.disk = nd]
                 t == Moved(u, m)
                 e == MoveTo(d, d.position + m)
      <4>0. sector \in Disk
        BY <3>3, Zenon DEF Fails
      <4>1. WriteTurn(s, fault) = t
        <5>1. WriteTurn(s, fault) = Moved([s EXCEPT !.d = d, !.disk[sector] = words], m)
          BY <1>2, <2>5, <3>3, Zenon DEF WriteTurn, words
        <5>2. [s EXCEPT !.d = d, !.disk[sector] = words] = u
          BY <2>1, Zenon DEF Calls
        <5> QED BY <5>1, <5>2, Zenon
      <4>2. /\ d \in HandleData /\ SameFile(d, s.d) /\ d.position = s.d.position
            /\ ~d.stale /\ d.cache = words /\ d.last_sector = sector
        <5>1. s.d \in HandleData /\ sector \in Int
          BY <2>1, <2>2
        <5> HIDE DEF sector
        <5> QED BY <3>1, <5>1, HandleCaches
      <4>3. nd \in Images /\ nd[sector] = words
        BY <2>1, <3>1, <4>0, Zenon DEF Images
      <4>3a. \A q \in Disk : q # sector => nd[q] = s.disk[q]
        BY <2>1, Zenon DEF Images
      <4> HIDE DEF d, nd
      <4>4. /\ u \in Calls /\ u.d = d /\ u.disk = nd /\ u.left = s.left /\ u.data = s.data
        BY <2>1, <4>2, <4>3, Zenon DEF Calls
      <4> HIDE DEF u
      <4>5. /\ t \in Calls /\ t.left = s.left - m /\ t.d = e /\ t.disk = nd
            /\ t.left <= Len(t.data)
        <5>1. m \in 1 .. u.left
          BY <2>1, <2>3, <4>4
        <5> HIDE DEF m
        <5> QED BY <2>1, <4>4, <5>1, MovedFacts, ZenonT(30)
      <4>6. /\ SameFile(e, d) /\ e.position = s.d.position + m /\ ~e.stale
            /\ e.cache = words /\ e.last_sector = sector
        <5> HIDE DEF m
        <5>1. d.position + m \in Nat
          <6>1. m \in Nat /\ d.position \in Nat
            BY <2>1, <2>3, <4>2
          <6> QED BY <6>1
        <5>2. d \in HandleData
          BY <4>2, Zenon
        <5>3. /\ SameFile(e, d) /\ e.position = d.position + m /\ e.stale = d.stale
              /\ e.cache = d.cache /\ e.last_sector = d.last_sector
          BY <5>1, <5>2, HandleMoved, Zenon
        <5> HIDE DEF e
        <5> QED BY <4>2, <5>3, Zenon
      <4> HIDE DEF t, e
      <4>7. Sound(t.d, t.disk)
        BY <4>0, <4>3, <4>5, <4>6, Zenon DEF Sound
      <4>8. SameFile(t.d, d0)
        BY <4>2, <4>5, <4>6, Zenon DEF WriteInv, SameFile
      <4>9. t.left <= n /\ t.d.position = d0.position + (n - t.left)
        <5>1. s.d.position = d0.position + (n - s.left)
          BY Zenon DEF WriteInv
        <5> HIDE DEF m
        <5>2. s.left - m <= n /\ (d0.position + (n - s.left)) + m = d0.position + (n - (s.left - m))
          BY <2>3a, SMTT(30)
        <5> QED BY <4>5, <4>6, <5>1, <5>2, Zenon
      <4>10. ASSUME NEW q \in Disk, NEW i \in 1 .. Words, t.disk[q][i] # dk[q][i]
             PROVE  Place(q, i) \in d0.range.start * Words + d0.position
                                  .. d0.range.start * Words + d0.position + (n - t.left) - 1
        <5> DEFINE from == d0.range.start * Words + d0.position
        <5>0. from \in Int /\ Place(q, i) = q * Words + i - 1 /\ Place(q, i) \in Int
          <6>1. q \in Int /\ i \in Int
            BY DEF Disk
          <6>2. q * Words \in Int /\ d0.range.start * Words \in Int
            BY <2>3a, <6>1, Product, Zenon
          <6>3. from \in Int
            BY <2>3a, <6>2, SMTT(30)
          <6>4. Place(q, i) = q * Words + i - 1
            BY Zenon DEF Place
          <6> QED BY <6>1, <6>2, <6>3, <6>4, SMTT(30)
        <5>1. CASE s.disk[q][i] # dk[q][i]
          <6>1. Place(q, i) \in from .. from + (n - s.left) - 1
            BY <5>1, Zenon DEF WriteInv
          <6> HIDE DEF from, m
          <6>2. n - s.left \in Int /\ n - t.left \in Int /\ n - s.left <= n - t.left
            <7>1. t.left = s.left - m
              BY <4>5, Zenon
            <7> QED BY <2>3a, <7>1, SMTT(30)
          <6>3. Place(q, i) \in from .. from + (n - t.left) - 1
            BY <5>0, <6>1, <6>2, SMTT(30)
          <6> QED BY <6>3, Zenon DEF from
        <5>2. CASE s.disk[q][i] = dk[q][i]
          <6>1. q = sector /\ words[i] # s.disk[sector][i]
            BY <4>3, <4>3a, <4>5, <4>10, <5>2, Zenon
          <6>2. i \in off + 1 .. off + m
            <7>1. CASE m = Words
              <8> HIDE DEF m, off
              <8> QED BY <2>1, <2>2, <2>3, <7>1, SMTT(30)
            <7>2. CASE m # Words
              <8>1. i \notin off + 1 .. off + m => words[i] = s.disk[sector][i]
                BY <7>2, Zenon DEF words
              <8> QED BY <6>1, <8>1, Zenon
            <7> QED BY <7>1, <7>2, Zenon
          <6>3. sector * Words + off = from + (n - s.left)
            <7>1. s.d.range = d0.range /\ s.d.position = d0.position + (n - s.left)
              BY Zenon DEF WriteInv, SameFile
            <7> DEFINE a == d0.range.start * Words
            <7>2. a \in Int
              BY <2>3a, Product, Zenon
            <7>3. sector * Words + off = a + s.d.position
              <8>1. sector * Words + off = s.d.range.start * Words + s.d.position
                BY <2>2, Zenon
              <8> HIDE DEF sector, off
              <8> QED BY <7>1, <8>1, Zenon
            <7> HIDE DEF a, sector, off
            <7>4. a + (d0.position + (n - s.left)) = a + d0.position + (n - s.left)
              BY <2>3a, <7>2, SMTT(30)
            <7>5. sector * Words + off = a + d0.position + (n - s.left)
              BY <7>1, <7>3, <7>4, Zenon
            <7> QED BY <7>5, Zenon DEF a
          <6> DEFINE w == sector * Words
          <6>4. w \in Int /\ Place(q, i) = w + i - 1
            BY <2>1, <2>2, <5>0, <6>1
          <6> HIDE DEF from, m, off, w
          <6>5. w + off = from + (n - s.left)
            BY <6>3, Zenon DEF w
          <6>6. Place(q, i) \in from .. from + (n - t.left) - 1
            <7> DEFINE pl == Place(q, i)
            <7>1. pl = w + i - 1 /\ t.left = s.left - m /\ i \in Int
              BY <4>5, <6>4, SMTT(30)
            <7> HIDE DEF pl
            <7> DEFINE l == s.left
                       k == t.left
            <7>2. /\ pl = w + i - 1 /\ k = l - m /\ i >= off + 1 /\ i <= off + m
                  /\ w + off = from + (n - l) /\ i \in Int /\ m \in Int /\ l \in Int
                  /\ l <= n /\ off \in Int
              BY <2>1, <2>2, <2>3, <6>2, <6>5, <7>1, SMTT(30)
            <7> HIDE DEF l, k
            <7>3. pl \in from .. from + (n - k) - 1
              BY <5>0, <6>4, <7>2
            <7>4. pl \in from .. from + (n - t.left) - 1
              BY <7>3, Zenon DEF k
            <7> QED BY <7>4, Zenon DEF pl
          <6> QED BY <6>6, Zenon DEF from
        <5> QED BY <5>1, <5>2, Zenon
      <4>11. WriteInv(t, d0, dk, n)
        BY <4>5, <4>7, <4>8, <4>9, <4>10, Zenon DEF WriteInv
      <4> QED BY <4>1, <4>11, Zenon
    <3> QED BY <3>2, <3>3, Zenon
  <2> QED BY <2>4, <2>5, Zenon
<1> QED BY <1>1, <1>2, Zenon

-------------------------------------------------------------------------------
(* The same for fread, which leaves the disk alone and returns its words.  *)
LEMMA DivModNext ==
  ASSUME NEW p \in Nat, NEW w \in Nat \ {0}, NEW i \in Nat, (p % w) + i < w
  PROVE  (p + i) \div w = p \div w /\ (p + i) % w = (p % w) + i
<1> DEFINE q == p \div w
           r == p % w
           x == (p + i) \div w
           y == (p + i) % w
<1>1. q \in Nat /\ r \in 0 .. w - 1 /\ p = w * q + r
  BY DivMod, Zenon
<1>2. x \in Nat /\ y \in 0 .. w - 1 /\ p + i = w * x + y
  <2>1. p + i \in Nat
    OBVIOUS
  <2> QED BY <2>1, DivMod, Zenon
<1>3. r + i < w
  BY Zenon
<1> HIDE DEF q, r, x, y
<1>4. w * x + y = w * q + (r + i)
  BY <1>1, <1>2
<1>5. ASSUME x < q PROVE FALSE
  <2>1. (x + 1) * w <= q * w
    BY <1>1, <1>2, <1>5, TimesMonotone
  <2>2. (x + 1) * w = w * x + w /\ q * w = w * q
    BY <1>1, <1>2
  <2>3. w * x \in Int /\ w * q \in Int
    BY <1>1, <1>2
  <2> QED BY <1>1, <1>2, <1>4, <2>1, <2>2, <2>3
<1>6. ASSUME q < x PROVE FALSE
  <2>1. (q + 1) * w <= x * w
    BY <1>1, <1>2, <1>6, TimesMonotone
  <2>2. (q + 1) * w = w * q + w /\ x * w = w * x
    BY <1>1, <1>2
  <2>3. w * x \in Int /\ w * q \in Int
    BY <1>1, <1>2
  <2> QED BY <1>1, <1>2, <1>3, <1>4, <2>1, <2>2, <2>3, SMTT(30)
<1>7. x = q
  BY <1>1, <1>2, <1>5, <1>6
<1>8. y = r + i
  <2>1. w * x \in Int
    BY <1>2
  <2> QED BY <1>1, <1>2, <1>4, <1>7, <2>1
<1> QED BY <1>7, <1>8, Zenon DEF q, r, x, y

ReadInv(s, d0, dk, n) ==
  /\ s \in Calls /\ s.disk = dk
  /\ s.left <= n /\ Len(s.out) = n - s.left
  /\ s.d.position = d0.position + (n - s.left)
  /\ SameFile(s.d, d0) /\ Sound(s.d, dk)
  /\ ~d0.stale => /\ ~s.d.stale
                  /\ \A i \in 1 .. Len(s.out) :
                       s.out[i] = WordAt(dk, d0.range, d0.position + i - 1)

LEMMA ReadTurnKeeps ==
  ASSUME NEW fault, NEW d0 \in HandleData, NEW dk \in Images, NEW n \in Nat,
         NEW s, ReadInv(s, d0, dk, n)
  PROVE  ReadInv(ReadTurn(s, fault), d0, dk, n)
<1> DEFINE sector == Sector(s.d)
           off == Offset(s.d)
           m == Piece(s)
           load == s.d.last_sector # sector
           d == IF load THEN Caches(s.d, sector, dk[sector]) ELSE s.d
           piece == SubSeq(d.cache, Offset(d) + 1, Offset(d) + m)
<1>1. CASE Ended(s)
  <2>1. ReadTurn(s, fault) = s
    BY <1>1, Zenon DEF ReadTurn
  <2> QED BY <2>1, Zenon
<1>2. CASE ~Ended(s)
  <2>1. /\ s \in Calls /\ s.d \in HandleData /\ s.left \in Nat \ {0} /\ s.out \in Seq(Int)
        /\ s.disk = dk /\ s.d.position \in Nat /\ s.d.range.start \in Nat
        /\ Words \in Nat \ {0} /\ d0.position \in Nat /\ s.left <= n
        /\ Len(s.out) = n - s.left /\ s.d.position = d0.position + (n - s.left)
        /\ SameFile(s.d, d0) /\ Sound(s.d, dk)
    BY <1>2, PataAssumption, Zenon DEF ReadInv, Ended, Calls, HandleData, Ranges
  <2>2. sector \in Nat /\ off \in 0 .. Words - 1
    BY <2>1, Spot, Zenon
  <2>3. m \in 1 .. Words /\ m <= s.left /\ off + m <= Words
    BY <2>1, PieceFacts, Zenon
  <2>4. CASE load /\ Fails(fault, "read", sector)
    <3> DEFINE t == [s EXCEPT !.err = "DriverError"]
    <3>1. ReadTurn(s, fault) = t
      BY <1>2, <2>4, Zenon DEF ReadTurn
    <3>2. /\ t \in Calls /\ t.d = s.d /\ t.disk = s.disk /\ t.left = s.left /\ t.out = s.out
      BY <2>1, Zenon DEF Calls
    <3> HIDE DEF t
    <3> QED BY <3>1, <3>2, Zenon DEF ReadInv
  <2>5. CASE ~(load /\ Fails(fault, "read", sector))
    <3>1. load => sector \in Disk
      BY <2>5, Zenon DEF Fails
    <3>2. load => dk[sector] \in [1 .. Words -> Int]
      BY <3>1, Zenon DEF Images
    <3>3. /\ d \in HandleData /\ SameFile(d, s.d) /\ d.position = s.d.position
          /\ d.last_sector = sector /\ Sound(d, dk) /\ (~s.d.stale => ~d.stale)
      <4>1. CASE load
        <5>1. s.d \in HandleData /\ sector \in Int
          BY <2>1, <2>2
        <5> DEFINE c == Caches(s.d, sector, dk[sector])
        <5> HIDE DEF sector
        <5>2. /\ c \in HandleData /\ SameFile(c, s.d) /\ c.position = s.d.position
              /\ c.last_sector = sector /\ c.cache = dk[sector] /\ ~c.stale
          BY <3>2, <4>1, <5>1, HandleCaches, SMTT(30)
        <5>3. d = c
          BY <4>1, Zenon
        <5> HIDE DEF c, d
        <5> QED BY <3>1, <4>1, <5>2, <5>3, Zenon DEF Sound
      <4>2. CASE ~load
        BY <2>1, <4>2, Zenon DEF SameFile
      <4> QED BY <4>1, <4>2, ZenonT(30)
    <3>4. ~d.stale => sector \in Disk /\ d.cache = dk[sector]
      <4>1. sector # NoSector
        BY <2>2 DEF NoSector
      <4> HIDE DEF sector, d
      <4> QED BY <3>3, <4>1, Zenon DEF Sound
    <3>5. Offset(d) = off
      <4> HIDE DEF d
      <4> QED BY <3>3, Zenon DEF Offset
    <3> DEFINE u == [s EXCEPT !.d = d, !.out = s.out \o piece]
               t == Moved(u, m)
               e == MoveTo(d, d.position + m)
    <3>6. ReadTurn(s, fault) = t
      <4>1. s.disk = dk
        BY <2>1, Zenon
      <4> QED BY <1>2, <2>5, <4>1, Zenon DEF ReadTurn, Caches
    <3> HIDE DEF d
    <3>7. /\ piece \in Seq(Int) /\ Len(piece) = m
          /\ \A i \in 1 .. m : piece[i] = d.cache[off + i]
      <4>1. d.cache \in [1 .. Words -> Int]
        BY <3>3, Zenon DEF HandleData
      <4>2. off + 1 \in Int /\ off + m \in Int
            /\ \A i \in off + 1 .. off + m : i \in 1 .. Words
        <5> HIDE DEF off, m
        <5> QED BY <2>1, <2>2, <2>3, SMTT(30)
      <4>3. \A i \in off + 1 .. off + m : d.cache[i] \in Int
        BY <4>1, <4>2, Zenon
      <4> DEFINE sub == SubSeq(d.cache, off + 1, off + m)
      <4>4. d.cache \in Seq(Int)
        BY <2>1, <4>1, AnySeq, Zenon
      <4> HIDE DEF off, m
      <4>5. /\ sub \in Seq(Int)
            /\ Len(sub) = IF off + 1 <= off + m THEN (off + m) - (off + 1) + 1 ELSE 0
            /\ \A i \in 1 .. (off + m) - (off + 1) + 1 : sub[i] = d.cache[(off + 1) + i - 1]
        BY <4>2, <4>3, <4>4, Sliced, SMTT(30)
      <4>6. piece = sub
        BY <3>5, Zenon
      <4> HIDE DEF piece, sub
      <4>7. (off + m) - (off + 1) + 1 = m /\ off + 1 <= off + m
            /\ \A i \in 1 .. m : (off + 1) + i - 1 = off + i
        BY <2>1, <2>2, <2>3, SMTT(30)
      <4> QED BY <4>5, <4>6, <4>7, Zenon
    <3> HIDE DEF piece
    <3> DEFINE out == s.out \o piece
    <3>8. /\ out \in Seq(Int) /\ Len(out) = Len(s.out) + m
          /\ \A i \in 1 .. Len(s.out) : out[i] = s.out[i]
          /\ \A i \in 1 .. m : out[Len(s.out) + i] = piece[i]
      <4> DEFINE a == Len(s.out)
      <4>1. m \in Nat /\ a \in Nat /\ s.out \in Seq(Int) /\ piece \in Seq(Int) /\ Len(piece) = m
        BY <2>1, <2>3, <3>7, SMTT(30)
      <4> HIDE DEF m
      <4>2. /\ out \in Seq(Int) /\ Len(out) = a + m
            /\ \A i \in 1 .. a + m : out[i] = IF i <= a THEN s.out[i] ELSE piece[i - a]
        BY <4>1, Joined, ZenonT(30)
      <4> HIDE DEF out, a
      <4>3. \A i \in 1 .. a : i \in 1 .. a + m /\ i <= a
        BY <4>1
      <4>4. \A i \in 1 .. m : a + i \in 1 .. a + m /\ ~(a + i <= a) /\ (a + i) - a = i
        BY <4>1
      <4>5. /\ \A i \in 1 .. a : out[i] = s.out[i]
            /\ \A i \in 1 .. m : out[a + i] = piece[i]
        BY <4>2, <4>3, <4>4, Zenon
      <4> QED BY <4>2, <4>5, Zenon DEF a
    <3> HIDE DEF out
    <3>9. /\ u \in Calls /\ u.d = d /\ u.disk = dk /\ u.left = s.left /\ u.out = out
      BY <2>1, <3>3, <3>8, ZenonT(30) DEF Calls, out
    <3> HIDE DEF u
    <3>10. /\ t \in Calls /\ t.left = s.left - m /\ t.d = e /\ t.disk = dk /\ t.out = out
      <4>1. m \in 1 .. u.left
        BY <2>1, <2>3, <3>9
      <4> HIDE DEF m
      <4> QED BY <3>9, <4>1, MovedFacts, Zenon
    <3>11. /\ SameFile(e, d) /\ e.position = d.position + m /\ e.stale = d.stale
           /\ e.cache = d.cache /\ e.last_sector = d.last_sector
      <4> HIDE DEF m
      <4>1. d.position + m \in Nat
        <5>1. m \in Nat /\ d.position \in Nat
          BY <2>1, <2>3, <3>3, SMTT(30)
        <5> QED BY <5>1
      <4> QED BY <3>3, <4>1, HandleMoved, Zenon
    <3> HIDE DEF t, e
    <3>12. Sound(t.d, dk) /\ SameFile(t.d, d0)
      BY <2>1, <3>3, <3>10, <3>11, Zenon DEF Sound, SameFile
    <3>13. /\ t.left <= n /\ Len(t.out) = n - t.left
           /\ t.d.position = d0.position + (n - t.left)
      <4> HIDE DEF m
      <4> DEFINE l == s.left
                 p == d0.position
      <4>1. /\ t.left = l - m /\ Len(t.out) = (n - l) + m /\ t.d.position = (p + (n - l)) + m
            /\ m \in Int /\ m >= 1 /\ l \in Int /\ l <= n /\ p \in Int
        BY <2>1, <2>3, <3>3, <3>8, <3>10, <3>11, SMTT(30)
      <4> HIDE DEF l, p
      <4>2. l - m <= n /\ (n - l) + m = n - (l - m) /\ (p + (n - l)) + m = p + (n - (l - m))
        BY <4>1
      <4> QED BY <4>1, <4>2, Zenon DEF p
    <3>14. ASSUME ~d0.stale, NEW j \in 1 .. Len(t.out)
           PROVE  t.out[j] = WordAt(dk, d0.range, d0.position + j - 1)
      <4>1. CASE j <= Len(s.out)
        <5>1. j \in 1 .. Len(s.out) /\ t.out[j] = s.out[j]
          BY <2>1, <3>8, <3>10, <3>14, <4>1, SMTT(30)
        <5> QED BY <3>14, <5>1, Zenon DEF ReadInv
      <4>2. CASE j > Len(s.out)
        <5> DEFINE l == Len(s.out)
                   i == j - l
                   p == s.d.position
        <5>1. l \in Nat /\ i \in 1 .. m /\ j = l + i
          <6>1. l \in Nat /\ j \in 1 .. l + m /\ j > l /\ m \in Nat
            <7>1. Len(t.out) = l + m
              BY <3>8, <3>10, Zenon
            <7>2. j \in 1 .. l + m
              BY <3>14, <7>1, Zenon
            <7>3. l \in Nat
              BY <2>1, SMTT(30)
            <7>4. m \in Nat
              BY <2>1, <2>3
            <7> HIDE DEF m
            <7> QED BY <4>2, <7>2, <7>3, <7>4, Zenon
          <6> HIDE DEF l, m
          <6> QED BY <6>1
        <5>2. t.out[j] = d.cache[off + i]
          <6> HIDE DEF i, off, m
          <6> QED BY <3>7, <3>8, <3>10, <5>1, Zenon
        <5>3. ~d.stale
          BY <3>3, <3>14, Zenon DEF ReadInv
        <5>4. t.out[j] = dk[sector][off + i]
          <6> HIDE DEF sector, off, i
          <6> QED BY <3>4, <5>2, <5>3, Zenon
        <5>5. d0.position + j - 1 = p + (i - 1) /\ i - 1 \in Nat
          <6>1. p = d0.position + (n - s.left) /\ l = n - s.left /\ s.left \in Nat
            BY <2>1, Zenon
          <6> HIDE DEF p
          <6>2. i - 1 \in Nat /\ i \in Int /\ j = l + i
            <7> HIDE DEF i, l
            <7> QED BY <2>3, <5>1, SMTT(30)
          <6> DEFINE p0 == d0.position
                     x == s.left
          <6>3. p0 \in Nat /\ l \in Nat /\ p = p0 + (n - x) /\ l = n - x /\ x \in Nat
            BY <2>1, <5>1, <6>1, Zenon
          <6> HIDE DEF l, i, p0, x
          <6>4. p0 + j - 1 = p + (i - 1)
            BY <6>2, <6>3, SMTT(30)
          <6> QED BY <6>2, <6>4, Zenon DEF p0
        <5>6. off + (i - 1) < Words
          <6> HIDE DEF i, off, m
          <6> QED BY <2>1, <2>2, <2>3, <5>1, SMTT(30)
        <5>7. /\ (p + (i - 1)) \div Words = p \div Words
              /\ (p + (i - 1)) % Words = off + (i - 1)
          <6>1. p \in Nat /\ (p % Words) + (i - 1) < Words
            BY <2>1, <5>6, Zenon DEF Offset
          <6> HIDE DEF i, p
          <6>2. /\ (p + (i - 1)) \div Words = p \div Words
                /\ (p + (i - 1)) % Words = (p % Words) + (i - 1)
            BY <2>1, <5>5, <6>1, DivModNext, ZenonT(30)
          <6> QED BY <6>2, Zenon DEF Offset, p
        <5>8. sector = (p \div Words) + d0.range.start
          BY <2>1, Zenon DEF Sector, SameFile
        <5>9. WordAt(dk, d0.range, d0.position + j - 1) = dk[sector][off + (i - 1) + 1]
          <6> HIDE DEF sector, off, i, p
          <6> QED BY <5>5, <5>7, <5>8, Zenon DEF WordAt
        <5>10. off + (i - 1) + 1 = off + i
          <6> HIDE DEF off, i
          <6> QED BY <2>1, <2>2, <2>3, <5>1
        <5> QED BY <5>4, <5>9, <5>10, Zenon
      <4> QED BY <4>1, <4>2, <3>8, <2>1, SMTT(30)
    <3>15. ~d0.stale => ~t.d.stale
      BY <3>3, <3>10, <3>11, Zenon DEF ReadInv
    <3>16. ReadInv(t, d0, dk, n)
      BY <3>10, <3>12, <3>13, <3>14, <3>15, Zenon DEF ReadInv
    <3> QED BY <3>6, <3>16, Zenon
  <2> QED BY <2>4, <2>5, Zenon
<1> QED BY <1>1, <1>2, Zenon

-------------------------------------------------------------------------------
(* Whole loops.                                                            *)
LEMMA WriteLoopKeeps ==
  ASSUME Ordered, NEW fault, NEW d0 \in HandleData, NEW dk \in Images, NEW n \in Nat,
         NEW turns \in Nat, NEW s, WriteInv(s, d0, dk, n)
  PROVE  WriteInv(WriteLoop(s, turns, fault), d0, dk, n)
<1>1. PICK acc : /\ acc[0] = s
                 /\ \A k \in 0 .. turns - 1 : acc[k + 1] = WriteTurn(acc[k], fault)
                 /\ WriteLoop(s, turns, fault) = acc[turns]
  BY WriteRuns
<1> DEFINE T == {k \in Nat : WriteInv(acc[k], d0, dk, n)}
<1>2. 0 \in T
  BY <1>1, Zenon
<1>3. ASSUME NEW k \in 0 .. turns - 1, k \in T PROVE k + 1 \in T
  <2>1. WriteInv(WriteTurn(acc[k], fault), d0, dk, n)
    BY <1>3, WriteTurnKeeps, Zenon
  <2> QED BY <1>1, <2>1
<1>4. turns \in T
  <2> HIDE DEF T
  <2>1. \A k \in 0 .. turns : k \in T
    BY <1>2, <1>3, Ascends, Zenon
  <2> QED BY <2>1
<1> QED BY <1>1, <1>4, Zenon

LEMMA ReadLoopKeeps ==
  ASSUME Ordered, NEW fault, NEW d0 \in HandleData, NEW dk \in Images, NEW n \in Nat,
         NEW turns \in Nat, NEW s, ReadInv(s, d0, dk, n)
  PROVE  ReadInv(ReadLoop(s, turns, fault), d0, dk, n)
<1>1. PICK acc : /\ acc[0] = s
                 /\ \A k \in 0 .. turns - 1 : acc[k + 1] = ReadTurn(acc[k], fault)
                 /\ ReadLoop(s, turns, fault) = acc[turns]
  BY ReadRuns
<1> DEFINE T == {k \in Nat : ReadInv(acc[k], d0, dk, n)}
<1>2. 0 \in T
  BY <1>1, Zenon
<1>3. ASSUME NEW k \in 0 .. turns - 1, k \in T PROVE k + 1 \in T
  <2>1. ReadInv(ReadTurn(acc[k], fault), d0, dk, n)
    BY <1>3, ReadTurnKeeps, Zenon
  <2> QED BY <1>1, <2>1
<1>4. turns \in T
  <2> HIDE DEF T
  <2>1. \A k \in 0 .. turns : k \in T
    BY <1>2, <1>3, Ascends, Zenon
  <2> QED BY <2>1
<1> QED BY <1>1, <1>4, Zenon

(* The words that a call may move, from the position to the end.           *)
LEMMA AllowedFacts ==
  ASSUME NEW d \in HandleData, NEW n \in Nat
  PROVE  /\ Allowed(d, n) \in 0 .. n /\ Size(d) \in Int
         /\ ~PastEnd(d) => d.position + Allowed(d, n) <= Size(d)
<1>1. /\ d.position \in Nat /\ d.range.start \in Nat /\ d.range.end \in Nat /\ Words \in Nat
  BY PataAssumption, Zenon DEF HandleData, Ranges
<1>2. Size(d) \in Int
  BY <1>1 DEF Size
<1> QED BY <1>1, <1>2 DEF Allowed, PastEnd, Least

-------------------------------------------------------------------------------
(* The invariant, one handle at a time.                                    *)
GoodHandle(d, c, dk) ==
  /\ d \in HandleData
  /\ d.generation <= c.generation
  /\ d.generation = c.generation /\ d.file # PataIndex =>
       HasRange(c, d.file) /\ d.range = RangeOf(c, d.file)
  /\ Sound(d, dk)

GoodHooks(c, hk) ==
  /\ DOMAIN hk = {Whole} \cup 0 .. Len(Parts(c)) - 1
  /\ \A f \in DOMAIN hk : hk[f] = c.manager.generation
  /\ c \in [generation : Nat, manager : {c.manager}]
  /\ c.manager.generation \in Int /\ c.manager.generation <= c.generation
  /\ Parts(c) \in Seq(Ranges)

Shape(dk, c, hk, hd) ==
  /\ dk \in Images
  /\ GoodHooks(c, hk)
  /\ hd = [h \in Handles |-> hd[h]]
  /\ \A h \in Handles : hd[h] = Closed \/ GoodHandle(hd[h], c, dk)

LEMMA NoTableEmpty == get_partitions(NoTable) = <<>>
BY Zenon DEF get_partitions, NoTable

LEMMA RefreshedFacts ==
  ASSUME Environment, disk \in Images, NEW c, NEW hk, NEW readable \in BOOLEAN,
         c \in [generation : Nat, manager : {c.manager}],
         c.manager.generation # c.generation,
         DOMAIN hk \subseteq {Whole} \cup 0 .. Len(Parts(c)) - 1
  PROVE  /\ GoodHooks(Refreshed(c, hk, readable).controller, Refreshed(c, hk, readable).hooks)
         /\ Refreshed(c, hk, readable).controller.generation = c.generation
<1> DEFINE g == c.generation
           manager == reload_partitions(g, readable)
           kept == RemoveHooks(DOMAIN hk, Len(Parts(c)))
           added == {Whole} \cup 0 .. Len(get_partitions(manager.table)) - 1
           nc == [c EXCEPT !.manager = manager]
           nh == [f \in kept \cup added |-> IF f \in added THEN g ELSE hk[f]]
<1>1. Refreshed(c, hk, readable).controller = nc /\ Refreshed(c, hk, readable).hooks = nh
  BY Zenon DEF Refreshed
<1>2. kept \subseteq {Whole}
  BY Zenon DEF RemoveHooks
<1>3. kept \cup added = added
  BY <1>2, Zenon
<1>4. manager.generation = g /\ g \in Nat
  BY Zenon DEF reload_partitions
<1>5. get_partitions(manager.table) \in Seq(Ranges)
  <2>1. CASE readable
    <3>1. manager.table = TableOf(disk)
      BY <2>1, Zenon DEF reload_partitions
    <3> QED BY <3>1, Zenon DEF Environment
  <2>2. CASE ~readable
    <3>1. get_partitions(manager.table) = <<>>
      BY <2>2, NoTableEmpty, Zenon DEF reload_partitions
    <3>2. <<>> \in Seq(Ranges)
      OBVIOUS
    <3> QED BY <3>1, <3>2, Zenon
  <2> QED BY <2>1, <2>2, Zenon
<1> HIDE DEF manager
<1>6. nc = [generation |-> g, manager |-> manager]
  OBVIOUS
<1>7. nh = [f \in added |-> g]
  BY <1>3, Zenon
<1> HIDE DEF nc, nh, g
<1>8. GoodHooks(nc, nh) /\ nc.generation = g
  BY <1>4, <1>5, <1>6, <1>7 DEF GoodHooks, Parts
<1> QED BY <1>1, <1>8, Zenon DEF g

-------------------------------------------------------------------------------
(* Steps.                                                                  *)
Inv == Shape(disk, controller, hooks, handle)

LEMMA PutHandle ==
  ASSUME NEW dk, NEW c, NEW hk, NEW hd, Shape(dk, c, hk, hd), NEW h \in Handles,
         NEW x, x = Closed \/ GoodHandle(x, c, dk)
  PROVE  Shape(dk, c, hk, [hd EXCEPT ![h] = x])
BY Zenon DEF Shape

LEMMA OpenHandle ==
  ASSUME Inv, NEW h \in Handles, IsOpen(h)
  PROVE  /\ GoodHandle(handle[h], controller, disk) /\ handle[h] \in HandleData
         /\ disk \in Images
BY Zenon DEF Inv, Shape, IsOpen, Opened, GoodHandle

LEMMA InitInv == ASSUME Environment, Init PROVE Inv
<1> DEFINE new == [generation |-> 0, manager |-> NewManager]
           NoHooks == [f \in {} |-> 0]
<1>1. disk \in Images
  <2>1. \A s \in Disk : FirstDisk[s] \in [1 .. Words -> Int]
    <3> SUFFICES ASSUME NEW s \in Disk PROVE FirstDisk[s] \in [1 .. Words -> Int]
      BY Zenon
    <3>1. FirstDisk[s] \in Seq(Int) /\ Len(FirstDisk[s]) = Words
      BY PataAssumption, Zenon
    <3> QED BY <3>1
  <2> QED BY <2>1, PataAssumption, Zenon DEF Init, Images
<1>2. controller = Refreshed(new, NoHooks, TRUE).controller /\ hooks = Refreshed(new, NoHooks, TRUE).hooks
  BY Zenon DEF Init
<1>3. /\ new \in [generation : Nat, manager : {new.manager}]
      /\ new.manager.generation # new.generation
      /\ DOMAIN NoHooks \subseteq {Whole} \cup 0 .. Len(Parts(new)) - 1
  BY DEF NewManager
<1> HIDE DEF new, NoHooks
<1>4. GoodHooks(controller, hooks)
  BY <1>1, <1>2, <1>3, RefreshedFacts, Zenon
<1>5. handle = [h \in Handles |-> Closed]
  BY Zenon DEF Init
<1> QED BY <1>1, <1>4, <1>5, Zenon DEF Inv, Shape

LEMMA FopenStep ==
  ASSUME Inv, NEW h \in Handles, NEW f \in DOMAIN hooks, NEW mode \in OpenModes, Fopen(h, f, mode)
  PROVE  Inv' /\ disk' = disk
<1>1. UNCHANGED <<disk, controller, hooks>>
  BY Zenon DEF Fopen
<1>2. disk \in Images /\ GoodHooks(controller, hooks)
  BY Zenon DEF Inv, Shape
<1> DEFINE x == [file |-> f, mode |-> mode, position |-> 0, last_sector |-> NoSector,
                 cache |-> [i \in 1 .. Words |-> 0], generation |-> hooks[f],
                 range |-> RangeOf(controller, f), stale |-> FALSE]
<1>3. CASE handle' = handle
  BY <1>1, <1>3, Zenon DEF Inv
<1>4. CASE handle' = [handle EXCEPT ![h] = x] /\ HasRange(controller, f)
  <2>1. f \in Int /\ hooks[f] = controller.manager.generation
    BY <1>2 DEF GoodHooks, Whole
  <2>2. RangeOf(controller, f) \in Ranges
    <3>1. CASE f = Whole
      BY <3>1, PataAssumption, Zenon DEF RangeOf, get_range, Ranges
    <3>2. CASE f # Whole
      <4>1. f + 1 \in DOMAIN Parts(controller) /\ Parts(controller) \in Seq(Ranges)
        BY <1>2, <1>4, <3>2, Zenon DEF HasRange, GoodHooks
      <4>2. f + 1 \in 1 .. Len(Parts(controller))
        BY <4>1
      <4>3. Parts(controller)[f + 1] \in Ranges
        BY <4>1, <4>2, Element, Zenon
      <4> QED BY <3>2, <4>3, Zenon DEF RangeOf
    <3> QED BY <3>1, <3>2, Zenon
  <2> DEFINE r == RangeOf(controller, f)
  <2>3. x \in HandleData
    <3> HIDE DEF r
    <3>1. r \in Ranges /\ hooks[f] \in Int /\ [i \in 1 .. Words |-> 0] \in [1 .. Words -> Int]
      BY <1>2, <2>1, <2>2, SMTT(30) DEF r, GoodHooks
    <3> QED BY <2>1, <3>1 DEF HandleData, NoSector, r
  <2>4. GoodHandle(x, controller, disk)
    <3>1. /\ x.generation = hooks[f] /\ x.file = f /\ x.range = r /\ ~x.stale /\ x.last_sector = NoSector
      BY Zenon
    <3> HIDE DEF x, r
    <3> QED BY <1>2, <1>4, <2>1, <2>3, <3>1, Zenon DEF GoodHandle, GoodHooks, Sound, r
  <2> HIDE DEF x
  <2>5. Shape(disk, controller, hooks, [handle EXCEPT ![h] = x])
    BY <2>4, PutHandle, Zenon DEF Inv
  <2> QED BY <1>1, <1>4, <2>5, Zenon DEF Inv
<1>5. (handle' = handle) \/ (handle' = [handle EXCEPT ![h] = x] /\ HasRange(controller, f))
  BY Zenon DEF Fopen
<1> QED BY <1>1, <1>3, <1>4, <1>5, Zenon

LEMMA FcloseStep ==
  ASSUME Inv, NEW h \in Handles, Fclose(h)
  PROVE  Inv' /\ disk' = disk
<1>1. handle' = [handle EXCEPT ![h] = Closed] /\ UNCHANGED <<disk, controller, hooks>>
  BY Zenon DEF Fclose
<1>2. Shape(disk, controller, hooks, [handle EXCEPT ![h] = Closed])
  BY PutHandle, Zenon DEF Inv
<1> QED BY <1>1, <1>2, Zenon DEF Inv

LEMMA FseekStep ==
  ASSUME Inv, NEW h \in Handles, NEW p \in Seeks, Fseek(h, p)
  PROVE  Inv' /\ disk' = disk
<1>1. /\ IsOpen(h) /\ handle' = [handle EXCEPT ![h].position = p]
      /\ UNCHANGED <<disk, controller, hooks>> /\ p \in Nat
  BY PataAssumption DEF Fseek, fseek_helper
<1>2. GoodHandle(handle[h], controller, disk) /\ handle[h] \in HandleData
  BY <1>1, OpenHandle, Zenon
<1> DEFINE e == MoveTo(handle[h], p)
<1>3. handle' = [handle EXCEPT ![h] = e]
  BY <1>1, Zenon DEF MoveTo
<1>4. /\ e \in HandleData /\ SameFile(e, handle[h])
      /\ e.cache = handle[h].cache /\ e.last_sector = handle[h].last_sector /\ e.stale = handle[h].stale
  BY <1>1, <1>2, HandleMoved, Zenon
<1> HIDE DEF e
<1>5. GoodHandle(e, controller, disk)
  BY <1>2, <1>4, Zenon DEF GoodHandle, SameFile, Sound
<1>6. Shape(disk, controller, hooks, [handle EXCEPT ![h] = e])
  BY <1>5, PutHandle, Zenon DEF Inv
<1> QED BY <1>1, <1>3, <1>6, Zenon DEF Inv

LEMMA FsyncStep ==
  ASSUME Environment, Inv, NEW h \in Handles, NEW readable \in BOOLEAN, Fsync(h, readable)
  PROVE  Inv' /\ disk' = disk
<1>1. IsOpen(h) /\ disk' = disk
  BY Zenon DEF Fsync
<1>2. /\ GoodHandle(handle[h], controller, disk) /\ handle[h] \in HandleData /\ disk \in Images
      /\ GoodHooks(controller, hooks)
  BY <1>1, OpenHandle, Zenon DEF Inv, Shape
<1>3. CASE ~Current(h)
  <2>1. UNCHANGED <<controller, hooks, handle>>
    BY <1>3, Zenon DEF Fsync
  <2> QED BY <1>1, <2>1, Zenon DEF Inv
<1>4. CASE Current(h)
  <2> DEFINE c == controller
             moved == NextGeneration(c)
             d == [handle[h] EXCEPT !.generation = c.generation + 1]
  <2>1. moved = [generation |-> c.generation + 1, manager |-> c.manager] /\ c.generation \in Nat
    BY <1>2 DEF NextGeneration, GoodHooks
  <2>2. handle' = [handle EXCEPT ![h] = d]
    <3>1. handle' = [handle EXCEPT ![h].generation = moved.generation]
      BY <1>4, Zenon DEF Fsync
    <3> QED BY <2>1, <3>1
  <2>3. /\ d \in HandleData /\ d.generation = c.generation + 1 /\ d.file = handle[h].file
        /\ d.range = handle[h].range /\ Sound(d, disk)
    <3>1. c.generation + 1 \in Int
      BY <2>1
    <3> QED BY <1>2, <3>1, Zenon DEF HandleData, GoodHandle, Sound
  <2>4. d.file # PataIndex => HasRange(c, d.file) /\ d.range = RangeOf(c, d.file)
    BY <1>2, <1>4, <2>3, Zenon DEF GoodHandle, Current
  <2> HIDE DEF d
  <2>5. CASE device_id(handle[h].file) = PataIndex
    <3> DEFINE nc == Refreshed(moved, hooks, readable).controller
               nh == Refreshed(moved, hooks, readable).hooks
    <3>1. controller' = nc /\ hooks' = nh
      BY <1>4, <2>5, Zenon DEF Fsync
    <3>2. GoodHooks(nc, nh) /\ nc.generation = c.generation + 1
      <4>1. /\ moved \in [generation : Nat, manager : {moved.manager}]
            /\ moved.manager.generation # moved.generation
            /\ moved.generation = c.generation + 1
            /\ DOMAIN hooks \subseteq {Whole} \cup 0 .. Len(Parts(moved)) - 1
        BY <1>2, <2>1 DEF GoodHooks, Parts
      <4> HIDE DEF moved, c
      <4> QED BY <1>2, <4>1, RefreshedFacts, Zenon
    <3> HIDE DEF nc, nh
    <3>3. handle[h].file # PataIndex => handle[h].file = Whole
      BY <2>5, Zenon DEF device_id
    <3>4. d.file # PataIndex => HasRange(nc, d.file) /\ d.range = RangeOf(nc, d.file)
      BY <2>3, <2>4, <3>3, Zenon DEF HasRange, RangeOf
    <3>5. GoodHandle(d, nc, disk)
      <4>1. d.generation <= nc.generation
        BY <2>1, <2>3, <3>2
      <4> QED BY <2>3, <3>4, <4>1, Zenon DEF GoodHandle
    <3>6. ASSUME NEW g \in Handles, handle[g] # Closed PROVE GoodHandle(handle[g], nc, disk)
      <4>1. GoodHandle(handle[g], c, disk)
        BY <3>6, Zenon DEF Inv, Shape
      <4>2. handle[g].generation \in Int /\ handle[g].generation <= c.generation
        BY <4>1, Zenon DEF GoodHandle, HandleData
      <4>3. handle[g].generation # nc.generation /\ handle[g].generation <= nc.generation
        BY <2>1, <3>2, <4>2, SMTT(30)
      <4> QED BY <4>1, <4>3, Zenon DEF GoodHandle
    <3>7. Shape(disk, nc, nh, handle)
      BY <1>2, <3>2, <3>6, Zenon DEF Inv, Shape
    <3>8. Shape(disk, nc, nh, [handle EXCEPT ![h] = d])
      BY <3>5, <3>7, PutHandle, Zenon
    <3> QED BY <1>1, <2>2, <3>1, <3>8, Zenon DEF Inv
  <2>6. CASE device_id(handle[h].file) # PataIndex
    <3>1. controller' = moved /\ hooks' = hooks
      BY <1>4, <2>6, Zenon DEF Fsync
    <3>2. GoodHooks(moved, hooks) /\ moved.generation = c.generation + 1 /\ Parts(moved) = Parts(c)
      <4>1. moved.manager = c.manager /\ moved.generation = c.generation + 1
            /\ moved \in [generation : Nat, manager : {moved.manager}]
        BY <2>1
      <4> HIDE DEF moved
      <4>2. Parts(moved) = Parts(c)
        BY <4>1, Zenon DEF Parts
      <4> QED BY <1>2, <2>1, <4>1, <4>2, SMTT(30) DEF GoodHooks
    <3> HIDE DEF moved
    <3>4. d.file # PataIndex => HasRange(moved, d.file) /\ d.range = RangeOf(moved, d.file)
      BY <2>4, <3>2, ZenonT(30) DEF HasRange, RangeOf
    <3>5. GoodHandle(d, moved, disk)
      <4>1. d.generation <= moved.generation
        BY <2>1, <2>3, <3>2
      <4> QED BY <2>3, <3>4, <4>1, Zenon DEF GoodHandle
    <3>6. ASSUME NEW g \in Handles, handle[g] # Closed PROVE GoodHandle(handle[g], moved, disk)
      <4>1. GoodHandle(handle[g], c, disk)
        BY <3>6, Zenon DEF Inv, Shape
      <4>2. handle[g].generation \in Int /\ handle[g].generation <= c.generation
        BY <4>1, Zenon DEF GoodHandle, HandleData
      <4>3. handle[g].generation # moved.generation /\ handle[g].generation <= moved.generation
        BY <2>1, <3>2, <4>2, SMTT(30)
      <4> QED BY <4>1, <4>3, Zenon DEF GoodHandle
    <3>7. Shape(disk, moved, hooks, handle)
      BY <1>2, <3>2, <3>6, Zenon DEF Inv, Shape
    <3>8. Shape(disk, moved, hooks, [handle EXCEPT ![h] = d])
      BY <3>5, <3>7, PutHandle, Zenon
    <3> QED BY <1>1, <2>2, <3>1, <3>8, Zenon DEF Inv
  <2> QED BY <2>5, <2>6, Zenon
<1> QED BY <1>3, <1>4, Zenon

(* fread: what it returns, and the handle afterwards.                      *)
LEMMA FreadStep ==
  ASSUME Ordered, Inv, NEW h \in Handles, NEW n \in ReadSizes, NEW fault,
         Fread(h, n, fault)
  PROVE  /\ Inv' /\ disk' = disk
         /\ last'.handle = h
         /\ last'.err = "Ok" =>
              /\ ~handle[h].stale =>
                   \A i \in 1 .. Len(last'.data) :
                     last'.data[i] = WordAt(disk, handle[h].range, handle[h].position + i - 1)
              /\ handle'[h].position = handle[h].position + Len(last'.data)
<1>1. IsOpen(h) /\ UNCHANGED <<disk, controller, hooks>>
  BY ZenonT(30) DEF Fread
<1>2. /\ GoodHandle(handle[h], controller, disk) /\ handle[h] \in HandleData /\ disk \in Images
      /\ n \in Nat /\ handle = [g \in Handles |-> handle[g]]
  BY <1>1, OpenHandle, PataAssumption, Zenon DEF Inv, Shape
<1>3. CASE "READ" \notin handle[h].mode
  <2>1. last' = Called("fread", h, "ActionNotAllowed") /\ handle' = handle
    BY <1>3, Zenon DEF Fread
  <2> QED BY <1>1, <2>1, Zenon DEF Inv, Called
<1>4. CASE "READ" \in handle[h].mode
  <2> DEFINE d0 == handle[h]
             m == Allowed(d0, n)
             b == Begin(h, n, <<>>)
             s == ReadLoop(b, n, fault)
  <2>1. /\ handle' = [handle EXCEPT ![h] = s.d]
        /\ last' = [op |-> "fread", handle |-> h, err |-> s.err, data |-> s.out]
    BY <1>4, Zenon DEF Fread
  <2>2. m \in 0 .. n
    BY <1>2, AllowedFacts, Zenon
  <2> HIDE DEF m
  <2>3. b = [d |-> d0, disk |-> disk, left |-> m, data |-> <<>>, out |-> <<>>, err |-> "Ok"]
    BY Zenon DEF Begin, m
  <2> HIDE DEF b
  <2>4. ReadInv(b, d0, disk, m)
    <3>1. m \in Nat /\ m - m = 0 /\ d0.position \in Nat
      BY <1>2, <2>2, SMTT(30) DEF HandleData
    <3>2. b \in Calls
      BY <1>2, <2>3, <3>1, SMTT(30) DEF Calls
    <3>3. SameFile(d0, d0) /\ Sound(d0, disk)
      BY <1>2, Zenon DEF SameFile, GoodHandle
    <3>4. b.d = d0 /\ b.disk = disk /\ b.left = m /\ b.out = <<>>
      BY <2>3, Zenon
    <3>5. Len(b.out) = 0 /\ 1 .. Len(b.out) = {}
      BY <3>4
    <3> HIDE DEF d0
    <3>6. Len(b.out) = m - b.left /\ b.d.position = d0.position + (m - b.left)
      BY <3>1, <3>4, <3>5, SMTT(30)
    <3> QED BY <3>1, <3>2, <3>3, <3>4, <3>5, <3>6, SMTT(30) DEF ReadInv
  <2>5. ReadInv(s, d0, disk, m)
    <3>1. m \in Nat
      BY <1>2, <2>2, SMTT(30)
    <3> HIDE DEF d0
    <3> QED BY <1>2, <2>4, <3>1, ReadLoopKeeps, Zenon DEF d0
  <2> HIDE DEF s
  <2>6. GoodHandle(s.d, controller, disk)
    <3>1. s.d \in HandleData
      BY <2>5, Zenon DEF ReadInv, Calls
    <3> QED BY <1>2, <2>5, <3>1, Zenon DEF ReadInv, GoodHandle, SameFile
  <2>7. Shape(disk, controller, hooks, [handle EXCEPT ![h] = s.d])
    BY <2>6, PutHandle, Zenon DEF Inv
  <2>8. Inv'
    BY <1>1, <2>1, <2>7, Zenon DEF Inv
  <2>9. /\ last'.handle = h /\ last'.data = s.out /\ handle'[h] = s.d
    BY <1>2, <2>1, Zenon
  <2>10. Len(s.out) = m - s.left /\ s.d.position = d0.position + (m - s.left)
    BY <2>5, Zenon DEF ReadInv
  <2>11. ~d0.stale => \A i \in 1 .. Len(s.out) : s.out[i] = WordAt(disk, d0.range, d0.position + i - 1)
    BY <2>5, Zenon DEF ReadInv
  <2> QED BY <1>1, <2>8, <2>9, <2>10, <2>11, Zenon
<1> QED BY <1>3, <1>4, Zenon

(* A handle whose sector another one may have changed.                     *)
LEMMA OutdatedGood ==
  ASSUME Inv, NEW h \in Handles, NEW g \in Handles, g # h, handle[g] # Closed, NEW new \in Images
  PROVE  GoodHandle(Outdated(g, h, new), controller, new)
<1> DEFINE d == handle[g]
           e == d.stale \/ (d.last_sector \in Disk /\ new[d.last_sector] # disk[d.last_sector])
           x == [d EXCEPT !.stale = e]
<1>1. GoodHandle(d, controller, disk) /\ d \in HandleData
  BY Zenon DEF Inv, Shape, GoodHandle
<1>2. e \in BOOLEAN
  BY <1>1, Zenon DEF HandleData
<1>3. Outdated(g, h, new) = x
  BY Zenon DEF Outdated, Opened
<1>4. ~e /\ d.last_sector # NoSector => d.last_sector \in Disk /\ d.cache = new[d.last_sector]
  BY <1>1, Zenon DEF GoodHandle, Sound
<1> HIDE DEF e
<1>5. /\ x \in HandleData /\ x.stale = e /\ x.last_sector = d.last_sector /\ x.cache = d.cache
      /\ x.generation = d.generation /\ x.file = d.file /\ x.range = d.range
  BY <1>1, <1>2, Zenon DEF HandleData
<1> HIDE DEF x
<1>6. Sound(x, new)
  BY <1>4, <1>5, Zenon DEF Sound
<1> QED BY <1>1, <1>3, <1>5, <1>6, Zenon DEF GoodHandle

(* fwrite: the words it changes.                                           *)
LEMMA FwriteStep ==
  ASSUME Ordered, Environment, Inv, NEW h \in Handles, NEW data \in Buffers(handle[h]),
         NEW fault, Fwrite(h, data, fault)
  PROVE  /\ Inv' /\ last'.op = "fwrite" /\ last'.handle = h
         /\ \A q \in Disk, i \in 1 .. Words :
              disk'[q][i] # disk[q][i] =>
                LET d == handle[h]
                    from == d.range.start * Words + d.position
                IN /\ Place(q, i) \in from .. from + handle'[h].position - d.position - 1
                   /\ \/ PastEnd(d)
                      \/ /\ InRange(q, d.range)
                         /\ \/ d.file = PataIndex
                            \/ HasRange(controller, d.file) /\ InRange(q, RangeOf(controller, d.file))
<1>1. IsOpen(h) /\ UNCHANGED <<controller, hooks>>
  BY Zenon DEF Fwrite
<1>2. /\ GoodHandle(handle[h], controller, disk) /\ handle[h] \in HandleData /\ disk \in Images
      /\ GoodHooks(controller, hooks) /\ data \in Seq(Int)
  BY <1>1, OpenHandle, Zenon DEF Inv, Shape, Environment
<1>3. CASE MayWrite(h) # "Ok"
  <2>1. last' = Called("fwrite", h, MayWrite(h)) /\ disk' = disk /\ handle' = handle
    BY <1>3, Zenon DEF Fwrite
  <2> QED BY <1>1, <2>1, Zenon DEF Inv, Called
<1>4. CASE MayWrite(h) = "Ok"
  <2> DEFINE d0 == handle[h]
             m == Allowed(d0, Len(data))
             b == Begin(h, Len(data), data)
             s == WriteLoop(b, Len(data), fault)
             from == d0.range.start * Words + d0.position
  <2>1. /\ disk' = s.disk
        /\ handle' = [g \in Handles |-> IF g = h THEN s.d ELSE Outdated(g, h, s.disk)]
        /\ last' = Called("fwrite", h, s.err)
    BY <1>4, Zenon DEF Fwrite
  <2>2. Len(data) \in Nat
    BY <1>2, SMTT(30)
  <2>3. /\ m \in 0 .. Len(data) /\ Size(d0) \in Int
        /\ ~PastEnd(d0) => d0.position + m <= Size(d0)
    BY <1>2, <2>2, AllowedFacts, ZenonT(30)
  <2> HIDE DEF m
  <2>4. b = [d |-> d0, disk |-> disk, left |-> m, data |-> data, out |-> <<>>, err |-> "Ok"]
    BY Zenon DEF Begin, m
  <2> HIDE DEF b
  <2>5. m \in Nat /\ m <= Len(data)
    BY <2>2, <2>3, SMTT(30)
  <2>6. WriteInv(b, d0, disk, m)
    <3>1. m - m = 0 /\ d0.position \in Nat
      BY <1>2, <2>5, SMTT(30) DEF HandleData
    <3>2. b \in Calls
      BY <1>2, <2>4, <2>5, SMTT(30) DEF Calls
    <3>3. SameFile(d0, d0) /\ Sound(d0, disk)
      BY <1>2, Zenon DEF SameFile, GoodHandle
    <3> QED BY <2>4, <2>5, <3>1, <3>2, <3>3, SMTT(30) DEF WriteInv
  <2>7. WriteInv(s, d0, disk, m)
    <3> HIDE DEF d0
    <3> QED BY <1>2, <2>2, <2>5, <2>6, WriteLoopKeeps, Zenon DEF d0
  <2> HIDE DEF s
  <2>8. s.d \in HandleData /\ s.disk \in Images
    BY <2>7, Zenon DEF WriteInv, Calls
  <2>9. GoodHandle(s.d, controller, s.disk)
    BY <1>2, <2>7, <2>8, ZenonT(30) DEF WriteInv, GoodHandle, SameFile
  <2>10. ASSUME NEW g \in Handles
         PROVE  handle'[g] = Closed \/ GoodHandle(handle'[g], controller, s.disk)
    <3>1. CASE g = h
      BY <2>1, <2>9, <3>1, Zenon
    <3>2. CASE g # h /\ handle[g] = Closed
      BY <2>1, <3>2, Zenon DEF Outdated, Opened
    <3>3. CASE g # h /\ handle[g] # Closed
      <4>1. GoodHandle(Outdated(g, h, s.disk), controller, s.disk)
        BY <2>8, <3>3, OutdatedGood, Zenon
      <4> QED BY <2>1, <3>3, <4>1, Zenon
    <3> QED BY <3>1, <3>2, <3>3, Zenon
  <2>11. Inv'
    <3>1. handle' = [g \in Handles |-> handle'[g]]
      BY <2>1, Zenon
    <3> QED BY <1>1, <1>2, <2>1, <2>8, <2>10, <3>1, Zenon DEF Inv, Shape
  <2>12. last'.op = "fwrite" /\ last'.handle = h /\ handle'[h] = s.d
    BY <2>1, Zenon DEF Called
  <2>13. ASSUME NEW q \in Disk, NEW i \in 1 .. Words, disk'[q][i] # disk[q][i]
         PROVE  /\ Place(q, i) \in from .. from + handle'[h].position - d0.position - 1
                /\ \/ PastEnd(d0)
                   \/ /\ InRange(q, d0.range)
                      /\ \/ d0.file = PataIndex
                         \/ HasRange(controller, d0.file) /\ InRange(q, RangeOf(controller, d0.file))
    <3> DEFINE l == s.left
               p == d0.position
               a == d0.range.start
               z == d0.range.end
               pl == Place(q, i)
    <3>1. /\ l \in Nat /\ l <= m /\ s.d.position = p + (m - l)
          /\ pl \in from .. from + (m - l) - 1
      BY <2>1, <2>7, <2>13, ZenonT(30) DEF WriteInv, Calls
    <3>2. /\ p \in Nat /\ a \in Nat /\ z \in Nat /\ Words \in Nat \ {0} /\ q \in Int
      <4>1. q \in Int
        BY SMTT(30) DEF Disk
      <4>2. d0.range \in Ranges /\ d0.position \in Nat
        BY <1>2, Zenon DEF HandleData
      <4> QED BY <4>1, <4>2, PataAssumption, Zenon DEF Ranges
    <3> DEFINE aw == a * Words
    <3>3. from = aw + p /\ aw \in Int /\ pl = q * Words + i - 1
      BY <3>2, SMTT(30) DEF Place
    <3>4. pl \in from .. from + handle'[h].position - d0.position - 1
      <4> DEFINE k == handle'[h].position
      <4>1. k = p + (m - l)
        BY <2>12, <3>1, Zenon
      <4> HIDE DEF l, p, from, pl, aw, k
      <4>2. from + (m - l) - 1 = from + k - p - 1
        BY <2>5, <3>1, <3>2, <3>3, <4>1, SMTT(30)
      <4>3. pl \in from .. from + k - p - 1
        BY <3>1, <4>2, Zenon
      <4> QED BY <4>3, Zenon DEF k, p, from, pl
    <3>5. ASSUME ~PastEnd(d0)
          PROVE  /\ InRange(q, d0.range)
                 /\ \/ d0.file = PataIndex
                    \/ HasRange(controller, d0.file) /\ InRange(q, RangeOf(controller, d0.file))
      <4>1. d0.file # PataIndex =>
              HasRange(controller, d0.file) /\ d0.range = RangeOf(controller, d0.file)
        <5>1. Current(h)
          BY <1>4, Zenon DEF MayWrite
        <5> QED BY <1>2, <5>1, Zenon DEF GoodHandle, Current
      <4>2. p + m <= (z - a) * Words
        BY <2>3, <3>5, Zenon DEF Size
      <4>3. (z - a) * Words = z * Words - aw
        BY <3>2, SMTT(30)
      <4> DEFINE zw == z * Words
      <4>4. zw \in Int /\ p + m <= zw - aw
        BY <3>2, <4>2, <4>3, SMTT(30)
      <4>5. aw <= pl /\ pl < zw
        <5> HIDE DEF l, p, from, pl, aw, zw
        <5> QED BY <2>5, <3>1, <3>2, <3>3, <4>4, SMTT(30)
      <4>6. a <= q /\ q < z
        <5>1. a * Words <= q * Words + i - 1 /\ q * Words + i - 1 < z * Words
          BY <3>3, <4>5, Zenon
        <5> HIDE DEF a, z
        <5> QED BY <3>2, <5>1, WordInRange, SMTT(30)
      <4> QED BY <4>1, <4>6, Zenon DEF InRange
    <3> HIDE DEF from, d0
    <3> QED BY <3>4, <3>5, Zenon
  <2> QED BY <2>11, <2>12, <2>13, Zenon
<1> QED BY <1>3, <1>4, ZenonT(30)

LEMMA QuietStep ==
  ASSUME Inv, UNCHANGED <<disk, controller, hooks, handle>>
  PROVE  Inv'
BY Zenon DEF Inv

(* A step that leaves the disk alone writes nowhere.                       *)
LEMMA Unwritten == ASSUME disk' = disk PROVE WrittenInside
BY Zenon DEF WrittenInside

(* A step of the drive: the invariant, and what it means for the words of  *)
(* the disk and for what a call returned.                                  *)
LEMMA NextInv ==
  ASSUME Ordered, Environment, Inv, [Next]_vars
  PROVE  Inv' /\ WrittenInside
<1>1. CASE UNCHANGED vars
  <2>1. UNCHANGED <<disk, controller, hooks, handle>>
    BY <1>1, Zenon DEF vars
  <2> QED BY <2>1, QuietStep, Unwritten, Zenon
<1>2. CASE Next
  <2> PICK h \in Handles :
        \/ \E f \in DOMAIN hooks, m \in OpenModes : Fopen(h, f, m)
        \/ Fclose(h)
        \/ \E p \in Seeks : Fseek(h, p)
        \/ Fflush(h)
        \/ \E r \in BOOLEAN : Fsync(h, r)
        \/ \E n \in ReadSizes, fault \in Faults : Fread(h, n, fault)
        \/ \E fault \in Faults : \E b \in Buffers(handle[h]) : Fwrite(h, b, fault)
        \/ Panic(h)
    BY <1>2, Zenon DEF Next
  <2>1. CASE \E f \in DOMAIN hooks, m \in OpenModes : Fopen(h, f, m)
    BY <2>1, FopenStep, Unwritten, Zenon
  <2>2. CASE Fclose(h)
    BY <2>2, FcloseStep, Unwritten, Zenon
  <2>3. CASE \E p \in Seeks : Fseek(h, p)
    BY <2>3, FseekStep, Unwritten, Zenon
  <2>4. CASE Fflush(h)
    BY <2>4, QuietStep, Unwritten, Zenon DEF Fflush
  <2>5. CASE \E r \in BOOLEAN : Fsync(h, r)
    BY <2>5, FsyncStep, Unwritten, Zenon
  <2>6. CASE \E n \in ReadSizes, fault \in Faults : Fread(h, n, fault)
    BY <2>6, FreadStep, Unwritten, Zenon
  <2>7. CASE \E fault \in Faults : \E b \in Buffers(handle[h]) : Fwrite(h, b, fault)
    BY <2>7, FwriteStep, ZenonT(30) DEF WrittenInside
  <2>8. CASE Panic(h)
    BY <2>8, QuietStep, Unwritten, Zenon DEF Panic
  <2> QED BY <2>1, <2>2, <2>3, <2>4, <2>5, <2>6, <2>7, <2>8, Zenon
<1> QED BY <1>1, <1>2, Zenon

LEMMA NextReads ==
  ASSUME Ordered, Inv, Next
  PROVE  ReturnedAsStored
<1> SUFFICES ASSUME last'.op = "fread", last'.err = "Ok"
             PROVE  ReturnedAsStored
  BY Zenon DEF ReturnedAsStored
<1> PICK h \in Handles :
      \/ \E f \in DOMAIN hooks, m \in OpenModes : Fopen(h, f, m)
      \/ Fclose(h)
      \/ \E p \in Seeks : Fseek(h, p)
      \/ Fflush(h)
      \/ \E r \in BOOLEAN : Fsync(h, r)
      \/ \E n \in ReadSizes, fault \in Faults : Fread(h, n, fault)
      \/ \E fault \in Faults : \E b \in Buffers(handle[h]) : Fwrite(h, b, fault)
      \/ Panic(h)
  BY Zenon DEF Next
<1>1. ASSUME NEW f, NEW m, Fopen(h, f, m) PROVE FALSE
  BY <1>1, Zenon DEF Fopen, Called
<1>2. ASSUME Fclose(h) PROVE FALSE
  BY <1>2, Zenon DEF Fclose, Called
<1>3. ASSUME NEW p, Fseek(h, p) PROVE FALSE
  BY <1>3, Zenon DEF Fseek, Called
<1>4. ASSUME Fflush(h) PROVE FALSE
  BY <1>4, SMTT(30) DEF Fflush, Called
<1>5. ASSUME NEW r, Fsync(h, r) PROVE FALSE
  <2>1. \E e : last' = Called("fsync", h, e)
    BY <1>5, Zenon DEF Fsync
  <2> QED BY <2>1 DEF Called
<1>6. ASSUME NEW b, NEW fault, Fwrite(h, b, fault) PROVE FALSE
  <2>1. \E e : last' = Called("fwrite", h, e)
    BY <1>6, Zenon DEF Fwrite
  <2> QED BY <2>1, SMTT(30) DEF Called
<1>7. ASSUME Panic(h) PROVE FALSE
  BY <1>7, ZenonT(30) DEF Panic, Called
<1>8. \E n \in ReadSizes, fault \in Faults : Fread(h, n, fault)
  BY <1>1, <1>2, <1>3, <1>4, <1>5, <1>6, <1>7, Zenon
<1> QED BY <1>8, FreadStep, ZenonT(30) DEF ReturnedAsStored

LEMMA InvImplies == Inv => IInv
<1> SUFFICES ASSUME Inv PROVE IInv
  BY Zenon
<1>1. \A h \in Opened : GoodHandle(handle[h], controller, disk)
  BY Zenon DEF Inv, Shape, Opened
<1>2. GoodHooks(controller, hooks) /\ disk \in Images
  BY Zenon DEF Inv, Shape
<1>3. TypeOK
  <2>1. handle \in [Handles -> HandleData \cup {Closed}]
    <3>1. \A h \in Handles : handle[h] \in HandleData \cup {Closed}
      BY <1>1, Zenon DEF Opened, GoodHandle
    <3>2. handle = [h \in Handles |-> handle[h]]
      BY Zenon DEF Inv, Shape
    <3> QED BY <3>1, <3>2, Zenon
  <2> QED BY <1>2, <2>1, Zenon DEF TypeOK, GoodHooks, Images
<1>4. HooksExact
  BY <1>2, Zenon DEF HooksExact, GoodHooks
<1>5. RangesCurrent
  BY <1>1, <1>2, Zenon DEF RangesCurrent, GoodHooks, GoodHandle, Current
<1>6. CacheSound
  BY <1>1, Zenon DEF CacheSound, GoodHandle, Sound
<1> QED BY <1>3, <1>4, <1>5, <1>6, Zenon DEF IInv

-------------------------------------------------------------------------------
INSTANCE WellFoundedInduction

LEMMA NumbersOrdered == Ordered
<1> SUFFICES ASSUME NEW T \in SUBSET Nat, T # {}
             PROVE  \E x \in T : \A y \in T : x <= y
  BY Zenon DEF Ordered
<1> DEFINE R == {p \in Nat \X Nat : p[1] < p[2]}
<1>1. IsWellFoundedOn(R, Nat)
  BY NatLessThanWellFounded, Zenon DEF OpToRel
<1>2. PICK x \in T : \A y \in T : ~(<<y, x>> \in R)
  <2> HIDE DEF R
  <2>1. T \subseteq Nat
    BY Zenon
  <2> QED BY <1>1, <2>1, WFMin, Zenon
<1>3. \A y \in T : ~(y < x)
  BY <1>2, Zenon
<1> QED BY <1>3, SMTT(30)

(* In every state the hooks are those of the table last read, every handle *)
(* that no fsync outdated has the range its file has in that table (unless *)
(* the file is the partition numbered like the controller), and every      *)
(* cache that is not stale is the sector it names: through all calls of    *)
(* the driver, on drives of any size with any tables.                      *)
THEOREM Invariance == ASSUME Environment PROVE Spec => []IInv
<1>1. Init => Inv
  BY InitInv, Zenon
<1>2. Inv /\ [Next]_vars => Inv'
  BY NumbersOrdered, NextInv, Zenon
<1>3. Inv => IInv
  BY InvImplies, Zenon
<1> QED BY <1>1, <1>2, <1>3, PTL DEF Spec

(* DevFs lists the drive and exactly the partitions that the partition     *)
(* manager last read, with its generation, however often fsync makes       *)
(* refresh_device_hooks read the table again.                              *)
THEOREM PartitionsListed == ASSUME Environment PROVE Spec => []HooksExact
<1>1. IInv => HooksExact
  BY Zenon DEF IInv
<1> QED BY <1>1, Invariance, PTL

(* fwrite changes only words of the range the handle was opened with, and  *)
(* only those that it moves the position over, whichever turn of its loop  *)
(* fails.  That range is the partition's, as the table was last read, for  *)
(* every file but the partition numbered like the controller.  Excepted is *)
(* a position past the partition's end.  The index of the controller, the  *)
(* size of the drive and its tables are arbitrary.                         *)
THEOREM WritesStayInside == ASSUME Environment PROVE Spec => PartitionKept
<1>1. Init => Inv
  BY InitInv, Zenon
<1>2. Inv /\ [Next]_vars => Inv' /\ [WrittenInside]_vars
  BY NumbersOrdered, NextInv, Zenon
<1> QED BY <1>1, <1>2, PTL DEF Spec, PartitionKept

(* A successful fread returns the words of the disk at the position of the *)
(* handle, as many as the position moves by, unless the cache is stale.    *)
THEOREM ReadsReturnDisk == ASSUME Environment PROVE Spec => ReadsDisk
<1>1. Init => Inv
  BY InitInv, Zenon
<1>2. Inv /\ [Next]_vars => Inv'
  BY NumbersOrdered, NextInv, Zenon
<1>3. Inv /\ [Next]_vars => [ReturnedAsStored]_vars
  BY NumbersOrdered, NextReads, Zenon
<1> QED BY <1>1, <1>2, <1>3, PTL DEF Spec, ReadsDisk
===============================================================================
