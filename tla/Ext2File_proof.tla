----------------------------- MODULE Ext2File_proof -----------------------------
(***************************************************************************)
(* Proofs about Ext2File: where the blocks of a file are, and the free     *)
(* counts of the volume.                                                   *)
(***************************************************************************)
EXTENDS Ext2File, TLAPS

-------------------------------------------------------------------------------
(* The numbers of the blocks of a file.                                    *)

(* Quotient and remainder.                                                 *)
LEMMA Divided ==
  ASSUME NEW a \in Nat, NEW n \in Nat \ {0}
  PROVE  a \div n \in Nat /\ a % n \in 0 .. n - 1 /\ a = (a \div n) * n + (a % n)
OBVIOUS

LEMMA Smaller ==
  ASSUME NEW x \in Nat, NEW y \in Nat, NEW n \in Nat \ {0}, x < y
  PROVE  x * n + n <= y * n
<1>1. PICK d \in Nat : y = x + 1 + d
  <2>1. y - x - 1 \in Nat /\ y = x + 1 + (y - x - 1)
    OBVIOUS
  <2> QED BY <2>1, Zenon
<1>2. y * n = x * n + n + d * n /\ d * n \in Nat /\ x * n \in Nat
  BY <1>1
<1> QED BY <1>2

(* They are the only ones.                                                 *)
LEMMA DividedOnce ==
  ASSUME NEW n \in Nat \ {0}, NEW q \in Nat, NEW r \in 0 .. n - 1
  PROVE  (q * n + r) \div n = q /\ (q * n + r) % n = r
<1> DEFINE a == q * n + r
           x == a \div n
<1>1. a \in Nat /\ q * n \in Nat
  OBVIOUS
<1>2. x \in Nat /\ a % n \in 0 .. n - 1 /\ a = x * n + (a % n)
  <2> HIDE DEF a
  <2> QED BY <1>1, Divided, Zenon
<1>3. x * n \in Nat
  <2> HIDE DEF x
  <2> QED BY <1>2
<1>4. ~(x < q)
  <2> SUFFICES ASSUME x < q PROVE FALSE
    BY Zenon
  <2>1. x * n + n <= q * n
    BY <1>2, Smaller, Zenon
  <2> QED BY <1>1, <1>2, <1>3, <2>1, SMTT(30)
<1>5. ~(q < x)
  <2> SUFFICES ASSUME q < x PROVE FALSE
    BY Zenon
  <2>1. q * n + n <= x * n
    BY <1>2, Smaller, Zenon
  <2> QED BY <1>1, <1>2, <1>3, <2>1, SMTT(30)
<1> HIDE DEF x
<1>6. x = q
  BY <1>2, <1>4, <1>5, SMTT(30)
<1> QED BY <1>2, <1>6, SMTT(30) DEF x

(* What InodeReadingLocation::new makes of a block at each level.           *)
LEMMA Direct ==
  ASSUME NEW i \in 0 .. DirectPointers - 1
  PROVE  location(i) = At(0, <<i>>)
BY Ext2InodeAssumption DEF location

LEMMA Single ==
  ASSUME NEW a \in Slots
  PROVE  location(DirectPointers + a) = At(1, <<a>>)
BY Ext2InodeAssumption DEF location, Slots

LEMMA Products ==
  ASSUME NEW p \in Nat, NEW a \in Slots, NEW b \in Slots
  PROVE  /\ TableSize \in Nat \ {0} /\ TableSize * TableSize \in Nat \ {0} /\ DirectPointers \in Nat \ {0}
         /\ a * TableSize + b \in 0 .. TableSize * TableSize - 1
         /\ p * (TableSize * TableSize) \in Nat
<1>1. TableSize \in Nat \ {0} /\ TableSize * TableSize \in Nat \ {0} /\ DirectPointers \in Nat \ {0}
  BY Ext2InodeAssumption
<1>2. a * TableSize + TableSize <= TableSize * TableSize /\ a * TableSize \in Nat
  BY <1>1, Smaller DEF Slots
<1>3. p * (TableSize * TableSize) \in Nat
  BY <1>1
<1> QED BY <1>1, <1>2, <1>3, SMTT(30) DEF Slots

LEMMA Double ==
  ASSUME NEW a \in Slots, NEW b \in Slots
  PROVE  location(DirectPointers + TableSize + (a * TableSize + b)) = At(2, <<a, b>>)
<1> DEFINE n == a * TableSize + b
           m == DirectPointers + TableSize + n
           TT == TableSize * TableSize
<1>1. TableSize \in Nat \ {0} /\ TT \in Nat \ {0} /\ DirectPointers \in Nat \ {0} /\ n \in 0 .. TT - 1
  BY Products, Zenon
<1>2. n \div TableSize = a /\ n % TableSize = b
  BY <1>1, DividedOnce DEF Slots
<1> HIDE DEF n, TT
<1>3. /\ ~(m < DirectPointers) /\ ~(m - DirectPointers < TableSize) /\ m - DirectPointers - TableSize = n
      /\ n < TT
  BY <1>1
<1> HIDE DEF m
<1>4. location(m) = At(2, <<n \div TableSize, n % TableSize>>)
  BY <1>3, Zenon DEF location, TT
<1> QED BY <1>2, <1>4, Zenon DEF m, n

LEMMA Triple ==
  ASSUME NEW p \in Nat, NEW a \in Slots, NEW b \in Slots
  PROVE  location(DirectPointers + TableSize + TableSize * TableSize
                    + (p * (TableSize * TableSize) + (a * TableSize + b))) = At(3, <<p, a, b>>)
<1> DEFINE n == a * TableSize + b
           TT == TableSize * TableSize
           x == p * TT + n
           m == DirectPointers + TableSize + TT + x
<1>1. /\ TableSize \in Nat \ {0} /\ TT \in Nat \ {0} /\ DirectPointers \in Nat \ {0} /\ n \in 0 .. TT - 1
      /\ p * TT \in Nat
  BY Products, Zenon
<1>2. n \div TableSize = a /\ n % TableSize = b
  BY <1>1, DividedOnce DEF Slots
<1>3. x = (p * TableSize + a) * TableSize + b /\ p * TableSize + a \in Nat
  BY <1>1 DEF Slots
<1>4. x % TableSize = b
  BY <1>1, <1>3, DividedOnce DEF Slots
<1> HIDE DEF n
<1>5. x \div TT = p /\ x % TT = n
  <2> HIDE DEF TT
  <2> QED BY <1>1, DividedOnce, Zenon
<1>6. x \in Nat
  BY <1>1
<1> HIDE DEF TT, x
<1>7. /\ ~(m < DirectPointers) /\ ~(m - DirectPointers < TableSize) /\ ~(m - DirectPointers - TableSize < TT)
      /\ m - DirectPointers - TableSize - TT = x
  BY <1>1, <1>6
<1> HIDE DEF m
<1>8. location(m) = At(3, <<x \div TT, (x % TT) \div TableSize, x % TableSize>>)
  BY <1>7, Zenon DEF location, TT
<1>9. location(m) = At(3, <<p, a, b>>)
  BY <1>2, <1>4, <1>5, <1>8, Zenon
<1> QED BY <1>9, Zenon DEF m, x, n, TT

(* Every block is at one of the levels.                                    *)
LEMMA Split ==
  ASSUME NEW n \in 0 .. TableSize * TableSize - 1
  PROVE  \E a, b \in Slots : n = a * TableSize + b
<1> DEFINE a == n \div TableSize
           b == n % TableSize
<1>1. TableSize \in Nat \ {0} /\ TableSize * TableSize \in Nat /\ n \in Nat
  BY Ext2InodeAssumption
<1>2. a \in Nat /\ b \in 0 .. TableSize - 1 /\ n = a * TableSize + b
  BY <1>1, Divided, Zenon
<1> HIDE DEF a, b
<1>3. a < TableSize
  <2> SUFFICES ASSUME ~(a < TableSize) PROVE FALSE
    BY Zenon
  <2>1. CASE a = TableSize
    BY <1>1, <1>2, <2>1, SMTT(30)
  <2>2. CASE TableSize < a
    <3>1. TableSize * TableSize + TableSize <= a * TableSize /\ a * TableSize \in Nat
      BY <1>1, <1>2, <2>2, Smaller, SMTT(30)
    <3> QED BY <1>1, <1>2, <3>1, SMTT(30)
  <2> QED BY <1>1, <1>2, <2>1, <2>2, SMTT(30)
<1>4. a \in Slots /\ b \in Slots
  BY <1>1, <1>2, <1>3 DEF Slots
<1> QED BY <1>2, <1>4, Zenon

LEMMA Somewhere ==
  ASSUME NEW i \in Nat
  PROVE  \/ i \in 0 .. DirectPointers - 1
         \/ \E a \in Slots : i = DirectPointers + a
         \/ \E a, b \in Slots : i = DirectPointers + TableSize + (a * TableSize + b)
         \/ \E p \in Nat, a, b \in Slots :
              i = DirectPointers + TableSize + TableSize * TableSize
                    + (p * (TableSize * TableSize) + (a * TableSize + b))
<1> DEFINE TT == TableSize * TableSize
           n == i - DirectPointers - TableSize
           x == n - TT
<1>1. TableSize \in Nat \ {0} /\ TT \in Nat \ {0} /\ DirectPointers \in Nat \ {0}
  BY Ext2InodeAssumption
<1>2. CASE i < DirectPointers
  BY <1>1, <1>2
<1>3. CASE ~(i < DirectPointers) /\ i < DirectPointers + TableSize
  <2>1. i - DirectPointers \in Slots /\ i = DirectPointers + (i - DirectPointers)
    BY <1>1, <1>3 DEF Slots
  <2> QED BY <2>1, Zenon
<1>4. CASE n \in 0 .. TT - 1
  <2>1. PICK a, b \in Slots : n = a * TableSize + b
    <3> HIDE DEF n
    <3> QED BY <1>4, Split, Zenon DEF TT
  <2>2. i = DirectPointers + TableSize + n
    BY <1>1
  <2> HIDE DEF n
  <2> QED BY <2>1, <2>2, Zenon
<1>5. CASE x \in Nat
  <2>1. x \div TT \in Nat /\ x % TT \in 0 .. TT - 1 /\ x = (x \div TT) * TT + (x % TT)
    <3> HIDE DEF x, TT
    <3> QED BY <1>1, <1>5, Divided, Zenon
  <2>2. PICK a, b \in Slots : x % TT = a * TableSize + b
    <3> HIDE DEF x
    <3> QED BY <2>1, Split, Zenon DEF TT
  <2>3. i = DirectPointers + TableSize + TT + x
    <3> HIDE DEF TT
    <3> QED BY <1>1
  <2> HIDE DEF x
  <2>4. i = DirectPointers + TableSize + TT + ((x \div TT) * TT + (a * TableSize + b))
    BY <2>1, <2>2, <2>3, ZenonT(30)
  <2> QED BY <2>1, <2>4, Zenon DEF TT
<1>6. i < DirectPointers \/ (~(i < DirectPointers) /\ i < DirectPointers + TableSize) \/ n \in 0 .. TT - 1 \/ x \in Nat
  <2> HIDE DEF TT
  <2> QED BY <1>1, SMTT(30)
<1> QED BY <1>2, <1>3, <1>4, <1>5, <1>6, Zenon

(* InodeReadingLocation::new, current_block_idx and advance agree, for     *)
(* every number of direct pointers and every size of the tables: the       *)
(* number of the location made for a block is the block's, and advance     *)
(* goes to the location of the next block, except from the last one that   *)
(* three levels of tables can hold, where it has nowhere to go.            *)
THEOREM LocationsAgree ==
  \A i \in Nat :
    /\ current_block_idx(location(i)) = i
    /\ IF IsLast(location(i))
       THEN i = DirectPointers + TableSize + TableSize * TableSize + TableSize * TableSize * TableSize - 1
       ELSE advance(location(i)) = location(i + 1)
<1> DEFINE T == TableSize
           D == DirectPointers
           end == T - 1
<1> SUFFICES ASSUME NEW i \in Nat
             PROVE  /\ current_block_idx(location(i)) = i
                    /\ IF IsLast(location(i)) THEN i = D + T + T * T + T * T * T - 1
                       ELSE advance(location(i)) = location(i + 1)
  BY Zenon
<1>1. T \in Nat \ {0} /\ D \in Nat \ {0} /\ 0 \in Slots /\ end \in Slots /\ T * T \in Nat
  BY Ext2InodeAssumption DEF Slots
<1>2. CASE i \in 0 .. D - 1
  <2>1. location(i) = At(0, <<i>>)
    BY <1>2, Direct, Zenon
  <2>2. location(i + 1) = IF i = D - 1 THEN At(1, <<0>>) ELSE At(0, <<i + 1>>)
    <3>1. CASE i = D - 1
      <4>1. i + 1 = D + 0
        BY <1>1, <3>1
      <4> QED BY <1>1, <3>1, <4>1, Single, Zenon
    <3>2. CASE i # D - 1
      <4>1. i + 1 \in 0 .. D - 1
        BY <1>1, <1>2, <3>2, SMTT(30)
      <4> QED BY <3>2, <4>1, Direct, Zenon
    <3> QED BY <3>1, <3>2, Zenon
  <2> QED BY <2>1, <2>2 DEF At, current_block_idx, IsLast, advance
<1>3. ASSUME NEW a \in Slots, i = D + a
      PROVE  /\ current_block_idx(location(i)) = i /\ ~IsLast(location(i))
             /\ advance(location(i)) = location(i + 1)
  <2>1. location(i) = At(1, <<a>>)
    BY <1>3, Single, Zenon
  <2>2. location(i + 1) = IF a = end THEN At(2, <<0, 0>>) ELSE At(1, <<a + 1>>)
    <3>1. CASE a = end
      <4>1. i + 1 = D + T + (0 * T + 0)
        BY <1>1, <1>3, <3>1, SMTT(30)
      <4> QED BY <1>1, <3>1, <4>1, Double, ZenonT(30)
    <3>2. CASE a # end
      <4>1. a + 1 \in Slots /\ i + 1 = D + (a + 1)
        BY <1>1, <1>3, <3>2, SMTT(30) DEF Slots
      <4> QED BY <3>2, <4>1, Single, Zenon
    <3> QED BY <3>1, <3>2, Zenon
  <2> QED BY <1>3, <2>1, <2>2, SMTT(30) DEF At, current_block_idx, IsLast, advance
<1>4. ASSUME NEW a \in Slots, NEW b \in Slots, i = D + T + (a * T + b)
      PROVE  /\ current_block_idx(location(i)) = i /\ ~IsLast(location(i))
             /\ advance(location(i)) = location(i + 1)
  <2>1. location(i) = At(2, <<a, b>>)
    BY <1>4, Double, Zenon
  <2>a. a \in Nat /\ b \in Nat /\ a * T \in Nat
    BY <1>1 DEF Slots
  <2>2. location(i + 1) = IF a = end /\ b = end THEN At(3, <<0, 0, 0>>)
                          ELSE IF b = end THEN At(2, <<a + 1, 0>>) ELSE At(2, <<a, b + 1>>)
    <3>1. CASE a = end /\ b = end
      <4>1. i + 1 = D + T + T * T + (0 * (T * T) + (0 * T + 0))
        BY <1>1, <1>4, <3>1
      <4> QED BY <1>1, <3>1, <4>1, Triple, SMTT(30)
    <3>2. CASE a # end /\ b = end
      <4>1. a + 1 \in Slots /\ i + 1 = D + T + ((a + 1) * T + 0)
        BY <1>1, <1>4, <2>a, <3>2, SMTT(30) DEF Slots
      <4> QED BY <1>1, <3>2, <4>1, Double, Zenon
    <3>3. CASE b # end
      <4>1. b + 1 \in Slots /\ i + 1 = D + T + (a * T + (b + 1))
        BY <1>1, <1>4, <2>a, <3>3, SMTT(30) DEF Slots
      <4> QED BY <3>3, <4>1, Double, Zenon
    <3> QED BY <3>1, <3>2, <3>3, Zenon
  <2> QED BY <1>1, <1>4, <2>1, <2>2, <2>a, SMTT(30) DEF At, current_block_idx, IsLast, advance
<1>5. ASSUME NEW p \in Nat, NEW a \in Slots, NEW b \in Slots,
             i = D + T + T * T + (p * (T * T) + (a * T + b))
      PROVE  /\ current_block_idx(location(i)) = i
             /\ IF IsLast(location(i)) THEN i = D + T + T * T + T * T * T - 1
                ELSE advance(location(i)) = location(i + 1)
  <2>1. location(i) = At(3, <<p, a, b>>)
    BY <1>5, Triple, Zenon
  <2>a. a \in Nat /\ b \in Nat /\ a * T \in Nat /\ p * (T * T) \in Nat
    BY <1>1 DEF Slots
  <2>2. location(i + 1) = IF a = end /\ b = end THEN At(3, <<p + 1, 0, 0>>)
                          ELSE IF b = end THEN At(3, <<p, a + 1, 0>>) ELSE At(3, <<p, a, b + 1>>)
    <3>1. CASE a = end /\ b = end
      <4>1. i + 1 = D + T + T * T + ((p + 1) * (T * T) + (0 * T + 0)) /\ p + 1 \in Nat
        BY <1>1, <1>5, <2>a, <3>1, SMTT(30)
      <4> QED BY <1>1, <3>1, <4>1, Triple, SMTT(30)
    <3>2. CASE a # end /\ b = end
      <4>1. a + 1 \in Slots /\ i + 1 = D + T + T * T + (p * (T * T) + ((a + 1) * T + 0))
        BY <1>1, <1>5, <2>a, <3>2, SMTT(30) DEF Slots
      <4> QED BY <1>1, <3>2, <4>1, Triple, SMTT(30)
    <3>3. CASE b # end
      <4>1. b + 1 \in Slots /\ i + 1 = D + T + T * T + (p * (T * T) + (a * T + (b + 1)))
        BY <1>1, <1>5, <2>a, <3>3, SMTT(30) DEF Slots
      <4> QED BY <3>3, <4>1, Triple
    <3> QED BY <3>1, <3>2, <3>3, Zenon
  <2>3. current_block_idx(location(i)) = i
    <3>1. current_block_idx(location(i)) = D + T + T * T + p * T * T + a * T + b
      BY <2>1 DEF At, current_block_idx
    <3> QED BY <1>1, <1>5, <2>a, <3>1, SMTT(30)
  <2>4. ASSUME IsLast(location(i)) PROVE i = D + T + T * T + T * T * T - 1
    <3>1. p = end /\ a = end /\ b = end
      BY <2>1, <2>4 DEF At, IsLast, Levels
    <3> QED BY <1>1, <1>5, <3>1
  <2>5. ASSUME ~IsLast(location(i)) PROVE advance(location(i)) = location(i + 1)
    BY <2>1, <2>2 DEF At, advance
  <2> QED BY <2>3, <2>4, <2>5, Zenon
<1> QED BY <1>2, <1>3, <1>4, <1>5, Somewhere, SMTT(30)

-------------------------------------------------------------------------------
(* What the proofs use of the numbers and of finite sets.  The lemmas that *)
(* need it assume it; BasicFacts, at the end, proves it from the library.  *)
Basics ==
  /\ \A T \in SUBSET Nat : T # {} => \E x \in T : \A y \in T : x <= y
  /\ \A n \in Int : IsFiniteSet(0 .. n)
  /\ \A S : IsFiniteSet(S) =>
       /\ Cardinality(S) \in Nat
       /\ \A T \in SUBSET S : IsFiniteSet(T)
       /\ \A x : x \notin S => /\ IsFiniteSet(S \cup {x})
                              /\ Cardinality(S \cup {x}) = Cardinality(S) + 1
       /\ \A x \in S : IsFiniteSet(S \ {x}) /\ Cardinality(S \ {x}) = Cardinality(S) - 1

(* The least member of a set of numbers, and induction up to a bound.      *)
LEMMA LeastMember ==
  ASSUME Basics, NEW T \in SUBSET Nat, T # {}
  PROVE  \E x \in T : \A y \in T : x <= y
BY Zenon DEF Basics

LEMMA Joined ==
  ASSUME NEW S, NEW a \in Seq(S), NEW b \in Seq(S)
  PROVE  a \o b \in Seq(S) /\ Len(a \o b) = Len(a) + Len(b)
OBVIOUS

LEMMA MinIsMember ==
  ASSUME Basics, NEW T \in SUBSET Nat, T # {}
  PROVE  Min(T) \in T /\ \A y \in T : Min(T) <= y
BY LeastMember, Zenon DEF Min

LEMMA Ascends ==
  ASSUME Basics, NEW n \in Nat, NEW T, 0 \in T,
         \A k \in 0 .. n - 1 : k \in T => k + 1 \in T
  PROVE  \A k \in 0 .. n : k \in T
<1> DEFINE S == {k \in Nat : k <= n /\ k \notin T}
<1> SUFFICES ASSUME S # {}
             PROVE  FALSE
  OBVIOUS
<1>1. PICK x \in S : \A y \in S : x <= y
  <2>1. S \in SUBSET Nat
    BY Zenon
  <2> HIDE DEF S
  <2> QED BY <2>1, LeastMember, Zenon
<1>2. x \in Nat /\ x <= n /\ x \notin T /\ x # 0
  BY Zenon
<1>3. x - 1 \in 0 .. n - 1 /\ x - 1 \notin S /\ (x - 1) + 1 = x
  BY <1>1, <1>2
<1>4. x - 1 \in T
  BY <1>3
<1> QED BY <1>2, <1>3, <1>4, Zenon

LEMMA RemoveAtFacts ==
  ASSUME NEW S, NEW s \in Seq(S), NEW i \in 1 .. Len(s)
  PROVE  /\ RemoveAt(s, i) \in Seq(S)
         /\ Len(RemoveAt(s, i)) = Len(s) - 1
         /\ \A j \in 1 .. Len(s) - 1 :
              RemoveAt(s, i)[j] = IF j < i THEN s[j] ELSE s[j + 1]
<1> DEFINE a == SubSeq(s, 1, i - 1)
           b == SubSeq(s, i + 1, Len(s))
<1>1. /\ a \in Seq(S) /\ Len(a) = i - 1 /\ \A j \in 1 .. i - 1 : a[j] = s[j]
  OBVIOUS
<1>2. /\ b \in Seq(S) /\ Len(b) = Len(s) - i /\ \A j \in 1 .. Len(s) - i : b[j] = s[i + j]
  OBVIOUS
<1>3. RemoveAt(s, i) = a \o b
  BY Zenon DEF RemoveAt
<1> HIDE DEF a, b
<1>4. /\ a \o b \in Seq(S) /\ Len(a \o b) = Len(s) - 1
  <2>1. a \in Seq(S) /\ b \in Seq(S) /\ Len(a) = i - 1 /\ Len(b) = Len(s) - i /\ Len(s) \in Nat
    BY <1>1, <1>2
  <2>2. a \o b \in Seq(S) /\ Len(a \o b) = Len(a) + Len(b)
    BY <2>1, Joined, Zenon
  <2> QED BY <2>1, <2>2, SMTT(30)
<1>5. ASSUME NEW j \in 1 .. Len(s) - 1
      PROVE  (a \o b)[j] = IF j < i THEN s[j] ELSE s[j + 1]
  <2>1. CASE j < i
    BY <1>1, <1>2, <2>1
  <2>2. CASE j >= i
    <3>1. (a \o b)[j] = b[j - (i - 1)]
      BY <1>1, <1>2, <2>2, SMTT(30)
    <3>2. j - (i - 1) \in 1 .. Len(s) - i /\ i + (j - (i - 1)) = j + 1
      BY <2>2
    <3>3. b[j - (i - 1)] = s[i + (j - (i - 1))]
      BY <1>2, <3>2, Zenon
    <3>4. ~(j < i)
      BY <2>2
    <3> QED BY <3>1, <3>2, <3>3, <3>4, Zenon
  <2>3. j < i \/ j >= i
    OBVIOUS
  <2> QED BY <2>1, <2>2, <2>3, Zenon
<1> QED BY <1>3, <1>4, <1>5, Zenon

-------------------------------------------------------------------------------
(* GroupSum adds up the values of the groups, one after the other.        *)
LEMMA SumRuns ==
  ASSUME Basics, NEW f
  PROVE  \E acc :
           /\ acc[0] = 0
           /\ \A k \in 0 .. GroupCount - 1 : acc[k + 1] = acc[k] + f[k]
           /\ GroupSum(f) = acc[GroupCount]
<1> DEFINE Body(it, m) == [k \in 0 .. m |-> IF k = 0 THEN 0 ELSE it[k - 1] + f[k - 1]]
           T == {m \in Nat : \E it : it = Body(it, m)}
<1>1. 0 \in T
  <2> DEFINE it == [k \in 0 .. 0 |-> 0]
  <2>1. it = Body(it, 0)
    OBVIOUS
  <2> QED BY <2>1, Zenon
<1>2. ASSUME NEW m \in Nat, m \in T PROVE m + 1 \in T
  <2>1. PICK it : it = Body(it, m)
    <3> HIDE DEF Body
    <3> QED BY <1>2, Zenon
  <2> DEFINE g == [k \in 0 .. m + 1 |-> IF k = m + 1 THEN it[m] + f[m] ELSE it[k]]
  <2>2. ASSUME NEW k \in 0 .. m + 1
        PROVE  g[k] = IF k = 0 THEN 0 ELSE g[k - 1] + f[k - 1]
    <3>1. CASE k = m + 1
      <4>1. m \in 0 .. m + 1 /\ m # m + 1 /\ k - 1 = m /\ k # 0
        BY <3>1
      <4>2. g[k] = it[m] + f[m] /\ g[m] = it[m]
        BY <3>1, <4>1, Zenon
      <4> HIDE DEF g
      <4> QED BY <3>1, <4>1, <4>2, Zenon
    <3>2. CASE k # m + 1
      <4>1. k \in 0 .. m /\ (k # 0 => k - 1 \in 0 .. m + 1 /\ k - 1 # m + 1)
        BY <3>2
      <4>2. g[k] = it[k] /\ (k # 0 => g[k - 1] = it[k - 1])
        BY <3>2, <4>1, Zenon
      <4>3. it[k] = IF k = 0 THEN 0 ELSE it[k - 1] + f[k - 1]
        BY <2>1, <4>1, Zenon
      <4> HIDE DEF g
      <4> QED BY <4>2, <4>3, Zenon
    <3> QED BY <3>1, <3>2, Zenon
  <2>3. g = Body(g, m + 1)
    <3>1. g = [k \in 0 .. m + 1 |-> g[k]]
      BY Zenon
    <3> HIDE DEF g
    <3> QED BY <2>2, <3>1, Zenon
  <2> HIDE DEF g, Body
  <2>4. \E it_ : it_ = Body(it_, m + 1)
    BY <2>3, Zenon
  <2> QED BY <2>4
<1>3. GroupCount \in T
  <2> DEFINE N == GroupCount
  <2>1. N \in Nat
    BY Ext2AllocAssumption, Zenon
  <2> HIDE DEF T, N
  <2>2. \A k \in 0 .. N : k \in T
    BY <1>1, <1>2, <2>1, Ascends, SMTT(30)
  <2> QED BY <2>1, <2>2 DEF N
<1> DEFINE acc == CHOOSE it : it = Body(it, GroupCount)
<1>4. acc = Body(acc, GroupCount)
  BY <1>3, Zenon
<1>5. GroupSum(f) = acc[GroupCount]
  BY Zenon DEF GroupSum
<1> HIDE DEF acc
<1>6. acc[0] = 0 /\ GroupCount \in Nat
  BY <1>3, <1>4
<1>7. ASSUME NEW k \in 0 .. GroupCount - 1 PROVE acc[k + 1] = acc[k] + f[k]
  <2>1. k + 1 \in 0 .. GroupCount /\ k + 1 # 0 /\ (k + 1) - 1 = k
    BY <1>6, SMTT(30)
  <2> QED BY <1>4, <2>1, Zenon
<1> QED BY <1>5, <1>6, <1>7, Zenon

LEMMA SumIsInt ==
  ASSUME Basics, NEW f, \A g \in Groups : f[g] \in Int
  PROVE  GroupSum(f) \in Int
<1>1. PICK acc : /\ acc[0] = 0
                 /\ \A k \in 0 .. GroupCount - 1 : acc[k + 1] = acc[k] + f[k]
                 /\ GroupSum(f) = acc[GroupCount]
  BY SumRuns, Zenon
<1>2. GroupCount \in Nat
  BY Ext2AllocAssumption, Zenon
<1> DEFINE T == {k \in Nat : acc[k] \in Int}
<1>3. 0 \in T /\ \A k \in 0 .. GroupCount - 1 : k \in T => k + 1 \in T
  BY <1>1, <1>2 DEF Groups
<1>4. \A k \in 0 .. GroupCount : k \in T
  <2> HIDE DEF T
  <2> QED BY <1>2, <1>3, Ascends, Zenon
<1> QED BY <1>1, <1>2, <1>4

LEMMA SumOfDifferences ==
  ASSUME Basics, NEW f, NEW h, NEW e, \A g \in Groups : f[g] \in Int /\ h[g] \in Int /\ e[g] = f[g] - h[g]
  PROVE  GroupSum(e) = GroupSum(f) - GroupSum(h)
<1>1. PICK a : /\ a[0] = 0
               /\ \A k \in 0 .. GroupCount - 1 : a[k + 1] = a[k] + e[k]
               /\ GroupSum(e) = a[GroupCount]
  BY SumRuns, Zenon
<1>2. PICK b : /\ b[0] = 0
               /\ \A k \in 0 .. GroupCount - 1 : b[k + 1] = b[k] + f[k]
               /\ GroupSum(f) = b[GroupCount]
  BY SumRuns, Zenon
<1>3. PICK c : /\ c[0] = 0
               /\ \A k \in 0 .. GroupCount - 1 : c[k + 1] = c[k] + h[k]
               /\ GroupSum(h) = c[GroupCount]
  BY SumRuns, Zenon
<1>4. GroupCount \in Nat
  BY Ext2AllocAssumption, Zenon
<1> DEFINE T == {k \in Nat : b[k] \in Int /\ c[k] \in Int /\ a[k] = b[k] - c[k]}
<1>5. 0 \in T
  BY <1>1, <1>2, <1>3, SMTT(30)
<1>6. ASSUME NEW k \in 0 .. GroupCount - 1, k \in T PROVE k + 1 \in T
  <2>1. f[k] \in Int /\ h[k] \in Int /\ e[k] = f[k] - h[k]
    BY Zenon DEF Groups
  <2>2. a[k + 1] = a[k] + e[k] /\ b[k + 1] = b[k] + f[k] /\ c[k + 1] = c[k] + h[k]
    BY <1>1, <1>2, <1>3, Zenon
  <2>3. b[k] \in Int /\ c[k] \in Int /\ a[k] = b[k] - c[k]
    BY <1>6, Zenon
  <2> QED BY <2>1, <2>2, <2>3, SMTT(30)
<1>7. \A k \in 0 .. GroupCount : k \in T
  <2> HIDE DEF T
  <2> QED BY <1>4, <1>5, <1>6, Ascends, ZenonT(30)
<1> QED BY <1>1, <1>2, <1>3, <1>4, <1>7, SMTT(30)

LEMMA SumOfOne ==
  ASSUME Basics, NEW f, NEW g \in Groups, NEW x \in Int, \A l \in Groups : f[l] = IF l = g THEN x ELSE 0
  PROVE  GroupSum(f) = x
<1>1. PICK a : /\ a[0] = 0
               /\ \A k \in 0 .. GroupCount - 1 : a[k + 1] = a[k] + f[k]
               /\ GroupSum(f) = a[GroupCount]
  BY SumRuns, Zenon
<1>2. GroupCount \in Nat /\ g \in Nat /\ g < GroupCount
  BY Ext2AllocAssumption DEF Groups
<1> DEFINE T == {k \in Nat : a[k] = IF k <= g THEN 0 ELSE x}
<1>3. 0 \in T
  BY <1>1, <1>2
<1>4. ASSUME NEW k \in 0 .. GroupCount - 1, k \in T PROVE k + 1 \in T
  <2>1. a[k + 1] = a[k] + f[k] /\ f[k] = IF k = g THEN x ELSE 0
    BY <1>1, Zenon DEF Groups
  <2>2. a[k] = IF k <= g THEN 0 ELSE x
    BY <1>4, Zenon
  <2> QED BY <1>2, <2>1, <2>2, SMTT(30)
<1>5. \A k \in 0 .. GroupCount : k \in T
  <2> HIDE DEF T
  <2> QED BY <1>2, <1>3, <1>4, Ascends, Zenon
<1> QED BY <1>1, <1>2, <1>5, SMTT(30)

LEMMA SumOfChanged ==
  ASSUME Basics, NEW f \in [Groups -> Int], NEW g \in Groups, NEW x \in Int
  PROVE  GroupSum([f EXCEPT ![g] = @ - x]) = GroupSum(f) - x
<1> DEFINE h == [l \in Groups |-> IF l = g THEN x ELSE 0]
           e == [f EXCEPT ![g] = @ - x]
<1>1. \A l \in Groups : f[l] \in Int /\ h[l] \in Int /\ e[l] = f[l] - h[l]
  OBVIOUS
<1>2. \A l \in Groups : h[l] = IF l = g THEN x ELSE 0
  BY Zenon
<1> HIDE DEF h, e
<1>3. GroupSum(e) = GroupSum(f) - GroupSum(h)
  BY <1>1, SumOfDifferences, Zenon
<1>4. GroupSum(h) = x
  BY <1>2, SumOfOne, Zenon
<1> QED BY <1>3, <1>4, Zenon DEF e

-------------------------------------------------------------------------------
(* The books of one kind: A are the cached allocators, bm and d the bitmaps *)
(* and the descriptors of the groups, sb the superblock's count and n the  *)
(* bits of a group.                                                        *)
Allocators == [group : Groups, bits : SUBSET Int, dirty : BOOLEAN, diff_usage : Int]

Accounted(a, bm, d, n) ==
  /\ IsFiniteSet(a.bits)
  /\ d[a.group] - a.diff_usage = n - Cardinality(a.bits)
  /\ ~a.dirty => a.bits = bm[a.group] /\ a.diff_usage = 0

Balanced(A, bm, d, sb, n) ==
  /\ \A g \in Groups : IsFiniteSet(bm[g])
  /\ \A a \in A : Accounted(a, bm, d, n)
  /\ \A g \in Groups : (\A a \in A : a.group # g) => d[g] = n - Cardinality(bm[g])
  /\ sb = GroupSum(d)

LEMMA ChangeBalanced ==
  ASSUME NEW A, NEW bm, NEW d, NEW sb, NEW n, Balanced(A, bm, d, sb, n),
         NEW a \in A, NEW b, b.group = a.group, Accounted(b, bm, d, n)
  PROVE  Balanced((A \ {a}) \cup {b}, bm, d, sb, n)
BY Zenon DEF Balanced

LEMMA ReadBalanced ==
  ASSUME NEW A, NEW bm, NEW d, NEW sb, NEW n, Balanced(A, bm, d, sb, n), d \in [Groups -> Int],
         NEW g \in Groups, \A a \in A : a.group # g
  PROVE  Balanced({new(g, bm[g])} \cup A, bm, d, sb, n)
<1> DEFINE b == new(g, bm[g])
<1>1. b.group = g /\ b.bits = bm[g] /\ b.diff_usage = 0
  BY Zenon DEF new
<1>2. IsFiniteSet(bm[g]) /\ d[g] = n - Cardinality(bm[g]) /\ d[g] \in Int
  BY Zenon DEF Balanced
<1> HIDE DEF b
<1>3. Accounted(b, bm, d, n)
  BY <1>1, <1>2 DEF Accounted
<1> QED BY <1>3, Zenon DEF Balanced, b

(* The bitmap and the descriptors of a volume after an allocator is        *)
(* written back.                                                           *)
Stored(bm, a) == [bm EXCEPT ![a.group] = IF a.dirty THEN a.bits ELSE @]
Repaid(d, a) == [d EXCEPT ![a.group] = @ - a.diff_usage]

LEMMA EvictBalanced ==
  ASSUME Basics, NEW A \in SUBSET Allocators, NEW bm \in [Groups -> SUBSET Int], NEW d \in [Groups -> Int],
         NEW sb, NEW n \in Int, Balanced(A, bm, d, sb, n), NEW a \in A,
         \A b \in A : b.group = a.group => b = a
  PROVE  Balanced(A \ {a}, Stored(bm, a), Repaid(d, a), sb - a.diff_usage, n)
<1> DEFINE g == a.group
           x == a.diff_usage
           bm2 == Stored(bm, a)
           d2 == Repaid(d, a)
<1>1. g \in Groups /\ x \in Int /\ Accounted(a, bm, d, n) /\ a.dirty \in BOOLEAN
  BY Zenon DEF Allocators, Balanced
<1>2. bm2[g] = a.bits /\ d2[g] = d[g] - x
  BY <1>1, Zenon DEF Accounted, Stored, Repaid
<1>3. \A l \in Groups : l # g => bm2[l] = bm[l] /\ d2[l] = d[l]
  BY Zenon DEF Stored, Repaid
<1>4. GroupSum(d2) = GroupSum(d) - x
  BY <1>1, SumOfChanged, ZenonT(30) DEF Repaid
<1> HIDE DEF bm2, d2, g, x
<1>5. \A l \in Groups : IsFiniteSet(bm2[l])
  BY <1>1, <1>2, <1>3, Zenon DEF Balanced, Accounted
<1>6. ASSUME NEW b \in A \ {a} PROVE Accounted(b, bm2, d2, n)
  <2>1. b.group # g /\ Accounted(b, bm, d, n) /\ b.group \in Groups
    BY <1>6, Zenon DEF Balanced, Allocators, g
  <2> QED BY <1>3, <2>1, Zenon DEF Accounted
<1>7. ASSUME NEW l \in Groups, \A b \in A \ {a} : b.group # l
      PROVE  d2[l] = n - Cardinality(bm2[l])
  <2>1. CASE l = g
    BY <1>1, <1>2, <2>1, Zenon DEF Accounted, g, x
  <2>2. CASE l # g
    BY <1>3, <1>7, <2>2, Zenon DEF Balanced, g
  <2> QED BY <2>1, <2>2, Zenon
<1>8. sb - x = GroupSum(d2)
  BY <1>4, Zenon DEF Balanced
<1> QED BY <1>5, <1>6, <1>7, <1>8, Zenon DEF Balanced, bm2, d2, g, x

-------------------------------------------------------------------------------
(* A cache as a sequence of allocators, of which no two have one group.    *)
Members(c) == {c[i] : i \in DOMAIN c}
OnePerGroup(c) == \A i, j \in DOMAIN c : c[i].group = c[j].group => i = j

LEMMA FirstMember ==
  ASSUME NEW c \in Seq(Allocators), OnePerGroup(c), c # <<>>,
         NEW b \in Allocators, b.group = c[1].group
  PROVE  /\ [c EXCEPT ![1] = b] \in Seq(Allocators)
         /\ OnePerGroup([c EXCEPT ![1] = b])
         /\ c[1] \in Members(c)
         /\ Members([c EXCEPT ![1] = b]) = (Members(c) \ {c[1]}) \cup {b}
<1> DEFINE e == [c EXCEPT ![1] = b]
<1>1. Len(c) \in Nat /\ DOMAIN c = 1 .. Len(c) /\ 1 \in DOMAIN c
  OBVIOUS
<1>2. DOMAIN e = DOMAIN c /\ e[1] = b /\ \A i \in DOMAIN c : i # 1 => e[i] = c[i]
  BY <1>1, Zenon
<1>3. e \in Seq(Allocators)
  BY <1>1
<1> HIDE DEF e
<1>4. OnePerGroup(e)
  BY <1>2, SMTT(30) DEF OnePerGroup
<1>5. Members(e) = (Members(c) \ {c[1]}) \cup {b}
  <2>1. \A i \in DOMAIN c : i # 1 => c[i] # c[1]
    BY <1>1, Zenon DEF OnePerGroup
  <2> QED BY <1>1, <1>2, <2>1 DEF Members
<1>6. c[1] \in Members(c)
  BY <1>1, Zenon DEF Members
<1> QED BY <1>3, <1>4, <1>5, <1>6, Zenon DEF e

LEMMA AddedMember ==
  ASSUME NEW c \in Seq(Allocators), OnePerGroup(c), NEW b \in Allocators,
         \A a \in Members(c) : a.group # b.group
  PROVE  /\ <<b>> \o c \in Seq(Allocators)
         /\ OnePerGroup(<<b>> \o c)
         /\ Members(<<b>> \o c) = {b} \cup Members(c)
<1> DEFINE e == <<b>> \o c
           n == Len(c)
<1>1. n \in Nat /\ DOMAIN c = 1 .. n
  OBVIOUS
<1>2. e \in Seq(Allocators) /\ Len(e) = n + 1
  OBVIOUS
<1>3. e[1] = b /\ \A i \in 1 .. n : e[i + 1] = c[i]
  OBVIOUS
<1> HIDE DEF e, n
<1>4. DOMAIN e = 1 .. n + 1
  BY <1>1, <1>2
<1>5. \A i \in 1 .. n + 1 : i = 1 \/ (i - 1 \in 1 .. n /\ e[i] = c[i - 1] /\ e[i] \in Members(c))
  <2>1. \A i \in 1 .. n : c[i] \in Members(c)
    BY <1>1, Zenon DEF Members
  <2>2. ASSUME NEW i \in 1 .. n + 1, i # 1
        PROVE  i - 1 \in 1 .. n /\ e[i] = c[i - 1]
    <3>1. i - 1 \in 1 .. n /\ (i - 1) + 1 = i
      BY <1>1, <2>2
    <3> QED BY <1>3, <3>1, Zenon
  <2> QED BY <2>1, <2>2, Zenon
<1>6. OnePerGroup(e)
  <2> SUFFICES ASSUME NEW i \in 1 .. n + 1, NEW j \in 1 .. n + 1, e[i].group = e[j].group
               PROVE  i = j
    BY <1>4, Zenon DEF OnePerGroup
  <2>1. CASE i = 1 \/ j = 1
    BY <1>3, <1>5, <2>1, Zenon
  <2>2. CASE i # 1 /\ j # 1
    <3>1. i - 1 \in DOMAIN c /\ j - 1 \in DOMAIN c /\ c[i - 1].group = c[j - 1].group
      BY <1>1, <1>5, <2>2, Zenon
    <3>2. i - 1 = j - 1
      BY <3>1, Zenon DEF OnePerGroup
    <3> QED BY <3>2
  <2> QED BY <2>1, <2>2, Zenon
<1>7. Members(e) = {b} \cup Members(c)
  <2>1. ASSUME NEW a \in Members(e) PROVE a \in {b} \cup Members(c)
    BY <1>3, <1>4, <1>5 DEF Members
  <2>2. b \in Members(e)
    BY <1>1, <1>3, <1>4 DEF Members
  <2>3. ASSUME NEW a \in Members(c) PROVE a \in Members(e)
    <3>1. PICK i \in 1 .. n : a = c[i]
      BY <1>1, Zenon DEF Members
    <3>2. i + 1 \in 1 .. n + 1 /\ e[i + 1] = a
      BY <1>1, <1>3, <3>1
    <3> QED BY <1>4, <3>2, Zenon DEF Members
  <2> QED BY <2>1, <2>2, <2>3, Zenon
<1> QED BY <1>2, <1>6, <1>7, Zenon DEF e

(* A sequence without its element i.                                       *)
LEMMA RemovedMember ==
  ASSUME NEW c \in Seq(Allocators), OnePerGroup(c), NEW i \in DOMAIN c
  PROVE  /\ RemoveAt(c, i) \in Seq(Allocators)
         /\ OnePerGroup(RemoveAt(c, i))
         /\ c[i] \in Members(c) /\ c[i] \in Allocators
         /\ Members(RemoveAt(c, i)) = Members(c) \ {c[i]}
         /\ \A a \in Members(c) : a.group = c[i].group => a = c[i]
<1> DEFINE e == RemoveAt(c, i)
           n == Len(c)
           Old(j) == IF j < i THEN j ELSE j + 1
<1>1. n \in Nat /\ DOMAIN c = 1 .. n /\ i \in 1 .. n /\ i \in 1 .. Len(c) /\ c[i] \in Allocators
  OBVIOUS
<1>2. /\ e \in Seq(Allocators) /\ Len(e) = n - 1
      /\ \A j \in 1 .. n - 1 : e[j] = IF j < i THEN c[j] ELSE c[j + 1]
  BY <1>1, RemoveAtFacts, Zenon
<1> HIDE DEF e
<1>3. DOMAIN e = 1 .. n - 1
  BY <1>1, <1>2
<1> HIDE DEF n
<1>4. \A j \in 1 .. n - 1 : Old(j) \in 1 .. n /\ Old(j) # i /\ e[j] = c[Old(j)]
  <2>1. \A j \in 1 .. n - 1 : Old(j) \in 1 .. n /\ Old(j) # i
    BY <1>1
  <2>2. \A j \in 1 .. n - 1 : e[j] = c[Old(j)]
    BY <1>2, Zenon
  <2> QED BY <2>1, <2>2, Zenon
<1>5. \A j, k \in 1 .. n - 1 : Old(j) = Old(k) => j = k
  BY <1>1
<1>6. \A j \in 1 .. n : j # i => \E k \in 1 .. n - 1 : Old(k) = j
  <2> SUFFICES ASSUME NEW j \in 1 .. n, j # i PROVE \E k \in 1 .. n - 1 : Old(k) = j
    BY Zenon
  <2>1. CASE j < i
    <3>1. j \in 1 .. n - 1 /\ Old(j) = j
      BY <1>1, <2>1
    <3> QED BY <3>1, Zenon
  <2>2. CASE ~(j < i)
    <3>1. j - 1 \in 1 .. n - 1 /\ Old(j - 1) = j
      BY <1>1, <2>2
    <3> QED BY <3>1, Zenon
  <2> QED BY <2>1, <2>2, Zenon
<1> HIDE DEF Old
<1>7. OnePerGroup(e)
  <2> SUFFICES ASSUME NEW j \in 1 .. n - 1, NEW k \in 1 .. n - 1, e[j].group = e[k].group
               PROVE  j = k
    BY <1>3, Zenon DEF OnePerGroup
  <2>1. Old(j) \in DOMAIN c /\ Old(k) \in DOMAIN c /\ c[Old(j)].group = c[Old(k)].group
    BY <1>1, <1>4, Zenon
  <2>2. Old(j) = Old(k)
    BY <2>1, Zenon DEF OnePerGroup
  <2> QED BY <1>5, <2>2, Zenon
<1>8. \A j \in 1 .. n : c[j].group = c[i].group => j = i
  BY <1>1, Zenon DEF OnePerGroup
<1>9. Members(e) = Members(c) \ {c[i]}
  <2>1. ASSUME NEW a \in Members(e) PROVE a \in Members(c) \ {c[i]}
    <3>1. PICK j \in 1 .. n - 1 : a = e[j]
      BY <1>3, Zenon DEF Members
    <3> QED BY <1>1, <1>4, <1>8, <3>1, Zenon DEF Members
  <2>2. ASSUME NEW a \in Members(c) \ {c[i]} PROVE a \in Members(e)
    <3>1. PICK j \in 1 .. n : a = c[j] /\ j # i
      BY <1>1, Zenon DEF Members
    <3>2. PICK k \in 1 .. n - 1 : Old(k) = j
      BY <1>6, <3>1, Zenon
    <3>3. a = e[k]
      BY <1>4, <3>1, <3>2, Zenon
    <3> QED BY <1>3, <3>3, Zenon DEF Members
  <2> QED BY <2>1, <2>2, Zenon
<1>10. /\ c[i] \in Members(c)
       /\ \A a \in Members(c) : a.group = c[i].group => a = c[i]
  BY <1>1, <1>8, Zenon DEF Members
<1> QED BY <1>1, <1>2, <1>7, <1>9, <1>10, Zenon DEF e

LEMMA FrontTail ==
  ASSUME NEW S, NEW c \in Seq(S), c # <<>>
  PROVE  /\ 1 \in DOMAIN c /\ Len(c) \in DOMAIN c
         /\ Tail(c) = RemoveAt(c, 1) /\ Head(c) = c[1]
         /\ Len(Tail(c)) = Len(c) - 1
<1> DEFINE n == Len(c)
<1>1. n \in Nat /\ DOMAIN c = 1 .. n /\ n >= 1
  OBVIOUS
<1>2. SubSeq(c, n + 1, n) = <<>> /\ SubSeq(c, 1, 0) = <<>>
  OBVIOUS
<1>3. SubSeq(c, 1, n - 1) \in Seq(S) /\ SubSeq(c, 2, n) \in Seq(S)
  OBVIOUS
<1>4. \A e \in Seq(S) : e \o <<>> = e /\ <<>> \o e = e
  OBVIOUS
<1>6. RemoveAt(c, 1) = SubSeq(c, 2, n)
  BY <1>2, <1>3, <1>4 DEF RemoveAt
<1>7. Tail(c) = SubSeq(c, 2, n) /\ Len(Tail(c)) = n - 1
  OBVIOUS
<1> QED BY <1>1, <1>6, <1>7

-------------------------------------------------------------------------------
(* The books of a volume, for both kinds.                                  *)
Typed(v) ==
  /\ {"cache", "bitmap", "descriptor", "superblock", "err"} \subseteq DOMAIN v
  /\ v.cache \in [Kinds -> Seq(Allocators)]
  /\ v.bitmap \in [Kinds -> [Groups -> SUBSET Int]]
  /\ v.descriptor \in [Kinds -> [Groups -> Int]]
  /\ v.superblock \in [Kinds -> Int]

Kept(v, k) ==
  /\ OnePerGroup(v.cache[k])
  /\ Balanced(Members(v.cache[k]), v.bitmap[k], v.descriptor[k], v.superblock[k], PerGroup[k])

Books(v) == Typed(v) /\ \A k \in Kinds : Kept(v, k)

(* What changes neither bitmaps nor counters changes no book.              *)
SameBooks(v, w) ==
  /\ DOMAIN w = DOMAIN v
  /\ w.cache = v.cache /\ w.bitmap = v.bitmap
  /\ w.descriptor = v.descriptor /\ w.superblock = v.superblock

LEMMA SameKeeps ==
  ASSUME NEW v, NEW w, Books(v), SameBooks(v, w)
  PROVE  Books(w)
BY Zenon DEF Books, SameBooks, Typed, Kept

(* One component of a function, and one cache of a volume, replaced.       *)
Put(m, k, x) == [m EXCEPT ![k] = x]
PutCache(v, k, c) == [v EXCEPT !.cache[k] = c]

LEMMA KindKeeps ==
  ASSUME NEW v, Books(v), NEW k \in Kinds, NEW w, DOMAIN w = DOMAIN v,
         NEW c \in Seq(Allocators), NEW bm \in [Groups -> SUBSET Int],
         NEW d \in [Groups -> Int], NEW sb \in Int,
         OnePerGroup(c), Balanced(Members(c), bm, d, sb, PerGroup[k]),
         w.cache = Put(v.cache, k, c), w.bitmap = Put(v.bitmap, k, bm),
         w.descriptor = Put(v.descriptor, k, d), w.superblock = Put(v.superblock, k, sb)
  PROVE  Books(w)
<1>1. Typed(w)
  BY DEF Books, Typed, Put
<1>2. ASSUME NEW l \in Kinds PROVE Kept(w, l)
  <2>1. CASE l = k
    BY <2>1, SMTT(30) DEF Books, Typed, Kept, Put
  <2>2. CASE l # k
    BY <2>2 DEF Books, Typed, Kept, Put
  <2> QED BY <2>1, <2>2, Zenon
<1> QED BY <1>1, <1>2, Zenon DEF Books

LEMMA OutcomeKeeps ==
  ASSUME NEW v, Books(v), NEW n, NEW e
  PROVE  Books(Ok(v, n)) /\ Books(Fail(v, e)) /\ Books([v EXCEPT !.err = e])
<1>1. SameBooks(v, Ok(v, n)) /\ SameBooks(v, Fail(v, e)) /\ SameBooks(v, [v EXCEPT !.err = e])
  BY Zenon DEF Books, Typed, SameBooks, Ok, Fail
<1> QED BY <1>1, SameKeeps, Zenon

LEMMA BookFacts ==
  ASSUME NEW v, Books(v), NEW k \in Kinds
  PROVE  /\ Typed(v) /\ "cache" \in DOMAIN v /\ v.cache \in [Kinds -> Seq(Allocators)]
         /\ v.cache[k] \in Seq(Allocators) /\ OnePerGroup(v.cache[k])
         /\ v.bitmap[k] \in [Groups -> SUBSET Int] /\ v.descriptor[k] \in [Groups -> Int]
         /\ v.superblock[k] \in Int /\ PerGroup[k] \in Nat
         /\ Balanced(Members(v.cache[k]), v.bitmap[k], v.descriptor[k], v.superblock[k], PerGroup[k])
<1>1. Typed(v) /\ Kept(v, k)
  BY Zenon DEF Books
<1>2. /\ "cache" \in DOMAIN v /\ v.cache \in [Kinds -> Seq(Allocators)]
      /\ v.cache[k] \in Seq(Allocators)
  BY <1>1, Zenon DEF Typed
<1>3. /\ v.bitmap[k] \in [Groups -> SUBSET Int] /\ v.descriptor[k] \in [Groups -> Int]
      /\ v.superblock[k] \in Int
  BY <1>1, Zenon DEF Typed
<1>4. PerGroup[k] \in Nat
  BY Ext2AllocAssumption, Zenon
<1> QED BY <1>1, <1>2, <1>3, <1>4, Zenon DEF Kept

LEMMA PutCacheFacts ==
  ASSUME NEW v, Typed(v), NEW k \in Kinds, NEW e \in Seq(Allocators), NEW w, w = PutCache(v, k, e)
  PROVE  /\ Typed(w) /\ DOMAIN w = DOMAIN v /\ w.err = v.err /\ w.cache = Put(v.cache, k, e)
         /\ w.bitmap = v.bitmap /\ w.descriptor = v.descriptor /\ w.superblock = v.superblock
<1>1. w = [v EXCEPT !.cache[k] = e]
  BY Zenon DEF PutCache
<1>2. /\ DOMAIN w = DOMAIN v /\ w.err = v.err
      /\ w.bitmap = v.bitmap /\ w.descriptor = v.descriptor /\ w.superblock = v.superblock
  BY <1>1, Zenon DEF Typed
<1>3. w.cache = Put(v.cache, k, e) /\ w.cache \in [Kinds -> Seq(Allocators)]
  BY <1>1 DEF Typed, Put
<1> QED BY <1>2, <1>3, Zenon DEF Typed

(* A cache that balances with the same bitmaps and counters.               *)
LEMMA CacheKeeps ==
  ASSUME NEW v, Books(v), NEW k \in Kinds, NEW e \in Seq(Allocators), OnePerGroup(e),
         Balanced(Members(e), v.bitmap[k], v.descriptor[k], v.superblock[k], PerGroup[k])
  PROVE  Books(PutCache(v, k, e))
<1> DEFINE w == PutCache(v, k, e)
           bm == v.bitmap[k]
           d == v.descriptor[k]
           sb == v.superblock[k]
<1>1. /\ DOMAIN w = DOMAIN v /\ w.cache = Put(v.cache, k, e)
      /\ w.bitmap = v.bitmap /\ w.descriptor = v.descriptor /\ w.superblock = v.superblock
  BY Zenon DEF Books, Typed, Put, PutCache
<1>2. /\ v.bitmap = Put(v.bitmap, k, bm) /\ v.descriptor = Put(v.descriptor, k, d)
      /\ v.superblock = Put(v.superblock, k, sb)
  BY Zenon DEF Books, Typed, Put
<1>3. bm \in [Groups -> SUBSET Int] /\ d \in [Groups -> Int] /\ sb \in Int
  BY BookFacts, Zenon
<1>4. Balanced(Members(e), bm, d, sb, PerGroup[k])
  BY Zenon
<1> HIDE DEF w, bm, d, sb
<1>5. Books(w)
  BY <1>1, <1>2, <1>3, <1>4, KindKeeps, ZenonT(30)
<1> QED BY <1>5, Zenon DEF w

LEMMA AllocatorFacts ==
  ASSUME NEW a \in Allocators
  PROVE  a.group \in Groups /\ a.bits \in SUBSET Int /\ a.diff_usage \in Int /\ a.dirty \in BOOLEAN
BY Zenon DEF Allocators

(* The books are those that CountersExact asks for.                        *)
LEMMA CachedCounts ==
  ASSUME Basics, NEW v, Books(v), NEW k \in Kinds, NEW g \in Groups
  PROVE  /\ Pending(v, k, g) \in Int
         /\ v.descriptor[k][g] \in Int
         /\ v.descriptor[k][g] - Pending(v, k, g) = PerGroup[k] - Cardinality(Bits(v, k, g))
<1> DEFINE c == v.cache[k]
           hit == CachedAt(c, g)
           i == Min(hit)
<1>1. /\ c \in Seq(Allocators) /\ v.descriptor[k][g] \in Int /\ v.bitmap[k] \in [Groups -> SUBSET Int]
      /\ Balanced(Members(c), v.bitmap[k], v.descriptor[k], v.superblock[k], PerGroup[k])
  BY Zenon DEF Books, Typed, Kept
<1>2. /\ hit = {} => Pending(v, k, g) = 0 /\ Bits(v, k, g) = v.bitmap[k][g]
      /\ hit # {} => Pending(v, k, g) = c[i].diff_usage /\ Bits(v, k, g) = c[i].bits
  BY Zenon DEF Pending, Bits
<1>3. CASE hit = {}
  <2>1. \A a \in Members(c) : a.group # g
    BY <1>3, Zenon DEF CachedAt, Members
  <2>2. v.descriptor[k][g] = PerGroup[k] - Cardinality(v.bitmap[k][g])
    BY <1>1, <2>1, Zenon DEF Balanced
  <2> HIDE DEF hit, c
  <2>3. Pending(v, k, g) = 0 /\ Bits(v, k, g) = v.bitmap[k][g]
    BY <1>2, <1>3, ZenonT(30)
  <2>4. v.descriptor[k][g] \in Int /\ v.descriptor[k][g] - 0 = v.descriptor[k][g]
    BY <1>1
  <2> QED BY <2>2, <2>3, <2>4, SMTT(30)
<1>4. CASE hit # {}
  <2>1. hit \in SUBSET Nat /\ \A j \in hit : j \in DOMAIN c /\ c[j].group = g
    <3>1. DOMAIN c \in SUBSET Nat
      BY <1>1
    <3> HIDE DEF c
    <3> QED BY <3>1, Zenon DEF CachedAt
  <2> HIDE DEF hit, c
  <2>2. i \in hit
    BY <1>4, <2>1, MinIsMember, Zenon
  <2> HIDE DEF i
  <2>3. c[i] \in Allocators /\ c[i] \in Members(c) /\ c[i].group = g
    BY <1>1, <2>1, <2>2 DEF Members
  <2>4. c[i].diff_usage \in Int /\ Accounted(c[i], v.bitmap[k], v.descriptor[k], PerGroup[k])
    BY <1>1, <2>3, Zenon DEF Allocators, Balanced
  <2>5. v.descriptor[k][g] - c[i].diff_usage = PerGroup[k] - Cardinality(c[i].bits)
    BY <2>3, <2>4, Zenon DEF Accounted
  <2> QED BY <1>1, <1>2, <1>4, <2>4, <2>5, ZenonT(30) DEF i
<1> QED BY <1>3, <1>4, Zenon

LEMMA BooksCounted ==
  ASSUME Basics, NEW v, Books(v), NEW k \in Kinds
  PROVE  Counted(v, k) /\ CleanIsWritten(v, k)
<1> DEFINE f == v.descriptor[k]
           h == [g \in Groups |-> Pending(v, k, g)]
           e == [g \in Groups |-> PerGroup[k] - Cardinality(Bits(v, k, g))]
<1>1. \A g \in Groups : f[g] \in Int /\ h[g] \in Int /\ e[g] = f[g] - h[g]
  BY CachedCounts, Zenon
<1>2. GroupSum(e) = GroupSum(f) - GroupSum(h)
  <2> HIDE DEF e, f, h
  <2> QED BY <1>1, SumOfDifferences, Zenon
<1>3. v.superblock[k] = GroupSum(f)
  BY Zenon DEF Books, Kept, Balanced
<1>4. Counted(v, k)
  <2>1. \A g \in Groups : v.descriptor[k][g] - Pending(v, k, g) = PerGroup[k] - Cardinality(Bits(v, k, g))
    BY CachedCounts, Zenon
  <2>2. v.superblock[k] - GroupSum(h) = GroupSum(e)
    BY <1>2, <1>3, Zenon
  <2> QED BY <2>1, <2>2, Zenon DEF Counted
<1>5. CleanIsWritten(v, k)
  <2> SUFFICES ASSUME NEW i \in 1 .. Len(v.cache[k]), ~v.cache[k][i].dirty
               PROVE  /\ v.cache[k][i].bits = v.bitmap[k][v.cache[k][i].group]
                      /\ v.cache[k][i].diff_usage = 0
    BY ZenonT(30) DEF CleanIsWritten
  <2>1. v.cache[k] \in Seq(Allocators)
    BY Zenon DEF Books, Typed
  <2>2. v.cache[k][i] \in Members(v.cache[k])
    BY <2>1 DEF Members
  <2>3. Accounted(v.cache[k][i], v.bitmap[k], v.descriptor[k], PerGroup[k])
    BY <2>2, ZenonT(30) DEF Books, Kept, Balanced
  <2> QED BY <2>3, ZenonT(30) DEF Accounted
<1> QED BY <1>4, <1>5, Zenon

(* mkfs starts them.                                                       *)
LEMMA MadeBooks ==
  ASSUME Basics, NEW r, NEW used, NEW v, v = Both(r, Bitmaps(used)),
         {"bitmap", "superblock", "descriptor", "cache", "err"} \cap DOMAIN r = {}
  PROVE  Books(v) /\ v.err = "Ok"
<1> DEFINE on_disk(k, g) ==
             {b \in 0 .. PerGroup[k] - 1 :
                \/ First(k, g) + b \in used[k]
                \/ k = "block" /\ First(k, g) + b >= Past(k, g)
                \/ k = "inode" /\ First(k, g) + b > Total[k]}
           free(k, g) == PerGroup[k] - Cardinality(on_disk(k, g))
           bm == [k \in Kinds |-> [g \in Groups |-> on_disk(k, g)]]
           d == [k \in Kinds |-> [g \in Groups |-> free(k, g)]]
           sb == [k \in Kinds |-> GroupSum([g \in Groups |-> free(k, g)])]
           c == [k \in Kinds |-> <<>>]
<1>1. Bitmaps(used) = [bitmap |-> bm, superblock |-> sb, descriptor |-> d, cache |-> c,
                       err |-> "Ok", ret |-> 0]
  BY ZenonT(30) DEF Bitmaps
<1>2. \A k \in Kinds, g \in Groups :
        on_disk(k, g) \in SUBSET Int /\ IsFiniteSet(on_disk(k, g)) /\ Cardinality(on_disk(k, g)) \in Nat
  <2> SUFFICES ASSUME NEW k \in Kinds, NEW g \in Groups
               PROVE  /\ on_disk(k, g) \in SUBSET Int /\ IsFiniteSet(on_disk(k, g))
                      /\ Cardinality(on_disk(k, g)) \in Nat
    BY Zenon
  <2>1. on_disk(k, g) \subseteq 0 .. PerGroup[k] - 1
    BY Zenon
  <2> HIDE DEF on_disk
  <2>2. PerGroup[k] - 1 \in Int /\ IsFiniteSet(0 .. PerGroup[k] - 1)
    <3> DEFINE m == PerGroup[k] - 1
    <3>1. m \in Int
      BY Ext2AllocAssumption
    <3> HIDE DEF m
    <3>2. IsFiniteSet(0 .. m)
      BY <3>1, Zenon DEF Basics
    <3> QED BY <3>1, <3>2, Zenon DEF m
  <2>3. IsFiniteSet(on_disk(k, g))
    BY <2>1, <2>2, Zenon DEF Basics
  <2>4. Cardinality(on_disk(k, g)) \in Nat
    BY <2>3, Zenon DEF Basics
  <2> QED BY <2>1, <2>2, <2>3, <2>4, SMTT(30)
<1> HIDE DEF on_disk
<1>3. bm \in [Kinds -> [Groups -> SUBSET Int]] /\ d \in [Kinds -> [Groups -> Int]]
  BY <1>2, Ext2AllocAssumption
<1>4. \A k \in Kinds : sb[k] = GroupSum(d[k]) /\ GroupSum(d[k]) \in Int
  <2> SUFFICES ASSUME NEW k \in Kinds PROVE sb[k] = GroupSum(d[k]) /\ GroupSum(d[k]) \in Int
    BY Zenon
  <2>1. sb[k] = GroupSum(d[k])
    BY Zenon
  <2>2. \A g \in Groups : d[k][g] \in Int
    BY <1>3
  <2> HIDE DEF d, sb
  <2>3. GroupSum(d[k]) \in Int
    BY <2>2, SumIsInt, Zenon
  <2> QED BY <2>1, <2>3, Zenon
<1>5. DOMAIN sb = Kinds /\ sb = [k \in Kinds |-> sb[k]] /\ c \in [Kinds -> Seq(Allocators)]
  OBVIOUS
<1>6. \A k \in Kinds, g \in Groups : /\ bm[k][g] = on_disk(k, g) /\ d[k][g] = free(k, g)
  BY Zenon
<1>7. \A k \in Kinds : c[k] = <<>>
  BY Zenon
<1> HIDE DEF bm, d, sb, c
<1>8. /\ v.bitmap = bm /\ v.superblock = sb /\ v.descriptor = d /\ v.cache = c /\ v.err = "Ok"
      /\ {"cache", "bitmap", "descriptor", "superblock", "err"} \subseteq DOMAIN v
  BY <1>1 DEF Both
<1>9. sb \in [Kinds -> Int]
  BY <1>4, <1>5
<1>10. Typed(v)
  BY <1>3, <1>5, <1>8, <1>9, Zenon DEF Typed
<1>11. ASSUME NEW k \in Kinds PROVE Kept(v, k)
  <2>1. OnePerGroup(<<>>) /\ Members(<<>>) = {}
    BY DEF OnePerGroup, Members
  <2>2. Balanced({}, bm[k], d[k], sb[k], PerGroup[k])
    BY <1>2, <1>4, <1>6, ZenonT(30) DEF Balanced
  <2> QED BY <1>7, <1>8, <2>1, <2>2, ZenonT(30) DEF Kept
<1> QED BY <1>8, <1>10, <1>11, Zenon DEF Books

(* An allocator with other bits and another debt.                          *)
Marked(a, B, n) == mark_dirty([a EXCEPT !.bits = B, !.diff_usage = n])

LEMMA Edited ==
  ASSUME NEW a \in Allocators, NEW B \in SUBSET Int, NEW n \in Int
  PROVE  /\ Marked(a, B, n) \in Allocators /\ Marked(a, B, n).group = a.group
         /\ Marked(a, B, n).bits = B /\ Marked(a, B, n).dirty /\ Marked(a, B, n).diff_usage = n
BY ZenonT(30) DEF Marked, mark_dirty, Allocators

LEMMA Shifted ==
  ASSUME NEW x \in Int, NEW d \in Int, NEW p \in Int, NEW c \in Int, x - d = p - c
  PROVE  x - (d + 1) = p - (c + 1) /\ x - (d - 1) = p - (c - 1)
OBVIOUS

(* The allocator in use is replaced by one of its group.                   *)
LEMMA UseKeeps ==
  ASSUME NEW v, Books(v), NEW k \in Kinds, NEW b,
         v.cache[k] # <<>> => /\ b \in Allocators /\ b.group = v.cache[k][1].group
                              /\ Accounted(b, v.bitmap[k], v.descriptor[k], PerGroup[k])
  PROVE  Books([v EXCEPT !.cache[k][1] = b])
<1> DEFINE c == v.cache[k]
           e == [c EXCEPT ![1] = b]
<1>1. /\ c \in Seq(Allocators) /\ OnePerGroup(c)
      /\ Balanced(Members(c), v.bitmap[k], v.descriptor[k], v.superblock[k], PerGroup[k])
  BY BookFacts, Zenon
<1>2. [v EXCEPT !.cache[k][1] = b] = PutCache(v, k, e)
  BY Zenon DEF PutCache
<1>3. CASE c = <<>>
  <2>1. e = c
    BY <1>1, <1>3
  <2> HIDE DEF e, c
  <2>2. Books(PutCache(v, k, c))
    BY <1>1, CacheKeeps, Zenon
  <2> QED BY <1>2, <2>1, <2>2, Zenon
<1>4. CASE c # <<>>
  <2>1. b \in Allocators /\ b.group = c[1].group /\ Accounted(b, v.bitmap[k], v.descriptor[k], PerGroup[k])
    BY <1>4, Zenon
  <2> HIDE DEF c
  <2>2. /\ e \in Seq(Allocators) /\ OnePerGroup(e) /\ c[1] \in Members(c)
        /\ Members(e) = (Members(c) \ {c[1]}) \cup {b}
    BY <1>1, <1>4, <2>1, FirstMember, ZenonT(30)
  <2> HIDE DEF e
  <2>3. Balanced((Members(c) \ {c[1]}) \cup {b}, v.bitmap[k], v.descriptor[k], v.superblock[k], PerGroup[k])
    BY <1>1, <2>1, <2>2, ChangeBalanced, Zenon
  <2>4. Books(PutCache(v, k, e))
    BY <2>2, <2>3, CacheKeeps, ZenonT(30)
  <2> QED BY <1>2, <2>4, Zenon
<1> QED BY <1>3, <1>4, Zenon

LEMMA FirstUnset ==
  ASSUME Basics, NEW k \in Kinds, NEW a, find_first_unset(k, a) # {}
  PROVE  Min(find_first_unset(k, a)) \in Int /\ Min(find_first_unset(k, a)) \notin a.bits
<1> DEFINE unset == BitsOf(k, a.group) \ a.bits
<1>1. unset \in SUBSET Nat
  BY DEF BitsOf
<1>2. unset # {} /\ find_first_unset(k, a) = {Min(unset)}
  BY Zenon DEF find_first_unset
<1> HIDE DEF unset
<1>3. Min(unset) \in unset
  BY <1>1, <1>2, MinIsMember, Zenon
<1>4. {Min(unset)} \in SUBSET Nat /\ {Min(unset)} # {}
  BY <1>1, <1>3, Zenon
<1>5. Min({Min(unset)}) \in {Min(unset)}
  BY <1>4, MinIsMember, Zenon
<1> QED BY <1>1, <1>2, <1>3, <1>5, SMTT(30) DEF unset

LEMMA AllocKeeps ==
  ASSUME Basics, NEW v, Books(v), NEW k \in Kinds
  PROVE  Books(alloc(v, k))
<1> DEFINE a == v.cache[k][1]
           free == find_first_unset(k, a)
           bit == Min(free)
           b == mark_dirty([a EXCEPT !.bits = @ \cup {bit}, !.diff_usage = @ + 1])
           w == [v EXCEPT !.cache[k][1] = b]
<1>1. alloc(v, k) \in {Fail(v, "OutOfSpace"), Ok(w, First(k, a.group) + bit)} /\ (free = {} => alloc(v, k) = Fail(v, "OutOfSpace"))
  BY Zenon DEF alloc
<1>2. ASSUME free # {}, v.cache[k] # <<>>
      PROVE  b \in Allocators /\ b.group = a.group /\ Accounted(b, v.bitmap[k], v.descriptor[k], PerGroup[k])
  <2>1. v.cache[k] \in Seq(Allocators) /\ PerGroup[k] \in Nat /\ v.descriptor[k] \in [Groups -> Int]
    BY BookFacts, Zenon
  <2>2. 1 \in DOMAIN v.cache[k] /\ a \in Allocators
    BY <1>2, <2>1
  <2>3. Accounted(a, v.bitmap[k], v.descriptor[k], PerGroup[k])
    <3>1. a \in Members(v.cache[k])
      BY <2>2, Zenon DEF Members
    <3> QED BY <3>1, BookFacts, Zenon DEF Balanced
  <2>4. bit \in Int /\ bit \notin a.bits
    BY <1>2, FirstUnset, Zenon
  <2> DEFINE B == a.bits \cup {bit}
  <2> HIDE DEF a, bit
  <2>5. a.group \in Groups /\ a.bits \in SUBSET Int /\ a.diff_usage \in Int
    BY <2>2, AllocatorFacts, Zenon
  <2>6. /\ b \in Allocators /\ b.group = a.group /\ b.bits = B /\ b.dirty
        /\ b.diff_usage = a.diff_usage + 1
    <3> DEFINE m == a.diff_usage + 1
    <3>1. b = Marked(a, B, m)
      BY Zenon DEF Marked
    <3>2. B \in SUBSET Int /\ m \in Int
      BY <2>4, <2>5
    <3> HIDE DEF b, B, m
    <3>3. b \in Allocators /\ b.group = a.group /\ b.bits = B /\ b.dirty /\ b.diff_usage = m
      BY <2>2, <3>1, <3>2, Edited
    <3> QED BY <3>3, Zenon DEF m
  <2>7. /\ IsFiniteSet(B) /\ Cardinality(B) = Cardinality(a.bits) + 1
        /\ Cardinality(a.bits) \in Nat
    BY <2>3, <2>4, ZenonT(30) DEF Accounted, Basics
  <2>8. v.descriptor[k][a.group] \in Int /\ v.descriptor[k][a.group] - a.diff_usage = PerGroup[k] - Cardinality(a.bits)
    BY <2>1, <2>3, <2>5, Zenon DEF Accounted
  <2> HIDE DEF b, B
  <2>9. v.descriptor[k][b.group] - b.diff_usage = PerGroup[k] - Cardinality(b.bits)
    <3>1. PerGroup[k] \in Int /\ Cardinality(a.bits) \in Int
      BY <2>1, <2>7, SMTT(30)
    <3>2. v.descriptor[k][a.group] - (a.diff_usage + 1) = PerGroup[k] - (Cardinality(a.bits) + 1)
      BY <2>5, <2>8, <3>1, Shifted, SMTT(30)
    <3> QED BY <2>6, <2>7, <3>2, ZenonT(30)
  <2> QED BY <2>6, <2>7, <2>9, Zenon DEF Accounted
<1>3. ASSUME free # {} PROVE Books(w)
  <2> HIDE DEF b, bit
  <2> QED BY <1>2, <1>3, UseKeeps, Zenon DEF a
<1> HIDE DEF w, bit, a, free
<1> QED BY <1>1, <1>3, OutcomeKeeps, ZenonT(30)

LEMMA DeallocKeeps ==
  ASSUME Basics, NEW v, Books(v), NEW k \in Kinds, NEW n
  PROVE  Books(dealloc(v, k, n))
<1> DEFINE a == v.cache[k][1]
           bit == n - First(k, a.group)
           b == mark_dirty([a EXCEPT !.bits = @ \ {bit}, !.diff_usage = @ - 1])
           w == [v EXCEPT !.cache[k][1] = b]
<1>1. /\ dealloc(v, k, n) \in {Fail(v, "InvalidArgument"), Fail(v, "DriverError"), Ok(w, 0)}
      /\ bit \notin a.bits => dealloc(v, k, n) \in {Fail(v, "InvalidArgument"), Fail(v, "DriverError")}
  BY Zenon DEF dealloc
<1>2. ASSUME bit \in a.bits, v.cache[k] # <<>>
      PROVE  b \in Allocators /\ b.group = a.group /\ Accounted(b, v.bitmap[k], v.descriptor[k], PerGroup[k])
  <2>1. v.cache[k] \in Seq(Allocators) /\ PerGroup[k] \in Nat /\ v.descriptor[k] \in [Groups -> Int]
    BY BookFacts, Zenon
  <2>2. 1 \in DOMAIN v.cache[k] /\ a \in Allocators
    BY <1>2, <2>1, SMTT(30)
  <2>3. Accounted(a, v.bitmap[k], v.descriptor[k], PerGroup[k])
    <3>1. a \in Members(v.cache[k])
      BY <2>2, Zenon DEF Members
    <3> QED BY <3>1, BookFacts, Zenon DEF Balanced
  <2>4. bit \in a.bits
    BY <1>2, Zenon
  <2> DEFINE B == a.bits \ {bit}
  <2> HIDE DEF a, bit
  <2>5. a.group \in Groups /\ a.bits \in SUBSET Int /\ a.diff_usage \in Int
    BY <2>2, AllocatorFacts, Zenon
  <2>6. /\ b \in Allocators /\ b.group = a.group /\ b.bits = B /\ b.dirty
        /\ b.diff_usage = a.diff_usage - 1
    <3> DEFINE m == a.diff_usage - 1
    <3>1. b = Marked(a, B, m)
      BY Zenon DEF Marked
    <3>2. B \in SUBSET Int /\ m \in Int
      BY <2>4, <2>5, SMTT(30)
    <3> HIDE DEF b, B, m
    <3>3. b \in Allocators /\ b.group = a.group /\ b.bits = B /\ b.dirty /\ b.diff_usage = m
      BY <2>2, <3>1, <3>2, Edited
    <3> QED BY <3>3, Zenon DEF m
  <2>7. /\ IsFiniteSet(B) /\ Cardinality(B) = Cardinality(a.bits) - 1
        /\ Cardinality(a.bits) \in Nat
    BY <2>3, <2>4, Zenon DEF Accounted, Basics
  <2>8. v.descriptor[k][a.group] \in Int /\ v.descriptor[k][a.group] - a.diff_usage = PerGroup[k] - Cardinality(a.bits)
    BY <2>1, <2>3, <2>5, Zenon DEF Accounted
  <2> HIDE DEF b, B
  <2>9. v.descriptor[k][b.group] - b.diff_usage = PerGroup[k] - Cardinality(b.bits)
    <3>1. PerGroup[k] \in Int /\ Cardinality(a.bits) \in Int
      BY <2>1, <2>7, SMTT(30)
    <3>2. v.descriptor[k][a.group] - (a.diff_usage - 1) = PerGroup[k] - (Cardinality(a.bits) - 1)
      BY <2>5, <2>8, <3>1, Shifted, SMTT(30)
    <3> QED BY <2>6, <2>7, <3>2, ZenonT(30)
  <2> QED BY <2>6, <2>7, <2>9, ZenonT(30) DEF Accounted
<1>3. ASSUME bit \in a.bits PROVE Books(w)
  <2> HIDE DEF b, bit
  <2> QED BY <1>2, <1>3, UseKeeps, Zenon DEF a
<1> HIDE DEF w, bit, a
<1> QED BY <1>1, <1>3, OutcomeKeeps, ZenonT(30)

-------------------------------------------------------------------------------
(* An allocator that leaves its cache is written back.                     *)
BackupsFit == get_backup_groups(GroupCount) \subseteq Groups

Sound(v) == BackupsFit /\ Books(v) /\ v.err = "Ok"

LEMMA WriteDirtyFacts ==
  ASSUME NEW v, Typed(v), NEW k \in Kinds, NEW a \in Allocators, NEW w, w = write_dirty(v, k, a)
  PROVE  /\ Typed(w) /\ DOMAIN w = DOMAIN v /\ w.err = v.err /\ w.cache = v.cache
         /\ w.descriptor = v.descriptor /\ w.superblock = v.superblock
         /\ w.bitmap = Put(v.bitmap, k, Stored(v.bitmap[k], a))
<1>1. /\ v.bitmap \in [Kinds -> [Groups -> SUBSET Int]] /\ "bitmap" \in DOMAIN v
      /\ a.group \in Groups /\ a.bits \in SUBSET Int
  BY AllocatorFacts, Zenon DEF Typed
<1>2. CASE a.dirty
  <2>1. w = [v EXCEPT !.bitmap[k][a.group] = a.bits]
    BY <1>2, Zenon DEF write_dirty
  <2>2. Stored(v.bitmap[k], a) = [v.bitmap[k] EXCEPT ![a.group] = a.bits]
    BY <1>2, Zenon DEF Stored
  <2>3. /\ DOMAIN w = DOMAIN v /\ w.err = v.err /\ w.cache = v.cache
        /\ w.descriptor = v.descriptor /\ w.superblock = v.superblock
    BY <2>1, Zenon DEF Typed
  <2>4. w.bitmap = Put(v.bitmap, k, [v.bitmap[k] EXCEPT ![a.group] = a.bits])
    BY <1>1, <2>1, Zenon DEF Put
  <2>5. w.bitmap \in [Kinds -> [Groups -> SUBSET Int]]
    BY <1>1, <2>4 DEF Put
  <2> QED BY <2>2, <2>3, <2>4, <2>5, Zenon DEF Typed
<1>3. CASE ~a.dirty
  <2>1. w = v
    BY <1>3, Zenon DEF write_dirty
  <2>2. Stored(v.bitmap[k], a) = v.bitmap[k]
    BY <1>1, <1>3, Zenon DEF Stored
  <2>3. Put(v.bitmap, k, v.bitmap[k]) = v.bitmap
    BY <1>1, Zenon DEF Put
  <2> QED BY <2>1, <2>2, <2>3, Zenon
<1> QED BY <1>2, <1>3, Zenon

LEMMA SuperblockFacts ==
  ASSUME BackupsFit, NEW v, Typed(v), NEW k \in Kinds, NEW n \in Int, NEW w, w = set_superblock(v, k, n)
  PROVE  /\ Typed(w) /\ DOMAIN w = DOMAIN v /\ w.err = v.err /\ w.cache = v.cache
         /\ w.bitmap = v.bitmap /\ w.descriptor = v.descriptor
         /\ w.superblock = Put(v.superblock, k, n)
<1>1. w = [v EXCEPT !.superblock[k] = n]
  BY Zenon DEF set_superblock, BackupsFit
<1>2. /\ DOMAIN w = DOMAIN v /\ w.err = v.err /\ w.cache = v.cache
      /\ w.bitmap = v.bitmap /\ w.descriptor = v.descriptor
  BY <1>1, Zenon DEF Typed
<1>3. w.superblock = Put(v.superblock, k, n) /\ w.superblock \in [Kinds -> Int]
  BY <1>1 DEF Typed, Put
<1> QED BY <1>2, <1>3, Zenon DEF Typed

LEMMA DescriptorFacts ==
  ASSUME NEW v, Typed(v), NEW k \in Kinds, NEW g \in Groups, NEW n \in Int,
         NEW w, w = set_block_group_descriptor(v, k, g, n)
  PROVE  /\ Typed(w) /\ DOMAIN w = DOMAIN v /\ w.err = v.err /\ w.cache = v.cache
         /\ w.bitmap = v.bitmap /\ w.superblock = v.superblock
         /\ w.descriptor = Put(v.descriptor, k, Put(v.descriptor[k], g, n))
<1>1. w = [v EXCEPT !.descriptor[k][g] = n]
  BY Zenon DEF set_block_group_descriptor
<1>2. /\ DOMAIN w = DOMAIN v /\ w.err = v.err /\ w.cache = v.cache
      /\ w.bitmap = v.bitmap /\ w.superblock = v.superblock
  BY <1>1, Zenon DEF Typed
<1>3. "descriptor" \in DOMAIN v /\ v.descriptor \in [Kinds -> [Groups -> Int]]
  BY Zenon DEF Typed
<1>4. w.descriptor = Put(v.descriptor, k, Put(v.descriptor[k], g, n))
  BY <1>1, <1>3, Zenon DEF Put
<1>5. w.descriptor \in [Kinds -> [Groups -> Int]]
  BY <1>3, <1>4 DEF Put
<1> QED BY <1>2, <1>4, <1>5, Zenon DEF Typed

(* What is written of an allocator: its bits, and its debt.                *)
Evicted(v, k, a, w) ==
  /\ DOMAIN w = DOMAIN v /\ w.err = "Ok" /\ w.cache = v.cache
  /\ w.bitmap = Put(v.bitmap, k, Stored(v.bitmap[k], a))
  /\ w.descriptor = Put(v.descriptor, k, Repaid(v.descriptor[k], a))
  /\ w.superblock = Put(v.superblock, k, v.superblock[k] - a.diff_usage)

LEMMA EvictResult ==
  ASSUME NEW v, Typed(v), v.err = "Ok", BackupsFit, NEW k \in Kinds, NEW a \in Allocators
  PROVE  Evicted(v, k, a, handle_evicted(v, k, a))
<1> DEFINE w == write_dirty(v, k, a)
           m == v.superblock[k] - a.diff_usage
           x == set_superblock(w, k, m)
           n == v.descriptor[k][a.group] - a.diff_usage
           y == set_block_group_descriptor(x, k, a.group, n)
<1>1. m \in Int /\ n \in Int /\ a.group \in Groups
  BY AllocatorFacts DEF Typed
<1>w. w = write_dirty(v, k, a) /\ x = set_superblock(w, k, m)
      /\ y = set_block_group_descriptor(x, k, a.group, n)
  BY Zenon
<1> HIDE DEF w, m, n, x, y
<1>2. /\ Typed(w) /\ DOMAIN w = DOMAIN v /\ w.err = "Ok" /\ w.cache = v.cache
      /\ w.descriptor = v.descriptor /\ w.superblock = v.superblock
      /\ w.bitmap = Put(v.bitmap, k, Stored(v.bitmap[k], a))
  BY <1>w, WriteDirtyFacts, SMTT(30)
<1>3. /\ Typed(x) /\ DOMAIN x = DOMAIN w /\ x.err = w.err /\ x.cache = w.cache
      /\ x.bitmap = w.bitmap /\ x.descriptor = w.descriptor /\ x.superblock = Put(w.superblock, k, m)
  BY <1>1, <1>2, <1>w, SuperblockFacts, SMTT(30)
<1>4. handle_evicted(v, k, a) = y
  <2>1. handle_evicted(v, k, a) = AddDiff(w, k, a)
    BY <1>w, Zenon DEF handle_evicted
  <2>2. x = set_superblock(w, k, w.superblock[k] - a.diff_usage)
    BY <1>2, <1>w, Zenon DEF m
  <2>3. y = set_block_group_descriptor(x, k, a.group, x.descriptor[k][a.group] - a.diff_usage)
    BY <1>2, <1>3, <1>w, Zenon DEF n
  <2>4. AddDiff(w, k, a) = y
    BY <1>2, <1>3, <2>2, <2>3, ZenonT(30) DEF AddDiff, Then
  <2> QED BY <2>1, <2>4, Zenon
<1>5. /\ DOMAIN y = DOMAIN x /\ y.err = x.err /\ y.cache = x.cache
      /\ y.bitmap = x.bitmap /\ y.superblock = x.superblock
      /\ y.descriptor = Put(x.descriptor, k, Put(x.descriptor[k], a.group, n))
  BY <1>1, <1>3, <1>w, DescriptorFacts, SMTT(30)
<1>6. Put(v.descriptor[k], a.group, n) = Repaid(v.descriptor[k], a)
  BY Zenon DEF Put, Repaid, n
<1> QED BY <1>2, <1>3, <1>4, <1>5, <1>6, ZenonT(30) DEF Evicted, m

LEMMA EvictKeeps ==
  ASSUME Basics, NEW v, Sound(v), NEW k \in Kinds, NEW c \in Seq(Allocators), OnePerGroup(c),
         NEW a \in Allocators, \A b \in Members(c) : b.group # a.group,
         Balanced(Members(c) \cup {a}, v.bitmap[k], v.descriptor[k], v.superblock[k], PerGroup[k])
  PROVE  /\ Sound(handle_evicted(PutCache(v, k, c), k, a))
         /\ handle_evicted(PutCache(v, k, c), k, a).cache[k] = c
<1> DEFINE x == PutCache(v, k, c)
           w == handle_evicted(x, k, a)
           bm == Stored(v.bitmap[k], a)
           d == Repaid(v.descriptor[k], a)
           sb == v.superblock[k] - a.diff_usage
<1>1. Books(v) /\ BackupsFit /\ v.err = "Ok"
  BY Zenon DEF Sound
<1>2. /\ Typed(v) /\ v.cache \in [Kinds -> Seq(Allocators)]
      /\ v.bitmap[k] \in [Groups -> SUBSET Int] /\ v.descriptor[k] \in [Groups -> Int]
      /\ v.superblock[k] \in Int /\ PerGroup[k] \in Nat
  BY <1>1, BookFacts, Zenon
<1>3. a.group \in Groups /\ a.diff_usage \in Int /\ a.bits \in SUBSET Int
  BY AllocatorFacts, ZenonT(30)
<1>x. x = PutCache(v, k, c)
  BY ZenonT(30)
<1> HIDE DEF x
<1>4. /\ Typed(x) /\ x.err = "Ok" /\ DOMAIN x = DOMAIN v
      /\ x.cache = Put(v.cache, k, c) /\ x.bitmap = v.bitmap
      /\ x.descriptor = v.descriptor /\ x.superblock = v.superblock
  BY <1>1, <1>2, <1>x, PutCacheFacts, SMTT(30)
<1>5. Evicted(x, k, a, w)
  BY <1>1, <1>4, EvictResult, Zenon
<1> HIDE DEF w
<1>6. /\ DOMAIN w = DOMAIN v /\ w.err = "Ok" /\ w.cache = Put(v.cache, k, c)
      /\ w.bitmap = Put(v.bitmap, k, bm) /\ w.descriptor = Put(v.descriptor, k, d)
      /\ w.superblock = Put(v.superblock, k, sb)
  BY <1>4, <1>5, Zenon DEF Evicted
<1>7. Balanced(Members(c), bm, d, sb, PerGroup[k])
  <2> DEFINE A == Members(c) \cup {a}
  <2>1. A \in SUBSET Allocators
    BY DEF Members
  <2>2. /\ a \in A /\ A \ {a} = Members(c)
        /\ \A b \in A : b.group = a.group => b = a
    BY ZenonT(30)
  <2>3. PerGroup[k] \in Int
    BY <1>2
  <2>4. Balanced(A, v.bitmap[k], v.descriptor[k], v.superblock[k], PerGroup[k])
    BY Zenon
  <2> HIDE DEF A, bm, d, sb
  <2>5. Balanced(A \ {a}, bm, d, sb, PerGroup[k])
    BY <1>2, <1>3, <2>1, <2>2, <2>3, <2>4, EvictBalanced, ZenonT(30) DEF bm, d, sb
  <2> QED BY <2>2, <2>5, ZenonT(30)
<1>8. bm \in [Groups -> SUBSET Int]
  BY <1>2, <1>3, ZenonT(30) DEF Stored
<1>9. d \in [Groups -> Int]
  BY <1>2, <1>3, SMTT(30) DEF Repaid
<1>10. sb \in Int
  BY <1>2, <1>3
<1> HIDE DEF bm, d, sb
<1>11. Books(w)
  BY <1>1, <1>6, <1>7, <1>8, <1>9, <1>10, KindKeeps, ZenonT(30)
<1>12. w.cache[k] = c
  BY <1>2, <1>6, Zenon DEF Put
<1> QED BY <1>1, <1>6, <1>11, <1>12, Zenon DEF Sound, x, w

(* get_block_allocator_for_group and its twin.                             *)
LEMMA ForGroupKeeps ==
  ASSUME Basics, NEW v, Sound(v), NEW k \in Kinds, NEW g
  PROVE  Books(allocator_for_group(v, k, g))
<1> DEFINE c == v.cache[k]
           i == Min(CachedAt(c, g))
           fresh == new(g, v.bitmap[k][g])
           moved == PutCache(v, k, <<c[i]>> \o RemoveAt(c, i))
           added == PutCache(v, k, <<fresh>> \o c)
           full == handle_evicted(PutCache(v, k, <<fresh>> \o RemoveAt(c, Len(c))), k, c[Len(c)])
           r == allocator_for_group(v, k, g)
<1>0. Books(v)
  BY Zenon DEF Sound
<1>1. /\ c \in Seq(Allocators) /\ v.bitmap[k] \in [Groups -> SUBSET Int]
      /\ v.descriptor[k] \in [Groups -> Int] /\ v.superblock[k] \in Int
  BY <1>0, BookFacts, Zenon
<1>2. /\ OnePerGroup(c)
      /\ Balanced(Members(c), v.bitmap[k], v.descriptor[k], v.superblock[k], PerGroup[k])
  BY <1>0, BookFacts, Zenon
<1>3. /\ g \notin Groups => r = Fail(v, "DriverError")
      /\ g \in Groups /\ CachedAt(c, g) # {} => r = moved
      /\ g \in Groups /\ CachedAt(c, g) = {} => r \in {added, full}
      /\ g \in Groups /\ CachedAt(c, g) = {} /\ c = <<>> => r = added
  <2>1. c = <<>> => Len(c) < CacheSize
    BY Ext2AllocAssumption
  <2> QED BY <2>1, Zenon DEF allocator_for_group, PutCache
<1> HIDE DEF r
<1>4. ASSUME NEW e \in Seq(Allocators), OnePerGroup(e),
             Balanced(Members(e), v.bitmap[k], v.descriptor[k], v.superblock[k], PerGroup[k])
      PROVE  Books(PutCache(v, k, e))
  BY <1>0, <1>4, CacheKeeps, Zenon
<1>5. CASE g \notin Groups
  <2>1. r = Fail(v, "DriverError")
    BY <1>3, <1>5, Zenon
  <2> QED BY <1>0, <2>1, OutcomeKeeps, ZenonT(30) DEF r
<1>6. CASE g \in Groups /\ CachedAt(c, g) # {}
  <2> HIDE DEF c
  <2>1. i \in DOMAIN c
    <3>1. CachedAt(c, g) \in SUBSET Nat /\ CachedAt(c, g) \subseteq DOMAIN c
      BY <1>1 DEF CachedAt
    <3>2. i \in CachedAt(c, g)
      BY <1>6, <3>1, MinIsMember, Zenon
    <3> QED BY <3>1, <3>2, ZenonT(30)
  <2> DEFINE t == RemoveAt(c, i)
             b == c[i]
  <2> HIDE DEF i
  <2>2. /\ t \in Seq(Allocators) /\ OnePerGroup(t) /\ b \in Members(c) /\ b \in Allocators
        /\ Members(t) = Members(c) \ {b} /\ \A a \in Members(c) : a.group = b.group => a = b
    BY <1>1, <1>2, <2>1, RemovedMember, Zenon
  <2> HIDE DEF t, b
  <2>3. /\ <<b>> \o t \in Seq(Allocators) /\ OnePerGroup(<<b>> \o t)
        /\ Members(<<b>> \o t) = {b} \cup Members(t)
    <3>1. \A a \in Members(t) : a.group # b.group
      BY <2>2, Zenon
    <3> QED BY <2>2, <3>1, AddedMember, Zenon
  <2>4. Members(<<b>> \o t) = Members(c)
    BY <2>2, <2>3, Zenon
  <2>5. Books(PutCache(v, k, <<b>> \o t))
    BY <1>2, <1>4, <2>3, <2>4, ZenonT(30)
  <2>6. moved = PutCache(v, k, <<b>> \o t) /\ r = moved
    BY <1>3, <1>6, Zenon DEF t, b
  <2> HIDE DEF moved
  <2> QED BY <2>5, <2>6, Zenon DEF r
<1>7. CASE g \in Groups /\ CachedAt(c, g) = {}
  <2>1. fresh \in Allocators /\ fresh.group = g
    BY <1>1, <1>7 DEF new, Allocators
  <2>2. \A a \in Members(c) : a.group # g
    BY <1>7, Zenon DEF CachedAt, Members
  <2>3. Balanced({fresh} \cup Members(c), v.bitmap[k], v.descriptor[k], v.superblock[k], PerGroup[k])
    BY <1>1, <1>2, <1>7, <2>2, ReadBalanced, ZenonT(30)
  <2> HIDE DEF fresh, c
  <2>4. Books(added)
    <3>1. /\ <<fresh>> \o c \in Seq(Allocators) /\ OnePerGroup(<<fresh>> \o c)
          /\ Members(<<fresh>> \o c) = {fresh} \cup Members(c)
      BY <1>1, <1>2, <2>1, <2>2, AddedMember, ZenonT(30)
    <3> QED BY <1>4, <2>3, <3>1, ZenonT(30)
  <2>5. ASSUME c # <<>> PROVE Books(full)
    <3> DEFINE n == Len(c)
               t == RemoveAt(c, n)
               b == c[n]
               e == <<fresh>> \o t
    <3>1. n \in DOMAIN c
      BY <1>1, <2>5, FrontTail, Zenon
    <3> HIDE DEF n
    <3>2. /\ t \in Seq(Allocators) /\ OnePerGroup(t) /\ b \in Members(c) /\ b \in Allocators
          /\ Members(t) = Members(c) \ {b} /\ \A a \in Members(c) : a.group = b.group => a = b
      BY <1>1, <1>2, <3>1, RemovedMember, ZenonT(30)
    <3> HIDE DEF t, b
    <3>3. /\ e \in Seq(Allocators) /\ OnePerGroup(e) /\ Members(e) = {fresh} \cup Members(t)
      <4>1. \A a \in Members(t) : a.group # fresh.group
        BY <2>1, <2>2, <3>2, Zenon
      <4> QED BY <2>1, <3>2, <4>1, AddedMember, ZenonT(30)
    <3> HIDE DEF e
    <3>4. \A a \in Members(e) : a.group # b.group
      BY <2>1, <2>2, <3>2, <3>3, Zenon
    <3>5. Members(e) \cup {b} = {fresh} \cup Members(c)
      BY <3>2, <3>3, Zenon
    <3>6. Sound(handle_evicted(PutCache(v, k, e), k, b))
      BY <2>3, <3>2, <3>3, <3>4, <3>5, EvictKeeps, ZenonT(30)
    <3>7. full = handle_evicted(PutCache(v, k, e), k, b)
      BY Zenon DEF e, t, b, n
    <3> HIDE DEF full
    <3> QED BY <3>6, <3>7, Zenon DEF Sound
  <2> HIDE DEF added, full
  <2>6. CASE c = <<>>
    BY <1>3, <1>7, <2>4, <2>6, ZenonT(30) DEF r
  <2>7. CASE c # <<>>
    <3>1. r \in {added, full}
      BY <1>3, <1>7, ZenonT(30)
    <3> QED BY <2>4, <2>5, <2>7, <3>1, Zenon DEF r
  <2> QED BY <2>6, <2>7, ZenonT(30)
<1> QED BY <1>5, <1>6, <1>7, Zenon

(* alloc_any asks one group after the other.                                *)
LEMMA AnyRuns ==
  ASSUME Basics, NEW v, NEW k_
  PROVE  \E acc :
           /\ acc[0] = Fail(v, "OutOfSpace")
           /\ \A k \in 0 .. GroupCount - 1 : acc[k + 1] = TryGroup(acc[k], k_, k)
           /\ alloc_any(v, k_) = acc[GroupCount]
<1> DEFINE Body(it, m) == [k \in 0 .. m |-> IF k = 0 THEN Fail(v, "OutOfSpace") ELSE TryGroup(it[k - 1], k_, k - 1)]
           T == {m \in Nat : \E it : it = Body(it, m)}
<1>1. 0 \in T
  <2> DEFINE it == [k \in 0 .. 0 |-> Fail(v, "OutOfSpace")]
  <2>1. it = Body(it, 0)
    BY SMTT(30)
  <2> QED BY <2>1, ZenonT(30)
<1>2. ASSUME NEW m \in Nat, m \in T PROVE m + 1 \in T
  <2>1. PICK it : it = Body(it, m)
    <3> HIDE DEF Body
    <3> QED BY <1>2, Zenon
  <2> DEFINE g == [k \in 0 .. m + 1 |-> IF k = m + 1 THEN TryGroup(it[m], k_, m) ELSE it[k]]
  <2>2. ASSUME NEW k \in 0 .. m + 1
        PROVE  g[k] = IF k = 0 THEN Fail(v, "OutOfSpace") ELSE TryGroup(g[k - 1], k_, k - 1)
    <3>1. CASE k = m + 1
      <4>1. m \in 0 .. m + 1 /\ m # m + 1 /\ k - 1 = m /\ k # 0
        BY <3>1
      <4>2. g[k] = TryGroup(it[m], k_, m) /\ g[m] = it[m]
        BY <3>1, <4>1, Zenon
      <4> HIDE DEF g
      <4> QED BY <3>1, <4>1, <4>2, Zenon
    <3>2. CASE k # m + 1
      <4>1. k \in 0 .. m /\ (k # 0 => k - 1 \in 0 .. m + 1 /\ k - 1 # m + 1)
        BY <3>2
      <4>2. g[k] = it[k] /\ (k # 0 => g[k - 1] = it[k - 1])
        BY <3>2, <4>1, Zenon
      <4>3. it[k] = IF k = 0 THEN Fail(v, "OutOfSpace") ELSE TryGroup(it[k - 1], k_, k - 1)
        BY <2>1, <4>1, Zenon
      <4> HIDE DEF g
      <4> QED BY <4>2, <4>3, Zenon
    <3> QED BY <3>1, <3>2
  <2>3. g = Body(g, m + 1)
    <3>1. g = [k \in 0 .. m + 1 |-> g[k]]
      BY SMTT(30)
    <3> HIDE DEF g
    <3> QED BY <2>2, <3>1, Zenon
  <2> HIDE DEF g, Body
  <2>4. \E it_ : it_ = Body(it_, m + 1)
    BY <2>3, Zenon
  <2> QED BY <2>4
<1>3. GroupCount \in T
  <2> DEFINE N == GroupCount
  <2>1. N \in Nat
    BY Ext2AllocAssumption, Zenon
  <2> HIDE DEF T, N
  <2>2. \A k \in 0 .. N : k \in T
    BY <1>1, <1>2, <2>1, Ascends
  <2> QED BY <2>1, <2>2 DEF N
<1> DEFINE acc == CHOOSE it : it = Body(it, GroupCount)
<1>4. acc = Body(acc, GroupCount)
  BY <1>3, Zenon
<1>5. alloc_any(v, k_) = acc[GroupCount]
  BY Zenon DEF alloc_any
<1> HIDE DEF acc
<1>6. acc[0] = Fail(v, "OutOfSpace") /\ GroupCount \in Nat
  BY <1>3, <1>4
<1>7. ASSUME NEW k \in 0 .. GroupCount - 1 PROVE acc[k + 1] = TryGroup(acc[k], k_, k)
  <2>1. k + 1 \in 0 .. GroupCount /\ k + 1 # 0 /\ (k + 1) - 1 = k
    BY <1>6
  <2> QED BY <1>4, <2>1, ZenonT(30)
<1> QED BY <1>5, <1>6, <1>7, Zenon



(* alloc_block_any and alloc_inode_any.                                    *)
LEMMA AnyKeeps ==
  ASSUME Basics, NEW v, Books(v), BackupsFit, NEW k \in Kinds
  PROVE  Books(alloc_any(v, k))
<1>1. PICK acc : /\ acc[0] = Fail(v, "OutOfSpace")
                 /\ \A n \in 0 .. GroupCount - 1 : acc[n + 1] = TryGroup(acc[n], k, n)
                 /\ alloc_any(v, k) = acc[GroupCount]
  BY AnyRuns, Zenon
<1>2. ASSUME NEW w, Books(w), NEW g PROVE Books(TryGroup(w, k, g))
  <2> DEFINE x == [w EXCEPT !.err = "Ok"]
             y == allocator_for_group(x, k, g)
  <2>1. TryGroup(w, k, g) \in {w, y, alloc(y, k)}
    BY Zenon DEF TryGroup, Then
  <2>2. Books(x) /\ x.err = "Ok"
    BY <1>2, OutcomeKeeps, Zenon DEF Books, Typed
  <2> HIDE DEF x
  <2>3. Books(y)
    BY <2>2, ForGroupKeeps, Zenon DEF Sound
  <2> HIDE DEF y
  <2>4. Books(alloc(y, k))
    BY <2>3, AllocKeeps, Zenon
  <2> QED BY <1>2, <2>1, <2>3, <2>4, Zenon
<1>3. GroupCount \in Nat
  BY Ext2AllocAssumption, Zenon
<1> DEFINE T == {n \in Nat : Books(acc[n])}
<1>4. 0 \in T
  BY <1>1, OutcomeKeeps, ZenonT(30)
<1>5. \A n \in 0 .. GroupCount - 1 : n \in T => n + 1 \in T
  BY <1>1, <1>2
<1>6. \A n \in 0 .. GroupCount : n \in T
  <2> HIDE DEF T
  <2> QED BY <1>3, <1>4, <1>5, Ascends, Zenon
<1> QED BY <1>1, <1>3, <1>6, SMTT(30)

(* FlushKind takes one allocator after the other out of its cache.            *)
LEMMA FlushRuns ==
  ASSUME Basics, NEW v, NEW k_, Len(v.cache[k_]) \in Nat
  PROVE  \E acc :
           /\ acc[0] = v
           /\ \A k \in 0 .. Len(v.cache[k_]) - 1 : acc[k + 1] = FlushNext(acc[k], k_)
           /\ FlushKind(v, k_) = acc[Len(v.cache[k_])]
<1> DEFINE Body(it, m) == [k \in 0 .. m |-> IF k = 0 THEN v ELSE FlushNext(it[k - 1], k_)]
           T == {m \in Nat : \E it : it = Body(it, m)}
<1>1. 0 \in T
  <2> DEFINE it == [k \in 0 .. 0 |-> v]
  <2>1. it = Body(it, 0)
    OBVIOUS
  <2> QED BY <2>1, Zenon
<1>2. ASSUME NEW m \in Nat, m \in T PROVE m + 1 \in T
  <2>1. PICK it : it = Body(it, m)
    <3> HIDE DEF Body
    <3> QED BY <1>2, Zenon
  <2> DEFINE g == [k \in 0 .. m + 1 |-> IF k = m + 1 THEN FlushNext(it[m], k_) ELSE it[k]]
  <2>2. ASSUME NEW k \in 0 .. m + 1
        PROVE  g[k] = IF k = 0 THEN v ELSE FlushNext(g[k - 1], k_)
    <3>1. CASE k = m + 1
      <4>1. m \in 0 .. m + 1 /\ m # m + 1 /\ k - 1 = m /\ k # 0
        BY <3>1
      <4>2. g[k] = FlushNext(it[m], k_) /\ g[m] = it[m]
        BY <3>1, <4>1, Zenon
      <4> HIDE DEF g
      <4> QED BY <3>1, <4>1, <4>2, Zenon
    <3>2. CASE k # m + 1
      <4>1. k \in 0 .. m /\ (k # 0 => k - 1 \in 0 .. m + 1 /\ k - 1 # m + 1)
        BY <3>2
      <4>2. g[k] = it[k] /\ (k # 0 => g[k - 1] = it[k - 1])
        BY <3>2, <4>1, Zenon
      <4>3. it[k] = IF k = 0 THEN v ELSE FlushNext(it[k - 1], k_)
        BY <2>1, <4>1, Zenon
      <4> HIDE DEF g
      <4> QED BY <4>2, <4>3, Zenon
    <3> QED BY <3>1, <3>2, Zenon
  <2>3. g = Body(g, m + 1)
    <3>1. g = [k \in 0 .. m + 1 |-> g[k]]
      BY Zenon
    <3> HIDE DEF g
    <3> QED BY <2>2, <3>1, Zenon
  <2> HIDE DEF g, Body
  <2>4. \E it_ : it_ = Body(it_, m + 1)
    BY <2>3, Zenon
  <2> QED BY <2>4
<1>3. Len(v.cache[k_]) \in T
  <2> DEFINE N == Len(v.cache[k_])
  <2>1. N \in Nat
    BY Zenon
  <2> HIDE DEF T, N
  <2>2. \A k \in 0 .. N : k \in T
    BY <1>1, <1>2, <2>1, Ascends, SMTT(30)
  <2> QED BY <2>1, <2>2 DEF N
<1> DEFINE acc == CHOOSE it : it = Body(it, Len(v.cache[k_]))
<1>4. acc = Body(acc, Len(v.cache[k_]))
  BY <1>3, Zenon
<1>5. FlushKind(v, k_) = acc[Len(v.cache[k_])]
  BY Zenon DEF FlushKind
<1> HIDE DEF acc
<1>6. acc[0] = v /\ Len(v.cache[k_]) \in Nat
  BY <1>3, <1>4
<1>7. ASSUME NEW k \in 0 .. Len(v.cache[k_]) - 1 PROVE acc[k + 1] = FlushNext(acc[k], k_)
  <2>1. k + 1 \in 0 .. Len(v.cache[k_]) /\ k + 1 # 0 /\ (k + 1) - 1 = k
    BY <1>6, SMTT(30)
  <2> QED BY <1>4, <2>1, Zenon
<1> QED BY <1>5, <1>6, <1>7, Zenon


LEMMA FlushNextKeeps ==
  ASSUME Basics, NEW v, Sound(v), NEW k \in Kinds, v.cache[k] # <<>>
  PROVE  Sound(FlushNext(v, k)) /\ FlushNext(v, k).cache[k] = Tail(v.cache[k])
<1> DEFINE c == v.cache[k]
           t == Tail(c)
           b == Head(c)
<1>1. /\ FlushNext(v, k) = handle_evicted(PutCache(v, k, t), k, b)
      /\ c \in Seq(Allocators) /\ OnePerGroup(c)
      /\ Balanced(Members(c), v.bitmap[k], v.descriptor[k], v.superblock[k], PerGroup[k])
  <2>1. /\ c \in Seq(Allocators) /\ OnePerGroup(c) /\ DOMAIN v.cache = Kinds /\ "cache" \in DOMAIN v
        /\ Balanced(Members(c), v.bitmap[k], v.descriptor[k], v.superblock[k], PerGroup[k])
    BY Zenon DEF Sound, Books, Typed, Kept
  <2>2. [v EXCEPT !.cache[k] = Tail(@)] = PutCache(v, k, t)
    BY <2>1, Zenon DEF PutCache
  <2>3. FlushNext(v, k) = handle_evicted([v EXCEPT !.cache[k] = Tail(@)], k, b)
    BY Zenon DEF FlushNext, Then, Sound
  <2> QED BY <2>1, <2>2, <2>3, Zenon
<1> HIDE DEF c
<1>2. 1 \in DOMAIN c /\ t = RemoveAt(c, 1) /\ b = c[1]
  BY <1>1, FrontTail, ZenonT(30) DEF c
<1> HIDE DEF t, b
<1>3. /\ t \in Seq(Allocators) /\ OnePerGroup(t) /\ b \in Members(c) /\ b \in Allocators
      /\ Members(t) = Members(c) \ {b} /\ \A a \in Members(c) : a.group = b.group => a = b
  BY <1>1, <1>2, RemovedMember, Zenon
<1>4. Members(t) \cup {b} = Members(c) /\ \A a \in Members(t) : a.group # b.group
  BY <1>3, Zenon
<1>5. /\ Sound(handle_evicted(PutCache(v, k, t), k, b))
      /\ handle_evicted(PutCache(v, k, t), k, b).cache[k] = t
  <2>1. Balanced(Members(t) \cup {b}, v.bitmap[k], v.descriptor[k], v.superblock[k], PerGroup[k])
    BY <1>1, <1>4, Zenon
  <2>2. /\ t \in Seq(Allocators) /\ OnePerGroup(t) /\ b \in Allocators
        /\ \A a \in Members(t) : a.group # b.group
    BY <1>3, <1>4, Zenon
  <2> QED BY <2>1, <2>2, EvictKeeps, ZenonT(30)
<1> QED BY <1>1, <1>5, Zenon DEF c, t

LEMMA FlushKindKeeps ==
  ASSUME Basics, NEW v, Sound(v), NEW k \in Kinds
  PROVE  Sound(FlushKind(v, k))
<1> DEFINE L == Len(v.cache[k])
<1>1. ASSUME NEW w, Sound(w) PROVE w.cache[k] \in Seq(Allocators)
  BY <1>1, Zenon DEF Sound, Books, Typed
<1>2. L \in Nat
  BY <1>1
<1>3. PICK acc : /\ acc[0] = v
                 /\ \A n \in 0 .. L - 1 : acc[n + 1] = FlushNext(acc[n], k)
                 /\ FlushKind(v, k) = acc[L]
  BY <1>2, FlushRuns
<1> DEFINE T == {n \in Nat : Sound(acc[n]) /\ Len(acc[n].cache[k]) = L - n}
<1>4. 0 \in T
  BY <1>2, <1>3
<1>5. ASSUME NEW n \in 0 .. L - 1, n \in T PROVE n + 1 \in T
  <2> DEFINE w == acc[n]
  <2>1. Sound(w) /\ Len(w.cache[k]) = L - n /\ w.cache[k] \in Seq(Allocators)
    BY <1>1, <1>5, Zenon
  <2>2. w.cache[k] # <<>>
    BY <1>2, <2>1, SMTT(30)
  <2>3. acc[n + 1] = FlushNext(w, k)
    BY <1>3, Zenon
  <2> HIDE DEF w
  <2>4. Sound(acc[n + 1]) /\ acc[n + 1].cache[k] = Tail(w.cache[k])
    BY <2>1, <2>2, <2>3, FlushNextKeeps, Zenon
  <2>5. Len(Tail(w.cache[k])) = Len(w.cache[k]) - 1
    BY <2>1, <2>2, FrontTail, ZenonT(30)
  <2> HIDE DEF L
  <2>6. Len(acc[n + 1].cache[k]) = L - (n + 1)
    BY <1>2, <2>1, <2>4, <2>5, SMTT(30)
  <2>7. n + 1 \in Nat
    OBVIOUS
  <2> QED BY <2>4, <2>6, <2>7, ZenonT(30)
<1> HIDE DEF L
<1>6. \A n \in 0 .. L : n \in T
  <2> HIDE DEF T
  <2> QED BY <1>2, <1>4, <1>5, Ascends, Zenon
<1> QED BY <1>2, <1>3, <1>6

LEMMA FlushKeeps ==
  ASSUME Basics, NEW v, Sound(v)
  PROVE  Sound(volume_flush(v))
<1> DEFINE w == FlushKind(v, "block")
<1>1. "block" \in Kinds /\ "inode" \in Kinds
  BY Zenon DEF Kinds
<1>2. Sound(w)
  BY <1>1, FlushKindKeeps, Zenon
<1>3. volume_flush(v) \in {w, FlushKind(w, "inode")}
  BY Zenon DEF volume_flush, Then
<1> HIDE DEF w
<1>4. Sound(FlushKind(w, "inode"))
  BY <1>1, <1>2, FlushKindKeeps, Zenon
<1> QED BY <1>2, <1>3, <1>4, Zenon

-------------------------------------------------------------------------------
(* A session: every operation of a handle leaves the books in order.       *)
Sess(s) == "vol" \in DOMAIN s /\ Sound(s.vol)

LEMMA PlainKeeps ==
  ASSUME NEW s, Sess(s), NEW t, DOMAIN t = DOMAIN s, t.vol = s.vol
  PROVE  Sess(t)
BY Zenon DEF Sess

LEMMA QuietKeeps ==
  ASSUME NEW s, Sess(s), NEW t, DOMAIN t = DOMAIN s, SameBooks(s.vol, t.vol), t.vol.err = s.vol.err
  PROVE  Sess(t)
BY SameKeeps, Zenon DEF Sess, Sound

LEMMA VolKeeps ==
  ASSUME NEW s, Sess(s), NEW v, Books(v)
  PROVE  Sess(Vol(s, v))
<1> DEFINE w == [v EXCEPT !.err = "Ok", !.ret = 0]
<1>1. SameBooks(v, w) /\ w.err = "Ok"
  BY Zenon DEF Books, Typed, SameBooks
<1> HIDE DEF w
<1>2. Books(w)
  BY <1>1, SameKeeps, Zenon
<1>3. Vol(s, v) = [s EXCEPT !.vol = w, !.err = v.err, !.ret = v.ret]
  BY Zenon DEF Vol, w
<1>4. "vol" \in DOMAIN Vol(s, v) /\ Vol(s, v).vol = w
  BY <1>3, Zenon DEF Sess
<1> QED BY <1>1, <1>2, <1>4, Zenon DEF Sess, Sound

LEMMA ErrKeeps ==
  ASSUME NEW s, Sess(s), NEW e
  PROVE  Sess(Err(s, e))
<1>1. DOMAIN Err(s, e) = DOMAIN s /\ Err(s, e).vol = s.vol
  BY Zenon DEF Err, Sess
<1> QED BY <1>1, PlainKeeps, Zenon

LEMMA BeyondKeeps ==
  ASSUME NEW s, Sess(s), NEW w
  PROVE  Sess(Beyond(s, w))
<1>1. DOMAIN Beyond(s, w) = DOMAIN s /\ Beyond(s, w).vol = s.vol
  BY Zenon DEF Beyond, Sess
<1> QED BY <1>1, PlainKeeps, Zenon

(* Calls of the bitmap allocators.                                         *)
LEMMA SessBooks ==
  ASSUME Basics, NEW s, Sess(s), NEW n, NEW k \in Kinds
  PROVE  /\ Books(dealloc(s.vol, k, n)) /\ Books(alloc(s.vol, k))
         /\ Books(alloc_any(s.vol, k)) /\ Books(allocator_for_group(s.vol, k, n))
<1>1. Sound(s.vol) /\ Books(s.vol) /\ BackupsFit
  BY Zenon DEF Sess, Sound
<1> QED BY <1>1, DeallocKeeps, AllocKeeps, AnyKeeps, ForGroupKeeps, ZenonT(30)

LEMMA CallsKeep ==
  ASSUME Basics, NEW s, Sess(s), NEW n
  PROVE  /\ Sess(Vol(s, dealloc_block(s.vol, n))) /\ Sess(Vol(s, alloc_block(s.vol)))
         /\ Sess(Vol(s, alloc_block_any(s.vol)))
         /\ Sess(Vol(s, get_block_allocator_for_group(s.vol, n)))
         /\ Sess(Vol(s, dealloc_inode_bit(s.vol, n)))
         /\ Sess(Vol(s, get_inode_allocator_for_group(s.vol, n)))
<1>1. "block" \in Kinds /\ "inode" \in Kinds
  BY Zenon DEF Kinds
<1>2. /\ Books(dealloc_block(s.vol, n)) /\ Books(alloc_block(s.vol)) /\ Books(alloc_block_any(s.vol))
      /\ Books(get_block_allocator_for_group(s.vol, n))
  BY <1>1, SessBooks, Zenon DEF dealloc_block, alloc_block, alloc_block_any, get_block_allocator_for_group
<1>3. Books(dealloc_inode_bit(s.vol, n)) /\ Books(get_inode_allocator_for_group(s.vol, n))
  BY <1>1, SessBooks, Zenon DEF dealloc_inode_bit, get_inode_allocator_for_group
<1> QED BY <1>2, <1>3, VolKeeps, Zenon

(* CachedInodeReadingLocation: the tables.                                *)
LEMMA WriteAtKeeps ==
  ASSUME NEW s, Sess(s), NEW b, NEW words
  PROVE  Sess(write_block_at(s, b, words))
<1> DEFINE x == [s EXCEPT !.vol.block[b] = words]
           y == Err(s, "InvalidSeekPosition")
<1>1. write_block_at(s, b, words) \in {x, y}
  BY Zenon DEF write_block_at
<1>2. DOMAIN x = DOMAIN s /\ SameBooks(s.vol, x.vol) /\ x.vol.err = s.vol.err
  BY Zenon DEF Sess, Sound, Books, Typed, SameBooks
<1> HIDE DEF x
<1>3. Sess(x)
  BY <1>2, QuietKeeps, Zenon
<1>4. Sess(y)
  BY ErrKeeps, Zenon
<1> HIDE DEF y
<1> QED BY <1>1, <1>3, <1>4, Zenon

LEMMA UpdateInodeKeeps ==
  ASSUME NEW s, Sess(s)
  PROVE  Sess(update_inode(s))
<1> DEFINE x == [s EXCEPT !.vol.inode[s.loc.inode_i] = s.loc.inode]
<1>1. update_inode(s) \in {x}
  BY Zenon DEF update_inode
<1>2. DOMAIN x = DOMAIN s /\ SameBooks(s.vol, x.vol) /\ x.vol.err = s.vol.err
  BY Zenon DEF Sess, Sound, Books, Typed, SameBooks
<1> HIDE DEF x
<1>3. Sess(x)
  BY <1>2, QuietKeeps, Zenon
<1> QED BY <1>1, <1>3, Zenon

LEMMA SaveKeeps ==
  ASSUME NEW s, Sess(s), NEW n, NEW addr
  PROVE  Sess(save_if_addresses_differ(s, n, addr))
<1> DEFINE x == write_block_at(s, s.loc.table[n].addr, s.loc.table[n].words)
           y == [x EXCEPT !.loc.table[n].dirty = FALSE]
<1>1. save_if_addresses_differ(s, n, addr) \in {s, x, y}
  BY Zenon DEF save_if_addresses_differ, Then
<1>2. Sess(x)
  BY WriteAtKeeps, Zenon
<1> HIDE DEF x
<1>3. DOMAIN y = DOMAIN x /\ y.vol = x.vol
  BY <1>2, Zenon DEF Sess
<1> HIDE DEF y
<1>4. Sess(y)
  BY <1>2, <1>3, PlainKeeps, Zenon
<1> QED BY <1>1, <1>2, <1>4, ZenonT(30)

LEMMA CheckTableKeeps ==
  ASSUME NEW s, Sess(s), NEW n
  PROVE  Sess(check_table(s, n))
<1> DEFINE addr == WantedTable(s.loc, n)
           x == save_if_addresses_differ(s, n, addr)
           y == [x EXCEPT !.loc.table[n].addr = 0]
           z == [x EXCEPT !.loc.table[n].addr = addr, !.loc.table[n].words = x.vol.block[addr]]
           w == Err(y, "OutOfBounds")
<1>1. check_table(s, n) \in {x, y, z, w}
  BY Zenon DEF check_table, Then
<1> HIDE DEF addr
<1>3. Sess(x)
  BY SaveKeeps, Zenon
<1> HIDE DEF x
<1>4. DOMAIN y = DOMAIN x /\ y.vol = x.vol
  BY <1>3, ZenonT(30) DEF Sess
<1> HIDE DEF y
<1>5. Sess(y)
  BY <1>3, <1>4, PlainKeeps, Zenon
<1>6. DOMAIN z = DOMAIN x /\ z.vol = x.vol
  BY <1>3, ZenonT(30) DEF Sess
<1> HIDE DEF z
<1>7. Sess(z)
  BY <1>3, <1>6, PlainKeeps, Zenon
<1>8. Sess(w)
  BY <1>5, ErrKeeps, Zenon
<1> HIDE DEF w
<1> QED BY <1>1, <1>3, <1>5, <1>7, <1>8, ZenonT(30)

LEMMA CheckTablesKeeps ==
  ASSUME NEW s, Sess(s)
  PROVE  Sess(check_tables(s))
<1> DEFINE x == check_table(s, 1)
           y == check_table(x, 2)
           z == check_table(y, 3)
<1>1. check_tables(s) \in {x, y, z}
  BY Zenon DEF check_tables, check_table1, check_table2, check_table3, Then
<1>2. Sess(x)
  BY CheckTableKeeps, Zenon
<1> HIDE DEF x
<1>3. Sess(y)
  BY <1>2, CheckTableKeeps, Zenon
<1> HIDE DEF y
<1>4. Sess(z)
  BY <1>3, CheckTableKeeps, Zenon
<1> HIDE DEF z
<1> QED BY <1>1, <1>2, <1>3, <1>4, ZenonT(30)

LEMMA LocationSeekKeeps ==
  ASSUME NEW s, Sess(s), NEW i
  PROVE  Sess(location_seek(s, i))
<1> DEFINE x == [s EXCEPT !.loc.location = location(i)]
           y == check_tables(x)
<1>1. location_seek(s, i) \in {y}
  BY Zenon DEF location_seek
<1>2. DOMAIN x = DOMAIN s /\ x.vol = s.vol
  BY Zenon DEF Sess
<1> HIDE DEF x
<1>3. Sess(x)
  BY <1>2, PlainKeeps, Zenon
<1>4. Sess(y)
  BY <1>3, CheckTablesKeeps, Zenon
<1> HIDE DEF y
<1> QED BY <1>1, <1>4, Zenon

LEMMA LocationAdvanceKeeps ==
  ASSUME NEW s, Sess(s)
  PROVE  Sess(location_advance(s))
<1> DEFINE x == [s EXCEPT !.ret = 0]
           y == [s EXCEPT !.loc.location = advance(@)]
           z == check_tables(y)
           w == [z EXCEPT !.ret = 1]
<1>1. location_advance(s) \in {x, w}
  BY Zenon DEF location_advance
<1>2. DOMAIN x = DOMAIN s /\ x.vol = s.vol
  BY Zenon DEF Sess
<1> HIDE DEF x
<1>3. Sess(x)
  BY <1>2, PlainKeeps, Zenon
<1>4. DOMAIN y = DOMAIN s /\ y.vol = s.vol
  BY SMTT(30) DEF Sess
<1> HIDE DEF y
<1>5. Sess(y)
  BY <1>4, PlainKeeps, Zenon
<1>6. Sess(z)
  BY <1>5, CheckTablesKeeps, Zenon
<1> HIDE DEF z
<1>7. DOMAIN w = DOMAIN z /\ w.vol = z.vol
  BY <1>6, ZenonT(30) DEF Sess
<1> HIDE DEF w
<1>8. Sess(w)
  BY <1>6, <1>7, PlainKeeps, Zenon
<1> QED BY <1>1, <1>3, <1>8, Zenon

(* free_last_block.                                                       *)
LEMMA DeallocBlockKeeps ==
  ASSUME Basics, NEW s, Sess(s), NEW b
  PROVE  Sess(Dealloc(s, b))
<1> DEFINE x == Vol(s, dealloc_block(s.vol, b))
<1>1. Dealloc(s, b) \in {x}
  BY Zenon DEF Dealloc
<1>2. Sess(x)
  BY CallsKeep, ZenonT(30)
<1> HIDE DEF x
<1> QED BY <1>1, <1>2, ZenonT(30)

LEMMA ClearEntryKeeps ==
  ASSUME NEW s, Sess(s), NEW n
  PROVE  Sess(ClearEntry(s, n))
<1> DEFINE x == [s EXCEPT !.loc.table[n].words[s.loc.location.path[n]] = 0, !.loc.table[n].dirty = TRUE]
<1>1. ClearEntry(s, n) \in {x}
  BY Zenon DEF ClearEntry
<1>2. DOMAIN x = DOMAIN s /\ x.vol = s.vol
  BY Zenon DEF Sess
<1> HIDE DEF x
<1>3. Sess(x)
  BY <1>2, PlainKeeps, Zenon
<1> QED BY <1>1, <1>3, Zenon

LEMMA FreeTable1Keeps ==
  ASSUME Basics, NEW s, Sess(s)
  PROVE  Sess(FreeTable1(s))
<1> DEFINE x == [s EXCEPT !.loc.inode.indirect[s.loc.location.level] = 0, !.loc.inode_dirty = TRUE]
           y == Dealloc(x, s.loc.table[1].addr)
<1>1. FreeTable1(s) \in {s, y}
  BY Zenon DEF FreeTable1
<1>2. DOMAIN x = DOMAIN s /\ x.vol = s.vol
  BY Zenon DEF Sess
<1> HIDE DEF x
<1>3. Sess(x)
  BY <1>2, PlainKeeps, Zenon
<1>4. Sess(y)
  BY <1>3, DeallocBlockKeeps, Zenon
<1> HIDE DEF y
<1> QED BY <1>1, <1>4, Zenon

LEMMA FreeTable2Keeps ==
  ASSUME Basics, NEW s, Sess(s)
  PROVE  Sess(FreeTable2(s))
<1> DEFINE x == Dealloc(s, s.loc.table[1].words[s.loc.location.path[1]])
           y == ClearEntry(x, 1)
           z == FreeTable1(y)
<1>1. FreeTable2(s) \in {s, x, z}
  BY ZenonT(30) DEF FreeTable2, Then
<1>2. Sess(x)
  BY DeallocBlockKeeps, Zenon
<1> HIDE DEF x
<1>3. Sess(y)
  BY <1>2, ClearEntryKeeps, Zenon
<1> HIDE DEF y
<1>4. Sess(z)
  BY <1>3, FreeTable1Keeps, SMTT(30)
<1> HIDE DEF z
<1> QED BY <1>1, <1>2, <1>4, Zenon

LEMMA FreeTable3Keeps ==
  ASSUME Basics, NEW s, Sess(s)
  PROVE  Sess(FreeTable3(s))
<1> DEFINE x == Dealloc(s, s.loc.table[2].words[s.loc.location.path[2]])
           y == ClearEntry(x, 2)
           z == FreeTable2(y)
<1>1. FreeTable3(s) \in {s, x, z}
  BY ZenonT(30) DEF FreeTable3, Then
<1>2. Sess(x)
  BY DeallocBlockKeeps, Zenon
<1> HIDE DEF x
<1>3. Sess(y)
  BY <1>2, ClearEntryKeeps, Zenon
<1> HIDE DEF y
<1>4. Sess(z)
  BY <1>3, FreeTable2Keeps, Zenon
<1> HIDE DEF z
<1> QED BY <1>1, <1>2, <1>4, Zenon

LEMMA ClearPointerKeeps ==
  ASSUME Basics, NEW s, Sess(s)
  PROVE  Sess(ClearPointer(s))
<1> DEFINE x == [s EXCEPT !.loc.inode.direct[s.loc.location.path[1]] = 0, !.loc.inode_dirty = TRUE]
           a == ClearEntry(s, 1)
           b == ClearEntry(s, 2)
           c == ClearEntry(s, 3)
           y == FreeTable1(a)
           z == FreeTable2(b)
           w == FreeTable3(c)
<1>1. ClearPointer(s) \in {x, y, z, w}
  BY Zenon DEF ClearPointer
<1>2. DOMAIN x = DOMAIN s /\ x.vol = s.vol
  BY Zenon DEF Sess
<1> HIDE DEF x
<1>3. Sess(x)
  BY <1>2, PlainKeeps, Zenon
<1>4. Sess(a)
  BY ClearEntryKeeps, Zenon
<1> HIDE DEF a
<1>5. Sess(b)
  BY ClearEntryKeeps, Zenon
<1> HIDE DEF b
<1>6. Sess(c)
  BY ClearEntryKeeps, SMTT(30)
<1> HIDE DEF c
<1>7. Sess(y)
  BY <1>4, FreeTable1Keeps, Zenon
<1> HIDE DEF y
<1>8. Sess(z)
  BY <1>5, FreeTable2Keeps, Zenon
<1> HIDE DEF z
<1>9. Sess(w)
  BY <1>6, FreeTable3Keeps, Zenon
<1> HIDE DEF w
<1> QED BY <1>1, <1>3, <1>7, <1>8, <1>9, ZenonT(30)

LEMMA FreeLastKeeps ==
  ASSUME Basics, NEW s, Sess(s)
  PROVE  Sess(free_last_block(s))
<1> DEFINE x == location_seek(s, s.loc.max_block_exclusive - 1)
           b == get_next_block(x.loc)
           y == Vol(x, get_block_allocator_for_group(x.vol, GroupOf(b)))
           z == Dealloc(y, b)
           w == ClearPointer(z)
           u == [w EXCEPT !.loc.max_block_exclusive = @ - 1]
<1>1. free_last_block(s) \in {s, x, y, z, w, u}
  BY Zenon DEF free_last_block, Then
<1>2. Sess(x)
  BY LocationSeekKeeps, Zenon
<1> HIDE DEF x
<1> HIDE DEF b
<1>4. Sess(y)
  BY <1>2, CallsKeep, Zenon
<1> HIDE DEF y
<1>5. Sess(z)
  BY <1>4, DeallocBlockKeeps, ZenonT(30)
<1> HIDE DEF z
<1>6. Sess(w)
  BY <1>5, ClearPointerKeeps, Zenon
<1> HIDE DEF w
<1>7. DOMAIN u = DOMAIN w /\ u.vol = w.vol
  BY <1>6, Zenon DEF Sess
<1> HIDE DEF u
<1>8. Sess(u)
  BY <1>6, <1>7, PlainKeeps, SMTT(30)
<1> QED BY <1>1, <1>2, <1>4, <1>5, <1>6, <1>8, ZenonT(30)

(* allocate_new_block.                                                    *)
LEMMA BallocKeeps ==
  ASSUME Basics, NEW s, Sess(s)
  PROVE  Sess(balloc(s))
<1> DEFINE x == Vol(s, get_block_allocator_for_group(s.vol, s.group))
           y == Vol(x, alloc_block(x.vol))
           z == Vol(y, alloc_block_any(y.vol))
           w == [z EXCEPT !.group = GroupOf(z.ret)]
<1>1. balloc(s) \in {x, y, z, w}
  BY Zenon DEF balloc, Then
<1>2. Sess(x)
  BY CallsKeep, Zenon
<1> HIDE DEF x
<1>3. Sess(y)
  BY <1>2, CallsKeep, Zenon
<1> HIDE DEF y
<1>4. Sess(z)
  BY <1>3, CallsKeep, Zenon
<1> HIDE DEF z
<1>5. DOMAIN w = DOMAIN z /\ w.vol = z.vol
  BY <1>4, Zenon DEF Sess
<1> HIDE DEF w
<1>6. Sess(w)
  BY <1>4, <1>5, PlainKeeps, Zenon
<1> QED BY <1>1, <1>2, <1>3, <1>4, <1>6, Zenon

LEMMA LoadNewTableKeeps ==
  ASSUME NEW s, Sess(s), NEW n
  PROVE  Sess(LoadNewTable(s, n))
<1> DEFINE x == check_table(s, n)
           y == [x EXCEPT !.beyond = @ \cup {"stale_table"}]
<1>1. LoadNewTable(s, n) \in {x, y}
  BY Zenon DEF LoadNewTable, Then
<1>2. Sess(x)
  BY CheckTableKeeps, Zenon
<1> HIDE DEF x
<1>3. DOMAIN y = DOMAIN x /\ y.vol = x.vol
  BY <1>2, SMTT(30) DEF Sess
<1> HIDE DEF y
<1>4. Sess(y)
  BY <1>2, <1>3, PlainKeeps, Zenon
<1> QED BY <1>1, <1>2, <1>4, Zenon

LEMMA FillRootKeeps ==
  ASSUME Basics, NEW s, Sess(s)
  PROVE  Sess(FillRoot(s))
<1> DEFINE x == balloc(s)
           y == [x EXCEPT !.loc.inode.indirect[s.loc.location.level] = x.ret, !.loc.inode_dirty = TRUE]
           z == LoadNewTable(y, 1)
<1>1. FillRoot(s) \in {s, x, z}
  BY Zenon DEF FillRoot, Then
<1>2. Sess(x)
  BY BallocKeeps, Zenon
<1> HIDE DEF x
<1>3. DOMAIN y = DOMAIN x /\ y.vol = x.vol
  BY <1>2, SMTT(30) DEF Sess
<1> HIDE DEF y
<1>4. Sess(y)
  BY <1>2, <1>3, PlainKeeps, Zenon
<1>5. Sess(z)
  BY <1>4, LoadNewTableKeeps, Zenon
<1> HIDE DEF z
<1> QED BY <1>1, <1>2, <1>5, Zenon

LEMMA FillEntryKeeps ==
  ASSUME Basics, NEW s, Sess(s), NEW n
  PROVE  Sess(FillEntry(s, n))
<1> DEFINE x == balloc(s)
           y == SetEntry(x, n, s.loc.location.path[n])
           z == LoadNewTable(y, n + 1)
<1>1. FillEntry(s, n) \in {s, x, y, z}
  BY Zenon DEF FillEntry, Then
<1>2. Sess(x)
  BY BallocKeeps, Zenon
<1> HIDE DEF x
<1>3. DOMAIN y = DOMAIN x /\ y.vol = x.vol
  BY <1>2, SMTT(30) DEF Sess, SetEntry
<1> HIDE DEF y
<1>4. Sess(y)
  BY <1>2, <1>3, PlainKeeps, Zenon
<1>5. Sess(z)
  BY <1>4, LoadNewTableKeeps, SMTT(30)
<1> HIDE DEF z
<1> QED BY <1>1, <1>2, <1>4, <1>5, ZenonT(30)

LEMMA FillDirectKeeps ==
  ASSUME Basics, NEW s, Sess(s)
  PROVE  Sess(FillDirect(s))
<1> DEFINE x == balloc(s)
           y == [x EXCEPT !.loc.inode.direct[s.loc.location.path[1]] = x.ret, !.loc.inode_dirty = TRUE]
<1>1. FillDirect(s) \in {s, x, y}
  BY Zenon DEF FillDirect, Then
<1>2. Sess(x)
  BY BallocKeeps, Zenon
<1> HIDE DEF x
<1>3. DOMAIN y = DOMAIN x /\ y.vol = x.vol
  BY <1>2, ZenonT(30) DEF Sess
<1> HIDE DEF y
<1>4. Sess(y)
  BY <1>2, <1>3, PlainKeeps, Zenon
<1> QED BY <1>1, <1>2, <1>4, Zenon

LEMMA FillKeeps ==
  ASSUME Basics, NEW s, Sess(s)
  PROVE  Sess(Fill(s))
<1> DEFINE x == FillDirect(s)
           y == FillRoot(s)
           z == FillEntry(y, 1)
           w == FillEntry(z, 2)
           u == FillEntry(w, 3)
           t == FillEntry(z, 3)
<1>1. Fill(s) \in {x, y, z, w, u, t}
  BY ZenonT(30) DEF Fill, Then
<1>2. Sess(x)
  BY FillDirectKeeps, Zenon
<1> HIDE DEF x
<1>3. Sess(y)
  BY FillRootKeeps, Zenon
<1> HIDE DEF y
<1>4. Sess(z)
  BY <1>3, FillEntryKeeps, Zenon
<1> HIDE DEF z
<1>5. Sess(w)
  BY <1>4, FillEntryKeeps, Zenon
<1> HIDE DEF w
<1>6. Sess(u)
  BY <1>5, FillEntryKeeps, Zenon
<1> HIDE DEF u
<1>7. Sess(t)
  BY <1>4, FillEntryKeeps, Zenon
<1> HIDE DEF t
<1> QED BY <1>1, <1>2, <1>3, <1>4, <1>5, <1>6, <1>7, ZenonT(30)


LEMMA AllocateNewKeeps ==
  ASSUME Basics, NEW s, Sess(s)
  PROVE  Sess(allocate_new_block(s))
<1> DEFINE max == s.loc.max_block_exclusive
           a == location_seek(s, 0)
           b == [a EXCEPT !.group = 0]
           c == location_seek(s, max - 1)
           d == Err(c, "MaximumSizeReached")
           e == [c EXCEPT !.group = GroupOf(get_next_block(c.loc)), !.loc.location = advance(@)]
           place == IF max = 0 THEN b
                    ELSE IF c.err = "Ok" THEN IF IsLast(c.loc.location) THEN d ELSE e ELSE c
           x == Fill(place)
           y == [x EXCEPT !.loc.max_block_exclusive = @ + 1]
<1>1. allocate_new_block(s) \in {place, x, y}
  BY ZenonT(30) DEF allocate_new_block, Then
<1>2. place \in {b, c, d, e}
  BY Zenon
<1>3. DOMAIN b = DOMAIN a /\ b.vol = a.vol /\ Sess(a)
  BY LocationSeekKeeps, Zenon DEF Sess
<1>4. DOMAIN e = DOMAIN c /\ e.vol = c.vol /\ Sess(c)
  BY LocationSeekKeeps, Zenon DEF Sess
<1>5. DOMAIN y = DOMAIN x /\ (Sess(x) => y.vol = x.vol)
  BY Zenon DEF Sess
<1> HIDE DEF a, b, c, e, y
<1>6. Sess(b) /\ Sess(c) /\ Sess(e) /\ Sess(d)
  BY <1>3, <1>4, PlainKeeps, ErrKeeps, Zenon
<1> HIDE DEF d
<1>7. Sess(place)
  BY <1>2, <1>6, Zenon
<1> HIDE DEF place
<1>8. Sess(x)
  BY <1>7, FillKeeps, Zenon
<1> HIDE DEF x
<1>9. Sess(y)
  BY <1>5, <1>8, PlainKeeps, Zenon
<1> QED BY <1>1, <1>7, <1>8, <1>9, Zenon

(* FileHandle: the flush, the seek and the change of size.                *)
LEMMA FlushTableKeeps ==
  ASSUME NEW s, Sess(s), NEW n
  PROVE  Sess(FlushTable(s, n))
<1> DEFINE x == write_block_at(s, s.loc.table[n].addr, s.loc.table[n].words)
           y == [x EXCEPT !.loc.table[n].dirty = FALSE]
<1>1. FlushTable(s, n) \in {s, x, y}
  BY ZenonT(30) DEF FlushTable, Then
<1>2. Sess(x)
  BY WriteAtKeeps, Zenon
<1> HIDE DEF x
<1>3. DOMAIN y = DOMAIN x /\ y.vol = x.vol
  BY <1>2, Zenon DEF Sess
<1> HIDE DEF y
<1>4. Sess(y)
  BY <1>2, <1>3, PlainKeeps, Zenon
<1> QED BY <1>1, <1>2, <1>4, ZenonT(30)

LEMMA LocationFlushKeeps ==
  ASSUME NEW s, Sess(s)
  PROVE  Sess(location_flush(s))
<1> DEFINE x == FlushTable(s, 1)
           y == FlushTable(x, 2)
           z == FlushTable(y, 3)
           w == update_inode(z)
           u == [w EXCEPT !.loc.inode_dirty = FALSE]
<1>1. location_flush(s) \in {s, x, y, z, u}
  BY ZenonT(30) DEF location_flush, Then
<1>2. Sess(x)
  BY FlushTableKeeps, Zenon
<1> HIDE DEF x
<1>3. Sess(y)
  BY <1>2, FlushTableKeeps, Zenon
<1> HIDE DEF y
<1>4. Sess(z)
  BY <1>3, FlushTableKeeps, Zenon
<1> HIDE DEF z
<1>5. Sess(w)
  BY <1>4, UpdateInodeKeeps, Zenon
<1> HIDE DEF w
<1>6. DOMAIN u = DOMAIN w /\ u.vol = w.vol
  BY <1>5, SMTT(30) DEF Sess
<1> HIDE DEF u
<1>7. Sess(u)
  BY <1>5, <1>6, PlainKeeps, Zenon
<1> QED BY <1>1, <1>2, <1>3, <1>4, <1>7, ZenonT(30)

LEMMA WriteCacheKeeps ==
  ASSUME NEW s, Sess(s)
  PROVE  Sess(WriteCache(s))
<1> DEFINE x == write_block_at(s, get_next_block(s.loc), s.cache)
           y == [x EXCEPT !.info.dirty = FALSE]
           z == Beyond(y, "misplaced")
<1>1. WriteCache(s) \in {y, z}
  BY Zenon DEF WriteCache
<1>2. Sess(x)
  BY WriteAtKeeps, Zenon
<1> HIDE DEF x
<1>3. DOMAIN y = DOMAIN x /\ y.vol = x.vol
  BY <1>2, ZenonT(30) DEF Sess
<1> HIDE DEF y
<1>4. Sess(y)
  BY <1>2, <1>3, PlainKeeps, Zenon
<1>5. Sess(z)
  BY <1>4, BeyondKeeps, SMTT(30)
<1> HIDE DEF z
<1> QED BY <1>1, <1>4, <1>5, Zenon

LEMMA HandleFlushKeeps ==
  ASSUME NEW s, Sess(s)
  PROVE  Sess(flush(s))
<1> DEFINE x == location_flush(s)
           y == WriteCache(x)
<1>1. flush(s) \in {x, y}
  BY Zenon DEF flush, Then
<1>2. Sess(x)
  BY LocationFlushKeeps, Zenon
<1> HIDE DEF x
<1>3. Sess(y)
  BY <1>2, WriteCacheKeeps, Zenon
<1> HIDE DEF y
<1> QED BY <1>1, <1>2, <1>3, Zenon


LEMMA UpdateBufferKeeps ==
  ASSUME NEW s, Sess(s)
  PROVE  Sess(internal_update_buffer(s))
<1> DEFINE here == current_block_idx(s.loc.location)
           x == IF s.info.dirty THEN Beyond(s, "dropped") ELSE s
           y == [x EXCEPT !.cache = s.vol.block[get_next_block(s.loc)], !.home = here,
                          !.info = [block |-> here, size |-> WordsInBlock(s.loc), dirty |-> FALSE]]
           z == [x EXCEPT !.info = NoInfo]
           w == Err(z, "OutOfBounds")
<1>1. internal_update_buffer(s) \in {y, w}
  BY Zenon DEF internal_update_buffer
<1>2. Sess(x)
  BY BeyondKeeps, Zenon
<1> HIDE DEF x
<1>3. DOMAIN y = DOMAIN x /\ y.vol = x.vol /\ DOMAIN z = DOMAIN x /\ z.vol = x.vol
  BY <1>2, ZenonT(30) DEF Sess
<1> HIDE DEF y, z
<1>4. Sess(y) /\ Sess(z)
  BY <1>2, <1>3, PlainKeeps
<1>5. Sess(w)
  BY <1>4, ErrKeeps, Zenon
<1> HIDE DEF w
<1> QED BY <1>1, <1>4, <1>5, Zenon

LEMMA SeekKeeps ==
  ASSUME NEW s, Sess(s), NEW p
  PROVE  Sess(seek(s, p))
<1> DEFINE a == Err(s, "InvalidSeekPosition")
           x == [s EXCEPT !.offset = p]
           y == location_seek(x, p \div TableSize)
           z == internal_update_buffer(y)
<1>1. seek(s, p) \in {a, y, z}
  BY Zenon DEF seek, Then
<1>2. Sess(a)
  BY ErrKeeps, Zenon
<1> HIDE DEF a
<1>3. DOMAIN x = DOMAIN s /\ x.vol = s.vol
  BY Zenon DEF Sess
<1> HIDE DEF x
<1>4. Sess(x)
  BY <1>3, PlainKeeps, Zenon
<1>5. Sess(y)
  BY <1>4, LocationSeekKeeps, SMTT(30)
<1> HIDE DEF y
<1>6. Sess(z)
  BY <1>5, UpdateBufferKeeps, Zenon
<1> HIDE DEF z
<1> QED BY <1>1, <1>2, <1>5, <1>6, ZenonT(30)

LEMMA SetSizeKeeps ==
  ASSUME NEW s, Sess(s), NEW m, NEW p
  PROVE  Sess(SetSize(s, m, p))
<1> DEFINE a == [s EXCEPT !.size = m, !.loc.inode.size = m]
           x == update_inode(a)
           y == flush(x)
           z == [y EXCEPT !.info = NoInfo]
           w == seek(z, p)
<1>1. SetSize(s, m, p) \in {y, w}
  BY Zenon DEF SetSize, Then
<1>2. DOMAIN a = DOMAIN s /\ a.vol = s.vol
  BY SMTT(30) DEF Sess
<1> HIDE DEF a
<1>3. Sess(a)
  BY <1>2, PlainKeeps, Zenon
<1>4. Sess(x)
  BY <1>3, UpdateInodeKeeps, Zenon
<1> HIDE DEF x
<1>5. Sess(y)
  BY <1>4, HandleFlushKeeps, Zenon
<1> HIDE DEF y
<1>6. DOMAIN z = DOMAIN y /\ z.vol = y.vol
  BY <1>5, ZenonT(30) DEF Sess
<1> HIDE DEF z
<1>7. Sess(z)
  BY <1>5, <1>6, PlainKeeps, Zenon
<1>8. Sess(w)
  BY <1>7, SeekKeeps, Zenon
<1> HIDE DEF w
<1> QED BY <1>1, <1>5, <1>8, Zenon

(* The loops of truncate and grow.                                          *)
LEMMA FreeBlocksRuns ==
  ASSUME Basics, NEW s, NEW n
  PROVE  \E acc :
           /\ acc[0] = s
           /\ \A k \in 0 .. Turns(n) - 1 : acc[k + 1] = (IF acc[k].err = "Ok" THEN free_last_block(acc[k]) ELSE acc[k])
           /\ FreeBlocks(s, n) = acc[Turns(n)]
<1> DEFINE Body(it, m) == [k \in 0 .. m |-> IF k = 0 THEN s ELSE (IF it[k - 1].err = "Ok" THEN free_last_block(it[k - 1]) ELSE it[k - 1])]
           T == {m \in Nat : \E it : it = Body(it, m)}
<1>1. 0 \in T
  <2> DEFINE it == [k \in 0 .. 0 |-> s]
  <2>1. it = Body(it, 0)
    BY SMTT(30)
  <2> QED BY <2>1, ZenonT(30)
<1>2. ASSUME NEW m \in Nat, m \in T PROVE m + 1 \in T
  <2>1. PICK it : it = Body(it, m)
    <3> HIDE DEF Body
    <3> QED BY <1>2, Zenon
  <2> DEFINE g == [k \in 0 .. m + 1 |-> IF k = m + 1 THEN (IF it[m].err = "Ok" THEN free_last_block(it[m]) ELSE it[m]) ELSE it[k]]
  <2>2. ASSUME NEW k \in 0 .. m + 1
        PROVE  g[k] = IF k = 0 THEN s ELSE (IF g[k - 1].err = "Ok" THEN free_last_block(g[k - 1]) ELSE g[k - 1])
    <3>1. CASE k = m + 1
      <4>1. m \in 0 .. m + 1 /\ m # m + 1 /\ k - 1 = m /\ k # 0
        BY <3>1
      <4>2. g[k] = (IF it[m].err = "Ok" THEN free_last_block(it[m]) ELSE it[m]) /\ g[m] = it[m]
        BY <3>1, <4>1, Zenon
      <4> HIDE DEF g
      <4> QED BY <3>1, <4>1, <4>2, SMTT(30)
    <3>2. CASE k # m + 1
      <4>1. k \in 0 .. m /\ (k # 0 => k - 1 \in 0 .. m + 1 /\ k - 1 # m + 1)
        BY <3>2
      <4>2. g[k] = it[k] /\ (k # 0 => g[k - 1] = it[k - 1])
        BY <3>2, <4>1, Zenon
      <4>3. it[k] = IF k = 0 THEN s ELSE (IF it[k - 1].err = "Ok" THEN free_last_block(it[k - 1]) ELSE it[k - 1])
        BY <2>1, <4>1, Zenon
      <4> HIDE DEF g
      <4> QED BY <4>2, <4>3, Zenon
    <3> QED BY <3>1, <3>2, Zenon
  <2>3. g = Body(g, m + 1)
    <3>1. g = [k \in 0 .. m + 1 |-> g[k]]
      BY Zenon
    <3> HIDE DEF g
    <3> QED BY <2>2, <3>1, ZenonT(30)
  <2> HIDE DEF g, Body
  <2>4. \E it_ : it_ = Body(it_, m + 1)
    BY <2>3, Zenon
  <2> QED BY <2>4
<1>3. Turns(n) \in T
  <2> DEFINE N == Turns(n)
  <2>1. N \in Nat
    BY Zenon DEF Turns
  <2> HIDE DEF T, N
  <2>2. \A k \in 0 .. N : k \in T
    BY <1>1, <1>2, <2>1, Ascends
  <2> QED BY <2>1, <2>2 DEF N
<1> DEFINE acc == CHOOSE it : it = Body(it, Turns(n))
<1>4. acc = Body(acc, Turns(n))
  BY <1>3, ZenonT(30)
<1>5. FreeBlocks(s, n) = acc[Turns(n)]
  BY Zenon DEF FreeBlocks, Then
<1> HIDE DEF acc
<1>6. acc[0] = s /\ Turns(n) \in Nat
  BY <1>3, <1>4
<1>7. ASSUME NEW k \in 0 .. Turns(n) - 1 PROVE acc[k + 1] = (IF acc[k].err = "Ok" THEN free_last_block(acc[k]) ELSE acc[k])
  <2>1. k + 1 \in 0 .. Turns(n) /\ k + 1 # 0 /\ (k + 1) - 1 = k
    BY <1>6
  <2> QED BY <1>4, <2>1, ZenonT(30)
<1> QED BY <1>5, <1>6, <1>7, Zenon


LEMMA FreeBlocksKeeps ==
  ASSUME Basics, NEW s, Sess(s), NEW n
  PROVE  Sess(FreeBlocks(s, n))
<1>1. PICK acc : /\ acc[0] = s
                 /\ \A i \in 0 .. Turns(n) - 1 :
                      acc[i + 1] = (IF acc[i].err = "Ok" THEN free_last_block(acc[i]) ELSE acc[i])
                 /\ FreeBlocks(s, n) = acc[Turns(n)]
  BY FreeBlocksRuns
<1>2. Turns(n) \in Nat
  BY Zenon DEF Turns
<1> DEFINE T == {i \in Nat : Sess(acc[i])}
<1>3. 0 \in T /\ \A i \in 0 .. Turns(n) - 1 : i \in T => i + 1 \in T
  BY <1>1, <1>2, FreeLastKeeps
<1>4. \A i \in 0 .. Turns(n) : i \in T
  <2> HIDE DEF T
  <2> QED BY <1>2, <1>3, Ascends, ZenonT(30)
<1> QED BY <1>1, <1>2, <1>4, SMTT(30)

(* The loop of grow.                                                        *)
LEMMA AllocateBlocksRuns ==
  ASSUME Basics, NEW s, NEW n
  PROVE  \E acc :
           /\ acc[0] = s
           /\ \A k \in 0 .. Turns(n) - 1 : acc[k + 1] = (IF acc[k].err = "Ok" THEN allocate_new_block(acc[k]) ELSE acc[k])
           /\ AllocateBlocks(s, n) = acc[Turns(n)]
<1> DEFINE Body(it, m) == [k \in 0 .. m |-> IF k = 0 THEN s ELSE (IF it[k - 1].err = "Ok" THEN allocate_new_block(it[k - 1]) ELSE it[k - 1])]
           T == {m \in Nat : \E it : it = Body(it, m)}
<1>1. 0 \in T
  <2> DEFINE it == [k \in 0 .. 0 |-> s]
  <2>1. it = Body(it, 0)
    OBVIOUS
  <2> QED BY <2>1, Zenon
<1>2. ASSUME NEW m \in Nat, m \in T PROVE m + 1 \in T
  <2>1. PICK it : it = Body(it, m)
    <3> HIDE DEF Body
    <3> QED BY <1>2, Zenon
  <2> DEFINE g == [k \in 0 .. m + 1 |-> IF k = m + 1 THEN (IF it[m].err = "Ok" THEN allocate_new_block(it[m]) ELSE it[m]) ELSE it[k]]
  <2>2. ASSUME NEW k \in 0 .. m + 1
        PROVE  g[k] = IF k = 0 THEN s ELSE (IF g[k - 1].err = "Ok" THEN allocate_new_block(g[k - 1]) ELSE g[k - 1])
    <3>1. CASE k = m + 1
      <4>1. m \in 0 .. m + 1 /\ m # m + 1 /\ k - 1 = m /\ k # 0
        BY <3>1
      <4>2. g[k] = (IF it[m].err = "Ok" THEN allocate_new_block(it[m]) ELSE it[m]) /\ g[m] = it[m]
        BY <3>1, <4>1, Zenon
      <4> HIDE DEF g
      <4> QED BY <3>1, <4>1, <4>2, ZenonT(30)
    <3>2. CASE k # m + 1
      <4>1. k \in 0 .. m /\ (k # 0 => k - 1 \in 0 .. m + 1 /\ k - 1 # m + 1)
        BY <3>2
      <4>2. g[k] = it[k] /\ (k # 0 => g[k - 1] = it[k - 1])
        BY <3>2, <4>1, Zenon
      <4>3. it[k] = IF k = 0 THEN s ELSE (IF it[k - 1].err = "Ok" THEN allocate_new_block(it[k - 1]) ELSE it[k - 1])
        BY <2>1, <4>1, Zenon
      <4> HIDE DEF g
      <4> QED BY <4>2, <4>3, Zenon
    <3> QED BY <3>1, <3>2, Zenon
  <2>3. g = Body(g, m + 1)
    <3>1. g = [k \in 0 .. m + 1 |-> g[k]]
      BY Zenon
    <3> HIDE DEF g
    <3> QED BY <2>2, <3>1, Zenon
  <2> HIDE DEF g, Body
  <2>4. \E it_ : it_ = Body(it_, m + 1)
    BY <2>3, Zenon
  <2> QED BY <2>4
<1>3. Turns(n) \in T
  <2> DEFINE N == Turns(n)
  <2>1. N \in Nat
    BY Zenon DEF Turns
  <2> HIDE DEF T, N
  <2>2. \A k \in 0 .. N : k \in T
    BY <1>1, <1>2, <2>1, Ascends
  <2> QED BY <2>1, <2>2 DEF N
<1> DEFINE acc == CHOOSE it : it = Body(it, Turns(n))
<1>4. acc = Body(acc, Turns(n))
  BY <1>3, Zenon
<1>5. AllocateBlocks(s, n) = acc[Turns(n)]
  BY Zenon DEF AllocateBlocks, Then
<1> HIDE DEF acc
<1>6. acc[0] = s /\ Turns(n) \in Nat
  BY <1>3, <1>4
<1>7. ASSUME NEW k \in 0 .. Turns(n) - 1 PROVE acc[k + 1] = (IF acc[k].err = "Ok" THEN allocate_new_block(acc[k]) ELSE acc[k])
  <2>1. k + 1 \in 0 .. Turns(n) /\ k + 1 # 0 /\ (k + 1) - 1 = k
    BY <1>6
  <2> QED BY <1>4, <2>1, Zenon
<1> QED BY <1>5, <1>6, <1>7, Zenon


LEMMA AllocateBlocksKeeps ==
  ASSUME Basics, NEW s, Sess(s), NEW n
  PROVE  Sess(AllocateBlocks(s, n))
<1>1. PICK acc : /\ acc[0] = s
                 /\ \A i \in 0 .. Turns(n) - 1 :
                      acc[i + 1] = (IF acc[i].err = "Ok" THEN allocate_new_block(acc[i]) ELSE acc[i])
                 /\ AllocateBlocks(s, n) = acc[Turns(n)]
  BY AllocateBlocksRuns
<1>2. Turns(n) \in Nat
  BY Zenon DEF Turns
<1> DEFINE T == {i \in Nat : Sess(acc[i])}
<1>3. 0 \in T /\ \A i \in 0 .. Turns(n) - 1 : i \in T => i + 1 \in T
  BY <1>1, <1>2, AllocateNewKeeps
<1>4. \A i \in 0 .. Turns(n) : i \in T
  <2> HIDE DEF T
  <2> QED BY <1>2, <1>3, Ascends, Zenon
<1> QED BY <1>1, <1>2, <1>4

LEMMA TruncateKeeps ==
  ASSUME Basics, NEW s, Sess(s), NEW m
  PROVE  Sess(truncate(s, m))
<1> DEFINE n == DivCeil(m, TableSize)
           a == Err(s, "InvalidArgument")
           x == FreeBlocks(s, s.loc.max_block_exclusive - n)
           y == SetSize(x, m, m)
           z == Beyond(x, "free_failed")
<1>1. truncate(s, m) \in {a, y, z}
  BY Zenon DEF truncate
<1> HIDE DEF n
<1>3. Sess(a)
  BY ErrKeeps, Zenon
<1> HIDE DEF a
<1>4. Sess(x)
  BY FreeBlocksKeeps, Zenon
<1> HIDE DEF x
<1>5. Sess(y)
  BY <1>4, SetSizeKeeps, Zenon
<1> HIDE DEF y
<1>6. Sess(z)
  BY <1>4, BeyondKeeps, Zenon
<1> HIDE DEF z
<1> QED BY <1>1, <1>3, <1>5, <1>6, ZenonT(30)

LEMMA GrowKeeps ==
  ASSUME Basics, NEW s, Sess(s), NEW m
  PROVE  Sess(grow(s, m))
<1> DEFINE n == DivCeil(m, TableSize)
           a == Err(s, "InvalidArgument")
           x == AllocateBlocks(s, n - s.loc.max_block_exclusive)
           y == SetSize(x, m, s.offset)
           z == Beyond(x, "partial")
<1>1. grow(s, m) \in {a, x, y, z}
  BY Zenon DEF grow
<1> HIDE DEF n
<1>3. Sess(a)
  BY ErrKeeps, Zenon
<1> HIDE DEF a
<1>4. Sess(x)
  BY AllocateBlocksKeeps, Zenon
<1> HIDE DEF x
<1>5. Sess(y)
  BY <1>4, SetSizeKeeps, Zenon
<1> HIDE DEF y
<1>6. Sess(z)
  BY <1>4, BeyondKeeps, Zenon
<1> HIDE DEF z
<1> QED BY <1>1, <1>3, <1>4, <1>5, <1>6, ZenonT(30)

(* FileHandle::read.                                                      *)
LEMMA LoadedKeeps ==
  ASSUME NEW s, Sess(s)
  PROVE  Sess(Loaded(s))
<1> DEFINE x == internal_update_buffer(s)
<1>1. Loaded(s) \in {s, x}
  BY Zenon DEF Loaded
<1>2. Sess(x)
  BY UpdateBufferKeeps, Zenon
<1> HIDE DEF x
<1> QED BY <1>1, <1>2, Zenon

LEMMA TakeWordsKeeps ==
  ASSUME NEW s, Sess(s), NEW n
  PROVE  Sess(TakeWords(s, n))
<1> DEFINE x == [s EXCEPT !.offset = @ + n, !.got = @ \o [i \in 1 .. n |-> s.cache[Column(s) + i - 1]]]
<1>1. TakeWords(s, n) \in {x}
  BY Zenon DEF TakeWords
<1>2. DOMAIN x = DOMAIN s /\ x.vol = s.vol
  BY Zenon DEF Sess
<1> HIDE DEF x
<1>3. Sess(x)
  BY <1>2, PlainKeeps, Zenon
<1> QED BY <1>1, <1>3, Zenon

LEMMA ReadNextKeeps ==
  ASSUME NEW s, Sess(s), NEW max, NEW size
  PROVE  Sess(ReadNext(s, max, size))
<1> DEFINE x == location_advance(s)
           y == [x EXCEPT !.done = TRUE]
           z == internal_update_buffer(x)
           w == TakeWords(z, Least(max - Len(z.got), size))
<1>1. ReadNext(s, max, size) \in {s, x, y, z, w}
  BY Zenon DEF ReadNext, Then
<1>2. Sess(x)
  BY LocationAdvanceKeeps, Zenon
<1> HIDE DEF x
<1>3. DOMAIN y = DOMAIN x /\ y.vol = x.vol
  BY <1>2, SMTT(30) DEF Sess
<1> HIDE DEF y
<1>4. Sess(y)
  BY <1>2, <1>3, PlainKeeps, Zenon
<1>5. Sess(z)
  BY <1>2, UpdateBufferKeeps, Zenon
<1> HIDE DEF z
<1>6. Sess(w)
  BY <1>5, TakeWordsKeeps, ZenonT(30)
<1> HIDE DEF w
<1> QED BY <1>1, <1>2, <1>4, <1>5, <1>6, ZenonT(30)

(* The loop of read.                                                        *)
LEMMA ReadBlocksRuns ==
  ASSUME Basics, NEW s, NEW max, NEW size
  PROVE  \E acc :
           /\ acc[0] = s
           /\ \A k \in 0 .. Turns(max) - 1 : acc[k + 1] = (IF acc[k].err = "Ok" THEN ReadNext(acc[k], max, size) ELSE acc[k])
           /\ ReadBlocks(s, max, size) = acc[Turns(max)]
<1> DEFINE Body(it, m) == [k \in 0 .. m |-> IF k = 0 THEN s ELSE (IF it[k - 1].err = "Ok" THEN ReadNext(it[k - 1], max, size) ELSE it[k - 1])]
           T == {m \in Nat : \E it : it = Body(it, m)}
<1>1. 0 \in T
  <2> DEFINE it == [k \in 0 .. 0 |-> s]
  <2>1. it = Body(it, 0)
    BY SMTT(30)
  <2> QED BY <2>1, ZenonT(30)
<1>2. ASSUME NEW m \in Nat, m \in T PROVE m + 1 \in T
  <2>1. PICK it : it = Body(it, m)
    <3> HIDE DEF Body
    <3> QED BY <1>2, Zenon
  <2> DEFINE g == [k \in 0 .. m + 1 |-> IF k = m + 1 THEN (IF it[m].err = "Ok" THEN ReadNext(it[m], max, size) ELSE it[m]) ELSE it[k]]
  <2>2. ASSUME NEW k \in 0 .. m + 1
        PROVE  g[k] = IF k = 0 THEN s ELSE (IF g[k - 1].err = "Ok" THEN ReadNext(g[k - 1], max, size) ELSE g[k - 1])
    <3>1. CASE k = m + 1
      <4>1. m \in 0 .. m + 1 /\ m # m + 1 /\ k - 1 = m /\ k # 0
        BY <3>1
      <4>2. g[k] = (IF it[m].err = "Ok" THEN ReadNext(it[m], max, size) ELSE it[m]) /\ g[m] = it[m]
        BY <3>1, <4>1, ZenonT(30)
      <4> HIDE DEF g
      <4> QED BY <3>1, <4>1, <4>2, SMTT(30)
    <3>2. CASE k # m + 1
      <4>1. k \in 0 .. m /\ (k # 0 => k - 1 \in 0 .. m + 1 /\ k - 1 # m + 1)
        BY <3>2
      <4>2. g[k] = it[k] /\ (k # 0 => g[k - 1] = it[k - 1])
        BY <3>2, <4>1, Zenon
      <4>3. it[k] = IF k = 0 THEN s ELSE (IF it[k - 1].err = "Ok" THEN ReadNext(it[k - 1], max, size) ELSE it[k - 1])
        BY <2>1, <4>1, Zenon
      <4> HIDE DEF g
      <4> QED BY <4>2, <4>3, SMTT(30)
    <3> QED BY <3>1, <3>2, ZenonT(30)
  <2>3. g = Body(g, m + 1)
    <3>1. g = [k \in 0 .. m + 1 |-> g[k]]
      BY SMTT(30)
    <3> HIDE DEF g
    <3> QED BY <2>2, <3>1, ZenonT(30)
  <2> HIDE DEF g, Body
  <2>4. \E it_ : it_ = Body(it_, m + 1)
    BY <2>3, Zenon
  <2> QED BY <2>4
<1>3. Turns(max) \in T
  <2> DEFINE N == Turns(max)
  <2>1. N \in Nat
    BY Zenon DEF Turns
  <2> HIDE DEF T, N
  <2>2. \A k \in 0 .. N : k \in T
    BY <1>1, <1>2, <2>1, Ascends
  <2> QED BY <2>1, <2>2 DEF N
<1> DEFINE acc == CHOOSE it : it = Body(it, Turns(max))
<1>4. acc = Body(acc, Turns(max))
  BY <1>3, ZenonT(30)
<1>5. ReadBlocks(s, max, size) = acc[Turns(max)]
  BY Zenon DEF ReadBlocks, Then
<1> HIDE DEF acc
<1>6. acc[0] = s /\ Turns(max) \in Nat
  BY <1>3, <1>4, SMTT(30)
<1>7. ASSUME NEW k \in 0 .. Turns(max) - 1 PROVE acc[k + 1] = (IF acc[k].err = "Ok" THEN ReadNext(acc[k], max, size) ELSE acc[k])
  <2>1. k + 1 \in 0 .. Turns(max) /\ k + 1 # 0 /\ (k + 1) - 1 = k
    BY <1>6
  <2> QED BY <1>4, <2>1, ZenonT(30)
<1> QED BY <1>5, <1>6, <1>7, Zenon


LEMMA ReadBlocksKeeps ==
  ASSUME Basics, NEW s, Sess(s), NEW max, NEW size
  PROVE  Sess(ReadBlocks(s, max, size))
<1>1. PICK acc : /\ acc[0] = s
                 /\ \A i \in 0 .. Turns(max) - 1 :
                      acc[i + 1] = (IF acc[i].err = "Ok" THEN ReadNext(acc[i], max, size) ELSE acc[i])
                 /\ ReadBlocks(s, max, size) = acc[Turns(max)]
  BY ReadBlocksRuns, SMTT(30)
<1>2. Turns(max) \in Nat
  BY Zenon DEF Turns
<1> DEFINE T == {i \in Nat : Sess(acc[i])}
<1>3. 0 \in T /\ \A i \in 0 .. Turns(max) - 1 : i \in T => i + 1 \in T
  BY <1>1, <1>2, ReadNextKeeps, SMTT(30)
<1>4. \A i \in 0 .. Turns(max) : i \in T
  <2> HIDE DEF T
  <2> QED BY <1>2, <1>3, Ascends, Zenon
<1> QED BY <1>1, <1>2, <1>4, SMTT(30)

LEMMA ReadKeeps ==
  ASSUME Basics, NEW s, Sess(s), NEW n
  PROVE  Sess(read(s, n))
<1> DEFINE x == flush(s)
           y == Loaded(x)
           max == Least(n, s.size - s.offset)
           t == TakeWords(y, Least(max, TableSize - Column(y)))
           z == ReadBlocks(t, max, y.info.size)
           w == ReadBlocks(y, max, y.info.size)
<1>1. read(s, n) \in {x, y, z, w}
  BY Zenon DEF read, Then
<1>2. Sess(x)
  BY HandleFlushKeeps, Zenon
<1> HIDE DEF x
<1>3. Sess(y)
  BY <1>2, LoadedKeeps, Zenon
<1> HIDE DEF y
<1> HIDE DEF max
<1>5. Sess(t)
  BY <1>3, TakeWordsKeeps, Zenon
<1> HIDE DEF t
<1>6. Sess(z)
  BY <1>5, ReadBlocksKeeps, Zenon
<1> HIDE DEF z
<1>7. Sess(w)
  BY <1>3, ReadBlocksKeeps, Zenon
<1> HIDE DEF w
<1> QED BY <1>1, <1>2, <1>3, <1>6, <1>7, Zenon

(* FileHandle::write.                                                     *)
LEMMA PutWordsKeeps ==
  ASSUME NEW s, Sess(s), NEW n, NEW buf
  PROVE  Sess(PutWords(s, n, buf))
<1> DEFINE x == [s EXCEPT !.offset = @ + n, !.ret = @ + n, !.info.dirty = TRUE, !.cache = [i \in Slots |-> IF i \in Column(s) .. Column(s) + n - 1 THEN buf[s.ret + i - Column(s) + 1] ELSE @[i]]]
<1>1. PutWords(s, n, buf) \in {x}
  BY Zenon DEF PutWords
<1>2. DOMAIN x = DOMAIN s /\ x.vol = s.vol
  BY ZenonT(30) DEF Sess
<1> HIDE DEF x
<1>3. Sess(x)
  BY <1>2, PlainKeeps, Zenon
<1> QED BY <1>1, <1>3, Zenon

LEMMA WriteNextKeeps ==
  ASSUME NEW s, Sess(s), NEW max, NEW size, NEW buf
  PROVE  Sess(WriteNext(s, max, size, buf))
<1> DEFINE n == Least(max - s.ret, size)
           x == flush(s)
           y == location_advance(x)
           a == [y EXCEPT !.ret = s.ret, !.done = TRUE]
           b == internal_update_buffer(y)
           c == [y EXCEPT !.home = current_block_idx(y.loc.location)]
           d == [b EXCEPT !.ret = s.ret]
           e == [c EXCEPT !.ret = s.ret]
           u == PutWords(d, n, buf)
           w == PutWords(e, n, buf)
<1>1. WriteNext(s, max, size, buf) \in {s, x, y, a, b, c, u, w}
  BY ZenonT(30) DEF WriteNext, Then
<1> HIDE DEF n
<1>3. Sess(x)
  BY HandleFlushKeeps, Zenon
<1> HIDE DEF x
<1>4. Sess(y)
  BY <1>3, LocationAdvanceKeeps, Zenon
<1> HIDE DEF y
<1>5. DOMAIN a = DOMAIN y /\ a.vol = y.vol
  BY <1>4, SMTT(30) DEF Sess
<1> HIDE DEF a
<1>6. Sess(a)
  BY <1>4, <1>5, PlainKeeps, Zenon
<1>7. Sess(b)
  BY <1>4, UpdateBufferKeeps, Zenon
<1> HIDE DEF b
<1>8. DOMAIN c = DOMAIN y /\ c.vol = y.vol
  BY <1>4, ZenonT(30) DEF Sess
<1> HIDE DEF c
<1>9. Sess(c)
  BY <1>4, <1>8, PlainKeeps, Zenon
<1>10. DOMAIN d = DOMAIN b /\ d.vol = b.vol
  BY <1>7, ZenonT(30) DEF Sess
<1> HIDE DEF d
<1>11. Sess(d)
  BY <1>7, <1>10, PlainKeeps, Zenon
<1>12. DOMAIN e = DOMAIN c /\ e.vol = c.vol
  BY <1>9, ZenonT(30) DEF Sess
<1> HIDE DEF e
<1>13. Sess(e)
  BY <1>9, <1>12, PlainKeeps, Zenon
<1>14. Sess(u)
  BY <1>11, PutWordsKeeps, Zenon
<1> HIDE DEF u
<1>15. Sess(w)
  BY <1>13, PutWordsKeeps, ZenonT(30)
<1> HIDE DEF w
<1> QED BY <1>1, <1>3, <1>4, <1>6, <1>7, <1>9, <1>14, <1>15, ZenonT(30)

(* The loop of write.                                                       *)
LEMMA WriteBlocksRuns ==
  ASSUME Basics, NEW s, NEW max, NEW size, NEW buf
  PROVE  \E acc :
           /\ acc[0] = s
           /\ \A k \in 0 .. Turns(max) - 1 : acc[k + 1] = (IF acc[k].err = "Ok" THEN WriteNext(acc[k], max, size, buf) ELSE acc[k])
           /\ WriteBlocks(s, max, size, buf) = acc[Turns(max)]
<1> DEFINE Body(it, m) == [k \in 0 .. m |-> IF k = 0 THEN s ELSE (IF it[k - 1].err = "Ok" THEN WriteNext(it[k - 1], max, size, buf) ELSE it[k - 1])]
           T == {m \in Nat : \E it : it = Body(it, m)}
<1>1. 0 \in T
  <2> DEFINE it == [k \in 0 .. 0 |-> s]
  <2>1. it = Body(it, 0)
    BY SMTT(30)
  <2> QED BY <2>1, ZenonT(30)
<1>2. ASSUME NEW m \in Nat, m \in T PROVE m + 1 \in T
  <2>1. PICK it : it = Body(it, m)
    <3> HIDE DEF Body
    <3> QED BY <1>2, Zenon
  <2> DEFINE g == [k \in 0 .. m + 1 |-> IF k = m + 1 THEN (IF it[m].err = "Ok" THEN WriteNext(it[m], max, size, buf) ELSE it[m]) ELSE it[k]]
  <2>2. ASSUME NEW k \in 0 .. m + 1
        PROVE  g[k] = IF k = 0 THEN s ELSE (IF g[k - 1].err = "Ok" THEN WriteNext(g[k - 1], max, size, buf) ELSE g[k - 1])
    <3>1. CASE k = m + 1
      <4>1. m \in 0 .. m + 1 /\ m # m + 1 /\ k - 1 = m /\ k # 0
        BY <3>1
      <4>2. g[k] = (IF it[m].err = "Ok" THEN WriteNext(it[m], max, size, buf) ELSE it[m]) /\ g[m] = it[m]
        BY <3>1, <4>1, ZenonT(30)
      <4> HIDE DEF g
      <4> QED BY <3>1, <4>1, <4>2, ZenonT(30)
    <3>2. CASE k # m + 1
      <4>1. k \in 0 .. m /\ (k # 0 => k - 1 \in 0 .. m + 1 /\ k - 1 # m + 1)
        BY <3>2
      <4>2. g[k] = it[k] /\ (k # 0 => g[k - 1] = it[k - 1])
        BY <3>2, <4>1, Zenon
      <4>3. it[k] = IF k = 0 THEN s ELSE (IF it[k - 1].err = "Ok" THEN WriteNext(it[k - 1], max, size, buf) ELSE it[k - 1])
        BY <2>1, <4>1, Zenon
      <4> HIDE DEF g
      <4> QED BY <4>2, <4>3, SMTT(30)
    <3> QED BY <3>1, <3>2, ZenonT(30)
  <2>3. g = Body(g, m + 1)
    <3>1. g = [k \in 0 .. m + 1 |-> g[k]]
      BY SMTT(30)
    <3> HIDE DEF g
    <3> QED BY <2>2, <3>1, ZenonT(30)
  <2> HIDE DEF g, Body
  <2>4. \E it_ : it_ = Body(it_, m + 1)
    BY <2>3, Zenon
  <2> QED BY <2>4
<1>3. Turns(max) \in T
  <2> DEFINE N == Turns(max)
  <2>1. N \in Nat
    BY Zenon DEF Turns
  <2> HIDE DEF T, N
  <2>2. \A k \in 0 .. N : k \in T
    BY <1>1, <1>2, <2>1, Ascends
  <2> QED BY <2>1, <2>2 DEF N
<1> DEFINE acc == CHOOSE it : it = Body(it, Turns(max))
<1>4. acc = Body(acc, Turns(max))
  BY <1>3, ZenonT(30)
<1>5. WriteBlocks(s, max, size, buf) = acc[Turns(max)]
  BY Zenon DEF WriteBlocks, Then
<1> HIDE DEF acc
<1>6. acc[0] = s /\ Turns(max) \in Nat
  BY <1>3, <1>4, SMTT(30)
<1>7. ASSUME NEW k \in 0 .. Turns(max) - 1 PROVE acc[k + 1] = (IF acc[k].err = "Ok" THEN WriteNext(acc[k], max, size, buf) ELSE acc[k])
  <2>1. k + 1 \in 0 .. Turns(max) /\ k + 1 # 0 /\ (k + 1) - 1 = k
    BY <1>6
  <2> QED BY <1>4, <2>1, ZenonT(30)
<1> QED BY <1>5, <1>6, <1>7, ZenonT(30)


LEMMA WriteBlocksKeeps ==
  ASSUME Basics, NEW s, Sess(s), NEW max, NEW size, NEW buf
  PROVE  Sess(WriteBlocks(s, max, size, buf))
<1>1. PICK acc : /\ acc[0] = s
                 /\ \A i \in 0 .. Turns(max) - 1 :
                      acc[i + 1] = (IF acc[i].err = "Ok" THEN WriteNext(acc[i], max, size, buf) ELSE acc[i])
                 /\ WriteBlocks(s, max, size, buf) = acc[Turns(max)]
  BY WriteBlocksRuns, SMTT(30)
<1>2. Turns(max) \in Nat
  BY Zenon DEF Turns
<1> DEFINE T == {i \in Nat : Sess(acc[i])}
<1>3. 0 \in T /\ \A i \in 0 .. Turns(max) - 1 : i \in T => i + 1 \in T
  BY <1>1, <1>2, WriteNextKeeps, SMTT(30)
<1>4. \A i \in 0 .. Turns(max) : i \in T
  <2> HIDE DEF T
  <2> QED BY <1>2, <1>3, Ascends, Zenon
<1> QED BY <1>1, <1>2, <1>4, SMTT(30)

LEMMA WriteKeeps ==
  ASSUME Basics, NEW s, Sess(s), NEW buf
  PROVE  Sess(write(s, buf))
<1> DEFINE max == Least(Len(buf), DivCeil(s.size, TableSize) * TableSize - s.offset)
           x == flush(s)
           y == Loaded(x)
           a == [y EXCEPT !.ret = 0]
           b == PutWords(a, Least(max, TableSize - Column(y)), buf)
           here == IF InCache(y) THEN b ELSE a
           z == WriteBlocks(here, max, y.info.size, buf)
           c == [z EXCEPT !.size = s.offset + z.ret, !.loc.inode.size = s.offset + z.ret]
           d == update_inode(c)
<1>1. write(s, buf) \in {x, y, z, d}
  BY ZenonT(30) DEF write, Then
<1> HIDE DEF max
<1>3. Sess(x)
  BY HandleFlushKeeps, Zenon
<1> HIDE DEF x
<1>4. Sess(y)
  BY <1>3, LoadedKeeps, Zenon
<1> HIDE DEF y
<1>5. DOMAIN a = DOMAIN y /\ a.vol = y.vol
  BY <1>4, ZenonT(30) DEF Sess
<1> HIDE DEF a
<1>6. Sess(a)
  BY <1>4, <1>5, PlainKeeps, Zenon
<1>7. Sess(b)
  BY <1>6, PutWordsKeeps, Zenon
<1> HIDE DEF b
<1>8. Sess(here)
  BY <1>6, <1>7, Zenon
<1> HIDE DEF here
<1>9. Sess(z)
  BY <1>8, WriteBlocksKeeps, Zenon
<1> HIDE DEF z
<1>10. DOMAIN c = DOMAIN z /\ c.vol = z.vol
  BY <1>9, SMTT(30) DEF Sess
<1> HIDE DEF c
<1>11. Sess(c)
  BY <1>9, <1>10, PlainKeeps, Zenon
<1>12. Sess(d)
  BY <1>11, UpdateInodeKeeps, Zenon
<1> HIDE DEF d
<1> QED BY <1>1, <1>3, <1>4, <1>9, <1>12, Zenon

(* fwrite and dealloc_inode.                                              *)
LEMMA FwriteKeeps ==
  ASSUME Basics, NEW s, Sess(s), NEW buf
  PROVE  Sess(fwrite(s, buf))
<1> DEFINE a == Beyond(s, "panic")
           b == write(s, SubSeq(buf, 1, s.size - s.offset))
           c == grow(s, s.offset + Len(buf))
           d == write(c, buf)
           e == write(s, buf)
<1>1. fwrite(s, buf) \in {s, a, b, c, d, e}
  BY Zenon DEF fwrite, Then
<1>2. Sess(a)
  BY BeyondKeeps, Zenon
<1> HIDE DEF a
<1>3. Sess(b)
  BY WriteKeeps, Zenon
<1> HIDE DEF b
<1>4. Sess(c)
  BY GrowKeeps, Zenon
<1> HIDE DEF c
<1>5. Sess(d)
  BY <1>4, WriteKeeps, ZenonT(30)
<1> HIDE DEF d
<1>6. Sess(e)
  BY WriteKeeps, SMTT(30)
<1> HIDE DEF e
<1> QED BY <1>1, <1>2, <1>3, <1>4, <1>5, <1>6, ZenonT(30)

LEMMA DeallocInodeKeeps ==
  ASSUME Basics, NEW s, Sess(s)
  PROVE  Sess(dealloc_inode(s))
<1> DEFINE x == truncate(s, 0)
           y == flush(x)
           z == Vol(y, get_inode_allocator_for_group(y.vol, get_inode_group(s.loc.inode_i)))
           w == Vol(z, dealloc_inode_bit(z.vol, s.loc.inode_i))
<1>1. dealloc_inode(s) \in {x, y, z, w}
  BY Zenon DEF dealloc_inode, Then
<1>2. Sess(x)
  BY TruncateKeeps, ZenonT(30)
<1> HIDE DEF x
<1>3. Sess(y)
  BY <1>2, HandleFlushKeeps, Zenon
<1> HIDE DEF y
<1>4. Sess(z)
  BY <1>3, CallsKeep, Zenon
<1> HIDE DEF z
<1>5. Sess(w)
  BY <1>4, CallsKeep, Zenon
<1> HIDE DEF w
<1> QED BY <1>1, <1>2, <1>3, <1>4, <1>5, Zenon

-------------------------------------------------------------------------------
(* mkfs starts the books.                                                  *)
LEMMA NoBooks ==
  ASSUME NEW a, NEW b
  PROVE  {"bitmap", "superblock", "descriptor", "cache", "err"} \cap DOMAIN [block |-> a, inode |-> b] = {}
BY Zenon

LEMMA InitBooks ==
  ASSUME Basics, Init, BackupsFit
  PROVE  Sound(vol)
<1> DEFINE r == [block |-> [b \in Blocks |-> Words(0)], inode |-> [i \in Inodes |-> empty_inode]]
<1>1. vol = Both(r, Bitmaps(Reserved))
  BY Zenon DEF Init
<1>2. {"bitmap", "superblock", "descriptor", "cache", "err"} \cap DOMAIN r = {}
  BY NoBooks, ZenonT(30)
<1> HIDE DEF r
<1> QED BY <1>1, <1>2, MadeBooks, ZenonT(30) DEF Sound

-------------------------------------------------------------------------------
(* The steps.                                                              *)
LEMMA SessionStarts ==
  ASSUME NEW v, Sound(v), NEW h
  PROVE  Sess(Session(v, h))
BY Zenon DEF Session, Sess

LEMMA CreateKeeps ==
  ASSUME Basics, Sound(vol), Create
  PROVE  Sound(vol')
<1> DEFINE v == alloc_inode_any(vol)
<1>1. Books(v) /\ BackupsFit
  BY AnyKeeps, Zenon DEF alloc_inode_any, Kinds, Sound
<1>2. \/ vol' = [v EXCEPT !.inode[v.ret] = empty_inode, !.ret = 0] /\ v.err = "Ok"
      \/ vol' = [v EXCEPT !.err = "Ok", !.ret = 0]
  BY Zenon DEF Create, Created
<1> HIDE DEF v
<1>3. SameBooks(v, vol') /\ vol'.err = "Ok"
  BY <1>1, <1>2, ZenonT(30) DEF SameBooks, Books, Typed
<1> QED BY <1>1, <1>3, SameKeeps, ZenonT(30) DEF Sound

(* A call through a handle leaves the volume its session ends with.        *)
LEMMA Committed ==
  ASSUME NEW h, NEW s, Commit(h, s)
  PROVE  vol' = s.vol
BY Zenon DEF Commit

(* The state's books, as a predicate of the state.                         *)
InOrder == Sound(vol)

LEMMA NextKeeps ==
  ASSUME Basics, InOrder, [Next]_vars
  PROVE  InOrder'
<1>0. Sound(vol)
  BY Zenon DEF InOrder
<1> SUFFICES Sound(vol')
  BY Zenon DEF InOrder
<1>1. \A h : Sess(Session(vol, h))
  BY <1>0, SessionStarts, Zenon
<1>2. CASE Create
  BY <1>0, <1>2, CreateKeeps, ZenonT(30)
<1>3. ASSUME NEW i, NEW rest, Delete(i, rest) PROVE Sound(vol')
  <2> DEFINE s == Session(vol, new_handle(i, vol.inode[i], {"READ", "WRITE"}, rest))
  <2>1. Sess(s)
    BY <1>1, Zenon
  <2>2. vol' = dealloc_inode(s).vol
    BY <1>3, Zenon DEF Delete, Deleted
  <2> HIDE DEF s
  <2> QED BY <2>1, <2>2, DeallocInodeKeeps, ZenonT(30) DEF Sess
<1>4. ASSUME NEW h, NEW i, NEW m, NEW rest, fopen(h, i, m, rest) PROVE Sound(vol')
  BY <1>0, <1>4, ZenonT(30) DEF fopen
<1>5. ASSUME NEW h, fclose(h) PROVE Sound(vol')
  <2>1. vol' = flush(Session(vol, handle[h])).vol
    BY <1>5, ZenonT(30) DEF fclose
  <2> QED BY <1>1, <2>1, HandleFlushKeeps, ZenonT(30) DEF Sess
<1>6. ASSUME NEW h, ftruncate(h) PROVE Sound(vol')
  <2>1. vol' = truncate(Session(vol, handle[h]), handle[h].offset).vol
    BY <1>6, Committed, ZenonT(30) DEF ftruncate
  <2> QED BY <1>1, <2>1, TruncateKeeps, ZenonT(30) DEF Sess
<1>7. ASSUME NEW h, fflush(h) PROVE Sound(vol')
  <2>1. vol' = flush(Session(vol, handle[h])).vol
    BY <1>7, Committed, ZenonT(30) DEF fflush
  <2> QED BY <1>1, <2>1, HandleFlushKeeps, Zenon DEF Sess
<1>8. ASSUME NEW h, NEW p, fseek(h, p) PROVE Sound(vol')
  <2>1. vol' = seek(Session(vol, handle[h]), p).vol
    BY <1>8, Committed, ZenonT(30) DEF fseek
  <2> QED BY <1>1, <2>1, SeekKeeps, ZenonT(30) DEF Sess
<1>9. ASSUME NEW h, NEW n, fread(h, n) PROVE Sound(vol')
  <2>1. vol' = read(Session(vol, handle[h]), n).vol
    BY <1>9, Committed, ZenonT(30) DEF fread
  <2> QED BY <1>1, <2>1, ReadKeeps, ZenonT(30) DEF Sess
<1>10. ASSUME NEW h, NEW buf, Write(h, buf) PROVE Sound(vol')
  <2>1. vol' = fwrite(Session(vol, handle[h]), buf).vol
    BY <1>10, Committed, Zenon DEF Write, Written
  <2> QED BY <1>1, <2>1, FwriteKeeps, Zenon DEF Sess
<1>11. CASE fs_flush
  BY <1>0, <1>11, FlushKeeps, ZenonT(30) DEF fs_flush
<1>12. CASE Stopped \/ UNCHANGED vars
  BY <1>0, <1>12, ZenonT(30) DEF Stopped, vars
<1> QED BY <1>2, <1>3, <1>4, <1>5, <1>6, <1>7, <1>8, <1>9, <1>10, <1>11, <1>12, ZenonT(30) DEF Next

-------------------------------------------------------------------------------
INSTANCE FiniteSetTheorems

LEMMA NatHasLeast ==
  ASSUME NEW T \in SUBSET Nat, T # {}
  PROVE  \E x \in T : \A y \in T : x <= y
<1> DEFINE R == {p \in Nat \X Nat : p[1] < p[2]}
<1>1. IsWellFoundedOn(R, Nat)
  BY NatLessThanWellFounded, ZenonT(30) DEF OpToRel
<1>2. PICK x \in T : \A y \in T : ~(<<y, x>> \in R)
  <2> HIDE DEF R
  <2>1. T \subseteq Nat
    BY Zenon
  <2> QED BY <1>1, <2>1, WFMin, ZenonT(30)
<1>3. \A y \in T : ~(y < x)
  BY <1>2, ZenonT(30)
<1> QED BY <1>3, SMTT(30)

LEMMA BasicFacts == Basics
<1>1. \A T \in SUBSET Nat : T # {} => \E x \in T : \A y \in T : x <= y
  BY NatHasLeast, ZenonT(30)
<1>2. \A n \in Int : IsFiniteSet(0 .. n)
  BY FS_Interval, SMTT(30)
<1>3. ASSUME NEW S, IsFiniteSet(S)
      PROVE  /\ Cardinality(S) \in Nat
             /\ \A T \in SUBSET S : IsFiniteSet(T)
             /\ \A x : x \notin S => /\ IsFiniteSet(S \cup {x})
                                    /\ Cardinality(S \cup {x}) = Cardinality(S) + 1
             /\ \A x \in S : /\ IsFiniteSet(S \ {x})
                             /\ Cardinality(S \ {x}) = Cardinality(S) - 1
  <2>1. Cardinality(S) \in Nat
    BY <1>3, FS_CardinalityType, ZenonT(30)
  <2>2. \A T \in SUBSET S : IsFiniteSet(T)
    BY <1>3, FS_Subset, ZenonT(30)
  <2>3. \A x : x \notin S => /\ IsFiniteSet(S \cup {x})
                            /\ Cardinality(S \cup {x}) = Cardinality(S) + 1
    BY <1>3, FS_AddElement, SMTT(30)
  <2>4. \A x \in S : IsFiniteSet(S \ {x}) /\ Cardinality(S \ {x}) = Cardinality(S) - 1
    BY <1>3, FS_RemoveElement, SMTT(30)
  <2> QED BY <2>1, <2>2, <2>3, <2>4, ZenonT(30)
<1> QED BY <1>1, <1>2, <1>3, ZenonT(30) DEF Basics

(* The free counts of the superblock and of the descriptors, with what the *)
(* cached allocators still owe them, are those of the bitmaps after any    *)
(* sequence of calls of the file system, for every number and size of the  *)
(* groups and every capacity of the caches, as long as set_superblock      *)
(* reaches all its backups: where get_backup_groups names a group that the *)
(* volume does not have, an eviction ends between the superblock's count   *)
(* and the descriptor's.                                                   *)
THEOREM CountersStayExact == BackupsFit /\ Spec => []CountersExact
<1>1. BackupsFit /\ Init => InOrder
  BY BasicFacts, InitBooks, ZenonT(30) DEF InOrder
<1>2. InOrder /\ [Next]_vars => InOrder'
  BY BasicFacts, NextKeeps, ZenonT(30)
<1>3. InOrder => CountersExact
  BY BasicFacts, BooksCounted, ZenonT(30) DEF InOrder, Sound, CountersExact
<1> QED BY <1>1, <1>2, <1>3, PTL DEF Spec
===============================================================================
