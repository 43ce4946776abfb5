------------------------- MODULE BuddyAllocator_proof -------------------------
(***************************************************************************)
(* Proofs about BuddyAllocator, for every region size, every MAX_ORDER and *)
(* every sequence of requests.                                             *)
(***************************************************************************)
EXTENDS BuddyAllocator, TLAPS

-------------------------------------------------------------------------------
(* Facts about the free lists as sequences.                                *)

Injective(s) == \A i, j \in 1 .. Len(s) : s[i] = s[j] => i = j

(* consume: taking the head leaves the other blocks of the list.           *)
LEMMA TailFacts ==
  ASSUME NEW S, NEW s \in Seq(S), s # <<>>, Injective(s)
  PROVE  /\ Tail(s) \in Seq(S)
         /\ Head(s) \in Elems(s)
         /\ Elems(s) \subseteq S
         /\ Injective(Tail(s))
         /\ Elems(Tail(s)) = Elems(s) \ {Head(s)}
<1>1. /\ Len(s) \in Nat /\ Len(s) >= 1
      /\ Head(s) = s[1]
      /\ Tail(s) \in Seq(S)
      /\ Len(Tail(s)) = Len(s) - 1
      /\ \A i \in 1 .. (Len(s) - 1) : Tail(s)[i] = s[i + 1]
  OBVIOUS
<1>2. Injective(Tail(s))
  BY <1>1 DEF Injective
<1>3. Elems(Tail(s)) \subseteq Elems(s) \ {Head(s)}
  BY <1>1 DEF Injective, Elems
<1>4. Elems(s) \ {Head(s)} \subseteq Elems(Tail(s))
  <2> SUFFICES ASSUME NEW i \in 1 .. Len(s), s[i] # Head(s)
               PROVE  s[i] \in Elems(Tail(s))
    BY Zenon DEF Elems
  <2>1. i - 1 \in 1 .. (Len(s) - 1) /\ Tail(s)[i - 1] = s[i]
    BY <1>1
  <2> QED BY <1>1, <2>1, Zenon DEF Elems
<1>5. Elems(s) \subseteq S /\ Head(s) \in Elems(s)
  BY <1>1 DEF Elems
<1> QED BY <1>1, <1>2, <1>3, <1>4, <1>5, Zenon

(* add_free_block: pushing a block that is not on the list.                *)
LEMMA PushFacts ==
  ASSUME NEW S, NEW s \in Seq(S), NEW a \in S
  PROVE  /\ Push(s, a) \in Seq(S)
         /\ Elems(Push(s, a)) = Elems(s) \cup {a}
         /\ Injective(s) /\ a \notin Elems(s) => Injective(Push(s, a))
<1> DEFINE t == Push(s, a)
<1>1. /\ t \in Seq(S)
      /\ Len(s) \in Nat
      /\ Len(t) = Len(s) + 1
      /\ t[1] = a
      /\ \A i \in 1 .. Len(s) : t[i + 1] = s[i]
  BY DEF Push
<1>2. \A i \in 2 .. Len(t) : t[i] = s[i - 1] /\ i - 1 \in 1 .. Len(s)
  BY <1>1
<1> HIDE DEF t
<1>3. Elems(t) \subseteq Elems(s) \cup {a}
  BY <1>1, <1>2, SMTT(60) DEF Elems
<1>4. Elems(s) \cup {a} \subseteq Elems(t)
  <2>1. a \in Elems(t)
    BY <1>1 DEF Elems
  <2>2. ASSUME NEW i \in 1 .. Len(s) PROVE s[i] \in Elems(t)
    <3>1. i + 1 \in 1 .. Len(t) /\ t[i + 1] = s[i]
      BY <1>1
    <3> QED BY <3>1, Zenon DEF Elems
  <2> QED BY <2>1, <2>2, Zenon DEF Elems
<1>5. ASSUME Injective(s), a \notin Elems(s) PROVE Injective(t)
  <2> SUFFICES ASSUME NEW i \in 1 .. Len(t), NEW j \in 1 .. Len(t), t[i] = t[j]
               PROVE  i = j
    BY Zenon DEF Injective
  <2>1. CASE i = 1 /\ j = 1
    BY <2>1, Zenon
  <2>2. CASE i = 1 /\ j # 1
    BY <2>2, <1>1, <1>2, <1>5 DEF Elems
  <2>3. CASE i # 1 /\ j = 1
    BY <2>3, <1>1, <1>2, <1>5 DEF Elems
  <2>4. CASE i # 1 /\ j # 1
    <3>1. s[i - 1] = s[j - 1] /\ i - 1 \in 1 .. Len(s) /\ j - 1 \in 1 .. Len(s)
      BY <2>4, <1>1, <1>2
    <3> QED BY <3>1, <1>5, <1>1, SMTT(30) DEF Injective
  <2> QED BY <2>1, <2>2, <2>3, <2>4, Zenon
<1> QED BY <1>1, <1>3, <1>4, <1>5, Zenon DEF t

(* remove_free_block: unlinking the i-th block leaves the others.          *)
LEMMA UnlinkFacts ==
  ASSUME NEW S, NEW s \in Seq(S), NEW i \in 1 .. Len(s), Injective(s)
  PROVE  /\ Unlink(s, i) \in Seq(S)
         /\ Injective(Unlink(s, i))
         /\ Elems(Unlink(s, i)) = Elems(s) \ {s[i]}
<1> DEFINE t == Unlink(s, i)
<1>1. /\ Len(s) \in Nat /\ Len(s) >= 1
      /\ t \in Seq(S)
      /\ Len(t) = Len(s) - 1
      /\ \A j \in 1 .. (Len(s) - 1) : t[j] = IF j < i THEN s[j] ELSE s[j + 1]
  BY DEF Unlink
<1> HIDE DEF t
<1>2. Injective(t)
  BY <1>1, SMTT(30) DEF Injective
<1>3. Elems(t) \subseteq Elems(s) \ {s[i]}
  BY <1>1 DEF Injective, Elems
<1>4. Elems(s) \ {s[i]} \subseteq Elems(t)
  <2> SUFFICES ASSUME NEW j \in 1 .. Len(s), j # i
               PROVE  s[j] \in Elems(t)
    BY Zenon DEF Elems
  <2>1. CASE j < i
    <3>1. j \in 1 .. Len(t) /\ t[j] = s[j]
      BY <2>1, <1>1
    <3> QED BY <3>1, Zenon DEF Elems
  <2>2. CASE j > i
    <3>1. j - 1 \in 1 .. Len(t) /\ t[j - 1] = s[j]
      BY <2>2, <1>1
    <3> QED BY <3>1, Zenon DEF Elems
  <2> QED BY <2>1, <2>2
<1> QED BY <1>1, <1>2, <1>3, <1>4, Zenon DEF t

-------------------------------------------------------------------------------
(* Arithmetic of aligned blocks.                                           *)

Divides(n, q, r, a) == a = q * n + r

(* A quotient and a remainder below the divisor are the ones % computes.   *)
LEMMA ModUnique ==
  \A n \in Nat \ {0} : \A q, r, a \in Int :
    0 <= r /\ r < n /\ Divides(n, q, r, a) => a % n = r
<1> SUFFICES ASSUME NEW n \in Nat \ {0}, NEW q \in Int, NEW r \in Int, NEW a \in Int,
                    0 <= r, r < n, a = q * n + r
             PROVE  a % n = r
  BY Zenon DEF Divides
<1>1. a % n \in 0 .. (n - 1) /\ a \div n \in Int /\ a = n * (a \div n) + (a % n)
  OBVIOUS
<1> DEFINE d == a \div n
           m == a % n
<1>2. m \in 0 .. (n - 1) /\ d \in Int /\ (q - d) * n = m - r
  BY <1>1
<1> HIDE DEF d, m
<1>3. CASE q - d >= 1
  <2>1. (q - d) * n >= n
    BY <1>2, <1>3
  <2> QED BY <2>1, <1>2
<1>4. CASE q - d <= -1
  <2>1. (q - d) * n <= -n
    BY <1>2, <1>4
  <2> QED BY <2>1, <1>2
<1>5. CASE q - d = 0
  <2>1. (q - d) * n = 0
    BY <1>2, <1>5
  <2> QED BY <2>1, <1>2 DEF m
<1> QED BY <1>2, <1>3, <1>4, <1>5

LEMMA ModSplit ==
  \A n \in Nat \ {0} : \A a \in Int : \E q \in Int : Divides(n, q, a % n, a)
<1> SUFFICES ASSUME NEW n \in Nat \ {0}, NEW a \in Int
             PROVE  \E q \in Int : Divides(n, q, a % n, a)
  BY Zenon
<1>1. a \div n \in Int /\ a = n * (a \div n) + (a % n)
  OBVIOUS
<1>2. n * (a \div n) = (a \div n) * n
  BY <1>1
<1>3. a = (a \div n) * n + (a % n)
  BY <1>1, <1>2, Zenon
<1> QED BY <1>1, <1>3, Zenon DEF Divides

(* The halves of an aligned block are aligned to half its size.            *)
LEMMA HalvesAligned ==
  ASSUME NEW s \in Nat \ {0}, NEW t \in Nat \ {0}, t = 2 * s,
         NEW a \in Int, a % t = 0
  PROVE  a % s = 0 /\ (a + s) % s = 0
<1>1. PICK q \in Int : Divides(t, q, 0, a)
  BY ModSplit, Zenon
<1>2. Divides(s, 2 * q, 0, a) /\ Divides(s, 2 * q + 1, 0, a + s)
  BY <1>1 DEF Divides
<1>3. 0 \in Int /\ 0 <= 0 /\ 0 < s /\ a + s \in Int /\ 2 * q \in Int /\ 2 * q + 1 \in Int
  OBVIOUS
<1>4. a % s = 0
  BY <1>2, <1>3, ModUnique, Zenon
<1>5. (a + s) % s = 0
  BY <1>2, <1>3, ModUnique, Zenon
<1> QED BY <1>4, <1>5, Zenon

UpperHalf(a, s, t) == a % t = s /\ a >= s /\ (a - s) % t = 0

(* An aligned block is the lower or the upper half of its parent.          *)
LEMMA LowerOrUpper ==
  ASSUME NEW s \in Nat \ {0}, NEW t \in Nat \ {0}, t = 2 * s,
         NEW a \in Nat, a % s = 0
  PROVE  a % t = 0 \/ UpperHalf(a, s, t)
<1>1. PICK q \in Int : Divides(s, q, 0, a)
  BY ModSplit
<1>2. q >= 0
  <2> SUFFICES ASSUME q <= -1 PROVE FALSE
    OBVIOUS
  <2>1. q * s <= -s
    OBVIOUS
  <2> QED BY <1>1, <2>1 DEF Divides
<1>3. PICK j \in Nat : q = 2 * j \/ q = 2 * j + 1
  <2>1. q \div 2 \in Nat /\ (q = 2 * (q \div 2) \/ q = 2 * (q \div 2) + 1)
    BY <1>2
  <2> QED BY <2>1, Zenon
<1>4. /\ 0 \in Int /\ 0 <= 0 /\ 0 < t /\ s \in Int /\ 0 <= s /\ s < t
      /\ j \in Int /\ a \in Int /\ a - s \in Int
  OBVIOUS
<1>5. CASE q = 2 * j
  <2>1. Divides(t, j, 0, a)
    BY <1>1, <1>5 DEF Divides
  <2>2. a % t = 0
    BY <2>1, <1>4, ModUnique, Zenon
  <2> QED BY <2>2, Zenon
<1>6. CASE q = 2 * j + 1
  <2>1. Divides(t, j, s, a) /\ Divides(t, j, 0, a - s)
    BY <1>1, <1>6 DEF Divides
  <2>2. j * t >= 0
    OBVIOUS
  <2>3. a >= s
    BY <2>1, <2>2 DEF Divides
  <2>4. a % t = s
    BY <2>1, <1>4, ModUnique, Zenon
  <2>5. (a - s) % t = 0
    BY <2>1, <1>4, ModUnique, Zenon
  <2> QED BY <2>3, <2>4, <2>5, Zenon DEF UpperHalf
<1> QED BY <1>3, <1>5, <1>6, Zenon

(* The only aligned block that starts below its own size starts at 0.      *)
LEMMA SmallMultiple ==
  ASSUME NEW s \in Nat \ {0}, NEW a \in Nat, a % s = 0, a < s
  PROVE  a = 0
  OBVIOUS

LEMMA BlockPagesFacts ==
  ASSUME NEW o \in Orders
  PROVE  /\ BlockPages[o] \in Nat \ {0}
         /\ BlockPages[o + 1] \in Nat \ {0}
         /\ BlockPages[o + 1] = 2 * BlockPages[o]
  BY OrderAssumption DEF Orders

(* find_buddy: an aligned block and its buddy are the halves of the block  *)
(* that free merges them into.                                             *)
LEMMA BuddyFacts ==
  ASSUME NEW o \in Orders, NEW a \in Nat, Aligned(a, o)
  PROVE  /\ find_buddy(a, o) \in Nat
         /\ Smaller(a, find_buddy(a, o)) \in Nat
         /\ Smaller(a, find_buddy(a, o)) % BlockPages[o + 1] = 0
         /\ \/ /\ Smaller(a, find_buddy(a, o)) = a
               /\ find_buddy(a, o) = a + BlockPages[o]
            \/ /\ Smaller(a, find_buddy(a, o)) = a - BlockPages[o]
               /\ find_buddy(a, o) = a - BlockPages[o]
<1> DEFINE s == BlockPages[o]
           t == BlockPages[o + 1]
<1>1. s \in Nat \ {0} /\ t \in Nat \ {0} /\ t = 2 * s /\ a % s = 0
  BY BlockPagesFacts, Zenon DEF Aligned
<1>2. find_buddy(a, o) = IF a % t < s THEN a + s ELSE a - s
  BY Zenon DEF find_buddy
<1> HIDE DEF s, t
<1>3. a % t = 0 \/ UpperHalf(a, s, t)
  BY <1>1, LowerOrUpper, Zenon
<1>4. CASE a % t = 0
  <2>1. find_buddy(a, o) = a + s
    BY <1>1, <1>2, <1>4
  <2> QED BY <2>1, <1>1, <1>4 DEF Smaller, s, t
<1>5. CASE UpperHalf(a, s, t)
  <2>1. find_buddy(a, o) = a - s
    BY <1>1, <1>2, <1>5 DEF UpperHalf
  <2> QED BY <2>1, <1>1, <1>5 DEF UpperHalf, Smaller, s, t
<1> QED BY <1>3, <1>4, <1>5, Zenon

-------------------------------------------------------------------------------
(* How the steps of the allocator rearrange the blocks: F is the set of    *)
(* free blocks, H the block in hand, G the blocks held by callers.         *)

Placed(b) == Aligned(b[1], b[2]) /\ Span(b[1], b[2]) \subseteq Pages

Tiling(F, H, G) ==
  /\ \A b \in F \cup H \cup G : Placed(b)
  /\ \A b, c \in F \cup H \cup G : Meet(b, c) => b = c
  /\ F \cap G = {}
  /\ F \cap H = {}
  /\ G \cap H = {}

Covers(B) == \A p \in Pages : \E b \in B : p \in Span(b[1], b[2])

LEMMA TilingOfState ==
  /\ (WellPlaced /\ NoSharing) <=> Tiling(FreeBlocks, HandBlocks, HeldBlocks)
  /\ NoLostPage <=> (pc # "init" => Covers(Blocks))
  BY Zenon DEF WellPlaced, NoSharing, Tiling, Placed, Blocks, NoLostPage, Covers

Halved(F, b, c) ==
  (F \ {<<b, c>>}) \cup {<<b, c - 1>>, <<b + BlockPages[c - 1], c - 1>>}

(* Splitting a free block into its halves.                                 *)
LEMMA SplitTiling ==
  ASSUME NEW F \in SUBSET (Pages \X Orders), NEW G \in SUBSET (Pages \X Orders),
         NEW c \in Orders \ {0}, NEW b \in Pages, <<b, c>> \in F,
         Tiling(F, {}, G), Covers(F \cup G)
  PROVE  /\ b + BlockPages[c - 1] \in Pages
         /\ Tiling(Halved(F, b, c), {}, G)
         /\ Covers(Halved(F, b, c) \cup G)
         /\ <<b, c - 1>> \notin F
         /\ <<b + BlockPages[c - 1], c - 1>> \notin F
<1> DEFINE h == BlockPages[c - 1]
           lo == <<b, c - 1>>
           hi == <<b + h, c - 1>>
           bc == <<b, c>>
<1>1. /\ c - 1 \in Orders /\ (c - 1) + 1 = c
      /\ h \in Nat \ {0} /\ BlockPages[c] = 2 * h
      /\ b \in Nat /\ PageCount \in Nat
  <2>1. c - 1 \in Orders /\ (c - 1) + 1 = c
    BY OrderAssumption DEF Orders
  <2>2. b \in Nat /\ PageCount \in Nat
    BY RegionAssumption DEF Pages
  <2> QED BY <2>1, <2>2, BlockPagesFacts, Zenon
<1>2. Aligned(b, c) /\ Span(b, c) \subseteq Pages
  BY DEF Tiling, Placed
<1>3. Aligned(b, c - 1) /\ Aligned(b + h, c - 1)
  BY <1>1, <1>2, HalvesAligned DEF Aligned
<1>4. b + h \in Span(b, c) /\ b \in Span(b, c)
  BY <1>1 DEF Span
<1>5. Span(b, c) = Span(b, c - 1) \cup Span(b + h, c - 1)
      /\ Span(b, c - 1) \cap Span(b + h, c - 1) = {}
  BY <1>1 DEF Span
<1>6. Placed(lo) /\ Placed(hi)
  BY <1>2, <1>3, <1>5, Zenon DEF Placed
<1>7. ~Meet(lo, hi) /\ ~Meet(hi, lo)
  BY <1>5, Zenon DEF Meet
<1>8. \A d \in (F \cup G) \ {bc} : ~Meet(d, lo) /\ ~Meet(lo, d) /\ ~Meet(d, hi) /\ ~Meet(hi, d)
  <2> TAKE d \in (F \cup G) \ {bc}
  <2>1. ~Meet(d, bc)
    BY Zenon DEF Tiling
  <2> QED BY <2>1, <1>5, Zenon DEF Meet
<1>9. Meet(lo, lo) /\ Meet(hi, hi) /\ lo # bc /\ hi # bc /\ lo # hi
  <2>1. b \in Span(b, c - 1) /\ b + h \in Span(b + h, c - 1)
    BY <1>1 DEF Span
  <2>2. Meet(lo, lo) /\ Meet(hi, hi)
    BY <2>1, Zenon DEF Meet
  <2>3. c # c - 1 /\ b # b + h
    BY <1>1 DEF Orders
  <2> QED BY <2>2, <2>3, Zenon
<1>10. lo \notin F \cup G /\ hi \notin F \cup G
  BY <1>8, <1>9, Zenon
<1> DEFINE F2 == (F \ {bc}) \cup {lo, hi}
<1>11. Tiling(F2, {}, G)
  <2>1. \A x \in F2 \cup {} \cup G : Placed(x)
    BY <1>6, Zenon DEF Tiling
  <2>2. \A x, y \in F2 \cup {} \cup G : Meet(x, y) => x = y
    <3> SUFFICES ASSUME NEW x \in F2 \cup G, NEW y \in F2 \cup G, Meet(x, y)
                 PROVE  x = y
      BY Zenon
    <3>0. bc \notin F2 /\ bc \notin G
      BY <1>9, Zenon DEF Tiling
    <3>1. CASE x \in {lo, hi} /\ y \in {lo, hi}
      BY <3>1, <1>7
    <3>2. CASE x \in {lo, hi} /\ y \notin {lo, hi}
      BY <3>0, <3>2, <1>8, Zenon
    <3>3. CASE x \notin {lo, hi} /\ y \in {lo, hi}
      BY <3>0, <3>3, <1>8, Zenon
    <3>4. CASE x \notin {lo, hi} /\ y \notin {lo, hi}
      BY <3>4, Zenon DEF Tiling
    <3> QED BY <3>1, <3>2, <3>3, <3>4, Zenon
  <2>3. F2 \cap G = {}
    BY <1>10, Zenon DEF Tiling
  <2> HIDE DEF F2
  <2> QED BY <2>1, <2>2, <2>3, Zenon DEF Tiling
<1>12. Covers(F2 \cup G)
  <2> SUFFICES ASSUME NEW p \in Pages
               PROVE  \E d \in F2 \cup G : p \in Span(d[1], d[2])
    BY Zenon DEF Covers
  <2>1. PICK d \in F \cup G : p \in Span(d[1], d[2])
    BY Zenon DEF Covers
  <2>2. CASE d = bc
    <3>1. p \in Span(b, c - 1) \/ p \in Span(b + h, c - 1)
      BY <2>1, <2>2, <1>5, Zenon
    <3>2. lo \in F2 /\ hi \in F2 /\ lo[1] = b /\ lo[2] = c - 1 /\ hi[1] = b + h /\ hi[2] = c - 1
      BY Zenon
    <3> QED BY <3>1, <3>2, Zenon
  <2>3. CASE d # bc
    BY <2>1, <2>3, Zenon
  <2> QED BY <2>2, <2>3, Zenon
<1> QED BY <1>2, <1>4, <1>10, <1>11, <1>12, Zenon DEF Halved

(* Merging the block in hand with its free buddy; above MAX_ORDER this     *)
(* never happens, so the merged block is never dropped.                    *)
LEMMA MergeTiling ==
  ASSUME NEW F \in SUBSET (Pages \X Orders), NEW G \in SUBSET (Pages \X Orders),
         NEW o \in Orders, NEW a \in Pages, NEW b \in Pages, b = find_buddy(a, o),
         <<b, o>> \in F, Tiling(F, {<<a, o>>}, G), Covers(F \cup {<<a, o>>} \cup G)
  PROVE  /\ o # MaxOrder
         /\ Smaller(a, b) \in Pages
         /\ Tiling(F \ {<<b, o>>}, {<<Smaller(a, b), o + 1>>}, G)
         /\ Covers((F \ {<<b, o>>}) \cup {<<Smaller(a, b), o + 1>>} \cup G)
<1> DEFINE s == BlockPages[o]
           m == Smaller(a, b)
           ao == <<a, o>>
           bo == <<b, o>>
           mo == <<m, o + 1>>
           F2 == F \ {bo}
<1>1. s \in Nat \ {0} /\ BlockPages[o + 1] = 2 * s /\ a \in Nat /\ b \in Nat
      /\ PageCount \in Nat
  BY BlockPagesFacts, RegionAssumption DEF Pages
<1>2. /\ Aligned(a, o) /\ Span(a, o) \subseteq Pages
      /\ Aligned(b, o) /\ Span(b, o) \subseteq Pages
  <2>1. Placed(ao) /\ Placed(bo)
    BY Zenon DEF Tiling
  <2> QED BY <2>1, Zenon DEF Placed
<1>3. /\ m \in Nat /\ m % BlockPages[o + 1] = 0
      /\ (m = a /\ b = a + s) \/ (m = a - s /\ b = a - s)
  BY <1>1, <1>2, BuddyFacts, Zenon
<1>4. Span(m, o + 1) = Span(a, o) \cup Span(b, o)
  BY <1>1, <1>3 DEF Span
<1>5. m \in Pages
  BY <1>1, <1>3, Zenon DEF Pages
<1>6. o # MaxOrder
  <2> SUFFICES ASSUME o = MaxOrder PROVE FALSE
    BY Zenon
  <2>1. m + 2 * s - 1 \in Span(m, o + 1)
    BY <1>1, <1>3 DEF Span
  <2>2. m + 2 * s - 1 < PageCount
    BY <2>1, <1>2, <1>4, <1>1 DEF Pages
  <2>3. PageCount < 2 * s
    BY <1>1, RegionAssumption, Zenon
  <2> QED BY <2>2, <2>3, <1>1, <1>3
<1>7. Placed(mo)
  BY <1>2, <1>3, <1>4, Zenon DEF Placed, Aligned
<1>8. \A d \in (F2 \cup G) : ~Meet(d, mo) /\ ~Meet(mo, d)
  <2> TAKE d \in F2 \cup G
  <2>1. d # ao /\ d # bo
    BY Zenon DEF Tiling
  <2>2. ~Meet(d, ao) /\ ~Meet(d, bo)
    BY <2>1, Zenon DEF Tiling
  <2> QED BY <2>2, <1>4, Zenon DEF Meet
<1>9. Meet(mo, mo)
  <2>1. m \in Span(m, o + 1)
    BY <1>1, <1>3 DEF Span
  <2> QED BY <2>1, Zenon DEF Meet
<1>10. mo \notin F2 \cup G
  BY <1>8, <1>9, Zenon
<1>11. Tiling(F2, {mo}, G)
  <2>1. \A x \in F2 \cup {mo} \cup G : Placed(x)
    BY <1>7, Zenon DEF Tiling
  <2>2. \A x, y \in F2 \cup {mo} \cup G : Meet(x, y) => x = y
    BY <1>8 DEF Tiling
  <2>3. F2 \cap G = {} /\ F2 \cap {mo} = {} /\ G \cap {mo} = {}
    BY <1>10 DEF Tiling
  <2> HIDE DEF F2, mo
  <2> QED BY <2>1, <2>2, <2>3, Zenon DEF Tiling
<1>12. Covers(F2 \cup {mo} \cup G)
  <2> SUFFICES ASSUME NEW p \in Pages
               PROVE  \E d \in F2 \cup {mo} \cup G : p \in Span(d[1], d[2])
    BY Zenon DEF Covers
  <2>1. PICK d \in F \cup {ao} \cup G : p \in Span(d[1], d[2])
    BY Zenon DEF Covers
  <2>2. CASE d = ao \/ d = bo
    <3>1. p \in Span(m, o + 1)
      BY <2>1, <2>2, <1>4
    <3>2. mo[1] = m /\ mo[2] = o + 1
      BY Zenon
    <3> QED BY <3>1, <3>2, Zenon
  <2>3. CASE d # ao /\ d # bo
    BY <2>1, <2>3, Zenon
  <2> QED BY <2>2, <2>3, Zenon
<1> QED BY <1>5, <1>6, <1>11, <1>12, Zenon

-------------------------------------------------------------------------------
(* The inductive invariant.                                                *)

LEMMA InitIInv == Init => IInv
<1> SUFFICES ASSUME Init PROVE IInv
  BY Zenon
<1>1. /\ MaxOrder \in Orders /\ 0 \in Orders /\ MaxOrder \in Nat
      /\ BlockPages[MaxOrder + 1] \in Nat \ {0}
      /\ PageCount \in Nat /\ PageCount < BlockPages[MaxOrder + 1]
  BY OrderAssumption, RegionAssumption, BlockPagesFacts DEF Orders
<1>2. \A o \in Orders : free_lists[o] = <<>> /\ Elems(free_lists[o]) = {}
  BY DEF Init, Elems
<1>3. FreeBlocks = {} /\ HandBlocks = {} /\ HeldBlocks = {}
  BY <1>2, Zenon DEF Init, FreeBlocks, HandBlocks, HeldBlocks
<1>4. TypeOK
  <2>1. free_lists \in [Orders -> Seq(Pages)] /\ orders \in [Pages -> Orders \cup {NoOrder}]
    BY <1>1 DEF Init
  <2>2. cur \in [addr : Nat, order : Orders, want : Orders, arg : Nat]
    BY <1>1, Zenon DEF Init, NoCall
  <2>3. result \in [pages : Nat, addr : Pages \cup {Null}]
    BY Zenon DEF Init
  <2>4. allocated_pages \in Int /\ pc \in {"init", "idle", "split", "merge"}
    BY SMT DEF Init
  <2>5. ready \in BOOLEAN
    BY Zenon DEF Init
  <2> QED BY <2>1, <2>2, <2>3, <2>4, <2>5, Zenon DEF TypeOK
<1>5. WellPlaced /\ NoSharing
  BY <1>3, Zenon DEF WellPlaced, NoSharing, Blocks
<1>6. NoDuplicates
  BY <1>2 DEF NoDuplicates
<1>7. NoLostPage /\ CallProgress
  BY Zenon DEF Init, NoLostPage, CallProgress
<1>8. InitProgress
  <2>1. cur.addr = 0 /\ cur.order = MaxOrder /\ ~ready
    BY Zenon DEF Init, NoCall
  <2>2. 0 % BlockPages[MaxOrder + 1] = 0
    BY <1>1
  <2>3. 0 .. (0 - 1) = {}
    OBVIOUS
  <2> QED BY <1>1, <1>2, <1>3, <2>1, <2>2, <2>3 DEF InitProgress, Orders
<1> QED BY <1>4, <1>5, <1>6, <1>7, <1>8, Zenon DEF IInv

(* Of the blocks in the region, init's next one is disjoint from all the   *)
(* earlier ones because they lie below curr_page.                          *)
LEMMA InitBlockStep ==
  ASSUME IInv, InitBlock
  PROVE  IInv' /\ FreeBlocks' = FreeBlocks \cup {<<cur.addr, cur.order>>}
<1>0. /\ TypeOK /\ WellPlaced /\ NoDuplicates /\ NoSharing /\ InitProgress
      /\ pc = "init" /\ ~ready
  BY Zenon DEF IInv, InitBlock, InitProgress
<1> DEFINE a == cur.addr
           o == cur.order
           s == BlockPages[o]
           ao == <<a, o>>
<1>1. /\ o \in Orders /\ a \in Nat /\ s \in Nat \ {0} /\ BlockPages[o + 1] = 2 * s
      /\ PageCount \in Nat /\ a + s <= PageCount /\ a \in Pages
      /\ BlockPages[o + 1] \in Nat \ {0} /\ o \in Nat /\ MaxOrder \in Nat
  <2>1. o \in Orders /\ a \in Nat /\ PageCount - a >= s /\ o \in Nat
    BY <1>0 DEF TypeOK, InitBlock, Orders
  <2>2. s \in Nat \ {0} /\ BlockPages[o + 1] = 2 * s /\ BlockPages[o + 1] \in Nat \ {0}
    BY <2>1, BlockPagesFacts, Zenon
  <2>3. PageCount \in Nat /\ MaxOrder \in Nat
    BY RegionAssumption, OrderAssumption, Zenon
  <2> QED BY <2>1, <2>2, <2>3 DEF Pages
<1>2. /\ a % BlockPages[o + 1] = 0 /\ PageCount - a < 2 * s
      /\ free_lists[o] = <<>>
      /\ \A d \in 0 .. o : free_lists[d] = <<>>
      /\ \A b \in FreeBlocks : b[1] + BlockPages[b[2]] <= a
      /\ \A p \in 0 .. (a - 1) : \E b \in FreeBlocks : p \in Span(b[1], b[2])
  BY <1>0, <1>1, SMTT(30) DEF InitProgress
<1>3. Aligned(a, o) /\ (a + s) % s = 0
  <2>1. a \in Int
    BY <1>1
  <2>2. a % s = 0 /\ (a + s) % s = 0
    BY <1>1, <1>2, <2>1, HalvesAligned, Zenon
  <2> QED BY <2>2, Zenon DEF Aligned
<1>4. /\ free_lists' = [free_lists EXCEPT ![o] = <<a>>]
      /\ free_lists \in [Orders -> Seq(Pages)]
      /\ <<a>> \in Seq(Pages) /\ Elems(<<a>>) = {a}
  BY <1>0, <1>1 DEF TypeOK, InitBlock, Elems
<1>5. /\ HandBlocks = {} /\ HeldBlocks = {} /\ HandBlocks' = {} /\ HeldBlocks' = {}
      /\ Elems(free_lists[o]) = {}
  BY <1>0, <1>2 DEF HandBlocks, HeldBlocks, InitBlock, NextInitOrder, Elems
<1>6. FreeBlocks' = FreeBlocks \cup {ao}
  <2>1. \A d \in Orders : Elems(free_lists'[d]) =
                            IF d = o THEN {a} ELSE Elems(free_lists[d])
    BY <1>1, <1>4, Zenon
  <2> QED BY <2>1, <1>1, <1>5 DEF FreeBlocks
<1>7. /\ cur' \in [addr : Nat, order : Orders, want : Orders, arg : Nat]
      /\ pc' \in {"init", "idle"}
      /\ pc' = "idle" => o = 0
      /\ pc' = "init" => o # 0 /\ cur'.order = o - 1 /\ cur'.addr = a + s
  <2>1. cur \in [addr : Nat, order : Orders, want : Orders, arg : Nat]
    BY <1>0, Zenon DEF TypeOK
  <2>2. NextInitOrder(a + s)
    BY Zenon DEF InitBlock
  <2>3. CASE o = 0
    BY <2>2, <2>3, <1>1 DEF NextInitOrder, NoCall
  <2>4. CASE o # 0
    <3>1. o - 1 \in Orders /\ a + s \in Nat
      BY <1>1, <2>4 DEF Orders
    <3> QED BY <2>1, <2>2, <3>1, <2>4, Zenon DEF NextInitOrder
  <2> QED BY <2>3, <2>4, Zenon
<1>8. TypeOK'
  <2>1. free_lists' \in [Orders -> Seq(Pages)]
    BY <1>1, <1>4, Zenon
  <2> QED BY <1>0, <1>7, <2>1, Zenon DEF TypeOK, InitBlock
<1>def. s = BlockPages[o] /\ ao[1] = a /\ ao[2] = o
  BY Zenon
<1> HIDE DEF a, o, s, ao
<1>9. NoDuplicates'
  BY <1>0, <1>1, <1>4 DEF NoDuplicates
<1>10. Placed(ao) /\ \A b \in FreeBlocks : ~Meet(b, ao) /\ ~Meet(ao, b)
  <2>1. Span(a, o) \subseteq Pages
    BY <1>1, <1>def DEF Span, Pages
  <2>2. ASSUME NEW b \in FreeBlocks
        PROVE  Span(b[1], b[2]) \cap Span(a, o) = {}
    <3>1. b[1] \in Nat /\ BlockPages[b[2]] \in Nat \ {0}
      BY BlockPagesFacts DEF FreeBlocks, Pages
    <3>2. b[1] + BlockPages[b[2]] <= a
      BY <1>2, Zenon
    <3> QED BY <1>1, <1>def, <3>1, <3>2 DEF Span
  <2> QED BY <1>3, <1>def, <2>1, <2>2 DEF Placed, Meet
<1>12. (WellPlaced /\ NoSharing)'
  <2>1. \A b \in FreeBlocks : Placed(b)
    BY <1>0, Zenon DEF WellPlaced, Blocks, Placed
  <2>2. \A b, c \in FreeBlocks : Meet(b, c) => b = c
    BY <1>0, Zenon DEF NoSharing, Blocks
  <2>3. Tiling(FreeBlocks \cup {ao}, {}, {})
    BY <2>1, <2>2, <1>10, Zenon DEF Tiling
  <2>4. Tiling(FreeBlocks', HandBlocks', HeldBlocks')
    BY <2>3, <1>5, <1>6, Zenon
  <2> QED BY <2>4, Zenon DEF WellPlaced, NoSharing, Blocks, Tiling, Placed
<1>13. \A p \in 0 .. (a + s - 1) : \E b \in FreeBlocks' : p \in Span(b[1], b[2])
  <2> TAKE p \in 0 .. (a + s - 1)
  <2>1. CASE p < a
    <3>1. p \in 0 .. (a - 1)
      BY <2>1, <1>1
    <3> QED BY <3>1, <1>2, <1>6, Zenon
  <2>2. CASE p >= a
    <3>1. p \in Span(ao[1], ao[2])
      BY <2>2, <1>1, <1>def DEF Span
    <3> QED BY <3>1, <1>6, Zenon
  <2> QED BY <1>1, <2>1, <2>2
<1>14. NoLostPage'
  <2> SUFFICES ASSUME pc' = "idle" PROVE NoLostPage'
    BY <1>7, Zenon DEF NoLostPage
  <2>1. o = 0 /\ s = 1
    BY <1>7, <1>def, OrderAssumption, Zenon
  <2>2. PageCount = a + s
    BY <2>1, <1>1, <1>2
  <2>3. Pages = 0 .. (a + s - 1)
    BY <2>2, <1>1 DEF Pages
  <2> QED BY <2>3, <1>13, Zenon DEF NoLostPage, Blocks
<1>15. InitProgress'
  <2> SUFFICES ASSUME pc' = "init" PROVE InitProgress'
    BY Zenon DEF InitProgress
  <2>1. o # 0 /\ cur'.order = o - 1 /\ cur'.addr = a + s /\ (o - 1) + 1 = o
    BY <1>7, <1>1
  <2>2. ready' = FALSE
    BY <1>0 DEF InitBlock
  <2>3. cur'.addr % BlockPages[cur'.order + 1] = 0
    BY <1>3, <2>1, <1>def, Zenon
  <2>4. cur'.addr <= PageCount /\ PageCount - cur'.addr < BlockPages[cur'.order + 1]
    BY <1>1, <1>2, <2>1, <1>def, SMTT(60)
  <2>5. \A d \in 0 .. cur'.order : free_lists'[d] = <<>>
    <3> TAKE d \in 0 .. cur'.order
    <3>1. d \in 0 .. o /\ d # o /\ d \in Orders
      BY <1>1, <2>1 DEF Orders
    <3> QED BY <3>1, <1>2, <1>4, Zenon
  <2>6. \A b \in FreeBlocks' : b[1] + BlockPages[b[2]] <= cur'.addr
    <3> TAKE b \in FreeBlocks'
    <3>1. CASE b = ao
      BY <3>1, <2>1, <1>1, <1>def
    <3>2. CASE b \in FreeBlocks
      <4>1. b[1] \in Nat /\ BlockPages[b[2]] \in Nat \ {0}
        BY <3>2, BlockPagesFacts DEF FreeBlocks, Pages
      <4>2. b[1] + BlockPages[b[2]] <= a
        BY <3>2, <1>2, Zenon
      <4>3. a \in Nat /\ s \in Nat /\ cur'.addr = a + s
        BY <1>1, <2>1, Zenon
      <4> HIDE DEF a, s
      <4> QED BY <4>1, <4>2, <4>3, SMTT(60)
    <3> QED BY <3>1, <3>2, <1>6, Zenon
  <2>7. \A p \in 0 .. (cur'.addr - 1) : \E b \in FreeBlocks' : p \in Span(b[1], b[2])
    <3>1. cur'.addr - 1 = a + s - 1
      BY <1>1, <2>1
    <3> QED BY <1>13, <3>1, Zenon
  <2> QED BY <2>2, <2>3, <2>4, <2>5, <2>6, <2>7, Zenon DEF InitProgress
<1>16. CallProgress'
  BY <1>7, Zenon DEF CallProgress
<1>17. IInv'
  BY <1>8, <1>9, <1>12, <1>14, <1>15, <1>16, Zenon DEF IInv
<1> QED BY <1>6, <1>17, Zenon DEF ao, a, o

(* A step that leaves the lists and the order table alone, and neither     *)
(* starts nor ends a merge, leaves the blocks alone.                       *)
LEMMA SameBlocks ==
  ASSUME UNCHANGED <<free_lists, orders, ready>>, pc # "merge", pc' # "merge"
  PROVE  /\ FreeBlocks' = FreeBlocks
         /\ HandBlocks' = HandBlocks
         /\ HeldBlocks' = HeldBlocks
         /\ Blocks' = Blocks
         /\ NoDuplicates => NoDuplicates'
         /\ WellPlaced => WellPlaced'
         /\ NoSharing => NoSharing'
<1>1. FreeBlocks' = FreeBlocks /\ HandBlocks' = HandBlocks /\ HeldBlocks' = HeldBlocks
  BY Zenon DEF FreeBlocks, HandBlocks, HeldBlocks
<1> QED BY <1>1, Zenon DEF Blocks, NoDuplicates, WellPlaced, NoSharing

LEMMA InitSkipStep == IInv /\ InitSkip => IInv'
<1> SUFFICES ASSUME IInv, InitSkip PROVE IInv'
  BY Zenon
<1>0. TypeOK /\ WellPlaced /\ NoDuplicates /\ NoSharing /\ InitProgress /\ pc = "init" /\ ~ready
  BY Zenon DEF IInv, InitSkip, InitProgress
<1> DEFINE a == cur.addr
           o == cur.order
           s == BlockPages[o]
<1>1. /\ o \in Orders /\ a \in Nat /\ s \in Nat \ {0} /\ BlockPages[o + 1] = 2 * s
      /\ PageCount \in Nat /\ PageCount - a < s /\ a <= PageCount
      /\ BlockPages[o + 1] \in Nat \ {0} /\ o \in Nat /\ MaxOrder \in Nat
  <2>1. o \in Orders /\ a \in Nat /\ PageCount - a < s /\ o \in Nat /\ a <= PageCount
    BY <1>0 DEF TypeOK, InitSkip, InitProgress, Orders
  <2>2. s \in Nat \ {0} /\ BlockPages[o + 1] = 2 * s /\ BlockPages[o + 1] \in Nat \ {0}
    BY <2>1, BlockPagesFacts, Zenon
  <2> QED BY <2>1, <2>2, RegionAssumption, OrderAssumption, Zenon
<1>2. /\ a % BlockPages[o + 1] = 0
      /\ \A d \in 0 .. o : free_lists[d] = <<>>
      /\ \A b \in FreeBlocks : b[1] + BlockPages[b[2]] <= a
      /\ \A p \in 0 .. (a - 1) : \E b \in FreeBlocks : p \in Span(b[1], b[2])
  BY <1>0, <1>1, Zenon DEF InitProgress
<1>3. a % s = 0
  <2>1. a \in Int
    BY <1>1
  <2> QED BY <1>1, <1>2, <2>1, HalvesAligned, Zenon
<1>4. /\ cur' \in [addr : Nat, order : Orders, want : Orders, arg : Nat]
      /\ pc' \in {"init", "idle"}
      /\ pc' = "idle" => o = 0
      /\ pc' = "init" => o # 0 /\ cur'.order = o - 1 /\ cur'.addr = a
  <2>1. cur \in [addr : Nat, order : Orders, want : Orders, arg : Nat]
    BY <1>0, Zenon DEF TypeOK
  <2>2. NextInitOrder(a)
    BY Zenon DEF InitSkip
  <2>3. CASE o = 0
    BY <2>2, <2>3, <1>1 DEF NextInitOrder, NoCall
  <2>4. CASE o # 0
    <3>1. o - 1 \in Orders
      BY <1>1, <2>4 DEF Orders
    <3> QED BY <2>1, <2>2, <3>1, <2>4, Zenon DEF NextInitOrder
  <2> QED BY <2>3, <2>4, Zenon
<1>5. UNCHANGED <<free_lists, orders, ready>> /\ pc # "merge" /\ pc' # "merge"
  BY <1>0, <1>4, Zenon DEF InitSkip
<1>6. TypeOK'
  BY <1>0, <1>4, Zenon DEF TypeOK, InitSkip
<1>7. (WellPlaced /\ NoDuplicates /\ NoSharing)'
  BY <1>0, <1>5, SameBlocks, Zenon
<1>8. FreeBlocks' = FreeBlocks /\ Blocks' = Blocks /\ s = BlockPages[o]
  BY <1>5, SameBlocks, Zenon
<1> HIDE DEF a, o, s
<1>9. NoLostPage'
  <2> SUFFICES ASSUME pc' = "idle" PROVE NoLostPage'
    BY <1>4, Zenon DEF NoLostPage
  <2>1. s = 1
    BY <1>4, <1>8, OrderAssumption, Zenon
  <2>2. PageCount = a
    BY <2>1, <1>1
  <2> QED BY <2>2, <1>2, <1>8, Zenon DEF NoLostPage, Blocks, Pages
<1>10. InitProgress'
  <2> SUFFICES ASSUME pc' = "init" PROVE InitProgress'
    BY Zenon DEF InitProgress
  <2>1. o # 0 /\ cur'.order = o - 1 /\ cur'.addr = a /\ (o - 1) + 1 = o
    BY <1>1, <1>4
  <2>2. ready' = FALSE
    BY <1>0 DEF InitSkip
  <2>3. cur'.addr % BlockPages[cur'.order + 1] = 0
    BY <1>3, <1>8, <2>1, Zenon
  <2>4. cur'.addr <= PageCount /\ PageCount - cur'.addr < BlockPages[cur'.order + 1]
    BY <1>1, <1>8, <2>1, Zenon
  <2>5. \A d \in 0 .. cur'.order : free_lists'[d] = <<>>
    BY <1>1, <1>2, <1>5, <2>1
  <2> QED BY <2>1, <2>2, <2>3, <2>4, <2>5, <1>2, <1>8, Zenon DEF InitProgress
<1>11. CallProgress'
  BY <1>4, Zenon DEF CallProgress
<1> QED BY <1>6, <1>7, <1>9, <1>10, <1>11, Zenon DEF IInv

LEMMA AllocBeginStep == ASSUME NEW n \in Nat PROVE IInv /\ AllocBegin(n) => IInv'
<1> SUFFICES ASSUME IInv, AllocBegin(n) PROVE IInv'
  BY Zenon
<1>1. PICK o \in Orders, c \in Orders :
        /\ FirstNonEmpty(o, c)
        /\ cur' = [addr |-> 0, order |-> c, want |-> o, arg |-> n]
  BY Zenon DEF AllocBegin
<1>2. UNCHANGED <<free_lists, allocated_pages, orders, ready, result>> /\ pc = "idle" /\ pc' = "split"
  BY Zenon DEF AllocBegin
<1>3. TypeOK'
  BY <1>1, <1>2, Zenon DEF IInv, TypeOK
<1>4. (WellPlaced /\ NoDuplicates /\ NoSharing)' /\ Blocks' = Blocks
  BY <1>2, SameBlocks, Zenon DEF IInv
<1>5. NoLostPage'
  BY <1>2, <1>4, Zenon DEF IInv, NoLostPage
<1>6. CallProgress'
  BY <1>1, <1>2, SMTT(30) DEF CallProgress, FirstNonEmpty, Orders
<1>7. InitProgress'
  BY <1>2, Zenon DEF InitProgress
<1> QED BY <1>3, <1>4, <1>5, <1>6, <1>7, Zenon DEF IInv

LEMMA AllocNoneStep == ASSUME NEW n \in Nat PROVE IInv /\ AllocNone(n) => IInv'
<1> SUFFICES ASSUME IInv, AllocNone(n) PROVE IInv'
  BY Zenon
<1>1. UNCHANGED <<free_lists, allocated_pages, orders, ready, pc, cur>> /\ pc = "idle"
  BY Zenon DEF AllocNone
<1>2. TypeOK'
  BY <1>1, Zenon DEF IInv, TypeOK, AllocNone
<1>3. (WellPlaced /\ NoDuplicates /\ NoSharing)' /\ Blocks' = Blocks
  BY <1>1, SameBlocks, Zenon DEF IInv
<1> QED BY <1>1, <1>2, <1>3, Zenon DEF IInv, NoLostPage, InitProgress, CallProgress

LEMMA StutterStep == IInv /\ UNCHANGED vars => IInv'
<1> SUFFICES ASSUME IInv, UNCHANGED vars PROVE IInv'
  BY Zenon
<1>1. UNCHANGED <<free_lists, allocated_pages, orders, ready, pc, cur, result>>
  BY Zenon DEF vars
<1>2. FreeBlocks' = FreeBlocks /\ HandBlocks' = HandBlocks /\ HeldBlocks' = HeldBlocks
  BY <1>1, Zenon DEF FreeBlocks, HandBlocks, HeldBlocks
<1>3. Blocks' = Blocks
  BY <1>2, Zenon DEF Blocks
<1>4. (WellPlaced /\ NoDuplicates /\ NoSharing /\ NoLostPage)'
  BY <1>1, <1>2, <1>3 DEF IInv, WellPlaced, NoDuplicates, NoSharing, NoLostPage
<1>5. TypeOK'
  BY <1>1, Zenon DEF IInv, TypeOK
<1>6. (InitProgress /\ CallProgress)'
  BY <1>1, <1>2, Zenon DEF IInv, InitProgress, CallProgress
<1> QED BY <1>4, <1>5, <1>6, Zenon DEF IInv

LEMMA SplitStep ==
  ASSUME IInv, Split
  PROVE  /\ IInv'
         /\ cur.order \in Orders \ {0} /\ Head(free_lists[cur.order]) \in Pages
         /\ <<Head(free_lists[cur.order]), cur.order>> \in FreeBlocks
         /\ FreeBlocks' = Halved(FreeBlocks, Head(free_lists[cur.order]), cur.order)
         /\ cur'.order = cur.order - 1
         /\ Head(free_lists'[cur'.order]) = Head(free_lists[cur.order])
<1> DEFINE c == cur.order
           L == free_lists[c]
           K == free_lists[c - 1]
           b == Head(L)
           u == b + BlockPages[c - 1]
<1>0. TypeOK /\ NoDuplicates /\ CallProgress /\ NoLostPage /\ pc = "split" /\ pc' = "split"
      /\ UNCHANGED <<allocated_pages, orders, ready, result>>
      /\ Tiling(FreeBlocks, HandBlocks, HeldBlocks)
  BY TilingOfState, Zenon DEF IInv, Split
<1>1. /\ c \in Orders \ {0} /\ c - 1 \in Orders /\ c # c - 1
      /\ cur.want \in Orders /\ c > cur.want /\ cur.want <= c - 1
  <2>1. c \in Orders /\ cur.want \in Orders /\ c > cur.want
    BY <1>0, Zenon DEF TypeOK, Split
  <2>2. MaxOrder \in Nat
    BY OrderAssumption, Zenon
  <2> HIDE DEF c
  <2> QED BY <2>1, <2>2 DEF Orders
<1>2. /\ free_lists \in [Orders -> Seq(Pages)]
      /\ L \in Seq(Pages) /\ K \in Seq(Pages) /\ L # <<>>
      /\ Injective(L) /\ Injective(K)
  BY <1>0, <1>1, Zenon DEF TypeOK, NoDuplicates, Injective, CallProgress
<1>3. /\ Tail(L) \in Seq(Pages) /\ Injective(Tail(L)) /\ b \in Pages
      /\ b \in Elems(L) /\ Elems(Tail(L)) = Elems(L) \ {b}
  BY <1>2, TailFacts, Zenon
<1>4. <<b, c>> \in FreeBlocks
  BY <1>1, <1>3, Zenon DEF FreeBlocks
<1>5. /\ FreeBlocks \in SUBSET (Pages \X Orders) /\ HeldBlocks \in SUBSET (Pages \X Orders)
      /\ HandBlocks = {} /\ HandBlocks' = {} /\ HeldBlocks' = HeldBlocks
  BY <1>0, Zenon DEF FreeBlocks, HeldBlocks, HandBlocks
<1>6. Tiling(FreeBlocks, {}, HeldBlocks) /\ Covers(FreeBlocks \cup HeldBlocks)
  BY <1>0, <1>5, Zenon DEF NoLostPage, Covers, Blocks
<1> DEFINE F2 == Halved(FreeBlocks, b, c)
<1>7. /\ u \in Pages /\ Tiling(F2, {}, HeldBlocks) /\ Covers(F2 \cup HeldBlocks)
      /\ <<b, c - 1>> \notin FreeBlocks /\ <<u, c - 1>> \notin FreeBlocks
  <2> HIDE DEF b, c
  <2> QED BY <1>1, <1>3, <1>4, <1>5, <1>6, SplitTiling, Zenon
<1>8. b \notin Elems(K) /\ u \notin Elems(K) /\ b # u
  <2>1. b \notin Elems(K) /\ u \notin Elems(K)
    BY <1>1, <1>3, <1>7, Zenon DEF FreeBlocks
  <2>2. b \in Nat /\ BlockPages[c - 1] \in Nat \ {0}
    BY <1>1, <1>3, BlockPagesFacts DEF Pages
  <2> QED BY <2>1, <2>2
<1>9. /\ Push(Push(K, u), b) \in Seq(Pages)
      /\ Elems(Push(Push(K, u), b)) = Elems(K) \cup {u, b}
      /\ Injective(Push(Push(K, u), b))
  <2> HIDE DEF K, b, u
  <2>1. /\ Push(K, u) \in Seq(Pages) /\ Elems(Push(K, u)) = Elems(K) \cup {u}
        /\ Injective(Push(K, u))
    BY <1>2, <1>7, <1>8, PushFacts, SMTT(30)
  <2>2. b \notin Elems(Push(K, u)) /\ b \in Pages
    BY <2>1, <1>3, <1>8, Zenon
  <2>3. /\ Push(Push(K, u), b) \in Seq(Pages)
        /\ Elems(Push(Push(K, u), b)) = Elems(Push(K, u)) \cup {b}
        /\ Injective(Push(Push(K, u), b))
    BY <2>1, <2>2, PushFacts
  <2> QED BY <2>1, <2>3, Zenon
<1>10. free_lists' = [free_lists EXCEPT ![c] = Tail(L), ![c - 1] = Push(Push(K, u), b)]
  BY <1>1, <1>2, Zenon DEF Split
<1>11. \A d \in Orders :
         free_lists'[d] = IF d = c THEN Tail(L)
                          ELSE IF d = c - 1 THEN Push(Push(K, u), b)
                          ELSE free_lists[d]
  BY <1>1, <1>2, <1>10, Zenon
<1>12. FreeBlocks' = F2
  <2>1. \A d \in Orders :
          Elems(free_lists'[d]) = IF d = c THEN Elems(L) \ {b}
                                  ELSE IF d = c - 1 THEN Elems(K) \cup {u, b}
                                  ELSE Elems(free_lists[d])
    BY <1>3, <1>9, <1>11, Zenon
  <2>2. F2 = (FreeBlocks \ {<<b, c>>}) \cup {<<b, c - 1>>, <<u, c - 1>>}
    BY Zenon DEF Halved
  <2> HIDE DEF u, b, F2
  <2>3. FreeBlocks' \subseteq F2
    BY <2>1, <2>2, <1>1 DEF FreeBlocks
  <2>4. F2 \subseteq FreeBlocks'
    BY <2>1, <2>2, <1>1, <1>3, <1>7, SMTT(60) DEF FreeBlocks
  <2> QED BY <2>3, <2>4, Zenon
<1>13. TypeOK'
  <2>1. free_lists' \in [Orders -> Seq(Pages)]
    BY <1>1, <1>2, <1>3, <1>9, <1>10, Zenon
  <2>2. cur' \in [addr : Nat, order : Orders, want : Orders, arg : Nat]
    BY <1>0, <1>1, ZenonT(30) DEF TypeOK, Split
  <2> QED BY <1>0, <2>1, <2>2, Zenon DEF TypeOK
<1>14. NoDuplicates'
  <2>1. \A d \in Orders : Injective(free_lists[d])
    BY <1>0, Zenon DEF NoDuplicates, Injective
  <2>2. \A d \in Orders : Injective(free_lists'[d])
    BY <2>1, <1>3, <1>9, <1>11, Zenon
  <2> QED BY <2>2, Zenon DEF NoDuplicates, Injective
<1>15. (WellPlaced /\ NoSharing /\ NoLostPage)'
  <2>1. Tiling(FreeBlocks', HandBlocks', HeldBlocks') /\ Covers(FreeBlocks' \cup HeldBlocks')
    BY <1>5, <1>7, <1>12, Zenon
  <2> QED BY <2>1, Zenon DEF WellPlaced, NoSharing, NoLostPage, Blocks, Tiling, Placed, Covers
<1>16. InitProgress'
  BY <1>0, Zenon DEF InitProgress
<1>17. CallProgress'
  <2>1. cur'.order = c - 1 /\ cur'.want = cur.want
    BY <1>0, Zenon DEF TypeOK, Split
  <2>2. b \in Elems(Push(Push(K, u), b))
    BY <1>9, Zenon
  <2>3. free_lists'[c - 1] # <<>>
    <3>1. free_lists'[c - 1] = Push(Push(K, u), b)
      BY <1>1, <1>11, Zenon
    <3> QED BY <3>1, <2>2 DEF Elems
  <2> QED BY <2>1, <2>3, <1>0, <1>1, Zenon DEF CallProgress
<1>18. cur'.order = c - 1 /\ Head(free_lists'[c - 1]) = b
  <2>1. cur'.order = c - 1
    BY <1>0, Zenon DEF TypeOK, Split
  <2>2. Head(Push(Push(K, u), b)) = b
    <3>1. Push(K, u) \in Seq(Pages) /\ b \in Pages
      BY <1>2, <1>3, <1>7, PushFacts, ZenonT(30)
    <3> HIDE DEF b, u, K
    <3> QED BY <3>1, SMTT(30) DEF Push
  <2> QED BY <2>1, <2>2, <1>1, <1>11, Zenon
<1> QED BY <1>1, <1>3, <1>4, <1>12, <1>13, <1>14, <1>15, <1>16, <1>17, <1>18, Zenon DEF IInv

(* A block that moves between the free lists, the caller and the running   *)
(* free is still the only block on its pages.                              *)
LEMMA MoveTiling ==
  ASSUME NEW F, NEW H, NEW G, NEW b, Tiling(F, H, G)
  PROVE  /\ b \in F => Tiling(F \ {b}, H, G \cup {b})
         /\ b \in G => Tiling(F, H \cup {b}, G \ {b})
         /\ b \in H => Tiling(F \cup {b}, H \ {b}, G)
<1>1. CASE b \in F
  BY <1>1, Zenon DEF Tiling
<1>2. CASE b \in G
  BY <1>2, Zenon DEF Tiling
<1>3. CASE b \in H
  BY <1>3, Zenon DEF Tiling
<1> QED BY <1>1, <1>2, <1>3, Zenon DEF Tiling

LEMMA TakeStep ==
  ASSUME IInv, Take
  PROVE  /\ IInv'
         /\ cur.want \in Orders /\ Head(free_lists[cur.want]) \in Pages
         /\ <<Head(free_lists[cur.want]), cur.want>> \in FreeBlocks
         /\ FreeBlocks' = FreeBlocks \ {<<Head(free_lists[cur.want]), cur.want>>}
         /\ ready => orders[Head(free_lists[cur.want])] = NoOrder
<1> DEFINE o == cur.want
           L == free_lists[o]
           b == Head(L)
           bo == <<b, o>>
<1>0. TypeOK /\ NoDuplicates /\ CallProgress /\ NoLostPage /\ pc = "split" /\ pc' = "idle"
      /\ ready' = TRUE /\ cur' = NoCall /\ cur.order = o
      /\ Tiling(FreeBlocks, HandBlocks, HeldBlocks)
  BY TilingOfState, Zenon DEF IInv, Take
<1>1. /\ o \in Orders /\ free_lists \in [Orders -> Seq(Pages)]
      /\ orders \in [Pages -> Orders \cup {NoOrder}]
      /\ L \in Seq(Pages) /\ L # <<>> /\ Injective(L) /\ NoOrder \notin Orders
  <2>1. /\ o \in Orders /\ free_lists \in [Orders -> Seq(Pages)]
        /\ orders \in [Pages -> Orders \cup {NoOrder}]
    BY <1>0, Zenon DEF TypeOK
  <2>2. L # <<>> /\ Injective(L)
    BY <1>0, <2>1, Zenon DEF CallProgress, NoDuplicates, Injective
  <2>3. NoOrder \notin Orders
    BY OrderAssumption DEF NoOrder, Orders
  <2> QED BY <2>1, <2>2, <2>3, Zenon
<1>2. /\ Tail(L) \in Seq(Pages) /\ Injective(Tail(L)) /\ b \in Pages
      /\ b \in Elems(L) /\ Elems(Tail(L)) = Elems(L) \ {b}
  BY <1>1, TailFacts, SMTT(30)
<1>3. /\ free_lists' = [free_lists EXCEPT ![o] = Tail(L)]
      /\ orders' = [(IF ready THEN orders ELSE Blank) EXCEPT ![b] = o]
      /\ result' = [pages |-> cur.arg, addr |-> b]
      /\ allocated_pages' = allocated_pages + BlockPages[o]
  BY Zenon DEF Take
<1>4. /\ HandBlocks = {} /\ HandBlocks' = {}
      /\ bo \in FreeBlocks
  BY <1>0, <1>1, <1>2, Zenon DEF HandBlocks, FreeBlocks
<1>5. \A d \in Orders : free_lists'[d] = IF d = o THEN Tail(L) ELSE free_lists[d]
  BY <1>1, <1>3, Zenon
<1>6. FreeBlocks' = FreeBlocks \ {bo}
  <2>1. \A d \in Orders :
          Elems(free_lists'[d]) = IF d = o THEN Elems(L) \ {b} ELSE Elems(free_lists[d])
    BY <1>2, <1>5, Zenon
  <2> HIDE DEF b
  <2> QED BY <2>1, <1>1 DEF FreeBlocks
<1>7. ready => orders[b] = NoOrder
  <2> SUFFICES ASSUME ready, orders[b] # NoOrder PROVE FALSE
    BY Zenon
  <2> DEFINE d == orders[b]
  <2>1. d \in Orders
    BY <1>1, <1>2, Zenon
  <2>2. <<b, d>> \in HeldBlocks
    BY <2>1, <1>0, <1>2, Zenon DEF HeldBlocks
  <2>3. b \in Span(b, d) /\ b \in Span(b, o)
    <3>1. b \in Nat /\ BlockPages[d] \in Nat \ {0} /\ BlockPages[o] \in Nat \ {0}
      BY <1>1, <1>2, <2>1, BlockPagesFacts, SMTT(30) DEF Pages
    <3> HIDE DEF b, d, o
    <3> QED BY <3>1, SMTT(30) DEF Span
  <2>4. Meet(<<b, d>>, bo)
    BY <2>3, Zenon DEF Meet
  <2> QED BY <2>2, <2>4, <1>0, <1>4, Zenon DEF Tiling
<1>8. HeldBlocks' = HeldBlocks \cup {bo}
  <2>1. CASE ready
    <3>1. \A p \in Pages : orders'[p] = IF p = b THEN o ELSE orders[p]
      BY <2>1, <1>1, <1>2, <1>3, Zenon
    <3> HIDE DEF b, o
    <3> QED BY <3>1, <2>1, <1>0, <1>1, <1>2, <1>7, SMTT(30) DEF HeldBlocks
  <2>2. CASE ~ready
    <3>1. \A p \in Pages : orders'[p] = IF p = b THEN o ELSE NoOrder
      BY <2>2, <1>1, <1>2, <1>3, Zenon DEF Blank
    <3> HIDE DEF b, o
    <3> QED BY <3>1, <2>2, <1>0, <1>1, <1>2, SMTT(30) DEF HeldBlocks
  <2> QED BY <2>1, <2>2, Zenon
<1>9. TypeOK'
  <2>1. free_lists' \in [Orders -> Seq(Pages)]
    BY <1>1, <1>2, <1>3, Zenon
  <2>2. orders' \in [Pages -> Orders \cup {NoOrder}]
    <3>1. (IF ready THEN orders ELSE Blank) \in [Pages -> Orders \cup {NoOrder}]
      BY <1>1, Zenon DEF Blank
    <3> QED BY <3>1, <1>1, <1>2, <1>3, Zenon
  <2>3. cur' \in [addr : Nat, order : Orders, want : Orders, arg : Nat]
    BY <1>0, OrderAssumption, SMTT(30) DEF NoCall, Orders
  <2>4. result' \in [pages : Nat, addr : Pages \cup {Null}]
    BY <1>0, <1>2, <1>3, Zenon DEF TypeOK
  <2>5. allocated_pages' \in Int
    BY <1>0, <1>1, <1>3, BlockPagesFacts, SMTT(30) DEF TypeOK
  <2> QED BY <1>0, <2>1, <2>2, <2>3, <2>4, <2>5, Zenon DEF TypeOK
<1>10. NoDuplicates'
  <2>1. \A d \in Orders : Injective(free_lists'[d])
    BY <1>0, <1>2, <1>5, Zenon DEF NoDuplicates, Injective
  <2> QED BY <2>1, Zenon DEF NoDuplicates, Injective
<1>11. (WellPlaced /\ NoSharing)'
  <2>1. Tiling(FreeBlocks', HandBlocks', HeldBlocks')
    BY <1>0, <1>4, <1>6, <1>8, MoveTiling, Zenon
  <2> QED BY <2>1, Zenon DEF WellPlaced, NoSharing, Blocks, Tiling, Placed
<1>12. NoLostPage'
  <2>1. Blocks' = Blocks
    BY <1>4, <1>6, <1>8, Zenon DEF Blocks
  <2> QED BY <2>1, <1>0, Zenon DEF NoLostPage
<1>13. (InitProgress /\ CallProgress)'
  BY <1>0, Zenon DEF InitProgress, CallProgress
<1> QED BY <1>1, <1>2, <1>4, <1>6, <1>7, <1>9, <1>10, <1>11, <1>12, <1>13, Zenon DEF IInv

LEMMA FreeBeginStep == ASSUME NEW a \in Int PROVE IInv /\ FreeBegin(a) => IInv'
<1> SUFFICES ASSUME IInv, FreeBegin(a) PROVE IInv'
  BY Zenon
<1> DEFINE o == orders[a]
<1>0. /\ TypeOK /\ NoDuplicates /\ NoLostPage /\ pc = "idle" /\ pc' = "merge" /\ ready
      /\ Tiling(FreeBlocks, HandBlocks, HeldBlocks)
      /\ a \in Pages /\ o # NoOrder
      /\ UNCHANGED <<free_lists, orders, ready, result>>
      /\ cur' = [addr |-> a, order |-> o, want |-> 0, arg |-> a]
      /\ allocated_pages' = allocated_pages - BlockPages[o]
  BY TilingOfState, Zenon DEF IInv, FreeBegin
<1>1. o \in Orders /\ a \in Nat /\ 0 \in Orders
  <2>1. o \in Orders
    BY <1>0, Zenon DEF TypeOK
  <2>2. a \in Nat
    BY <1>0 DEF Pages
  <2>3. 0 \in Orders
    BY OrderAssumption DEF Orders
  <2> QED BY <2>1, <2>2, <2>3, Zenon
<1>2. <<a, o>> \in HeldBlocks
  BY <1>0, <1>1, Zenon DEF HeldBlocks
<1>3. /\ FreeBlocks' = FreeBlocks
      /\ HandBlocks = {} /\ HandBlocks' = {<<a, o>>}
      /\ HeldBlocks' = HeldBlocks \ {<<a, o>>}
  BY <1>0, <1>1, SMTT(30) DEF FreeBlocks, HandBlocks, HeldBlocks
<1>4. TypeOK'
  <2>1. cur' \in [addr : Nat, order : Orders, want : Orders, arg : Nat]
    BY <1>0, <1>1, Zenon
  <2>2. allocated_pages' \in Int
    BY <1>0, <1>1, BlockPagesFacts, SMTT(30) DEF TypeOK
  <2> QED BY <1>0, <2>1, <2>2, Zenon DEF TypeOK
<1>5. NoDuplicates'
  BY <1>0, Zenon DEF NoDuplicates
<1>6. (WellPlaced /\ NoSharing)'
  <2>1. Tiling(FreeBlocks', HandBlocks', HeldBlocks')
    <3>1. Tiling(FreeBlocks, HandBlocks \cup {<<a, o>>}, HeldBlocks \ {<<a, o>>})
      <4> HIDE DEF o
      <4> QED BY <1>0, <1>2, MoveTiling, Zenon
    <3>2. HandBlocks \cup {<<a, o>>} = {<<a, o>>}
      BY <1>3, Zenon
    <3> QED BY <3>1, <3>2, <1>3, Zenon
  <2> QED BY <2>1, Zenon DEF WellPlaced, NoSharing, Blocks, Tiling, Placed
<1>7. NoLostPage'
  <2>1. Blocks' = Blocks
    BY <1>2, <1>3, Zenon DEF Blocks
  <2> QED BY <2>1, <1>0, Zenon DEF NoLostPage
<1>8. (InitProgress /\ CallProgress)'
  BY <1>0, Zenon DEF InitProgress, CallProgress
<1> QED BY <1>4, <1>5, <1>6, <1>7, <1>8, Zenon DEF IInv

LEMMA AddFreeStep ==
  ASSUME IInv, AddFree
  PROVE  IInv' /\ FreeBlocks' = FreeBlocks \cup {<<cur.addr, cur.order>>}
<1> DEFINE a == cur.addr
           o == cur.order
           ao == <<a, o>>
           L == free_lists[o]
<1>0. /\ TypeOK /\ NoDuplicates /\ NoLostPage /\ CallProgress
      /\ pc = "merge" /\ pc' = "idle" /\ ready /\ cur' = NoCall
      /\ Tiling(FreeBlocks, HandBlocks, HeldBlocks)
      /\ UNCHANGED <<allocated_pages, ready, result>>
      /\ free_lists' = [free_lists EXCEPT ![o] = Push(L, a)]
      /\ orders' = [orders EXCEPT ![cur.arg] = NoOrder]
      /\ cur.arg \in Pages /\ a \in Pages
  BY TilingOfState, Zenon DEF IInv, AddFree, MarkFree, CallProgress
<1>1. /\ o \in Orders /\ free_lists \in [Orders -> Seq(Pages)]
      /\ orders \in [Pages -> Orders \cup {NoOrder}]
      /\ L \in Seq(Pages) /\ Injective(L) /\ NoOrder \notin Orders
  <2>1. /\ o \in Orders /\ free_lists \in [Orders -> Seq(Pages)]
        /\ orders \in [Pages -> Orders \cup {NoOrder}]
    BY <1>0, Zenon DEF TypeOK
  <2>2. Injective(L)
    BY <1>0, <2>1, Zenon DEF NoDuplicates, Injective
  <2>3. NoOrder \notin Orders
    BY OrderAssumption DEF NoOrder, Orders
  <2> QED BY <2>1, <2>2, <2>3, Zenon
<1>2. HandBlocks = {ao} /\ HandBlocks' = {} /\ ao \notin FreeBlocks
  BY <1>0, Zenon DEF HandBlocks, Tiling
<1>3. a \notin Elems(L)
  BY <1>0, <1>1, <1>2, Zenon DEF FreeBlocks
<1>4. /\ Push(L, a) \in Seq(Pages) /\ Injective(Push(L, a))
      /\ Elems(Push(L, a)) = Elems(L) \cup {a}
  <2> HIDE DEF L, a
  <2> QED BY <1>0, <1>1, <1>3, PushFacts, SMTT(30)
<1>5. \A d \in Orders : free_lists'[d] = IF d = o THEN Push(L, a) ELSE free_lists[d]
  BY <1>0, <1>1, Zenon
<1>6. FreeBlocks' = FreeBlocks \cup {ao}
  <2>1. \A d \in Orders :
          Elems(free_lists'[d]) = IF d = o THEN Elems(L) \cup {a} ELSE Elems(free_lists[d])
    BY <1>4, <1>5, ZenonT(30)
  <2>2. ao = <<a, o>> /\ a \in Pages /\ o \in Orders /\ L = free_lists[o]
    BY <1>0, <1>1, Zenon
  <2> HIDE DEF ao, a, o, L
  <2>3. ASSUME NEW p \in Pages, NEW d \in Orders
        PROVE  p \in Elems(free_lists'[d]) <=> p \in Elems(free_lists[d]) \/ <<p, d>> = ao
    BY <2>1, <2>2, <2>3, Zenon
  <2> QED BY <2>2, <2>3, SMTT(30) DEF FreeBlocks
<1>7. HeldBlocks' = HeldBlocks
  <2>1. \A p \in Pages : orders'[p] = IF p = cur.arg THEN NoOrder ELSE orders[p]
    BY <1>0, <1>1, Zenon
  <2> QED BY <2>1, <1>0, <1>1 DEF HeldBlocks
<1>8. TypeOK'
  <2>1. free_lists' \in [Orders -> Seq(Pages)] /\ orders' \in [Pages -> Orders \cup {NoOrder}]
    BY <1>0, <1>1, <1>4, Zenon
  <2>2. cur' \in [addr : Nat, order : Orders, want : Orders, arg : Nat]
    <3>1. 0 \in Orders /\ 0 \in Nat
      BY OrderAssumption, SMTT(30) DEF Orders
    <3>2. cur' = NoCall
      BY <1>0, Zenon
    <3> QED BY <3>1, <3>2, Zenon DEF NoCall
  <2> QED BY <1>0, <2>1, <2>2, Zenon DEF TypeOK
<1>9. NoDuplicates'
  <2>1. \A d \in Orders : Injective(free_lists'[d])
    <3> TAKE d \in Orders
    <3>1. CASE d = o
      BY <3>1, <1>4, <1>5, Zenon
    <3>2. CASE d # o
      <4>1. free_lists'[d] = free_lists[d]
        BY <3>2, <1>5, Zenon
      <4> QED BY <4>1, <1>0, SMTT(30) DEF NoDuplicates, Injective
    <3> QED BY <3>1, <3>2, Zenon
  <2> QED BY <2>1, Zenon DEF NoDuplicates, Injective
<1>10. (WellPlaced /\ NoSharing)'
  <2>1. Tiling(FreeBlocks', HandBlocks', HeldBlocks')
    <3>1. Tiling(FreeBlocks \cup {ao}, HandBlocks \ {ao}, HeldBlocks)
      <4>1. ao \in HandBlocks
        BY <1>2, Zenon
      <4> HIDE DEF ao
      <4> QED BY <4>1, <1>0, MoveTiling, Zenon
    <3>2. HandBlocks \ {ao} = {}
      BY <1>2, Zenon
    <3> QED BY <3>1, <3>2, <1>2, <1>6, <1>7, Zenon
  <2> QED BY <2>1, Zenon DEF WellPlaced, NoSharing, Blocks, Tiling, Placed
<1>11. NoLostPage'
  <2>1. Blocks' = Blocks
    BY <1>2, <1>6, <1>7, Zenon DEF Blocks
  <2> QED BY <2>1, <1>0, Zenon DEF NoLostPage
<1>12. (InitProgress /\ CallProgress)'
  BY <1>0, Zenon DEF InitProgress, CallProgress
<1> QED BY <1>6, <1>8, <1>9, <1>10, <1>11, <1>12, Zenon DEF IInv

LEMMA MergeStep ==
  ASSUME IInv, Merge
  PROVE  IInv' /\ FreeBlocks' \subseteq FreeBlocks /\ UNCHANGED <<orders, pc>>
<1> DEFINE a == cur.addr
           o == cur.order
           b == find_buddy(a, o)
           m == Smaller(a, b)
           L == free_lists[o]
<1>0. /\ TypeOK /\ NoDuplicates /\ NoLostPage /\ CallProgress
      /\ pc = "merge" /\ ready
      /\ Tiling(FreeBlocks, HandBlocks, HeldBlocks)
      /\ UNCHANGED <<allocated_pages, ready, result>>
      /\ a \in Pages
  BY TilingOfState, Zenon DEF IInv, Merge, CallProgress
<1>1. /\ o \in Orders /\ free_lists \in [Orders -> Seq(Pages)]
      /\ L \in Seq(Pages) /\ Injective(L)
  <2>1. o \in Orders /\ free_lists \in [Orders -> Seq(Pages)]
    BY <1>0, Zenon DEF TypeOK
  <2>2. Injective(L)
    BY <1>0, <2>1, Zenon DEF NoDuplicates, Injective
  <2> QED BY <2>1, <2>2, Zenon
<1>2. PICK i \in 1 .. Len(L) :
        L[i] = b /\ free_lists' = [free_lists EXCEPT ![o] = Unlink(L, i)]
  BY Zenon DEF Merge
<1>3. /\ Unlink(L, i) \in Seq(Pages) /\ Injective(Unlink(L, i))
      /\ Elems(Unlink(L, i)) = Elems(L) \ {b}
      /\ b \in Elems(L) /\ b \in Pages
  <2>1. /\ Unlink(L, i) \in Seq(Pages) /\ Injective(Unlink(L, i))
        /\ Elems(Unlink(L, i)) = Elems(L) \ {L[i]}
    BY <1>1, UnlinkFacts, Zenon
  <2>2. L[i] \in Elems(L) /\ L[i] \in Pages
    BY <1>1 DEF Elems
  <2> QED BY <2>1, <2>2, <1>2, Zenon
<1>4. /\ HandBlocks = {<<a, o>>} /\ <<b, o>> \in FreeBlocks
      /\ FreeBlocks \in SUBSET (Pages \X Orders) /\ HeldBlocks \in SUBSET (Pages \X Orders)
  BY <1>0, <1>1, <1>3, Zenon DEF HandBlocks, FreeBlocks, HeldBlocks
<1>5. /\ Tiling(FreeBlocks, {<<a, o>>}, HeldBlocks)
      /\ Covers(FreeBlocks \cup {<<a, o>>} \cup HeldBlocks)
  BY <1>0, <1>4, Zenon DEF NoLostPage, Covers, Blocks
<1>6. /\ o # MaxOrder /\ m \in Pages
      /\ Tiling(FreeBlocks \ {<<b, o>>}, {<<m, o + 1>>}, HeldBlocks)
      /\ Covers((FreeBlocks \ {<<b, o>>}) \cup {<<m, o + 1>>} \cup HeldBlocks)
  <2>1. b = find_buddy(a, o)
    BY Zenon
  <2> HIDE DEF a, b, o
  <2> QED BY <2>1, <1>0, <1>1, <1>3, <1>4, <1>5, MergeTiling, Zenon
<1>7. /\ cur' = [cur EXCEPT !.addr = m, !.order = o + 1]
      /\ UNCHANGED <<orders, pc>>
  BY <1>6, Zenon DEF Merge
<1>8. \A d \in Orders : free_lists'[d] = IF d = o THEN Unlink(L, i) ELSE free_lists[d]
  BY <1>1, <1>2, Zenon
<1>9. FreeBlocks' = FreeBlocks \ {<<b, o>>}
  <2>1. \A d \in Orders :
          Elems(free_lists'[d]) = IF d = o THEN Elems(L) \ {b} ELSE Elems(free_lists[d])
    BY <1>3, <1>8, Zenon
  <2> HIDE DEF b
  <2> QED BY <2>1, <1>1 DEF FreeBlocks
<1>10. cur' \in [addr : Nat, order : Orders, want : Orders, arg : Nat]
       /\ cur'.addr = m /\ cur'.order = o + 1 /\ cur'.arg = cur.arg
  <2>1. o + 1 \in Orders /\ m \in Nat
    <3>1. MaxOrder \in Nat
      BY OrderAssumption, Zenon
    <3> HIDE DEF m, o
    <3> QED BY <3>1, <1>1, <1>6 DEF Orders, Pages
  <2>2. cur \in [addr : Nat, order : Orders, want : Orders, arg : Nat]
    BY <1>0, Zenon DEF TypeOK
  <2> HIDE DEF m, o
  <2> QED BY <2>1, <2>2, <1>7, Zenon
<1>11. HandBlocks' = {<<m, o + 1>>} /\ HeldBlocks' = HeldBlocks
  BY <1>0, <1>7, <1>10, Zenon DEF HandBlocks, HeldBlocks
<1>12. TypeOK'
  <2>1. free_lists' \in [Orders -> Seq(Pages)]
    BY <1>1, <1>2, <1>3, Zenon
  <2> QED BY <1>0, <1>7, <1>10, <2>1, Zenon DEF TypeOK
<1>13. NoDuplicates'
  <2>1. \A d \in Orders : Injective(free_lists'[d])
    BY <1>0, <1>3, <1>8, Zenon DEF NoDuplicates, Injective
  <2> QED BY <2>1, Zenon DEF NoDuplicates, Injective
<1>14. (WellPlaced /\ NoSharing /\ NoLostPage)'
  <2>1. /\ Tiling(FreeBlocks', HandBlocks', HeldBlocks')
        /\ Covers(FreeBlocks' \cup HandBlocks' \cup HeldBlocks')
    BY <1>6, <1>9, <1>11, Zenon
  <2> QED BY <2>1, Zenon DEF WellPlaced, NoSharing, NoLostPage, Blocks, Tiling, Placed, Covers
<1>15. (InitProgress /\ CallProgress)'
  BY <1>0, <1>6, <1>7, <1>10, Zenon DEF InitProgress, CallProgress
<1> QED BY <1>7, <1>9, <1>12, <1>13, <1>14, <1>15, Zenon DEF IInv

LEMMA NextIInv == IInv /\ [Next]_vars => IInv'
<1> SUFFICES ASSUME IInv, [Next]_vars PROVE IInv'
  BY Zenon
<1>1. TablePages \in Nat /\ \A n \in Requests : n \in Nat
  BY RegionAssumption, RequestAssumption, Zenon
<1>2. CASE Step
  BY <1>2, InitSkipStep, InitBlockStep, SplitStep, TakeStep, MergeStep, AddFreeStep, Zenon DEF Step
<1>3. CASE AllocBegin(TablePages)
  BY <1>1, <1>3, AllocBeginStep, Zenon
<1>4. CASE \E n \in Requests : AllocBegin(n) \/ AllocNone(n)
  BY <1>1, <1>4, AllocBeginStep, AllocNoneStep, Zenon
<1>5. CASE \E a \in 0 .. PageCount : FreeBegin(a) \/ FreeIgnored(a)
  <2>1. PICK a \in 0 .. PageCount : FreeBegin(a) \/ FreeIgnored(a)
    BY <1>5, Zenon
  <2>2. a \in Int
    BY RegionAssumption
  <2>3. CASE FreeBegin(a)
    BY <2>2, <2>3, FreeBeginStep, Zenon
  <2>4. CASE FreeIgnored(a)
    BY <2>4, StutterStep, Zenon DEF FreeIgnored
  <2> QED BY <2>1, <2>3, <2>4, Zenon
<1>6. CASE UNCHANGED vars
  BY <1>6, StutterStep, Zenon
<1> QED BY <1>2, <1>3, <1>4, <1>5, <1>6, Zenon DEF Next

(* The inductive invariant holds in every state.                           *)
THEOREM Invariance == Spec => []IInv
<1> QED BY InitIInv, NextIInv, PTL DEF Spec

(* The allocator's variables keep their types whatever callers ask for,    *)
(* also free of an address that is no block.                               *)
THEOREM TypeCorrect == Spec => []TypeOK
<1>1. IInv => TypeOK
  BY Zenon DEF IInv
<1> QED BY <1>1, Invariance, PTL

(* Blocks handed out by alloc are aligned, inside the region, and share no *)
(* page with each other or with a free block.                              *)
THEOREM Safety == Spec => [](WellPlaced /\ NoSharing)
<1>1. IInv => WellPlaced /\ NoSharing
  BY Zenon DEF IInv
<1> QED BY <1>1, Invariance, PTL

(* No sequence of alloc and free loses a page; in particular free never    *)
(* drops a block merged above MAX_ORDER.                                   *)
THEOREM Conservation == Spec => []NoLostPage
<1>1. IInv => NoLostPage
  BY Zenon DEF IInv
<1> QED BY <1>1, Invariance, PTL

(* The intrusive free lists never chain a block twice.                     *)
THEOREM ListIntegrity == Spec => []NoDuplicates
<1>1. IInv => NoDuplicates
  BY Zenon DEF IInv
<1> QED BY <1>1, Invariance, PTL

-------------------------------------------------------------------------------
(* Buddies come in pairs, and no free block lies beside its free buddy.    *)

(* find_buddy is its own inverse on the blocks of an order.                *)
LEMMA MateFacts ==
  ASSUME NEW a \in Nat, NEW o \in Orders, Aligned(a, o)
  PROVE  /\ Mate(<<a, o>>) # <<a, o>>
         /\ Mate(Mate(<<a, o>>)) = <<a, o>>
         /\ a % BlockPages[o + 1] = 0 => Mate(<<a, o>>) = <<a + BlockPages[o], o>>
<1> DEFINE s == BlockPages[o]
           t == BlockPages[o + 1]
           b == find_buddy(a, o)
<1>1. s \in Nat \ {0} /\ t \in Nat \ {0} /\ t = 2 * s /\ a % s = 0
  BY BlockPagesFacts, Zenon DEF Aligned
<1>2. /\ find_buddy(a, o) = IF a % t < s THEN a + s ELSE a - s
      /\ find_buddy(b, o) = IF b % t < s THEN b + s ELSE b - s
      /\ Mate(<<a, o>>) = <<b, o>> /\ Mate(<<b, o>>) = <<find_buddy(b, o), o>>
  BY Zenon DEF find_buddy, Mate
<1> HIDE DEF s, t
<1>3. a % t = 0 \/ UpperHalf(a, s, t)
  BY <1>1, LowerOrUpper, ZenonT(30)
<1>4. CASE a % t = 0
  <2>1. b = a + s
    BY <1>1, <1>2, <1>4
  <2>2. b % t = s
    <3>1. PICK q \in Int : Divides(t, q, 0, a)
      BY <1>1, <1>4, ModSplit
    <3>2. Divides(t, q, s, b)
      BY <3>1, <2>1, <1>1 DEF Divides
    <3> HIDE DEF b
    <3>3. b \in Int /\ 0 <= s /\ s < t /\ s \in Int
      BY <2>1, <1>1
    <3> QED BY <3>2, <3>3, <1>1, ModUnique, ZenonT(30)
  <2> HIDE DEF b
  <2>3. find_buddy(b, o) = a /\ b # a
    BY <2>1, <2>2, <1>1, <1>2, SMTT(30)
  <2>4. <<b, o>> # <<a, o>>
    BY <2>3, SMTT(30)
  <2>5. Mate(<<a, o>>) # <<a, o>> /\ Mate(Mate(<<a, o>>)) = <<a, o>>
    BY <1>2, <2>3, <2>4, Zenon
  <2>6. a % t = 0 => Mate(<<a, o>>) = <<a + s, o>>
    BY <1>2, <2>1, Zenon
  <2> QED BY <2>5, <2>6, Zenon DEF s, t
<1>5. CASE UpperHalf(a, s, t)
  <2>1. b = a - s /\ b % t = 0 /\ a % t # 0
    BY <1>1, <1>2, <1>5, SMTT(30) DEF UpperHalf
  <2> HIDE DEF b
  <2>2. find_buddy(b, o) = a /\ b # a
    BY <2>1, <1>1, <1>2, SMTT(30)
  <2>4. <<b, o>> # <<a, o>>
    BY <2>2, SMTT(30)
  <2>5. Mate(<<a, o>>) # <<a, o>> /\ Mate(Mate(<<a, o>>)) = <<a, o>>
    BY <1>2, <2>2, <2>4, Zenon
  <2>6. a % t = 0 => Mate(<<a, o>>) = <<a + s, o>>
    BY <1>2, <2>1, Zenon
  <2> QED BY <2>5, <2>6, Zenon DEF s, t
<1> QED BY <1>3, <1>4, <1>5, Zenon

LEMMA BlockMate ==
  ASSUME NEW b \in Pages \X Orders, Placed(b)
  PROVE  /\ Mate(b) # b /\ Mate(Mate(b)) = b /\ Mate(b)[2] = b[2]
         /\ b[1] % BlockPages[b[2] + 1] = 0 => Mate(b) = <<b[1] + BlockPages[b[2]], b[2]>>
<1>1. b = <<b[1], b[2]>> /\ b[1] \in Nat /\ b[2] \in Orders /\ Aligned(b[1], b[2])
  BY RegionAssumption DEF Pages, Placed
<1>2. Mate(b)[2] = b[2]
  BY Zenon DEF Mate
<1> QED BY <1>1, <1>2, MateFacts

(* The free blocks of the region, as blocks.                               *)
LEMMA FreeFacts ==
  ASSUME IInv
  PROVE  /\ \A b \in FreeBlocks : b \in Pages \X Orders /\ Placed(b)
         /\ \A b \in FreeBlocks :
              find_buddy(b[1], b[2]) \in Elems(free_lists[b[2]]) => Mate(b) \in FreeBlocks
<1>1. TypeOK /\ WellPlaced
  BY Zenon DEF IInv
<1>2. \A b \in FreeBlocks : b \in Pages \X Orders /\ Placed(b)
  BY <1>1, Zenon DEF FreeBlocks, WellPlaced, Blocks, Placed
<1>3. ASSUME NEW b \in FreeBlocks, find_buddy(b[1], b[2]) \in Elems(free_lists[b[2]])
      PROVE  Mate(b) \in FreeBlocks
  <2>1. b[2] \in Orders /\ free_lists[b[2]] \in Seq(Pages)
    BY <1>1, <1>2, Zenon DEF TypeOK
  <2>2. find_buddy(b[1], b[2]) \in Pages
    BY <2>1, <1>3 DEF Elems
  <2> QED BY <2>1, <2>2, <1>3, Zenon DEF FreeBlocks, Mate
<1> QED BY <1>2, <1>3, Zenon

(* Adding a block whose buddy is not free, or taking a block away, makes   *)
(* no new pair of buddies.                                                 *)
Pairs(F) == {b \in F : Mate(b) \in F}

LEMMA PairsFacts ==
  ASSUME NEW F \in SUBSET (Pages \X Orders), \A b \in F : Placed(b)
  PROVE  /\ \A G \in SUBSET F : Pairs(G) \subseteq Pairs(F)
         /\ \A b \in Pages \X Orders :
              Placed(b) /\ Mate(b) \notin F => Pairs(F \cup {b}) \subseteq Pairs(F)
<1>1. \A G \in SUBSET F : Pairs(G) \subseteq Pairs(F)
  BY Zenon DEF Pairs
<1>2. ASSUME NEW b \in Pages \X Orders, Placed(b), Mate(b) \notin F,
             NEW x \in Pairs(F \cup {b})
      PROVE  x \in Pairs(F)
  <2>1. Mate(b) # b
    BY <1>2, BlockMate, Zenon
  <2>2. x \in F /\ Mate(x) \in F \cup {b}
    BY <1>2, <2>1, Zenon DEF Pairs
  <2>3. Mate(Mate(x)) = x
    BY <2>2, BlockMate, Zenon
  <2> QED BY <2>2, <2>3, <1>2, Zenon DEF Pairs
<1> QED BY <1>1, <1>2, Zenon

LEMMA ApartOfPairs ==
  SplitApart <=> \A b \in Pairs(FreeBlocks) :
                   pc = "split" /\ <<Head(free_lists[cur.order]), cur.order>> \in {b, Mate(b)}
  BY Zenon DEF SplitApart, Pairs

LEMMA InitCInv == Init => CInv
<1> SUFFICES ASSUME Init PROVE SplitApart /\ Serves
  BY InitIInv, Zenon DEF CInv
<1>1. FreeBlocks = {}
  BY DEF Init, FreeBlocks, Elems
<1> QED BY <1>1, Zenon DEF SplitApart, Serves, Init

LEMMA InitBlockApart ==
  ASSUME CInv, InitBlock
  PROVE  CInv'
<1> DEFINE n == <<cur.addr, cur.order>>
<1>1. /\ IInv /\ SplitApart /\ IInv' /\ FreeBlocks' = FreeBlocks \cup {n}
      /\ pc = "init" /\ pc' # "split"
  BY InitBlockStep, Zenon DEF CInv, InitBlock, NextInitOrder
<1>2. free_lists[cur.order] = <<>> /\ cur.order \in Orders
  <2>1. cur.order \in Orders /\ \A o \in 0 .. cur.order : free_lists[o] = <<>>
    BY <1>1, Zenon DEF IInv, InitProgress, TypeOK
  <2>2. cur.order \in 0 .. cur.order
    BY <2>1, OrderAssumption, SMTT(30) DEF Orders
  <2> QED BY <2>1, <2>2, Zenon
<1>3. \A b \in FreeBlocks : b \in Pages \X Orders /\ Placed(b) /\ b[2] # cur.order
  BY <1>1, <1>2, FreeFacts DEF FreeBlocks, Elems
<1>4. n \in FreeBlocks' /\ n \in Pages \X Orders /\ Placed(n)
  <2>1. n \in FreeBlocks'
    BY <1>1, Zenon
  <2>2. WellPlaced' /\ n \in Pages \X Orders
    BY <1>1, <2>1, Zenon DEF IInv, FreeBlocks
  <2> QED BY <2>1, <2>2, Zenon DEF WellPlaced, Blocks, Placed
<1>5. Mate(n) \notin FreeBlocks
  <2>1. Mate(n)[2] = cur.order
    BY Zenon DEF Mate
  <2> QED BY <2>1, <1>3, Zenon
<1>6. Pairs(FreeBlocks') \subseteq Pairs(FreeBlocks)
  <2> HIDE DEF n
  <2>1. FreeBlocks \in SUBSET (Pages \X Orders)
    BY Zenon DEF FreeBlocks
  <2> QED BY <1>1, <1>3, <1>4, <1>5, <2>1, PairsFacts, Zenon
<1>7. Pairs(FreeBlocks) = {}
  BY <1>1, ApartOfPairs, Zenon
<1>8. SplitApart' /\ Serves'
  BY <1>1, <1>6, <1>7, Zenon DEF SplitApart, Pairs, Serves
<1> QED BY <1>1, <1>8, Zenon DEF CInv

LEMMA AddFreeApart ==
  ASSUME CInv, AddFree
  PROVE  CInv'
<1> DEFINE n == <<cur.addr, cur.order>>
<1>1. /\ IInv /\ SplitApart /\ IInv' /\ FreeBlocks' = FreeBlocks \cup {n}
      /\ pc = "merge" /\ pc' = "idle"
      /\ find_buddy(cur.addr, cur.order) \notin Elems(free_lists[cur.order])
  BY AddFreeStep, Zenon DEF CInv, AddFree, MarkFree
<1>2. FreeBlocks \in SUBSET (Pages \X Orders) /\ \A b \in FreeBlocks : Placed(b)
  BY <1>1, FreeFacts, Zenon
<1>3. n \in Pages \X Orders /\ Placed(n)
  BY <1>1, Zenon DEF IInv, CallProgress, TypeOK, WellPlaced, Blocks, HandBlocks, Placed
<1>4. Mate(n) \notin FreeBlocks
  BY <1>1, Zenon DEF Mate, FreeBlocks
<1>5. Pairs(FreeBlocks') \subseteq Pairs(FreeBlocks)
  <2> HIDE DEF n
  <2> QED BY <1>1, <1>2, <1>3, <1>4, PairsFacts, Zenon
<1>6. Pairs(FreeBlocks) = {}
  BY <1>1, ApartOfPairs, Zenon
<1>7. SplitApart' /\ Serves'
  BY <1>1, <1>5, <1>6, Zenon DEF SplitApart, Pairs, Serves
<1> QED BY <1>1, <1>7, Zenon DEF CInv

LEMMA MergeApart ==
  ASSUME CInv, Merge
  PROVE  CInv'
<1>1. /\ IInv /\ SplitApart /\ IInv' /\ FreeBlocks' \subseteq FreeBlocks
      /\ pc = "merge" /\ pc' = "merge"
  BY MergeStep, ZenonT(30) DEF CInv, Merge
<1>2. SplitApart' /\ Serves'
  BY <1>1, Zenon DEF SplitApart, Serves
<1> QED BY <1>1, <1>2, Zenon DEF CInv

LEMMA TakeApart ==
  ASSUME CInv, Take
  PROVE  CInv'
<1> DEFINE n == <<Head(free_lists[cur.want]), cur.want>>
<1>1. /\ IInv /\ SplitApart /\ IInv' /\ FreeBlocks' = FreeBlocks \ {n}
      /\ pc = "split" /\ pc' = "idle" /\ cur.order = cur.want
  BY TakeStep, Zenon DEF CInv, Take
<1>2. SplitApart' /\ Serves'
  BY <1>1, Zenon DEF SplitApart, Serves
<1> QED BY <1>1, <1>2, Zenon DEF CInv

LEMMA SplitApartStep ==
  ASSUME CInv, Split
  PROVE  CInv'
<1> DEFINE c == cur.order
           h == Head(free_lists[c])
           bc == <<h, c>>
           lo == <<h, c - 1>>
           hi == <<h + BlockPages[c - 1], c - 1>>
<1>1. /\ IInv /\ SplitApart /\ Serves /\ IInv' /\ pc = "split" /\ pc' = "split"
      /\ c \in Orders \ {0} /\ h \in Pages /\ bc \in FreeBlocks
      /\ FreeBlocks' = (FreeBlocks \ {bc}) \cup {lo, hi}
      /\ <<Head(free_lists'[cur'.order]), cur'.order>> = lo
      /\ cur'.arg = cur.arg /\ cur'.want = cur.want
  <2>1. cur'.arg = cur.arg /\ cur'.want = cur.want /\ IInv
    BY Zenon DEF CInv, IInv, TypeOK, Split
  <2> QED BY <2>1, SplitStep, Zenon DEF CInv, Split, Halved
<1>2. /\ \A b \in FreeBlocks : b \in Pages \X Orders /\ Placed(b)
      /\ lo \in FreeBlocks' /\ Placed(bc)
  BY <1>1, FreeFacts, Zenon
<1>3. lo \in Pages \X Orders /\ Placed(lo)
  BY <1>1, <1>2, Zenon DEF FreeBlocks, IInv, WellPlaced, Blocks, Placed
<1>4. Mate(lo) = hi /\ Mate(hi) = lo
  <2>1. c \in Nat /\ lo[1] = h /\ lo[2] = c - 1 /\ (c - 1) + 1 = c
    BY <1>1, OrderAssumption DEF Orders
  <2>2. h % BlockPages[c] = 0
    BY <1>2, Zenon DEF Placed, Aligned
  <2> HIDE DEF c, h
  <2>3. Mate(lo) = hi /\ Mate(Mate(lo)) = lo
    BY <2>1, <2>2, <1>3, BlockMate, SMTT(30)
  <2> QED BY <2>3, Zenon
<1>5. ASSUME NEW x \in FreeBlocks', Mate(x) \in FreeBlocks', x # lo, x # hi
      PROVE  FALSE
  <2>1. x \in FreeBlocks /\ x # bc
    BY <1>1, <1>5, Zenon
  <2>2. Mate(Mate(x)) = x
    BY <2>1, <1>2, BlockMate, Zenon
  <2>3. Mate(x) \in FreeBlocks /\ Mate(x) # bc
    BY <2>2, <1>1, <1>4, <1>5, Zenon
  <2> QED BY <2>1, <2>3, <1>1, Zenon DEF SplitApart
<1>6. SplitApart'
  BY <1>1, <1>4, <1>5, Zenon DEF SplitApart
<1>7. Serves'
  BY <1>1, Zenon DEF Serves
<1> QED BY <1>1, <1>6, <1>7, Zenon DEF CInv

(* A step that leaves the free lists alone.                                *)
LEMMA SameFree ==
  ASSUME CInv, IInv', UNCHANGED free_lists, pc # "split"
  PROVE  SplitApart'
<1>1. FreeBlocks' = FreeBlocks /\ Pairs(FreeBlocks) = {}
  BY ApartOfPairs, Zenon DEF CInv, FreeBlocks
<1> QED BY <1>1, Zenon DEF SplitApart, Pairs

LEMMA QuietApart ==
  ASSUME CInv, IInv', \/ InitSkip
                      \/ \E n \in Requests : AllocBegin(n) \/ AllocNone(n)
                      \/ \E a \in 0 .. PageCount : FreeBegin(a)
                      \/ UNCHANGED vars
  PROVE  CInv'
<1>1. CASE InitSkip
  <2>1. UNCHANGED free_lists /\ pc = "init" /\ pc' # "split"
    BY <1>1, Zenon DEF InitSkip, NextInitOrder
  <2> QED BY <2>1, SameFree, Zenon DEF CInv, Serves
<1>2. ASSUME NEW n \in Requests, AllocBegin(n)
      PROVE  CInv'
  <2>1. UNCHANGED free_lists /\ pc = "idle" /\ n > 0
    BY <1>2, Zenon DEF AllocBegin
  <2>2. PICK o \in Orders, c \in Orders :
          /\ IsRequiredOrder(n, o)
          /\ cur' = [addr |-> 0, order |-> c, want |-> o, arg |-> n]
    BY <1>2, Zenon DEF AllocBegin
  <2>3. cur'.arg = n /\ cur'.want = o
    BY <2>2, Zenon
  <2>4. Serves'
    BY <2>1, <2>2, <2>3, Zenon DEF Serves
  <2> QED BY <2>1, <2>4, SameFree, Zenon DEF CInv
<1>3. ASSUME NEW n \in Requests, AllocNone(n)
      PROVE  CInv'
  <2>1. UNCHANGED free_lists /\ pc = "idle" /\ pc' = "idle"
    BY <1>3, Zenon DEF AllocNone
  <2> QED BY <2>1, SameFree, ZenonT(30) DEF CInv, Serves
<1>4. ASSUME NEW a \in 0 .. PageCount, FreeBegin(a)
      PROVE  CInv'
  <2>1. UNCHANGED free_lists /\ pc = "idle" /\ pc' = "merge"
    BY <1>4, Zenon DEF FreeBegin
  <2> QED BY <2>1, SameFree, Zenon DEF CInv, Serves
<1>5. CASE UNCHANGED vars
  <2>1. UNCHANGED <<free_lists, pc, cur>> /\ FreeBlocks' = FreeBlocks
    BY <1>5, Zenon DEF vars, FreeBlocks
  <2>2. SplitApart' /\ Serves'
    BY <2>1, Zenon DEF CInv, SplitApart, Serves
  <2> QED BY <2>2, Zenon DEF CInv
<1> QED BY <1>1, <1>2, <1>3, <1>4, <1>5, Zenon

LEMMA NextCInv == CInv /\ [Next]_vars => CInv'
<1> SUFFICES ASSUME CInv, [Next]_vars PROVE CInv'
  BY Zenon
<1>1. IInv'
  BY NextIInv, Zenon DEF CInv
<1>2. CASE Step
  BY <1>1, <1>2, InitBlockApart, SplitApartStep, TakeApart, MergeApart, AddFreeApart, QuietApart, Zenon
     DEF Step
<1>3. CASE ~Step
  <2>1. \/ \E n \in Requests : AllocBegin(n) \/ AllocNone(n)
        \/ \E a \in 0 .. PageCount : FreeBegin(a)
        \/ UNCHANGED vars
    BY <1>3, RequestAssumption, Zenon DEF Next, FreeIgnored
  <2> QED BY <2>1, <1>1, QuietApart, Zenon
<1> QED BY <1>2, <1>3, Zenon

LEMMA CInvCoalesced == CInv => Coalesced
<1> SUFFICES ASSUME CInv, pc = "idle", NEW b \in FreeBlocks
             PROVE  find_buddy(b[1], b[2]) \notin Elems(free_lists[b[2]])
  BY Zenon DEF Coalesced
<1>1. Mate(b) \notin FreeBlocks
  BY Zenon DEF CInv, SplitApart
<1> QED BY <1>1, FreeFacts, Zenon DEF CInv

(* Between calls no free block lies beside its free buddy: the merge loop  *)
(* of free never stops early, and alloc keeps at most one half.            *)
THEOREM AlwaysCoalesced == Spec => []Coalesced
<1> QED BY InitCInv, NextCInv, CInvCoalesced, PTL DEF Spec

-------------------------------------------------------------------------------
(* Blocks nest: of two aligned blocks that meet, the larger contains the   *)
(* smaller one.                                                            *)

(* A set of naturals that is not empty has a least member.  The lemmas     *)
(* that need it assume it; NumbersOrdered, at the end, proves it.          *)
Ordered == \A T \in SUBSET Nat : T # {} => \E x \in T : \A y \in T : x <= y

LEMMA LeastOrder ==
  ASSUME Ordered, NEW T \in SUBSET Nat, T # {}
  PROVE  \E x \in T : \A y \in T : x <= y
BY Zenon DEF Ordered

(* An address aligned to an order is aligned to the lower orders.          *)
LEMMA AlignedBelow ==
  ASSUME Ordered, NEW a \in Nat, NEW o \in Orders, Aligned(a, o)
  PROVE  \A k \in 0 .. o : Aligned(a, k)
<1> DEFINE T == {j \in Nat : j <= o /\ ~Aligned(a, o - j)}
<1>0. o \in Nat /\ MaxOrder \in Nat /\ o <= MaxOrder
  BY OrderAssumption DEF Orders
<1> SUFFICES ASSUME T # {} PROVE FALSE
  <2> SUFFICES ASSUME T = {}, NEW k \in 0 .. o PROVE Aligned(a, k)
    BY Zenon
  <2>1. o - k \in Nat /\ o - k <= o /\ o - (o - k) = k
    BY <1>0
  <2>2. o - k \notin T
    BY Zenon
  <2> QED BY <2>1, <2>2, Zenon
<1>1. PICK j \in T : \A i \in T : j <= i
  <2>1. T \in SUBSET Nat
    BY Zenon
  <2> HIDE DEF T
  <2> QED BY <2>1, LeastOrder, Zenon
<1>2. j \in Nat /\ j <= o /\ ~Aligned(a, o - j) /\ j # 0
  BY <1>0
<1>3. j - 1 \in Nat /\ j - 1 <= o /\ j - 1 \notin T
  BY <1>0, <1>1, <1>2, SMTT(30)
<1> DEFINE k == o - j
<1>4. Aligned(a, k + 1) /\ k \in Orders
  <2>1. Aligned(a, o - (j - 1)) /\ o - (j - 1) = k + 1 /\ k \in Orders
    BY <1>0, <1>2, <1>3, SMTT(30) DEF Orders
  <2> QED BY <2>1, Zenon
<1> HIDE DEF k
<1>5. /\ BlockPages[k] \in Nat \ {0} /\ BlockPages[k + 1] \in Nat \ {0}
      /\ BlockPages[k + 1] = 2 * BlockPages[k] /\ a \in Int /\ a % BlockPages[k + 1] = 0
  BY <1>4, BlockPagesFacts, SMTT(30) DEF Aligned
<1>6. a % BlockPages[k] = 0
  BY <1>5, HalvesAligned, Zenon
<1> QED BY <1>2, <1>6, Zenon DEF Aligned, k

LEMMA NextMultiple ==
  ASSUME NEW s \in Nat \ {0}, NEW x \in Nat, x % s = 0
  PROVE  (x + s) % s = 0
<1>1. PICK q \in Int : Divides(s, q, 0, x)
  BY ModSplit
<1>2. Divides(s, q + 1, 0, x + s)
  BY <1>1 DEF Divides
<1>3. 0 \in Int /\ 0 <= 0 /\ 0 < s /\ x + s \in Int /\ q + 1 \in Int
  OBVIOUS
<1> QED BY <1>2, <1>3, ModUnique, Zenon

(* Of two multiples of s, the one that is less than s above is not above.  *)
LEMMA MultipleGap ==
  ASSUME NEW s \in Nat \ {0}, NEW x \in Int, NEW y \in Int,
         x % s = 0, y % s = 0, x < y + s
  PROVE  x <= y
<1>1. PICK p \in Int : Divides(s, p, 0, x)
  BY ModSplit, Zenon
<1>2. PICK q \in Int : Divides(s, q, 0, y)
  BY ModSplit, Zenon
<1>3. x = p * s /\ y = q * s
  BY <1>1, <1>2 DEF Divides
<1>4. p * s < (q + 1) * s
  BY <1>3
<1>5. p <= q
  <2> SUFFICES ASSUME p >= q + 1 PROVE FALSE
    OBVIOUS
  <2>1. p * s >= (q + 1) * s
    OBVIOUS
  <2> QED BY <2>1, <1>4
<1>6. p * s <= q * s
  BY <1>5
<1> QED BY <1>3, <1>6, Zenon

(* The block x of order l contains the aligned run of t = BlockPages[k]    *)
(* pages from m on when it shares the page y with it, for k <= l.          *)
LEMMA Nests ==
  ASSUME Ordered, NEW l \in Orders, NEW k \in 0 .. l, NEW x \in Nat, Aligned(x, l),
         NEW m \in Nat, m % BlockPages[k] = 0,
         NEW y \in Nat, x <= y, y < x + BlockPages[l], m <= y, y < m + BlockPages[k]
  PROVE  x <= m /\ m + BlockPages[k] <= x + BlockPages[l]
<1> DEFINE t == BlockPages[k]
           B == BlockPages[l]
<1>0. k \in Orders /\ l \in Nat
  BY OrderAssumption DEF Orders
<1>1. t \in Nat \ {0} /\ B \in Nat \ {0}
  BY <1>0, BlockPagesFacts, Zenon
<1>2. x % t = 0
  BY AlignedBelow, Zenon DEF Aligned
<1>3. (x + B) % t = 0
  <2>1. x + B \in Nat /\ Aligned(x + B, l)
    <3>1. x % B = 0
      BY Zenon DEF Aligned
    <3> HIDE DEF B
    <3>2. (x + B) % B = 0
      BY <3>1, <1>1, NextMultiple, Zenon
    <3>3. x + B \in Nat
      BY <1>1
    <3> QED BY <3>2, <3>3, Zenon DEF Aligned, B
  <2> HIDE DEF B
  <2> QED BY <2>1, AlignedBelow, Zenon DEF Aligned
<1>4. x < m + t /\ m < x + B /\ m % t = 0
  BY <1>1
<1> HIDE DEF t, B
<1>5. x <= m
  <2>1. x \in Int /\ m \in Int
    OBVIOUS
  <2> QED BY <2>1, <1>1, <1>2, <1>4, MultipleGap, Zenon
<1>6. x + B - t >= m
  <2>1. (m + t) % t = 0
    BY <1>1, <1>4, NextMultiple, Zenon
  <2>2. m + t < (x + B) + t /\ m + t \in Int /\ x + B \in Int
    BY <1>1, <1>4, SMTT(30)
  <2>3. m + t <= x + B
    BY <2>1, <2>2, <1>1, <1>3, MultipleGap, ZenonT(30)
  <2> QED BY <2>3, <1>1
<1> QED BY <1>1, <1>5, <1>6, SMTT(30) DEF t, B

-------------------------------------------------------------------------------
(* alloc refuses only when no aligned run of vacant pages is left.         *)

(* While no free is in progress the allocated blocks are those held.       *)
LEMMA HeldIsAllocated ==
  pc # "merge" => HeldBlocks = allocatedBlocks /\ HandBlocks = {}
  BY Zenon DEF HeldBlocks, allocatedBlocks, HandBlocks

LEMMA InSpan ==
  ASSUME NEW a \in Nat, NEW o \in Orders
  PROVE  \A y : y \in Span(a, o) <=> y \in Int /\ a <= y /\ y < a + BlockPages[o]
<1> DEFINE s == BlockPages[o]
<1>1. s \in Nat
  BY BlockPagesFacts, Zenon
<1>2. Span(a, o) = a .. (a + s - 1)
  BY Zenon DEF Span
<1> HIDE DEF s
<1> QED BY <1>1, <1>2 DEF s

(* Between calls, a run of vacant pages that is aligned to an order lies   *)
(* in a free block of that order or above: otherwise the smallest free     *)
(* block in it would have a free buddy.                                    *)
LEMMA FindsRoom ==
  ASSUME Ordered, CInv, pc = "idle", NEW o \in Orders, NEW a \in Nat, Aligned(a, o),
         a + BlockPages[o] <= PageCount,
         \A b \in allocatedBlocks : Span(a, o) \cap Span(b[1], b[2]) = {},
         \A c \in o .. MaxOrder : free_lists[c] = <<>>
  PROVE  FALSE
<1> DEFINE B == BlockPages[o]
           Met(b) == Span(a, o) \cap Span(b[1], b[2]) # {}
           T == {k \in Nat : \E b \in FreeBlocks : Met(b) /\ b[2] = k}
<1>1. /\ IInv /\ SplitApart /\ NoLostPage /\ NoSharing
      /\ Blocks = FreeBlocks \cup allocatedBlocks
      /\ B \in Nat \ {0} /\ PageCount \in Nat /\ MaxOrder \in Nat /\ o \in Nat /\ o <= MaxOrder
  BY HeldIsAllocated, BlockPagesFacts, OrderAssumption, RegionAssumption, SMTT(30)
     DEF CInv, IInv, Blocks, Orders
<1>2. \A b \in FreeBlocks : b \in Pages \X Orders /\ Placed(b) /\ b[1] \in Nat /\ b[2] \in Nat
  <2>1. Pages \subseteq Nat /\ Orders \subseteq Nat
    BY RegionAssumption, OrderAssumption DEF Pages, Orders
  <2> QED BY <2>1, <1>1, FreeFacts, ZenonT(30)
<1>3. ASSUME NEW p \in Span(a, o)
      PROVE  \E b \in FreeBlocks : p \in Span(b[1], b[2]) /\ Met(b)
  <2>1. p \in Pages
    BY <1>1, SMTT(30) DEF Span, Pages
  <2>2. PICK b \in Blocks : p \in Span(b[1], b[2])
    BY <2>1, <1>1, Zenon DEF NoLostPage
  <2>3. Met(b)
    BY <2>2, Zenon
  <2> QED BY <2>2, <2>3, <1>1, Zenon
<1>4. PICK k \in T : \A i \in T : k <= i
  <2>1. a \in Span(a, o)
    BY <1>1, SMTT(30) DEF Span
  <2>2. T # {}
    BY <2>1, <1>2, <1>3, Zenon
  <2>3. T \in SUBSET Nat
    BY Zenon
  <2> HIDE DEF T
  <2> QED BY <2>2, <2>3, LeastOrder, Zenon
<1>5. PICK b \in FreeBlocks : Met(b) /\ b[2] = k
  BY Zenon
<1> DEFINE x == b[1]
           s == BlockPages[k]
           z == find_buddy(x, k)
           m == Smaller(x, z)
<1>6. /\ k \in Orders /\ k \in Nat /\ x \in Nat /\ Aligned(x, k) /\ b = <<x, k>>
      /\ k < o /\ k + 1 \in 0 .. o
  <2>1. k \in Orders /\ k \in Nat /\ x \in Nat /\ Aligned(x, k) /\ b = <<x, k>>
    BY <1>2, <1>5, SMTT(30) DEF Placed
  <2>2. free_lists[k] # <<>>
    BY <1>5, SMTT(30) DEF FreeBlocks, Elems
  <2>3. k < o
    BY <2>1, <2>2, <1>1, SMTT(30) DEF Orders
  <2> QED BY <2>1, <2>3, <1>1, SMTT(30)
<1>7. /\ s \in Nat \ {0} /\ BlockPages[k + 1] = 2 * s
      /\ z \in Nat /\ m \in Nat /\ m % BlockPages[k + 1] = 0
      /\ (m = x /\ z = x + s) \/ (m = x - s /\ z = x - s)
  BY <1>6, BlockPagesFacts, BuddyFacts, Zenon
<1>8. PICK y \in Nat : a <= y /\ y < a + B /\ m <= y /\ y < m + BlockPages[k + 1]
  <2>1. PICK y \in Span(a, o) : y \in Span(x, k)
    BY <1>5, Zenon
  <2>2. y \in Int /\ a <= y /\ y < a + B /\ x <= y /\ y < x + s
    BY <2>1, <1>6, InSpan, Zenon
  <2> HIDE DEF x, z, m, s, B
  <2>3. y \in Nat /\ m <= y /\ y < m + BlockPages[k + 1]
    BY <2>2, <1>6, <1>7, SMTT(30)
  <2> QED BY <2>2, <2>3, Zenon
<1>9. a <= m /\ m + 2 * s <= a + B
  <2> DEFINE k1 == k + 1
  <2> HIDE DEF x, z, m, s
  <2>1. k1 \in 0 .. o /\ m % BlockPages[k1] = 0 /\ y < m + BlockPages[k1] /\ BlockPages[k1] = 2 * s
    BY <1>6, <1>7, <1>8, ZenonT(30)
  <2> HIDE DEF k1
  <2>2. a <= m /\ m + BlockPages[k1] <= a + BlockPages[o]
    BY <2>1, <1>7, <1>8, Nests, Zenon
  <2> QED BY <2>1, <2>2, Zenon
<1>10. z \in Span(a, o)
  <2> HIDE DEF x, z, m, s, B
  <2>1. z = m \/ z = m + s
    BY <1>7, Zenon
  <2>2. m \in Nat /\ s \in Nat \ {0} /\ B \in Nat
    BY <1>1, <1>7, Zenon
  <2>3. z \in Int /\ a <= z /\ z < a + B
    BY <1>9, <2>1, <2>2, SMTT(30)
  <2> QED BY <2>3, InSpan, ZenonT(30) DEF B
<1>11. PICK c \in FreeBlocks : z \in Span(c[1], c[2]) /\ Met(c)
  BY <1>10, <1>3, Zenon
<1> DEFINE w == c[1]
           l == c[2]
<1>12. /\ l \in Orders /\ l \in Nat /\ w \in Nat /\ Aligned(w, l) /\ c = <<w, l>>
       /\ k <= l /\ BlockPages[l] \in Nat \ {0} /\ w <= z /\ z < w + BlockPages[l]
  <2>1. l \in Orders /\ l \in Nat /\ w \in Nat /\ Aligned(w, l) /\ c = <<w, l>>
    BY <1>2, SMTT(30) DEF Placed
  <2>2. k <= l
    BY <2>1, <1>4, <1>11, Zenon
  <2>3. BlockPages[l] \in Nat \ {0}
    BY <2>1, BlockPagesFacts, Zenon
  <2>4. w <= z /\ z < w + BlockPages[l]
    BY <2>1, <2>3, <1>7, <1>11, SMTT(30) DEF Span
  <2> QED BY <2>1, <2>2, <2>3, <2>4, Zenon
<1>13. CASE l = k
  <2>1. z % s = 0
    <3>1. m % s = 0 /\ (m + s) % s = 0
      <4>1. m \in Int /\ 2 * s \in Nat \ {0} /\ m % (2 * s) = 0
        BY <1>7, SMTT(30)
      <4> HIDE DEF m, s
      <4> QED BY <4>1, <1>7, HalvesAligned, ZenonT(30)
    <3> HIDE DEF m, s, x, z
    <3>2. z = m \/ z = m + s
      BY <1>6, <1>7, Zenon
    <3> QED BY <3>1, <3>2, Zenon
  <2>2. w % s = 0 /\ z < w + s /\ w <= z
    BY <1>12, <1>13, Zenon DEF Aligned
  <2>3. z <= w
    <3>1. z \in Int /\ w \in Int
      BY <1>7, <1>12
    <3> HIDE DEF z, w, s
    <3> QED BY <3>1, <2>1, <2>2, <1>7, MultipleGap, ZenonT(30)
  <2>4. c = Mate(b)
    <3>1. w = z
      BY <2>2, <2>3, <1>7, <1>12, SMTT(30)
    <3> QED BY <3>1, <1>5, <1>12, <1>13, Zenon DEF Mate
  <2> QED BY <2>4, Zenon DEF SplitApart, CInv
<1>14. CASE l # k
  <2> DEFINE k1 == k + 1
  <2>1. /\ k1 \in 0 .. l /\ m % BlockPages[k1] = 0 /\ BlockPages[k1] = 2 * s
        /\ m <= z /\ z < m + 2 * s /\ m <= x /\ x < m + 2 * s
    <3>1. k1 \in 0 .. l
      BY <1>6, <1>12, <1>14, SMTT(30)
    <3> HIDE DEF x, z, m, s, l
    <3> QED BY <3>1, <1>6, <1>7, SMTT(30)
  <2>2. w <= m /\ m + 2 * s <= w + BlockPages[l]
    <3> HIDE DEF x, z, m, s, k1, w, l
    <3>1. w <= m /\ m + BlockPages[k1] <= w + BlockPages[l]
      BY <2>1, <1>7, <1>12, Nests, ZenonT(30)
    <3> QED BY <2>1, <3>1, Zenon
  <2>3. x \in Span(w, l) /\ x \in Span(x, k)
    <3> DEFINE C == BlockPages[l]
    <3>1. C \in Nat
      BY <1>12, Zenon
    <3>2. w <= m /\ m + 2 * s <= w + C
      BY <2>2, Zenon
    <3> HIDE DEF x, m, s, w, l, C
    <3>3. w <= x /\ x < w + C /\ x <= x /\ x < x + s /\ x \in Int
      BY <2>1, <3>1, <3>2, <1>6, <1>7, <1>12, SMTT(30)
    <3> QED BY <3>3, <1>6, <1>12, InSpan, Zenon DEF s, C
  <2>4. Meet(b, c)
    BY <2>3, <1>5, Zenon DEF Meet
  <2>5. b = c
    BY <2>4, <1>1, Zenon DEF NoSharing
  <2> QED BY <2>5, <1>5, <1>14, Zenon
<1> QED BY <1>13, <1>14, Zenon

-------------------------------------------------------------------------------
(* The allocator implements PageAllocator.                                 *)

LEMMA SameWords ==
  /\ \A a, o : Abstract!Span(a, o) = Span(a, o)
  /\ \A n, o : Abstract!IsRequiredOrder(n, o) = IsRequiredOrder(n, o)
  /\ Abstract!Null = Null
  BY Zenon DEF Abstract!Span, Span, Abstract!IsRequiredOrder, IsRequiredOrder, Abstract!Null, Null

LEMMA VacantFacts ==
  ASSUME NEW o \in Orders
  PROVE  Abstract!Vacant(o) =
           {a \in Nat : /\ a + BlockPages[o] <= PageCount
                        /\ Aligned(a, o)
                        /\ \A b \in allocatedBlocks : Span(a, o) \cap Span(b[1], b[2]) = {}}
<1> DEFINE s == BlockPages[o]
<1>1. s \in Nat /\ PageCount \in Nat
  BY BlockPagesFacts, RegionAssumption, Zenon
<1>2. Abstract!Vacant(o) =
        {a \in 0 .. (PageCount - s) :
           Aligned(a, o) /\ \A b \in allocatedBlocks : Span(a, o) \cap Span(b[1], b[2]) = {}}
  BY SameWords, Zenon DEF Abstract!Vacant, Aligned
<1>3. \A a : a \in 0 .. (PageCount - s) <=> a \in Nat /\ a + s <= PageCount
  <2> HIDE DEF s
  <2> QED BY <1>1
<1> QED BY <1>2, <1>3, Zenon

LEMMA InitRefines == Init => Abstract!AInit
<1> SUFFICES ASSUME Init PROVE Abstract!AInit
  BY Zenon
<1>1. allocatedBlocks = {}
  BY Zenon DEF Init, allocatedBlocks
<1> QED BY <1>1, SameWords, Zenon DEF Init, Abstract!AInit

(* Take is the step at which the request is served.                        *)
LEMMA TakeRefines ==
  ASSUME CInv, Take
  PROVE  Abstract!ANext
<1> DEFINE o == cur.want
           b == Head(free_lists[o])
           n == cur.arg
<1>1. /\ o \in Orders /\ b \in Pages /\ <<b, o>> \in FreeBlocks
      /\ ready => orders[b] = NoOrder
      /\ IInv
  BY TakeStep, Zenon DEF CInv
<1>2. /\ pc = "split" /\ ready' = TRUE
      /\ orders' = [(IF ready THEN orders ELSE Blank) EXCEPT ![b] = o]
      /\ result' = [pages |-> n, addr |-> b]
      /\ n \in Requests /\ n > 0 /\ IsRequiredOrder(n, o)
  BY Zenon DEF Take, CInv, Serves
<1>3. /\ orders \in [Pages -> Orders \cup {NoOrder}] /\ NoOrder \notin Orders
      /\ Pages \subseteq Nat /\ PageCount \in Nat
  BY <1>1, OrderAssumption, RegionAssumption, SMTT(30) DEF IInv, TypeOK, NoOrder, Orders, Pages
<1>4. b \in Abstract!Vacant(o)
  <2>1. Aligned(b, o) /\ Span(b, o) \subseteq Pages
    BY <1>1, FreeFacts, Zenon DEF Placed
  <2>2. ASSUME NEW d \in allocatedBlocks
        PROVE  Span(b, o) \cap Span(d[1], d[2]) = {}
    <3>1. d \in HeldBlocks /\ d \in Blocks /\ <<b, o>> \in Blocks
      BY <1>1, <1>2, HeldIsAllocated, Zenon DEF Blocks
    <3>2. <<b, o>> # d
      BY <1>1, <3>1, Zenon DEF IInv, NoSharing
    <3>3. ~Meet(<<b, o>>, d)
      BY <1>1, <3>1, <3>2, Zenon DEF IInv, NoSharing
    <3> QED BY <3>3, Zenon DEF Meet
  <2>3. b + BlockPages[o] <= PageCount
    <3> DEFINE s == BlockPages[o]
    <3>1. s \in Nat \ {0} /\ b \in Nat
      BY <1>1, <1>3, BlockPagesFacts, Zenon
    <3> HIDE DEF b, o, s
    <3>2. b + s - 1 \in Int /\ b <= b + s - 1 /\ b + s - 1 < b + s
      BY <3>1
    <3>3. b + s - 1 \in Span(b, o)
      BY <3>1, <3>2, <1>1, InSpan, Zenon DEF s
    <3>4. b + s - 1 \in 0 .. PageCount - 1
      BY <3>3, <2>1, Zenon DEF Pages
    <3> QED BY <3>1, <3>4, <1>3, SMTT(30) DEF s
  <2> HIDE DEF b, o
  <2> QED BY <2>1, <2>2, <2>3, <1>1, <1>3, VacantFacts, Zenon
<1>5. allocatedBlocks' = allocatedBlocks \cup {<<b, o>>}
  <2>1. CASE ready
    <3>1. \A p \in Pages : orders'[p] = IF p = b THEN o ELSE orders[p]
      BY <2>1, <1>1, <1>2, <1>3, Zenon
    <3> HIDE DEF b, o
    <3> QED BY <3>1, <2>1, <1>1, <1>2, <1>3, SMTT(30) DEF allocatedBlocks
  <2>2. CASE ~ready
    <3>1. \A p \in Pages : orders'[p] = IF p = b THEN o ELSE NoOrder
      BY <2>2, <1>1, <1>2, <1>3, Zenon DEF Blank
    <3> HIDE DEF b, o
    <3> QED BY <3>1, <2>2, <1>1, <1>2, <1>3, SMTT(30) DEF allocatedBlocks
  <2> QED BY <2>1, <2>2, Zenon
<1> HIDE DEF b, o, n
<1>6. Abstract!AAlloc(n)
  BY <1>1, <1>2, <1>4, <1>5, SameWords, Zenon DEF Abstract!AAlloc, Orders
<1> QED BY <1>2, <1>6, Zenon DEF Abstract!ANext

(* AddFree is the step at which the freed block is given back.             *)
LEMMA AddFreeRefines ==
  ASSUME CInv, AddFree
  PROVE  Abstract!ANext
<1> DEFINE a == cur.arg
           b == <<a, orders[a]>>
<1>1. /\ ready /\ ready' = ready /\ result' = result
      /\ a \in Pages /\ orders[a] # NoOrder
      /\ orders \in [Pages -> Orders \cup {NoOrder}]
      /\ orders' = [orders EXCEPT ![a] = NoOrder]
  BY Zenon DEF CInv, IInv, CallProgress, TypeOK, AddFree, MarkFree
<1>2. NoOrder \notin Orders
  BY OrderAssumption DEF NoOrder, Orders
<1>3. \A p \in Pages : orders'[p] = IF p = a THEN NoOrder ELSE orders[p]
  BY <1>1, Zenon
<1>4. b \in allocatedBlocks
  BY <1>1, Zenon DEF allocatedBlocks
<1>5. allocatedBlocks' = allocatedBlocks \ {b}
  <2> HIDE DEF a
  <2> QED BY <1>1, <1>2, <1>3 DEF allocatedBlocks
<1> HIDE DEF b
<1>6. Abstract!AFree(b)
  BY <1>1, <1>5, Zenon DEF Abstract!AFree
<1> QED BY <1>4, <1>6, Zenon DEF Abstract!ANext

(* AllocNone is a refusal: every way to serve the request is blocked by an *)
(* allocated block.                                                        *)
LEMMA AllocNoneRefines ==
  ASSUME Ordered, CInv, NEW n \in Requests, AllocNone(n)
  PROVE  Abstract!ANext
<1>1. /\ pc = "idle" /\ result' = [pages |-> n, addr |-> Null]
      /\ UNCHANGED <<orders, ready>>
  BY Zenon DEF AllocNone
<1>2. ASSUME NEW o \in Orders, n > 0, IsRequiredOrder(n, o)
      PROVE  Abstract!Vacant(o) = {}
  <2>1. \A c \in o .. MaxOrder : free_lists[c] = <<>>
    BY <1>2, Zenon DEF AllocNone
  <2>2. ASSUME NEW a \in Abstract!Vacant(o) PROVE FALSE
    <3>1. /\ a \in Nat /\ a + BlockPages[o] <= PageCount /\ Aligned(a, o)
          /\ \A b \in allocatedBlocks : Span(a, o) \cap Span(b[1], b[2]) = {}
      BY VacantFacts, Zenon
    <3> QED BY <3>1, <2>1, <1>1, FindsRoom, Zenon
  <2> QED BY <2>2, Zenon
<1>3. allocatedBlocks' = allocatedBlocks
  BY <1>1, Zenon DEF allocatedBlocks
<1>4. Abstract!ARefuse(n)
  BY <1>1, <1>2, <1>3, SameWords, Zenon DEF Abstract!ARefuse, Orders
<1> QED BY <1>4, Zenon DEF Abstract!ANext

LEMMA NextRefines ==
  ASSUME Ordered, CInv, [Next]_vars
  PROVE  [Abstract!ANext]_(Abstract!avars)
<1>1. CASE Take
  BY <1>1, TakeRefines, Zenon
<1>2. CASE AddFree
  BY <1>2, AddFreeRefines, Zenon
<1>3. ASSUME NEW n \in Requests, AllocNone(n)
      PROVE  Abstract!ANext
  BY <1>3, AllocNoneRefines, Zenon
<1>4. CASE UNCHANGED <<orders, ready, result>>
  BY <1>4, Zenon DEF allocatedBlocks, Abstract!avars
<1>5. CASE Merge
  <2>1. UNCHANGED <<orders, ready, result>>
    BY <1>5, MergeStep, Zenon DEF CInv, Merge
  <2> QED BY <2>1, <1>4, Zenon
<1>6. CASE InitSkip \/ InitBlock \/ Split
  BY <1>4, <1>6, Zenon DEF InitSkip, InitBlock, Split
<1>7. CASE \E n : AllocBegin(n)
  BY <1>4, <1>7, Zenon DEF AllocBegin
<1>8. CASE \E a : FreeBegin(a) \/ FreeIgnored(a)
  BY <1>4, <1>8, Zenon DEF FreeBegin, FreeIgnored, vars
<1>9. CASE UNCHANGED vars
  BY <1>4, <1>9, Zenon DEF vars
<1> QED BY <1>1, <1>2, <1>3, <1>5, <1>6, <1>7, <1>8, <1>9, Zenon DEF Next, Step

-------------------------------------------------------------------------------
INSTANCE WellFoundedInduction

LEMMA NumbersOrdered == Ordered
<1> SUFFICES ASSUME NEW T \in SUBSET Nat, T # {}
             PROVE  \E x \in T : \A y \in T : x <= y
  BY Zenon DEF Ordered
<1> DEFINE R == {p \in Nat \X Nat : p[1] < p[2]}
<1>1. IsWellFoundedOn(R, Nat)
  BY NatLessThanWellFounded, Zenon DEF OpToRel
<1>2. PICK x \in T : \A y \in T : ~(<<y, x>> \in R)
  <2> HIDE DEF R
  <2>1. T \subseteq Nat
    BY Zenon
  <2> QED BY <1>1, <2>1, WFMin, Zenon
<1>3. \A y \in T : ~(y < x)
  BY <1>2, Zenon
<1> QED BY <1>3

(* The buddy allocator implements PageAllocator, for every region size,    *)
(* every MAX_ORDER and every request: each block that alloc returns is     *)
(* aligned and shares no page with an allocated one, free gives back       *)
(* exactly the block, and alloc returns None only when every aligned run   *)
(* that could hold the request meets an allocated block.                   *)
THEOREM ImplementsPageAllocator == Spec => Refinement
<1>1. CInv /\ [Next]_vars => [Abstract!ANext]_(Abstract!avars)
  BY NumbersOrdered, NextRefines, Zenon
<1> QED BY <1>1, InitCInv, NextCInv, InitRefines, PTL DEF Spec, Refinement, Abstract!ASpec
===============================================================================
