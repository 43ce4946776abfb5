----------------------------- MODULE Ext2Dir_proof ------------------------------
(***************************************************************************)
(* Proofs about Ext2Dir: the records of every directory tile its block.    *)
(***************************************************************************)
EXTENDS Ext2Dir, WellFoundedInduction, TLAPS

-------------------------------------------------------------------------------
(* The least and the greatest member, and induction up to a bound.         *)
LEMMA LeastMember ==
  ASSUME NEW T \in SUBSET Nat, T # {}
  PROVE  \E x \in T : \A y \in T : x <= y
<1> DEFINE R == {p \in Nat \X Nat : p[1] < p[2]}
<1>1. IsWellFoundedOn(R, Nat)
  BY NatLessThanWellFounded, Zenon DEF OpToRel
<1>2. PICK x \in T : \A y \in T : ~(<<y, x>> \in R)
  <2> HIDE DEF R
  <2>1. T \subseteq Nat
    BY Zenon
  <2> QED BY <1>1, <2>1, WFMin, Zenon
<1>3. \A y \in T : ~(y < x)
  BY <1>2, Zenon
<1> QED BY <1>3

LEMMA Joined ==
  ASSUME NEW S, NEW a \in Seq(S), NEW b \in Seq(S)
  PROVE  a \o b \in Seq(S) /\ Len(a \o b) = Len(a) + Len(b)
OBVIOUS

LEMMA MinIsMember ==
  ASSUME NEW T \in SUBSET Nat, T # {}
  PROVE  Min(T) \in T /\ \A y \in T : Min(T) <= y
BY LeastMember, Zenon DEF Min

LEMMA MaxIsMember ==
  ASSUME NEW n \in Nat, NEW T \in SUBSET (0 .. n), T # {}
  PROVE  Max(T) \in T
<1> DEFINE S == {x \in Nat : x <= n /\ n - x \in T}
<1>1. S \in SUBSET Nat /\ S # {}
  <2>1. PICK x \in T : TRUE
    BY ZenonT(30)
  <2>2. n - x \in Nat /\ n - x <= n /\ n - (n - x) = x
    OBVIOUS
  <2> QED BY <2>1, <2>2, Zenon
<1>2. PICK x \in S : \A y \in S : x <= y
  <2> HIDE DEF S
  <2> QED BY <1>1, LeastMember, Zenon
<1>3. n - x \in T
  BY Zenon
<1>4. ASSUME NEW y \in T PROVE n - x >= y
  <2>1. n - y \in Nat /\ n - y <= n /\ n - (n - y) = y
    OBVIOUS
  <2>2. n - y \in S
    BY <2>1, Zenon
  <2>3. x <= n - y
    BY <1>2, <2>2, ZenonT(30)
  <2> QED BY <2>1, <2>3
<1>5. \E m \in T : \A y \in T : m >= y
  BY <1>3, <1>4, Zenon
<1> QED BY <1>5, Zenon DEF Max

LEMMA Ascends ==
  ASSUME NEW n \in Nat, NEW T, 0 \in T,
         \A k \in 0 .. n - 1 : k \in T => k + 1 \in T
  PROVE  \A k \in 0 .. n : k \in T
<1> DEFINE S == {k \in Nat : k <= n /\ k \notin T}
<1> SUFFICES ASSUME S # {}
             PROVE  FALSE
  OBVIOUS
<1>1. PICK x \in S : \A y \in S : x <= y
  <2>1. S \in SUBSET Nat
    BY Zenon
  <2> HIDE DEF S
  <2> QED BY <2>1, LeastMember, Zenon
<1>2. x \in Nat /\ x <= n /\ x \notin T /\ x # 0
  BY Zenon
<1>3. x - 1 \in 0 .. n - 1 /\ x - 1 \notin S /\ (x - 1) + 1 = x
  BY <1>1, <1>2
<1>4. x - 1 \in T
  BY <1>3
<1> QED BY <1>2, <1>3, <1>4, Zenon

-------------------------------------------------------------------------------
(* Nothing in Ext2Alloc touches the directories.                           *)
SameDirs(v, w) == "dir" \in DOMAIN v /\ DOMAIN w = DOMAIN v /\ w.dir = v.dir

LEMMA AllocSame ==
  ASSUME NEW v, "dir" \in DOMAIN v, NEW k
  PROVE  SameDirs(v, alloc(v, k))
BY Zenon DEF SameDirs, alloc, Ok, Fail

LEMMA DeallocSame ==
  ASSUME NEW v, "dir" \in DOMAIN v, NEW k, NEW n
  PROVE  SameDirs(v, dealloc(v, k, n))
BY Zenon DEF SameDirs, dealloc, Ok, Fail

LEMMA EvictedSame ==
  ASSUME NEW v, "dir" \in DOMAIN v, NEW k, NEW a
  PROVE  SameDirs(v, handle_evicted(v, k, a))
BY ZenonT(30) DEF SameDirs, handle_evicted, AddDiff, Then, set_superblock, set_block_group_descriptor, write_dirty, Fail

LEMMA ForGroupSame ==
  ASSUME NEW v, "dir" \in DOMAIN v, NEW k, NEW g
  PROVE  SameDirs(v, allocator_for_group(v, k, g))
BY EvictedSame DEF SameDirs, allocator_for_group, Fail

(* alloc_any asks one group after the other.                                *)
LEMMA AnyRuns ==
  ASSUME NEW v, NEW k_
  PROVE  \E acc :
           /\ acc[0] = Fail(v, "OutOfSpace")
           /\ \A k \in 0 .. GroupCount - 1 : acc[k + 1] = TryGroup(acc[k], k_, k)
           /\ alloc_any(v, k_) = acc[GroupCount]
<1> DEFINE Body(it, m) == [k \in 0 .. m |-> IF k = 0 THEN Fail(v, "OutOfSpace") ELSE TryGroup(it[k - 1], k_, k - 1)]
           T == {m \in Nat : \E it : it = Body(it, m)}
<1>1. 0 \in T
  <2> DEFINE it == [k \in 0 .. 0 |-> Fail(v, "OutOfSpace")]
  <2>1. it = Body(it, 0)
    OBVIOUS
  <2> QED BY <2>1, ZenonT(30)
<1>2. ASSUME NEW m \in Nat, m \in T PROVE m + 1 \in T
  <2>1. PICK it : it = Body(it, m)
    BY <1>2, Zenon
  <2> DEFINE g == [k \in 0 .. m + 1 |-> IF k = m + 1 THEN TryGroup(it[m], k_, m) ELSE it[k]]
  <2>2. ASSUME NEW k \in 0 .. m + 1
        PROVE  g[k] = IF k = 0 THEN Fail(v, "OutOfSpace") ELSE TryGroup(g[k - 1], k_, k - 1)
    <3>1. CASE k = m + 1
      <4>1. m \in 0 .. m + 1 /\ m # m + 1 /\ k - 1 = m /\ k # 0
        BY <3>1
      <4>2. g[k] = TryGroup(it[m], k_, m) /\ g[m] = it[m]
        BY <3>1, <4>1, Zenon
      <4> HIDE DEF g
      <4> QED BY <3>1, <4>1, <4>2, Zenon
    <3>2. CASE k # m + 1
      <4>1. k \in 0 .. m /\ (k # 0 => k - 1 \in 0 .. m + 1 /\ k - 1 # m + 1)
        BY <3>2
      <4>2. g[k] = it[k] /\ (k # 0 => g[k - 1] = it[k - 1])
        BY <3>2, <4>1, Zenon
      <4>3. it[k] = IF k = 0 THEN Fail(v, "OutOfSpace") ELSE TryGroup(it[k - 1], k_, k - 1)
        BY <2>1, <4>1, Zenon
      <4> HIDE DEF g
      <4> QED BY <4>2, <4>3, Zenon
    <3> QED BY <3>1, <3>2, Zenon
  <2>3. g = Body(g, m + 1)
    <3>1. g = [k \in 0 .. m + 1 |-> g[k]]
      BY Zenon
    <3> HIDE DEF g
    <3> QED BY <2>2, <3>1, Zenon
  <2> HIDE DEF g, Body
  <2>4. \E it_ : it_ = Body(it_, m + 1)
    BY <2>3, Zenon
  <2> QED BY <2>4
<1>3. GroupCount \in T
  <2> DEFINE N == GroupCount
  <2>1. N \in Nat
    BY Ext2AllocAssumption, Zenon
  <2> HIDE DEF T, N
  <2>2. \A k \in 0 .. N : k \in T
    BY <1>1, <1>2, <2>1, Ascends
  <2> QED BY <2>1, <2>2 DEF N
<1> DEFINE acc == CHOOSE it : it = Body(it, GroupCount)
<1>4. acc = Body(acc, GroupCount)
  BY <1>3, Zenon
<1>5. alloc_any(v, k_) = acc[GroupCount]
  BY Zenon DEF alloc_any
<1> HIDE DEF acc
<1>6. acc[0] = Fail(v, "OutOfSpace") /\ GroupCount \in Nat
  BY <1>3, <1>4
<1>7. ASSUME NEW k \in 0 .. GroupCount - 1 PROVE acc[k + 1] = TryGroup(acc[k], k_, k)
  <2>1. k + 1 \in 0 .. GroupCount /\ k + 1 # 0 /\ (k + 1) - 1 = k
    BY <1>6
  <2> QED BY <1>4, <2>1, Zenon
<1> QED BY <1>5, <1>6, <1>7, Zenon

(* Ends adds up the lengths of the records.                                 *)
LEMMA EndsRuns ==
  ASSUME NEW recs, Len(recs) \in Nat
  PROVE  \E acc :
           /\ acc[0] = 0
           /\ \A k \in 0 .. Len(recs) - 1 : acc[k + 1] = acc[k] + recs[k + 1].rec_len
           /\ Ends(recs) = acc
<1> DEFINE Body(it, m) == [k \in 0 .. m |-> IF k = 0 THEN 0 ELSE it[k - 1] + recs[k].rec_len]
           T == {m \in Nat : \E it : it = Body(it, m)}
<1>1. 0 \in T
  <2> DEFINE it == [k \in 0 .. 0 |-> 0]
  <2>1. it = Body(it, 0)
    OBVIOUS
  <2> QED BY <2>1, ZenonT(30)
<1>2. ASSUME NEW m \in Nat, m \in T PROVE m + 1 \in T
  <2>1. PICK it : it = Body(it, m)
    BY <1>2, Zenon
  <2> DEFINE g == [k \in 0 .. m + 1 |-> IF k = m + 1 THEN it[m] + recs[m + 1].rec_len ELSE it[k]]
  <2>2. ASSUME NEW k \in 0 .. m + 1
        PROVE  g[k] = IF k = 0 THEN 0 ELSE g[k - 1] + recs[k].rec_len
    <3>1. CASE k = m + 1
      <4>1. m \in 0 .. m + 1 /\ m # m + 1 /\ k - 1 = m /\ k # 0
        BY <3>1
      <4>2. g[k] = it[m] + recs[m + 1].rec_len /\ g[m] = it[m]
        BY <3>1, <4>1, Zenon
      <4> HIDE DEF g
      <4> QED BY <3>1, <4>1, <4>2, Zenon
    <3>2. CASE k # m + 1
      <4>1. k \in 0 .. m /\ (k # 0 => k - 1 \in 0 .. m + 1 /\ k - 1 # m + 1)
        BY <3>2
      <4>2. g[k] = it[k] /\ (k # 0 => g[k - 1] = it[k - 1])
        BY <3>2, <4>1, Zenon
      <4>3. it[k] = IF k = 0 THEN 0 ELSE it[k - 1] + recs[k].rec_len
        BY <2>1, <4>1, Zenon
      <4> HIDE DEF g
      <4> QED BY <4>2, <4>3, Zenon
    <3> QED BY <3>1, <3>2, Zenon
  <2>3. g = Body(g, m + 1)
    <3>1. g = [k \in 0 .. m + 1 |-> g[k]]
      BY Zenon
    <3> HIDE DEF g
    <3> QED BY <2>2, <3>1, Zenon
  <2> HIDE DEF g, Body
  <2>4. \E it_ : it_ = Body(it_, m + 1)
    BY <2>3, Zenon
  <2> QED BY <2>4
<1>3. Len(recs) \in T
  <2> DEFINE N == Len(recs)
  <2>1. N \in Nat
    BY Zenon
  <2> HIDE DEF T, N
  <2>2. \A k \in 0 .. N : k \in T
    BY <1>1, <1>2, <2>1, Ascends, SMTT(30)
  <2> QED BY <2>1, <2>2 DEF N
<1> DEFINE acc == CHOOSE it : it = Body(it, Len(recs))
<1>4. acc = Body(acc, Len(recs))
  BY <1>3, Zenon
<1>5. Ends(recs) = acc
  BY Zenon DEF Ends
<1> HIDE DEF acc
<1>6. acc[0] = 0 /\ Len(recs) \in Nat
  BY <1>3, <1>4
<1>7. ASSUME NEW k \in 0 .. Len(recs) - 1 PROVE acc[k + 1] = acc[k] + recs[k + 1].rec_len
  <2>1. k + 1 \in 0 .. Len(recs) /\ k + 1 # 0 /\ (k + 1) - 1 = k
    BY <1>6
  <2> QED BY <1>4, <2>1, Zenon
<1> QED BY <1>5, <1>6, <1>7, Zenon

(* mkdir0 goes from one part of the path to the next.                       *)
LEMMA MkdirRuns ==
  ASSUME NEW s, NEW path, Len(path) \in Nat
  PROVE  \E acc :
           /\ acc[0] = [s |-> s, at |-> get_root]
           /\ \A k \in 0 .. Len(path) - 1 : acc[k + 1] = MkdirPart(acc[k], path[k + 1])
           /\ mkdir0(s, path) = acc[Len(path)].s
<1> DEFINE Body(it, m) == [k \in 0 .. m |-> IF k = 0 THEN [s |-> s, at |-> get_root] ELSE MkdirPart(it[k - 1], path[k])]
           T == {m \in Nat : \E it : it = Body(it, m)}
<1>1. 0 \in T
  <2> DEFINE it == [k \in 0 .. 0 |-> [s |-> s, at |-> get_root]]
  <2>1. it = Body(it, 0)
    OBVIOUS
  <2> QED BY <2>1, ZenonT(30)
<1>2. ASSUME NEW m \in Nat, m \in T PROVE m + 1 \in T
  <2>1. PICK it : it = Body(it, m)
    BY <1>2, Zenon
  <2> DEFINE g == [k \in 0 .. m + 1 |-> IF k = m + 1 THEN MkdirPart(it[m], path[m + 1]) ELSE it[k]]
  <2>2. ASSUME NEW k \in 0 .. m + 1
        PROVE  g[k] = IF k = 0 THEN [s |-> s, at |-> get_root] ELSE MkdirPart(g[k - 1], path[k])
    <3>1. CASE k = m + 1
      <4>1. m \in 0 .. m + 1 /\ m # m + 1 /\ k - 1 = m /\ k # 0
        BY <3>1
      <4>2. g[k] = MkdirPart(it[m], path[m + 1]) /\ g[m] = it[m]
        BY <3>1, <4>1, Zenon
      <4> HIDE DEF g
      <4> QED BY <3>1, <4>1, <4>2, Zenon
    <3>2. CASE k # m + 1
      <4>1. k \in 0 .. m /\ (k # 0 => k - 1 \in 0 .. m + 1 /\ k - 1 # m + 1)
        BY <3>2
      <4>2. g[k] = it[k] /\ (k # 0 => g[k - 1] = it[k - 1])
        BY <3>2, <4>1, Zenon
      <4>3. it[k] = IF k = 0 THEN [s |-> s, at |-> get_root] ELSE MkdirPart(it[k - 1], path[k])
        BY <2>1, <4>1, Zenon
      <4> HIDE DEF g
      <4> QED BY <4>2, <4>3, Zenon
    <3> QED BY <3>1, <3>2, Zenon
  <2>3. g = Body(g, m + 1)
    <3>1. g = [k \in 0 .. m + 1 |-> g[k]]
      BY ZenonT(30)
    <3> HIDE DEF g
    <3> QED BY <2>2, <3>1, ZenonT(30)
  <2> HIDE DEF g, Body
  <2>4. \E it_ : it_ = Body(it_, m + 1)
    BY <2>3, Zenon
  <2> QED BY <2>4
<1>3. Len(path) \in T
  <2> DEFINE N == Len(path)
  <2>1. N \in Nat
    BY Zenon
  <2> HIDE DEF T, N
  <2>2. \A k \in 0 .. N : k \in T
    BY <1>1, <1>2, <2>1, Ascends
  <2> QED BY <2>1, <2>2 DEF N
<1> DEFINE acc == CHOOSE it : it = Body(it, Len(path))
<1>4. acc = Body(acc, Len(path))
  BY <1>3, Zenon
<1>5. mkdir0(s, path) = acc[Len(path)].s
  BY Zenon DEF mkdir0
<1> HIDE DEF acc
<1>6. acc[0] = [s |-> s, at |-> get_root] /\ Len(path) \in Nat
  BY <1>3, <1>4
<1>7. ASSUME NEW k \in 0 .. Len(path) - 1 PROVE acc[k + 1] = MkdirPart(acc[k], path[k + 1])
  <2>1. k + 1 \in 0 .. Len(path) /\ k + 1 # 0 /\ (k + 1) - 1 = k
    BY <1>6
  <2> QED BY <1>4, <2>1, Zenon
<1> QED BY <1>5, <1>6, <1>7, Zenon

-------------------------------------------------------------------------------
(* Records.                                                                *)
IsEntry(e) == e = Entry(e.inode, e.name, e.rec_len) /\ e.rec_len \in Nat

Records(recs) == (\E S : recs \in Seq(S)) /\ \A k \in DOMAIN recs : IsEntry(recs[k])

LEMMA RecordsFacts ==
  ASSUME NEW recs, Records(recs)
  PROVE  /\ Len(recs) \in Nat /\ DOMAIN recs = 1 .. Len(recs)
         /\ \A k \in 1 .. Len(recs) : recs[k].rec_len \in Int
         /\ recs = <<>> <=> Len(recs) = 0
<1>1. PICK S : recs \in Seq(S)
  BY Zenon DEF Records
<1>2. Len(recs) \in Nat /\ DOMAIN recs = 1 .. Len(recs)
  BY <1>1
<1>3. recs = <<>> <=> Len(recs) = 0
  BY <1>1
<1> QED BY <1>2, <1>3 DEF Records, IsEntry

(* Whatever adds up the lengths of the records ends where Ends does.       *)
LEMMA EndsFacts ==
  ASSUME NEW recs, Records(recs)
  PROVE  /\ Ends(recs)[0] = 0
         /\ \A k \in 0 .. Len(recs) : Ends(recs)[k] \in Int
         /\ \A k \in 1 .. Len(recs) : Ends(recs)[k] = Ends(recs)[k - 1] + recs[k].rec_len
<1> DEFINE n == Len(recs)
<1>1. n \in Nat /\ \A k \in 1 .. n : recs[k].rec_len \in Int
  BY RecordsFacts, Zenon
<1>2. PICK at : /\ at[0] = 0
                /\ \A k \in 0 .. n - 1 : at[k + 1] = at[k] + recs[k + 1].rec_len
                /\ Ends(recs) = at
  BY <1>1, EndsRuns, Zenon
<1> HIDE DEF n
<1>3. \A k \in 0 .. n : at[k] \in Int
  <2> DEFINE T == {k \in Nat : at[k] \in Int}
  <2>1. 0 \in T
    BY <1>2
  <2>2. ASSUME NEW k \in 0 .. n - 1, k \in T PROVE k + 1 \in T
    <3>1. k + 1 \in 1 .. n /\ k + 1 \in Nat
      BY <1>1
    <3>2. recs[k + 1].rec_len \in Int
      BY <1>1, <3>1, Zenon
    <3> QED BY <1>2, <2>2, <3>1, <3>2, SMTT(30)
  <2>3. \A k \in 0 .. n : k \in T
    <3> HIDE DEF T
    <3> QED BY <1>1, <2>1, <2>2, Ascends, Zenon
  <2> QED BY <2>3, Zenon
<1>4. ASSUME NEW k \in 1 .. n PROVE at[k] = at[k - 1] + recs[k].rec_len
  <2>1. k - 1 \in 0 .. n - 1 /\ (k - 1) + 1 = k
    BY <1>1
  <2> QED BY <1>2, <2>1, Zenon
<1> QED BY <1>2, <1>3, <1>4, Zenon DEF n

LEMMA EndsUnique ==
  ASSUME NEW recs, Records(recs), NEW g, g[0] = 0,
         \A k \in 1 .. Len(recs) : g[k] = g[k - 1] + recs[k].rec_len
  PROVE  Ends(recs)[Len(recs)] = g[Len(recs)]
<1> DEFINE n == Len(recs)
           at == Ends(recs)
           T == {k \in Nat : at[k] = g[k]}
<1>1. n \in Nat
  BY RecordsFacts, Zenon
<1>2. at[0] = 0 /\ \A k \in 1 .. n : at[k] = at[k - 1] + recs[k].rec_len
  BY EndsFacts, Zenon
<1>3. \A k \in 1 .. n : g[k] = g[k - 1] + recs[k].rec_len
  BY Zenon
<1> HIDE DEF n, at
<1>4. 0 \in T
  BY <1>2, Zenon
<1>5. ASSUME NEW k \in 0 .. n - 1, k \in T PROVE k + 1 \in T
  <2>1. k + 1 \in 1 .. n /\ k + 1 \in Nat /\ (k + 1) - 1 = k
    BY <1>1
  <2>2. at[k + 1] = at[k] + recs[k + 1].rec_len /\ g[k + 1] = g[k] + recs[k + 1].rec_len
    BY <1>2, <1>3, <2>1, Zenon
  <2> QED BY <1>5, <2>1, <2>2, Zenon
<1>6. \A k \in 0 .. n : k \in T
  <2> HIDE DEF T
  <2> QED BY <1>1, <1>4, <1>5, Ascends, Zenon
<1>7. at[n] = g[n]
  BY <1>1, <1>6
<1> QED BY <1>7, Zenon DEF n, at

(* A record cut in two, and a record that takes the length of a later one. *)
IsCut(old, recs, k) ==
  /\ k \in 1 .. Len(old) /\ Len(recs) = Len(old) + 1
  /\ \A i \in 1 .. k - 1 : recs[i].rec_len = old[i].rec_len
  /\ recs[k].rec_len + recs[k + 1].rec_len = old[k].rec_len
  /\ \A i \in k + 1 .. Len(old) : recs[i + 1].rec_len = old[i].rec_len

IsJoin(old, recs, j, k) ==
  /\ k \in 1 .. Len(old) /\ j \in 1 .. k - 1 /\ Len(recs) = Len(old) - 1
  /\ \A i \in 1 .. k - 1 : i # j => recs[i].rec_len = old[i].rec_len
  /\ recs[j].rec_len = old[j].rec_len + old[k].rec_len
  /\ \A i \in k .. Len(old) - 1 : recs[i].rec_len = old[i + 1].rec_len

LEMMA CutEnds ==
  ASSUME NEW old, NEW recs, Records(old), Records(recs), NEW k \in Nat, IsCut(old, recs, k)
  PROVE  Ends(recs)[Len(recs)] = Ends(old)[Len(old)]
<1> DEFINE n == Len(old)
           at == Ends(old)
           g == [i \in 0 .. n + 1 |-> IF i < k THEN at[i]
                                      ELSE IF i = k THEN at[k - 1] + recs[k].rec_len
                                      ELSE at[i - 1]]
<1>1. /\ n \in Nat /\ Len(recs) = n + 1 /\ k \in 1 .. n
      /\ \A i \in 1 .. n : old[i].rec_len \in Int
      /\ \A i \in 1 .. n + 1 : recs[i].rec_len \in Int
  BY RecordsFacts, Zenon DEF IsCut
<1>2. at[0] = 0 /\ (\A i \in 0 .. n : at[i] \in Int) /\ \A i \in 1 .. n : at[i] = at[i - 1] + old[i].rec_len
  BY EndsFacts, Zenon
<1>3. /\ \A i \in 1 .. k - 1 : recs[i].rec_len = old[i].rec_len
      /\ recs[k].rec_len + recs[k + 1].rec_len = old[k].rec_len
      /\ \A i \in k + 1 .. n : recs[i + 1].rec_len = old[i].rec_len
  BY ZenonT(30) DEF IsCut
<1> HIDE DEF n, at
<1>4. ASSUME NEW i \in 1 .. n + 1 PROVE g[i] = g[i - 1] + recs[i].rec_len
  <2>1. CASE i < k
    <3>1. i \in 1 .. k - 1 /\ i \in 1 .. n /\ i - 1 < k /\ i - 1 \in 0 .. n + 1 /\ i \in 0 .. n + 1
      BY <1>1, <2>1, SMTT(30)
    <3> QED BY <1>2, <1>3, <2>1, <3>1, Zenon
  <2>2. CASE i = k
    <3>1. i - 1 < k /\ i - 1 \in 0 .. n + 1 /\ i \in 0 .. n + 1
      BY <1>1, <2>2, SMTT(30)
    <3> QED BY <2>2, <3>1, <1>1, SMTT(30)
  <2>3. CASE i = k + 1
    <3>1. i - 1 = k /\ k \in 0 .. n + 1 /\ i \in 0 .. n + 1 /\ ~(i < k) /\ i # k /\ k \in 1 .. n /\ k - 1 \in 0 .. n
      BY <1>1, <2>3, SMTT(30)
    <3>2. g[i] = at[k] /\ g[i - 1] = at[k - 1] + recs[k].rec_len
      BY <3>1, SMTT(30)
    <3>3. at[k] = at[k - 1] + old[k].rec_len /\ recs[k].rec_len \in Int /\ recs[k + 1].rec_len \in Int /\ at[k - 1] \in Int
      BY <1>1, <1>2, <3>1, SMTT(30)
    <3> HIDE DEF g
    <3> QED BY <1>3, <3>2, <3>3, <2>3, SMTT(30)
  <2>4. CASE i > k + 1
    <3>1. /\ i - 1 \in k + 1 .. n /\ i - 1 \in 1 .. n /\ i - 1 \in 0 .. n + 1 /\ i \in 0 .. n + 1
          /\ ~(i < k) /\ i # k /\ ~(i - 1 < k) /\ i - 1 # k /\ (i - 1) + 1 = i
      BY <1>1, <2>4
    <3>2. g[i] = at[i - 1] /\ g[i - 1] = at[(i - 1) - 1]
      BY <3>1, Zenon
    <3>3. recs[i].rec_len = old[i - 1].rec_len
      BY <1>3, <3>1, Zenon
    <3> HIDE DEF g
    <3> QED BY <1>2, <3>1, <3>2, <3>3, Zenon
  <2> QED BY <1>1, <2>1, <2>2, <2>3, <2>4, SMTT(30)
<1>5. g[0] = 0 /\ g[n + 1] = at[n]
  BY <1>1, <1>2
<1> HIDE DEF g
<1>6. Ends(recs)[Len(recs)] = g[Len(recs)]
  BY <1>1, <1>4, <1>5, EndsUnique, Zenon
<1> QED BY <1>1, <1>5, <1>6, Zenon DEF n, at

LEMMA JoinEnds ==
  ASSUME NEW old, NEW recs, Records(old), Records(recs), NEW k \in Nat, NEW j \in Nat,
         IsJoin(old, recs, j, k)
  PROVE  Ends(recs)[Len(recs)] = Ends(old)[Len(old)]
<1> DEFINE n == Len(old)
           at == Ends(old)
           g == [i \in 0 .. n - 1 |-> IF i < j THEN at[i]
                                      ELSE IF i < k THEN at[i] + old[k].rec_len
                                      ELSE at[i + 1]]
<1>1. n \in Nat /\ Len(recs) = n - 1 /\ k \in 1 .. n /\ j \in Nat /\ 1 <= j /\ j < k
  BY RecordsFacts DEF IsJoin
<1>0. \A i \in 1 .. n : old[i].rec_len \in Int
  BY RecordsFacts, Zenon
<1>2. at[0] = 0 /\ (\A i \in 0 .. n : at[i] \in Int) /\ \A i \in 1 .. n : at[i] = at[i - 1] + old[i].rec_len
  BY EndsFacts, Zenon
<1>3. /\ \A i \in 1 .. k - 1 : i # j => recs[i].rec_len = old[i].rec_len
      /\ recs[j].rec_len = old[j].rec_len + old[k].rec_len
      /\ \A i \in k .. n - 1 : recs[i].rec_len = old[i + 1].rec_len
  BY ZenonT(30) DEF IsJoin
<1> HIDE DEF n, at
<1>4. ASSUME NEW i \in 1 .. n - 1 PROVE g[i] = g[i - 1] + recs[i].rec_len
  <2>1. /\ i \in 1 .. n /\ i - 1 \in 0 .. n - 1 /\ i \in 0 .. n - 1 /\ i + 1 \in 1 .. n /\ i - 1 \in 0 .. n
        /\ i + 1 \in 0 .. n /\ (i + 1) - 1 = i /\ (i - 1) + 1 = i
    BY <1>1
  <2>2. /\ at[i] = at[i - 1] + old[i].rec_len /\ at[i + 1] = at[i] + old[i + 1].rec_len
        /\ at[i] \in Int /\ at[i - 1] \in Int /\ at[i + 1] \in Int
        /\ old[i].rec_len \in Int /\ old[i + 1].rec_len \in Int /\ old[k].rec_len \in Int
    <3>1. at[i] = at[i - 1] + old[i].rec_len /\ at[i] \in Int /\ at[i - 1] \in Int
      BY <1>2, <2>1
    <3>2. at[i + 1] = at[(i + 1) - 1] + old[i + 1].rec_len /\ at[i + 1] \in Int
      BY <1>2, <2>1, Zenon
    <3>3. old[i].rec_len \in Int /\ old[i + 1].rec_len \in Int /\ old[k].rec_len \in Int
      BY <1>0, <1>1, <2>1, Zenon
    <3> QED BY <2>1, <3>1, <3>2, <3>3, Zenon
  <2>3. CASE i < j
    <3>1. i - 1 < j /\ i \in 1 .. k - 1 /\ i # j
      BY <1>1, <2>1, <2>3
    <3>2. g[i] = at[i] /\ g[i - 1] = at[i - 1]
      BY <2>1, <2>3, <3>1, Zenon
    <3>3. recs[i].rec_len = old[i].rec_len
      BY <1>3, <3>1, Zenon
    <3> HIDE DEF g
    <3> QED BY <2>2, <3>2, <3>3, Zenon
  <2>4. CASE i = j
    <3>1. i - 1 < j /\ ~(i < j) /\ i < k
      BY <1>1, <2>1, <2>4
    <3>2. g[i] = at[i] + old[k].rec_len /\ g[i - 1] = at[i - 1]
      BY <2>1, <3>1, Zenon
    <3>3. recs[i].rec_len = old[i].rec_len + old[k].rec_len
      BY <1>3, <2>4, Zenon
    <3> HIDE DEF g
    <3> QED BY <2>2, <3>2, <3>3, SMTT(30)
  <2>5. CASE i > j /\ i < k
    <3>1. ~(i - 1 < j) /\ ~(i < j) /\ i - 1 < k /\ i \in 1 .. k - 1 /\ i # j
      BY <1>1, <2>1, <2>5, SMTT(30)
    <3>2. g[i] = at[i] + old[k].rec_len /\ g[i - 1] = at[i - 1] + old[k].rec_len
      BY <2>1, <2>5, <3>1, Zenon
    <3>3. recs[i].rec_len = old[i].rec_len
      BY <1>3, <3>1, Zenon
    <3> HIDE DEF g
    <3> QED BY <2>2, <3>2, <3>3, SMTT(30)
  <2>6. CASE i >= k
    <3>1. ~(i < j) /\ ~(i < k) /\ ~(i - 1 < j) /\ i \in k .. n - 1 /\ (i - 1 < k <=> i = k)
      BY <1>1, <2>1, <2>6
    <3>2. g[i] = at[i + 1] /\ g[i - 1] = IF i = k THEN at[i - 1] + old[k].rec_len ELSE at[i]
      BY <2>1, <3>1, Zenon
    <3>3. recs[i].rec_len = old[i + 1].rec_len
      BY <1>3, <3>1, Zenon
    <3> HIDE DEF g
    <3>4. CASE i = k
      BY <2>2, <3>2, <3>3, <3>4, Zenon
    <3>5. CASE i # k
      BY <2>2, <3>2, <3>3, <3>5, ZenonT(30)
    <3> QED BY <3>4, <3>5, Zenon
  <2> QED BY <1>1, <2>3, <2>4, <2>5, <2>6, SMTT(30)
<1>5. g[0] = 0 /\ g[n - 1] = at[n]
  <2>1. 0 < j /\ 0 \in 0 .. n - 1 /\ n - 1 \in 0 .. n - 1 /\ (n - 1) + 1 = n /\ ~(n - 1 < j) /\ n \in 1 .. n
    BY <1>1
  <2>2. g[0] = 0
    BY <1>2, <2>1, Zenon
  <2>3. CASE n - 1 < k
    <3>1. k = n
      BY <1>1, <2>3
    <3>2. g[n - 1] = at[n - 1] + old[k].rec_len
      BY <2>1, <2>3, Zenon
    <3> HIDE DEF g
    <3> QED BY <1>2, <2>1, <2>2, <3>1, <3>2, Zenon
  <2>4. CASE ~(n - 1 < k)
    BY <2>1, <2>2, <2>4, Zenon
  <2> QED BY <2>3, <2>4, Zenon
<1> HIDE DEF g
<1>6. Ends(recs)[Len(recs)] = g[Len(recs)]
  BY <1>1, <1>4, <1>5, EndsUnique, ZenonT(30)
<1> QED BY <1>1, <1>5, <1>6, Zenon DEF n, at

-------------------------------------------------------------------------------
(* Inserting into and removing from a sequence.                            *)
Inserted(t, s, i, e) ==
  /\ Len(t) = Len(s) + 1
  /\ \A j \in 1 .. Len(s) + 1 : t[j] = IF j < i THEN s[j] ELSE IF j = i THEN e ELSE s[j - 1]

LEMMA InsertAtFacts ==
  ASSUME NEW S, NEW s \in Seq(S), NEW e \in S, NEW i \in 1 .. Len(s) + 1
  PROVE  InsertAt(s, i, e) \in Seq(S) /\ Inserted(InsertAt(s, i, e), s, i, e)
<1> DEFINE a == SubSeq(s, 1, i - 1)
           b == SubSeq(s, i, Len(s))
<1>1. /\ a \in Seq(S) /\ Len(a) = i - 1 /\ \A j \in 1 .. i - 1 : a[j] = s[j]
  OBVIOUS
<1>2. /\ b \in Seq(S) /\ Len(b) = Len(s) - i + 1 /\ \A j \in 1 .. Len(s) - i + 1 : b[j] = s[i + j - 1]
  OBVIOUS
<1>3. InsertAt(s, i, e) = (a \o <<e>>) \o b
  BY Zenon DEF InsertAt
<1> HIDE DEF a, b
<1>4. /\ a \o <<e>> \in Seq(S) /\ Len(a \o <<e>>) = i
      /\ \A j \in 1 .. i : (a \o <<e>>)[j] = IF j < i THEN s[j] ELSE e
  BY <1>1
<1> DEFINE c == a \o <<e>>
<1>5. c \in Seq(S) /\ Len(c) = i /\ \A j \in 1 .. i : c[j] = IF j < i THEN s[j] ELSE e
  BY <1>4, Zenon
<1> HIDE DEF c
<1>6. /\ c \o b \in Seq(S) /\ Len(c \o b) = Len(s) + 1
  <2>1. c \in Seq(S) /\ b \in Seq(S) /\ Len(c) = i /\ Len(b) = Len(s) - i + 1 /\ Len(s) \in Nat
    BY <1>2, <1>5
  <2>2. c \o b \in Seq(S) /\ Len(c \o b) = Len(c) + Len(b)
    BY <2>1, Joined, Zenon
  <2> QED BY <2>1, <2>2
<1>7. ASSUME NEW j \in 1 .. Len(s) + 1
      PROVE  (c \o b)[j] = IF j < i THEN s[j] ELSE IF j = i THEN e ELSE s[j - 1]
  <2>1. CASE j <= i
    BY <1>2, <1>5, <2>1
  <2>2. CASE j > i
    <3>1. (c \o b)[j] = b[j - i]
      BY <1>2, <1>5, <2>2, SMTT(30)
    <3>2. j - i \in 1 .. Len(s) - i + 1 /\ i + (j - i) - 1 = j - 1
      BY <2>2
    <3>3. b[j - i] = s[i + (j - i) - 1]
      BY <1>2, <3>2, Zenon
    <3>4. ~(j < i) /\ j # i
      BY <2>2
    <3> QED BY <3>1, <3>2, <3>3, <3>4, Zenon
  <2>3. j <= i \/ j > i
    OBVIOUS
  <2> QED BY <2>1, <2>2, <2>3, Zenon
<1> QED BY <1>3, <1>6, <1>7, Zenon DEF Inserted, c

LEMMA RemoveAtFacts ==
  ASSUME NEW S, NEW s \in Seq(S), NEW i \in 1 .. Len(s)
  PROVE  /\ RemoveAt(s, i) \in Seq(S)
         /\ Len(RemoveAt(s, i)) = Len(s) - 1
         /\ \A j \in 1 .. Len(s) - 1 :
              RemoveAt(s, i)[j] = IF j < i THEN s[j] ELSE s[j + 1]
<1> DEFINE a == SubSeq(s, 1, i - 1)
           b == SubSeq(s, i + 1, Len(s))
<1>1. /\ a \in Seq(S) /\ Len(a) = i - 1 /\ \A j \in 1 .. i - 1 : a[j] = s[j]
  OBVIOUS
<1>2. /\ b \in Seq(S) /\ Len(b) = Len(s) - i /\ \A j \in 1 .. Len(s) - i : b[j] = s[i + j]
  OBVIOUS
<1>3. RemoveAt(s, i) = a \o b
  BY Zenon DEF RemoveAt
<1> HIDE DEF a, b
<1>4. /\ a \o b \in Seq(S) /\ Len(a \o b) = Len(s) - 1
  <2>1. a \in Seq(S) /\ b \in Seq(S) /\ Len(a) = i - 1 /\ Len(b) = Len(s) - i /\ Len(s) \in Nat
    BY <1>1, <1>2
  <2>2. a \o b \in Seq(S) /\ Len(a \o b) = Len(a) + Len(b)
    BY <2>1, Joined, Zenon
  <2> QED BY <2>1, <2>2
<1>5. ASSUME NEW j \in 1 .. Len(s) - 1
      PROVE  (a \o b)[j] = IF j < i THEN s[j] ELSE s[j + 1]
  <2>1. CASE j < i
    BY <1>1, <1>2, <2>1, SMTT(30)
  <2>2. CASE j >= i
    <3>1. (a \o b)[j] = b[j - (i - 1)]
      BY <1>1, <1>2, <2>2, SMTT(30)
    <3>2. j - (i - 1) \in 1 .. Len(s) - i /\ i + (j - (i - 1)) = j + 1
      BY <2>2
    <3>3. b[j - (i - 1)] = s[i + (j - (i - 1))]
      BY <1>2, <3>2, Zenon
    <3>4. ~(j < i)
      BY <2>2
    <3> QED BY <3>1, <3>2, <3>3, <3>4, ZenonT(30)
  <2>3. j < i \/ j >= i
    OBVIOUS
  <2> QED BY <2>1, <2>2, <2>3, ZenonT(30)
<1> QED BY <1>3, <1>4, <1>5, Zenon

-------------------------------------------------------------------------------
(* A directory whose records tile its block.                               *)
AllNames == Names \cup {".", ".."}

Fits(recs) ==
  \A k \in DOMAIN recs :
    recs[k].inode # 0 => recs[k].name \in AllNames /\ Spare(recs[k]) >= 0

Good(recs) ==
  /\ Records(recs)
  /\ Fits(recs)
  /\ recs # <<>> => Ends(recs)[Len(recs)] = BlockUnits

LEMMA NameFacts ==
  /\ \A name \in AllNames : Intrinsic(name) \in Nat
  /\ \A name \in AllNames \ TooLong : name \in Names => Intrinsic(name) <= BlockUnits
  /\ Intrinsic(".") = 3 /\ Intrinsic("..") = 3 /\ BlockUnits \in Nat /\ BlockUnits >= 6
<1> USE Ext2DirAssumption DEF AllNames, Intrinsic, HeaderUnits
<1>1. \A name \in AllNames : Intrinsic(name) \in Nat
  OBVIOUS
<1>2. \A name \in AllNames \ TooLong : name \in Names => Intrinsic(name) <= BlockUnits
  BY Zenon
<1>3. Intrinsic(".") = 3 /\ Intrinsic("..") = 3 /\ BlockUnits \in Nat /\ BlockUnits >= 6
  OBVIOUS
<1> QED BY <1>1, <1>2, <1>3, Zenon

LEMMA EmptyGood == Good(<<>>)
BY DEF Good, Records, Fits

LEMMA OneGood ==
  ASSUME NEW i, NEW name \in AllNames, name \notin TooLong \/ name \notin Names
  PROVE  Good(<<Entry(i, name, BlockUnits)>>)
<1> DEFINE e == Entry(i, name, BlockUnits)
           recs == <<e>>
<1>1. Intrinsic(name) \in Nat /\ Intrinsic(name) <= BlockUnits /\ BlockUnits \in Nat
  BY NameFacts DEF AllNames
<1>2. /\ IsEntry(e) /\ e.name = name /\ e.rec_len = BlockUnits
      /\ Spare(e) = BlockUnits - Intrinsic(name)
  BY <1>1, Zenon DEF IsEntry, Entry, Spare
<1>3. recs \in Seq({e}) /\ Len(recs) = 1 /\ DOMAIN recs = {1} /\ recs[1] = e
  OBVIOUS
<1> HIDE DEF e, recs
<1>4. Records(recs)
  BY <1>2, <1>3, Zenon DEF Records
<1>5. Fits(recs)
  BY <1>1, <1>2, <1>3 DEF Fits
<1>6. Ends(recs)[Len(recs)] = BlockUnits
  <2>1. Ends(recs)[0] = 0 /\ Ends(recs)[1] = Ends(recs)[1 - 1] + recs[1].rec_len
    BY <1>3, <1>4, EndsFacts, SMTT(30)
  <2> QED BY <1>1, <1>2, <1>3, <2>1, SMTT(30)
<1> QED BY <1>4, <1>5, <1>6, Zenon DEF Good, recs, e

LEMMA SplitGood ==
  ASSUME NEW recs, Good(recs), NEW k \in DOMAIN recs, recs[k].inode # 0,
         NEW i, NEW name \in AllNames, Spare(recs[k]) >= Intrinsic(name)
  PROVE  Good(SplitAt(recs, k, Entry(i, name, Spare(recs[k]))))
<1> DEFINE n == Len(recs)
           own == Intrinsic(recs[k].name)
           e == Entry(i, name, Spare(recs[k]))
           cut == [recs EXCEPT ![k].rec_len = own]
           now == InsertAt(cut, k + 1, e)
<1>1. /\ Records(recs) /\ Fits(recs) /\ n \in Nat /\ DOMAIN recs = 1 .. n /\ k \in 1 .. n /\ k \in Nat
      /\ recs # <<>> /\ \A j \in 1 .. n : IsEntry(recs[j])
  <2>1. Records(recs) /\ Fits(recs)
    BY Zenon DEF Good
  <2> QED BY <2>1, RecordsFacts DEF Records
<1>2. /\ recs[k].name \in AllNames /\ own \in Nat /\ Intrinsic(name) \in Nat
      /\ recs[k].rec_len \in Int /\ Spare(recs[k]) = recs[k].rec_len - own
      /\ recs[k] = Entry(recs[k].inode, recs[k].name, recs[k].rec_len)
  <2>1. recs[k].name \in AllNames /\ IsEntry(recs[k])
    BY <1>1, Zenon DEF Fits
  <2> QED BY <2>1, NameFacts DEF IsEntry, Spare
<1>3. /\ IsEntry(e) /\ e.name = name /\ e.rec_len = recs[k].rec_len - own
      /\ Spare(e) = (recs[k].rec_len - own) - Intrinsic(name) /\ Spare(e) >= 0
  BY <1>2 DEF IsEntry, Entry, Spare
<1>4. cut[k] = Entry(recs[k].inode, recs[k].name, own) /\ \A j \in 1 .. n : j # k => cut[j] = recs[j]
  <2>1. cut[k] = [recs[k] EXCEPT !.rec_len = own]
    BY <1>1, Zenon
  <2>2. [recs[k] EXCEPT !.rec_len = own] = Entry(recs[k].inode, recs[k].name, own)
    BY <1>2 DEF Entry
  <2> QED BY <1>1, <2>1, <2>2, Zenon
<1>5. PICK S : cut \in Seq(S) /\ e \in S /\ Len(cut) = n
  <2>1. PICK R : recs \in Seq(R)
    BY <1>1, Zenon DEF Records
  <2> DEFINE S == R \cup {e, cut[k]}
  <2>2. DOMAIN cut = 1 .. n /\ \A j \in 1 .. n : cut[j] \in S
    BY <1>1, <1>4, <2>1, SMTT(30)
  <2>3. cut = [j \in 1 .. n |-> cut[j]]
    BY <1>1, ZenonT(30)
  <2> HIDE DEF cut
  <2>4. cut \in [1 .. n -> S]
    BY <2>2, <2>3, ZenonT(30)
  <2> HIDE DEF S
  <2>5. cut \in Seq(S) /\ Len(cut) = n
    BY <1>1, <2>4, SMTT(30)
  <2>6. e \in S
    BY Zenon DEF S
  <2> QED BY <2>5, <2>6, Zenon
<1>6. /\ now \in Seq(S) /\ Len(now) = n + 1
      /\ \A j \in 1 .. n + 1 : now[j] = IF j < k + 1 THEN cut[j] ELSE IF j = k + 1 THEN e ELSE cut[j - 1]
  <2> HIDE DEF cut, e
  <2>1. k + 1 \in 1 .. Len(cut) + 1
    BY <1>1, <1>5
  <2>2. /\ InsertAt(cut, k + 1, e) \in Seq(S) /\ Len(InsertAt(cut, k + 1, e)) = Len(cut) + 1
        /\ \A j \in 1 .. Len(cut) + 1 :
             InsertAt(cut, k + 1, e)[j] = IF j < k + 1 THEN cut[j] ELSE IF j = k + 1 THEN e ELSE cut[j - 1]
    <3>1. cut \in Seq(S) /\ e \in S
      BY <1>5, Zenon
    <3>2. InsertAt(cut, k + 1, e) \in Seq(S) /\ Inserted(InsertAt(cut, k + 1, e), cut, k + 1, e)
      BY <2>1, <3>1, InsertAtFacts, Zenon
    <3> QED BY <3>2, Zenon DEF Inserted
  <2> QED BY <1>5, <2>2, Zenon
<1> HIDE DEF now, cut, e, own
<1>7. /\ now[k] = cut[k] /\ now[k + 1] = e
      /\ \A j \in 1 .. k - 1 : now[j] = recs[j]
      /\ \A j \in k + 1 .. n : now[j + 1] = recs[j]
  <2>1. now[k] = cut[k] /\ now[k + 1] = e
    BY <1>1, <1>6, SMTT(30)
  <2>2. ASSUME NEW j \in 1 .. k - 1 PROVE now[j] = recs[j]
    BY <1>1, <1>4, <1>6
  <2>3. ASSUME NEW j \in k + 1 .. n PROVE now[j + 1] = recs[j]
    <3>1. j + 1 \in 1 .. n + 1 /\ ~(j + 1 < k + 1) /\ j + 1 # k + 1 /\ (j + 1) - 1 = j /\ j \in 1 .. n /\ j # k
      BY <1>1, SMTT(30)
    <3> QED BY <1>4, <1>6, <3>1, Zenon
  <2> QED BY <2>1, <2>2, <2>3, ZenonT(30)
<1>8. \A j \in 1 .. n + 1 : j \in 1 .. k - 1 \/ j = k \/ j = k + 1 \/ (j - 1 \in k + 1 .. n /\ (j - 1) + 1 = j)
  BY <1>1, SMTT(30)
<1>9. IsEntry(cut[k]) /\ cut[k].rec_len = own /\ cut[k].name = recs[k].name /\ Spare(cut[k]) = 0
  BY <1>2, <1>4, SMTT(30) DEF IsEntry, Entry, Spare, own
<1>10. Records(now)
  <2>1. \A j \in 1 .. n + 1 : IsEntry(now[j])
    <3> TAKE j \in 1 .. n + 1
    <3>1. CASE j \in 1 .. k - 1
      BY <1>1, <1>7, <3>1, SMTT(30)
    <3>2. CASE j - 1 \in k + 1 .. n /\ (j - 1) + 1 = j
      BY <1>1, <1>7, <3>2
    <3> QED BY <1>3, <1>7, <1>8, <1>9, <3>1, <3>2, ZenonT(30)
  <2> QED BY <1>6, <2>1 DEF Records
<1>11. Fits(now)
  <2>1. ASSUME NEW j \in 1 .. n + 1, now[j].inode # 0
        PROVE  now[j].name \in AllNames /\ Spare(now[j]) >= 0
    <3>1. \A l \in 1 .. n : recs[l].inode # 0 => recs[l].name \in AllNames /\ Spare(recs[l]) >= 0
      BY <1>1, Zenon DEF Fits
    <3>2. CASE j \in 1 .. k - 1
      BY <1>1, <1>7, <2>1, <3>1, <3>2, SMTT(30)
    <3>3. CASE j - 1 \in k + 1 .. n /\ (j - 1) + 1 = j
      BY <1>1, <1>7, <2>1, <3>1, <3>3, SMTT(30)
    <3>4. CASE j = k
      BY <1>2, <1>7, <1>9, <3>4
    <3>5. CASE j = k + 1
      BY <1>3, <1>7, <3>5, Zenon
    <3> QED BY <1>8, <3>2, <3>3, <3>4, <3>5, Zenon
  <2>2. DOMAIN now = 1 .. n + 1
    BY <1>6
  <2> QED BY <2>1, <2>2, Zenon DEF Fits
<1>12. Ends(now)[Len(now)] = BlockUnits
  <2>1. own + (recs[k].rec_len - own) = recs[k].rec_len
    BY <1>2
  <2>2. IsCut(recs, now, k)
    BY <1>1, <1>3, <1>6, <1>7, <1>9, <2>1, Zenon DEF IsCut
  <2>3. Ends(now)[Len(now)] = Ends(recs)[Len(recs)]
    BY <1>1, <1>10, <2>2, CutEnds, Zenon
  <2> QED BY <1>1, <2>3, Zenon DEF Good
<1> QED BY <1>10, <1>11, <1>12, Zenon DEF Good, SplitAt, now, cut, e, own

LEMMA DeadGood ==
  ASSUME NEW recs, Good(recs), NEW k \in DOMAIN recs
  PROVE  Good([recs EXCEPT ![k] = Dead(@.rec_len)])
<1> DEFINE n == Len(recs)
           d == Dead(recs[k].rec_len)
           now == [recs EXCEPT ![k] = d]
<1>1. /\ Records(recs) /\ Fits(recs) /\ n \in Nat /\ DOMAIN recs = 1 .. n /\ k \in 1 .. n
      /\ recs # <<>> /\ \A j \in 1 .. n : IsEntry(recs[j])
  <2>1. Records(recs) /\ Fits(recs)
    BY Zenon DEF Good
  <2> QED BY <2>1, RecordsFacts DEF Records
<1>2. IsEntry(d) /\ d.inode = 0 /\ d.rec_len = recs[k].rec_len
  BY <1>1, Zenon DEF IsEntry, Dead, Entry
<1>3. DOMAIN now = 1 .. n /\ now[k] = d /\ \A j \in 1 .. n : j # k => now[j] = recs[j]
  BY <1>1, Zenon
<1>4. PICK S : now \in Seq(S) /\ Len(now) = n
  <2>1. PICK R : recs \in Seq(R)
    BY <1>1, Zenon DEF Records
  <2> DEFINE S == R \cup {d}
  <2>2. \A j \in 1 .. n : now[j] \in S
    BY <1>1, <1>3, <2>1, SMTT(30)
  <2>3. now = [j \in 1 .. n |-> now[j]]
    BY <1>1, ZenonT(30)
  <2> HIDE DEF now, S
  <2>4. now \in [1 .. n -> S]
    BY <2>2, <2>3, Zenon
  <2> QED BY <1>1, <2>4, SMTT(30)
<1> HIDE DEF now, d
<1>5. Records(now)
  BY <1>1, <1>2, <1>3, <1>4, Zenon DEF Records
<1>6. Fits(now)
  BY <1>1, <1>2, <1>3, Zenon DEF Fits
<1>7. Ends(now)[Len(now)] = BlockUnits
  <2> DEFINE g == Ends(recs)
  <2>1. g[0] = 0 /\ \A j \in 1 .. n : g[j] = g[j - 1] + recs[j].rec_len
    BY <1>1, EndsFacts, Zenon
  <2>2. \A j \in 1 .. n : now[j].rec_len = recs[j].rec_len
    BY <1>2, <1>3, Zenon
  <2>3. \A j \in 1 .. Len(now) : g[j] = g[j - 1] + now[j].rec_len
    BY <1>4, <2>1, <2>2, Zenon
  <2> HIDE DEF g
  <2>4. Ends(now)[Len(now)] = g[Len(now)]
    BY <1>5, <2>1, <2>3, EndsUnique, Zenon
  <2> QED BY <1>1, <1>4, <2>4, Zenon DEF g, Good
<1>8. [recs EXCEPT ![k] = Dead(@.rec_len)] = now
  BY <1>1, Zenon DEF now, d
<1> QED BY <1>5, <1>6, <1>7, <1>8, ZenonT(30) DEF Good

LEMMA CoalescedGood ==
  ASSUME NEW recs, Good(recs), NEW k \in DOMAIN recs, NEW j \in 1 .. k - 1
  PROVE  Good(Coalesced(recs, j, k))
<1> DEFINE n == Len(recs)
           sum == recs[j].rec_len + recs[k].rec_len
           grown == [recs EXCEPT ![j].rec_len = @ + recs[k].rec_len]
           now == RemoveAt(grown, k)
<1>1. /\ Records(recs) /\ Fits(recs) /\ n \in Nat /\ DOMAIN recs = 1 .. n /\ k \in 1 .. n /\ k \in Nat
      /\ j \in 1 .. n /\ j \in Nat /\ j < k /\ recs # <<>> /\ \A i \in 1 .. n : IsEntry(recs[i])
  <2>1. Records(recs) /\ Fits(recs)
    BY Zenon DEF Good
  <2> QED BY <2>1, RecordsFacts DEF Records
<1>2. /\ recs[j].rec_len \in Int /\ recs[k].rec_len \in Int /\ sum \in Int
      /\ recs[j] = Entry(recs[j].inode, recs[j].name, recs[j].rec_len)
  BY <1>1 DEF IsEntry
<1>3. /\ DOMAIN grown = 1 .. n
      /\ grown[j] = Entry(recs[j].inode, recs[j].name, sum)
      /\ \A i \in 1 .. n : i # j => grown[i] = recs[i]
  <2>1. grown[j] = [recs[j] EXCEPT !.rec_len = sum]
    BY <1>1, <1>2, Zenon DEF Entry
  <2>2. [recs[j] EXCEPT !.rec_len = sum] = Entry(recs[j].inode, recs[j].name, sum)
    BY <1>2 DEF Entry
  <2> QED BY <1>1, <2>1, <2>2, Zenon
<1>4. PICK S : grown \in Seq(S) /\ Len(grown) = n
  <2>1. PICK R : recs \in Seq(R)
    BY <1>1, Zenon DEF Records
  <2> DEFINE S == R \cup {grown[j]}
  <2>2. \A i \in 1 .. n : grown[i] \in S
    BY <1>1, <1>3, <2>1
  <2>3. grown = [i \in 1 .. n |-> grown[i]]
    BY <1>1, Zenon
  <2> HIDE DEF grown, S
  <2>4. grown \in [1 .. n -> S]
    BY <2>2, <2>3, Zenon
  <2> QED BY <1>1, <2>4, SMTT(30)
<1>5. /\ now \in Seq(S) /\ Len(now) = n - 1
      /\ \A i \in 1 .. n - 1 : now[i] = IF i < k THEN grown[i] ELSE grown[i + 1]
  <2> HIDE DEF grown
  <2>1. k \in 1 .. Len(grown)
    BY <1>1, <1>4, Zenon
  <2> QED BY <1>4, <2>1, RemoveAtFacts, Zenon
<1> HIDE DEF now, grown
<1>6. /\ now[j] = grown[j]
      /\ \A i \in 1 .. k - 1 : i # j => now[i] = recs[i]
      /\ \A i \in k .. n - 1 : now[i] = recs[i + 1]
  <2>1. now[j] = grown[j]
    BY <1>1, <1>5, SMTT(30)
  <2>2. ASSUME NEW i \in 1 .. k - 1, i # j PROVE now[i] = recs[i]
    BY <1>1, <1>3, <1>5, <2>2, SMTT(30)
  <2>3. ASSUME NEW i \in k .. n - 1 PROVE now[i] = recs[i + 1]
    <3>1. i \in 1 .. n - 1 /\ ~(i < k) /\ i + 1 \in 1 .. n /\ i + 1 # j
      BY <1>1, SMTT(30)
    <3> QED BY <1>3, <1>5, <3>1, Zenon
  <2> QED BY <2>1, <2>2, <2>3, Zenon
<1>7. \A i \in 1 .. n - 1 : i = j \/ (i \in 1 .. k - 1 /\ i # j) \/ (i \in k .. n - 1 /\ i + 1 \in 1 .. n)
  BY <1>1, SMTT(30)
<1>8. /\ IsEntry(grown[j]) /\ grown[j].rec_len = sum /\ grown[j].name = recs[j].name
      /\ grown[j].inode = recs[j].inode
  <2>1. recs[j].rec_len \in Nat /\ recs[k].rec_len \in Nat
    BY <1>1, Zenon DEF IsEntry
  <2>2. sum \in Nat
    BY <2>1
  <2> HIDE DEF sum
  <2> QED BY <1>3, <2>2 DEF IsEntry, Entry
<1>9. Records(now)
  <2>1. \A i \in 1 .. n - 1 : IsEntry(now[i])
    BY <1>1, <1>6, <1>7, <1>8, SMTT(30)
  <2> QED BY <1>5, <2>1, SMTT(30) DEF Records
<1>10. Fits(now)
  <2>1. \A l \in 1 .. n : recs[l].inode # 0 => recs[l].name \in AllNames /\ Spare(recs[l]) >= 0
    BY <1>1, Zenon DEF Fits
  <2>2. ASSUME NEW i \in 1 .. n - 1, now[i].inode # 0
        PROVE  now[i].name \in AllNames /\ Spare(now[i]) >= 0
    <3>1. CASE i \in 1 .. k - 1 /\ i # j
      BY <1>1, <1>6, <2>1, <2>2, <3>1, SMTT(30)
    <3>2. CASE i \in k .. n - 1 /\ i + 1 \in 1 .. n
      BY <1>6, <2>1, <2>2, <3>2, Zenon
    <3>3. CASE i = j
      <4>1. recs[j].name \in AllNames /\ Spare(recs[j]) >= 0
        BY <1>1, <1>6, <1>8, <2>1, <2>2, <3>3, ZenonT(30)
      <4>2. Intrinsic(recs[j].name) \in Nat /\ recs[j].rec_len \in Nat /\ recs[k].rec_len \in Nat
        BY <1>1, <4>1, NameFacts, Zenon DEF IsEntry
      <4>3. Spare(now[i]) = sum - Intrinsic(recs[j].name) /\ now[i].name = recs[j].name
        BY <1>6, <1>8, <3>3, Zenon DEF Spare
      <4>4. recs[j].rec_len - Intrinsic(recs[j].name) >= 0
        BY <4>1, Zenon DEF Spare
      <4>5. sum - Intrinsic(recs[j].name) >= 0
        BY <4>2, <4>4, SMTT(30)
      <4> QED BY <4>1, <4>3, <4>5, Zenon
    <3> QED BY <1>7, <3>1, <3>2, <3>3, ZenonT(30)
  <2>3. DOMAIN now = 1 .. n - 1
    BY <1>5
  <2> QED BY <2>2, <2>3, Zenon DEF Fits
<1>11. Ends(now)[Len(now)] = BlockUnits
  <2>1. IsJoin(recs, now, j, k)
    BY <1>1, <1>5, <1>6, <1>8, Zenon DEF IsJoin
  <2>2. Ends(now)[Len(now)] = Ends(recs)[Len(recs)]
    BY <1>1, <1>9, <2>1, JoinEnds, Zenon
  <2> QED BY <1>1, <2>2, Zenon DEF Good
<1> QED BY <1>9, <1>10, <1>11, ZenonT(30) DEF Good, Coalesced, now, grown

-------------------------------------------------------------------------------
(* A volume whose directories all are, and what the operations leave of it. *)
Dirs(s) == "dir" \in DOMAIN s /\ DOMAIN s.dir = Inodes /\ \A d \in Inodes : Good(s.dir[d])

LEMMA SameKeeps ==
  ASSUME NEW v, NEW w, Dirs(v), SameDirs(v, w)
  PROVE  Dirs(w)
BY Zenon DEF Dirs, SameDirs

LEMMA PutKeeps ==
  ASSUME NEW s, Dirs(s), NEW w, NEW d, NEW recs, d \in DOMAIN s.dir => Good(recs),
         "dir" \in DOMAIN w, w.dir = [s.dir EXCEPT ![d] = recs]
  PROVE  Dirs(w)
BY Zenon DEF Dirs

LEMMA ErrKeeps ==
  ASSUME NEW s, Dirs(s), NEW e
  PROVE  Dirs(Err(s, e)) /\ Dirs(Beyond(s, e)) /\ Dirs(Fail(s, e))
BY Zenon DEF Dirs, Err, Beyond, Fail

LEMMA InsertKeeps ==
  ASSUME NEW s, Dirs(s), NEW d, NEW i, NEW name \in AllNames
  PROVE  Dirs(insert_entry(s, d, i, name))
<1> DEFINE recs == s.dir[d]
           roomy == {k \in DOMAIN recs : recs[k].inode # 0 /\ Spare(recs[k]) >= Intrinsic(name)}
           k == Min(roomy)
           split == SplitAt(recs, k, Entry(i, name, Spare(recs[k])))
<1>1. CASE name \in TooLong
  BY <1>1, ErrKeeps, Zenon DEF insert_entry
<1>2. CASE name \notin TooLong /\ roomy # {}
  <2>1. ASSUME d \in DOMAIN s.dir PROVE Good(split)
    <3>1. Good(recs)
      BY <2>1, Zenon DEF Dirs
    <3>2. DOMAIN recs \subseteq Nat
      BY <3>1, RecordsFacts DEF Good
    <3>3. k \in roomy
      <4>1. roomy \in SUBSET Nat
        BY <3>2, Zenon
      <4> HIDE DEF roomy
      <4> QED BY <1>2, <4>1, MinIsMember, Zenon
    <3> HIDE DEF k, recs
    <3>4. k \in DOMAIN recs /\ recs[k].inode # 0 /\ Spare(recs[k]) >= Intrinsic(name)
      BY <3>3, Zenon
    <3> QED BY <3>1, <3>4, SplitGood, Zenon
  <2> HIDE DEF split
  <2>2. insert_entry(s, d, i, name) = [s EXCEPT !.dir[d] = split]
    BY <1>2, Zenon DEF insert_entry, split
  <2>3. [s EXCEPT !.dir[d] = split].dir = [s.dir EXCEPT ![d] = split] /\ "dir" \in DOMAIN [s EXCEPT !.dir[d] = split]
    BY Zenon DEF Dirs
  <2> QED BY <2>1, <2>2, <2>3, PutKeeps, Zenon
<1>3. CASE name \notin TooLong /\ roomy = {} /\ (recs # <<>> \/ s.free_blocks = 0)
  BY <1>3, ErrKeeps, Zenon DEF insert_entry
<1>4. CASE name \notin TooLong /\ roomy = {} /\ recs = <<>> /\ s.free_blocks # 0
  <2> DEFINE one == <<Entry(i, name, BlockUnits)>>
             w == [s EXCEPT !.dir[d] = one, !.free_blocks = @ - 1]
  <2>1. Good(one)
    BY <1>4, OneGood, Zenon
  <2>2. insert_entry(s, d, i, name) = w
    BY <1>4, Zenon DEF insert_entry
  <2> HIDE DEF one
  <2>3. w.dir = [s.dir EXCEPT ![d] = one] /\ "dir" \in DOMAIN w
    BY Zenon DEF Dirs
  <2> QED BY <2>1, <2>2, <2>3, PutKeeps, ZenonT(30)
<1> QED BY <1>1, <1>2, <1>3, <1>4, ZenonT(30)

LEMMA DeleteKeeps ==
  ASSUME NEW s, Dirs(s), NEW d, NEW i
  PROVE  Dirs(delete_entry(s, d, i))
<1> DEFINE recs == s.dir[d]
           hits == {k \in DOMAIN recs : recs[k].inode = i}
           k == Min(hits)
           before == {j \in 1 .. k - 1 : recs[j].inode # 0}
           left == IF before = {} THEN [recs EXCEPT ![k] = Dead(@.rec_len)]
                   ELSE Coalesced(recs, Max(before), k)
<1>1. CASE hits = {}
  BY <1>1, ErrKeeps, Zenon DEF delete_entry
<1>2. CASE hits # {}
  <2>1. ASSUME d \in DOMAIN s.dir PROVE Good(left)
    <3>1. Good(recs)
      BY <2>1, Zenon DEF Dirs
    <3>2. DOMAIN recs \subseteq Nat
      BY <3>1, RecordsFacts DEF Good
    <3>3. k \in hits
      <4>1. hits \in SUBSET Nat
        BY <3>2, Zenon
      <4> HIDE DEF hits
      <4> QED BY <1>2, <4>1, MinIsMember, Zenon
    <3>4. k \in DOMAIN recs /\ k \in Nat
      BY <3>2, <3>3, Zenon
    <3> HIDE DEF k, recs
    <3>5. CASE before = {}
      BY <3>1, <3>4, <3>5, DeadGood, Zenon
    <3>6. CASE before # {}
      <4>1. before \in SUBSET (0 .. k) /\ before \subseteq 1 .. k - 1
        BY <3>4
      <4>2. Max(before) \in before
        <5> HIDE DEF before
        <5> QED BY <3>4, <3>6, <4>1, MaxIsMember, ZenonT(30)
      <4>3. Max(before) \in 1 .. k - 1
        BY <4>1, <4>2, Zenon
      <4> HIDE DEF before
      <4> QED BY <3>1, <3>4, <3>6, <4>3, CoalescedGood, ZenonT(30)
    <3> QED BY <3>5, <3>6, Zenon
  <2> HIDE DEF left
  <2>2. delete_entry(s, d, i) = [s EXCEPT !.dir[d] = left]
    BY <1>2, Zenon DEF delete_entry, left
  <2>3. [s EXCEPT !.dir[d] = left].dir = [s.dir EXCEPT ![d] = left] /\ "dir" \in DOMAIN [s EXCEPT !.dir[d] = left]
    BY Zenon DEF Dirs
  <2> QED BY <2>1, <2>2, <2>3, PutKeeps, Zenon
<1> QED BY <1>1, <1>2, Zenon

LEMMA CountsKeep ==
  ASSUME NEW s, Dirs(s), NEW i, NEW n
  PROVE  /\ Dirs(AddLinks(s, i, n))
         /\ Dirs(CountDirectory(s, i, n))
         /\ Dirs(init_root_inode_cache(s))
BY Zenon DEF Dirs, AddLinks, CountDirectory, init_root_inode_cache, Beyond

LEMMA AnyKeeps ==
  ASSUME NEW v, Dirs(v), NEW k
  PROVE  Dirs(alloc_any(v, k))
<1>1. PICK acc :
        /\ acc[0] = Fail(v, "OutOfSpace")
        /\ \A g \in 0 .. GroupCount - 1 : acc[g + 1] = TryGroup(acc[g], k, g)
        /\ alloc_any(v, k) = acc[GroupCount]
  BY AnyRuns, Zenon
<1>2. Dirs(acc[0])
  BY <1>1, ErrKeeps, Zenon
<1>3. ASSUME NEW g \in 0 .. GroupCount - 1, Dirs(acc[g]) PROVE Dirs(acc[g + 1])
  <2> DEFINE x == [acc[g] EXCEPT !.err = "Ok"]
             y == allocator_for_group(x, k, g)
  <2>1. Dirs(x)
    BY <1>3, Zenon DEF Dirs
  <2>2. Dirs(y)
    <3> HIDE DEF x
    <3> QED BY <2>1, ForGroupSame, SameKeeps, Zenon DEF Dirs
  <2>3. Dirs(alloc(y, k))
    <3> HIDE DEF y
    <3> QED BY <2>2, AllocSame, SameKeeps, Zenon DEF Dirs
  <2>4. acc[g + 1] \in {acc[g], y, alloc(y, k)}
    BY <1>1, Zenon DEF TryGroup, Then
  <2> QED BY <1>3, <2>2, <2>3, <2>4, Zenon
<1> DEFINE T == {g \in Nat : Dirs(acc[g])}
<1>4. GroupCount \in Nat
  BY Ext2AllocAssumption, Zenon
<1>5. \A g \in 0 .. GroupCount : g \in T
  <2>1. 0 \in T /\ \A g \in 0 .. GroupCount - 1 : g \in T => g + 1 \in T
    BY <1>2, <1>3, <1>4, SMTT(30)
  <2> HIDE DEF T
  <2> QED BY <1>4, <2>1, Ascends, ZenonT(30)
<1> QED BY <1>1, <1>4, <1>5, SMTT(30)

LEMMA AllocateKeeps ==
  ASSUME NEW s, Dirs(s), NEW kind
  PROVE  Dirs(allocate_inode(s, kind))
<1> DEFINE x == alloc_inode_any(s)
           y == IF kind = "Directory" THEN CountDirectory(x, x.ret, 1) ELSE x
           z == [y EXCEPT !.inode[x.ret] = [kind |-> kind, links |-> 0], !.dir[x.ret] = <<>>]
<1>1. Dirs(x)
  BY AnyKeeps, Zenon DEF alloc_inode_any
<1>2. allocate_inode(s, kind) \in {x, z}
  BY Zenon DEF allocate_inode, Then
<1> HIDE DEF x
<1>3. Dirs(y)
  BY <1>1, CountsKeep, Zenon
<1> HIDE DEF y
<1>4. z.dir = [y.dir EXCEPT ![x.ret] = <<>>] /\ "dir" \in DOMAIN z
  BY <1>3, Zenon DEF Dirs
<1>5. Dirs(z)
  <2> HIDE DEF z
  <2> QED BY <1>3, <1>4, EmptyGood, PutKeeps, ZenonT(30)
<1> QED BY <1>1, <1>2, <1>5, Zenon

LEMMA AddKeeps ==
  ASSUME NEW s, Dirs(s), NEW d, NEW i, NEW name \in AllNames
  PROVE  Dirs(add_inode_to_directory(s, d, i, name))
<1> DEFINE x == AddLinks(s, i, 1)
<1>1. Dirs(x)
  BY CountsKeep, Zenon
<1>2. add_inode_to_directory(s, d, i, name) \in {x, insert_entry(x, d, i, name)}
  BY Zenon DEF add_inode_to_directory, Then
<1> HIDE DEF x
<1> QED BY <1>1, <1>2, InsertKeeps, Zenon

LEMMA InitDirectoryKeeps ==
  ASSUME NEW s, Dirs(s), NEW i, NEW parent
  PROVE  Dirs(init_directory_inode(s, i, parent))
<1> DEFINE x == AddLinks(AddLinks(s, i, 1), parent, 1)
           y == Then(x, LAMBDA v : insert_entry(v, i, i, "."))
           z == Then(y, LAMBDA v : insert_entry(v, i, parent, ".."))
<1>1. Dirs(x)
  BY CountsKeep, Zenon
<1>2. init_directory_inode(s, i, parent) = Then(z, LAMBDA v : [v EXCEPT !.ret = i])
  BY Zenon DEF init_directory_inode
<1> HIDE DEF x
<1>3. y \in {x, insert_entry(x, i, i, ".")} /\ "." \in AllNames /\ ".." \in AllNames
  BY Zenon DEF Then, AllNames
<1>4. Dirs(y)
  BY <1>1, <1>3, InsertKeeps, ZenonT(30)
<1>5. z \in {y, insert_entry(y, i, parent, "..")}
  <2> HIDE DEF y
  <2> QED BY Zenon DEF Then
<1> HIDE DEF y
<1>6. Dirs(z)
  BY <1>3, <1>4, <1>5, InsertKeeps, Zenon
<1> HIDE DEF z
<1> QED BY <1>2, <1>6, Zenon DEF Then, Dirs

LEMMA DeallocKeeps ==
  ASSUME NEW s, Dirs(s), NEW i
  PROVE  Dirs(dealloc_inode(s, i))
<1> DEFINE x == [s EXCEPT !.dir[i] = <<>>, !.free_blocks = @ + (IF s.dir[i] = <<>> THEN 0 ELSE 1)]
           y == get_inode_allocator_for_group(x, get_inode_group(i))
<1>1. x.dir = [s.dir EXCEPT ![i] = <<>>] /\ "dir" \in DOMAIN x
  BY Zenon DEF Dirs
<1>2. dealloc_inode(s, i) = Then(y, LAMBDA v : dealloc_inode_bit(v, i))
  BY Zenon DEF dealloc_inode
<1> HIDE DEF x
<1>3. Dirs(x)
  BY <1>1, EmptyGood, PutKeeps, ZenonT(30)
<1>4. Dirs(y)
  BY <1>3, ForGroupSame, SameKeeps, Zenon DEF Dirs, get_inode_allocator_for_group
<1> HIDE DEF y
<1>5. Dirs(dealloc_inode_bit(y, i))
  BY <1>4, DeallocSame, SameKeeps, Zenon DEF Dirs, dealloc_inode_bit
<1> QED BY <1>2, <1>4, <1>5, Zenon DEF Then

LEMMA DeleteInodeKeeps ==
  ASSUME NEW s, Dirs(s), NEW i, NEW parent
  PROVE  Dirs(delete_inode(s, i, parent))
<1> DEFINE is_dir == s.inode[i].kind = "Directory"
           left == s.inode[i].links - (IF ~is_dir THEN 1 ELSE IF parent = i THEN 3 ELSE 2)
           unlinked == Then(AddLinks(s, parent, -1), LAMBDA x : delete_entry(x, parent, i))
           counted(x) ==
             IF ~is_dir THEN x
             ELSE IF parent = i THEN CountDirectory(x, i, -1)
             ELSE AddLinks(CountDirectory(x, i, -1), parent, -1)
           finish(x) ==
             IF left < 0 THEN Beyond(x, "links")
             ELSE IF left = 0 THEN dealloc_inode([x EXCEPT !.inode[i].links = 0], i)
             ELSE [x EXCEPT !.inode[i].links = left]
<1>1. Dirs(unlinked)
  <2>1. Dirs(AddLinks(s, parent, -1))
    BY CountsKeep, Zenon
  <2>2. Dirs(delete_entry(AddLinks(s, parent, -1), parent, i))
    BY <2>1, DeleteKeeps, Zenon
  <2> QED BY <2>1, <2>2, Zenon DEF Then
<1>2. ASSUME NEW x, Dirs(x) PROVE Dirs(counted(x))
  <2>1. Dirs(CountDirectory(x, i, -1))
    BY <1>2, CountsKeep, Zenon
  <2>2. Dirs(AddLinks(CountDirectory(x, i, -1), parent, -1))
    BY <2>1, CountsKeep, Zenon
  <2> QED BY <1>2, <2>1, <2>2, Zenon
<1>3. ASSUME NEW x, Dirs(x) PROVE Dirs(finish(x))
  <2>1. Dirs(Beyond(x, "links"))
    BY <1>3, ErrKeeps, Zenon
  <2>2. Dirs([x EXCEPT !.inode[i].links = 0]) /\ Dirs([x EXCEPT !.inode[i].links = left])
    <3> HIDE DEF left
    <3> QED BY <1>3, Zenon DEF Dirs
  <2>3. Dirs(dealloc_inode([x EXCEPT !.inode[i].links = 0], i))
    BY <2>2, DeallocKeeps, Zenon
  <2> HIDE DEF left
  <2> QED BY <2>1, <2>2, <2>3, Zenon
<1> DEFINE y == Then(unlinked, counted)
<1>4. delete_inode(s, i, parent) = Then(y, finish)
  BY Zenon DEF delete_inode
<1> HIDE DEF unlinked, counted, finish
<1>5. Dirs(y)
  BY <1>1, <1>2, Zenon DEF Then
<1> HIDE DEF y
<1> QED BY <1>3, <1>4, <1>5, ZenonT(30) DEF Then

LEMMA CreateChildKeeps ==
  ASSUME NEW s, Dirs(s), NEW f, NEW name \in AllNames, NEW kind
  PROVE  Dirs(create_child(s, f, name, kind))
<1> DEFINE named(x) == IF x.err = "Ok" THEN x ELSE [x EXCEPT !.lost = @ \cup {x.ret}]
           whole(x) == IF x.err = "OutOfSpace" THEN Beyond(x, "half_made") ELSE x
           add(x) == named(add_inode_to_directory(x, f.inode, x.ret, name))
           init(x) == IF kind = "File" THEN x ELSE whole(init_directory_inode(x, x.ret, f.inode))
           refresh(x) == [refresh_after_create(x, f, kind)
                            EXCEPT !.behind = IF f.inode = Root THEN ~f.root ELSE @]
           a == allocate_inode(s, kind)
           b == Then(a, add)
           c == Then(b, init)
<1>1. ASSUME NEW x, Dirs(x) PROVE Dirs(named(x)) /\ Dirs(whole(x))
  <2>1. Dirs([x EXCEPT !.lost = @ \cup {x.ret}])
    BY <1>1, Zenon DEF Dirs
  <2> QED BY <1>1, <2>1, ErrKeeps, Zenon
<1>2. ASSUME NEW x, Dirs(x) PROVE Dirs(add(x))
  <2> DEFINE y == add_inode_to_directory(x, f.inode, x.ret, name)
  <2>1. Dirs(y)
    BY <1>2, AddKeeps, Zenon
  <2> HIDE DEF y, named
  <2> QED BY <1>1, <2>1, Zenon DEF y
<1>3. ASSUME NEW x, Dirs(x) PROVE Dirs(init(x))
  <2> DEFINE y == init_directory_inode(x, x.ret, f.inode)
  <2>1. Dirs(y)
    BY <1>3, InitDirectoryKeeps, Zenon
  <2> HIDE DEF y, whole
  <2> QED BY <1>1, <1>3, <2>1, ZenonT(30) DEF y
<1>4. ASSUME NEW x, Dirs(x) PROVE Dirs(refresh(x))
  <2> DEFINE y == refresh_after_create(x, f, kind)
  <2>1. Dirs(y)
    BY <1>4, CountsKeep, Zenon DEF refresh_after_create
  <2> HIDE DEF y
  <2>2. Dirs([y EXCEPT !.behind = IF f.inode = Root THEN ~f.root ELSE @])
    BY <2>1, Zenon DEF Dirs
  <2> QED BY <2>2, Zenon DEF y
<1>5. create_child(s, f, name, kind) \in {Err(s, "NotDirectory"), Then(c, refresh)}
  BY Zenon DEF create_child
<1> HIDE DEF named, whole, add, init, refresh
<1>6. Dirs(a)
  BY AllocateKeeps, Zenon
<1> HIDE DEF a
<1>7. Dirs(b)
  BY <1>2, <1>6, Zenon DEF Then
<1> HIDE DEF b
<1>8. Dirs(c)
  BY <1>3, <1>7, Zenon DEF Then
<1> HIDE DEF c
<1>9. Dirs(Then(c, refresh))
  BY <1>4, <1>8, Zenon DEF Then
<1> QED BY <1>5, <1>9, ErrKeeps, Zenon

LEMMA DeleteFileKeeps ==
  ASSUME NEW s, Dirs(s), NEW f
  PROVE  Dirs(delete_file(s, f))
<1> DEFINE x == delete_inode(s, f.inode, f.parent)
           y == refresh_after_delete(x, f)
           z == [y EXCEPT !.behind = IF f.parent = Root THEN FALSE ELSE @]
<1>1. delete_file(s, f) \in {Err(s, "FileSystemMismatch"), Err(s, "DirectoryNotEmpty"), x, z}
  BY Zenon DEF delete_file, Then
<1>2. Dirs(x)
  BY DeleteInodeKeeps, Zenon
<1> HIDE DEF x
<1>3. Dirs(y)
  BY <1>2, CountsKeep, Zenon DEF refresh_after_delete
<1> HIDE DEF y
<1>4. Dirs(z)
  BY <1>3, Zenon DEF Dirs
<1> HIDE DEF z
<1> QED BY <1>1, <1>2, <1>4, ErrKeeps, Zenon

LEMMA MkdirKeeps ==
  ASSUME NEW s, Dirs(s), NEW path \in Seq(AllNames)
  PROVE  Dirs(mkdir0(s, path))
<1>1. Len(path) \in Nat /\ \A k \in 1 .. Len(path) : path[k] \in AllNames
  OBVIOUS
<1>2. PICK acc :
        /\ acc[0] = [s |-> s, at |-> get_root]
        /\ \A k \in 0 .. Len(path) - 1 : acc[k + 1] = MkdirPart(acc[k], path[k + 1])
        /\ mkdir0(s, path) = acc[Len(path)].s
  BY <1>1, MkdirRuns, Zenon
<1>3. ASSUME NEW m, Dirs(m.s), "s" \in DOMAIN m, NEW part \in AllNames
      PROVE  Dirs(MkdirPart(m, part).s) /\ "s" \in DOMAIN MkdirPart(m, part)
  <2> DEFINE f == get_child(m.s, m.at, part)
             x == create_child(m.s, m.at, part, "Directory")
             e == Err(m.s, f.err)
  <2>1. Dirs(x) /\ Dirs(e)
    BY <1>3, CreateChildKeeps, ErrKeeps, Zenon
  <2>2. MkdirPart(m, part) \in {m, [m EXCEPT !.at = f], [m EXCEPT !.s = e],
                                [s |-> x, at |-> Found(x.ret, m.at.inode)]}
    BY Zenon DEF MkdirPart
  <2> HIDE DEF f, x, e
  <2> QED BY <1>3, <2>1, <2>2
<1> DEFINE T == {k \in Nat : Dirs(acc[k].s) /\ "s" \in DOMAIN acc[k]}
<1>4. 0 \in T
  BY <1>2
<1>5. ASSUME NEW k \in 0 .. Len(path) - 1, k \in T PROVE k + 1 \in T
  <2>1. Dirs(acc[k].s) /\ "s" \in DOMAIN acc[k] /\ path[k + 1] \in AllNames /\ k + 1 \in Nat
    BY <1>1, <1>5, SMTT(30)
  <2>2. acc[k + 1] = MkdirPart(acc[k], path[k + 1])
    BY <1>2, Zenon
  <2> QED BY <1>3, <2>1, <2>2, ZenonT(30)
<1>6. \A k \in 0 .. Len(path) : k \in T
  <2> HIDE DEF T
  <2> QED BY <1>1, <1>4, <1>5, Ascends, ZenonT(30)
<1>7. Len(path) \in T
  BY <1>1, <1>6
<1> QED BY <1>2, <1>7, Zenon

-------------------------------------------------------------------------------
(* The inductive invariant: the records of every inode tile a block, those *)
(* of a directory that is not in use too.                                  *)
GoodDirs == Dirs(vol)

LEMMA InitDirs == Init => Dirs(vol)
<1> SUFFICES ASSUME Init PROVE Dirs(vol)
  BY Zenon
<1> DEFINE dir == [i \in Inodes |-> IF i = Root THEN EmptyRoot ELSE <<>>]
<1>1. "dir" \in DOMAIN vol /\ vol.dir = dir
  BY Zenon DEF Init, Both
<1>2. Good(EmptyRoot)
  <2> DEFINE e1 == Entry(Root, ".", 3)
             e2 == Entry(Root, "..", BlockUnits - 3)
             recs == <<e1, e2>>
  <2>1. EmptyRoot = recs /\ BlockUnits \in Nat /\ BlockUnits - 3 \in Nat /\ BlockUnits - 3 >= 3
    BY NameFacts, SMTT(30) DEF EmptyRoot
  <2>2. /\ IsEntry(e1) /\ IsEntry(e2) /\ e1.rec_len = 3 /\ e2.rec_len = BlockUnits - 3
        /\ Spare(e1) >= 0 /\ Spare(e2) >= 0 /\ e1.name \in AllNames /\ e2.name \in AllNames
    BY <2>1, NameFacts, SMTT(30) DEF IsEntry, Entry, Spare, AllNames
  <2>3. recs \in Seq({e1, e2}) /\ Len(recs) = 2 /\ DOMAIN recs = {1, 2} /\ recs[1] = e1 /\ recs[2] = e2
    OBVIOUS
  <2> HIDE DEF e1, e2, recs
  <2>4. Records(recs) /\ Fits(recs)
    BY <2>2, <2>3, Zenon DEF Records, Fits
  <2>5. Ends(recs)[Len(recs)] = BlockUnits
    <3>1. /\ Ends(recs)[0] = 0
          /\ Ends(recs)[1] = Ends(recs)[1 - 1] + recs[1].rec_len
          /\ Ends(recs)[2] = Ends(recs)[2 - 1] + recs[2].rec_len
      <4>1. 1 \in 1 .. Len(recs) /\ 2 \in 1 .. Len(recs)
        BY <2>3
      <4> QED BY <2>4, <4>1, EndsFacts, Zenon
    <3> QED BY <2>1, <2>2, <2>3, <3>1, SMTT(30)
  <2> QED BY <2>1, <2>4, <2>5, Zenon DEF Good
<1> QED BY <1>1, <1>2, EmptyGood, Zenon DEF Dirs

LEMMA CommitDirs ==
  ASSUME NEW s, Dirs(s), Dirs(vol), Commit(s)
  PROVE  Dirs(vol')
<1>1. "dir" \in DOMAIN vol' /\ vol'.dir = s.dir
  BY Zenon DEF Commit, Dirs
<1> QED BY <1>1, Zenon DEF Dirs

LEMMA NextDirs == Dirs(vol) /\ [Next]_vars => Dirs(vol')
<1> SUFFICES ASSUME Dirs(vol), [Next]_vars PROVE Dirs(vol')
  BY Zenon
<1>1. Dirs(Session)
  BY Zenon DEF Dirs, Session, Both
<1>2. ASSUME NEW path, NEW name \in Names, Create(path, name) PROVE Dirs(vol')
  <2>1. name \in AllNames
    BY Zenon DEF AllNames
  <2>2. Dirs(create(Session, path, name))
    BY <1>1, <2>1, CreateChildKeeps, ErrKeeps, Zenon DEF create
  <2> QED BY <1>2, <2>2, CommitDirs, Zenon DEF Create
<1>3. ASSUME NEW path \in Paths, Mkdir(path) PROVE Dirs(vol')
  <2>1. path \in Seq(AllNames)
    BY Ext2DirAssumption, Zenon DEF AllNames
  <2> QED BY <1>1, <1>3, <2>1, MkdirKeeps, CommitDirs, ZenonT(30) DEF Mkdir
<1>4. ASSUME NEW path \in Paths, Delete(path) PROVE Dirs(vol')
  <2>1. Dirs(delete0(Session, path))
    BY <1>1, DeleteFileKeeps, ErrKeeps, Zenon DEF delete0
  <2> QED BY <1>4, <2>1, CommitDirs, Zenon DEF Delete
<1>5. CASE UNCHANGED vars
  BY <1>5, Zenon DEF vars
<1> QED BY <1>2, <1>3, <1>4, <1>5, Zenon DEF Next, Stopped

(* However create, mkdir0 and delete0 follow each other, and whatever they *)
(* run out of: insert_entry's splits and delete_entry's merges leave the   *)
(* records of every directory tiling its block, each with room for its     *)
(* name, so that DirectoryIterator::next never runs past the block's end.  *)
THEOREM DirectoriesTiled == Spec => []Tiled
<1>1. Init => GoodDirs
  BY InitDirs, Zenon DEF GoodDirs
<1>2. GoodDirs /\ [Next]_vars => GoodDirs'
  BY NextDirs, Zenon DEF GoodDirs
<1>3. GoodDirs => Tiled
  BY Zenon DEF GoodDirs, Dirs, Tiled, Directories, Used, Good, Fits
<1> QED BY <1>1, <1>2, <1>3, PTL DEF Spec
===============================================================================
