---------------------------- MODULE MountTree_proof ----------------------------
(***************************************************************************)
(* Proofs about MountTree: the shape of the tree, that what is mounted is  *)
(* kept alive, and that both lookups agree.                                *)
(***************************************************************************)
EXTENDS MountTree, FiniteSetTheorems, WellFoundedInduction, TLAPS

-------------------------------------------------------------------------------
(* Sequences.                                                              *)

(* What SubSeq returns, from positions m to n of s.                        *)
LEMMA Sliced ==
  ASSUME NEW S, NEW s, NEW m \in Int, NEW n \in Int, \A i \in m .. n : s[i] \in S
  PROVE  /\ SubSeq(s, m, n) \in Seq(S)
         /\ Len(SubSeq(s, m, n)) = IF m <= n THEN n - m + 1 ELSE 0
         /\ \A i \in 1 .. n - m + 1 : SubSeq(s, m, n)[i] = s[m + i - 1]
OBVIOUS

(* Sequences of one length and the same elements are equal.                *)
LEMMA SameElements ==
  ASSUME NEW S, NEW s \in Seq(S), NEW t \in Seq(S), Len(s) = Len(t),
         \A i \in 1 .. Len(s) : s[i] = t[i]
  PROVE  s = t
OBVIOUS

(* An element of a sequence over S is in S.                                *)
LEMMA Element ==
  ASSUME NEW S, NEW s \in Seq(S), NEW n \in 1 .. Len(s)
  PROVE  s[n] \in S
OBVIOUS

(* The empty sequence, and that every other has an element.                *)
LEMMA NoElement ==
  ASSUME NEW S
  PROVE  /\ <<>> \in Seq(S) /\ Len(<<>>) = 0
         /\ \A s \in Seq(S) : s # <<>> => Len(s) \in Nat \ {0}
OBVIOUS

-------------------------------------------------------------------------------
(* A set of naturals that is not empty has a least member.                 *)
LEMMA LeastMember ==
  ASSUME NEW T \in SUBSET Nat, T # {}
  PROVE  \E x \in T : \A y \in T : x <= y
<1> DEFINE R == {p \in Nat \X Nat : p[1] < p[2]}
<1>1. IsWellFoundedOn(R, Nat)
  BY NatLessThanWellFounded, Zenon DEF OpToRel
<1>2. PICK x \in T : \A y \in T : ~(<<y, x>> \in R)
  <2> HIDE DEF R
  <2>1. T \subseteq Nat
    BY Zenon
  <2> QED BY <1>1, <2>1, WFMin, Zenon
<1>3. \A y \in T : ~(y < x)
  BY <1>2, Zenon
<1> QED BY <1>3

-------------------------------------------------------------------------------
(* Prefixes of paths.                                                      *)
LEMMA PrefixFacts ==
  ASSUME NEW p \in Seq(Names), NEW k \in 0 .. Len(p)
  PROVE  /\ Prefix(p, k) \in Seq(Names) /\ Len(Prefix(p, k)) = k
         /\ \A i \in 1 .. k : Prefix(p, k)[i] = p[i]
<1>1. k \in Int /\ 1 \in Int /\ \A i \in 1 .. k : p[i] \in Names
  BY Element
<1>2. /\ SubSeq(p, 1, k) \in Seq(Names)
      /\ Len(SubSeq(p, 1, k)) = IF 1 <= k THEN k - 1 + 1 ELSE 0
      /\ \A i \in 1 .. k - 1 + 1 : SubSeq(p, 1, k)[i] = p[1 + i - 1]
  BY <1>1, Sliced
<1> QED BY <1>2 DEF Prefix

LEMMA PrefixPrefix ==
  ASSUME NEW p \in Seq(Names), NEW k \in 0 .. Len(p), NEW j \in 0 .. k
  PROVE  Prefix(Prefix(p, k), j) = Prefix(p, j)
<1> DEFINE q == Prefix(p, k)
           s == Prefix(q, j)
           t == Prefix(p, j)
<1>1. q \in Seq(Names) /\ Len(q) = k /\ \A i \in 1 .. k : q[i] = p[i]
  BY PrefixFacts, Zenon
<1>2. j \in 0 .. Len(q) /\ j \in 0 .. Len(p)
  BY <1>1
<1> HIDE DEF q
<1>3. s \in Seq(Names) /\ Len(s) = j /\ \A i \in 1 .. j : s[i] = q[i]
  BY <1>1, <1>2, PrefixFacts, Zenon
<1>4. t \in Seq(Names) /\ Len(t) = j /\ \A i \in 1 .. j : t[i] = p[i]
  BY <1>2, PrefixFacts, Zenon
<1> HIDE DEF s, t
<1>5. \A i \in 1 .. Len(s) : s[i] = t[i]
  BY <1>1, <1>3, <1>4
<1>6. s = t
  BY <1>3, <1>4, <1>5, SameElements, Zenon
<1> QED BY <1>6, Zenon DEF s, t, q

LEMMA PrefixWhole ==
  ASSUME NEW p \in Seq(Names)
  PROVE  Prefix(p, Len(p)) = p /\ Prefix(p, 0) = <<>>
<1>1. Len(p) \in 0 .. Len(p) /\ 0 \in 0 .. Len(p)
  OBVIOUS
<1> DEFINE s == Prefix(p, Len(p))
           t == Prefix(p, 0)
<1>2. s \in Seq(Names) /\ Len(s) = Len(p) /\ \A i \in 1 .. Len(p) : s[i] = p[i]
  BY <1>1, PrefixFacts, Zenon
<1>3. t \in Seq(Names) /\ Len(t) = 0
  BY <1>1, PrefixFacts, Zenon
<1> HIDE DEF s, t
<1>4. s = p
  BY <1>2, SameElements, Zenon
<1>5. t = <<>>
  BY <1>3
<1> QED BY <1>4, <1>5, Zenon DEF s, t

(* The next prefix is one part longer.                                     *)
LEMMA PrefixNext ==
  ASSUME NEW p \in Seq(Names), NEW k \in 1 .. Len(p)
  PROVE  /\ Prefix(p, k) # <<>> /\ Parent(Prefix(p, k)) = Prefix(p, k - 1)
         /\ Append(Prefix(p, k - 1), p[k]) = Prefix(p, k)
<1> DEFINE q == Prefix(p, k)
           r == Prefix(p, k - 1)
           a == Append(r, p[k])
<1>1. k \in 0 .. Len(p) /\ k - 1 \in 0 .. Len(p) /\ k - 1 \in 0 .. k /\ p[k] \in Names
  BY Element
<1>2. q \in Seq(Names) /\ Len(q) = k /\ \A i \in 1 .. k : q[i] = p[i]
  BY <1>1, PrefixFacts, Zenon
<1>3. r \in Seq(Names) /\ Len(r) = k - 1 /\ \A i \in 1 .. k - 1 : r[i] = p[i]
  BY <1>1, PrefixFacts, Zenon
<1>4. Parent(q) = r
  <2>1. Parent(q) = Prefix(q, k - 1)
    BY <1>2, Zenon DEF Parent, Prefix
  <2> QED BY <1>1, <2>1, PrefixPrefix, Zenon
<1> HIDE DEF q, r
<1>5. a \in Seq(Names) /\ Len(a) = k /\ \A i \in 1 .. k : a[i] = IF i = k THEN p[k] ELSE r[i]
  BY <1>1, <1>3
<1> HIDE DEF a
<1>6. \A i \in 1 .. Len(a) : a[i] = q[i]
  <2> SUFFICES ASSUME NEW i \in 1 .. k PROVE a[i] = q[i]
    BY <1>5, Zenon
  <2>1. i = k \/ i \in 1 .. k - 1
    OBVIOUS
  <2> QED BY <1>2, <1>3, <1>5, <2>1, Zenon
<1>7. a = q
  BY <1>2, <1>5, <1>6, SameElements, Zenon
<1>8. q # <<>>
  BY <1>2
<1> QED BY <1>4, <1>7, <1>8, Zenon DEF a, q, r

LEMMA PathsAreSeqs == Paths \subseteq Seq(Names)
<1> SUFFICES ASSUME NEW p \in Paths PROVE p \in Seq(Names)
  BY Zenon
<1>1. PICK n \in 0 .. MaxDepth : p \in [1 .. n -> Names]
  BY Zenon DEF Paths
<1> QED BY <1>1, MountAssumption

(* What the proofs need to know of the order of prefixes.                  *)
LEMMA PrefixesFacts ==
  ASSUME NEW p \in Seq(Names)
  PROVE  /\ p \in Prefixes(p) /\ <<>> \in Prefixes(p) /\ Prefixes(p) \subseteq Seq(Names)
         /\ \A q \in Prefixes(p) : Prefixes(q) \subseteq Prefixes(p)
         /\ \A q \in Prefixes(p) : Len(q) \in 0 .. Len(p) /\ q = Prefix(p, Len(q))
<1>1. \A k \in 0 .. Len(p) : Prefix(p, k) \in Seq(Names) /\ Len(Prefix(p, k)) = k
  BY PrefixFacts, Zenon
<1>2. p \in Prefixes(p) /\ <<>> \in Prefixes(p)
  <2>1. Len(p) \in 0 .. Len(p) /\ 0 \in 0 .. Len(p)
    OBVIOUS
  <2> QED BY <2>1, PrefixWhole, Zenon DEF Prefixes
<1>3. \A q \in Prefixes(p) : Len(q) \in 0 .. Len(p) /\ q = Prefix(p, Len(q)) /\ q \in Seq(Names)
  BY <1>1, Zenon DEF Prefixes
<1>4. ASSUME NEW q \in Prefixes(p), NEW r \in Prefixes(q) PROVE r \in Prefixes(p)
  <2>1. PICK j \in 0 .. Len(q) : r = Prefix(q, j)
    BY Zenon DEF Prefixes
  <2>2. PICK k \in 0 .. Len(p) : q = Prefix(p, k) /\ Len(q) = k
    BY <1>1, Zenon DEF Prefixes
  <2>3. r = Prefix(p, j)
    BY <2>1, <2>2, PrefixPrefix, Zenon
  <2>4. j \in 0 .. Len(p)
    BY <2>1, <2>2
  <2> QED BY <2>3, <2>4, Zenon DEF Prefixes
<1> QED BY <1>2, <1>3, <1>4, Zenon

(* From a proper prefix there is a step towards the path.                  *)
LEMMA StepTowards ==
  ASSUME NEW p \in Seq(Names), NEW n \in Prefixes(p), n # p
  PROVE  \E d \in Prefixes(p) : d # <<>> /\ Parent(d) = n /\ n \in Prefixes(d)
<1>1. Len(n) \in 0 .. Len(p) /\ n = Prefix(p, Len(n))
  BY PrefixesFacts, Zenon
<1>2. Len(n) # Len(p)
  BY <1>1, PrefixWhole, Zenon
<1> DEFINE k == Len(n) + 1
           d == Prefix(p, k)
<1>3. k \in 1 .. Len(p) /\ k - 1 = Len(n) /\ k \in 0 .. Len(p) /\ k - 1 \in 0 .. k
  BY <1>1, <1>2
<1> HIDE DEF k
<1>4. d # <<>> /\ Parent(d) = n
  BY <1>1, <1>3, PrefixNext, Zenon
<1>5. d \in Prefixes(p)
  BY <1>3, Zenon DEF Prefixes
<1>6. Prefix(d, k - 1) = n /\ Len(d) = k
  BY <1>1, <1>3, PrefixPrefix, PrefixFacts, Zenon
<1>7. n \in Prefixes(d)
  BY <1>3, <1>6, Zenon DEF Prefixes
<1> QED BY <1>4, <1>5, <1>7, Zenon

LEMMA ParentFacts ==
  ASSUME NEW c \in Seq(Names), c # <<>>
  PROVE  Parent(c) \in Prefixes(c) /\ Parent(c) # c /\ Len(Parent(c)) = Len(c) - 1
<1>1. Len(c) \in 1 .. Len(c) /\ Len(c) - 1 \in 0 .. Len(c)
  BY NoElement
<1>2. Parent(c) = Prefix(c, Len(c) - 1)
  BY Zenon DEF Parent, Prefix
<1>3. Len(Prefix(c, Len(c) - 1)) = Len(c) - 1
  BY <1>1, PrefixFacts, Zenon
<1> QED BY <1>1, <1>2, <1>3 DEF Prefixes

-------------------------------------------------------------------------------
(* Steps.                                                                  *)
LEMMA NodeIsPath ==
  ASSUME IInv, NEW n \in nodes
  PROVE  n \in Seq(Names) /\ n \in Paths /\ Prefixes(n) \subseteq nodes
BY PathsAreSeqs, Zenon DEF IInv, TypeOK, TreeShape

LEMMA PrefixesArePaths ==
  ASSUME NEW p \in Paths
  PROVE  Prefixes(p) \subseteq Paths
<1>1. PICK n \in 0 .. MaxDepth : p \in [1 .. n -> Names]
  BY Zenon DEF Paths
<1>2. p \in Seq(Names) /\ Len(p) = n
  BY <1>1, MountAssumption
<1> SUFFICES ASSUME NEW k \in 0 .. Len(p) PROVE Prefix(p, k) \in Paths
  BY Zenon DEF Prefixes
<1>3. Prefix(p, k) \in Seq(Names) /\ Len(Prefix(p, k)) = k
  BY <1>2, PrefixFacts, Zenon
<1>4. Prefix(p, k) \in [1 .. k -> Names]
  BY <1>3
<1>5. k \in 0 .. MaxDepth
  BY <1>2, MountAssumption
<1> QED BY <1>4, <1>5, Zenon DEF Paths

(* What a mount that is refused has walked over was there before.          *)
LEMMA WalkedRefused ==
  ASSUME IInv, NEW path \in Paths, Refused(path)
  PROVE  Walked(path) = nodes
<1>1. path \in Seq(Names)
  BY PathsAreSeqs, Zenon
<1>2. CASE Covering(path) = {}
  <2>1. Occupied(path) /\ Walked(path) = nodes \cup Prefixes(path)
    BY <1>2, Zenon DEF Refused, Walked
  <2>2. path \in nodes
    <3>1. CASE Children(path) # {}
      <4>1. PICK c \in nodes : c # <<>> /\ Parent(c) = path
        BY <3>1, Zenon DEF Children
      <4>2. Parent(c) \in Prefixes(c) /\ Prefixes(c) \subseteq nodes
        BY <4>1, NodeIsPath, ParentFacts, Zenon
      <4> QED BY <4>1, <4>2, Zenon
    <3>2. CASE Content(path) # None
      BY <3>2, Zenon DEF Content, IInv, TreeShape, Mounted
    <3> QED BY <2>1, <3>1, <3>2, Zenon DEF Occupied
  <2> QED BY <2>1, <2>2, NodeIsPath, Zenon
<1>3. CASE Covering(path) # {}
  <2> DEFINE stop == CHOOSE k \in Covering(path) : \A j \in Covering(path) : k <= j
  <2>1. Covering(path) \subseteq Nat
    BY <1>1 DEF Covering
  <2>2. \E k \in Covering(path) : \A j \in Covering(path) : k <= j
    BY <1>3, <2>1, LeastMember, Zenon
  <2>3. stop \in Covering(path)
    BY <2>2, Zenon
  <2>4. Walked(path) = nodes \cup Prefixes(Prefix(path, stop))
    BY <1>3, Zenon DEF Walked
  <2> HIDE DEF stop
  <2>5. Prefix(path, stop) \in nodes
    BY <2>3, Zenon DEF Covering, IInv, TreeShape
  <2> QED BY <2>4, <2>5, NodeIsPath, Zenon
<1> QED BY <1>2, <1>3, Zenon

LEMMA MountStep ==
  ASSUME IInv, NEW path \in Paths, NEW on_mount, Mount(path, on_mount)
  PROVE  IInv'
<1> DEFINE id == os_id_count + 1
<1>1. /\ os_id_count' = id /\ fs_by_id' = fs_by_id \cup {id} /\ nodes' = Walked(path)
      /\ \/ Refused(path) /\ contents' = contents
         \/ /\ ~Refused(path)
            /\ contents' = [n \in Mounted \cup {path} |-> IF n = path THEN id ELSE contents[n]]
  BY Zenon DEF Mount
<1>2. os_id_count \in Nat /\ path \in Seq(Names) /\ contents \in [Mounted -> 1 .. os_id_count]
  BY PathsAreSeqs, Zenon DEF IInv, TypeOK
<1>3. id \in Nat /\ id > 0 /\ \A i \in 1 .. os_id_count : i \in 1 .. id /\ i # id
  BY <1>2
<1>4. CASE Refused(path)
  <2>1. nodes' = nodes /\ contents' = contents /\ Mounted' = Mounted
    BY <1>1, <1>4, WalkedRefused, Zenon DEF Mounted
  <2>2. TypeOK'
    BY <1>1, <1>2, <1>3, <2>1, Zenon DEF IInv, TypeOK
  <2>3. TreeShape'
    BY <2>1, Zenon DEF IInv, TreeShape, Children
  <2>4. MountsAlive'
    BY <1>1, <2>1, ZenonT(30) DEF IInv, MountsAlive
  <2> QED BY <2>2, <2>3, <2>4, Zenon DEF IInv
<1>5. CASE ~Refused(path)
  <2>1. /\ nodes' = nodes \cup Prefixes(path) /\ Covering(path) = {} /\ Children(path) = {}
        /\ Content(path) = None
        /\ contents' = [n \in Mounted \cup {path} |-> IF n = path THEN id ELSE contents[n]]
    BY <1>1, <1>5, Zenon DEF Refused, Walked, Occupied
  <2> HIDE DEF id
  <2>2. Mounted' = Mounted \cup {path}
    BY <2>1, Zenon DEF Mounted
  <2>3. /\ path \in Prefixes(path) /\ Prefixes(path) \subseteq Seq(Names)
        /\ \A q \in Prefixes(path) : Prefixes(q) \subseteq Prefixes(path)
        /\ \A q \in Prefixes(path) : Len(q) \in 0 .. Len(path) /\ q = Prefix(path, Len(q))
    BY <1>2, PrefixesFacts, Zenon
  <2>4. path \notin Mounted
    BY <1>2, <2>1 DEF Content, None, Mounted
  <2>5. \A q \in Prefixes(path) : q \in Mounted => FALSE
    <3> SUFFICES ASSUME NEW q \in Prefixes(path), q \in Mounted PROVE FALSE
      BY Zenon
    <3>1. q # path
      BY <2>4, Zenon
    <3>2. Len(q) \in 0 .. Len(path) /\ Len(q) # Len(path) /\ q = Prefix(path, Len(q))
      BY <1>2, <2>3, <3>1, PrefixWhole, Zenon
    <3>3. Len(q) \in 0 .. Len(path) - 1
      BY <1>2, <3>2
    <3> QED BY <2>1, <3>2, <3>3, Zenon DEF Covering
  <2>6. TypeOK'
    <3>1. contents' \in [Mounted' -> 1 .. id]
      BY <1>2, <1>3, <2>1, <2>2, SMTT(30)
    <3>2. nodes' \subseteq Paths
      BY <2>1, PrefixesArePaths, Zenon DEF IInv, TypeOK
    <3> QED BY <1>1, <1>3, <2>1, <3>1, <3>2, ZenonT(30) DEF IInv, TypeOK
  <2>7. TreeShape'
    <3>1. Mounted' \subseteq nodes'
      BY <2>1, <2>2, <2>3, Zenon DEF IInv, TreeShape
    <3>2. \A n \in nodes' : Prefixes(n) \subseteq nodes'
      BY <2>1, <2>3, Zenon DEF IInv, TreeShape
    <3>3. ASSUME NEW n \in Mounted', NEW c \in nodes', c # <<>>, Parent(c) = n PROVE FALSE
      <4>1. c \in Seq(Names)
        BY <2>1, <2>3, NodeIsPath, Zenon
      <4>2. n \in Prefixes(c) /\ n # c /\ Len(n) = Len(c) - 1
        BY <3>3, <4>1, ParentFacts, Zenon
      <4>3. CASE c \in nodes
        <5>1. c \in Children(n)
          BY <3>3, <4>3, Zenon DEF Children
        <5> QED BY <2>1, <2>2, <5>1, Zenon DEF IInv, TreeShape
      <4>4. CASE c \in Prefixes(path)
        <5>1. n \in Prefixes(path)
          BY <2>3, <4>2, <4>4, Zenon
        <5>2. n = path
          BY <2>2, <2>5, <5>1, Zenon
        <5>3. Len(c) <= Len(path) /\ Len(c) \in Nat
          BY <1>2, <2>3, <4>1, <4>4, SMTT(30)
        <5> QED BY <4>2, <5>2, <5>3, SMTT(30)
      <4> QED BY <2>1, <4>3, <4>4, Zenon
    <3>4. \A n \in Mounted' : Children(n)' = {}
      BY <3>3, Zenon DEF Children
    <3>5. ASSUME NEW n \in nodes', n # <<>>, Children(n)' = {} PROVE n \in Mounted'
      <4>1. \A c \in nodes' : c # <<>> => Parent(c) # n
        BY <3>5, Zenon DEF Children
      <4>2. CASE n \in Prefixes(path)
        <5>1. CASE n # path
          <6>1. PICK d \in Prefixes(path) : d # <<>> /\ Parent(d) = n
            BY <1>2, <4>2, <5>1, StepTowards, Zenon
          <6> QED BY <2>1, <4>1, <6>1, Zenon
        <5> QED BY <2>2, <5>1, Zenon
      <4>3. CASE n \in nodes
        <5>1. Children(n) = {}
          BY <2>1, <4>1, Zenon DEF Children
        <5> QED BY <2>2, <3>5, <4>3, <5>1, Zenon DEF IInv, TreeShape
      <4> QED BY <2>1, <4>2, <4>3, Zenon
    <3> QED BY <3>1, <3>2, <3>4, <3>5, Zenon DEF TreeShape
  <2>8. MountsAlive'
    <3>1. \A n \in Mounted : contents[n] \in fs_by_id /\ contents[n] # id /\ contents'[n] = contents[n]
      BY <1>2, <1>3, <2>1, <2>4, Zenon DEF IInv, MountsAlive
    <3>2. contents'[path] = id
      BY <2>1, Zenon
    <3> QED BY <1>1, <2>2, <3>1, <3>2, SMTT(30) DEF IInv, MountsAlive
  <2> QED BY <2>6, <2>7, <2>8, Zenon DEF IInv
<1> QED BY <1>4, <1>5, Zenon

LEMMA UnmountStep ==
  ASSUME IInv, NEW path \in Paths, NEW driver, Unmount(path, driver)
  PROVE  IInv'
<1>1. CASE UNCHANGED <<nodes, contents, fs_by_id, os_id_count>>
  BY <1>1, ZenonT(30) DEF IInv, TypeOK, TreeShape, MountsAlive, Mounted, Children
<1>2. CASE /\ path \in nodes /\ Content(path) # None
           /\ nodes' = Pruned(path)
           /\ contents' = [n \in Mounted \ {path} |-> contents[n]]
           /\ fs_by_id' = fs_by_id \/ fs_by_id' = fs_by_id \ {Content(path)}
           /\ UNCHANGED os_id_count
  <2> DEFINE P == Prefixes(path)
             Kept(n) == \/ n \notin P
                        \/ n = <<>>
                        \/ \E c \in nodes : n \in Prefixes(c) /\ c \notin P
                        \/ \E c \in Mounted \ {path} : n \in Prefixes(c)
  <2>1. \A n : n \in nodes' <=> n \in nodes /\ Kept(n)
    BY <1>2, Zenon DEF Pruned
  <2>2. Mounted' = Mounted \ {path} /\ \A n \in Mounted' : contents'[n] = contents[n]
    BY <1>2, Zenon DEF Mounted
  <2>3. path \in Mounted /\ Content(path) = contents[path]
    BY <1>2, Zenon DEF Content, Mounted
  <2>4. \A n \in nodes : /\ n \in Seq(Names) /\ Prefixes(n) \subseteq nodes
                         /\ n \in Prefixes(n) /\ <<>> \in Prefixes(n)
                         /\ \A q \in Prefixes(n) : Prefixes(q) \subseteq Prefixes(n)
    BY NodeIsPath, PrefixesFacts, Zenon
  <2>5. Mounted \subseteq nodes
    BY Zenon DEF IInv, TreeShape
  <2> HIDE DEF P
  <2>6. TypeOK'
    <3>1. <<>> \in nodes'
      BY <2>1, Zenon DEF IInv, TypeOK
    <3>2. nodes' \subseteq Paths
      BY <2>1, Zenon DEF IInv, TypeOK
    <3>3. contents' \in [Mounted' -> 1 .. os_id_count]
      BY <1>2, <2>2, Zenon DEF IInv, TypeOK
    <3> QED BY <1>2, <3>1, <3>2, <3>3, Zenon DEF IInv, TypeOK
  <2>7. TreeShape'
    <3>1. Mounted' \subseteq nodes'
      BY <2>1, <2>2, <2>4, <2>5, Zenon
    <3>2. ASSUME NEW n \in nodes', NEW r \in Prefixes(n) PROVE r \in nodes'
      <4>1. n \in nodes /\ Kept(n) /\ r \in nodes
        BY <2>1, <2>4, Zenon
      <4>2. CASE n \notin P \/ r = <<>>
        BY <2>1, <4>1, <4>2, Zenon
      <4>3. CASE n = <<>>
        <5>1. r = <<>>
          <6>1. <<>> \in Seq(Names) /\ Len(<<>>) = 0
            BY NoElement, Zenon
          <6>2. Len(r) \in 0 .. 0 /\ r = Prefix(<<>>, Len(r))
            BY <4>3, <6>1, PrefixesFacts, Zenon
          <6>3. Len(r) = 0
            BY <6>2
          <6> QED BY <6>1, <6>2, <6>3, PrefixWhole, Zenon
        <5> QED BY <4>2, <5>1, Zenon
      <4>4. CASE \E c \in nodes : n \in Prefixes(c) /\ c \notin P
        <5>1. \E c \in nodes : r \in Prefixes(c) /\ c \notin P
          BY <2>4, <4>4, Zenon
        <5> QED BY <2>1, <4>1, <5>1, Zenon
      <4>5. CASE \E c \in Mounted \ {path} : n \in Prefixes(c)
        <5>1. \E c \in Mounted \ {path} : r \in Prefixes(c)
          BY <2>4, <2>5, <4>5, Zenon
        <5> QED BY <2>1, <4>1, <5>1, Zenon
      <4> QED BY <4>1, <4>2, <4>3, <4>4, <4>5, Zenon
    <3>3. \A n \in Mounted' : Children(n)' = {}
      BY <2>1, <2>2, Zenon DEF IInv, TreeShape, Children
    <3>4. ASSUME NEW n \in nodes', n # <<>>, Children(n)' = {} PROVE n \in Mounted'
      <4>1. \A c \in nodes' : c # <<>> => Parent(c) # n
        BY <3>4, Zenon DEF Children
      <4>2. n \in nodes /\ Kept(n)
        BY <2>1, Zenon
      (* Whatever keeps n keeps the next node on the way to it.            *)
      <4>3. ASSUME NEW c \in nodes, n \in Prefixes(c), c # n,
                   c \notin P \/ c \in Mounted \ {path}
            PROVE  FALSE
        <5>1. PICK d \in Prefixes(c) : d # <<>> /\ Parent(d) = n
          BY <2>4, <4>3, StepTowards, Zenon
        <5>2. d \in nodes
          BY <2>4, Zenon
        <5>3. Kept(d)
          BY <4>3, Zenon
        <5> QED BY <2>1, <4>1, <5>1, <5>2, <5>3, Zenon
      <4>4. CASE n \notin P
        <5>1. \A c \in nodes : c # <<>> /\ Parent(c) = n => c \notin P
          <6> SUFFICES ASSUME NEW c \in nodes, c # <<>>, Parent(c) = n, c \in P PROVE FALSE
            BY Zenon
          <6>1. n \in Prefixes(c)
            BY <2>4, ParentFacts, Zenon
          <6>2. n \in P
            BY <1>2, <2>4, <6>1, Zenon DEF P
          <6> QED BY <4>4, <6>2, Zenon
        <5>2. Children(n) = {}
          BY <2>1, <4>1, <5>1, Zenon DEF Children
        <5>3. n \in Mounted
          BY <3>4, <4>2, <5>2, Zenon DEF IInv, TreeShape
        <5>4. path \in P
          BY <1>2, <2>4, Zenon DEF P
        <5> QED BY <2>2, <4>4, <5>3, <5>4, Zenon
      <4>5. CASE n \in P /\ \E c \in nodes : n \in Prefixes(c) /\ c \notin P
        BY <4>3, <4>5, Zenon
      <4>6. CASE \E c \in Mounted \ {path} : n \in Prefixes(c)
        BY <2>2, <2>5, <4>3, <4>6, Zenon
      <4> QED BY <3>4, <4>2, <4>4, <4>5, <4>6, ZenonT(30)
    <3> QED BY <3>1, <3>2, <3>3, <3>4, Zenon DEF TreeShape
  <2>8. MountsAlive'
    BY <1>2, <2>2, <2>3, SMTT(30) DEF IInv, MountsAlive
  <2> QED BY <2>6, <2>7, <2>8, Zenon DEF IInv
<1> QED BY <1>1, <1>2, Zenon DEF Unmount

LEMMA InitIInv == Init => IInv
<1> SUFFICES ASSUME Init PROVE IInv
  BY Zenon
<1>1. nodes = {<<>>} /\ Mounted = {} /\ os_id_count = 1 /\ contents \in [{} -> 1 .. 1]
  BY Zenon DEF Init, Mounted
<1>2. <<>> \in Paths
  <2>1. <<>> \in [1 .. 0 -> Names] /\ 0 \in 0 .. MaxDepth
    BY MountAssumption
  <2> QED BY <2>1, Zenon DEF Paths
<1>3. TypeOK
  BY <1>1, <1>2, Zenon DEF TypeOK
<1>4. Prefixes(<<>>) = {<<>>}
  <2>1. <<>> \in Seq(Names) /\ Len(<<>>) = 0
    BY NoElement, Zenon
  <2>2. Prefixes(<<>>) = {Prefix(<<>>, k) : k \in {0}}
    BY <2>1 DEF Prefixes
  <2> QED BY <2>1, <2>2, PrefixWhole, ZenonT(30)
<1>5. TreeShape
  BY <1>1, <1>4, Zenon DEF TreeShape
<1>6. MountsAlive
  BY <1>1, Zenon DEF MountsAlive
<1> QED BY <1>3, <1>5, <1>6, Zenon DEF IInv

LEMMA NextIInv == IInv /\ [Next]_vars => IInv'
<1> SUFFICES ASSUME IInv, [Next]_vars PROVE IInv'
  BY Zenon
<1>1. CASE UNCHANGED vars
  BY <1>1, Zenon DEF vars, IInv, TypeOK, TreeShape, MountsAlive, Mounted, Children
<1>2. CASE Next
  BY <1>2, MountStep, UnmountStep, Zenon DEF Next
<1> QED BY <1>1, <1>2, Zenon

-------------------------------------------------------------------------------
(* The lookups.                                                            *)
LEMMA NodesAbove ==
  ASSUME IInv, NEW path \in Seq(Names), NEW k \in 0 .. Len(path), Prefix(path, k) \in nodes,
         NEW j \in 0 .. k
  PROVE  Prefix(path, j) \in nodes
<1> DEFINE q == Prefix(path, k)
<1>1. Len(q) = k /\ Prefix(q, j) = Prefix(path, j) /\ Prefixes(q) \subseteq nodes
  BY PrefixFacts, PrefixPrefix, NodeIsPath, Zenon
<1>2. Prefix(q, j) \in Prefixes(q)
  BY <1>1, Zenon DEF Prefixes
<1> QED BY <1>1, <1>2, Zenon

LEMMA NothingBelowMount ==
  ASSUME IInv, NEW path \in Seq(Names), NEW k \in 0 .. Len(path) - 1, Prefix(path, k) \in Mounted
  PROVE  Prefix(path, k + 1) \notin nodes
<1>1. k + 1 \in 1 .. Len(path) /\ (k + 1) - 1 = k
  OBVIOUS
<1>2. Prefix(path, k + 1) # <<>> /\ Parent(Prefix(path, k + 1)) = Prefix(path, k)
  BY <1>1, PrefixNext, Zenon
<1> QED BY <1>2, Zenon DEF IInv, TreeShape, Children

(* The lookup of the mounting manager stops at a defined place.            *)
Reaches(path, k) ==
  /\ Prefix(path, k) \in nodes
  /\ k = Len(path) \/ Prefix(path, k + 1) \notin nodes
  /\ \A j \in 0 .. k : Prefix(path, j) \in nodes

LEMMA ReachFacts ==
  ASSUME IInv, NEW path \in Seq(Names)
  PROVE  /\ Reach(path) \in 0 .. Len(path) /\ Reaches(path, Reach(path))
         /\ \A k \in 0 .. Len(path) : Reaches(path, k) => k = Reach(path)
<1> DEFINE off == {k \in 0 .. Len(path) : Prefix(path, k) \notin nodes}
<1>1. Len(path) \in Nat /\ Prefix(path, 0) \in nodes
  BY PrefixWhole DEF IInv, TypeOK
<1>2. \E k \in 0 .. Len(path) : Reaches(path, k)
  <2>1. CASE off = {}
    <3>1. \A j \in 0 .. Len(path) : Prefix(path, j) \in nodes
      BY <2>1, Zenon
    <3>2. Len(path) \in 0 .. Len(path)
      BY <1>1
    <3> QED BY <3>1, <3>2, Zenon DEF Reaches
  <2>2. CASE off # {}
    <3>1. off \in SUBSET Nat
      BY <1>1
    <3>2. PICK x \in off : \A y \in off : x <= y
      <4> HIDE DEF off
      <4> QED BY <2>2, <3>1, LeastMember, Zenon
    <3>3. x \in 0 .. Len(path) /\ Prefix(path, x) \notin nodes /\ x # 0
      BY <1>1, <3>2, Zenon
    <3>4. \A y \in 0 .. Len(path) : y < x => Prefix(path, y) \in nodes
      BY <1>1, <3>2, <3>3
    <3> DEFINE k == x - 1
    <3>5. k \in 0 .. Len(path) /\ k + 1 = x /\ \A j \in 0 .. k : j \in 0 .. Len(path) /\ j < x
      BY <1>1, <3>3
    <3>6. k \in 0 .. k
      BY <3>5
    <3> HIDE DEF k
    <3>7. \A j \in 0 .. k : Prefix(path, j) \in nodes
      BY <3>4, <3>5, Zenon
    <3> QED BY <3>3, <3>5, <3>6, <3>7, Zenon DEF Reaches
  <2> QED BY <2>1, <2>2, Zenon
<1>3. Reach(path) \in 0 .. Len(path) /\ Reaches(path, Reach(path))
  BY <1>2, Zenon DEF Reach, Reaches
<1>4. ASSUME NEW j \in 0 .. Len(path), NEW k \in 0 .. Len(path),
             Reaches(path, j), Reaches(path, k), j < k
      PROVE  FALSE
  <2>1. j + 1 \in 0 .. k /\ j # Len(path)
    BY <1>1, <1>4
  <2> QED BY <1>4, <2>1, Zenon DEF Reaches
<1>5. \A k \in 0 .. Len(path) : Reaches(path, k) => ~(k < Reach(path)) /\ ~(Reach(path) < k)
  BY <1>3, <1>4, Zenon
<1> QED BY <1>1, <1>3, <1>5

LEMMA ChildFacts ==
  ASSUME NEW path \in Seq(Names), NEW k \in 1 .. Len(path)
  PROVE  get_child(Prefix(path, k - 1), path[k]) =
           LET c == Prefix(path, k)
           IN  [kind |-> IF c \notin nodes THEN "PathNotFound"
                         ELSE IF c \in Mounted THEN "MountPoint" ELSE "Directory",
                fs   |-> IF c \in nodes THEN Content(c) ELSE None]
BY PrefixNext, Zenon DEF get_child

LEMMA LookupsFacts ==
  ASSUME IInv, NEW path \in Paths
  PROVE  LET over == {k \in 0 .. Len(path) : Prefix(path, k) \in Mounted} IN
         /\ Cardinality(over) <= 1
         /\ search_fs(path) = IF over = {} THEN None ELSE Content(Prefix(path, CHOOSE k \in over : TRUE))
         /\ over \ {0} # {} => get_file(path) = [kind |-> "MountPoint", fs |-> search_fs(path)]
         /\ over = {} => get_file(path).fs = None
<1> DEFINE over == {k \in 0 .. Len(path) : Prefix(path, k) \in Mounted}
           step(k) == get_child(Prefix(path, k - 1), path[k])
           ends == {k \in 1 .. Len(path) : step(k).kind # "Directory"}
           first == CHOOSE k \in ends : \A j \in ends : k <= j
<1>1. path \in Seq(Names) /\ Len(path) \in Nat /\ Mounted \subseteq nodes
  BY PathsAreSeqs DEF IInv, TreeShape
<1>2. \A k \in over : k \in 0 .. Len(path) /\ Prefix(path, k) \in Mounted /\ Prefix(path, k) \in nodes
  BY <1>1, Zenon
<1>3. \A k \in over : Reaches(path, k)
  <2> SUFFICES ASSUME NEW k \in over PROVE Reaches(path, k)
    BY Zenon
  <2>1. \A j \in 0 .. k : Prefix(path, j) \in nodes
    BY <1>1, <1>2, NodesAbove, Zenon
  <2>2. k = Len(path) \/ Prefix(path, k + 1) \notin nodes
    <3>1. k = Len(path) \/ k \in 0 .. Len(path) - 1
      BY <1>1, <1>2
    <3> QED BY <1>1, <1>2, <3>1, NothingBelowMount, Zenon
  <2> QED BY <1>2, <2>1, <2>2, Zenon DEF Reaches
<1>4. over \subseteq {Reach(path)}
  BY <1>1, <1>2, <1>3, ReachFacts, Zenon
<1>5. Cardinality(over) <= 1
  <2> HIDE DEF over
  <2>1. over = {} \/ over = {Reach(path)}
    BY <1>4, Zenon
  <2>2. Cardinality({}) = 0 /\ Cardinality({Reach(path)}) = 1
    BY FS_EmptySet, FS_Singleton, Zenon
  <2>3. Cardinality(over) = 0 \/ Cardinality(over) = 1
    BY <2>1, <2>2, Zenon
  <2> QED BY <2>3
<1>6. Reach(path) \in 0 .. Len(path) /\ Reaches(path, Reach(path))
  BY <1>1, ReachFacts, Zenon
<1>7. search_fs(path) = IF over = {} THEN None ELSE Content(Prefix(path, CHOOSE k \in over : TRUE))
  <2>1. CASE over = {}
    <3>1. Prefix(path, Reach(path)) \notin Mounted
      BY <1>6, <2>1, Zenon
    <3> QED BY <2>1, <3>1, Zenon DEF search_fs, Content, Mounted
  <2>2. CASE over # {}
    <3> HIDE DEF over
    <3>1. (CHOOSE k \in over : TRUE) \in over
      BY <2>2, Zenon
    <3>2. (CHOOSE k \in over : TRUE) = Reach(path)
      BY <1>4, <3>1, Zenon
    <3> QED BY <2>2, <3>2, Zenon DEF search_fs
  <2> QED BY <2>1, <2>2, Zenon
<1>8. \A k \in 1 .. Len(path) :
        step(k) = [kind |-> IF Prefix(path, k) \notin nodes THEN "PathNotFound"
                            ELSE IF Prefix(path, k) \in Mounted THEN "MountPoint" ELSE "Directory",
                   fs   |-> IF Prefix(path, k) \in nodes THEN Content(Prefix(path, k)) ELSE None]
  BY <1>1, ChildFacts, Zenon
<1> HIDE DEF step
<1>9. \A k \in 1 .. Len(path) :
        k \in ends <=> Prefix(path, k) \notin nodes \/ Prefix(path, k) \in Mounted
  BY <1>1, <1>8
<1>10. get_file(path) = IF ends = {} THEN [kind |-> "Directory", fs |-> None] ELSE step(first)
  BY Zenon DEF get_file, step
<1>11. ends # {} => first \in ends /\ \A j \in ends : first <= j
  <2>1. ends \in SUBSET Nat
    BY <1>1
  <2> HIDE DEF ends
  <2>2. ends # {} => \E k \in ends : \A j \in ends : k <= j
    BY <2>1, LeastMember, Zenon
  <2> QED BY <2>2, Zenon
<1>12. ends \subseteq 1 .. Len(path)
  BY Zenon
<1> HIDE DEF ends, first
<1>13. ASSUME over \ {0} # {}
       PROVE  get_file(path) = [kind |-> "MountPoint", fs |-> search_fs(path)]
  <2>1. PICK k \in over : k # 0
    BY <1>13, Zenon
  <2>2. k \in 1 .. Len(path) /\ Prefix(path, k) \in Mounted /\ Prefix(path, k) \in nodes
    BY <1>1, <1>2, <2>1
  <2>3. k \in ends
    BY <1>9, <2>2, Zenon
  <2>4. \A j \in 1 .. k - 1 : j \notin ends
    <3> SUFFICES ASSUME NEW j \in 1 .. k - 1 PROVE j \notin ends
      BY Zenon
    <3>1. j \in 1 .. Len(path) /\ j \in 0 .. k /\ j # k /\ j \in 0 .. Len(path) /\ k \in 0 .. Len(path)
      BY <1>1, <2>2
    <3>2. Prefix(path, j) \in nodes
      BY <1>1, <2>2, <3>1, NodesAbove, Zenon
    <3>3. Prefix(path, j) \notin Mounted
      BY <1>4, <3>1, <2>1, Zenon
    <3> QED BY <1>9, <3>1, <3>2, <3>3, Zenon
  <2>5. first = k
    <3>1. first \in ends /\ first <= k /\ first \in 1 .. Len(path)
      BY <1>11, <1>12, <2>3, Zenon
    <3> QED BY <1>1, <2>2, <2>4, <3>1, SMTT(30)
  <2>6. get_file(path) = [kind |-> "MountPoint", fs |-> Content(Prefix(path, k))]
    BY <1>8, <1>10, <2>2, <2>3, <2>5, Zenon
  <2>7. k = Reach(path)
    BY <1>4, <2>1, Zenon
  <2> QED BY <2>6, <2>7, Zenon DEF search_fs
<1>14. ASSUME over = {} PROVE get_file(path).fs = None
  <2>1. CASE ends = {}
    BY <1>10, <2>1
  <2>2. CASE ends # {}
    <3>1. first \in ends /\ first \in 1 .. Len(path) /\ first \in 0 .. Len(path)
      <4>1. first \in ends
        BY <1>11, <2>2, Zenon
      <4>2. first \in 1 .. Len(path)
        BY <1>12, <4>1, Zenon
      <4> QED BY <1>1, <4>1, <4>2
    <3>2. Prefix(path, first) \notin Mounted
      BY <1>14, <3>1, Zenon
    <3>3. Prefix(path, first) \notin nodes
      BY <1>9, <3>1, <3>2, Zenon
    <3> QED BY <1>8, <1>10, <2>2, <3>1, <3>3, SMTT(30)
  <2> QED BY <2>1, <2>2, Zenon
<1> QED BY <1>5, <1>7, <1>13, <1>14, Zenon

-------------------------------------------------------------------------------
(* For every set of names, depth of paths and number of mounts: the tree   *)
(* of MountingPointsManager has exactly the mount points as its leaves,    *)
(* whatever register_fs refuses and remove_fs_recursive prunes.            *)
THEOREM LeavesAreMounts == Spec => []TreeShape
<1>1. IInv => TreeShape
  BY Zenon DEF IInv
<1> QED BY <1>1, InitIInv, NextIInv, PTL DEF Spec

(* A weak reference in the tree is always alive, and no two mount points   *)
(* share an id: Vfs::mount and unmount keep fs_by_id in step with the tree *)
(* also where the driver fails.                                            *)
THEOREM ReferencesAlive == Spec => []MountsAlive
<1>1. IInv => MountsAlive
  BY Zenon DEF IInv
<1> QED BY <1>1, InitIInv, NextIInv, PTL DEF Spec

(* search_fs and get_file take every path to the same file system, the     *)
(* only one that is mounted on its way.                                    *)
THEOREM SameFileSystem == Spec => []LookupsAgree
<1>1. IInv => LookupsAgree
  BY LookupsFacts, Zenon DEF LookupsAgree
<1> QED BY <1>1, InitIInv, NextIInv, PTL DEF Spec
===============================================================================
