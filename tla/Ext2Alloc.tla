------------------------------- MODULE Ext2Alloc -------------------------------
(***************************************************************************)
(* The block and inode bitmaps of an ext2 volume: ext2/balloc.rs,          *)
(* ext2/ialloc.rs, data/bitmap.rs and the allocator caches of ext2/mod.rs. *)
(*                                                                         *)
(* The operators take a volume, a record with the fields of Bitmaps below, *)
(* and return the volume that the method leaves.  `err' is the VfsError of *)
(* the call and `ret' the number it returns.  A bitmap is the set of its   *)
(* set bits.  ext2 gives a group one bitmap block of each kind, so one     *)
(* flag stands for dirty_blocks_bitmap.  The device does not fail here.    *)
(***************************************************************************)
EXTENDS Integers, Sequences, FiniteSets, FiniteSetsExt

CONSTANTS
  GroupCount,   \* block_group_count
  PerGroup,     \* blocks_per_group and inodes_per_group, by kind
  Total,        \* block_count and superblock.inodes_count, by kind
  CacheSize     \* the capacity of group_block_bitmap_caches and its twin

Kinds == {"block", "inode"}
Groups == 0 .. GroupCount - 1

ASSUME Ext2AllocAssumption ==
  /\ GroupCount \in Nat \ {0}
  /\ CacheSize \in Nat \ {0}
  /\ PerGroup \in [Kinds -> Nat \ {0}]
  /\ Total \in [Kinds -> Nat \ {0}]

Least(a, b) == IF a <= b THEN a ELSE b

(* The number of turns of a loop that is to make n: none below zero.       *)
Turns(n) == IF n \in Nat THEN n ELSE 0

(* A sequence without one element, and with one more.  SequencesExt has    *)
(* both, and much else that would be in the context of every proof about   *)
(* the file system.                                                        *)
RemoveAt(s, i) == SubSeq(s, 1, i - 1) \o SubSeq(s, i + 1, Len(s))
InsertAt(s, i, e) == SubSeq(s, 1, i - 1) \o <<e>> \o SubSeq(s, i, Len(s))

(* The fields of two records.                                              *)
Both(r, t) == [k \in DOMAIN r \cup DOMAIN t |-> IF k \in DOMAIN r THEN r[k] ELSE t[k]]

(* Rust's `?': the next call, if the last one did not fail.                *)
Then(s, Op(_)) == IF s.err = "Ok" THEN Op(s) ELSE s
Err(s, e) == [s EXCEPT !.err = e]

(* The first block of a group: the volume's block 0 belongs to no group.   *)
min_block(g) == g * PerGroup["block"] + 1

max_block(g) == Least(min_block(g) + PerGroup["block"], Total["block"])

(* get_inode_range_for_group.  The exclusive end is capped with the number *)
(* of inodes, which count from 1: the last inode is in no group's range.   *)
get_inode_range_for_group(g) ==
  <<g * PerGroup["inode"] + 1,
    Least((g + 1) * PerGroup["inode"] + 1, Total["inode"])>>

First(k, g) == IF k = "block" THEN min_block(g) ELSE get_inode_range_for_group(g)[1]
Past(k, g) == IF k = "block" THEN max_block(g) ELSE get_inode_range_for_group(g)[2]

(* The bits that an allocator's bitmap looks at: a whole bitmap block for  *)
(* blocks, so the end of the last group counts on the bits that mkfs has   *)
(* set there; the inodes of the range for inodes.                          *)
BitsOf(k, g) ==
  IF k = "block" THEN 0 .. PerGroup[k] - 1 ELSE 0 .. Past(k, g) - First(k, g) - 1

(* The group that a block number belongs to.  A null pointer, whose        *)
(* predecessor wraps, belongs to a group that does not exist.              *)
GroupOf(b) == IF b = 0 THEN GroupCount ELSE (b - 1) \div PerGroup["block"]
get_inode_group(i) == (i - 1) \div PerGroup["inode"]

----------------------------------------------------------------------------
(* BlockAllocator and InodeAllocator.                                      *)
new(g, bits) == [group |-> g, bits |-> bits, dirty |-> FALSE, diff_usage |-> 0]

find_first_unset(k, a) ==
  LET unset == BitsOf(k, a.group) \ a.bits
  IN IF unset = {} THEN {} ELSE {Min(unset)}

mark_dirty(a) == [a EXCEPT !.dirty = TRUE]

Ok(v, n) == [v EXCEPT !.err = "Ok", !.ret = n]
Fail(v, e) == [v EXCEPT !.err = e, !.ret = 0]

(* The allocator in use is the most recently used one of its cache.        *)
alloc(v, k) ==
  LET a == v.cache[k][1]
      free == find_first_unset(k, a)
  IN IF free = {}
     THEN Fail(v, "OutOfSpace")
     ELSE LET bit == Min(free)
          IN Ok([v EXCEPT !.cache[k][1] =
                   mark_dirty([a EXCEPT !.bits = @ \cup {bit}, !.diff_usage = @ + 1])],
                First(k, a.group) + bit)

dealloc(v, k, n) ==
  LET a == v.cache[k][1]
      bit == n - First(k, a.group)
  IN IF n < First(k, a.group) \/ n >= Past(k, a.group)
     THEN Fail(v, "InvalidArgument")
     ELSE IF bit \notin a.bits
     THEN Fail(v, "DriverError")
     ELSE Ok([v EXCEPT !.cache[k][1] =
                mark_dirty([a EXCEPT !.bits = @ \ {bit}, !.diff_usage = @ - 1])], 0)

alloc_block(v) == alloc(v, "block")
dealloc_block(v, b) == dealloc(v, "block", b)
alloc_inode(v) == alloc(v, "inode")
dealloc_inode_bit(v, i) == dealloc(v, "inode", i)

----------------------------------------------------------------------------
(* get_backup_groups with sparse descriptor tables: groups 0 and 1 and the *)
(* powers of 3, 5 and 7 up to block_group_count, that number included.     *)
Powers(b, n) == {b ^ i : i \in 1 .. n} \cap 1 .. n

get_backup_groups(n) ==
  IF n <= 1 THEN 0 .. n - 1
  ELSE {0, 1} \cup Powers(3, n) \cup Powers(5, n) \cup Powers(7, n)

(* set_superblock and set_block_group_descriptor: the copy in memory, then *)
(* every backup.  A seek to a backup in a group that does not exist fails, *)
(* as the volume ends with the drive here: seeks are bounded by the drive, *)
(* so elsewhere the backup would be written behind the partition.  Where   *)
(* the backups lie is left out: descriptors are written from block 2 of a  *)
(* group, but read from block 1 where blocks are larger than 1024 bytes.   *)
set_superblock(v, k, n) ==
  IF get_backup_groups(GroupCount) \subseteq Groups
  THEN [v EXCEPT !.superblock[k] = n]
  ELSE Fail([v EXCEPT !.superblock[k] = n], "InvalidSeekPosition")

set_block_group_descriptor(v, k, g, n) == [v EXCEPT !.descriptor[k][g] = n]

write_dirty(v, k, a) == IF a.dirty THEN [v EXCEPT !.bitmap[k][a.group] = a.bits] ELSE v

(* What an allocator owes the counters of superblock and descriptor.       *)
AddDiff(v, k, a) ==
  Then(set_superblock(v, k, v.superblock[k] - a.diff_usage),
       LAMBDA x : set_block_group_descriptor(x, k, a.group,
                                             x.descriptor[k][a.group] - a.diff_usage))

(* Variant of handle_evicted: the descriptor keeps its count.              *)
handle_evicted_superblock_only(v, k, a) ==
  LET w == write_dirty(v, k, a)
  IN set_superblock(w, k, w.superblock[k] - a.diff_usage)

(* handle_evicted_block_bitmap_cache and its twin for inodes.              *)
handle_evicted(v, k, a) == AddDiff(write_dirty(v, k, a), k, a)

(* Where a cache has the allocator of a group.                             *)
CachedAt(cached, g) == {i \in DOMAIN cached : cached[i].group = g}

(* get_block_allocator_for_group and its twin: the allocator of the group  *)
(* becomes the most recently used of the cache; it is read from the disk   *)
(* when it is not there, and the one it displaces is written back.         *)
allocator_for_group(v, k, g) ==
  LET cached == v.cache[k]
      hit == CachedAt(cached, g)
      i == Min(hit)
      n == Len(cached)
      read_all == new(g, v.bitmap[k][g])
  IN IF g \notin Groups
     THEN Fail(v, "DriverError")
     ELSE IF hit # {}
     THEN [v EXCEPT !.cache[k] = <<cached[i]>> \o RemoveAt(cached, i)]
     ELSE IF n < CacheSize
     THEN [v EXCEPT !.cache[k] = <<read_all>> \o cached]
     ELSE handle_evicted([v EXCEPT !.cache[k] = <<read_all>> \o RemoveAt(cached, n)], k, cached[n])

get_block_allocator_for_group(v, g) == allocator_for_group(v, "block", g)
get_inode_allocator_for_group(v, g) == allocator_for_group(v, "inode", g)

(* alloc_block_any and alloc_inode_any: the groups in order, until one has *)
(* a free bit.                                                             *)
TryGroup(v, k, g) ==
  IF v.err # "OutOfSpace" THEN v
  ELSE Then(allocator_for_group([v EXCEPT !.err = "Ok"], k, g), LAMBDA w : alloc(w, k))

alloc_any(v, k) ==
  LET tried[n \in 0 .. GroupCount] ==
        IF n = 0 THEN Fail(v, "OutOfSpace") ELSE TryGroup(tried[n - 1], k, n - 1)
  IN tried[GroupCount]

alloc_block_any(v) == alloc_any(v, "block")
alloc_inode_any(v) == alloc_any(v, "inode")

(* BlockDevice::flush of the volume: every cached allocator, the blocks    *)
(* first, is taken out of its cache and written back.                      *)
FlushNext(v, k) ==
  Then(v, LAMBDA x : handle_evicted([x EXCEPT !.cache[k] = Tail(@)], k, Head(x.cache[k])))

FlushKind(v, k) ==
  LET flushed[n \in 0 .. Len(v.cache[k])] ==
        IF n = 0 THEN v ELSE FlushNext(flushed[n - 1], k)
  IN flushed[Len(v.cache[k])]

volume_flush(v) == Then(FlushKind(v, "block"), LAMBDA w : FlushKind(w, "inode"))

----------------------------------------------------------------------------
(* The bits in force: those of the cached allocator, else those on disk.   *)
Bits(v, k, g) ==
  LET hit == CachedAt(v.cache[k], g)
  IN IF hit = {} THEN v.bitmap[k][g] ELSE v.cache[k][Min(hit)].bits

Pending(v, k, g) ==
  LET hit == CachedAt(v.cache[k], g)
  IN IF hit = {} THEN 0 ELSE v.cache[k][Min(hit)].diff_usage

(* The numbers of a group that are in use.                                 *)
InUse(v, k) == UNION {{First(k, g) + b : b \in Bits(v, k, g)} : g \in Groups}

(* The sum over all groups.                                                *)
GroupSum(f) ==
  LET upto[n \in 0 .. GroupCount] == IF n = 0 THEN 0 ELSE upto[n - 1] + f[n - 1]
  IN upto[GroupCount]

(* A freshly made volume: `used' are the numbers in use, and the bits past *)
(* the end of the last group are set.                                      *)
Bitmaps(used) ==
  LET on_disk(k, g) ==
        {b \in 0 .. PerGroup[k] - 1 :
           \/ First(k, g) + b \in used[k]
           \/ k = "block" /\ First(k, g) + b >= Past(k, g)
           \/ k = "inode" /\ First(k, g) + b > Total[k]}
      free(k, g) == PerGroup[k] - Cardinality(on_disk(k, g))
  IN [bitmap |-> [k \in Kinds |-> [g \in Groups |-> on_disk(k, g)]],
      superblock |-> [k \in Kinds |-> GroupSum([g \in Groups |-> free(k, g)])],
      descriptor |-> [k \in Kinds |-> [g \in Groups |-> free(k, g)]],
      cache |-> [k \in Kinds |-> <<>>],
      err |-> "Ok", ret |-> 0]

(* The counters of the superblock and of the descriptors, corrected by     *)
(* what the cached allocators have not yet told them, are the numbers of   *)
(* free bits.                                                              *)
Counted(v, k) ==
  LET free(g) == PerGroup[k] - Cardinality(Bits(v, k, g))
  IN /\ \A g \in Groups : v.descriptor[k][g] - Pending(v, k, g) = free(g)
     /\ v.superblock[k] - GroupSum([g \in Groups |-> Pending(v, k, g)])
          = GroupSum([g \in Groups |-> free(g)])

(* A clean allocator agrees with the disk and owes the counters nothing.   *)
CleanIsWritten(v, k) ==
  \A i \in 1 .. Len(v.cache[k]) :
    LET a == v.cache[k][i]
    IN ~a.dirty => a.bits = v.bitmap[k][a.group] /\ a.diff_usage = 0
===============================================================================
