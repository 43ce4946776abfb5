------------------------------- MODULE Ext2Inode -------------------------------
(***************************************************************************)
(* The tree of blocks of an ext2 inode: ext2/inode.rs.                     *)
(*                                                                         *)
(* A block is a sequence of TableSize words, table_size in the code, and   *)
(* so is a file's data: a word is zero, a block number, or data that is no *)
(* block number.  An inode has DirectPointers direct pointers (12 in the   *)
(* code) and the single, double and triple indirect ones.                  *)
(*                                                                         *)
(* The operators take a session s: the volume s.vol, whose record is the   *)
(* one of Ext2Alloc with the blocks `block' and the inode table `inode',   *)
(* and the CachedInodeReadingLocation s.loc.  s.err is the error that the  *)
(* call met so far: `?' is Then.                                           *)
(***************************************************************************)
EXTENDS Ext2Alloc

CONSTANTS
  TableSize,       \* words of a block
  DirectPointers,  \* direct pointers of an inode
  Junk             \* a word of data, taken for a block number out of bounds

ASSUME Ext2InodeAssumption ==
  /\ TableSize \in Nat \ {0}
  /\ DirectPointers \in Nat \ {0}
  /\ Junk > Total["block"] + PerGroup["block"]

Slots == 0 .. TableSize - 1
Words(w) == [i \in Slots |-> w]
Levels == 1 .. 3

DivCeil(a, b) == (a + b - 1) \div b

(* RawInode::empty.                                                        *)
empty_inode ==
  [direct |-> [i \in 0 .. DirectPointers - 1 |-> 0], indirect |-> [l \in Levels |-> 0],
   size |-> 0]

----------------------------------------------------------------------------
(* InodeReadingLocation: the level of indirection, 0 for a direct pointer, *)
(* and the index at each table on the way.                                 *)
At(level, path) == [level |-> level, path |-> path]

location(block_idx) ==
  LET T == TableSize
      i1 == block_idx - DirectPointers
      i2 == i1 - T
      i3 == i2 - T * T
  IN IF block_idx < DirectPointers THEN At(0, <<block_idx>>)
     ELSE IF i1 < T THEN At(1, <<i1>>)
     ELSE IF i2 < T * T THEN At(2, <<i2 \div T, i2 % T>>)
     ELSE At(3, <<i3 \div (T * T), (i3 % (T * T)) \div T, i3 % T>>)

current_block_idx(l) ==
  LET T == TableSize
      p == l.path
  IN CASE l.level = 0 -> p[1]
       [] l.level = 1 -> DirectPointers + p[1]
       [] l.level = 2 -> DirectPointers + T + p[1] * T + p[2]
       [] l.level = 3 -> DirectPointers + T + T * T + p[1] * T * T + p[2] * T + p[3]

(* The last block of a triple location has no successor.                   *)
IsLast(l) == l.level = 3 /\ \A n \in Levels : l.path[n] = TableSize - 1

advance(l) ==
  LET p == l.path
      end == TableSize - 1
  IN CASE l.level = 0 -> IF p[1] = DirectPointers - 1 THEN At(1, <<0>>) ELSE At(0, <<p[1] + 1>>)
       [] l.level = 1 -> IF p[1] = end THEN At(2, <<0, 0>>) ELSE At(1, <<p[1] + 1>>)
       [] l.level = 2 -> IF p = <<end, end>> THEN At(3, <<0, 0, 0>>)
                         ELSE IF p[2] = end THEN At(2, <<p[1] + 1, 0>>)
                         ELSE At(2, <<p[1], p[2] + 1>>)
       [] l.level = 3 -> IF p[2] = end /\ p[3] = end THEN At(3, <<p[1] + 1, 0, 0>>)
                         ELSE IF p[3] = end THEN At(3, <<p[1], p[2] + 1, 0>>)
                         ELSE At(3, <<p[1], p[2], p[3] + 1>>)

----------------------------------------------------------------------------
(* CachedInodeReadingLocation.  The tables of a new one are not cleared:   *)
(* `rest' is what their memory holds.                                      *)
new_location(inode_i, inode, rest) ==
  [inode_i |-> inode_i, inode |-> inode, inode_dirty |-> FALSE,
   location |-> location(0), max_block_exclusive |-> DivCeil(inode.size, TableSize),
   table |-> [n \in Levels |-> [addr |-> 0, dirty |-> FALSE, words |-> Words(rest)]]]

(* Ext2Volume::read_block fails out of bounds; a write there is refused by *)
(* the device.                                                             *)
InBounds(b) == b < Total["block"]
write_block_at(s, b, words) ==
  IF InBounds(b) THEN [s EXCEPT !.vol.block[b] = words] ELSE Err(s, "InvalidSeekPosition")
update_inode(s) == [s EXCEPT !.vol.inode[s.loc.inode_i] = s.loc.inode]

(* The table that each level must hold for the current location.  Level 3  *)
(* follows table 2 for a double location as well, which loads a block of   *)
(* data.                                                                   *)
WantedTable(loc, n) ==
  LET l == loc.location
  IN CASE n = 1 -> IF l.level = 0 THEN 0 ELSE loc.inode.indirect[l.level]
       [] n = 2 -> IF l.level < 2 THEN 0 ELSE loc.table[1].words[l.path[1]]
       [] n = 3 -> IF l.level < 2 THEN 0 ELSE loc.table[2].words[l.path[2]]

(* Variant of save_if_addresses_differ: a dirty table is not saved.        *)
save_nothing(s, n, addr) == s

save_if_addresses_differ(s, n, addr) ==
  LET t == s.loc.table[n]
  IN IF t.dirty /\ t.addr # 0 /\ t.addr # addr
     THEN Then(write_block_at(s, t.addr, t.words),
               LAMBDA x : [x EXCEPT !.loc.table[n].dirty = FALSE])
     ELSE s

(* check_table1, check_table2 and check_table3.                            *)
check_table(s, n) ==
  LET addr == WantedTable(s.loc, n)
      load(x) ==
        IF addr = 0 THEN [x EXCEPT !.loc.table[n].addr = 0]
        ELSE IF x.loc.table[n].addr = addr THEN x
        ELSE IF InBounds(addr)
        THEN [x EXCEPT !.loc.table[n].addr = addr, !.loc.table[n].words = x.vol.block[addr]]
        ELSE Err([x EXCEPT !.loc.table[n].addr = 0], "OutOfBounds")
  IN Then(save_if_addresses_differ(s, n, addr), load)

check_table1(s) == check_table(s, 1)
check_table2(s) == check_table(s, 2)
check_table3(s) == check_table(s, 3)

(* Variant of check_tables: the tables below the first are kept.           *)
check_first_table(s) == check_table1(s)

check_tables(s) == Then(Then(check_table1(s), check_table2), check_table3)

location_seek(s, block_idx) == check_tables([s EXCEPT !.loc.location = location(block_idx)])

get_next_block(loc) ==
  LET l == loc.location
  IN IF l.level = 0 THEN loc.inode.direct[l.path[1]]
     ELSE loc.table[l.level].words[l.path[l.level]]

(* The words of the current block that belong to the file.                 *)
WordsInBlock(loc) ==
  LET rest == loc.inode.size % TableSize
  IN IF current_block_idx(loc.location) < loc.max_block_exclusive - 1 \/ rest = 0
     THEN TableSize ELSE rest

location_advance(s) ==
  LET stay == current_block_idx(s.loc.location) >= s.loc.max_block_exclusive - 1
              \/ IsLast(s.loc.location)
  IN IF stay THEN [s EXCEPT !.ret = 0]
     ELSE [check_tables([s EXCEPT !.loc.location = advance(@)]) EXCEPT !.ret = 1]

----------------------------------------------------------------------------
(* A call of the bitmap allocator, whose outcome becomes the session's.    *)
Vol(s, v) == [s EXCEPT !.vol = [v EXCEPT !.err = "Ok", !.ret = 0], !.err = v.err, !.ret = v.ret]

(* free_last_block.  The allocator is the one of the data block's group;   *)
(* the tables that become empty are given back through the same one.       *)
Dealloc(s, b) == Vol(s, dealloc_block(s.vol, b))

ClearEntry(s, n) ==
  [s EXCEPT !.loc.table[n].words[s.loc.location.path[n]] = 0, !.loc.table[n].dirty = TRUE]

FreeTable1(s) ==
  LET l == s.loc.location
  IN IF l.path[1] # 0 THEN s
     ELSE Dealloc([s EXCEPT !.loc.inode.indirect[l.level] = 0, !.loc.inode_dirty = TRUE],
                  s.loc.table[1].addr)

FreeTable2(s) ==
  LET p == s.loc.location.path
  IN IF p[2] # 0 THEN s
     ELSE Then(Dealloc(s, s.loc.table[1].words[p[1]]), LAMBDA x : FreeTable1(ClearEntry(x, 1)))

FreeTable3(s) ==
  LET p == s.loc.location.path
  IN IF p[3] # 0 THEN s
     ELSE Then(Dealloc(s, s.loc.table[2].words[p[2]]), LAMBDA x : FreeTable2(ClearEntry(x, 2)))

(* Variant of ClearPointer: a table that becomes empty is kept.            *)
ClearPointerOnly(s) ==
  LET l == s.loc.location
  IN IF l.level = 0
     THEN [s EXCEPT !.loc.inode.direct[l.path[1]] = 0, !.loc.inode_dirty = TRUE]
     ELSE ClearEntry(s, l.level)

ClearPointer(s) ==
  LET l == s.loc.location
  IN CASE l.level = 0 -> [s EXCEPT !.loc.inode.direct[l.path[1]] = 0, !.loc.inode_dirty = TRUE]
       [] l.level = 1 -> FreeTable1(ClearEntry(s, 1))
       [] l.level = 2 -> FreeTable2(ClearEntry(s, 2))
       [] OTHER -> FreeTable3(ClearEntry(s, 3))

free_last_block(s) ==
  LET free(x) ==
        LET b == get_next_block(x.loc)
            y == Vol(x, get_block_allocator_for_group(x.vol, GroupOf(b)))
        IN Then(Then(Then(y, LAMBDA z : Dealloc(z, b)), ClearPointer),
                LAMBDA z : [z EXCEPT !.loc.max_block_exclusive = @ - 1])
  IN IF s.loc.max_block_exclusive = 0 THEN s
     ELSE Then(location_seek(s, s.loc.max_block_exclusive - 1), free)

(* balloc of allocate_new_block: a block of the preferred group s.group,   *)
(* else of any group, which is then preferred.                             *)
balloc(s) ==
  LET any(y) == IF y.err = "Ok" THEN y
                ELSE Then(Vol(y, alloc_block_any(y.vol)),
                          LAMBDA z : [z EXCEPT !.group = GroupOf(z.ret)])
  IN Then(Vol(s, get_block_allocator_for_group(s.vol, s.group)),
          LAMBDA x : any(Vol(x, alloc_block(x.vol))))

(* A new table is loaded as its block stands: words that an earlier owner  *)
(* left there are taken for pointers, which `beyond' records.              *)
LoadNewTable(s, n) ==
  Then(check_table(s, n),
       LAMBDA x : IF x.loc.table[n].words = Words(0) THEN x
                  ELSE [x EXCEPT !.beyond = @ \cup {"stale_table"}])

FillRoot(s) ==
  LET l == s.loc.location
  IN IF s.loc.inode.indirect[l.level] # 0 THEN s
     ELSE Then(balloc(s),
               LAMBDA x : LoadNewTable([x EXCEPT !.loc.inode.indirect[l.level] = x.ret,
                                                 !.loc.inode_dirty = TRUE], 1))

SetEntry(x, n, i) ==
  [x EXCEPT !.loc.table[n].words[i] = x.ret, !.loc.table[n].dirty = TRUE]

FillEntry(s, n) ==
  LET l == s.loc.location
      i == l.path[n]
      point(x) == SetEntry(x, n, i)
  IN IF s.loc.table[n].words[i] # 0 THEN s
     ELSE IF n < l.level
     THEN Then(balloc(s), LAMBDA x : LoadNewTable(point(x), n + 1))
     ELSE Then(balloc(s), point)

FillDirect(s) ==
  LET i == s.loc.location.path[1]
  IN IF s.loc.inode.direct[i] # 0 THEN s
     ELSE Then(balloc(s), LAMBDA x : [x EXCEPT !.loc.inode.direct[i] = x.ret,
                                               !.loc.inode_dirty = TRUE])

Fill(s) ==
  LET level == s.loc.location.level
  IN IF level = 0 THEN FillDirect(s)
     ELSE Then(Then(Then(FillRoot(s), LAMBDA x : FillEntry(x, 1)),
                    LAMBDA x : IF level < 2 THEN x ELSE FillEntry(x, 2)),
               LAMBDA x : IF level < 3 THEN x ELSE FillEntry(x, 3))

(* allocate_new_block: the location behind the last block is reached by    *)
(* advance alone, without loading its tables.                              *)
allocate_new_block(s) ==
  LET max == s.loc.max_block_exclusive
      step(x) == IF IsLast(x.loc.location) THEN Err(x, "MaximumSizeReached")
                 ELSE [x EXCEPT !.group = GroupOf(get_next_block(x.loc)),
                                !.loc.location = advance(@)]
      place == IF max = 0 THEN [location_seek(s, 0) EXCEPT !.group = 0]
               ELSE Then(location_seek(s, max - 1), step)
  IN Then(Then(place, Fill), LAMBDA x : [x EXCEPT !.loc.max_block_exclusive = @ + 1])

(* CachedInodeReadingLocation::flush: the tables, then the inode.          *)
FlushTable(s, n) ==
  LET t == s.loc.table[n]
  IN IF t.dirty /\ t.addr # 0
     THEN Then(write_block_at(s, t.addr, t.words),
               LAMBDA x : [x EXCEPT !.loc.table[n].dirty = FALSE])
     ELSE s

location_flush(s) ==
  Then(Then(Then(Then(s, LAMBDA x : FlushTable(x, 1)), LAMBDA x : FlushTable(x, 2)),
            LAMBDA x : FlushTable(x, 3)),
       LAMBDA x : IF x.loc.inode_dirty
                  THEN [update_inode(x) EXCEPT !.loc.inode_dirty = FALSE] ELSE x)
===============================================================================
