------------------------------- MODULE Ext2File --------------------------------
(***************************************************************************)
(* Files of an ext2 volume: FileHandle of ext2/file.rs and the operations  *)
(* on handles of the FileSystem in ext2/mod.rs, over Ext2Inode.            *)
(*                                                                         *)
(* Every operation runs under the volume's lock and is one step.  Sizes    *)
(* and positions count words.  A file is known by its inode; its name and  *)
(* its directory are those of Ext2Dir.                                     *)
(*                                                                         *)
(* `beyond' names what happened, if anything, after which the code no      *)
(* longer keeps its own structures: the model claims nothing from there    *)
(* on, and stops.                                                          *)
(*   stale_table    a new indirect block still holds words of its past     *)
(*   misplaced      a dirty block was written over another block           *)
(*   dropped        a dirty block was forgotten                            *)
(*   partial        an allocation failed after it had taken blocks         *)
(*   free_failed    a block could not be given back                        *)
(*   shared         a file was opened twice, or deleted while open         *)
(*   panic          a slice is longer than the buffer                      *)
(***************************************************************************)
EXTENDS Ext2Inode

CONSTANTS
  Handles,        \* the handles, a bound on how many are open
  Reserved,       \* the blocks and inodes that mkfs put to use, by kind
  MaxSize,        \* a bound on the size of a file
  Buffers(_),     \* the buffers that are written at a position
  Positions,      \* the positions that are sought
  ReadSizes,      \* the lengths of the buffers that are read into
  OpenModes,      \* the modes files are opened with
  Leftovers       \* what uninitialised memory may hold

VARIABLES
  vol,      \* the volume: its blocks, inodes, bitmaps, counters and allocator caches
  handle,   \* the data of every handle
  file,     \* history: what was written to every file
  beyond    \* history: why nothing more is claimed

vars == <<vol, handle, file, beyond>>

Closed == [open |-> FALSE]
NoInfo == [block |-> -1, size |-> 0, dirty |-> FALSE]
Blocks == 0 .. Total["block"] - 1
Inodes == 1 .. Total["inode"]

(* FileHandle::new.  `home' is history: the block the cache was taken from.*)
new_handle(i, inode, mode, rest) ==
  [open |-> TRUE, loc |-> new_location(i, inode, rest), mode |-> mode, offset |-> 0,
   size |-> inode.size, cache |-> Words(0), info |-> NoInfo, home |-> -1]

(* A session: a handle at work on the volume.                              *)
Session(v, h) ==
  [vol |-> v, loc |-> h.loc, mode |-> h.mode, offset |-> h.offset, size |-> h.size,
   cache |-> h.cache, info |-> h.info, home |-> h.home,
   err |-> "Ok", ret |-> 0, group |-> 0, beyond |-> {}, got |-> <<>>, done |-> FALSE]

HandleOf(s) ==
  [open |-> TRUE, loc |-> s.loc, mode |-> s.mode, offset |-> s.offset, size |-> s.size,
   cache |-> s.cache, info |-> s.info, home |-> s.home]

Beyond(s, what) == [s EXCEPT !.beyond = @ \cup {what}]

----------------------------------------------------------------------------
(* FileHandle::flush: the dirty cache goes to the block at the current     *)
(* location, wherever it was taken from.                                   *)
WriteCache(s) ==
  LET moved == current_block_idx(s.loc.location) # s.home
      x == [write_block_at(s, get_next_block(s.loc), s.cache) EXCEPT !.info.dirty = FALSE]
  IN IF moved THEN Beyond(x, "misplaced") ELSE x

flush(s) ==
  Then(location_flush(s), LAMBDA x : IF x.info.dirty THEN WriteCache(x) ELSE x)

internal_update_buffer(s) ==
  LET b == get_next_block(s.loc)
      here == current_block_idx(s.loc.location)
      x == IF s.info.dirty THEN Beyond(s, "dropped") ELSE s
  IN IF InBounds(b)
     THEN [x EXCEPT !.cache = s.vol.block[b], !.home = here,
                    !.info = [block |-> here, size |-> WordsInBlock(s.loc), dirty |-> FALSE]]
     ELSE Err([x EXCEPT !.info = NoInfo], "OutOfBounds")

(* FileHandle::seek, with the position that fseek_helper has computed.     *)
seek(s, p) ==
  IF p > s.size THEN Err(s, "InvalidSeekPosition")
  ELSE Then(location_seek([s EXCEPT !.offset = p], p \div TableSize), internal_update_buffer)

(* FileHandle::truncate and FileHandle::grow after their loops.            *)
SetSize(s, new_size, p) ==
  LET x == update_inode([s EXCEPT !.size = new_size, !.loc.inode.size = new_size])
  IN Then(flush(x), LAMBDA y : seek([y EXCEPT !.info = NoInfo], p))

(* Their loops, over n blocks.                                             *)
FreeBlocks(s, n) ==
  LET freed[i \in 0 .. Turns(n)] ==
        IF i = 0 THEN s ELSE Then(freed[i - 1], free_last_block)
  IN freed[Turns(n)]

AllocateBlocks(s, n) ==
  LET made[i \in 0 .. Turns(n)] ==
        IF i = 0 THEN s ELSE Then(made[i - 1], allocate_new_block)
  IN made[Turns(n)]

truncate(s, new_size) ==
  LET n == DivCeil(new_size, TableSize)
      finish(x) == IF x.err = "Ok" THEN SetSize(x, new_size, new_size)
                   ELSE Beyond(x, "free_failed")
  IN IF new_size > s.size THEN Err(s, "InvalidArgument")
     ELSE finish(FreeBlocks(s, s.loc.max_block_exclusive - n))

grow(s, new_size) ==
  LET n == DivCeil(new_size, TableSize)
      intact(x) == InUse(x.vol, "block") = InUse(s.vol, "block")
                   /\ x.loc.location = s.loc.location
      finish(x) == IF x.err = "Ok" THEN SetSize(x, new_size, s.offset)
                   ELSE IF intact(x) THEN x ELSE Beyond(x, "partial")
  IN IF new_size < s.size THEN Err(s, "InvalidArgument")
     ELSE finish(AllocateBlocks(s, n - s.loc.max_block_exclusive))

----------------------------------------------------------------------------
(* FileHandle::read.  The size of the first block bounds the copies from   *)
(* the next ones as well.                                                  *)
Loaded(s) == IF s.info.block = -1 THEN internal_update_buffer(s) ELSE s

Column(s) == s.offset % TableSize

(* Variant of InCache: the cache is taken for the block at the position.   *)
in_cache_always(s) == TRUE

InCache(s) == s.offset \div TableSize = s.info.block

TakeWords(s, n) ==
  [s EXCEPT !.offset = @ + n, !.got = @ \o [i \in 1 .. n |-> s.cache[Column(s) + i - 1]]]

ReadNext(s, max, first_size) ==
  LET take(y) == TakeWords(y, Least(max - Len(y.got), first_size))
      next(x) == IF x.ret = 0 THEN [x EXCEPT !.done = TRUE]
                 ELSE Then(internal_update_buffer(x), take)
  IN IF Len(s.got) >= max \/ s.done THEN s ELSE Then(location_advance(s), next)

ReadBlocks(s, max, first_size) ==
  LET done[i \in 0 .. Turns(max)] ==
        IF i = 0 THEN s
        ELSE Then(done[i - 1], LAMBDA x : ReadNext(x, max, first_size))
  IN done[Turns(max)]

read(s, n) ==
  LET max == Least(n, s.size - s.offset)
      here(x) == IF InCache(x) THEN TakeWords(x, Least(max, TableSize - Column(x))) ELSE x
      rest(x) == ReadBlocks(here(x), max, x.info.size)
  IN Then(Then(flush(s), Loaded), rest)

(* FileHandle::write of the buffer `buf'; s.ret counts what is written.    *)
(* A block that is overwritten as a whole is not read first, and the cache *)
(* info keeps the number of the block before.                              *)
PutWords(s, n, buf) ==
  LET from == Column(s)
  IN [s EXCEPT !.offset = @ + n, !.ret = @ + n, !.info.dirty = TRUE,
               !.cache = [i \in Slots |-> IF i \in from .. from + n - 1
                                          THEN buf[s.ret + i - from + 1] ELSE @[i]]]

WriteNext(s, max, first_size, buf) ==
  LET n == Least(max - s.ret, first_size)
      load(y) == IF n # TableSize THEN internal_update_buffer(y)
                 ELSE [y EXCEPT !.home = current_block_idx(y.loc.location)]
      next(x) == IF x.ret = 0 THEN [x EXCEPT !.ret = s.ret, !.done = TRUE]
                 ELSE Then(load(x), LAMBDA y : PutWords([y EXCEPT !.ret = s.ret], n, buf))
  IN IF s.ret >= max \/ s.done THEN s ELSE Then(Then(flush(s), location_advance), next)

WriteBlocks(s, max, first_size, buf) ==
  LET done[i \in 0 .. Turns(max)] ==
        IF i = 0 THEN s
        ELSE Then(done[i - 1], LAMBDA x : WriteNext(x, max, first_size, buf))
  IN done[Turns(max)]

write(s, buf) ==
  LET max == Least(Len(buf), DivCeil(s.size, TableSize) * TableSize - s.offset)
      here(x) == LET y == [x EXCEPT !.ret = 0]
                 IN IF InCache(x) THEN PutWords(y, Least(max, TableSize - Column(x)), buf) ELSE y
      rest(x) == WriteBlocks(here(x), max, x.info.size, buf)
      resize(x) ==
        LET new_size == s.offset + x.ret
        IN IF new_size <= x.size THEN x
           ELSE update_inode([x EXCEPT !.size = new_size, !.loc.inode.size = new_size])
  IN Then(Then(Then(flush(s), Loaded), rest), resize)

(* fwrite of Ext2Volume: without NO_RESIZE the file is made long enough    *)
(* first; with it the buffer is cut to the rest of the file, which it must *)
(* not be shorter than.                                                    *)
fwrite(s, buf) ==
  LET end == s.offset + Len(buf)
      rest == s.size - s.offset
  IN IF "NO_RESIZE" \in s.mode
     THEN IF Len(buf) < rest THEN Beyond(s, "panic") ELSE write(s, SubSeq(buf, 1, rest))
     ELSE Then(IF end > s.size THEN grow(s, end) ELSE s, LAMBDA x : write(x, buf))

----------------------------------------------------------------------------
(* The words of a file after the words `put' at position p.                *)
Overwritten(words, p, put) ==
  SubSeq(words, 1, p) \o put \o SubSeq(words, p + Len(put) + 1, Len(words))

OpenOn(i) == {h \in Handles : handle[h].open /\ handle[h].loc.inode_i = i}

Init ==
  /\ vol = Both([block |-> [b \in Blocks |-> Words(0)],
                 inode |-> [i \in Inodes |-> empty_inode]], Bitmaps(Reserved))
  /\ handle = [h \in Handles |-> Closed]
  /\ file = [i \in {} |-> <<>>]
  /\ beyond = {}

(* The handle and the volume after a session.                              *)
Commit(h, s) ==
  /\ vol' = s.vol
  /\ handle' = [handle EXCEPT ![h] = HandleOf(s)]
  /\ beyond' = beyond \cup s.beyond

(* allocate_inode, as create_child calls it.                               *)
Created(v) ==
  /\ vol' = IF v.err = "Ok"
            THEN [v EXCEPT !.inode[v.ret] = empty_inode, !.ret = 0]
            ELSE [v EXCEPT !.err = "Ok", !.ret = 0]
  /\ file' = IF v.err = "Ok" THEN Both([i \in {v.ret} |-> <<>>], file) ELSE file

Create ==
  /\ beyond = {}
  /\ Created(alloc_inode_any(vol))
  /\ UNCHANGED <<handle, beyond>>

(* Variant of dealloc_inode: the inode's bit stays set.                    *)
dealloc_blocks_only(s) == Then(truncate(s, 0), flush)

(* dealloc_inode: the blocks, then the inode's bit.                        *)
dealloc_inode(s) ==
  LET i == s.loc.inode_i
      bit(x) == Vol(x, get_inode_allocator_for_group(x.vol, get_inode_group(i)))
  IN Then(Then(Then(truncate(s, 0), flush), bit),
          LAMBDA x : Vol(x, dealloc_inode_bit(x.vol, i)))

Deleted(i, s) ==
  /\ vol' = s.vol
  /\ file' = [j \in DOMAIN file \ {i} |-> file[j]]
  /\ beyond' = s.beyond \cup (IF OpenOn(i) = {} THEN {} ELSE {"shared"})

Delete(i, rest) ==
  /\ beyond = {}
  /\ i \in DOMAIN file
  /\ Deleted(i, dealloc_inode(Session(vol, new_handle(i, vol.inode[i], {"READ", "WRITE"}, rest))))
  /\ UNCHANGED handle

(* fopen of a file that was looked up in the same call, as File::open      *)
(* does: the handle starts from the inode on disk.  The code clones the    *)
(* inode of the VfsFile, which is older where the caller kept the VfsFile, *)
(* as DirectoryEntry::open may; that is not modelled.                      *)
fopen(h, i, mode, rest) ==
  /\ beyond = {}
  /\ ~handle[h].open
  /\ i \in DOMAIN file
  /\ handle' = [handle EXCEPT ![h] = new_handle(i, vol.inode[i], mode, rest)]
  /\ beyond' = IF OpenOn(i) = {} THEN {} ELSE {"shared"}
  /\ UNCHANGED <<vol, file>>

fclose(h) ==
  LET s == flush(Session(vol, handle[h]))
  IN /\ beyond = {}
     /\ handle[h].open
     /\ vol' = s.vol
     /\ handle' = [handle EXCEPT ![h] = IF s.err = "Ok" THEN Closed ELSE HandleOf(s)]
     /\ beyond' = s.beyond
     /\ UNCHANGED file

fseek(h, p) ==
  /\ beyond = {}
  /\ handle[h].open
  /\ Commit(h, seek(Session(vol, handle[h]), p))
  /\ UNCHANGED file

fread(h, n) ==
  /\ beyond = {}
  /\ handle[h].open
  /\ "READ" \in handle[h].mode
  /\ Commit(h, read(Session(vol, handle[h]), n))
  /\ UNCHANGED file

Written(h, buf, s) ==
  /\ Commit(h, s)
  /\ file' = IF s.err # "Ok" THEN file
             ELSE [file EXCEPT ![s.loc.inode_i] =
                     Overwritten(@, handle[h].offset, SubSeq(buf, 1, s.ret))]

Write(h, buf) ==
  /\ beyond = {}
  /\ handle[h].open
  /\ "WRITE" \in handle[h].mode
  /\ handle[h].offset + Len(buf) <= MaxSize
  /\ Written(h, buf, fwrite(Session(vol, handle[h]), buf))

ftruncate(h) ==
  /\ beyond = {}
  /\ handle[h].open
  /\ "WRITE" \in handle[h].mode /\ "NO_RESIZE" \notin handle[h].mode
  /\ Commit(h, truncate(Session(vol, handle[h]), handle[h].offset))
  /\ file' = [file EXCEPT ![handle[h].loc.inode_i] = SubSeq(@, 1, handle'[h].size)]

fflush(h) ==
  /\ beyond = {}
  /\ handle[h].open
  /\ "WRITE" \in handle[h].mode
  /\ Commit(h, flush(Session(vol, handle[h])))
  /\ UNCHANGED file

(* fs_flush, on_unmount and the volume's drop.                             *)
fs_flush ==
  /\ beyond = {}
  /\ vol' = volume_flush(vol)
  /\ UNCHANGED <<handle, file, beyond>>

(* Nothing is claimed of a volume that is beyond its design.               *)
Stopped == beyond # {} /\ UNCHANGED vars

Next ==
  \/ Create
  \/ \E i \in Inodes, rest \in Leftovers : Delete(i, rest)
  \/ \E h \in Handles, i \in Inodes, m \in OpenModes, rest \in Leftovers : fopen(h, i, m, rest)
  \/ \E h \in Handles : fclose(h) \/ ftruncate(h) \/ fflush(h)
  \/ \E h \in Handles, p \in Positions : fseek(h, p)
  \/ \E h \in Handles, n \in ReadSizes : fread(h, n)
  \/ \E h \in Handles : handle[h].open /\ \E buf \in Buffers(handle[h].offset) : Write(h, buf)
  \/ fs_flush
  \/ Stopped

Spec == Init /\ [][Next]_vars

----------------------------------------------------------------------------
(* What an inode reaches, with Tab(b) the words of table b: pairs of a     *)
(* place in the tree and the block there.                                  *)
Reached(inode, Tab(_)) ==
  LET live(S) == {x \in S : x[2] # 0}
      direct == {<<<<0, i>>, inode.direct[i]>> : i \in DOMAIN inode.direct}
      roots == live({<<<<l>>, inode.indirect[l]>> : l \in Levels})
      below(S) == live({<<Append(x[1], i), Tab(x[2])[i]>> : x \in S, i \in Slots})
      deeper(S, n) == {x \in S : x[1][1] > n}
      one == below(roots)
      two == below(deeper(one, 1))
  IN live(direct) \cup roots \cup one \cup two \cup below(deeper(two, 2))

(* The tables and the inode that count: those of the open handle, if any.  *)
TableIn(loc, b) ==
  LET cached == {n \in Levels : loc.table[n].addr = b}
  IN IF cached = {} THEN vol.block[b] ELSE loc.table[Min(cached)].words

Owned(i) ==
  IF OpenOn(i) = {}
  THEN Reached(vol.inode[i], LAMBDA b : vol.block[b])
  ELSE LET loc == handle[CHOOSE h \in OpenOn(i) : TRUE].loc
       IN Reached(loc.inode, LAMBDA b : TableIn(loc, b))

(* Block idx of a file, as a plain walk through the tables finds it.       *)
BlockAt(inode, idx, Tab(_)) ==
  LET l == location(idx)
      p == l.path
      root == inode.indirect[l.level]
  IN CASE l.level = 0 -> inode.direct[p[1]]
       [] l.level = 1 -> Tab(root)[p[1]]
       [] l.level = 2 -> Tab(Tab(root)[p[1]])[p[2]]
       [] l.level = 3 -> Tab(Tab(Tab(root)[p[1]])[p[2]])[p[3]]

OnDisk(i, p, word) ==
  LET b == BlockAt(vol.inode[i], p \div TableSize, LAMBDA n : vol.block[n])
  IN b # 0 /\ vol.block[b][p % TableSize] = word

(* Every block in use but those of mkfs is reached from exactly one place  *)
(* of one file, through the pointers and tables that its open handle, or   *)
(* the disk, holds: allocate_new_block and free_last_block neither lose a  *)
(* block nor hand one out twice, over all levels and both groups.          *)
BlocksOwnedOnce ==
  beyond = {} =>
    LET owned == UNION {{<<i, x>> : x \in Owned(i)} : i \in DOMAIN file}
        blocks == {y[2][2] : y \in owned}
    IN /\ Cardinality(blocks) = Cardinality(owned)
       /\ blocks = {b \in InUse(vol, "block") : b \in Blocks} \ Reserved["block"]

(* An inode is marked in use exactly while it is the one of a file, across *)
(* evictions of the inode allocators.                                      *)
InodesExact ==
  beyond = {} =>
    InUse(vol, "inode") \cap Inodes = DOMAIN file \cup Reserved["inode"]

(* The free counts of the superblock and of every descriptor, with the     *)
(* diff_usage of the cached allocators, are those of the bitmaps, and an   *)
(* allocator that is not dirty can be dropped: the counts survive any      *)
(* sequence of allocations, evictions and flushes.  This is claimed where  *)
(* the number of groups is no power of 3, 5 or 7: get_backup_groups names  *)
(* a group too many there, and set_superblock fails between two counts.    *)
CountersExact == \A k \in Kinds : Counted(vol, k) /\ CleanIsWritten(vol, k)

(* fread returns what fwrite last put at the position, as much as it is    *)
(* asked for or the file holds, through the cache, from the next blocks,   *)
(* and behind a write that is still in the cache.                          *)
ReadsBack ==
  [][\A h \in Handles, n \in ReadSizes :
       fread(h, n) /\ beyond' = {} =>
         LET s == read(Session(vol, handle[h]), n)
             words == file[s.loc.inode_i]
             p == handle[h].offset
         IN s.err = "Ok" => s.got = SubSeq(words, p + 1, Least(p + n, Len(words)))]_vars

(* A file that no handle is open on lies on disk with its size and its     *)
(* contents: fclose and ftruncate have written back the tables, the inode  *)
(* and the cached block.                                                   *)
ClosedIsOnDisk ==
  beyond = {} =>
    \A i \in {j \in DOMAIN file : OpenOn(j) = {}} :
      /\ vol.inode[i].size = Len(file[i])
      /\ \A p \in 0 .. Len(file[i]) - 1 :
           OnDisk(i, p, file[i][p + 1])

(* The location of an open handle is one that InodeReadingLocation::new    *)
(* makes, a block of the file at it is the one that a plain walk finds,    *)
(* and a table in use that is not dirty is the one on disk: seek, advance, *)
(* allocate_new_block and free_last_block keep the caches in step.  And    *)
(* new, current_block_idx and advance agree on the blocks from there to    *)
(* the last that three levels of tables can hold.                          *)
HandleInStep ==
  beyond = {} =>
    \A h \in {g \in Handles : handle[g].open} :
      LET loc == handle[h].loc
          idx == current_block_idx(loc.location)
          last == DirectPointers + TableSize + TableSize ^ 2 + TableSize ^ 3 - 1
      IN /\ loc.location = location(idx)
         /\ idx < loc.max_block_exclusive =>
              get_next_block(loc) = BlockAt(loc.inode, idx, LAMBDA b : TableIn(loc, b))
         /\ \A n \in 1 .. loc.location.level :
              loc.table[n].addr # 0 /\ ~loc.table[n].dirty =>
                loc.table[n].words = vol.block[loc.table[n].addr]
         /\ \A i \in idx .. last :
              /\ current_block_idx(location(i)) = i
              /\ IF IsLast(location(i)) THEN i = last ELSE advance(location(i)) = location(i + 1)
===============================================================================
