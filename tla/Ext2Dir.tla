-------------------------------- MODULE Ext2Dir ---------------------------------
(***************************************************************************)
(* Directories of an ext2 volume: DirectoryIterator and Directory of       *)
(* ext2/file.rs, the inodes behind their entries (ext2/mod.rs, with the    *)
(* inode bitmaps of Ext2Alloc) and File::create, delete0 and mkdir0 of     *)
(* data/file.rs, which look a path up and act on what they find in one     *)
(* step, as no lock is given up that another thread could take.            *)
(*                                                                         *)
(* A directory is the sequence of the records of its block, in the order   *)
(* of their offsets; it is empty before its first block.  Lengths count    *)
(* units of four bytes, to which names are padded.  Where blocks come from *)
(* is told in Ext2File: here they are counted.                             *)
(*                                                                         *)
(* `beyond' names what happened, if anything, after which the code's       *)
(* behaviour is undefined or depends on the build; the model stops.        *)
(*   second_block   a directory outgrew its block, and next reads past it  *)
(*   links          a links_count went below zero: the debug build panics, *)
(*                  in the release build it wraps                          *)
(*   half_made      a new directory has no block for "." and "..", and is  *)
(*                  taken for empty once it holds two files                *)
(***************************************************************************)
EXTENDS Ext2Alloc

CONSTANTS
  Names,        \* the names given to files and directories
  NameUnits,    \* the padded length of every name, "." and ".." too
  TooLong,      \* the names of more than 255 characters
  BlockUnits,   \* the length of a block
  FreeBlocks,   \* the blocks that are free at first
  Paths,        \* the paths that are used, sequences of names
  RootLinks     \* links_count of the root directory at first

HeaderUnits == 2
Root == 2
Inodes == 1 .. Total["inode"]

ASSUME Ext2DirAssumption ==
  /\ NameUnits \in [Names \cup {".", ".."} -> Nat \ {0}]
  /\ NameUnits["."] = 1 /\ NameUnits[".."] = 1
  /\ BlockUnits \in Nat /\ BlockUnits >= 2 * (HeaderUnits + 1)
  /\ \A n \in Names \ TooLong : HeaderUnits + NameUnits[n] <= BlockUnits
  /\ Paths \subseteq Seq(Names \cup {".", ".."})
  /\ FreeBlocks \in Nat /\ RootLinks \in Nat

VARIABLES
  vol,      \* the volume, with what the operations return
  lost,     \* history: the inodes that a failed create_child left behind
  behind    \* history: the root directory was changed behind root_dir_fs_data

vars == <<vol, lost, behind>>

Entry(i, name, n) == [inode |-> i, name |-> name, rec_len |-> n]
Dead(n) == Entry(0, "", n)
Intrinsic(name) == HeaderUnits + NameUnits[name]
Beyond(s, what) == [s EXCEPT !.beyond = @ \cup {what}, !.err = "Beyond"]

(* Directory::new: DirectoryIterator::next passes over records of inode 0, *)
(* and what is left of a record is its inode and its name.                 *)
entries(s, d) ==
  LET live == SelectSeq(s.dir[d], LAMBDA e : e.inode # 0)
  IN [k \in DOMAIN live |-> [inode |-> live[k].inode, name |-> live[k].name]]

----------------------------------------------------------------------------
(* Variant of Spare: the padding of the name is not counted.               *)
SpareUnpadded(e) == e.rec_len - HeaderUnits

(* entry_free_size: what a record has beyond its own name.                 *)
Spare(e) == e.rec_len - Intrinsic(e.name)

(* A record gives what it can spare to a new one behind it.                *)
SplitAt(recs, k, new_entry) ==
  InsertAt([recs EXCEPT ![k].rec_len = Intrinsic(recs[k].name)], k + 1, new_entry)

(* DirectoryIterator::insert_entry: the first record with room to spare is *)
(* split; else a new block holds the new record alone.                     *)
insert_entry(s, d, i, name) ==
  LET recs == s.dir[d]
      roomy == {k \in DOMAIN recs : recs[k].inode # 0 /\ Spare(recs[k]) >= Intrinsic(name)}
      k == Min(roomy)
  IN IF name \in TooLong THEN Err(s, "NameTooLong")
     ELSE IF roomy # {} THEN [s EXCEPT !.dir[d] = SplitAt(recs, k, Entry(i, name, Spare(recs[k])))]
     ELSE IF recs # <<>> THEN Beyond(s, "second_block")
     ELSE IF s.free_blocks = 0 THEN Err(s, "OutOfSpace")
     ELSE [s EXCEPT !.dir[d] = <<Entry(i, name, BlockUnits)>>, !.free_blocks = @ - 1]

(* The live record before takes the space of a deleted one.                *)
Coalesced(recs, j, k) ==
  RemoveAt([recs EXCEPT ![j].rec_len = @ + recs[k].rec_len], k)

(* Directory::delete_entry and DirectoryIterator::delete_entry: the first  *)
(* record with that inode.                                                 *)
delete_entry(s, d, i) ==
  LET recs == s.dir[d]
      hits == {k \in DOMAIN recs : recs[k].inode = i}
      k == Min(hits)
      before == {j \in 1 .. k - 1 : recs[j].inode # 0}
  IN IF hits = {} THEN Err(s, "EntryNotFound")
     ELSE [s EXCEPT !.dir[d] = IF before = {} THEN [recs EXCEPT ![k] = Dead(@.rec_len)]
                               ELSE Coalesced(recs, Max(before), k)]

----------------------------------------------------------------------------
(* links_count is unsigned.                                                *)
AddLinks(s, i, n) ==
  IF s.inode[i].links + n < 0 THEN Beyond(s, "links")
  ELSE [s EXCEPT !.inode[i].links = @ + n]

init_root_inode_cache(s) == [s EXCEPT !.root_dir = entries(s, Root)]

(* Variant of CountDirectory: directories are counted, not uncounted.      *)
CountNewDirectory(s, i, n) ==
  IF n < 0 THEN s ELSE [s EXCEPT !.directory_count[get_inode_group(i)] = @ + n]

CountDirectory(s, i, n) == [s EXCEPT !.directory_count[get_inode_group(i)] = @ + n]

allocate_inode(s, kind) ==
  Then(alloc_inode_any(s),
       LAMBDA x : [(IF kind = "Directory" THEN CountDirectory(x, x.ret, 1) ELSE x)
                     EXCEPT !.inode[x.ret] = [kind |-> kind, links |-> 0],
                            !.dir[x.ret] = <<>>])

add_inode_to_directory(s, d, i, name) ==
  Then(AddLinks(s, i, 1), LAMBDA x : insert_entry(x, d, i, name))

init_directory_inode(s, i, parent) ==
  Then(Then(Then(AddLinks(AddLinks(s, i, 1), parent, 1),
                 LAMBDA x : insert_entry(x, i, i, ".")),
            LAMBDA x : insert_entry(x, i, parent, "..")),
       LAMBDA x : [x EXCEPT !.ret = i])

dealloc_inode(s, i) ==
  LET x == [s EXCEPT !.dir[i] = <<>>,
                     !.free_blocks = @ + (IF s.dir[i] = <<>> THEN 0 ELSE 1)]
  IN Then(get_inode_allocator_for_group(x, get_inode_group(i)),
          LAMBDA y : dealloc_inode_bit(y, i))

(* delete_inode of what a lookup found, with the parent it was found in.   *)
(* The parent loses a link for every child, and one more for a directory.  *)
delete_inode(s, i, parent) ==
  LET is_dir == s.inode[i].kind = "Directory"
      left == s.inode[i].links - (IF ~is_dir THEN 1 ELSE IF parent = i THEN 3 ELSE 2)
      unlinked == Then(AddLinks(s, parent, -1), LAMBDA x : delete_entry(x, parent, i))
      counted(x) ==
        IF ~is_dir THEN x
        ELSE IF parent = i THEN CountDirectory(x, i, -1)
        ELSE AddLinks(CountDirectory(x, i, -1), parent, -1)
      finish(x) ==
        IF left < 0 THEN Beyond(x, "links")
        ELSE IF left = 0 THEN dealloc_inode([x EXCEPT !.inode[i].links = 0], i)
        ELSE [x EXCEPT !.inode[i].links = left]
  IN Then(Then(unlinked, counted), finish)

----------------------------------------------------------------------------
(* A VfsFile: the inode, the directory it was found in, and whether it is  *)
(* the root as get_root makes it, whose entries are those of the cache.    *)
(* The mount point itself belongs to the volume too, but is neither a      *)
(* directory nor a file of it.                                             *)
get_root == [inode |-> Root, parent |-> 0, root |-> TRUE, err |-> "Ok"]
mount_point == [inode |-> 0, parent |-> 0, root |-> FALSE, err |-> "Ok"]
Found(i, parent) == [inode |-> i, parent |-> parent, root |-> FALSE, err |-> "Ok"]

is_directory(s, f) == f # mount_point /\ s.inode[f.inode].kind = "Directory"

get_child(s, f, part) ==
  LET es == IF f.root THEN s.root_dir ELSE entries(s, f.inode)
      hits == {k \in DOMAIN es : es[k].name = part}
  IN IF ~is_directory(s, f) THEN Err(f, "NotDirectory")
     ELSE IF hits = {} THEN Err(f, "PathNotFound")
     ELSE Found(es[Min(hits)].inode, f.inode)

(* Paths start at the mount point: find_next goes on from the root of the  *)
(* volume, but the path without further parts names the mount point.       *)
get_file(s, path) ==
  LET walk[n \in 0 .. Len(path)] ==
        IF n = 0 THEN get_root ELSE Then(walk[n - 1], LAMBDA g : get_child(s, g, path[n]))
  IN IF path = <<>> THEN mount_point ELSE walk[Len(path)]

(* Variant of refresh_after_create: not after a directory is made.         *)
refresh_after_file(s, f, kind) ==
  IF f.root /\ kind = "File" THEN init_root_inode_cache(s) ELSE s

(* The cache of the root's entries is refreshed only for the directory     *)
(* that get_root made, known by its name.                                  *)
refresh_after_create(s, f, kind) == IF f.root THEN init_root_inode_cache(s) ELSE s

create_child(s, f, name, kind) ==
  LET named(x) == IF x.err = "Ok" THEN x ELSE [x EXCEPT !.lost = @ \cup {x.ret}]
      whole(x) == IF x.err = "OutOfSpace" THEN Beyond(x, "half_made") ELSE x
      add(x) == named(add_inode_to_directory(x, f.inode, x.ret, name))
      init(x) == IF kind = "File" THEN x ELSE whole(init_directory_inode(x, x.ret, f.inode))
      refresh(x) == [refresh_after_create(x, f, kind)
                       EXCEPT !.behind = IF f.inode = Root THEN ~f.root ELSE @]
  IN IF ~is_directory(s, f) THEN Err(s, "NotDirectory")
     ELSE Then(Then(Then(allocate_inode(s, kind), add), init), refresh)

(* Variant of refresh_after_delete: the cache is kept.                     *)
refresh_not_after_delete(s, f) == s

refresh_after_delete(s, f) == IF f.parent = Root THEN init_root_inode_cache(s) ELSE s

delete_file(s, f) ==
  IF f = mount_point THEN Err(s, "FileSystemMismatch")
  ELSE IF is_directory(s, f) /\ Len(entries(s, f.inode)) > 2 THEN Err(s, "DirectoryNotEmpty")
  ELSE Then(delete_inode(s, f.inode, f.parent),
            LAMBDA x : [refresh_after_delete(x, f)
                          EXCEPT !.behind = IF f.parent = Root THEN FALSE ELSE @])

----------------------------------------------------------------------------
(* mkdir0, one part of the path at a time: a part that is not found is     *)
(* made.                                                                   *)
MkdirPart(m, part) ==
  LET f == get_child(m.s, m.at, part)
      made(x) == [s |-> x, at |-> Found(x.ret, m.at.inode)]
  IN IF m.s.err # "Ok" THEN m
     ELSE IF f.err = "Ok" THEN [m EXCEPT !.at = f]
     ELSE IF f.err # "PathNotFound" THEN [m EXCEPT !.s = Err(m.s, f.err)]
     ELSE made(create_child(m.s, m.at, part, "Directory"))

mkdir0(s, path) ==
  LET made[n \in 0 .. Len(path)] ==
        IF n = 0 THEN [s |-> s, at |-> get_root] ELSE MkdirPart(made[n - 1], path[n])
  IN made[Len(path)].s

(* File::create, without the fopen at its end.  Whether the name exists is *)
(* not looked up.  In the mount point it makes nothing: files get into the *)
(* root directory through paths such as "." only.                          *)
create(s, path, name) ==
  LET f == get_file(s, path)
  IN IF f.err # "Ok" THEN Err(s, f.err) ELSE create_child(s, f, name, "File")

delete0(s, path) ==
  LET f == get_file(s, path)
  IN IF f.err # "Ok" THEN Err(s, f.err) ELSE delete_file(s, f)

----------------------------------------------------------------------------
(* A new volume: the root directory is empty, inode 1 is reserved.         *)
EmptyRoot == <<Entry(Root, ".", Intrinsic(".")), Entry(Root, "..", BlockUnits - Intrinsic("."))>>

Init ==
  /\ vol = Both([inode |-> [i \in Inodes |->
                              IF i = Root THEN [kind |-> "Directory", links |-> RootLinks]
                              ELSE [kind |-> "File", links |-> 0]],
                 dir |-> [i \in Inodes |-> IF i = Root THEN EmptyRoot ELSE <<>>],
                 directory_count |-> [g \in Groups |-> IF g = get_inode_group(Root) THEN 1 ELSE 0],
                 free_blocks |-> FreeBlocks,
                 root_dir |-> <<[inode |-> Root, name |-> "."], [inode |-> Root, name |-> ".."]>>,
                 beyond |-> {}],
                Bitmaps([block |-> {}, inode |-> {1, Root}]))
  /\ lost = {}
  /\ behind = FALSE

Session == Both(vol, [lost |-> lost, behind |-> behind])

Commit(s) ==
  /\ vol' = [k \in DOMAIN vol |-> CASE k = "err" -> "Ok" [] k = "ret" -> 0 [] OTHER -> s[k]]
  /\ lost' = s.lost
  /\ behind' = s.behind

Create(path, name) == vol.beyond = {} /\ Commit(create(Session, path, name))
Mkdir(path) == vol.beyond = {} /\ Commit(mkdir0(Session, path))
Delete(path) == vol.beyond = {} /\ Commit(delete0(Session, path))
Stopped == vol.beyond # {} /\ UNCHANGED vars

Next ==
  \/ \E path \in Paths, name \in Names : Create(path, name)
  \/ \E path \in Paths : Mkdir(path) \/ Delete(path)
  \/ Stopped

Spec == Init /\ [][Next]_vars

----------------------------------------------------------------------------
Used(v) == InUse(v, "inode") \cap Inodes
Directories(v) == {i \in Used(v) : v.inode[i].kind = "Directory"}
Pairs(v, d) == Range(entries(v, d))
Named(v) ==
  UNION {{<<d, e>> : e \in {x \in Pairs(v, d) : x.name \notin {".", ".."}}} :
           d \in Directories(v)}

(* Where each record of a directory ends, as DirectoryIterator::next goes  *)
(* from one to the next.                                                   *)
Ends(recs) ==
  LET at[k \in 0 .. Len(recs)] == IF k = 0 THEN 0 ELSE at[k - 1] + recs[k].rec_len
  IN at

(* The records of a directory tile its block, and every one has room for   *)
(* its name, however insert_entry splits and delete_entry coalesces them.  *)
Tiled ==
  \A d \in Directories(vol) :
    LET recs == vol.dir[d]
    IN recs # <<>> =>
         /\ Ends(recs)[Len(recs)] = BlockUnits
         /\ \A k \in DOMAIN recs : recs[k].inode # 0 => Spare(recs[k]) >= 0

(* An inode is in use exactly while one entry of one directory names it,   *)
(* or a failed create_child has lost it; a directory's "." and ".." name   *)
(* itself and the directory that holds it; directory_count and the counts  *)
(* of free inodes are those of the bitmaps.                                *)
InodesAccounted ==
  vol.beyond = {} =>
    /\ Used(vol) = {1, Root} \cup lost \cup {x[2].inode : x \in Named(vol)}
    /\ \A x, y \in Named(vol) : x[2].inode = y[2].inode => x = y
    /\ \A x \in Named(vol) : x[2].inode \in Directories(vol) =>
         {[inode |-> x[2].inode, name |-> "."], [inode |-> x[1], name |-> ".."]}
           \subseteq Pairs(vol, x[2].inode)
    /\ \A g \in Groups : vol.directory_count[g] =
         Cardinality({i \in Directories(vol) : get_inode_group(i) = g})
    /\ Counted(vol, "inode")

(* The cached entries of the root directory are on the disk, so that no    *)
(* lookup finds an inode that was freed; and they are all of its entries,  *)
(* unless the last change was a creation through another path to the root. *)
RootCacheSound ==
  vol.beyond = {} =>
    /\ Range(vol.root_dir) \subseteq Pairs(vol, Root)
    /\ ~behind => vol.root_dir = entries(vol, Root)

(* What create makes is found under its path; where the directory had      *)
(* entries of that name, which create does not ask, the path leads to the  *)
(* new one or to one of those.  What delete0 deletes is free and no longer *)
(* found under its path.  All this whatever the root's cache holds.        *)
NamesFollow ==
  vol.beyond = {} =>
    /\ \A path \in Paths, name \in Names :
         LET s == create(Session, path, name)
             found == get_file(s, Append(path, name))
             earlier == {e \in Pairs(vol, get_file(vol, path).inode) : e.name = name}
         IN s.err = "Ok" => /\ found.err = "Ok"
                            /\ found.inode \in {s.ret} \cup {e.inode : e \in earlier}
    /\ \A path \in Paths :
         LET s == delete0(Session, path)
         IN s.err = "Ok" => /\ get_file(vol, path).inode \notin Used(s)
                            /\ get_file(s, path) # get_file(vol, path)
===============================================================================
