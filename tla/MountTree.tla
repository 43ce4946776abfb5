------------------------------- MODULE MountTree -------------------------------
(***************************************************************************)
(* Mounting: MountingPointsManager and Vfs::mount, unmount and the path    *)
(* lookup of drivers/vfs.rs.  A path is the sequence of the parts that     *)
(* PathSplitter yields.  A file system is known by the id that mount gives *)
(* it.  The tree holds weak references, fs_by_id the strong ones, so a     *)
(* file system is alive while it is in fs_by_id.                           *)
(* Every operation runs under the lock of the Vfs and is one step.         *)
(***************************************************************************)
EXTENDS Integers, Sequences, FiniteSets

CONSTANTS
  Names,      \* the parts of paths
  MaxDepth,   \* a bound on the length of a path
  MaxId       \* a bound on the ids that are given out

ASSUME MountAssumption == MaxDepth \in Nat /\ MaxId \in Nat

VARIABLES
  nodes,         \* the nodes of the tree, by path; <<>> is its root
  contents,      \* the mounted file system of a node, or None
  fs_by_id,      \* the ids of the file systems that are kept alive
  os_id_count,
  result         \* history: the outcome of the last operation

vars == <<nodes, contents, fs_by_id, os_id_count, result>>

None == 0
Paths == UNION {[1 .. n -> Names] : n \in 0 .. MaxDepth}
Prefix(path, k) == SubSeq(path, 1, k)
Prefixes(path) == {Prefix(path, k) : k \in 0 .. Len(path)}
Parent(path) == SubSeq(path, 1, Len(path) - 1)
Children(n) == {c \in nodes : c # <<>> /\ Parent(c) = n}
Content(n) == IF n \in DOMAIN contents THEN contents[n] ELSE None
Mounted == DOMAIN contents

Init ==
  /\ nodes = {<<>>}
  /\ contents = [n \in {} |-> None]
  /\ fs_by_id = {}
  /\ os_id_count = 1
  /\ result = "Ok"

-------------------------------------------------------------------------------
(* The proper prefixes of a path at which register_fs finds a file system. *)
Covering(path) == {k \in 0 .. Len(path) - 1 : Prefix(path, k) \in Mounted}

(* Variant of Occupied: a node above other mounts is taken.                *)
OccupiedSelf(path) == Content(path) # None
Occupied(path) == Children(path) # {} \/ Content(path) # None

(* MountingPointsManager::register_fs: the nodes that exist when its walk  *)
(* ends, at the first mounted prefix or at the path itself, and whether it *)
(* refuses.                                                                *)
Walked(path) ==
  IF Covering(path) = {} THEN nodes \cup Prefixes(path)
  ELSE LET stop == CHOOSE k \in Covering(path) : \A j \in Covering(path) : k <= j
       IN  nodes \cup Prefixes(Prefix(path, stop))
Refused(path) == Covering(path) # {} \/ Occupied(path)

(* Vfs::mount, with the outcome of the driver's on_mount.  The id and the  *)
(* entry in fs_by_id come first and stay whatever fails after them.        *)
Mount(path, on_mount) ==
  LET id == os_id_count + 1 IN
  /\ id <= MaxId
  /\ os_id_count' = id
  /\ fs_by_id' = fs_by_id \cup {id}
  /\ nodes' = Walked(path)
  /\ \/ /\ Refused(path)
        /\ result' = "AlreadyMounted"
        /\ UNCHANGED contents
     \/ /\ ~Refused(path)
        /\ contents' = [n \in Mounted \cup {path} |-> IF n = path THEN id ELSE contents[n]]
        /\ result' = IF on_mount THEN "Ok" ELSE "DriverError"

(* Variant of Pruned: only the node itself goes.                           *)
PrunedSelf(path) == IF path = <<>> \/ Children(path) # {} THEN nodes ELSE nodes \ {path}

(* MountingPointsManager::remove_fs_recursive, on its way back up: the     *)
(* path's nodes that have neither children nor contents any more.          *)
Pruned(path) ==
  nodes \ {n \in Prefixes(path) \ {<<>>} :
             /\ \A c \in nodes : n \in Prefixes(c) => c \in Prefixes(path)
             /\ \A c \in Mounted \ {path} : n \notin Prefixes(c)}

(* Variant of Unmount: fs_by_id is cleared when the driver fails, and the  *)
(* tree is left alone.                                                     *)
UnmountIdFirst(path, driver) ==
  /\ path \in nodes /\ Content(path) # None
  /\ fs_by_id' = fs_by_id \ {Content(path)}
  /\ result' = IF driver THEN "Ok" ELSE "DriverError"
  /\ nodes' = IF driver THEN Pruned(path) ELSE nodes
  /\ contents' = IF driver THEN [n \in Mounted \ {path} |-> contents[n]] ELSE contents
  /\ UNCHANGED os_id_count

(* Vfs::unmount.  The tree forgets the file system first; when the driver  *)
(* fails to flush or to close, the entry in fs_by_id stays.  The id is the *)
(* driver's os_id(): ext2, devfs and pipefs set it in on_mount before      *)
(* anything can fail there, so that it is the one in the tree.             *)
Unmount(path, driver) ==
  \/ /\ path \notin nodes \/ Content(path) = None
     /\ result' = "PathNotFound"
     /\ UNCHANGED <<nodes, contents, fs_by_id, os_id_count>>
  \/ /\ path \in nodes /\ Content(path) # None
     /\ nodes' = Pruned(path)
     /\ contents' = [n \in Mounted \ {path} |-> contents[n]]
     /\ IF Content(path) \notin fs_by_id
        THEN result' = "UnknownError" /\ UNCHANGED fs_by_id
        ELSE IF driver THEN result' = "Ok" /\ fs_by_id' = fs_by_id \ {Content(path)}
        ELSE result' = "DriverError" /\ UNCHANGED fs_by_id
     /\ UNCHANGED os_id_count

Next ==
  \E path \in Paths, driver \in BOOLEAN : Mount(path, driver) \/ Unmount(path, driver)

Spec == Init /\ [][Next]_vars

-------------------------------------------------------------------------------
(* How far down its path a lookup finds nodes.                             *)
Reach(path) ==
  CHOOSE k \in 0 .. Len(path) :
    /\ Prefix(path, k) \in nodes
    /\ k = Len(path) \/ Prefix(path, k + 1) \notin nodes
    /\ \A j \in 0 .. k : Prefix(path, j) \in nodes

(* MountingPointsManager::search_fs.                                       *)
search_fs(path) == Content(Prefix(path, Reach(path)))

(* Vfs::get_child of a directory of the tree: a directory, a mount point,  *)
(* or nothing.                                                             *)
get_child(n, part) ==
  LET c == Append(n, part) IN
  [kind |-> IF c \notin nodes THEN "PathNotFound" ELSE IF c \in Mounted THEN "MountPoint"
            ELSE "Directory",
   fs   |-> IF c \in nodes THEN Content(c) ELSE None]

(* Vfs::get_file, by PathTraverse::find_next: the way ends at the first    *)
(* mount point, whose file system gets the rest of the path, or where      *)
(* there is no child; else the path is a directory of the tree.            *)
get_file(path) ==
  LET step(k) == get_child(Prefix(path, k - 1), path[k])
      ends == {k \in 1 .. Len(path) : step(k).kind # "Directory"}
  IN  IF ends = {} THEN [kind |-> "Directory", fs |-> None]
      ELSE step(CHOOSE k \in ends : \A j \in ends : k <= j)

-------------------------------------------------------------------------------
(* The leaves of the tree are the mount points, in whatever order file     *)
(* systems come and go: none is mounted below another or on a directory    *)
(* that others are mounted in, and neither a refused mount nor an unmount  *)
(* leaves a directory under which nothing is mounted.                      *)
TreeShape ==
  /\ Mounted \subseteq nodes
  /\ \A n \in nodes : Prefixes(n) \subseteq nodes
  /\ \A n \in Mounted : Children(n) = {}
  /\ \A n \in nodes : n # <<>> /\ Children(n) = {} => n \in Mounted

(* Upgrading a weak reference of the tree never fails: every mounted file  *)
(* system is kept alive by fs_by_id, and no two mounts share an id.        *)
MountsAlive ==
  /\ \A n \in Mounted : contents[n] \in fs_by_id
  /\ \A n, k \in Mounted : contents[n] = contents[k] => n = k

(* The lookup along mount points and the lookup of the mounting manager    *)
(* give a path to the same file system, the only one mounted on its way;   *)
(* only search_fs sees a file system mounted at the root itself.           *)
LookupsAgree ==
  \A path \in Paths :
    LET over == {k \in 0 .. Len(path) : Prefix(path, k) \in Mounted} IN
    /\ Cardinality(over) <= 1
    /\ search_fs(path) = IF over = {} THEN None ELSE Content(Prefix(path, CHOOSE k \in over : TRUE))
    /\ over \ {0} # {} => get_file(path) = [kind |-> "MountPoint", fs |-> search_fs(path)]
    /\ over = {} => get_file(path).fs = None

-------------------------------------------------------------------------------
(* The inductive invariant behind them: an id in the tree is one that was  *)
(* given out, and the root is always there.                                *)
TypeOK ==
  /\ <<>> \in nodes /\ nodes \subseteq Paths
  /\ os_id_count \in Nat
  /\ contents \in [Mounted -> 1 .. os_id_count]

IInv == TypeOK /\ TreeShape /\ MountsAlive
===============================================================================
