-------------------------------- MODULE PataDisk -------------------------------
(***************************************************************************)
(* A drive, its partitions and the files of /dev that name them: the       *)
(* driver of drivers/disk/pata.rs, data/partition and the hooks and calls  *)
(* of drivers/fs/virt/devfs.rs.                                            *)
(*                                                                         *)
(* The four drives of the controller do not share state: one is modelled.  *)
(* The file Whole is the drive, file i >= 0 its i-th partition.  A sector  *)
(* has Words words.  TableOf says which partition table the first sectors  *)
(* of a disk hold.  Every call runs to its end with interrupts off.        *)
(***************************************************************************)
EXTENDS Integers, Sequences, FiniteSets

CONSTANTS
  Sectors,        \* sector_count of the drive
  Words,          \* the words of a sector
  TableOf(_),     \* the partition table on a disk: [scheme, entries]
  FirstDisk,      \* what the disk holds at boot
  Handles,        \* the handles that may be open at a time
  OpenModes,      \* the modes that programs ask for
  Buffers(_),     \* what programs write through a handle
  ReadSizes,      \* the sizes of the buffers they read into
  Seeks,          \* the positions they seek to
  PataIndex,      \* the index of the PATA controller in DevFs::devices
  Failing,        \* the sectors whose transfer may time out
  MaxGeneration   \* bound on the calls of fsync

Whole == -1
NoSector == -1
Disk == 0 .. Sectors - 1

ASSUME PataAssumption ==
  /\ Sectors \in Nat \ {0} /\ Words \in Nat \ {0}
  /\ PataIndex \in Nat /\ MaxGeneration \in Nat
  /\ ReadSizes \subseteq Nat /\ Seeks \subseteq Int
  /\ Failing \subseteq Disk
  /\ FirstDisk \in [Disk -> Seq(Int)]
  /\ \A s \in Disk : Len(FirstDisk[s]) = Words

VARIABLES
  disk,         \* the words of every sector
  controller,   \* PataController: generation and partition_manager
  hooks,        \* DevFs::hooks: the generation of every file of the drive
  handle,       \* the data of every open handle
  last,         \* the last call, the words it read and how it ended
  panicked      \* a subtraction overflowed in a build that checks for it

vars == <<disk, controller, hooks, handle, last, panicked>>

Least(a, b) == IF a <= b THEN a ELSE b

----------------------------------------------------------------------------
(* PartitionManager.                                                       *)

(* GUIDPartitionTableEntry::as_device_range: last_lba is inclusive.        *)
as_device_range(e) == [start |-> e.first_lba, end |-> e.last_lba + 1]

(* MBRPartition::is_null.  os_type stands for all the fields besides the   *)
(* two numbers, in the tests of which it takes part.                       *)
is_null(e) == e.os_type = 0 /\ e.start_lba = 0 /\ e.sector_count = 0

(* get_partitions of a table: an MBR has four entries, of which null ones  *)
(* do not count.                                                           *)
get_partitions(table) ==
  CASE table.scheme = "None" -> <<>>
    [] table.scheme = "MBR" ->
         LET used == SelectSeq(table.entries, LAMBDA e : ~is_null(e))
         IN [i \in 1 .. Len(used) |->
               [start |-> used[i].start_lba, end |-> used[i].start_lba + used[i].sector_count]]
    [] table.scheme = "GPT" -> [i \in 1 .. Len(table.entries) |-> as_device_range(table.entries[i])]

NoTable == [scheme |-> "None", entries |-> <<>>]

(* PartitionManager::new: a generation that no controller has.             *)
NewManager == [table |-> NoTable, generation |-> -1]

(* reload_partitions.  A disk that cannot be read has no partitions.       *)
reload_partitions(g, readable) ==
  [table |-> IF readable THEN TableOf(disk) ELSE NoTable, generation |-> g]

Parts(c) == get_partitions(c.manager.table)

get_range == [start |-> 0, end |-> Sectors]

HasRange(c, f) == f = Whole \/ f + 1 \in DOMAIN Parts(c)
RangeOf(c, f) == IF f = Whole THEN get_range ELSE Parts(c)[f + 1]
InRange(s, r) == r.start <= s /\ s < r.end

----------------------------------------------------------------------------
(* refresh_device_hooks of a drive that is present: its controller and the *)
(* hooks afterwards.  Outdated partitions lose their hooks; the new ones   *)
(* and the drive get theirs.                                               *)

(* Variant of RemoveHooks: the hooks of the old partitions stay.           *)
RemoveNoHooks(names, n) == names

RemoveHooks(names, n) == names \ (0 .. n - 1)

Refreshed(c, h, readable) ==
  LET g == c.generation
      outdated == c.manager.generation # g
      manager == IF outdated THEN reload_partitions(g, readable) ELSE c.manager
      kept == IF outdated THEN RemoveHooks(DOMAIN h, Len(Parts(c))) ELSE DOMAIN h
      added == {Whole} \cup (IF outdated THEN 0 .. Len(get_partitions(manager.table)) - 1 ELSE {})
  IN [controller |-> [c EXCEPT !.manager = manager],
      hooks |-> [f \in kept \cup added |-> IF f \in added THEN g ELSE h[f]]]

(* The device_id of a hook: for a partition it is the partition's number.  *)
device_id(f) == IF f = Whole THEN PataIndex ELSE f

Closed == [file |-> "closed"]
Opened == {h \in Handles : handle[h] # Closed}
IsOpen(h) == ~panicked /\ h \in Opened
Called(op, h, e) == [op |-> op, handle |-> h, err |-> e, data |-> <<>>]

(* DevFs::register_driver at boot, after the driver identified the drive.  *)
Init ==
  LET new == [generation |-> 0, manager |-> NewManager]
      NoHooks == [f \in {} |-> 0]
  IN /\ disk = FirstDisk
     /\ controller = Refreshed(new, NoHooks, TRUE).controller
     /\ hooks = Refreshed(new, NoHooks, TRUE).hooks
     /\ handle = [h \in Handles |-> Closed]
     /\ last = [op |-> "boot", err |-> "Ok"]
     /\ panicked = FALSE

----------------------------------------------------------------------------
(* fopen.  The handle's generation is the one of the hook.                 *)
Fopen(h, f, mode) ==
  /\ ~panicked /\ handle[h] = Closed
  /\ f \in DOMAIN hooks
  /\ LET e == IF ~HasRange(controller, f) THEN "PathNotFound"
              ELSE IF "APPEND" \in mode THEN "InvalidOpenMode" ELSE "Ok"
     IN /\ last' = Called("fopen", h, e)
        /\ handle' = IF e # "Ok" THEN handle
             ELSE [handle EXCEPT ![h] =
                     [file |-> f, mode |-> mode, position |-> 0, last_sector |-> NoSector,
                      cache |-> [i \in 1 .. Words |-> 0], generation |-> hooks[f],
                      range |-> RangeOf(controller, f), stale |-> FALSE]]
  /\ UNCHANGED <<disk, controller, hooks, panicked>>

Fclose(h) ==
  /\ IsOpen(h)
  /\ handle' = [handle EXCEPT ![h] = Closed]
  /\ last' = Called("fclose", h, "Ok")
  /\ UNCHANGED <<disk, controller, hooks, panicked>>

(* fseek_helper, from wherever the seek counts, and fseek, which bounds    *)
(* the position by the size of the drive, also for a partition.            *)
fseek_helper(p, len) == 0 <= p /\ p <= len

Fseek(h, p) ==
  /\ IsOpen(h)
  /\ fseek_helper(p, Sectors * Words)
  /\ handle' = [handle EXCEPT ![h].position = p]
  /\ last' = Called("fseek", h, "Ok")
  /\ UNCHANGED <<disk, controller, hooks, panicked>>

(* fflush checks the generation and does nothing more; ftruncate fails.    *)
Current(h) == handle[h].generation = controller.generation

Fflush(h) ==
  /\ IsOpen(h)
  /\ \/ last' = Called("fflush", h, IF Current(h) THEN "Ok" ELSE "BadHandle")
     \/ last' = Called("ftruncate", h, "ActionNotAllowed")
  /\ UNCHANGED <<disk, controller, hooks, handle, panicked>>

(* DevFs::fsync: the driver moves the generation of the drive and of this  *)
(* handle on, then the hooks of the device that the hook names are         *)
(* refreshed, if that device is the controller.                            *)
NextGeneration(c) == [c EXCEPT !.generation = @ + 1]

Fsync(h, readable) ==
  /\ IsOpen(h)
  /\ IF ~Current(h)
     THEN /\ last' = Called("fsync", h, "BadHandle")
          /\ UNCHANGED <<controller, hooks, handle>>
     ELSE LET moved == NextGeneration(controller)
              refresh == Refreshed(moved, hooks, readable)
          IN /\ controller.generation < MaxGeneration
             /\ handle' = [handle EXCEPT ![h].generation = moved.generation]
             /\ IF device_id(handle[h].file) = PataIndex
                THEN /\ controller' = refresh.controller
                     /\ hooks' = refresh.hooks
                     /\ last' = Called("fsync", h, "Ok")
                ELSE /\ controller' = moved
                     /\ hooks' = hooks
                     /\ last' = Called("fsync", h, "ActionNotAllowed")
  /\ UNCHANGED <<disk, panicked>>

----------------------------------------------------------------------------
(* fread and fwrite move sector by sector through the handle's cache.  `s' *)
(* is a call under way: the handle, the disk, the words still to move and  *)
(* those read.  `fault' is the transfer that times out during the call.    *)
Sector(d) == (d.position \div Words) + d.range.start
Offset(d) == d.position % Words
Piece(s) == Least(Words - Offset(s.d), s.left)
Ended(s) == s.left = 0 \/ s.err # "Ok"
Fails(fault, way, sector) == fault = <<way, sector>> \/ sector \notin Disk

Moved(s, n) ==
  [s EXCEPT !.d.position = @ + n, !.left = @ - n, !.data = SubSeq(@, n + 1, Len(@))]

ReadTurn(s, fault) ==
  LET sector == Sector(s.d)
      load == s.d.last_sector # sector
      d == IF load THEN [s.d EXCEPT !.cache = s.disk[sector], !.last_sector = sector, !.stale = FALSE]
           ELSE s.d
      piece == SubSeq(d.cache, Offset(d) + 1, Offset(d) + Piece(s))
  IN IF Ended(s) THEN s
     ELSE IF load /\ Fails(fault, "read", sector) THEN [s EXCEPT !.err = "DriverError"]
     ELSE Moved([s EXCEPT !.d = d, !.out = @ \o piece], Piece(s))

(* Variant of Caches: the sector's number is not recorded.                 *)
CachesUnnamed(d, sector, words) == [d EXCEPT !.cache = words]

Caches(d, sector, words) == [d EXCEPT !.cache = words, !.last_sector = sector, !.stale = FALSE]

(* A part of a sector is merged with what the disk holds there.  The cache *)
(* has the new words before the drive took them.                           *)
WriteTurn(s, fault) ==
  LET sector == Sector(s.d)
      n == Piece(s)
      base == IF n # Words THEN s.disk[sector] ELSE s.d.cache
      words == [i \in 1 .. Words |->
                  IF i \in Offset(s.d) + 1 .. Offset(s.d) + n THEN s.data[i - Offset(s.d)] ELSE base[i]]
      d == Caches(s.d, sector, words)
  IN IF Ended(s) THEN s
     ELSE IF n # Words /\ Fails(fault, "read", sector) THEN [s EXCEPT !.err = "DriverError"]
     ELSE IF Fails(fault, "write", sector)
     THEN [s EXCEPT !.d = [d EXCEPT !.stale = TRUE], !.err = "DriverError"]
     ELSE Moved([s EXCEPT !.d = d, !.disk[sector] = words], n)

(* The words of the file from the position on.  Past the end of a          *)
(* partition the subtraction wraps, or panics where overflow is checked.   *)
Size(d) == (d.range.end - d.range.start) * Words
PastEnd(d) == d.position > Size(d)
Allowed(d, n) == IF PastEnd(d) THEN n ELSE Least(n, Size(d) - d.position)

Begin(h, n, data) ==
  [d |-> handle[h], disk |-> disk, left |-> Allowed(handle[h], n), data |-> data,
   out |-> <<>>, err |-> "Ok"]

(* The loops, with as many turns as moving n words can take.               *)
ReadLoop(s, n, fault) ==
  LET after[k \in 0 .. n] == IF k = 0 THEN s ELSE ReadTurn(after[k - 1], fault)
  IN after[n]
WriteLoop(s, n, fault) ==
  LET after[k \in 0 .. n] == IF k = 0 THEN s ELSE WriteTurn(after[k - 1], fault)
  IN after[n]

Faults == {<<"none", 0>>} \cup ({"read", "write"} \X Failing)

Fread(h, n, fault) ==
  /\ IsOpen(h)
  /\ IF "READ" \notin handle[h].mode
     THEN last' = Called("fread", h, "ActionNotAllowed") /\ UNCHANGED handle
     ELSE LET s == ReadLoop(Begin(h, n, <<>>), n, fault)
          IN /\ handle' = [handle EXCEPT ![h] = s.d]
             /\ last' = [op |-> "fread", handle |-> h, err |-> s.err, data |-> s.out]
  /\ UNCHANGED <<disk, controller, hooks, panicked>>

(* Variant of MayWrite: the generation is not checked.                     *)
MayWriteAlways(h) == IF "READ" \notin handle[h].mode THEN "ActionNotAllowed" ELSE "Ok"

(* fwrite asks for OPEN_MODE_READ, and for a handle no fsync outdated.     *)
MayWrite(h) ==
  IF "READ" \notin handle[h].mode THEN "ActionNotAllowed"
  ELSE IF ~Current(h) THEN "BadHandle" ELSE "Ok"

(* The other handles do not see what this one writes to their sector.      *)
Outdated(g, h, new) ==
  IF g = h \/ g \notin Opened THEN handle[g]
  ELSE [handle[g] EXCEPT !.stale = @ \/ (handle[g].last_sector \in Disk
                                         /\ new[handle[g].last_sector] # disk[handle[g].last_sector])]

Fwrite(h, data, fault) ==
  /\ IsOpen(h)
  /\ IF MayWrite(h) # "Ok"
     THEN last' = Called("fwrite", h, MayWrite(h)) /\ UNCHANGED <<disk, handle>>
     ELSE LET s == WriteLoop(Begin(h, Len(data), data), Len(data), fault)
          IN /\ disk' = s.disk
             /\ handle' = [g \in Handles |-> IF g = h THEN s.d ELSE Outdated(g, h, s.disk)]
             /\ last' = Called("fwrite", h, s.err)
  /\ UNCHANGED <<controller, hooks, panicked>>

(* Where overflow is checked, fread and fwrite panic past the end instead. *)
Panic(h) ==
  /\ IsOpen(h)
  /\ "READ" \in handle[h].mode
  /\ PastEnd(handle[h])
  /\ panicked' = TRUE
  /\ last' = Called("panic", h, "Ok")
  /\ UNCHANGED <<disk, controller, hooks, handle>>

Next ==
  \E h \in Handles :
    \/ \E f \in DOMAIN hooks, m \in OpenModes : Fopen(h, f, m)
    \/ Fclose(h)
    \/ \E p \in Seeks : Fseek(h, p)
    \/ Fflush(h)
    \/ \E r \in BOOLEAN : Fsync(h, r)
    \/ \E n \in ReadSizes, fault \in Faults : Fread(h, n, fault)
    \/ \E fault \in Faults : \E b \in Buffers(handle[h]) : Fwrite(h, b, fault)
    \/ Panic(h)

Spec == Init /\ [][Next]_vars

----------------------------------------------------------------------------
(* The word of the disk that a handle's position names.                    *)
WordAt(dk, r, p) == dk[(p \div Words) + r.start][(p % Words) + 1]
Place(s, i) == s * Words + i - 1

(* What a step may do to the words of the disk.                            *)
WrittenInside ==
  \A s \in Disk, i \in 1 .. Words :
    disk'[s][i] # disk[s][i] =>
      LET h == last'.handle
          d == handle[h]
          from == d.range.start * Words + d.position
      IN /\ last'.op = "fwrite"
         /\ Place(s, i) \in from .. from + handle'[h].position - d.position - 1
         /\ \/ PastEnd(d)
            \/ /\ InRange(s, d.range)
               /\ \/ d.file = PataIndex
                  \/ HasRange(controller, d.file) /\ InRange(s, RangeOf(controller, d.file))

(* fwrite changes only the words that it moves the handle's position over, *)
(* also when the drive fails midway, and only words of the file's          *)
(* partition as the partition table was last read, also after another      *)
(* handle rewrote the table and called fsync.  Excepted from the latter is *)
(* a position that fseek put past the end of the partition, and the        *)
(* partition whose number is the controller's index: fsync on one of its   *)
(* handles reads the table again, and that handle goes on writing to the   *)
(* range it was opened with, whatever the new table says.                  *)
PartitionKept == [][WrittenInside]_vars

(* What a step may return from the disk.                                   *)
ReturnedAsStored ==
  last'.op = "fread" /\ last'.err = "Ok" =>
    LET d == handle[last'.handle]
    IN /\ ~d.stale => \A i \in 1 .. Len(last'.data) :
                         last'.data[i] = WordAt(disk, d.range, d.position + i - 1)
       /\ handle'[last'.handle].position = d.position + Len(last'.data)

(* A successful fread returns the words that the disk holds at the handle's *)
(* position, through the one-sector cache of the handle, unless another     *)
(* handle wrote that sector since the cache was filled or a write of this   *)
(* handle failed after it changed the cache.                                *)
ReadsDisk == [][ReturnedAsStored]_vars

(* DevFs lists the drive and exactly the partitions of the table that the  *)
(* partition manager last read, all with its generation, so that no file   *)
(* of a partition that is gone can be opened.                              *)
HooksExact ==
  /\ DOMAIN hooks = {Whole} \cup 0 .. Len(Parts(controller)) - 1
  /\ \A f \in DOMAIN hooks : hooks[f] = controller.manager.generation

(* Types: a sector is Words integers, a handle is closed or has the fields *)
(* of PataFsFileHandle.                                                    *)
Ranges == [start : Nat, end : Nat]
HandleData ==
  [file : Int, mode : OpenModes, position : Nat, last_sector : Int, cache : [1 .. Words -> Int],
   generation : Int, range : Ranges, stale : BOOLEAN]

TypeOK ==
  /\ disk \in [Disk -> [1 .. Words -> Int]]
  /\ controller \in [generation : Nat, manager : {controller.manager}]
  /\ controller.manager.generation \in Int
  /\ Parts(controller) \in Seq(Ranges)
  /\ handle \in [Handles -> HandleData \cup {Closed}]

(* A handle that no fsync outdated has the range that its file has in the  *)
(* partition table as it was last read, which no handle is ahead of; a     *)
(* partition with the controller's index for its number may have another.  *)
RangesCurrent ==
  /\ controller.manager.generation <= controller.generation
  /\ \A h \in Opened :
       /\ handle[h].generation <= controller.generation
       /\ Current(h) /\ handle[h].file # PataIndex =>
            /\ HasRange(controller, handle[h].file)
            /\ handle[h].range = RangeOf(controller, handle[h].file)

(* The cache of a handle is the sector it names, unless that was changed   *)
(* through another handle or a write failed after it changed the cache.    *)
CacheSound ==
  \A h \in Opened :
    ~handle[h].stale /\ handle[h].last_sector # NoSector =>
      /\ handle[h].last_sector \in Disk
      /\ handle[h].cache = disk[handle[h].last_sector]

(* The inductive invariant of the drive.                                   *)
IInv == TypeOK /\ HooksExact /\ RangesCurrent /\ CacheSound
===============================================================================
