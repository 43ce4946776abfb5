# Campix in TLA+

Campix is an x86-64 kernel written in Rust (`src/src`, no standard library, one
core). Its repository has no tests and no documents beside the comments of the
code, so the code and those comments are the reference. This directory models the
parts whose correctness depends on the order of events, checks them with TLC on
small instances, and proves with TLAPS, for all sizes, the safety of the heap, the
scheduler, pipes, the file table, the mount tree, the disk driver, and the free counts
and directories of ext2.

`PROJECT.json` maps every definition to the lines it stands for and lists the
runs, the variants that each property must reject, the findings and the hazards.

## The system

| component | state | operations | interacts with |
| --- | --- | --- | --- |
| kernel heap (`memory/`) | free lists per order, order table, page counter | init, alloc, free | everything that allocates, interrupt handlers included |
| scheduler (`process/scheduler.rs`, `proc.rs`, `percpu.rs`) | process and thread maps, task queue, the core's `PerCpu` | create, schedule, exit, kill | entry code, page tables |
| kernel entry (`interrupts/`) | stack of interrupt sources, saved registers | timer, keyboard, page fault, int 0x80, `syscall` | scheduler, every system call |
| pipes (`drivers/fs/virt/pipefs.rs`) | map of pipes, ring buffers, counts of ends, handles | create, open, close, read, write, unmount | VFS, file table |
| file table (`process/io`, `syscall/linux/io.rs`) | slots, free numbers | pipe, open, close, read, write, lseek, mkdir | VFS, pipes |
| virtual file system (`drivers/vfs.rs`) | mount tree, file systems by id, handles | mount, unmount, lookup | every file system |
| ext2 (`drivers/fs/phys/ext2`) | bitmaps, inodes, block maps, directories, caches of each | open, read, write, seek, truncate, create, delete, flush | the file of a partition, VFS |
| disks and partitions (`drivers/disk`, `data/partition`, `devfs.rs`) | generations, hooks, handles with a cached sector | open, read, write, seek, sync | devfs, ext2 |
| page tables and process memory (`paging.rs`, `process/memory.rs`, `formats/elf.rs`) | four levels of tables, buffers of code and stacks | map, unmap, iterate, load, grow, exit, drop | heap, scheduler, page faults |
| log, keyboard, display, boot code | buffers and hardware registers | output, decoding, set-up | VFS, hardware |

What makes it hard. There is one core and kernel code runs with interrupts off,
so the interleavings are those of user programs, timer ticks and faults at every
user instruction, and of faults on the kernel's own stack in the middle of a
system call. State is kept by hand in several places at once (the queue and the
maps, a lock whose guard is forgotten, registers saved per core and copied to a
thread later, counts of pipe ends beside the handles themselves, a tree of weak
references beside the strong ones, bitmaps and block tables cached beside the disk,
a partition table cached beside the files that name its entries). Handles, blocks,
inodes and pages are numbers that are reused.

What makes each part correct. Heap: blocks are disjoint, none is lost, refusal
only when nothing fits. Scheduler: no thread is lost, queued twice, run after its
death or with another's registers or address space; every one gets its turn.
Pipes: first in, first out; the end of the stream is reported once, late enough
and for good. File table: numbers are conserved, a descriptor means the file it
was opened for. Mount tree: a path has one file system, which is alive. ext2: a
block belongs to one file, what is read is what was written, the counters are those
of the bitmaps, a directory's entries are its files. Disk: a handle stays within its
partition. Address spaces: a process reaches the pages it owns and no others, and
every page is free or owned once.

## Modules

| module | models |
| --- | --- |
| `PageAllocator` | what a page allocator promises |
| `BuddyAllocator` | `memory/buddy_alloc.rs`, `memory/mem.rs` |
| `Scheduler` | scheduler, thread life cycle, entry and exit of interrupts and system calls |
| `PipeQueue` | what pipes promise: bounded queues that hang up |
| `PipeFs` | `pipefs.rs` with the handle allocator of `vfs.rs` |
| `PipeStream` | `PipeFs` used by a writing and a reading program |
| `FileDescriptors` | the file table and its system calls, over `PipeFs` |
| `MountTree` | mounting, unmounting and path lookup of `vfs.rs` |
| `Ext2Alloc` | block and inode bitmaps, their allocators, caches and counters |
| `Ext2Inode` | block maps of inodes through three levels of tables, over `Ext2Alloc` |
| `Ext2File` | file handles and the file operations of ext2, over `Ext2Inode` |
| `Ext2Dir` | directories, links, creation and deletion along paths, over `Ext2Alloc` |
| `PataDisk` | the disk driver, partitions, and their files in devfs |
| `PageTable` | four levels of tables: map, unmap, iterate, drop |
| `AddressSpace` | the memory of processes from loading to exit, over `PageTable` |

An `MC` module of the same name gives the constants for TLC, a module with the suffix
`_proof` has the theorems. Definitions called
"Variant of X" are faulty forms of X; replacing X by one must break a property.

**BuddyAllocator.** `free_lists`, `orders` and `allocated_pages` are the fields of
the same names; addresses are page numbers relative to the region. A call is
begun by one action (`AllocBegin`, `FreeBegin`) and each iteration of its loops is
a step (`InitBlock`, `Split`, `Merge`, ...), with the locals in `cur`. The
intrusive lists are sequences. `BlockPages[o]` is `1 << o`, given as a function so
that the proofs need only its doubling law.

**Scheduler.** `processes`, `threads`, `task_queue` are the scheduler's maps and
queue, `percpu` the core's data, `cpu` the machine: its mode, user registers,
bases, CR3. Registers are abstracted to a context: whose, how far, and whether rbp
is intact. A handler is one step, except that a fast system call is entered, may
fault on the kernel stack, and then returns, yields or exits. One iteration of
`schedule` is one step. `mode` is "panic" where the code panics and "stuck" where
it spins with interrupts off.

**PipeFs.** Every method runs under the file system's lock and is one action. The
ring is modelled position by position, with the two copies of `read` and `write`.
A handle is an address from a small set, so that it can come back.
`RefinesQueue` maps a ring to the sequence of its bytes and the live handles to
the open ends. `ret` records the outcome with the bytes that were read, or that
the writer was told were accepted, so the refinement ties what is stored to what
was asked for.

**FileDescriptors.** A system call is one action on top of the `PipeFs` methods it
calls. A slot also records what its handle was opened for, which only the
properties read. `linux_sys_close` leaves the handle in the slot and never gives the number
back, as in the code.

**MountTree.** A node is named by its path, a path is the sequence of its parts.
`fs_by_id` holds the strong references. Every mount and unmount may meet a driver
that fails.

**Operators on a volume or a table.** In the four ext2 modules, `PageTable` and
`AddressSpace` a method of the code is an operator that takes a record (the volume,
the handle, the tables; with `err` and `ret` for its `Result`) and returns the record
it leaves; `Then` is Rust's `?`. An action applies one public operation, whole, to
the state. Where the code itself leaves what it can keep (a dirty block written to
the wrong place, an allocation that fails half way, an index past a buffer), the
model follows it into that state, records the reason in `beyond` and stops there; the
head of each module lists the reasons. The properties claim nothing of those
states except where they say so, and "Where the code falls short" below lists them.

**Ext2Alloc.** A bitmap is the set of its set bits. `cache[k]` is the cache of
allocators with the most recently used first; each has its bits, dirty flag and
`diff_usage`. `superblock` and `descriptor` are the free counts.

**Ext2Inode, Ext2File.** A location is the level and the path through the tables; a
handle has the cached tables of its levels with address and dirty flag, and one
cached block. Blocks hold words, and a table entry is a word, so a data block and a
table have the same size, as in ext2. `file` is history: what was written to a file.

**Ext2Dir.** A directory is the sequence of the records of its block, with lengths in
units of four bytes. `root_dir` is the cached copy of the root's entries. `lost` and
`behind` are history. Data blocks are counted, not named.

**PataDisk.** One drive, its partition table as a function of the first sector, the
hooks of `/dev` with their generations, and handles with range, position and one
cached sector. A transfer may time out at every sector of `Failing`. `panicked` is
the debug build's answer to the wrapped subtraction in `fread` and `fwrite`; the
release build goes on, and the model does both.

**PageTable, AddressSpace.** A table is a function from its entries; `Fan` entries
stand for 512, `Top` entries for the PML4's, so that the lower half, the shared part
of the higher half and the kernel stack's entry exist. `free` has the heap's pages
and the boot allocator's. The iterator of the code is one operator per turn, run at
most as often as there are addresses to visit.

## Runs

| run | instance | shows |
| --- | --- | --- |
| `buddy` | 6 pages, orders 0-2, requests of 0, 1, 2, 3, 5 | disjoint, complete, coalesced blocks; refines `PageAllocator`; calls return |
| `scheduler` | 2 processes, every kind of call but `set_gs`, the twin of `set_fs` | threads, locks, sources, bases and system-call contexts are safe; every queued thread runs again |
| `saved_context` | the same | the finding below |
| `pipes` | ring of 3 bytes, 3 handles, buffers of 0-2 | exact counts of ends; refines `PipeQueue` |
| `pipe_stream` | 5 bytes through a pipe of 2 | the message arrives whole, both programs end |
| `descriptors` | 2 pipes, 3 handles, 2 free slots | numbers conserved, slots stable under failing calls |
| `mount_tree` | paths of up to 3 parts over 2 names, 4 mounts | tree shape, live references, agreeing lookups |
| `ext2_file` | 1 file of up to 10 words, blocks of 2 words, 2 groups | reads return what was written, caches in step, closed files on disk |
| `ext2_files` | 2 files of up to 16 words, blocks of 2 words, all three levels, 2 groups of 9 blocks | no block lost or owned twice, inodes and free counts exact |
| `ext2_dir` | 3 names (one too long), 8 paths, 6 inodes in 2 groups | records tile, inodes match entries, lookups follow changes |
| `disk` | 3 sectors of 2 words, GPT, MBR and no table, 2 handles, 1 `fsync` | hooks match the table, writes stay in the partition, reads return the disk |
| `address_space` | 2 processes, 4 programs, heaps of 4, 15 and 36 pages | tables map what is owned, pages owned once, kernel half shared, buffers checked exactly |

Bounds. Six pages are no power of two: init lays out blocks of two orders and
skips one, blocks are split twice, and some blocks have no buddy in the region.
Two processes suffice for one to disturb the other's saved state; a third makes
the state space too large to finish (over 40 million states without an error,
unfinished) and is not claimed. A ring of three bytes has copies that end before, at and beyond the end of the buffer. Three
handles give one side two ends while the other has one. Two names and three parts
give siblings, ancestors and cousins. All bounds are constants of the modules:
`MaxPid`, `Steps`, `MaxUserPages`, `MaxKernelPages`, `Ids`, `Addresses`, `MaxDepth`,
`MaxId`, `MAX_FILES`, `MaxSize`, `MaxGeneration`, `MaxLoads`, `StackPages`.
Handle addresses are interchangeable, so `pipes` and `descriptors` use symmetry on them; both check safety only. `disk` and
`address_space`, safety only too, use symmetry on handles and processes.

The scheduler's user stacks have one page (`MaxUserPages`); their growth by faults is
checked in `address_space`. In `ext2_file` blocks of two words make blocks half full
at the end of a file, and its ten words reach the second level. In `ext2_files` the
eighth block of a file reaches the third level. With its tables it takes 15 of the 16
usable blocks, over both groups: a file of all levels, cut back level by level and
deleted, can have a small one beside it, and two files that grow fill the disk. Such a
file is far from the capacity of its tables, behind which the code has no location. A
cache of one allocator makes every change of group an eviction. In `ext2_dir` a block
holds four short names and the third name fits nowhere; the empty path is the mount
point, and two paths lead back to the root. `disk` gives the controller the index 1,
which is a partition's number as well; its `VIEW` leaves out `last`, which no action
reads, and the properties that read it are properties of steps. A heap of 4 pages runs out while the first tables are made, heaps of 15 at every
other place of loading and growing, 36 suffice for both processes. One program has a
segment that the stack grows to and one a segment in the kernel's half. A table of two
entries makes the iterator carry at every second page, and the entries of the stacks
are the last of their tables, as in the code.

The runs of the scheduler, `disk` and `address_space` do not check deadlock: the
kernel stops when it panics, and the number of `fsync`s and loads is bounded.

Fairness. `BuddyAllocator`: a call that has begun goes on (weak fairness of
`Step`). `Scheduler`: kernel code goes on (weak fairness of `Kernel`), and the timer
interrupt is strongly fair, because a tick that falls into a system call stays
pending in the interrupt controller and is taken once user code runs; no fairness
is asked of user programs. `PipeStream`: each program goes on making calls (weak
fairness), which `FairTurn` justifies; nobody is forced to give up.

## Findings

| run | the code | what it says of itself |
| --- | --- | --- |
| `saved_context` | every interrupt of user code is tagged `Syscall` (`idt.rs:472`), so `schedule` replaces a preempted thread's registers by those of the core's last fast system call | `percpu.rs:62-65` |

### Where the code falls short

The models follow the code here, and the properties are stated around it: each says
which of these it excepts. In brackets, the name the state has in `beyond`.

- `handler_fast` returns to user code with `running_cpu` unlocked and empty
  (`int80h.rs:86`), unlike a return from an interrupt (`idt.rs:449`). `SpinFree` shows
  that no lock is taken twice because of it.
- An exit releases code, user stack, place in the queue, core and lock, but never the
  kernel stack nor the zombie (`remove_zombie` has no caller), and does not close the
  descriptors; the latter are not modelled with the scheduler.
- `Cr3::write` moves to CR2 (`cr.rs:37`), so a dead process's table stays in CR3.
- A closed descriptor keeps its handle (`linux/io.rs:272`) and reaches a later file at
  the same address (`vfs.rs:1210` asks for a valid handle). Its number is never reused.
- ext2: a small append that ends a block leaves the dirty block to be written in the
  wrong place or dropped (`misplaced`, `dropped`; `data/file.rs:248` promises a write
  at the current position); new tables are not cleared (`stale_table`); an
  allocation that fails half way loses blocks (`partial`); a table in another group
  than its last data block cannot be freed (`free_failed`); two handles on one file do
  not know of one another (`shared`); the last inode is in no group's range. `fopen`
  starts from the inode that the `VfsFile` holds (`mod.rs:1291`): current where the
  file is looked up in the same call, as the model has it, but old where a directory
  entry was kept (`data/file.rs:201`), which is not modelled.
- ext2 backups: `get_backup_groups` goes up to the number of groups, that number
  included (`mod.rs:612`), so a volume whose group count is a power of 3, 5 or 7 has a
  backup outside of it: `set_superblock` then fails after the first copy, and the
  descriptor keeps its old count. Where the partition ends before the drive, the seek
  does not fail and the copy is written behind the partition. Descriptors are written
  from block 2 (`mod.rs:691`) but read from block 1 where blocks are larger than 1024
  bytes (`mod.rs:258`); the models have no block numbers for them.
- ext2 directories: the second block of a directory is read past the buffer
  (`second_block`); deleting files takes links from the parent until the count wraps
  (`links`); a new directory without a block stays half made (`half_made`); an inode is
  lost when its name does not fit (`lost`). `create` does not look for the name, so two
  entries can have the same one, and a lookup may find either. A file cannot be created
  in the mount point itself, which is no directory; through a path such as `.` it can,
  but the root's cache is then not refreshed.
- Disk: `fseek` is bounded by the drive, not by the partition, and a write past the
  partition's end reaches its neighbour; `fwrite` asks for read mode; `fsync` on a
  partition outdates all other handles. Where the partition's number is the
  controller's index, that `fsync` reads the table anew but keeps the old range of its
  own handle, which reads and writes on in it.
- Mounting: a mount that is refused and an unmount whose driver fails leave their file
  system in `fs_by_id`.
- Paging: `alloc_new` clears one byte of a PML4 (`stale_pml4`) and loses one page for
  every table; callers ignore a failed `map_4kb` (`map_failed`), and `Drop` then may not
  end (`endless`); `map_memory` skips pages before the first huge page (`head`); a
  user-stack fault is measured from `PROC_USER_STACK_TOP` although the loader hangs
  the stack elsewhere. `count_maps` wraps, or panics in the debug build, where
  `map_memory` is given less than a huge page (`paging.rs:638`).
- Loading: `p_vaddr` is not checked (`elf.rs:588-641`). A segment in the higher half goes
  into tables that are the kernel's (`kernel_segment`), one in the way of the stack is
  mapped over (`stack_segment`).
- User buffers: `verify_fully_mapped` accepts mapped buffers of the higher half, and
  refuses mapped ones that go on behind a page in a huge page.

## Proofs

The runs check small instances; the theorems of the eight `_proof` modules hold for
every value of the constants that satisfies the modules' assumptions. Each rests on
an inductive invariant (`IInv` where no other name is given), which TLC checked
first, and is proved action by action. Where a proof counts, or takes a
least number, the few facts about numbers and finite sets that it needs are gathered
in one formula (`Counting` of `PipeFs_proof`, `Basics` of `Ext2File_proof`, `Ordered`
of `BuddyAllocator_proof` and `PataDisk_proof`), which its lemmas assume; the formula
is proved from the library at the end of the module, and no theorem assumes it.

| module | theorem | states | for every |
| --- | --- | --- | --- |
| `BuddyAllocator_proof` | `TypeCorrect`, `Safety`, `Conservation`, `ListIntegrity` | types; `WellPlaced`, `NoSharing`; `NoLostPage`; `NoDuplicates` | `MAX_ORDER`, region size, set of requests |
| | `AlwaysCoalesced` | `Coalesced` | |
| | `ImplementsPageAllocator` | `Refinement` | |
| `Scheduler_proof` | `ExactlyOnePlace`, `NeverRunsDead`, `ExitReleases`, `NoSelfDeadlock`, `SourcesBounded`, `BasesIsolated` | `QueuedOnce`, `RunnableIntact`, `DeadReleased`, `SpinFree`, `SourcesTrackMode`, `OwnBases` | number of processes, stack sizes, set of calls |
| | `SyscallContextKept` | `SyscallContext`, an action property | |
| `PipeFs_proof` | `CountsAreExact` | `CountsExact` | ring size, set of pipes and handle addresses, buffers |
| | `ImplementsQueue` | `RefinesQueue` | |
| `FileDescriptors_proof` | `DescriptorsConserved`, `OpenDescriptorsKept` | `FdsConserved`, `NotTakenOver` | table size |
| `MountTree_proof` | `LeavesAreMounts`, `ReferencesAlive`, `SameFileSystem` | `TreeShape`, `MountsAlive`, `LookupsAgree` | names, depth, number of mounts |
| `PataDisk_proof` | `PartitionsListed`, `WritesStayInside`, `ReadsReturnDisk` | `HooksExact`, `PartitionKept`, `ReadsDisk` | drive and sector size, tables, buffers, failing sectors |
| `Ext2File_proof` | `CountersStayExact` | `CountersExact` | number and size of groups, cache capacity, table size, number of handles |
| | `LocationsAgree` | the last part of `HandleInStep` | table size, number of direct pointers, block |
| `Ext2Dir_proof` | `DirectoriesTiled` | `Tiled` | block size, names and their lengths, paths, groups and inodes |

**Heap.** The assumptions are `OrderAssumption` (orders fit the table's byte,
`BlockPages` doubles), `RegionAssumption` (fewer than `2^(MAX_ORDER+1)` pages, the
regions that init lays out completely) and `RequestAssumption` (sizes are natural
numbers, and the request with which `new` allocates the order table is one of them).
Disjointness after a merge needs the alignment of both halves (`BuddyFacts`: the buddy
of an aligned block is its other half); that nothing is lost in a merge needs that the
merged order never exceeds `MAX_ORDER`, which follows from alignment and the size of
the region; and inside loops the block in hand belongs to no list. `IInv` is their
conjunction with `InitProgress` (the blocks laid out tile the pages below `curr_page`,
and the rest fits below the next order) and `CallProgress` (the split loop has a block
to split, the block being freed stays marked). `SplitTiling` and `MergeTiling` carry
the geometry and are free of the state.

`Coalesced` speaks of the state between calls, so `CInv` says what holds inside them:
`SplitApart` (the only free buddies are the two halves the split loop just made, one of
which is taken or split next) and `Serves` (the loop goes down to the order of a
request). The refinement maps the blocks marked in the order table to the abstract
allocator's. Its hard step is a refusal: `AllocNone` is reached when no list of the
order or above has a block, and the abstract allocator refuses only when no aligned
block of that order is vacant. `FindsRoom` closes the gap: a vacant aligned block has
all its pages in free blocks (`NoLostPage`), aligned blocks nest (`Nests`), so either
one free block contains it, or it is tiled by smaller free ones; among these the
smallest has its buddy inside the block too, and the buddy's pages are free in blocks
that are no smaller, which makes it free itself, against `Coalesced`.

**Scheduler.** `IInv` adds `PidsFresh` (pids are given out once), `MapIntact` (the map
holds exactly what can run, and a thread that left user mode is not yet in the queue)
and `ContextKept` (where the registers of a thread that left by `syscall` are: in the
core's buffer while it is the running one, in its `Thread` afterwards).
`RunnableIntact` follows from `MapIntact`. `DeadReleased` is `DeadReaped`, a part of
`IInv`, and `KernelStackKept`, which every step keeps as no action takes a page from a
kernel stack. `SyscallContext` follows from `ContextKept` at the
step of `schedule` that resumes a thread. The opposite of this last theorem for
interrupts is the finding `saved_context`.

**Pipes.** `RingsClosed` (`write_pos` is `read_pos` plus `data_len` around the ring),
`HandlesCreated` and `HungUpLostSide`. The refinement maps a ring to the sequence of
its bytes. A copy in two pieces is one append at positions modulo the capacity; the
counts of ends are cardinalities, so opening and closing add and remove an element.

**File table.** `Balanced` states `FdsConserved` for any list, limit and set of used
numbers; taking a number, taking several with rollback and giving one back are lemmas
about it, and the system calls are built from these.

**Mount tree.** `TreeShape` and `MountsAlive` are inductive together with types; the
proof is about prefixes of sequences: what `register_fs` adds are the prefixes of a
path, what `remove_fs_recursive` prunes are those with no other child.
`LookupsAgree` then needs that two mount points are never prefixes of one another.

**Disk.** The hypothesis is `Environment`: every table a disk can hold lists ranges of
sectors, and buffers hold words. `PartitionKept` excepts writes past the partition's
end and, of a handle whose partition has the controller's index, that its range is
still the table's: both as above. `IInv` has
`RangesCurrent` (a handle that no `fsync` outdated has its file's range in the table
last read, unless its file has the controller's index) and `CacheSound` (a cache that is not stale is the sector it names). The
loops of `fread` and `fwrite` are recursive functions; what they do is proved by
induction on the number of turns, in the form of a least counterexample (`Ascends`),
with an invariant of the turn.

**Free counts.** The hypothesis is `BackupsFit`: every group that `get_backup_groups`
names exists. It is needed, see above. The inductive invariant `InOrder` is
`Sound(vol)`: no call leaves an error behind, and `Books` holds for blocks and inodes
alike. `Books` says that no two allocators of a cache have the same group, and that they
are `Balanced` with the disk: the descriptor's count less what a cached allocator owes
(`diff_usage`) is the number of that allocator's free bits, one that is not dirty has
the bitmap on disk and owes nothing, a group with no cached allocator has the count of
its bitmap in its descriptor, and the superblock has the sum of the descriptors.
`CountersExact` follows by summing over the groups. Setting or clearing a bit of the
allocator in front keeps the balance, and so do an eviction, which pays the debt of one
allocator to bitmap, descriptor and superblock, and a read, which adds one without a
debt. Everything else a file operation does leaves the books alone or is a chain of
these, whichever link fails: `Sess` carries `Sound` through a call, one lemma per
method, and the loops of `truncate`, `grow`, `read`, `write`, `alloc_any` and `flush`
are inductions on the number of turns (`Ascends`).

**Locations.** `InodeReadingLocation::new` divides; the location of a sum
`a * TableSize + b` is found because quotient and remainder are unique (`DividedOnce`), and
every block number is such a sum at one level (`Somewhere`). `advance` then carries from
one digit to the next.

**Directories.** `GoodDirs` says of the records of every inode, in use or not, what
`Tiled` says of the directories, and that live records have known names; the latter is
what makes the spare room of a record a number. A split (`CutEnds`) and a merge
(`JoinEnds`) keep the end of every other record, so the last one still ends with the
block; the rest is that each operation, failing anywhere, leaves directories that it
does not name alone. The assumption is that a name that is not too long fits an empty
block.

Only model-checked, and why:

- liveness (`CallsReturn`, `FairTurn`, `Delivered`, `ProducerEnds`): the prover handles
  neither fairness nor `ENABLED`;
- `Delivered`'s instance of two programs, `PipeStream`: its safety is that of `PipeFs`;
- ext2 files (`ClosedIsOnDisk`, `HandleInStep` but for its last part, `ReadsBack`,
  `BlocksOwnedOnce`, `InodesExact`): they hold together or not at all. That an inode's bit
  is cleared needs that freeing its blocks does not fail, which needs that its tables are
  the ones on disk and that every block in them is its own, over three levels of tables
  with their caches;
- ext2 directories (`InodesAccounted`, `RootCacheSound`, `NamesFollow`): the cache of the
  root is refreshed only where `delete_file` does not fail, so that it is sound needs that
  every entry names an inode in use; and the entries of a directory are a selection from a
  sequence, about which the provers have no facts;
- address spaces (`MappedToOwner`, `FramesOwnedOnce`, `KernelShared`, `VerifyExact`): loading
  and dropping are folds over what an iterator over four levels of tables visits, and a
  proof needs an induction for each fold over data that the library states only for
  operators as parameters;
- `SavedContext`, which does not hold.

## Not modelled

- Block devices behind the VFS (`SubBlockDevice`, `BlockDeviceAsCharacterDevice`):
  wrappers that compute addresses and keep no state that changes. ext2 is modelled on
  blocks that do not fail, and the disk by itself.
- The parsing of ELF, GPT and MBR: `AddressSpace` and `PataDisk` begin with what
  parsing yields. Headers are read once and rejected or used.
- Superblock and inode fields beside sizes, pointers, links and counts; timestamps
  and permissions, which are stored and read back.
- Crashes: the code writes back without journal or order and has no recovery, so
  nothing is promised of an interrupted volume.
- Display, ports, PCI, descriptor tables, boot code, key decoding: straight-line
  access to hardware. The log is output only.

Abstracted away inside the modelled parts: names, statistics, directory listings,
return values of system calls that no property reads. In `FileDescriptors` a call
whose user buffer fails its check does nothing; the check itself is in
`AddressSpace`. The heap is entered by one caller at a time; a second caller from an
interrupt handler is listed as a hazard.

## Plan

1. Reentrance: an interrupt that allocates, or logs, in the middle of a call, during
   boot, when kernel code runs with interrupts on.
2. Composition of `Ext2File` with `PataDisk`, as `kmain` mounts a volume on the file of
   a partition, with reads and writes that fail.
3. Proofs: `InodesAccounted`; `BlocksOwnedOnce`; `FramesOwnedOnce`.
