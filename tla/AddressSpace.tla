----------------------------- MODULE AddressSpace ------------------------------
(***************************************************************************)
(* The memory of processes: the pages of an ELF file and of the two stacks *)
(* of its thread (process/memory.rs, process/proc.rs, formats/elf.rs), as  *)
(* PageTable maps them, from the ELF loader over page faults to the exit   *)
(* in process/scheduler.rs, and the mappings of the kernel that they       *)
(* share.  A buffer is one page of the heap, which also holds the tables.  *)
(* The kernel runs each action with interrupts off.  A process has one     *)
(* thread and stays a zombie for ever, as nothing calls remove_zombie.     *)
(*                                                                         *)
(* `beyond' names what happened, if anything, after which a promise of the *)
(* properties cannot be kept; the model stops there.                       *)
(*   stale_pml4   alloc_new clears one byte of the PML4, and an entry that *)
(*                the page held before counts as present                   *)
(*   map_failed   map_4kb found no page for a table: its callers ignore    *)
(*                that, and tables it has added so far stay empty          *)
(*   boot_failed  the kernel's own mappings need more pages than           *)
(*                SimplePageAllocator has                                  *)
(*   kernel_segment  an ELF file has a segment in the higher half, where   *)
(*                the tables are those of the kernel: p_vaddr is unchecked *)
(*   stack_segment   a stack is mapped over a page of a segment            *)
(*   no_buffer    no page for a buffer: alloc_boxed_slice panics           *)
(*   head         map_memory was given a range that begins between two     *)
(*                huge pages: the pages up to the first are not present    *)
(*   endless      Drop does not come to an end                             *)
(***************************************************************************)
EXTENDS PageTable

CONSTANTS
  Procs,            \* the processes
  HeapSizes,        \* the possible numbers of heap pages
  BootPages,        \* the number of pages of SimplePageAllocator
  MaxLoads,         \* a bound on the programs that are loaded
  Programs,         \* ELF files: sequences of segments
  ArgumentPages,    \* the possible sizes of arguments and environment
  StackPages,       \* the largest npages of a stack fault that is served
  SpareBuffers,     \* ensure_enough_allocated_buffers(16)
  IstStacks,        \* the IST stacks, a sequence of <<address, first frame>>
  FrameBuffers,     \* the possible frame buffers, <<first frame, pages>>
  DIRECT_MAPPING_OFFSET

VARIABLES
  mem,      \* tables and allocators, see PageTable
  proc,     \* the processes
  spare,    \* per_cpu.free_allocated_buffers
  kernel,   \* what the kernel has mapped for itself: <<page, frame>>
  booting,  \* the mappings of its own that the kernel still has to make
  beyond

vars == <<mem, proc, spare, kernel, booting, beyond>>

KernelPml4 == -1
USER_STACK_TOP == LowerSlots * Fan ^ 3
PROC_KERNEL_STACK_TOP == Pages - Fan ^ 3

NoStack == [stack_top |-> 0, buffers |-> <<>>]
NoProc == [state |-> "none", pt |-> 0, code |-> <<>>, stack |-> NoStack, kernel_stack |-> NoStack]

----------------------------------------------------------------------------
(* An operation on process p: the memory, the fields of the process and    *)
(* what went wrong, in one record.                                         *)
Session(p) == mem @@ proc[p] @@ [beyond |-> beyond, spare |-> spare]
Beyond(s, what) == [s EXCEPT !.beyond = @ \cup {what}]

Commit(p, s) ==
  /\ mem' = [[x \in DOMAIN mem |-> s[x]] EXCEPT !.at = 0, !.err = "Ok"]
  /\ proc' = [proc EXCEPT ![p] = [x \in DOMAIN NoProc |-> s[x]]]
  /\ spare' = s.spare
  /\ beyond' = s.beyond
  /\ UNCHANGED <<kernel, booting>>

(* alloc_boxed_slice of one page: `at' is the buffer.                      *)
alloc_boxed_slice(s) ==
  LET x == alloc_page(s, "heap") IN IF x.err = "Ok" THEN x ELSE Beyond(x, "no_buffer")

FreeBuffers(s, frames) == FoldLeft(LAMBDA x, f : free_page(x, "heap", f), s, frames)

(* map_4kb, as its callers use it: they go on when it answers None.        *)
MapIgnoring(s, virt, frame) ==
  LET x == map_4kb(s, "heap", s.pt, virt, frame, TRUE)
  IN IF x.err = "Ok" THEN x ELSE [Beyond(x, "map_failed") EXCEPT !.err = "Ok"]

UnmapIgnoring(s, virt) == [unmap_4kb(s, "heap", s.pt, virt) EXCEPT !.err = "Ok"]

(* ThreadStack: stack_size is the number of its buffers, in pages.         *)
get_bottom(stack) == stack.stack_top - Len(stack.buffers)

grow_using_existing_buffer(s, which, buffer) ==
  LET stack == [s[which] EXCEPT !.buffers = Append(@, buffer)]
      x == [MapIgnoring(s, get_bottom(stack), buffer) EXCEPT ![which] = stack]
      covered == \E k \in DOMAIN s.code : s.code[k][1] = get_bottom(stack)
  IN IF covered THEN Beyond(x, "stack_segment") ELSE x

grow(s, which) ==
  Then(alloc_boxed_slice(s), LAMBDA x : grow_using_existing_buffer(x, which, x.at))

Grow(s, which, n) == FoldLeft(LAMBDA x, k : Then(x, LAMBDA y : grow(y, which)), s, [k \in 1 .. n |-> k])

(* Variant of StackPagesOf: the lowest page is left out.                   *)
StackPagesAbove(stack) == [k \in 1 .. Len(stack.buffers) - 1 |-> get_bottom(stack) + k]

StackPagesOf(stack) == [k \in 1 .. Len(stack.buffers) |-> get_bottom(stack) + k - 1]

free(s, which) ==
  LET unmapped == FoldLeft(UnmapIgnoring, s, StackPagesOf(s[which]))
  IN [FreeBuffers(unmapped, s[which].buffers) EXCEPT ![which].buffers = <<>>]

(* ProcessAllocatedCode::free                                              *)
free_code(s) ==
  LET unmapped == FoldLeft(LAMBDA x, c : UnmapIgnoring(x, c[1]), s, s.code)
  IN [FreeBuffers(unmapped, [k \in DOMAIN s.code |-> s.code[k][2]]) EXCEPT !.code = <<>>]

----------------------------------------------------------------------------
(* Elf64File::create_process.  A segment is the page it begins on, its     *)
(* number of pages and whether the file holds the bytes it names.          *)
LoadPage(s, virt) ==
  Then(alloc_boxed_slice(s), LAMBDA x :
    [MapIgnoring(x, virt, x.at) EXCEPT !.code = Append(@, <<virt, x.at>>)])

LoadSegment(s, segment) ==
  LET high == segment.virt + segment.pages > USER_STACK_TOP
  IN IF ~segment.in_file
     THEN [s EXCEPT !.err = "InvalidSegmentOffset"]
     ELSE FoldLeft(LAMBDA x, k : Then(x, LAMBDA y : LoadPage(y, segment.virt + k - 1)),
                   IF high THEN Beyond(s, "kernel_segment") ELSE s,
                   [k \in 1 .. segment.pages |-> k])

(* build_stack takes all its buffers before it maps them, from the last to *)
(* the first; create_process adds one more page.                           *)
TakeBuffers(s, n) ==
  FoldLeft(LAMBDA x, k : Then(x, LAMBDA y :
             LET z == alloc_boxed_slice(y) IN IF z.err = "Ok" THEN [z EXCEPT !.spare = Append(@, z.at)] ELSE z),
           s, [k \in 1 .. n |-> k])

build_stack(s, n) ==
  LET taken == TakeBuffers([s EXCEPT !.spare = <<>>, !.stack.stack_top = USER_STACK_TOP], n)
      pages == Reverse(taken.spare)
  IN Then([taken EXCEPT !.spare = s.spare], LAMBDA x :
       FoldLeft(LAMBDA y, b : grow_using_existing_buffer(y, "stack", b), x, pages))

(* Dropping the table and the buffers of a process that did not start.     *)
Discard(s) ==
  LET buffers == [k \in DOMAIN s.code |-> s.code[k][2]] \o s.stack.buffers
      finish(x) == IF x.err = "Endless" THEN Beyond(x, "endless") ELSE FreeBuffers(x, buffers)
  IN finish(Drop(s, s.pt))

create_image(s, program, arguments) ==
  LET table(x) == [map_global_higher_half(x, x.at, KernelPml4) EXCEPT !.pt = x.at]
      code(x) == FoldLeft(LAMBDA y, g : Then(y, LAMBDA z : LoadSegment(z, g)), x, program)
      stack(x) == Then(build_stack(x, arguments), LAMBDA y : grow(y, "stack"))
  IN Then(Then(Then(alloc_new(s), table), code), stack)

(* How create_process of the file ends.                                    *)
Outcome(s, stale) ==
  CASE s.pt # 0 /\ stale -> Beyond(s, "stale_pml4")
    [] s.err = "Ok" -> [s EXCEPT !.state = "loaded"]
    [] s.err = "InvalidSegmentOffset" -> NoProc @@ Discard(s)
    [] OTHER -> s

Load(p, program, arguments, stale) ==
  /\ beyond = {} /\ proc[p].state = "none"
  /\ Cardinality(mem.lost) < MaxLoads
  /\ Commit(p, Outcome(create_image(Session(p), program, arguments), stale))

(* Scheduler::create_process, which fails when it gets no pipe.            *)
create_process(p) ==
  /\ beyond = {} /\ proc[p].state = "loaded"
  /\ LET s == [Session(p) EXCEPT !.state = "running", !.kernel_stack.stack_top = PROC_KERNEL_STACK_TOP]
     IN Commit(p, grow(s, "kernel_stack"))

create_process_fails(p) ==
  /\ beyond = {} /\ proc[p].state = "loaded"
  /\ Commit(p, NoProc @@ Discard(Session(p)))

(* The page fault handler: the stack gets as many buffers as the distance  *)
(* of the fault from PROC_USER_STACK_TOP, although it hangs elsewhere.     *)
user_stack_fault(p, npages) ==
  /\ beyond = {} /\ proc[p].state = "running"
  /\ npages > Len(proc[p].stack.buffers)
  /\ Commit(p, Grow(Session(p), "stack", npages - Len(proc[p].stack.buffers)))

(* A fault on the kernel stack is served from the spare buffers.           *)
kernel_stack_fault(p, npages) ==
  LET missing == npages - Len(proc[p].kernel_stack.buffers)
  IN /\ beyond = {} /\ proc[p].state = "running"
     /\ missing \in 1 .. Len(spare)
     /\ Commit(p, FoldLeft(LAMBDA x, k :
          grow_using_existing_buffer([x EXCEPT !.spare = Front(@)], "kernel_stack", Last(x.spare)),
          Session(p), [k \in 1 .. missing |-> k]))

ensure_enough_allocated_buffers(p) ==
  /\ beyond = {} /\ proc[p].state = "running"
  /\ Len(spare) < SpareBuffers
  /\ Commit(p, TakeBuffers(Session(p), SpareBuffers - Len(spare)))

(* handle_exit of the last thread: its stack, then the code; kill_process  *)
(* takes them the other way round.  The kernel stack is kept.              *)
handle_exit(p) ==
  /\ beyond = {} /\ proc[p].state = "running"
  /\ Commit(p, [free_code(free(Session(p), "stack")) EXCEPT !.state = "zombie"])

kill_process(p) ==
  /\ beyond = {} /\ proc[p].state = "running"
  /\ Commit(p, [free(free_code(Session(p)), "stack") EXCEPT !.state = "zombie"])

----------------------------------------------------------------------------
(* UserProcessBuffer::verify_fully_mapped_impl for a buffer from page      *)
(* `begin' up to a byte of page `end', which must be mapped as well: the   *)
(* pages that the iterator finds follow on one another.                    *)
VerifyTurn(m, root, begin, end, x) ==
  LET t == IterTurn(m, root, x.at)
      fits == x.at = IF x.last = -1 THEN begin ELSE x.last + 1
  IN IF x.at > end \/ ~x.fits THEN x
     ELSE IF t.found THEN [at |-> t.next, last |-> x.at, fits |-> fits]
     ELSE [x EXCEPT !.at = t.next]

SameHalf(begin, end) == begin < USER_STACK_TOP <=> end < USER_STACK_TOP

(* Variant of AllSeen: the last page need not be there.                    *)
SomeSeen(x, end) == x.fits /\ x.last # -1

AllSeen(x, end) == x.fits /\ x.last = end

verify_fully_mapped(m, root, begin, end) ==
  SameHalf(begin, end) /\
  AllSeen(FoldLeft(LAMBDA x, n : VerifyTurn(m, root, begin, end, x),
                   [at |-> begin, last |-> -1, fits |-> TRUE], Burst), end)

----------------------------------------------------------------------------
(* What the kernel maps for itself before the first process: the IST       *)
(* stacks (interrupts/idt.rs) and the frame buffer (drivers/vga.rs), with  *)
(* the pages of SimplePageAllocator.                                       *)
KernelMaps(m, pairs, flaws) ==
  /\ mem' = [m EXCEPT !.at = 0, !.err = "Ok"]
  /\ kernel' = kernel \cup pairs
  /\ beyond' = flaws \cup (IF m.err = "Ok" THEN {} ELSE {"boot_failed"})
  /\ UNCHANGED <<proc, spare>>

MapIstStacks ==
  LET map(m, x) == Then(m, LAMBDA y : map_2mb(y, "boot", KernelPml4, x[1], x[2]))
  IN /\ booting = "interrupts" /\ booting' = "screen"
     /\ KernelMaps(FoldLeft(map, mem, IstStacks),
                   {<<IstStacks[i][1] + k, IstStacks[i][2] + k>> :
                      i \in DOMAIN IstStacks, k \in 0 .. Fan - 1}, {})

ensure_framebuffer_mapped(fb, size) ==
  /\ booting = "screen" /\ booting' = "done"
  /\ beyond = {}
  /\ KernelMaps(map_memory(mem, "boot", KernelPml4, fb, size, DIRECT_MAPPING_OFFSET),
                {<<DIRECT_MAPPING_OFFSET + k, k>> : k \in fb .. fb + size - 1},
                IF fb % Fan = 0 THEN {} ELSE {"head"})

Init ==
  /\ \E n \in HeapSizes :
       mem = [table |-> KernelPml4 :> EmptyTable(TRUE),
              free |-> [heap |-> 1 .. n, boot |-> {-1 - k : k \in 1 .. BootPages}],
              lost |-> {}, pages |-> n, at |-> 0, err |-> "Ok"]
  /\ proc = [p \in Procs |-> NoProc]
  /\ spare = <<>> /\ kernel = {} /\ booting = "interrupts" /\ beyond = {}

(* What a process is given waits until the kernel is up.                   *)
Running(p) ==
  /\ booting = "done"
  /\ \/ \E program \in Programs, n \in ArgumentPages, stale \in BOOLEAN : Load(p, program, n, stale)
     \/ create_process(p)
     \/ create_process_fails(p)
     \/ \E n \in 1 .. StackPages : user_stack_fault(p, n) \/ kernel_stack_fault(p, n)
     \/ ensure_enough_allocated_buffers(p)
     \/ handle_exit(p)
     \/ kill_process(p)

Stopped == beyond # {} /\ UNCHANGED vars

Next ==
  \/ MapIstStacks
  \/ \E x \in FrameBuffers : ensure_framebuffer_mapped(x[1], x[2])
  \/ \E p \in Procs : Running(p)
  \/ Stopped

Spec == Init /\ [][Next]_vars

----------------------------------------------------------------------------
(* The tables in use that a process alone links to, its PML4 included.     *)
Linked(t, slots) ==
  {mem.table[t][i].to : i \in {j \in slots : mem.table[t][j].present /\ ~mem.table[t][j].huge}}
Below(S) == UNION {Linked(t, DOMAIN mem.table[t]) : t \in S}
Private == (0 .. Top - 1) \ SharedSlots
TablesOf(root) ==
  LET pdpts == Linked(root, Private)
      linked == pdpts \cup Below(pdpts) \cup Below(Below(pdpts))
  IN {root} \cup {t \in linked : ~empty(mem, t)}

Live == {p \in Procs : proc[p].pt # 0}
CodeBuffers(p) == [k \in DOMAIN proc[p].code |-> proc[p].code[k][2]]
BuffersOf(p) == CodeBuffers(p) \o proc[p].stack.buffers \o proc[p].kernel_stack.buffers

(* What a process should find at its addresses: the page of the segment    *)
(* loaded last, and the buffers of a stack from its top down.              *)
StackPairs(stack) == {<<stack.stack_top - k, stack.buffers[k]>> : k \in DOMAIN stack.buffers}
CodePairs(code) ==
  {code[k] : k \in {j \in DOMAIN code : \A l \in DOMAIN code : code[l][1] = code[j][1] => l <= j}}
Wanted(p) == CodePairs(proc[p].code) \cup StackPairs(proc[p].stack) \cup StackPairs(proc[p].kernel_stack)

Mapped(root, slots) ==
  {<<v, translate(mem, root, v)>> :
     v \in {w \in 0 .. Pages - 1 : w \div Fan ^ 3 \in slots /\ translate(mem, root, w) # 0}}

(* The tables of a process lead from every address to the buffer that the  *)
(* process owns there and nowhere else: no page of a segment or of a stack *)
(* is missing or misplaced, and none outlives its buffer, whatever was     *)
(* loaded, grown, freed or dropped before.  The loader does not check that *)
(* segments keep to the lower half and off the stack: no claim is made of  *)
(* files whose segments do not.                                            *)
MappedToOwner == beyond = {} => \A p \in Live : Mapped(proc[p].pt, Private) = Wanted(p)

(* Every page of the heap is free, a table of one process that maps        *)
(* something, one buffer, a spare buffer or the page lost by alloc_new:    *)
(* grow, exit and Drop neither leak a page nor give one back twice,        *)
(* unmap_4kb leaves no empty table behind, and Drop, which would walk an   *)
(* empty table for ever, ends unless a map_4kb failed and left one.        *)
FramesOwnedOnce ==
  LET sets == {mem.free.heap, mem.lost, ToSet(spare)}
               \cup {TablesOf(proc[p].pt) : p \in Live} \cup {ToSet(BuffersOf(p)) : p \in Live}
      counted == Cardinality(mem.free.heap) + Cardinality(mem.lost) + Len(spare)
                 + MapThenSumSet(LAMBDA p : Cardinality(TablesOf(proc[p].pt)) + Len(BuffersOf(p)), Live)
  IN /\ beyond = {} => UNION sets = 1 .. mem.pages /\ counted = mem.pages
     /\ "endless" \in beyond => "map_failed" \in beyond

(* A process sees what the kernel has mapped for itself, and the kernel    *)
(* keeps it: no exit and no Drop takes a table that is shared, and neither *)
(* does a load or a fault that runs out of pages, whatever Drop makes of   *)
(* what that left.                                                         *)
KernelShared ==
  beyond \cap {"stale_pml4", "boot_failed", "head", "kernel_segment"} = {} =>
    /\ Mapped(KernelPml4, SharedSlots) = kernel
    /\ \A p \in Live : Mapped(proc[p].pt, SharedSlots) = kernel

(* A page in a huge page.                                                  *)
InHuge(root, v) ==
  LET i == split_virt_addr(v)
      pd == Walk(mem, "heap", root, i, 3, FALSE)
      e == mem.table[pd.at][i[3]]
  IN pd.err = "Ok" /\ e.present /\ e.huge

(* A system call accepts a buffer exactly when it keeps to one half, all   *)
(* of its pages are mapped and none but the last is in a huge page, behind *)
(* which the iterator skips pages: its steps over missing tables, which    *)
(* may even lead back, never make it take a gap for a page or a page for a *)
(* gap.  That the page is one of the user is not asked.                    *)
VerifyExact ==
  \A p \in Procs : proc[p].state = "running" /\ beyond = {} =>
    \A begin \in 0 .. Pages - 1, n \in 0 .. 2 : begin + n < Pages - 1 =>
      (verify_fully_mapped(mem, proc[p].pt, begin, begin + n)
         <=> /\ SameHalf(begin, begin + n)
             /\ \A v \in begin .. begin + n : translate(mem, proc[p].pt, v) # 0
             /\ \A v \in begin .. begin + n - 1 : ~InHuge(proc[p].pt, v))
===============================================================================
