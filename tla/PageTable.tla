------------------------------- MODULE PageTable -------------------------------
(***************************************************************************)
(* The four levels of page tables of paging.rs: PageTable, Table and       *)
(* PageTableIter, and the two allocators they take their tables from.      *)
(*                                                                         *)
(* An address is the number of its page; the hole between the two halves   *)
(* of the address space is left out, so the numbers are contiguous.  A     *)
(* PML4 has Top entries and every other table has Fan (512 for both in the *)
(* code), and a huge page is Fan pages.  The operators take and return a   *)
(* memory: `table' are the tables in memory by frame, `free' the frames    *)
(* that each allocator has left, `at' the table that a walk has reached    *)
(* and `err' what the method answers, "Ok" or "None".  The TLB and the      *)
(* flags other than PAGE_PRESENT and PAGE_HUGE are left out.               *)
(***************************************************************************)
EXTENDS Integers, Sequences, FiniteSets, SequencesExt, TLC

CONSTANTS
  Fan,          \* the entries of a table below the PML4
  Top,          \* the entries of a PML4
  LowerSlots,   \* the entries of a PML4 for the lower half
  SharedSlots   \* the entries that map_global_higher_half copies

Pages == Top * Fan ^ 3
SlotsOf(root) == IF root THEN 0 .. Top - 1 ELSE 0 .. Fan - 1

ASSUME PageTableAssumption ==
  /\ Fan \in Nat \ {0, 1}
  /\ Top \in Nat /\ LowerSlots \in 1 .. Top
  /\ SharedSlots \subseteq LowerSlots .. Top - 1

(* A table entry: a frame, PAGE_PRESENT and PAGE_HUGE.                     *)
Entry(to, present, huge) == [to |-> to, present |-> present, huge |-> huge]
NoEntry == Entry(0, FALSE, FALSE)
EmptyTable(root) == [i \in SlotsOf(root) |-> NoEntry]

Then(s, Op(_)) == IF s.err = "Ok" THEN Op(s) ELSE s

split_virt_addr(v) ==
  <<v \div Fan ^ 3, (v \div Fan ^ 2) % Fan, (v \div Fan) % Fan, v % Fan>>

(* join_virt_addr puts the indices together with `|': a pdpt index one     *)
(* past the end sets the lowest bit of the PML4 index.                     *)
join_virt_addr(i) ==
  LET pml4 == IF i[2] = Fan /\ i[1] % 2 = 0 THEN i[1] + 1 ELSE i[1]
  IN ((pml4 * Fan + (i[2] % Fan)) * Fan + i[3]) * Fan + i[4]

align_down(v, n) == v - (v % n)
align_up(v, n) == align_down(v + n - 1, n)

----------------------------------------------------------------------------
(* SimplePageAllocator, the "boot" frames, and KernelPageTablesAllocator,  *)
(* the "heap" frames: which of the free frames they give does not matter.  *)
alloc_page(m, a) ==
  IF m.free[a] = {}
  THEN [m EXCEPT !.err = "None"]
  ELSE LET f == Min(m.free[a])
       IN [m EXCEPT !.free[a] = @ \ {f}, !.at = f, !.err = "Ok"]

free_page(m, a, f) ==
  [m EXCEPT !.free[a] = @ \cup {f},
            !.table = [t \in DOMAIN @ \ {f} |-> @[t]]]

(* Table::get_table from the table that the walk has reached.              *)
AddTable(m, a, idx) ==
  LET new == alloc_page(m, a)
  IN Then(new, LAMBDA x :
       [x EXCEPT !.table = (x.at :> EmptyTable(FALSE)) @@
                           [@ EXCEPT ![m.at][idx] = Entry(x.at, TRUE, FALSE)]])

get_table(m, a, idx, add, disallow_huge) ==
  LET e == m.table[m.at][idx]
  IN IF ~e.present
     THEN IF add THEN AddTable(m, a, idx) ELSE [m EXCEPT !.err = "None"]
     ELSE IF disallow_huge /\ e.huge
     THEN [m EXCEPT !.err = "None"]
     ELSE [m EXCEPT !.at = e.to]

(* Variant of remove: the page of the table is not given back.             *)
remove_entry_only(m, a, t, idx) == [m EXCEPT !.table[t][idx] = NoEntry]

remove(m, a, t, idx) ==
  LET e == m.table[t][idx]
      cleared == [m EXCEPT !.table[t][idx] = NoEntry]
  IN IF e.present THEN free_page(cleared, a, e.to) ELSE cleared

empty(m, t) == \A i \in DOMAIN m.table[t] : m.table[t][i] = NoEntry

(* The calls of get_table down to the table of level n: 2 is a pdpt, 3 a   *)
(* pd and 4 a pt.                                                          *)
Walk(m, a, root, i, n, add) ==
  LET down(x, k) == IF k < n THEN get_table(x, a, i[k], add, k = 3) ELSE x
      pdpt == down([m EXCEPT !.at = root, !.err = "Ok"], 1)
  IN Then(Then(pdpt, LAMBDA x : down(x, 2)), LAMBDA x : down(x, 3))

(* The tables that such a walk has passed.                                 *)
TableAt(m, root, i, n) ==
  IF n = 1 THEN root ELSE Walk(m, "heap", root, i, n, FALSE).at

map_4kb(m, a, root, virt, phys, present) ==
  LET i == split_virt_addr(virt)
  IN Then(Walk(m, a, root, i, 4, TRUE), LAMBDA x :
       [x EXCEPT !.table[x.at][i[4]] = Entry(phys, present, FALSE)])

map_2mb(m, a, root, virt, phys) ==
  LET i == split_virt_addr(virt)
  IN Then(Walk(m, a, root, i, 3, TRUE), LAMBDA x :
       [x EXCEPT !.table[x.at][i[3]] = Entry(align_down(phys, Fan), TRUE, TRUE)])

(* The tables from level n up to the pdpt, as long as they are empty.      *)
RemoveEmpty(m, a, root, i, n) ==
  FoldLeft(LAMBDA x, k : IF empty(x, TableAt(x, root, i, k))
                         THEN remove(x, a, TableAt(x, root, i, k - 1), i[k - 1])
                         ELSE x,
           m, [k \in 1 .. n - 1 |-> n + 1 - k])

unmap_4kb(m, a, root, virt) ==
  LET i == split_virt_addr(virt)
  IN Then(Walk(m, a, root, i, 4, FALSE), LAMBDA x :
       RemoveEmpty([x EXCEPT !.table[x.at][i[4]] = NoEntry], a, root, i, 4))

unmap_2mb(m, a, root, virt) ==
  LET i == split_virt_addr(virt)
  IN Then(Walk(m, a, root, i, 3, FALSE), LAMBDA x :
       RemoveEmpty([x EXCEPT !.table[x.at][i[3]] = NoEntry], a, root, i, 3))

(* map_memory: the huge pages inside the range, the pages in front of them *)
(* (whose flags lack PAGE_PRESENT) and the pages behind them.  count_maps, *)
(* which only decides on the TLB flush, is left out: it wraps, or panics   *)
(* in the debug build, where the range reaches no boundary of huge pages.  *)
MapSmall(m, a, root, from, to, virt_offset, present) ==
  FoldLeft(LAMBDA x, p : Then(x, LAMBDA y : map_4kb(y, a, root, p + virt_offset, p, present)),
           m, [k \in 1 .. to - from |-> from + k - 1])

MapHuge(m, a, root, from, to, virt_offset) ==
  FoldLeft(LAMBDA x, p : Then(x, LAMBDA y : map_2mb(y, a, root, p + virt_offset, p)),
           m, [k \in 1 .. (to - from) \div Fan |-> from + (k - 1) * Fan])

map_memory(m, a, root, addr, len, virt_offset) ==
  LET begin_2mb == align_up(addr, Fan)
      end_2mb == align_down(addr + len, Fan)
      huge == MapHuge([m EXCEPT !.err = "Ok"], a, root, begin_2mb, end_2mb, virt_offset)
      head == MapSmall(huge, a, root, addr, begin_2mb, virt_offset, FALSE)
  IN MapSmall(head, a, root, end_2mb, addr + len, virt_offset, TRUE)

(* translate: the frame of a page, or 0.                                   *)
translate(m, root, virt) ==
  LET i == split_virt_addr(virt)
      small(pt) == LET e == m.table[pt.at][i[4]]
                   IN IF pt.err = "Ok" /\ e.present THEN e.to ELSE 0
      entry(pd) == LET e == m.table[pd.at][i[3]]
                   IN IF pd.err # "Ok" THEN 0
                      ELSE IF e.present /\ e.huge THEN e.to + (virt % Fan)
                      ELSE small(get_table(pd, "heap", i[3], FALSE, TRUE))
  IN entry(Walk(m, "heap", root, i, 3, FALSE))

----------------------------------------------------------------------------
(* PageTableIter::next, one turn of its loop at page v: where it goes on,  *)
(* and whether it found a page.                                            *)
Turn(next, found, huge) == [next |-> next, found |-> found, huge |-> huge]

(* The next pd entry, with the carry into the pdpt and the PML4.  Past the *)
(* last PML4 entry join_virt_addr makes an address of the hole between the *)
(* halves, from which the loop goes on at the first page of the higher     *)
(* one.                                                                    *)
NextPd(i) ==
  IF i[3] + 1 < Fan THEN join_virt_addr(<<i[1], i[2], i[3] + 1, 0>>)
  ELSE IF i[2] + 1 < Fan THEN join_virt_addr(<<i[1], i[2] + 1, 0, 0>>)
  ELSE IF i[1] + 1 < Top THEN join_virt_addr(<<i[1] + 1, 0, 0, 0>>)
  ELSE LowerSlots * Fan ^ 3

(* The next pdpt entry: its carry is decided by the old index, and so it   *)
(* is left to join_virt_addr.                                              *)
NextPdpt(i) == join_virt_addr(<<i[1], i[2] + 1, 0, 0>>)

(* The next PML4 entry, if there is one.                                   *)
NextPml4(i) == IF i[1] + 1 >= Top THEN Pages ELSE join_virt_addr(<<i[1] + 1, 0, 0, 0>>)

IterTurn(m, root, v) ==
  LET i == split_virt_addr(v)
      at_pt(pt) == IF pt.err # "Ok" THEN Turn(NextPd(i), FALSE, FALSE)
                   ELSE Turn(v + 1, m.table[pt.at][i[4]].present, FALSE)
      at_pd(pd) == LET e == m.table[pd.at][i[3]]
                   IN IF pd.err # "Ok" THEN Turn(NextPdpt(i), FALSE, FALSE)
                      ELSE IF e.present /\ e.huge THEN Turn(v + Fan, TRUE, TRUE)
                      ELSE at_pt(get_table(pd, "heap", i[3], FALSE, TRUE))
      at_pdpt(pdpt) == IF pdpt.err # "Ok" THEN Turn(NextPml4(i), FALSE, FALSE)
                       ELSE at_pd(get_table(pdpt, "heap", i[2], FALSE, FALSE))
  IN at_pdpt(Walk(m, "heap", root, i, 2, FALSE))

(* The turns that a loop is given before it is taken for endless: Burst    *)
(* times Burst.                                                            *)
Burst == [n \in 1 .. Fan * Top |-> n]

----------------------------------------------------------------------------
(* alloc_new.  The allocator object has size 0, for which the heap gives a *)
(* page that dealloc ignores and Drop does not free: `lost' are those.     *)
alloc_new(m) ==
  LET object == alloc_page(m, "heap")
      pml4 == alloc_page(IF object.err = "Ok"
                         THEN [object EXCEPT !.lost = @ \cup {object.at}]
                         ELSE object, "heap")
  IN Then(pml4, LAMBDA x : [x EXCEPT !.table = (x.at :> EmptyTable(TRUE)) @@ @])

(* Variant of map_global_higher_half: the last of the regions is not       *)
(* copied.                                                                 *)
map_global_but_one(m, root, kernel) ==
  [m EXCEPT !.table[root] =
     [i \in DOMAIN @ |-> IF i \in SharedSlots /\ i + 1 \in SharedSlots
                         THEN m.table[kernel][i] ELSE @[i]]]

map_global_higher_half(m, root, kernel) ==
  [m EXCEPT !.table[root] =
     [i \in DOMAIN @ |-> IF i \in SharedSlots THEN m.table[kernel][i] ELSE @[i]]]

unmap_global_higher_half(m, root) ==
  [m EXCEPT !.table[root] = [i \in DOMAIN @ |-> IF i \in SharedSlots THEN NoEntry ELSE @[i]]]

(* Drop: every page that the iterator finds is unmapped on the way, then   *)
(* the PML4 is freed.  `at' is the iterator's position.                    *)
DropTurn(m, root, v) ==
  LET unmap(t) == IF ~t.found THEN m
                  ELSE IF t.huge THEN unmap_2mb(m, "heap", root, v)
                  ELSE unmap_4kb(m, "heap", root, v)
      go_on(t) == [unmap(t) EXCEPT !.at = t.next]
  IN go_on(IterTurn(m, root, v))

Drop(m, root) ==
  LET unshared == [unmap_global_higher_half(m, root) EXCEPT !.at = 0]
      turn(x, n) == IF x.at >= Pages THEN x ELSE DropTurn(x, root, x.at)
      turns(x, n) == IF x.at >= Pages THEN x ELSE FoldLeft(turn, x, Burst)
      finish(x) == IF x.at < Pages THEN [x EXCEPT !.err = "Endless"]
                   ELSE [free_page(x, "heap", root) EXCEPT !.err = "Ok"]
  IN finish(FoldLeft(turns, unshared, Burst))
===============================================================================
