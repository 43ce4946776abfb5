---------------------------- MODULE BuddyAllocator ----------------------------
(***************************************************************************)
(* The kernel's heap: memory/buddy_alloc.rs (BuddyPageAllocator) under     *)
(* memory/mem.rs (ExtendedBuddyPageAllocator, which remembers the order of *)
(* every allocated block in a byte table, and GlobalAlloc on top of it).   *)
(*                                                                         *)
(* Addresses are page numbers relative to base_addr.  A free list is the   *)
(* sequence of the blocks its `next` pointers chain, head first.  Each     *)
(* iteration of the loops of init, alloc and free is one step; the local   *)
(* variables of the call in progress are the fields of cur.                *)
(***************************************************************************)
EXTENDS Integers, Sequences, FiniteSets

CONSTANTS
  MaxOrder,    \* MAX_ORDER
  PageCount,   \* page_count, the pages of the one usable region
  BlockPages,  \* BlockPages[o] is 1 << o
  Requests,    \* the page counts callers ask for
  TablePages   \* the pages of the order table: page_count.div_ceil(PAGE_SIZE)

ASSUME OrderAssumption ==
  /\ MaxOrder \in Nat
  /\ MaxOrder < 255
  /\ BlockPages \in [0 .. (MaxOrder + 1) -> Nat \ {0}]
  /\ BlockPages[0] = 1
  /\ \A o \in 0 .. MaxOrder : BlockPages[o + 1] = 2 * BlockPages[o]

ASSUME RegionAssumption ==
  /\ PageCount \in Nat \ {0}
  /\ PageCount < BlockPages[MaxOrder + 1]
  /\ TablePages \in 1 .. PageCount

\* The first request is new()'s own, for the order table.
ASSUME RequestAssumption == Requests \subseteq Nat /\ TablePages \in Requests

VARIABLES
  free_lists,       \* the free list of every order
  allocated_pages,  \* the counter behind get_free_page_count
  orders,           \* the order table; NoOrder (0xFF) marks "not a block"
  ready,            \* MAIN_BUDDY_ALLOCATOR is Some
  pc,               \* the loop the running call is in, or "idle"
  cur,              \* the local variables of the running call
  result            \* the last request to alloc and what it returned

vars == <<free_lists, allocated_pages, orders, ready, pc, cur, result>>

Orders  == 0 .. MaxOrder
Pages   == 0 .. (PageCount - 1)
NoOrder == 255
Null    == -1
NoCall  == [addr |-> 0, order |-> 0, want |-> 0, arg |-> 0]
Blank   == [p \in Pages |-> NoOrder]

Elems(s) == {s[i] : i \in 1 .. Len(s)}
Span(a, o) == a .. (a + BlockPages[o] - 1)
Aligned(a, o) == a % BlockPages[o] = 0
Smaller(a, b) == IF a < b THEN a ELSE b

-------------------------------------------------------------------------------
(* required_order: the smallest order whose block holds n pages.           *)
IsRequiredOrder(n, o) ==
  /\ n <= BlockPages[o]
  /\ o > 0 => BlockPages[o - 1] < n

(* find_buddy: addr ^ (1 << order), the address with bit `order` flipped.  *)
find_buddy(a, o) ==
  IF a % BlockPages[o + 1] < BlockPages[o]
  THEN a + BlockPages[o]
  ELSE a - BlockPages[o]

(* Variant of Push: the old head is not chained.                           *)
PushOnly(s, a) == <<a>>

(* add_free_block: push a block at the head of its list.                   *)
Push(s, a) == <<a>> \o s

(* Variant of Unlink: the block stays in the list.                         *)
UnlinkNot(s, i) == s

(* remove_free_block, once the block was found as the i-th of the list.    *)
Unlink(s, i) == [j \in 1 .. (Len(s) - 1) |-> IF j < i THEN s[j] ELSE s[j + 1]]

(* The search of alloc: the first order from `want` up with a free block.  *)
FirstNonEmpty(want, c) ==
  /\ c \in want .. MaxOrder
  /\ free_lists[c] # <<>>
  /\ \A d \in want .. (c - 1) : free_lists[d] = <<>>

-------------------------------------------------------------------------------
Init ==
  /\ free_lists = [o \in Orders |-> <<>>]
  /\ allocated_pages = 0
  /\ orders = [p \in Pages |-> 0]  \* not yet written: whatever memory holds
  /\ ready = FALSE
  /\ pc = "init"
  /\ cur = [NoCall EXCEPT !.order = MaxOrder]
  /\ result = [pages |-> 0, addr |-> Null]

(* One iteration of BuddyPageAllocator::init; cur.addr is curr_page.       *)
NextInitOrder(page) ==
  IF cur.order = 0
  THEN pc' = "idle" /\ cur' = NoCall
  ELSE pc' = "init" /\ cur' = [cur EXCEPT !.order = @ - 1, !.addr = page]

(* Variant of InitSkip: the order is not lowered.                          *)
InitSkipStuck ==
  /\ pc = "init"
  /\ PageCount - cur.addr < BlockPages[cur.order]
  /\ UNCHANGED vars
InitSkip ==
  /\ pc = "init"
  /\ PageCount - cur.addr < BlockPages[cur.order]
  /\ NextInitOrder(cur.addr)
  /\ UNCHANGED <<free_lists, allocated_pages, orders, ready, result>>

InitBlock ==
  /\ pc = "init"
  /\ PageCount - cur.addr >= BlockPages[cur.order]
  /\ free_lists' = [free_lists EXCEPT ![cur.order] = <<cur.addr>>]
  /\ NextInitOrder(cur.addr + BlockPages[cur.order])
  /\ UNCHANGED <<allocated_pages, orders, ready, result>>

-------------------------------------------------------------------------------
(* BuddyPageAllocator::alloc up to its split loop, called by               *)
(* ExtendedBuddyPageAllocator::new (for the order table) and ::alloc.      *)
AllocBegin(n) ==
  /\ pc = "idle"
  /\ n > 0
  /\ \E o \in Orders : \E c \in Orders :
       /\ IsRequiredOrder(n, o)
       /\ FirstNonEmpty(o, c)
       /\ cur' = [addr |-> 0, order |-> c, want |-> o, arg |-> n]
  /\ pc' = "split"
  /\ UNCHANGED <<free_lists, allocated_pages, orders, ready, result>>

(* Variant of AllocNone: gives up when the order itself has no free block. *)
AllocNoneEarly(n) ==
  /\ pc = "idle"
  /\ \A o \in Orders : n > 0 /\ IsRequiredOrder(n, o) => free_lists[o] = <<>>
  /\ result' = [pages |-> n, addr |-> Null]
  /\ UNCHANGED <<free_lists, allocated_pages, orders, ready, pc, cur>>

(* The three early returns of alloc: no pages asked for, an order above    *)
(* MAX_ORDER, no free block of a sufficient order.                         *)
AllocNone(n) ==
  /\ pc = "idle"
  /\ \A o \in Orders :
       n > 0 /\ IsRequiredOrder(n, o) => \A c \in o .. MaxOrder : free_lists[c] = <<>>
  /\ result' = [pages |-> n, addr |-> Null]
  /\ UNCHANGED <<free_lists, allocated_pages, orders, ready, pc, cur>>

(* One iteration of the split loop: consume the head block of the current  *)
(* order and push its halves, the upper one first.                         *)
Split ==
  /\ pc = "split"
  /\ cur.order > cur.want
  /\ LET c == cur.order
         b == Head(free_lists[c])
     IN free_lists' =
          [free_lists EXCEPT ![c] = Tail(@),
                             ![c - 1] = Push(Push(@, b + BlockPages[c - 1]), b)]
  /\ cur' = [cur EXCEPT !.order = @ - 1]
  /\ UNCHANGED <<allocated_pages, orders, ready, pc, result>>

(* The end of alloc, and mark_used by the caller.  The first allocation is *)
(* the order table's own, which new() fills with 0xFF before marking it.   *)
Take ==
  /\ pc = "split"
  /\ cur.order = cur.want
  /\ LET b == Head(free_lists[cur.want])
     IN /\ free_lists' = [free_lists EXCEPT ![cur.want] = Tail(@)]
        /\ orders' = [(IF ready THEN orders ELSE Blank) EXCEPT ![b] = cur.want]
        /\ result' = [pages |-> cur.arg, addr |-> b]
  /\ allocated_pages' = allocated_pages + BlockPages[cur.want]
  /\ ready' = TRUE
  /\ pc' = "idle"
  /\ cur' = NoCall

-------------------------------------------------------------------------------
(* ExtendedBuddyPageAllocator::free on an address that is outside the      *)
(* region or is not the start of an allocated block.                       *)
FreeIgnored(a) ==
  /\ pc = "idle"
  /\ ready
  /\ a \in Pages => orders[a] = NoOrder
  /\ UNCHANGED vars

FreeBegin(a) ==
  /\ pc = "idle"
  /\ ready
  /\ a \in Pages
  /\ orders[a] # NoOrder
  /\ allocated_pages' = allocated_pages - BlockPages[orders[a]]
  /\ cur' = [addr |-> a, order |-> orders[a], want |-> 0, arg |-> a]
  /\ pc' = "merge"
  /\ UNCHANGED <<free_lists, orders, ready, result>>

(* Variant of MarkFree: the order table keeps the block.                   *)
MarkFreeNot == pc' = "idle" /\ cur' = NoCall /\ UNCHANGED orders

MarkFree ==
  /\ orders' = [orders EXCEPT ![cur.arg] = NoOrder]
  /\ pc' = "idle"
  /\ cur' = NoCall

(* An iteration of free whose buddy is free: unlink it and carry the       *)
(* merged block up one order, or drop it above MAX_ORDER.                  *)
Merge ==
  /\ pc = "merge"
  /\ LET b == find_buddy(cur.addr, cur.order)
         l == free_lists[cur.order]
     IN /\ \E i \in 1 .. Len(l) :
             /\ l[i] = b
             /\ \A j \in 1 .. (i - 1) : l[j] # b
             /\ free_lists' = [free_lists EXCEPT ![cur.order] = Unlink(l, i)]
        /\ IF cur.order = MaxOrder
           THEN MarkFree
           ELSE /\ cur' = [cur EXCEPT !.addr = Smaller(@, b), !.order = @ + 1]
                /\ UNCHANGED <<orders, pc>>
  /\ UNCHANGED <<allocated_pages, ready, result>>

(* Variant of AddFree: the block is pushed without looking for its buddy.  *)
AddFreeEager ==
  /\ pc = "merge"
  /\ free_lists' = [free_lists EXCEPT ![cur.order] = Push(@, cur.addr)]
  /\ MarkFree
  /\ UNCHANGED <<allocated_pages, ready, result>>

(* An iteration of free whose buddy is not free: push the block, return.   *)
AddFree ==
  /\ pc = "merge"
  /\ find_buddy(cur.addr, cur.order) \notin Elems(free_lists[cur.order])
  /\ free_lists' = [free_lists EXCEPT ![cur.order] = Push(@, cur.addr)]
  /\ MarkFree
  /\ UNCHANGED <<allocated_pages, ready, result>>

Step == InitSkip \/ InitBlock \/ Split \/ Take \/ Merge \/ AddFree

Next ==
  \/ Step
  \/ ~ready /\ AllocBegin(TablePages)
  \/ ready /\ \E n \in Requests : AllocBegin(n) \/ AllocNone(n)
  \/ \E a \in 0 .. PageCount : FreeBegin(a) \/ FreeIgnored(a)

Spec == Init /\ [][Next]_vars /\ WF_vars(Step)

-------------------------------------------------------------------------------
(* The blocks of the region: on a free list, in the hands of the running   *)
(* free, or held by a caller.                                              *)
FreeBlocks == {b \in Pages \X Orders : b[1] \in Elems(free_lists[b[2]])}

HandBlocks == IF pc = "merge" THEN {<<cur.addr, cur.order>>} ELSE {}

HeldBlocks ==
  {b \in Pages \X Orders :
     /\ ready
     /\ orders[b[1]] = b[2]
     /\ ~(pc = "merge" /\ b[1] = cur.arg)}

Blocks == FreeBlocks \cup HandBlocks \cup HeldBlocks

Meet(b, c) == Span(b[1], b[2]) \cap Span(c[1], c[2]) # {}

(* Types: free lists hold pages of the region, the order table orders or   *)
(* the mark 0xFF, and alloc returns a page of the region or null.          *)
TypeOK ==
  /\ free_lists \in [Orders -> Seq(Pages)]
  /\ allocated_pages \in Int
  /\ orders \in [Pages -> Orders \cup {NoOrder}]
  /\ ready \in BOOLEAN
  /\ pc \in {"init", "idle", "split", "merge"}
  /\ cur \in [addr : Nat, order : Orders, want : Orders, arg : Nat]
  /\ result \in [pages : Nat, addr : Pages \cup {Null}]

(* Every block is aligned to its size, as add_free_block asserts, and lies *)
(* inside the region, as the comments of alloc and free claim.             *)
WellPlaced ==
  \A b \in Blocks : Aligned(b[1], b[2]) /\ Span(b[1], b[2]) \subseteq Pages

(* A free list chains no block twice: the intrusive `next` pointers of     *)
(* alloc and free never form a cycle.                                      *)
NoDuplicates ==
  \A o \in Orders : \A i, j \in 1 .. Len(free_lists[o]) :
    free_lists[o][i] = free_lists[o][j] => i = j

(* No page belongs to two blocks: memory that alloc has handed out is      *)
(* never on a free list, nor part of another caller's block.               *)
NoSharing ==
  /\ \A b, c \in Blocks : Meet(b, c) => b = c
  /\ FreeBlocks \cap HeldBlocks = {}
  /\ FreeBlocks \cap HandBlocks = {}
  /\ HeldBlocks \cap HandBlocks = {}

(* No page is lost: once init is done, every page of the region belongs to *)
(* a block, also while free is merging (which drops a block that it merged *)
(* above MAX_ORDER).                                                       *)
NoLostPage ==
  pc # "init" => \A p \in Pages : \E b \in Blocks : p \in Span(b[1], b[2])

(* What the loop of init keeps true of curr_page (cur.addr) and of the     *)
(* blocks laid out so far: they tile the pages below it, and what is left  *)
(* fits below the next order.                                              *)
InitProgress ==
  pc = "init" =>
    /\ ~ready
    /\ cur.addr <= PageCount
    /\ cur.addr % BlockPages[cur.order + 1] = 0
    /\ PageCount - cur.addr < BlockPages[cur.order + 1]
    /\ \A o \in 0 .. cur.order : free_lists[o] = <<>>
    /\ \A b \in FreeBlocks : b[1] + BlockPages[b[2]] <= cur.addr
    /\ \A p \in 0 .. (cur.addr - 1) : \E b \in FreeBlocks : p \in Span(b[1], b[2])

(* What the loops of alloc and free keep true: the split loop always finds *)
(* a block ("Now free_lists[order] should have a block"), and the block    *)
(* being freed is marked used until free is done with it.                  *)
CallProgress ==
  /\ pc = "split" => cur.want <= cur.order /\ free_lists[cur.order] # <<>>
  /\ pc = "merge" =>
       ready /\ cur.addr \in Pages /\ cur.arg \in Pages /\ orders[cur.arg] # NoOrder

(* The inductive invariant: the blocks tile the region at every iteration  *)
(* of every loop.                                                          *)
IInv ==
  /\ TypeOK
  /\ WellPlaced
  /\ NoDuplicates
  /\ NoSharing
  /\ NoLostPage
  /\ InitProgress
  /\ CallProgress

(* Between calls no free block lies beside its free buddy: the merge loop  *)
(* of free never stops early.                                              *)
Coalesced ==
  pc = "idle" =>
    \A b \in FreeBlocks : find_buddy(b[1], b[2]) \notin Elems(free_lists[b[2]])

(* Coalesced in the middle of a call: the only free buddies are the halves *)
(* that the split loop just made, and alloc goes on with one of them.      *)
Mate(b) == <<find_buddy(b[1], b[2]), b[2]>>

SplitApart ==
  \A b \in FreeBlocks :
    Mate(b) \in FreeBlocks =>
      pc = "split" /\ <<Head(free_lists[cur.order]), cur.order>> \in {b, Mate(b)}

(* The order the split loop goes down to is the one of a caller's request. *)
Serves ==
  pc = "split" =>
    cur.arg \in Requests /\ cur.arg > 0 /\ IsRequiredOrder(cur.arg, cur.want)

CInv == IInv /\ SplitApart /\ Serves

(* The allocator implements PageAllocator: a block it returns is aligned   *)
(* and disjoint from every allocated one, free gives back exactly the      *)
(* block, and alloc returns None only when no aligned run of vacant pages  *)
(* could hold the request.                                                 *)
allocatedBlocks ==
  {b \in Pages \X Orders : ready /\ orders[b[1]] = b[2]}

Abstract == INSTANCE PageAllocator WITH allocated <- allocatedBlocks
Refinement == Abstract!ASpec

(* Every call returns: the loops of init, alloc and free terminate.        *)
CallsReturn == pc # "idle" ~> pc = "idle"
===============================================================================
