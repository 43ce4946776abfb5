---------------------------- MODULE PageAllocator ----------------------------
(***************************************************************************)
(* What the kernel's page allocator promises to its callers: a block it    *)
(* hands out is aligned, lies inside the managed region and shares no page *)
(* with a block that is still allocated, and a request is refused only     *)
(* when no such block is left.  BuddyAllocator is shown to implement this. *)
(* Addresses are page numbers relative to base_addr.                       *)
(***************************************************************************)
EXTENDS Integers

CONSTANTS
  MaxOrder,    \* MAX_ORDER: the largest block order
  PageCount,   \* page_count: the number of pages of the region
  BlockPages,  \* BlockPages[o] is 1 << o, the pages of a block of order o
  Requests     \* the page counts callers may ask for

VARIABLES
  allocated,   \* the blocks <<addr, order>> callers hold
  result       \* the last allocation request and its answer

avars == <<allocated, result>>

Null == -1

Span(a, o) == a .. (a + BlockPages[o] - 1)

IsRequiredOrder(n, o) ==
  /\ n <= BlockPages[o]
  /\ o > 0 => BlockPages[o - 1] < n

(* The aligned blocks of order o that collide with no allocated block.     *)
Vacant(o) ==
  {a \in 0 .. (PageCount - BlockPages[o]) :
     /\ a % BlockPages[o] = 0
     /\ \A b \in allocated : Span(a, o) \cap Span(b[1], b[2]) = {}}

AInit == allocated = {} /\ result = [pages |-> 0, addr |-> Null]

AAlloc(n) ==
  \E o \in 0 .. MaxOrder :
    /\ n > 0
    /\ IsRequiredOrder(n, o)
    /\ \E a \in Vacant(o) :
         /\ allocated' = allocated \cup {<<a, o>>}
         /\ result' = [pages |-> n, addr |-> a]

ARefuse(n) ==
  /\ \A o \in 0 .. MaxOrder : n > 0 /\ IsRequiredOrder(n, o) => Vacant(o) = {}
  /\ result' = [pages |-> n, addr |-> Null]
  /\ UNCHANGED allocated

AFree(b) ==
  /\ allocated' = allocated \ {b}
  /\ UNCHANGED result

ANext ==
  \/ \E n \in Requests : AAlloc(n) \/ ARefuse(n)
  \/ \E b \in allocated : AFree(b)

ASpec == AInit /\ [][ANext]_avars
==============================================================================
