--------------------------- MODULE MCBuddyAllocator ---------------------------
(***************************************************************************)
(* BuddyAllocator on a small region.  The page count is no power of two,   *)
(* so init lays out blocks of several orders and the last block of each    *)
(* order has a buddy that is split or lies outside the region; the         *)
(* requests include 0, sizes between two orders and one above MAX_ORDER.   *)
(***************************************************************************)
EXTENDS BuddyAllocator

MCBlockPages == [o \in 0 .. (MaxOrder + 1) |-> 2 ^ o]
MCRequests   == {0, 1, 2, 3, 5}
===============================================================================
