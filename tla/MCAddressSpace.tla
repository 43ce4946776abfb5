----------------------------- MODULE MCAddressSpace -----------------------------
(***************************************************************************)
(* Two processes.  Of a PML4, entries 0 and 1 are the lower half, 2 and 3  *)
(* are shared, 5 holds the kernel stack; entry 1, with the user stack, and *)
(* entry 5 are odd like 255 and 415 are.                                   *)
(***************************************************************************)
EXTENDS AddressSpace

Segment(virt, pages, in_file) == [virt |-> virt, pages |-> pages, in_file |-> in_file]

(* Two segments that share a page; two below the stack, which may grow to  *)
(* the second; one whose second segment is not in the file; and one in a   *)
(* region that the kernel shares.                                          *)
SomePrograms ==
  {<<Segment(1, 2, TRUE), Segment(2, 2, TRUE)>>,
   <<Segment(8, 1, TRUE), Segment(13, 1, TRUE)>>,
   <<Segment(8, 1, TRUE), Segment(4, 1, FALSE)>>,
   <<Segment(28, 1, TRUE)>>}

Symmetry == Permutations(Procs)
SharedPair == {2, 3}
Ists == <<<<20, 2000>>, <<16, 2002>>>>
Screens == {<<1000, 3>>, <<1001, 3>>}
Offset == 24 - 1000
===============================================================================
