------------------------------ MODULE MCPataDisk -------------------------------
(* A drive of three sectors of two words.  The first word of sector 0 tells *)
(* which table it holds: two partitions in a GPT, one in an MBR, or none.  *)
EXTENDS PataDisk, TLC

Table(d) ==
  CASE d[0][1] = 1 -> [scheme |-> "GPT", entries |-> <<[first_lba |-> 2, last_lba |-> 2],
                                                       [first_lba |-> 1, last_lba |-> 1]>>]
    [] d[0][1] = 2 -> [scheme |-> "MBR", entries |-> <<[os_type |-> 0, start_lba |-> 0, sector_count |-> 0],
                                                       [os_type |-> 1, start_lba |-> 1, sector_count |-> 2]>>]
    [] OTHER -> [scheme |-> "None", entries |-> <<>>]

Boot == [s \in 0 .. 2 |-> IF s = 0 THEN <<1, 0>> ELSE <<0, 0>>]

Modes == {{"READ", "WRITE"}, {"WRITE"}, {"WRITE", "APPEND"}}

(* The drive gets a new table, a partition data across a sector's end or,  *)
(* past its own end, in its neighbour.                                     *)
Writes(d) ==
  IF d = Closed THEN {}
  ELSE IF d.file = Whole THEN IF d.position = 0 THEN {<<2>>} ELSE {}
  ELSE IF d.position = 1 THEN {<<3, 4, 3>>}
  ELSE IF PastEnd(d) THEN {<<3>>} ELSE {}

HandleSymmetry == Permutations(Handles)

(* No step reads what the last call returned.                              *)
StateView == <<disk, controller, hooks, handle, panicked>>
===============================================================================
