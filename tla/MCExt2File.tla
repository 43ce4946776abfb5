------------------------------ MODULE MCExt2File -------------------------------
(* Two instances of Ext2File with one direct pointer and blocks of two     *)
(* words.  In the first there is one file, with two levels of tables, that *)
(* is read and overwritten at will.  In the second there are two files,    *)
(* with inodes in two groups, on a volume that has room for a file with    *)
(* all three levels and a small one beside it; they grow, level by level,  *)
(* and shrink, but are not read.                                           *)
EXTENDS Ext2File

GroupSize == [block |-> 5, inode |-> 2]
VolumeSize == [block |-> 10, inode |-> 4]
LargerGroups == [block |-> 9, inode |-> 2]
LargerVolume == [block |-> 18, inode |-> 4]
OneLeft == [block |-> {1}, inode |-> {1, 2}]
TwoLeft == [block |-> {1}, inode |-> {1}]
ReadWrite == {{"READ", "WRITE"}}
AnyWrite == {{"READ", "WRITE"}, {"READ", "WRITE", "NO_RESIZE"}}

(* A word tells its position, and one buffer overwrites what is there.     *)
Stamped(p) ==
  {[i \in 1 .. (IF p = 3 THEN 5 ELSE 3) |-> Junk + p + i]} \cup (IF p = 2 THEN {<<50, 50, 50>>} ELSE {})

(* A write fills one block, or all up to the third level.                  *)
ByLevels(p) == {[i \in 1 .. (IF p = 2 THEN 12 ELSE 2) |-> Junk]}
===============================================================================
