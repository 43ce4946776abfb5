------------------------------- MODULE MCExt2Dir --------------------------------
(* An instance of Ext2Dir: room for four short names in a directory, three *)
(* inodes over two groups, the mount point and paths that come back to the *)
(* root.                                                                   *)
EXTENDS Ext2Dir, TLC

GroupSize == [block |-> 1, inode |-> 3]
VolumeSize == [block |-> 3, inode |-> 6]
ShortAndLong == ("a" :> 1) @@ ("b" :> 2) @@ ("x" :> 65) @@ ("." :> 1) @@ (".." :> 1)
SomePaths ==
  {<<>>, <<".">>, <<"a">>, <<"b">>, <<"a", "b">>, <<"a", "..">>, <<"a", "..", "b">>, <<"a", ".">>}
===============================================================================
