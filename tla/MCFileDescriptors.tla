--------------------------- MODULE MCFileDescriptors ---------------------------
(* A table with a few slots beyond the standard ones; addresses are        *)
(* interchangeable.                                                        *)
EXTENDS FileDescriptors, TLC

OneByte == {<<0>>}
Matching == {{"READ"}, {"WRITE"}}
AddressSymmetry == Permutations(Addresses)
===============================================================================
