------------------------------- MODULE MCPipeFs --------------------------------
(* An instance of PipeFs: buffers of up to two bytes, and addresses that   *)
(* are interchangeable.                                                    *)
EXTENDS PipeFs, TLC

AnyRequest == UNION {[1 .. k -> Bytes] : k \in 0 .. 2}
AnyFlags == {{"READ"}, {"WRITE"}, {"READ", "WRITE"}, {"READ", "FAIL_IF_EXISTS"},
             {"WRITE", "APPEND"}}
AddressSymmetry == Permutations(Addresses)
===============================================================================
