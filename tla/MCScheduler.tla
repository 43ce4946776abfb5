------------------------------ MODULE MCScheduler ------------------------------
(* The scheduler with a few processes, the smallest stacks that can grow,  *)
(* and one buffer set aside for the kernel stack.                          *)
EXTENDS Scheduler

(* All calls but set_gs, which differs from set_fs only in the base it     *)
(* sets.                                                                   *)
SomeCalls == {"plain", "io", "set_fs", "yield", "exit"}
===============================================================================
