--------------------------- MODULE MCCounterRates ---------------------------
(* CounterRates for TLC: a disk counter of the node loop, and the CPU time   *)
(* of a VM, which two loops observe and which are symmetric.                 *)
EXTENDS CounterRates, TLC

Symmetry == Permutations(NodeLoops) \cup Permutations(VMLoops)
=============================================================================
