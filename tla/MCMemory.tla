------------------------------ MODULE MCMemory ------------------------------
EXTENDS Memory, TLC
Symmetry == Permutations(Proc) \cup Permutations(Cpu)
=============================================================================
