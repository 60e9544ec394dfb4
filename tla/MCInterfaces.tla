---------------------------- MODULE MCInterfaces ----------------------------
EXTENDS Interfaces, TLC

Symmetry == Permutations(Threads)
=============================================================================
