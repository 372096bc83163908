------------------------------- MODULE DeskMC -------------------------------
EXTENDS Desk, TLC
Symmetry == Permutations(Tasks)
=============================================================================
