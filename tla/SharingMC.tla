------------------------------ MODULE SharingMC ------------------------------
EXTENDS Sharing, TLC
Symmetry == Permutations(Users) \cup Permutations(Tokens) \cup Permutations(Jobs)
            \cup Permutations(Names)
=============================================================================
