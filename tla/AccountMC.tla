----------------------------- MODULE AccountMC -----------------------------
EXTENDS Account, TLC
Symmetry == Permutations(Rows) \cup Permutations(Emails) \cup Permutations(Jobs)
=============================================================================
