--------------------------- MODULE ContactQueryMC ---------------------------
EXTENDS ContactQuery, TLC
Symmetry == Permutations(Inquiries) \cup Permutations(Jobs)
=============================================================================
