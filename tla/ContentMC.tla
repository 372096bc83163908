------------------------------ MODULE ContentMC ------------------------------
EXTENDS Content, TLC
Symmetry == Permutations(Faqs) \cup Permutations(Categories) \cup Permutations(Pages)
            \cup Permutations(Names) \cup Permutations(Jobs)
=============================================================================
