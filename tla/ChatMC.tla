------------------------------- MODULE ChatMC -------------------------------
EXTENDS Chat, TLC
Symmetry == Permutations(Sockets) \cup Permutations(Messages) \cup Permutations(Texts)
            \cup Permutations(Jobs)
=============================================================================
