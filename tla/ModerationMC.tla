---------------------------- MODULE ModerationMC ----------------------------
EXTENDS Moderation, TLC
Symmetry == Permutations(Ids \ {Owner}) \cup Permutations(Emails \ {OwnerEmail})
            \cup Permutations(Invites) \cup Permutations(Jobs)
=============================================================================
