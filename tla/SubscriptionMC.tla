--------------------------- MODULE SubscriptionMC ---------------------------
EXTENDS Subscription, TLC
Symmetry == Permutations(Users) \cup Permutations(Customers) \cup Permutations(Jobs)
=============================================================================
