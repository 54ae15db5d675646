--------------------------- MODULE MCStateAccess ---------------------------
EXTENDS StateAccess

\* Callers differ in nothing but what they have read.
CallerSymmetry == Permutations(Callers)
=============================================================================
