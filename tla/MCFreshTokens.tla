---------------------------- MODULE MCFreshTokens ----------------------------
\* The instance of FreshTokens for TLC: two refreshers are interchangeable, and so
\* are the guardians.
EXTENDS FreshTokens, TLC

Symmetry == Permutations(Proc) \cup Permutations(Users)
=============================================================================
