-------------------------- MODULE MCStabilityPool ---------------------------
EXTENDS StabilityPool, TLC

CONSTANTS o1, o2, o3

\* Front ends and depositors are told apart by what they do only.
OwnerSymmetry == Permutations(Owners)
=============================================================================
