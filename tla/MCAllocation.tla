---------------------------- MODULE MCAllocation ----------------------------
EXTENDS AllocationClaims, TLC

CONSTANTS o1, o2, i1, i2

MCSubscribed == {<<o1, i1>>, <<o1, i2>>, <<o2, i1>>}

CallerSymmetry == Permutations(Callers)
=============================================================================
