-------------------------- MODULE MCSharedObjArray --------------------------
EXTENDS SharedObjArray, TLC

CONSTANTS v1, v2

TwoVars   == {v1, v2}
Symmetric == Permutations(TwoVars)
=============================================================================
