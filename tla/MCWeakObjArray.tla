--------------------------- MODULE MCWeakObjArray ---------------------------
EXTENDS WeakObjArray, TLC

CONSTANTS a1, a2, a3, p1, p2

ThreeAddresses == {a1, a2, a3}
TwoPointers    == {p1, p2}
Symmetric      == Permutations(ThreeAddresses) \cup Permutations(TwoPointers)
=============================================================================
