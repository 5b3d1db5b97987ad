SPECIFICATION Spec
CONSTANTS
  a1 = a1
  a2 = a2
  a3 = a3
  p1 = p1
  p2 = p2
  Addresses <- ThreeAddresses
  Pointers <- TwoPointers
  inc = 2
  MaxSerial = 4
  MaxLife = 2
SYMMETRY Symmetric
INVARIANT PointersAreExact
INVARIANT SlotsHaveOneUse
PROPERTY WeakRefSpec
