SPECIFICATION Spec
CONSTANTS
  v1 = v1
  v2 = v2
  Vars <- TwoVars
  Inc = 2
  MaxSlots = 4
SYMMETRY Symmetric
INVARIANT CountsSuffice
INVARIANT NoneDangles
INVARIANT FreeListIsExact
