SPECIFICATION Spec
CONSTANTS
  a = a
  b = b
  Names <- MCNames
  MaxScopes = 3
  MaxDecls = 4
SYMMETRY Swapped
INVARIANTS
  OverflowNeedsOpenMember
  MergeFollowsScopes
PROPERTIES
  InheritedIsFinal
CHECK_DEADLOCK FALSE
