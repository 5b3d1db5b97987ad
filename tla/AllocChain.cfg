SPECIFICATION Spec
CONSTANTS
  Kinds <- BothKinds
  Align = 2
  Block = 6
  Pools <- SomePools
  Sizes <- SomeSizes
  MaxNodes = 3
  MaxLive = 5
INVARIANT BlocksAreKept
INVARIANT LiveIsApart
INVARIANT AllocSucceeds
INVARIANT DeallocFindsTop
INVARIANT UnusedStackIsFresh
