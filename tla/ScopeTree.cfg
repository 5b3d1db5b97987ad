SPECIFICATION TreeSpec
CONSTANTS
  Keys <- SomeKeys
  Capacity = 8
  End = End
VIEW Shape
INVARIANT LinksAgree
INVARIANT RedBlack
INVARIANT IterationIsSorted
PROPERTY ElementsStay
PROPERTY SortedSetSpec
