SPECIFICATION Spec
CONSTANTS
  o1 = o1
  o2 = o2
  Objs <- MCObjs
  Increment = 1
  MaxObjects = 2
  MaxUds = 3
  Garbage <- Written
SYMMETRY Swapped
INVARIANTS
  LightIsExact
  InfoIsTrue
  GcFindsItsEntry
  PushAnswersOwn
PROPERTIES
  InfoOnlyRefines
CHECK_DEADLOCK FALSE
