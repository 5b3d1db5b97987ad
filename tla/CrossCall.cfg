SPECIFICATION Spec
CONSTANTS
  Modules <- TwoModules
  Messages <- SomeMessages
  Size = 8
  MaxCalls = 5
  MaxDepth = 3
INVARIANT ParamsAreOwn
INVARIANT AnswerIsOwn
CHECK_DEADLOCK FALSE
