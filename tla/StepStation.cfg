SPECIFICATION FairStationSpec
CONSTANTS
  root = root
  A = A
  B = B
  bodyA = bodyA
  bodyB = bodyB
  par = par
  None = None
  Stations <- AllStations
  Parallels <- OneParallel
  Leaves <- Functions
  Root = root
  Body <- BodyOfAB
  MaxGuards = 2
  MaxWaits = 1
INVARIANT UndoIsExact
INVARIANT DestroyedIsEmpty
PROPERTY UndoInReverse
PROPERTY StepEndReturns
