SPECIFICATION FairSpec
CONSTANTS
  w1 = w1
  w2 = w2
  owner = owner
  client = client
  t1 = t1
  t2 = t2
  t3 = t3
  NoTask = NoTask
  NoThread = NoThread
  Workers <- TwoWorkers
  Clients <- TwoClients
  Owner <- owner
  Tasks <- TwoTasks
  Expected <- LastExpected
INVARIANT TypeOK
INVARIANT WorkedAtMostOnce
INVARIANT ReadyHasResult
INVARIANT QuiescentWhenDown
PROPERTY TasksAreNotLost
PROPERTY ServiceSpec
PROPERTY AwakePoolDrains
PROPERTY NotifiedPoolDrains
