SPECIFICATION FairSpec
CONSTANTS
  w1 = w1
  w2 = w2
  owner = owner
  client = client
  t1 = t1
  t2 = t2
  t3 = t3
  NoTask = NoTask
  NoThread = NoThread
  Workers <- OneWorker
  Clients <- OwnerOnly
  Owner <- owner
  Tasks <- TwoTasks
  Expected <- LastExpected
PROPERTY ShutdownReturns
