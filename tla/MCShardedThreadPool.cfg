SPECIFICATION FairSpec
CONSTANTS
  i1 = i1
  i2 = i2
  k1 = k1
  k2 = k2
  k3 = k3
  WorkerCount = 2
  Task <- MCTask
  Key = {k1, k2, k3}
  KeyOf <- MCKeyOf
  Shard <- MCShard
  Io = {i1, i2}
  Script <- MCScript
INVARIANTS TakesFromNonEmpty ExitedWorkerHasNoTasks KeyOrder
PROPERTY AcceptedTaskStarts
