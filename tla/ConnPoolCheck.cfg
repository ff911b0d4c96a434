\* One pooled client connection and two more that get allocated on demand; two
\* descriptors, so that a number is reused while its connection waits.
CONSTANTS
  WorkerConnections = 2
  ListenPortCount = 1
  RecyConnectionWaitTime = 2
  Users = {u1}
  MaxBurst = 1
  NumFds = 2
  MaxAccepts = 3
  MaxTime = 4
SPECIFICATION FairSpec
INVARIANTS TypeOK PoolPartition HeaderFresh FdOwned
PROPERTIES LeasesHold RecycleEventually
\* Nothing is left to do once the time and the clients are used up.
CHECK_DEADLOCK FALSE
