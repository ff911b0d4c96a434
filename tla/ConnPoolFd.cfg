CONSTANTS
  WorkerConnections = 2
  ListenPortCount = 1
  RecyConnectionWaitTime = 2
  Users = {u1}
  MaxBurst = 1
  NumFds = 2
  MaxAccepts = 2
  MaxTime = 4
SPECIFICATION Spec
INVARIANT NoCrossTalk
CHECK_DEADLOCK FALSE
