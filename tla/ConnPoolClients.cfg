CONSTANTS
  WorkerConnections = 2
  ListenPortCount = 1
  RecyConnectionWaitTime = 2
  Users = {u1}
  MaxBurst = 1
  NumFds = 3
  MaxAccepts = 3
  MaxTime = 4
SPECIFICATION Spec
INVARIANT ClientLimit
CHECK_DEADLOCK FALSE
