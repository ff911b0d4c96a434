\* Three workers: two can die before the master has handled the death of one.
CONSTANTS
  WorkerProcesses = 3
SPECIFICATION MasterFairSpec
INVARIANTS MasterTypeOK ZombieNoticed
PROPERTY ZombieReaped
