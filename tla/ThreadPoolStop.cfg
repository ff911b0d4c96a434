CONSTANTS
  Threads = {t1, t2}
  Nobody = Nobody
  MaxJobs = 1
SPECIFICATION FairSpec
PROPERTY StopAllReturns
CHECK_DEADLOCK FALSE
