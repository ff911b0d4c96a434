\* Three threads and four jobs: jobs can outnumber the threads, and every
\* thread can be busy, blocked or on its way to the queue at once.
CONSTANTS
  Threads = {t1, t2, t3}
  Nobody = Nobody
  MaxJobs = 4
SPECIFICATION FairSpec
INVARIANTS TypeOK WorkConserving SaturationWarningTrue
PROPERTIES HandsOutInOrder CreateEnds EveryJobTaken
\* The pool stops when StopAll has returned, when the process has exited and
\* when every thread is blocked with no job left to submit.
CHECK_DEADLOCK FALSE
