------------------------------ MODULE JobQueue ------------------------------
(***************************************************************************)
(* What CThreadPool promises the event loop that feeds it: jobs are handed *)
(* to threads in the order they were submitted, each of them to exactly    *)
(* one thread, and none of them is lost.  Jobs are numbered in the order   *)
(* of their submission, so that the job handed out next is taken + 1.      *)
(***************************************************************************)
EXTENDS Naturals

VARIABLES
  submitted,   \* number of jobs submitted so far
  taken,       \* number of jobs handed to a thread so far
  running      \* the jobs a thread is working on

vars == <<submitted, taken, running>>

Init ==
  /\ submitted = 0
  /\ taken = 0
  /\ running = {}

Submit ==
  /\ submitted' = submitted + 1
  /\ UNCHANGED <<taken, running>>

Take ==
  /\ taken < submitted
  /\ taken' = taken + 1
  /\ running' = running \cup {taken + 1}
  /\ UNCHANGED submitted

Finish(j) ==
  /\ j \in running
  /\ running' = running \ {j}
  /\ UNCHANGED <<submitted, taken>>

Next == Submit \/ Take \/ \E j \in running : Finish(j)

Spec == Init /\ [][Next]_vars
=============================================================================
