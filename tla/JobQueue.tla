------------------------------ MODULE JobQueue ------------------------------
(***************************************************************************)
(* What the job scheduler promises, without requests, statuses or locks:   *)
(* each job that is added is run once, when its turn comes, and one at a   *)
(* time; its threads are the only ones alive, and it is over when they     *)
(* have ended.  A job whose end is not waited for stays the last one.      *)
(***************************************************************************)
EXTENDS Sequences, SequencesExt

CONSTANTS
  Jobs,  \* the jobs that may be added
  None   \* no job

VARIABLES
  waiting,  \* the jobs that have been added, in their order
  active,   \* the job whose turn it is
  alive,    \* the jobs a thread of which is alive
  over      \* the jobs that are over, in the order in which they were run

vars == <<waiting, active, alive, over>>

Init == waiting = << >> /\ active = None /\ alive = {} /\ over = << >>

(* JobScheduler.addJob; the job is new.                                    *)
Add(j) ==
  /\ j # active
  /\ j \notin ToSet(waiting) \cup ToSet(over)
  /\ waiting' = Append(waiting, j)
  /\ UNCHANGED <<active, alive, over>>

(* The loop of JobScheduler.run takes the next job.                        *)
Begin ==
  /\ active = None
  /\ waiting # << >>
  /\ active' = Head(waiting)
  /\ waiting' = Tail(waiting)
  /\ UNCHANGED <<alive, over>>

(* Job.runJob and Job.stopJob start and end the threads of that job.       *)
Work ==
  /\ active # None
  /\ alive' \in SUBSET {active}
  /\ UNCHANGED <<waiting, active, over>>

(* runJob has returned.                                                    *)
End ==
  /\ active # None
  /\ alive = {}
  /\ over' = Append(over, active)
  /\ active' = None
  /\ UNCHANGED <<waiting, alive>>

Next == Begin \/ Work \/ End \/ \E j \in Jobs : Add(j)

Spec == Init /\ [][Next]_vars
=============================================================================
