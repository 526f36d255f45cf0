---------------------------- MODULE JobContract ----------------------------
(***************************************************************************)
(* What the threads of a job promise together, without workers, messages   *)
(* or locks: the jobs run one after the other; a job merges answers of its *)
(* own pairs while it maps, then freezes the groups and reduces each of    *)
(* them as a whole, and a job that reduces does not finish before.         *)
(***************************************************************************)
EXTENDS Naturals, Sequences

CONSTANTS
  Keys,     \* keys of the intermediate pairs
  JobList   \* the jobs, described as in MapReduce

VARIABLES
  job,      \* jobs started; the last one runs
  phase,    \* "map", "reduce" or "finished"
  groups,   \* the pairs that emitted each key
  results   \* a key and the pairs behind its value

vars == <<job, phase, groups, results>>

NoGroups == [k \in Keys |-> {}]

Init ==
  /\ job = 0
  /\ phase = "finished"
  /\ groups = NoGroups
  /\ results = {}

(* JobScheduler.run, Job.runJob                                            *)
Begin ==
  /\ phase = "finished"
  /\ job < Len(JobList)
  /\ job' = job + 1
  /\ phase' = "map"
  /\ groups' = NoGroups
  /\ results' = {}

(* MapReducer.addFinishedMapper of a pair of the job                       *)
Merge ==
  /\ phase = "map"
  /\ \E p \in DOMAIN JobList[job].emit :
       LET emits == JobList[job].emit[p]
       IN IF JobList[job].mapOnly
          THEN /\ results' = results \cup
                             {[key |-> k, values |-> {p}] : k \in emits}
               /\ UNCHANGED groups
          ELSE /\ groups' = [k \in Keys |->
                             groups[k] \cup IF k \in emits THEN {p} ELSE {}]
               /\ UNCHANGED results
  /\ UNCHANGED <<job, phase>>

(* MapReducer.startReduce                                                  *)
Freeze ==
  /\ phase = "map"
  /\ ~JobList[job].mapOnly
  /\ phase' = "reduce"
  /\ UNCHANGED <<job, groups, results>>

(* MapReducer.addFinishedReducer of key k                                  *)
Reduce(k) ==
  /\ phase = "reduce"
  /\ groups[k] # {}
  /\ results' = results \cup {[key |-> k, values |-> groups[k]]}
  /\ UNCHANGED <<job, phase, groups>>

(* The end of MapReducerListener.run                                       *)
Finish ==
  /\ phase # "finished"
  /\ phase = IF JobList[job].mapOnly THEN "map" ELSE "reduce"
  /\ JobList[job].endless /\ JobList[job].mapOnly => results # {}
  /\ phase' = "finished"
  /\ UNCHANGED <<job, groups, results>>

Next ==
  \/ Begin \/ Merge \/ Freeze \/ Finish
  \/ \E k \in Keys : Reduce(k)

Spec == Init /\ [][Next]_vars
=============================================================================
