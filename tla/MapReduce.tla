----------------------------- MODULE MapReduce -----------------------------
(***************************************************************************)
(* The jobs of the server.  The scheduler runs them one after the other;   *)
(* each job has two threads, the mapper (MapReducer.run), which hands out  *)
(* map tasks and then reduce tasks, and the listener                       *)
(* (MapReducerListener.run), which takes the answers of the workers from   *)
(* the communication buffer, merges them and decides when mapping and      *)
(* reducing are finished.                                                  *)
(*                                                                         *)
(* A program counter names the next step of each thread.  Steps of a       *)
(* thread that no other thread can tell apart are one action; where the    *)
(* code may be interleaved in a way that matters it is split.              *)
(***************************************************************************)
EXTENDS Workers, FiniteSets

CONSTANTS
  Keys,     \* keys of the intermediate pairs
  JobList,  \* the jobs given to the scheduler, in order
  None      \* no worker

(* A job is described by its kind and by what the map function emits for   *)
(* each pair of its problem iterator.  An endless job's iterator always    *)
(* has a next pair: the length of emit bounds how far it is followed.      *)
JobType == [mapOnly     : BOOLEAN,            \* setMapOnly was called
            stopOnFirst : BOOLEAN,            \* setStopOnFirstMap was called
            endless     : BOOLEAN,            \* hasNext is always true
            emit        : Seq(SUBSET Keys)]   \* keys emitted for each pair

ASSUME MapReduceAssumption ==
  /\ JobList \in Seq(JobType)
  /\ None \notin Workers

VARIABLES
  job,                  \* jobs the scheduler has started; the last one runs
  next,                 \* pairs taken from the problem iterator
  currentTasks,         \* workers that have an entry in m_currentTasks
  groupBy,              \* m_groupBy: the pairs that emitted each key
  results,              \* m_results: a key and the pairs behind its value
  allMapSent,           \* m_allMapSent
  allReduceSent,        \* m_allReduceSent
  listenerFinishedMap,  \* m_listenerFinishedMap
  isMapFinished,        \* m_isMapFinished of the listener
  toReduce,             \* keys the mapper's iterator over m_groupBy has left
  mpc, lpc,             \* next step of the mapper and of the listener
  mworker, lworker,     \* local variable worker of each thread
  rkey,                 \* key of the reduce task being sent
  doubleRelease         \* history: a worker was released twice for one answer

mapperVars   == <<mpc, mworker, rkey, toReduce, next>>
listenerVars == <<lpc, lworker, isMapFinished, doubleRelease>>
sharedVars   == <<currentTasks, groupBy, results, allMapSent, allReduceSent,
                  listenerFinishedMap>>
vars == <<job, mapperVars, listenerVars, sharedVars, workerVars>>

-----------------------------------------------------------------------------
Job == JobList[job]

(* MapTask and ReduceTask: a map task carries a pair of the problem, a     *)
(* reduce task a key with the values grouped under it.  The job's id is    *)
(* its position in JobList.                                                *)
MapTask(p)    == [type |-> "MAP", id |-> job, key |-> p, values |-> {}]
ReduceTask(k) == [type |-> "REDUCE", id |-> job, key |-> k,
                  values |-> groupBy[k]]

NoGroups == [k \in Keys |-> {}]
Grouped  == {k \in Keys : groupBy[k] # {}}

(* MapReducer.isFinishedOnFirstMap                                         *)
FinishedOnFirstMap ==
  /\ Job.stopOnFirst
  /\ IF Job.mapOnly THEN results # {} ELSE Grouped # {}

(* hasNext of the problem iterator once n pairs have been taken from it    *)
HasNext(n) == Job.endless \/ n < Len(Job.emit)

(* MapReducer.release                                                      *)
Release(w) ==
  /\ currentTasks' = currentTasks \ {w}
  /\ SetIdleWorker(w)

(* Where the mapper goes when it leaves the loop over the problem          *)
AfterMap(mapOnly) == IF mapOnly THEN "done" ELSE "barrier"

Init ==
  /\ WorkersInit
  /\ job = 0
  /\ next = 0
  /\ currentTasks = {}
  /\ groupBy = NoGroups
  /\ results = {}
  /\ allMapSent = FALSE
  /\ allReduceSent = FALSE
  /\ listenerFinishedMap = FALSE
  /\ isMapFinished = FALSE
  /\ toReduce = {}
  /\ mpc = "done" /\ lpc = "done"
  /\ mworker = None /\ lworker = None
  /\ rkey = None
  /\ doubleRelease = FALSE

-----------------------------------------------------------------------------
(* The scheduler.                                                          *)

(* JobScheduler.run takes the next job when both threads of the last one   *)
(* have been joined, and Job.runJob gives it a new MapReducer and a new    *)
(* listener.  What the workers still hold or have answered stays.          *)
StartJob ==
  /\ mpc = "done" /\ lpc = "done"
  /\ job < Len(JobList)
  /\ job' = job + 1
  /\ next' = 0
  /\ currentTasks' = {}
  /\ groupBy' = NoGroups
  /\ results' = {}
  /\ allMapSent' = FALSE
  /\ allReduceSent' = FALSE
  /\ listenerFinishedMap' = FALSE
  /\ isMapFinished' = FALSE
  /\ mpc' = IF JobList[job'].endless \/ JobList[job'].emit # << >>
            THEN "mapTake" ELSE AfterMap(JobList[job'].mapOnly)
  /\ lpc' = "take"
  /\ UNCHANGED <<toReduce, mworker, lworker, rkey, doubleRelease, workerVars>>

-----------------------------------------------------------------------------
(* The mapper: MapReducer.run.                                             *)

(* Waits for an idle worker.                                               *)
MapTake ==
  /\ mpc = "mapTake"
  /\ \E w \in Workers : GetIdleWorker(w) /\ mworker' = w
  /\ mpc' = "mapPut"
  /\ UNCHANGED <<job, next, toReduce, rkey, listenerVars, sharedVars,
                 conn, pool, pending, buffer>>

(* Enters synchronized(this), takes the next pair and records the task.    *)
(* An endless iterator is followed for Len(Job.emit) pairs at most.        *)
MapPut ==
  /\ mpc = "mapPut"
  /\ ~FinishedOnFirstMap
  /\ next < Len(Job.emit)
  /\ next' = next + 1
  /\ currentTasks' = currentTasks \cup {mworker}
  /\ mpc' = "mapSend"
  /\ UNCHANGED <<job, mworker, toReduce, rkey, listenerVars, groupBy, results,
                 allMapSent, allReduceSent, listenerFinishedMap, workerVars>>

(* Sends the task, still inside synchronized(this).                        *)
MapSend ==
  /\ mpc = "mapSend"
  /\ SendTask(mworker, MapTask(next))
  /\ mworker' = None
  /\ IF HasNext(next)
     THEN /\ mpc' = "mapTake"
          /\ UNCHANGED <<allMapSent, allReduceSent>>
     ELSE /\ mpc' = AfterMap(Job.mapOnly)
          /\ allMapSent' = TRUE
          /\ allReduceSent' = Job.mapOnly
  /\ UNCHANGED <<job, next, toReduce, rkey, listenerVars, currentTasks,
                 groupBy, results, listenerFinishedMap,
                 conn, idle, pool, buffer>>

(* A first result ended the search: the worker goes back unused.           *)
MapStop ==
  /\ mpc = "mapPut"
  /\ FinishedOnFirstMap
  /\ allMapSent' = TRUE
  /\ allReduceSent' = Job.mapOnly
  /\ Release(mworker)
  /\ mworker' = None
  /\ mpc' = AfterMap(Job.mapOnly)
  /\ UNCHANGED <<job, next, toReduce, rkey, listenerVars, groupBy, results,
                 listenerFinishedMap, conn, pool, pending, buffer>>

(* Mutant: waits even when the listener has already been there.            *)
BarrierAlwaysWaits ==
  /\ mpc = "barrier"
  /\ listenerFinishedMap' = TRUE
  /\ mpc' = "waiting"
  /\ UNCHANGED <<job, next, mworker, toReduce, rkey, listenerVars,
                 currentTasks, groupBy, results, allMapSent, allReduceSent,
                 workerVars>>

(* The rendezvous under LOCKMAP: whoever comes second lets the reducing    *)
(* begin.  The notification alone ends the wait.                           *)
Barrier ==
  /\ mpc = "barrier"
  /\ listenerFinishedMap' = TRUE
  /\ mpc' = IF listenerFinishedMap THEN "begin" ELSE "waiting"
  /\ UNCHANGED <<job, next, mworker, toReduce, rkey, listenerVars,
                 currentTasks, groupBy, results, allMapSent, allReduceSent,
                 workerVars>>

(* Makes the iterator over m_groupBy; with no group the loop is skipped.   *)
BeginReduce ==
  /\ mpc = "begin"
  /\ toReduce' = Grouped
  /\ mpc' = IF Grouped = {} THEN "done" ELSE "reduceTake"
  /\ UNCHANGED <<job, next, mworker, rkey, listenerVars, sharedVars,
                 workerVars>>

(* Takes some key, in the order of the hash table, and waits for a worker. *)
ReduceTake ==
  /\ mpc = "reduceTake"
  /\ \E k \in toReduce : rkey' = k /\ toReduce' = toReduce \ {k}
  /\ \E w \in Workers : GetIdleWorker(w) /\ mworker' = w
  /\ mpc' = "reducePut"
  /\ UNCHANGED <<job, next, listenerVars, sharedVars,
                 conn, pool, pending, buffer>>

(* Records the task: outside synchronized(this), unlike MapPut.            *)
ReducePut ==
  /\ mpc = "reducePut"
  /\ currentTasks' = currentTasks \cup {mworker}
  /\ mpc' = "reduceSend"
  /\ UNCHANGED <<job, next, mworker, toReduce, rkey, listenerVars, groupBy,
                 results, allMapSent, allReduceSent, listenerFinishedMap,
                 workerVars>>

(* Sends it inside synchronized(this).                                     *)
ReduceSend ==
  /\ mpc = "reduceSend"
  /\ SendTask(mworker, ReduceTask(rkey))
  /\ mworker' = None
  /\ rkey' = None
  /\ IF toReduce = {}
     THEN mpc' = "done" /\ allReduceSent' = TRUE
     ELSE mpc' = "reduceTake" /\ UNCHANGED allReduceSent
  /\ UNCHANGED <<job, next, toReduce, listenerVars, currentTasks, groupBy,
                 results, allMapSent, listenerFinishedMap,
                 conn, idle, pool, buffer>>

Mapper == \/ MapTake \/ MapPut \/ MapSend \/ MapStop
          \/ Barrier \/ BeginReduce
          \/ ReduceTake \/ ReducePut \/ ReduceSend

-----------------------------------------------------------------------------
(* The listener: MapReducerListener.run and the evaluator it calls.        *)

(* The next answer of the buffer; its task and the worker it comes from.   *)
Message == Head(buffer)

(* Mutant: the worker of the answer is not remembered.                     *)
TakeMessageOfNoOne ==
  /\ lpc = "take"
  /\ buffer # << >>
  /\ buffer' = Tail(buffer)
  /\ UNCHANGED <<job, mapperVars, lworker, isMapFinished, doubleRelease,
                 currentTasks, allMapSent, allReduceSent, listenerFinishedMap,
                 conn, idle, status, pool, pending>>

TakeMessage ==
  /\ lpc = "take"
  /\ buffer # << >>
  /\ buffer' = Tail(buffer)
  /\ lworker' = Message.from
  /\ UNCHANGED <<job, mapperVars, isMapFinished, doubleRelease, currentTasks,
                 allMapSent, allReduceSent, listenerFinishedMap,
                 conn, idle, status, pool, pending>>

(* Mutants: no test that mapping goes on; no test of the answer's job.     *)
AcceptsLateMap  == Message.task.id = job /\ Message.task.type = "MAP"
AcceptsAnyMap   == Message.task.type = "MAP" /\ ~isMapFinished
AcceptsAnyReduce == Message.task.type = "REDUCE"

(* The answers MapReducerInstructionEvaluator.eval merges                  *)
AcceptsMap    == /\ Message.task.id = job
                 /\ Message.task.type = "MAP"
                 /\ ~isMapFinished
AcceptsReduce == Message.task.id = job /\ Message.task.type = "REDUCE"

(* addFinishedMapper, up to its release: the emitted pairs are results of  *)
(* a map-only job and values of their group otherwise.                     *)
AddFinishedMapper ==
  /\ TakeMessage
  /\ AcceptsMap
  /\ LET p     == Message.task.key
         emits == Job.emit[p]
     IN IF Job.mapOnly
        THEN /\ results' = results \cup {[key |-> k, values |-> {p}] : k \in emits}
             /\ UNCHANGED groupBy
        ELSE /\ groupBy' = [k \in Keys |->
                            groupBy[k] \cup IF k \in emits THEN {p} ELSE {}]
             /\ UNCHANGED results
  /\ lpc' = "release"

(* addFinishedReducer, up to its release.                                  *)
AddFinishedReducer ==
  /\ TakeMessage
  /\ AcceptsReduce
  /\ results' = results \cup {[key    |-> Message.task.key,
                               values |-> Message.task.values]}
  /\ lpc' = "release"
  /\ UNCHANGED groupBy

(* An answer of an earlier job, or of a map task after mapping has         *)
(* finished: it is dropped.                                                *)
IgnoreResponse ==
  /\ TakeMessage
  /\ ~AcceptsMap /\ ~AcceptsReduce
  /\ lpc' = "stale"
  /\ UNCHANGED <<groupBy, results>>

(* The release at the end of addFinishedMapper and addFinishedReducer.     *)
ReleaseWorker ==
  /\ lpc = "release"
  /\ Release(lworker)
  /\ lpc' = "recheck"
  /\ UNCHANGED <<job, mapperVars, lworker, isMapFinished, doubleRelease,
                 groupBy, results, allMapSent, allReduceSent,
                 listenerFinishedMap, conn, pool, pending, buffer>>

(* Mutants: the last release of eval is unconditional; it is forgotten.    *)
AlwaysWorking == TRUE
NeverWorking  == FALSE

(* The status eval reads after the answer has been handled                 *)
StillWorking == status[lworker] = "WORKING"

(* The evaluator releases a worker that is WORKING: the one whose answer   *)
(* was dropped, but also one that was released a moment ago and that the   *)
(* mapper has already taken again.                                         *)
RecheckStatus ==
  /\ lpc \in {"recheck", "stale"}
  /\ IF StillWorking THEN Release(lworker)
                     ELSE UNCHANGED <<currentTasks, idle, status>>
  /\ doubleRelease' = \/ doubleRelease
                      \/ lpc = "recheck" /\ status[lworker] = "WORKING"
  /\ lpc' = "check"
  /\ lworker' = None
  /\ UNCHANGED <<job, mapperVars, isMapFinished, groupBy, results, allMapSent,
                 allReduceSent, listenerFinishedMap, conn, pool, pending,
                 buffer>>

(* Mutant: the outstanding map tasks are not waited for.                   *)
MappingFinishedOnceSent ==
  \/ ~Job.mapOnly /\ FinishedOnFirstMap
  \/ ~allReduceSent /\ allMapSent

(* MapReducerListener.isMappingFinished                                    *)
MappingFinished ==
  \/ ~Job.mapOnly /\ FinishedOnFirstMap
  \/ ~allReduceSent /\ allMapSent /\ currentTasks = {}

(* Mutants: a search ends with any answer; the flag of the map is tested.  *)
FinishedOnAnyAnswer ==
  \/ Job.mapOnly /\ Job.stopOnFirst
  \/ allReduceSent /\ currentTasks = {}
FinishedOnAllMapSent ==
  \/ Job.mapOnly /\ FinishedOnFirstMap
  \/ allMapSent /\ currentTasks = {}

(* MapReducerListener.isReducingFinished                                   *)
ReducingFinished ==
  \/ Job.mapOnly /\ FinishedOnFirstMap
  \/ allReduceSent /\ currentTasks = {}

StartsReduce == ~isMapFinished /\ MappingFinished

(* synchronized(m_mapReducer): excluded while the mapper sends a map task. *)
Check == lpc = "check" /\ mpc # "mapSend"

(* Mutant: a notification without the flag.                                *)
NotifyOnly ==
  /\ mpc' = IF mpc = "waiting" THEN "begin" ELSE mpc
  /\ UNCHANGED listenerFinishedMap

(* MapReducer.startReduce wakes the mapper if it waits, and tells it not   *)
(* to if it does not wait yet.                                             *)
WakeMapper ==
  /\ listenerFinishedMap' = TRUE
  /\ mpc' = IF listenerFinishedMap /\ mpc = "waiting" THEN "begin" ELSE mpc

StartReduce ==
  /\ Check
  /\ StartsReduce
  /\ isMapFinished' = TRUE
  /\ IF Job.mapOnly
     THEN UNCHANGED <<listenerFinishedMap, mpc>>
     ELSE WakeMapper
  /\ lpc' = "take"
  /\ UNCHANGED <<job, mworker, rkey, toReduce, next, lworker, doubleRelease,
                 currentTasks, groupBy, results, allMapSent, allReduceSent,
                 workerVars>>

FinishReduce ==
  /\ Check
  /\ ~StartsReduce
  /\ ReducingFinished
  /\ lpc' = "done"
  /\ UNCHANGED <<job, mapperVars, lworker, isMapFinished, doubleRelease,
                 sharedVars, workerVars>>

KeepListening ==
  /\ Check
  /\ ~StartsReduce
  /\ ~ReducingFinished
  /\ lpc' = "take"
  /\ UNCHANGED <<job, mapperVars, lworker, isMapFinished, doubleRelease,
                 sharedVars, workerVars>>

Listener == \/ AddFinishedMapper \/ AddFinishedReducer \/ IgnoreResponse
            \/ ReleaseWorker \/ RecheckStatus
            \/ StartReduce \/ FinishReduce \/ KeepListening

-----------------------------------------------------------------------------
jobVars == <<job, mapperVars, listenerVars, sharedVars>>

Volunteers == WorkersNext /\ UNCHANGED jobVars

Next == StartJob \/ Mapper \/ Listener \/ Volunteers

Spec == Init /\ [][Next]_vars

(* The threads of the server run, a browser answers what it was sent and   *)
(* the end of a connection is noticed; volunteers do come.                 *)
Fairness ==
  /\ WF_vars(StartJob)
  /\ WF_vars(Mapper)
  /\ WF_vars(Listener)
  /\ \A w \in Workers :
       /\ WF_vars(Connect(w) /\ UNCHANGED jobVars)
       /\ WF_vars(Answer(w) /\ UNCHANGED jobVars)
       /\ WF_vars(RemoveClient(w) /\ UNCHANGED jobVars)

FairSpec == Spec /\ Fairness

-----------------------------------------------------------------------------
(* Properties.                                                             *)

Tasks == [type : {"MAP"}, id : Nat, key : Nat, values : SUBSET Nat] \cup
         [type : {"REDUCE"}, id : Nat, key : Keys, values : SUBSET Nat]

MapperSteps   == {"mapTake", "mapPut", "mapSend", "barrier", "waiting", "begin",
                  "reduceTake", "reducePut", "reduceSend", "done"}
ListenerSteps == {"take", "release", "recheck", "stale", "check", "done"}

(* The types of the variables, and which local variables of a thread are   *)
(* in scope at each of its steps: the threads never release, record or     *)
(* send to a worker they do not hold (MapReducer.run, eval).               *)
TypeOK ==
  /\ conn \in [Workers -> {"new", "open", "closed"}]
  /\ status \in [Workers -> {"IDLE", "WORKING"}]
  /\ idle \in Seq(Workers) /\ pool \in Seq(Workers)
  /\ pending \in [Workers -> SUBSET Tasks]
  /\ buffer \in Seq([from : Workers, task : Tasks])
  /\ job \in 0..Len(JobList) /\ next \in Nat
  /\ currentTasks \subseteq Workers
  /\ groupBy \in [Keys -> SUBSET Nat]
  /\ results \subseteq [key : Keys, values : SUBSET Nat]
  /\ allMapSent \in BOOLEAN /\ allReduceSent \in BOOLEAN
  /\ listenerFinishedMap \in BOOLEAN /\ isMapFinished \in BOOLEAN
  /\ doubleRelease \in BOOLEAN
  /\ toReduce \subseteq Keys
  /\ mpc \in MapperSteps /\ lpc \in ListenerSteps
  /\ job = 0 => mpc = "done" /\ lpc = "done"
  /\ IF mpc \in {"mapPut", "mapSend", "reducePut", "reduceSend"}
     THEN mworker \in Workers ELSE mworker = None
  /\ IF mpc \in {"reducePut", "reduceSend"} THEN rkey \in Keys ELSE rkey = None
  /\ IF lpc \in {"release", "recheck", "stale"}
     THEN lworker \in Workers ELSE lworker = None

Reducing == mpc \in {"begin", "reduceTake", "reducePut", "reduceSend"}
Finished == job > 0 /\ lpc = "done"

(* The mapper never sleeps at LOCKMAP.wait once the listener has seen the  *)
(* end of mapping: nobody would notify it any more (MapReducer.run,        *)
(* MapReducer.startReduce).                                                *)
NoLostWakeup == mpc = "waiting" => ~isMapFinished

(* While the mapper iterates over m_groupBy and sends its lists to be      *)
(* reduced, the listener adds nothing to it (MapReducer.run lines 90-102,  *)
(* addFinishedMapper), even when answers of map tasks still arrive.        *)
GroupByFrozen == [][Reducing => UNCHANGED groupBy]_vars

(* The listener stays as long as the mapper has tasks to send: only a      *)
(* map-only search may end it first (MapReducerListener.run).              *)
ListenerOutlivesMapper ==
  Finished /\ ~(Job.mapOnly /\ Job.stopOnFirst) => mpc = "done"

(* A result rests on pairs of the running job that have been handed out    *)
(* and that emitted its key: the late answers of an earlier job, which     *)
(* share the buffer, leave no trace (MapReducerInstructionEvaluator.eval). *)
ResultsSound ==
  \A r \in results :
    /\ r.values # {}
    /\ \A p \in r.values : p \in 1..next /\ r.key \in Job.emit[p]

(* What a reducer returned was computed from the whole group of its key,   *)
(* so that no key has two results (MapReducer.run, addFinishedReducer).    *)
WholeGroups ==
  job > 0 /\ ~Job.mapOnly => \A r \in results : r.values = groupBy[r.key]

(* What the job would compute on one machine                               *)
Expected ==
  LET pairs == DOMAIN Job.emit
  IN IF Job.mapOnly
     THEN UNION {{[key |-> k, values |-> {p}] : k \in Job.emit[p]} : p \in pairs}
     ELSE {[key |-> k, values |-> {p \in pairs : k \in Job.emit[p]}] :
             k \in UNION {Job.emit[p] : p \in pairs}}

Complete == Finished /\ ~Job.stopOnFirst => results = Expected

(* When the scheduler marks a job FINISHED, every pair has been mapped and *)
(* every group reduced (MapReducerListener.run, Job.runJob), unless eval   *)
(* released a worker that the mapper had already taken again.              *)
FinishedJobIsComplete == ~doubleRelease => Complete

(* The same without the exception.                                         *)
FinishedJobHasAllResults == Complete

(* A search over an endless iterator stops with a result: resultsToString  *)
(* of Md5Cracker reads m_results.get(0).                                   *)
SearchEndsWithResult ==
  Finished /\ Job.endless /\ Job.mapOnly => results # {}

(* Tasks sent to w whose answer has not been taken from the buffer         *)
Outstanding(w) ==
  pending[w] \cup {buffer[i].task : i \in {j \in 1..Len(buffer) : buffer[j].from = w}}

(* A worker has one task at a time and is offered once, and not while it   *)
(* has a task (WorkerServer, MapReducer.release), unless eval released it  *)
(* twice.                                                                  *)
WorkerExclusive ==
  ~doubleRelease =>
    \A w \in Workers :
      /\ Cardinality(Outstanding(w)) <= 1
      /\ Cardinality({i \in 1..Len(idle) : idle[i] = w}) <= 1
      /\ w \in ToSet(idle) => Outstanding(w) = {} /\ w \notin currentTasks

(* No connected worker is forgotten: it is idle, has a task, or is in the  *)
(* hands of one of the threads, from one job to the next (eval's release   *)
(* of the workers whose answer is dropped, MapReducer.run line 73).        *)
NoWorkerForgotten ==
  \A w \in Workers :
    conn[w] = "open" => \/ w \in ToSet(idle)
                        \/ Outstanding(w) # {}
                        \/ w \in {mworker, lworker}

(* Each of the threads waits for another one or is done, and no volunteer  *)
(* that is there has a task to answer.                                     *)
EveryoneWaits ==
  /\ \/ mpc \in {"mapTake", "reduceTake"} /\ idle = << >>
     \/ mpc \in {"waiting", "done"}
  /\ \/ lpc = "take" /\ buffer = << >>
     \/ lpc = "done"
  /\ \E w \in Workers : conn[w] = "open"
  /\ \A w \in Workers : conn[w] # "closed" /\ pending[w] = {}

(* With a problem without a pair, or whose pairs give no group, the code   *)
(* does wait for ever: the flags are set behind the last task of a loop.   *)
NothingToSend == Job.emit = << >> \/ (~Job.mapOnly /\ Grouped = {})

(* Mapper, listener and volunteers never wait for each other all at once   *)
(* before the job is over, as long as a volunteer is there and nobody has  *)
(* left: neither at LOCKMAP.wait, nor for a worker, nor for an answer      *)
(* (MapReducer.run, getIdleWorker, MapReducerListener.run), unless eval    *)
(* released a worker twice.                                                *)
NobodyWaitsForever ==
  ~doubleRelease /\ EveryoneWaits =>
    (mpc = "done" /\ lpc = "done") \/ NothingToSend

(* The two threads of each job keep to the contract of JobContract.        *)
Phase == IF lpc = "done" THEN "finished"
         ELSE IF isMapFinished THEN "reduce" ELSE "map"

Contract == INSTANCE JobContract WITH phase <- Phase, groups <- groupBy

KeepsContract == Contract!Spec

(* The scheduler gets through its queue (JobScheduler.run).                *)
AllJobsFinish == <>(job = Len(JobList) /\ mpc = "done" /\ lpc = "done")

(* It does so unless a volunteer leaves or is released twice.  One that    *)
(* leaves takes its task with it, or is the one the mapper of a search     *)
(* that has ended still waits for; after a double release the next job     *)
(* may begin to reduce before its maps are answered, find no group and     *)
(* wait for ever (MapReducer.run, MapReducerInstructionEvaluator.eval).    *)
JobsFinishUnlessWorkerLost ==
  \/ AllJobsFinish
  \/ <>doubleRelease
  \/ <>(\E w \in Workers : conn[w] = "closed")
=============================================================================
