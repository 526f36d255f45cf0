-------------------------- MODULE MapReduceProofs --------------------------
(***************************************************************************)
(* Theorems about MapReduce for every list of jobs, any number of workers, *)
(* lost or not, and any size of the thread pool.                           *)
(*                                                                         *)
(* IInv is inductive: it ties the flags of the rendezvous to the steps of  *)
(* the two threads (Handshake, Sending), says what a task that is under    *)
(* way may carry (TasksKnown), and from that what the groups and the       *)
(* results hold (GroupsSound, ResultsExact, SearchHasResult).              *)
(* WInv is inductive with it: it says where each worker is (Exclusion,     *)
(* IdleIsListed, Remembered) and in whose hands each pair and each group   *)
(* is (Accounted).  WaitInv says why somebody can always go on.  There is  *)
(* one lemma for each conjunct, with one step for each thread or each      *)
(* action.                                                                 *)
(***************************************************************************)
EXTENDS MapReduce, QueueLemmas, FiniteSetTheorems

USE DEF MapperSteps, ListenerSteps

-----------------------------------------------------------------------------
(* The inductive invariant.                                                *)

(* Both sides of the rendezvous under LOCKMAP                              *)
Handshake ==
  /\ mpc = "waiting" => listenerFinishedMap /\ ~isMapFinished
  /\ listenerFinishedMap => isMapFinished \/ mpc = "waiting"
  /\ isMapFinished => listenerFinishedMap
  /\ Reducing => isMapFinished

(* What the flags of the mapper say about where it is                      *)
Sending ==
  /\ mpc \in {"mapTake", "mapPut", "mapSend"} => ~allMapSent
  /\ allReduceSent => mpc = "done"
  /\ job > 0 => IF Job.mapOnly
                THEN /\ allReduceSent = allMapSent
                     /\ ~isMapFinished
                     /\ mpc \in {"mapTake", "mapPut", "mapSend", "done"}
                ELSE allReduceSent => isMapFinished

(* The mapper has not passed the end of the problem                        *)
PairsTaken ==
  /\ job > 0 => next <= Len(Job.emit)
  /\ mpc = "mapSend" => next >= 1

(* A task of the running job carries a pair that was taken, or a group     *)
(* that is frozen                                                          *)
KnownTask(t) ==
  /\ t.id <= job
  /\ t.id = job => IF t.type = "MAP"
                   THEN t.key \in 1..next
                   ELSE /\ isMapFinished /\ ~Job.mapOnly
                        /\ t.values = groupBy[t.key] /\ t.values # {}

TasksKnown ==
  /\ \A w \in Workers : \A t \in pending[w] : KnownTask(t)
  /\ \A i \in 1..Len(buffer) : KnownTask(buffer[i].task)

(* The keys that are left to the mapper have a group                       *)
KeysGrouped ==
  /\ mpc \in {"reduceTake", "reducePut", "reduceSend"} => toReduce \subseteq Grouped
  /\ mpc \in {"reducePut", "reduceSend"} => rkey \in Grouped

GroupsSound ==
  \A k \in Keys : \A p \in groupBy[k] : p \in 1..next /\ k \in Job.emit[p]

ResultsExact ==
  \A r \in results :
    IF Job.mapOnly
    THEN \E p \in 1..next : r.values = {p} /\ r.key \in Job.emit[p]
    ELSE isMapFinished /\ r.values = groupBy[r.key] /\ r.values # {}

(* An endless search stops for a result only, be it the mapper or the      *)
(* listener that stops                                                     *)
SearchHasResult ==
  job > 0 /\ Job.endless /\ Job.mapOnly /\ (allReduceSent \/ lpc = "done") =>
    results # {}

IInv == /\ TypeOK /\ Handshake /\ Sending /\ ListenerOutlivesMapper
        /\ PairsTaken /\ TasksKnown /\ KeysGrouped
        /\ GroupsSound /\ ResultsExact /\ SearchHasResult

-----------------------------------------------------------------------------

LEMMA NumberOfJobs == Len(JobList) \in Nat
  BY MapReduceAssumption, LenProperties

(* The running job is one of the list.                                     *)
LEMMA JobIsTyped ==
  ASSUME TypeOK, ~(mpc = "done" /\ lpc = "done")
  PROVE  job \in 1..Len(JobList) /\ Job \in JobType
<1>1. job \in 1..Len(JobList)
  BY NumberOfJobs DEF TypeOK
<1> QED BY <1>1, MapReduceAssumption, ElementOfSeq DEF Job

LEMMA EmitTyped ==
  ASSUME Job \in JobType
  PROVE  /\ Len(Job.emit) \in Nat
         /\ \A p \in 1..Len(Job.emit) : Job.emit[p] \subseteq Keys
<1>1. Job.emit \in Seq(SUBSET Keys)
  BY DEF JobType
<1> QED BY <1>1, LenProperties, ElementOfSeq

LEMMA NoGroupsType == NoGroups \in [Keys -> SUBSET Nat]
<1>1. \A k \in Keys : {} \in SUBSET Nat
  OBVIOUS
<1> QED BY <1>1 DEF NoGroups

LEMMA InitType == Init => TypeOK
<1> SUFFICES ASSUME Init PROVE TypeOK
  OBVIOUS
<1>1. pending \in [Workers -> SUBSET Tasks]
  <2>1. \A w \in Workers : {} \in SUBSET Tasks
    OBVIOUS
  <2> QED BY <2>1 DEF Init, WorkersInit
<1>2. /\ idle \in Seq(Workers) /\ pool \in Seq(Workers)
      /\ buffer \in Seq([from : Workers, task : Tasks])
  BY EmptySeq DEF Init, WorkersInit
<1>3. groupBy \in [Keys -> SUBSET Nat]
  BY NoGroupsType DEF Init
<1>4. /\ conn \in [Workers -> {"new", "open", "closed"}]
      /\ status \in [Workers -> {"IDLE", "WORKING"}]
  BY DEF Init, WorkersInit
<1>5. /\ job \in 0..Len(JobList) /\ next \in Nat
  BY NumberOfJobs DEF Init
<1>6. /\ currentTasks \subseteq Workers
      /\ results \subseteq [key : Keys, values : SUBSET Nat]
      /\ toReduce \subseteq Keys
  BY DEF Init
<1>7. /\ allMapSent \in BOOLEAN /\ allReduceSent \in BOOLEAN
      /\ listenerFinishedMap \in BOOLEAN /\ isMapFinished \in BOOLEAN
      /\ doubleRelease \in BOOLEAN
  BY DEF Init
<1>8. mpc = "done" /\ lpc = "done" /\ mworker = None /\ lworker = None /\ rkey = None
  BY DEF Init
<1> QED BY <1>1, <1>2, <1>3, <1>4, <1>5, <1>6, <1>7, <1>8 DEF TypeOK

(* Who takes a worker, gives one back or sends it a task keeps the types   *)
(* of what it changes.                                                     *)
LEMMA TakeType ==
  ASSUME TypeOK, NEW w \in Workers, GetIdleWorker(w)
  PROVE  idle' \in Seq(Workers) /\ status' \in [Workers -> {"IDLE", "WORKING"}]
  BY HeadTailProperties DEF TypeOK, GetIdleWorker

LEMMA ReleaseType ==
  ASSUME TypeOK, NEW w \in Workers, Release(w)
  PROVE  /\ idle' \in Seq(Workers)
         /\ status' \in [Workers -> {"IDLE", "WORKING"}]
         /\ currentTasks' \subseteq Workers
  BY AppendProperties DEF TypeOK, Release, SetIdleWorker

LEMMA SendType ==
  ASSUME TypeOK, NEW w \in Workers, NEW t \in Tasks, SendTask(w, t)
  PROVE  /\ status' \in [Workers -> {"IDLE", "WORKING"}]
         /\ pending' \in [Workers -> SUBSET Tasks]
  BY DEF TypeOK, SendTask, SendMsg

LEMMA MapTaskType ==
  ASSUME TypeOK
  PROVE  MapTask(next) \in Tasks
  BY MapReduceAssumption, LenProperties DEF TypeOK, MapTask, Tasks

LEMMA ReduceTaskType ==
  ASSUME TypeOK, rkey \in Keys
  PROVE  ReduceTask(rkey) \in Tasks
  BY MapReduceAssumption, LenProperties DEF TypeOK, ReduceTask, Tasks

LEMMA MessageType ==
  ASSUME TypeOK, TakeMessage
  PROVE  /\ Message.from \in Workers
         /\ Message.task \in Tasks
         /\ buffer' \in Seq([from : Workers, task : Tasks])
         /\ lworker' \in Workers
<1>1. /\ Message \in [from : Workers, task : Tasks]
      /\ buffer' \in Seq([from : Workers, task : Tasks])
  BY HeadTailProperties DEF TypeOK, TakeMessage, Message
<1> QED BY <1>1 DEF TakeMessage

(* The answer of a map task that is accepted is that of a pair of the job. *)
LEMMA MessageMapped ==
  ASSUME TypeOK, PairsTaken, TasksKnown, TakeMessage, AcceptsMap
  PROVE  Message.task.key \in 1..next /\ Message.task.key \in 1..Len(Job.emit)
<1>1. 1 \in 1..Len(buffer) /\ Message = buffer[1]
  BY EmptySeq DEF TakeMessage, TypeOK, Message
<1>2. KnownTask(Message.task)
  BY <1>1 DEF TasksKnown
<1>3. Message.task.key \in 1..next
  BY <1>2 DEF KnownTask, AcceptsMap
<1>4. job > 0 /\ Len(Job.emit) \in Nat
  BY JobIsTyped, EmitTyped DEF TakeMessage, TypeOK
<1> QED BY <1>3, <1>4 DEF PairsTaken, TypeOK

LEMMA NextType == IInv /\ [Next]_vars => TypeOK'
<1> SUFFICES ASSUME TypeOK, TasksKnown, PairsTaken, [Next]_vars
             PROVE  TypeOK'
  BY DEF IInv
<1> USE MapReduceAssumption
<1>1. CASE StartJob
  <2>1. groupBy' \in [Keys -> SUBSET Nat]
    BY <1>1, NoGroupsType DEF StartJob
  <2>2. job' \in 0..Len(JobList) /\ job' # 0 /\ next' \in Nat
    BY <1>1, NumberOfJobs DEF StartJob, TypeOK
  <2>3. mpc' \in {"mapTake", "barrier", "done"} /\ lpc' = "take"
    BY <1>1 DEF StartJob, AfterMap
  <2>4. /\ currentTasks' \subseteq Workers
        /\ results' \subseteq [key : Keys, values : SUBSET Nat]
    BY <1>1 DEF StartJob
  <2>5. /\ allMapSent' \in BOOLEAN /\ allReduceSent' \in BOOLEAN
        /\ listenerFinishedMap' \in BOOLEAN /\ isMapFinished' \in BOOLEAN
        /\ doubleRelease' \in BOOLEAN
    BY <1>1 DEF StartJob, TypeOK
  <2>6. mworker' = None /\ lworker' = None /\ rkey' = None
    BY <1>1 DEF StartJob, TypeOK
  <2> QED
    BY <1>1, <2>1, <2>2, <2>3, <2>4, <2>5, <2>6 DEF StartJob, TypeOK, workerVars
<1>2. CASE MapTake
  BY <1>2, TakeType DEF MapTake, TypeOK, listenerVars, sharedVars
<1>3. CASE MapPut
  BY <1>3 DEF MapPut, TypeOK, listenerVars, workerVars
<1>4. CASE MapSend
  BY <1>4, SendType, MapTaskType, JobIsTyped
  DEF MapSend, TypeOK, listenerVars, AfterMap, JobType
<1>5. CASE MapStop
  BY <1>5, ReleaseType, JobIsTyped
  DEF MapStop, TypeOK, listenerVars, AfterMap, JobType
<1>6. CASE Barrier
  BY <1>6 DEF Barrier, TypeOK, listenerVars, workerVars
<1>7. CASE BeginReduce
  BY <1>7 DEF BeginReduce, TypeOK, listenerVars, sharedVars, workerVars, Grouped
<1>8. CASE ReduceTake
  BY <1>8, TakeType DEF ReduceTake, TypeOK, listenerVars, sharedVars
<1>9. CASE ReducePut
  BY <1>9 DEF ReducePut, TypeOK, listenerVars, workerVars
<1>10. CASE ReduceSend
  BY <1>10, SendType, ReduceTaskType DEF ReduceSend, TypeOK, listenerVars
<1>11. CASE AddFinishedMapper
  <2> DEFINE p == Message.task.key
  <2>1. p \in 1..next /\ p \in 1..Len(Job.emit)
    BY <1>11, MessageMapped DEF AddFinishedMapper
  <2>2. Job.emit[p] \subseteq Keys
    BY <1>11, <2>1, JobIsTyped, EmitTyped DEF AddFinishedMapper, TakeMessage
  <2>3. /\ groupBy' \in [Keys -> SUBSET Nat]
        /\ results' \subseteq [key : Keys, values : SUBSET Nat]
    <3> HIDE DEF p
    <3>1. p \in Nat
      BY <2>1 DEF TypeOK
    <3>2. CASE Job.mapOnly
      <4>1. results' = results \cup {[key |-> k, values |-> {p}] : k \in Job.emit[p]}
        BY <1>11, <3>2 DEF AddFinishedMapper, p
      <4>2. groupBy' = groupBy
        BY <1>11, <3>2 DEF AddFinishedMapper, p
      <4> QED BY <4>1, <4>2, <3>1, <2>2 DEF TypeOK
    <3>3. CASE ~Job.mapOnly
      <4>1. groupBy' = [k \in Keys |-> groupBy[k] \cup IF k \in Job.emit[p] THEN {p} ELSE {}]
        BY <1>11, <3>3 DEF AddFinishedMapper, p
      <4>2. results' = results
        BY <1>11, <3>3 DEF AddFinishedMapper, p
      <4> QED BY <4>1, <4>2, <3>1 DEF TypeOK
    <3> QED BY <3>2, <3>3
  <2> QED
    BY <1>11, <2>3, MessageType DEF AddFinishedMapper, TypeOK, TakeMessage, mapperVars
<1>12. CASE AddFinishedReducer
  BY <1>12, MessageType DEF AddFinishedReducer, AcceptsReduce, TypeOK, TakeMessage, mapperVars, Tasks
<1>13. CASE IgnoreResponse
  BY <1>13, MessageType DEF IgnoreResponse, TypeOK, TakeMessage, mapperVars
<1>14. CASE ReleaseWorker
  BY <1>14, ReleaseType DEF ReleaseWorker, TypeOK, mapperVars
<1>15. CASE RecheckStatus
  BY <1>15, ReleaseType DEF RecheckStatus, TypeOK, mapperVars
<1>16. CASE StartReduce
  BY <1>16 DEF StartReduce, WakeMapper, Check, TypeOK, workerVars
<1>17. CASE FinishReduce
  BY <1>17 DEF FinishReduce, Check, TypeOK, mapperVars, sharedVars, workerVars
<1>18. CASE KeepListening
  BY <1>18 DEF KeepListening, Check, TypeOK, mapperVars, sharedVars, workerVars
<1>19. ASSUME NEW w \in Workers, Connect(w), UNCHANGED jobVars
       PROVE  TypeOK'
  BY <1>19, AppendProperties DEF Connect, TypeOK, jobVars, mapperVars, listenerVars, sharedVars
<1>20. ASSUME NEW w \in Workers, Answer(w), UNCHANGED jobVars
       PROVE  TypeOK'
  BY <1>20, AppendProperties DEF Answer, TypeOK, jobVars, mapperVars, listenerVars, sharedVars
<1>21. ASSUME NEW w \in Workers, Disconnect(w), UNCHANGED jobVars
       PROVE  TypeOK'
  BY <1>21 DEF Disconnect, TypeOK, jobVars, mapperVars, listenerVars, sharedVars
<1>22. ASSUME NEW w \in Workers, RemoveClient(w), UNCHANGED jobVars
       PROVE  TypeOK'
  BY <1>22, RemoveFirstElements DEF RemoveClient, TypeOK, jobVars, mapperVars, listenerVars, sharedVars
<1>23. CASE UNCHANGED vars
  BY <1>23 DEF vars, TypeOK, mapperVars, listenerVars, sharedVars, workerVars
<1> QED
  BY <1>1, <1>2, <1>3, <1>4, <1>5, <1>6, <1>7, <1>8, <1>9, <1>10, <1>11, <1>12,
     <1>13, <1>14, <1>15, <1>16, <1>17, <1>18, <1>19, <1>20, <1>21, <1>22, <1>23
  DEF Next, Mapper, Listener, Volunteers, WorkersNext

-----------------------------------------------------------------------------
(* What the steps leave alone.                                             *)

LEMMA MapperFrame ==
  ASSUME Mapper
  PROVE  UNCHANGED <<job, lpc, isMapFinished, groupBy, results, buffer>>
  BY DEF Mapper, MapTake, MapPut, MapSend, MapStop, Barrier, BeginReduce,
         ReduceTake, ReducePut, ReduceSend, listenerVars, sharedVars, workerVars

LEMMA ListenerFrame ==
  ASSUME Listener, ~StartReduce
  PROVE  UNCHANGED <<job, mapperVars, isMapFinished, allMapSent, allReduceSent,
                     listenerFinishedMap, pending>>
  BY DEF Listener, AddFinishedMapper, AddFinishedReducer, IgnoreResponse,
         TakeMessage, ReleaseWorker, RecheckStatus, FinishReduce, KeepListening,
         sharedVars, workerVars

LEMMA VolunteersFrame ==
  ASSUME Volunteers \/ UNCHANGED vars
  PROVE  UNCHANGED jobVars
  BY DEF Volunteers, vars, jobVars

(* A thread that takes a step works for a job of the list.                 *)
LEMMA MapperRuns ==
  ASSUME TypeOK, Mapper
  PROVE  /\ mpc # "done" /\ job \in Nat /\ job > 0 /\ Job \in JobType
         /\ job' = job /\ Job' = Job
<1>1. mpc # "done"
  BY DEF Mapper, MapTake, MapPut, MapSend, MapStop, Barrier, BeginReduce,
         ReduceTake, ReducePut, ReduceSend
<1>2. job \in Nat /\ job > 0 /\ Job \in JobType
  BY <1>1, JobIsTyped, NumberOfJobs
<1>3. job' = job /\ Job' = Job
  BY MapperFrame DEF Job
<1> QED BY <1>1, <1>2, <1>3

LEMMA ListenerRuns ==
  ASSUME TypeOK, Listener
  PROVE  /\ lpc # "done" /\ job \in Nat /\ job > 0 /\ Job \in JobType
         /\ job' = job /\ Job' = Job
<1>1. lpc # "done"
  BY DEF Listener, AddFinishedMapper, AddFinishedReducer, IgnoreResponse,
         TakeMessage, ReleaseWorker, RecheckStatus, StartReduce, FinishReduce,
         KeepListening, Check
<1>2. job \in Nat /\ job > 0 /\ Job \in JobType
  BY <1>1, JobIsTyped, NumberOfJobs
<1>3. job' = job
  BY DEF Listener, AddFinishedMapper, AddFinishedReducer, IgnoreResponse,
         TakeMessage, ReleaseWorker, RecheckStatus, StartReduce, FinishReduce,
         KeepListening
<1> QED BY <1>1, <1>2, <1>3 DEF Job

(* The steps the invariant depends on, with the others as frames           *)
LEMMA NextCases ==
  ASSUME [Next]_vars
  PROVE  \/ StartJob
         \/ Mapper
         \/ StartReduce
         \/ Listener /\ ~StartReduce
         \/ Volunteers \/ UNCHANGED vars
  BY DEF Next, Listener

-----------------------------------------------------------------------------
(* A map-only job never gets to reducing: both its flags are set at once.  *)
LEMMA OnlyReducersReduce ==
  ASSUME TypeOK, Sending, StartReduce
  PROVE  job > 0 /\ Job \in JobType /\ ~Job.mapOnly
<1>1. job > 0 /\ Job \in JobType
  BY JobIsTyped DEF StartReduce, Check, TypeOK
<1>2. MappingFinished
  BY DEF StartReduce, StartsReduce
<1> QED BY <1>1, <1>2 DEF Sending, MappingFinished

LEMMA HandshakeStep == IInv /\ [Next]_vars => Handshake'
<1> SUFFICES ASSUME TypeOK, Handshake, Sending, [Next]_vars
             PROVE  Handshake'
  BY DEF IInv
<1> USE DEF Handshake, Reducing
<1>1. CASE StartJob
  BY <1>1 DEF StartJob, AfterMap
<1>2. CASE Mapper
  <2>1. CASE MapTake \/ MapPut \/ MapSend \/ MapStop
    BY <2>1 DEF MapTake, MapPut, MapSend, MapStop, AfterMap, listenerVars, sharedVars
  <2>2. CASE Barrier
    BY <2>2 DEF Barrier, listenerVars
  <2>3. CASE BeginReduce \/ ReduceTake \/ ReducePut \/ ReduceSend
    BY <2>3 DEF BeginReduce, ReduceTake, ReducePut, ReduceSend, listenerVars, sharedVars
  <2> QED BY <1>2, <2>1, <2>2, <2>3 DEF Mapper
<1>3. CASE StartReduce
  BY <1>3, OnlyReducersReduce DEF StartReduce, WakeMapper, StartsReduce, TypeOK
<1>4. CASE Listener /\ ~StartReduce
  BY <1>4, ListenerFrame DEF mapperVars
<1>5. CASE Volunteers \/ UNCHANGED vars
  BY <1>5, VolunteersFrame DEF jobVars, mapperVars, listenerVars, sharedVars
<1> QED BY <1>1, <1>2, <1>3, <1>4, <1>5, NextCases

LEMMA SendingStep == IInv /\ [Next]_vars => Sending'
<1> SUFFICES ASSUME TypeOK, Handshake, Sending, [Next]_vars
             PROVE  Sending'
  BY DEF IInv
<1>1. CASE StartJob
  <2>1. mpc' \in {"mapTake", AfterMap(Job'.mapOnly)} /\ job' > 0
    BY <1>1 DEF StartJob, TypeOK, Job
  <2> QED BY <1>1, <2>1 DEF StartJob, Sending, AfterMap
<1>2. CASE Mapper
  <2>1. /\ job' = job /\ Job' = Job /\ job > 0 /\ Job \in JobType
        /\ isMapFinished' = isMapFinished
    BY <1>2, MapperRuns, MapperFrame
  <2>2. CASE MapTake \/ MapPut
    BY <2>1, <2>2 DEF MapTake, MapPut, sharedVars, Sending
  <2>3. CASE MapSend \/ MapStop
    BY <2>1, <2>3 DEF MapSend, MapStop, AfterMap, Sending
  <2>4. CASE Barrier \/ BeginReduce \/ ReduceTake \/ ReducePut \/ ReduceSend
    BY <2>1, <2>4 DEF Barrier, BeginReduce, ReduceTake, ReducePut, ReduceSend,
       sharedVars, Sending, Handshake, Reducing
  <2> QED BY <1>2, <2>2, <2>3, <2>4 DEF Mapper
<1>3. CASE StartReduce
  <2>1. Job' = Job /\ job' = job
    BY <1>3 DEF StartReduce, Job
  <2> QED
    BY <1>3, <2>1, OnlyReducersReduce DEF StartReduce, WakeMapper, Sending
<1>4. CASE Listener /\ ~StartReduce
  BY <1>4, ListenerFrame DEF mapperVars, Job, Sending
<1>5. CASE Volunteers \/ UNCHANGED vars
  BY <1>5, VolunteersFrame
  DEF jobVars, mapperVars, listenerVars, sharedVars, Job, Sending
<1> QED BY <1>1, <1>2, <1>3, <1>4, <1>5, NextCases

LEMMA ListenerOutlivesStep == IInv /\ [Next]_vars => ListenerOutlivesMapper'
<1> SUFFICES ASSUME TypeOK, Sending, ListenerOutlivesMapper, [Next]_vars
             PROVE  ListenerOutlivesMapper'
  BY DEF IInv
<1> USE DEF ListenerOutlivesMapper, Finished
<1>1. CASE StartJob
  BY <1>1 DEF StartJob
<1>2. CASE Mapper
  BY <1>2, MapperRuns, MapperFrame
<1>3. CASE Listener
  <2>1. lpc' = "done" => FinishReduce
    BY <1>3 DEF Listener, AddFinishedMapper, AddFinishedReducer, IgnoreResponse,
       ReleaseWorker, RecheckStatus, StartReduce, KeepListening
  <2>2. CASE FinishReduce
    BY <2>2, <1>3, ListenerRuns
    DEF FinishReduce, ReducingFinished, FinishedOnFirstMap, Sending, mapperVars
  <2> QED BY <2>1, <2>2
<1>4. CASE Volunteers \/ UNCHANGED vars
  BY <1>4, VolunteersFrame DEF jobVars, mapperVars, listenerVars, Job
<1> QED BY <1>1, <1>2, <1>3, <1>4, NextCases DEF Listener

LEMMA PairsTakenStep == IInv /\ [Next]_vars => PairsTaken'
<1> SUFFICES ASSUME TypeOK, PairsTaken, [Next]_vars
             PROVE  PairsTaken'
  BY DEF IInv
<1> USE DEF PairsTaken
<1>1. CASE StartJob
  <2>1. job' \in 1..Len(JobList) /\ next' = 0
    BY <1>1, NumberOfJobs DEF StartJob, TypeOK
  <2>2. Job' \in JobType
    BY <2>1, MapReduceAssumption, ElementOfSeq DEF Job
  <2>3. Len(Job'.emit) \in Nat
    BY <2>2, LenProperties DEF JobType
  <2> QED BY <1>1, <2>1, <2>3 DEF StartJob, AfterMap
<1>2. CASE Mapper
  <2>1. CASE MapPut
    BY <1>2, <2>1, MapperRuns, EmitTyped DEF MapPut, TypeOK
  <2>2. CASE ~MapPut
    <3>1. next' = next /\ mpc' # "mapSend"
      BY <1>2, <2>2 DEF Mapper, MapTake, MapSend, MapStop, Barrier, BeginReduce,
         ReduceTake, ReducePut, ReduceSend, AfterMap
    <3> QED BY <1>2, <3>1, MapperRuns
  <2> QED BY <2>1, <2>2
<1>3. CASE Listener
  <2>1. next' = next /\ (mpc' = mpc \/ mpc' = "begin")
    BY <1>3, ListenerFrame DEF StartReduce, WakeMapper, mapperVars
  <2> QED BY <1>3, <2>1, ListenerRuns
<1>4. CASE Volunteers \/ UNCHANGED vars
  BY <1>4, VolunteersFrame DEF jobVars, mapperVars, Job
<1> QED BY <1>1, <1>2, <1>3, <1>4, NextCases DEF Listener

LEMMA KeysGroupedStep == IInv /\ [Next]_vars => KeysGrouped'
<1> SUFFICES ASSUME TypeOK, Handshake, KeysGrouped, [Next]_vars
             PROVE  KeysGrouped'
  BY DEF IInv
<1> USE DEF KeysGrouped
<1>1. CASE StartJob
  BY <1>1 DEF StartJob, AfterMap
<1>2. CASE Mapper
  <2>1. Grouped' = Grouped
    BY <1>2, MapperFrame DEF Grouped
  <2>2. CASE MapTake \/ MapPut \/ MapSend \/ MapStop \/ Barrier
    BY <2>2 DEF MapTake, MapPut, MapSend, MapStop, Barrier, AfterMap
  <2>3. CASE BeginReduce \/ ReduceTake \/ ReducePut \/ ReduceSend
    BY <2>1, <2>3 DEF BeginReduce, ReduceTake, ReducePut, ReduceSend
  <2> QED BY <1>2, <2>2, <2>3 DEF Mapper
<1>3. CASE Listener
  <2>1. /\ toReduce' = toReduce /\ rkey' = rkey
        /\ mpc' = mpc \/ mpc' = "begin"
    BY <1>3, ListenerFrame DEF StartReduce, WakeMapper, mapperVars
  <2>2. groupBy' = groupBy \/ ~isMapFinished
    BY <1>3 DEF Listener, AddFinishedMapper, AcceptsMap, AddFinishedReducer,
       IgnoreResponse, ReleaseWorker, RecheckStatus, StartReduce, FinishReduce,
       KeepListening, sharedVars
  <2> QED BY <2>1, <2>2 DEF Grouped, Handshake, Reducing
<1>4. CASE Volunteers \/ UNCHANGED vars
  BY <1>4, VolunteersFrame DEF jobVars, mapperVars, sharedVars, Grouped
<1> QED BY <1>1, <1>2, <1>3, <1>4, NextCases DEF Listener

-----------------------------------------------------------------------------
(* Tasks and answers.                                                      *)

(* While a job runs, a known task stays known: pairs are only added, and   *)
(* the groups do not change once mapping is finished.                      *)
LEMMA StaysKnown ==
  ASSUME TypeOK, NEW t \in Tasks, KnownTask(t),
         job' = job, next' \in Nat, next <= next',
         isMapFinished => isMapFinished' /\ groupBy' = groupBy
  PROVE  KnownTask(t)'
<1>1. Job' = Job
  BY DEF Job
<1>2. CASE t.id # job
  BY <1>2 DEF KnownTask
<1>3. CASE t.id = job /\ t.type = "MAP"
  BY <1>3 DEF KnownTask, TypeOK
<1>4. CASE t.id = job /\ t.type # "MAP"
  BY <1>1, <1>4 DEF KnownTask
<1> QED BY <1>2, <1>3, <1>4

(* Merging an answer changes the groups only while the job maps.           *)
LEMMA GroupsFrozen ==
  ASSUME Listener
  PROVE  isMapFinished => groupBy' = groupBy
  BY DEF Listener, AddFinishedMapper, AcceptsMap, AddFinishedReducer,
     IgnoreResponse, ReleaseWorker, RecheckStatus, StartReduce, FinishReduce,
     KeepListening, sharedVars

LEMMA ListenerBuffer ==
  ASSUME TypeOK, Listener
  PROVE  /\ pending' = pending
         /\ \/ buffer' = buffer
            \/ buffer # << >> /\ buffer' = Tail(buffer)
  BY DEF Listener, AddFinishedMapper, AddFinishedReducer, TakeMessage,
     IgnoreResponse, ReleaseWorker, RecheckStatus, StartReduce, FinishReduce,
     KeepListening, workerVars

LEMMA SentTaskKnown ==
  ASSUME TypeOK, Handshake, Sending, PairsTaken, KeysGrouped,
         NEW w \in Workers, NEW t \in Tasks, SendTask(w, t),
         Mapper, next' = next,
         \/ mpc = "mapSend" /\ t = MapTask(next)
         \/ mpc = "reduceSend" /\ t = ReduceTask(rkey)
  PROVE  KnownTask(t)'
<1>1. /\ job' = job /\ Job' = Job /\ job \in Nat /\ job > 0
      /\ isMapFinished' = isMapFinished /\ groupBy' = groupBy
  BY MapperRuns, MapperFrame
<1>2. CASE mpc = "mapSend" /\ t = MapTask(next)
  BY <1>1, <1>2 DEF KnownTask, MapTask, PairsTaken, TypeOK
<1>3. CASE mpc = "reduceSend" /\ t = ReduceTask(rkey)
  <2>1. isMapFinished /\ ~Job.mapOnly /\ groupBy[rkey] # {}
    BY <1>1, <1>3 DEF Handshake, Reducing, Sending, KeysGrouped, Grouped
  <2> QED BY <1>1, <1>3, <2>1 DEF KnownTask, ReduceTask
<1> QED BY <1>2, <1>3

LEMMA TasksKnownStep == IInv /\ [Next]_vars => TasksKnown'
<1> SUFFICES ASSUME IInv, [Next]_vars
             PROVE  TasksKnown'
  OBVIOUS
<1> USE DEF IInv
<1>1. /\ \A w \in Workers : pending[w] \subseteq Tasks
      /\ Len(buffer) \in Nat
      /\ \A i \in 1..Len(buffer) : buffer[i].task \in Tasks
  <2>1. \A i \in 1..Len(buffer) : buffer[i] \in [from : Workers, task : Tasks]
    BY ElementOfSeq DEF TypeOK
  <2> QED BY <2>1, LenProperties DEF TypeOK
<1>2. CASE StartJob
  <2>1. ASSUME NEW t \in Tasks, KnownTask(t)
        PROVE  KnownTask(t)'
    <3>1. t.id \in Nat /\ t.id <= job /\ job \in Nat /\ job' = job + 1
      BY <1>2, <2>1, NumberOfJobs DEF StartJob, TypeOK, Tasks, KnownTask
    <3> QED BY <3>1 DEF KnownTask
  <2> QED BY <1>1, <1>2, <2>1 DEF StartJob, TasksKnown, workerVars
<1>3. CASE Mapper
  <2>1. next' \in Nat /\ next <= next'
    BY <1>3 DEF Mapper, MapTake, MapPut, MapSend, MapStop, Barrier, BeginReduce,
       ReduceTake, ReducePut, ReduceSend, TypeOK
  <2>2. \A t \in Tasks : KnownTask(t) => KnownTask(t)'
    BY <1>3, <2>1, MapperFrame, StaysKnown
  <2>3. CASE MapSend \/ ReduceSend
    <3>1. PICK w \in Workers, t \in Tasks :
            /\ SendTask(w, t)
            /\ next' = next
            /\ \/ mpc = "mapSend" /\ t = MapTask(next)
               \/ mpc = "reduceSend" /\ t = ReduceTask(rkey)
      BY <2>3, MapTaskType, ReduceTaskType DEF MapSend, ReduceSend, TypeOK
    <3>2. KnownTask(t)'
      BY <1>3, <3>1, SentTaskKnown
    <3>3. \A v \in Workers : pending'[v] \subseteq pending[v] \cup {t}
      BY <3>1 DEF SendTask, SendMsg, TypeOK
    <3>4. buffer' = buffer
      BY <1>3, MapperFrame
    <3> QED BY <1>1, <2>2, <3>2, <3>3, <3>4 DEF TasksKnown
  <2>4. CASE ~MapSend /\ ~ReduceSend
    <3>1. pending' = pending /\ buffer' = buffer
      BY <1>3, <2>4 DEF Mapper, MapTake, MapPut, MapStop, Barrier, BeginReduce,
         ReduceTake, ReducePut, workerVars
    <3> QED BY <1>1, <2>2, <3>1 DEF TasksKnown
  <2> QED BY <2>3, <2>4
<1>4. CASE Listener
  <2>1. /\ job' = job /\ next' = next
        /\ isMapFinished => isMapFinished'
    <3>1. CASE StartReduce
      BY <3>1 DEF StartReduce
    <3>2. CASE ~StartReduce
      BY <1>4, <3>2, ListenerFrame DEF mapperVars
    <3> QED BY <3>1, <3>2
  <2>2. \A t \in Tasks : KnownTask(t) => KnownTask(t)'
    BY <1>4, <2>1, GroupsFrozen, StaysKnown DEF TypeOK
  <2>3. \A i \in 1..Len(buffer') : \E j \in 1..Len(buffer) : buffer'[i] = buffer[j]
    <3>1. CASE buffer' = buffer
      BY <3>1
    <3>2. CASE buffer # << >> /\ buffer' = Tail(buffer)
      <4>1. /\ Len(buffer') = Len(buffer) - 1
            /\ \A i \in 1..Len(buffer') : buffer'[i] = buffer[i+1]
        BY <3>2, HeadTailProperties DEF TypeOK
      <4> QED BY <1>1, <4>1
    <3> QED BY <1>4, <3>1, <3>2, ListenerBuffer
  <2> QED BY <1>1, <1>4, <2>2, <2>3, ListenerBuffer DEF TasksKnown
<1>5. CASE Volunteers \/ UNCHANGED vars
  <2>1. \A t \in Tasks : KnownTask(t) => KnownTask(t)'
    BY <1>5, VolunteersFrame DEF jobVars, mapperVars, listenerVars, sharedVars,
       KnownTask, Job
  <2>2. CASE UNCHANGED vars
    BY <1>1, <2>1, <2>2 DEF vars, workerVars, TasksKnown
  <2>3. ASSUME NEW w \in Workers, Connect(w) \/ RemoveClient(w)
        PROVE  TasksKnown'
    BY <1>1, <2>1, <2>3 DEF Connect, RemoveClient, TasksKnown
  <2>4. ASSUME NEW w \in Workers, Disconnect(w)
        PROVE  TasksKnown'
    <3>1. \A v \in Workers : pending'[v] \subseteq pending[v]
      BY <2>4 DEF Disconnect, TypeOK
    <3> QED BY <1>1, <2>1, <2>4, <3>1 DEF Disconnect, TasksKnown
  <2>5. ASSUME NEW w \in Workers, Answer(w)
        PROVE  TasksKnown'
    <3>1. PICK t \in pending[w] :
            /\ pending' = [pending EXCEPT ![w] = @ \ {t}]
            /\ buffer' = Append(buffer, [from |-> w, task |-> t])
      BY <2>5 DEF Answer
    <3>2. t \in Tasks /\ KnownTask(t)'
      BY <1>1, <2>1 DEF TasksKnown
    <3>3. \A v \in Workers : pending'[v] \subseteq pending[v]
      BY <3>1 DEF TypeOK
    <3>4. [from |-> w, task |-> t] \in [from : Workers, task : Tasks]
      BY <3>2
    <3>5. /\ Len(buffer') = Len(buffer) + 1
          /\ \A i \in 1..Len(buffer) : buffer'[i] = buffer[i]
          /\ buffer'[Len(buffer) + 1].task = t
      BY <3>1, <3>4, AppendProperties DEF TypeOK
    <3>6. \A i \in 1..Len(buffer') :
            \/ i \in 1..Len(buffer) /\ buffer'[i] = buffer[i]
            \/ buffer'[i].task = t
      BY <1>1, <3>5
    <3>7. (\A i \in 1..Len(buffer) : KnownTask(buffer[i].task))'
      BY <1>1, <2>1, <3>2, <3>6 DEF TasksKnown
    <3> QED BY <1>1, <2>1, <3>3, <3>7 DEF TasksKnown
  <2> QED BY <1>5, <2>2, <2>3, <2>4, <2>5 DEF Volunteers, WorkersNext
<1> QED BY <1>2, <1>3, <1>4, <1>5, NextCases DEF Listener

-----------------------------------------------------------------------------
(* Groups and results.                                                     *)

(* A job that ran has a description.                                       *)
LEMMA StartedJob ==
  ASSUME TypeOK, job > 0
  PROVE  Job \in JobType
<1>1. job \in 1..Len(JobList)
  BY NumberOfJobs DEF TypeOK
<1> QED BY <1>1, MapReduceAssumption, ElementOfSeq DEF Job

(* Pairs are taken by the mapper only, and never given back.               *)
LEMMA PairsGrow ==
  ASSUME TypeOK, Mapper \/ Listener
  PROVE  next' \in Nat /\ next <= next'
<1>1. CASE Mapper
  BY <1>1 DEF Mapper, MapTake, MapPut, MapSend, MapStop, Barrier, BeginReduce,
     ReduceTake, ReducePut, ReduceSend, TypeOK
<1>2. CASE StartReduce
  BY <1>2 DEF StartReduce, TypeOK
<1>3. CASE Listener /\ ~StartReduce
  BY <1>3, ListenerFrame DEF mapperVars, TypeOK
<1> QED BY <1>1, <1>2, <1>3

LEMMA GroupsSoundStep == IInv /\ [Next]_vars => GroupsSound'
<1> SUFFICES ASSUME TypeOK, PairsTaken, TasksKnown, GroupsSound, [Next]_vars
             PROVE  GroupsSound'
  BY DEF IInv
<1>1. CASE StartJob
  BY <1>1 DEF StartJob, NoGroups, GroupsSound
<1>2. ASSUME Mapper \/ Listener, groupBy' = groupBy
      PROVE  GroupsSound'
  <2>1. Job' = Job /\ next' \in Nat /\ next <= next' /\ next \in Nat
    BY <1>2, MapperRuns, ListenerRuns, PairsGrow DEF TypeOK
  <2> QED BY <1>2, <2>1 DEF GroupsSound
<1>3. CASE AddFinishedMapper
  <2> DEFINE p == Message.task.key
  <2>1. p \in 1..next
    BY <1>3, MessageMapped DEF AddFinishedMapper
  <2>2. Job' = Job /\ next' = next
    BY <1>3 DEF AddFinishedMapper, TakeMessage, mapperVars, Job
  <2>3. \A k \in Keys : \/ groupBy'[k] = groupBy[k]
                        \/ groupBy'[k] = groupBy[k] \cup {p} /\ k \in Job.emit[p]
    <3>1. CASE Job.mapOnly
      <4>1. groupBy' = groupBy
        BY <1>3, <3>1 DEF AddFinishedMapper
      <4> QED BY <4>1
    <3>2. CASE ~Job.mapOnly
      <4>1. groupBy' = [k \in Keys |-> groupBy[k] \cup IF k \in Job.emit[p] THEN {p} ELSE {}]
        BY <1>3, <3>2 DEF AddFinishedMapper
      <4> HIDE DEF p
      <4> QED BY <4>1
    <3> QED BY <3>1, <3>2
  <2> HIDE DEF p
  <2> QED BY <2>1, <2>2, <2>3 DEF GroupsSound
<1>4. CASE Listener /\ ~AddFinishedMapper
  <2>1. groupBy' = groupBy
    BY <1>4 DEF Listener, AddFinishedReducer, IgnoreResponse, ReleaseWorker,
       RecheckStatus, StartReduce, FinishReduce, KeepListening, sharedVars
  <2> QED BY <1>2, <1>4, <2>1
<1>5. CASE Mapper
  BY <1>2, <1>5, MapperFrame
<1>6. CASE Volunteers \/ UNCHANGED vars
  BY <1>6, VolunteersFrame DEF jobVars, mapperVars, sharedVars, Job, GroupsSound
<1> QED BY <1>1, <1>3, <1>4, <1>5, <1>6, NextCases DEF Listener

(* The answer of a reduce task that is accepted is that of a whole group,  *)
(* and it comes once mapping is finished.                                  *)
LEMMA MessageReduced ==
  ASSUME TypeOK, TasksKnown, TakeMessage, AcceptsReduce
  PROVE  /\ isMapFinished /\ ~Job.mapOnly
         /\ Message.task.values = groupBy[Message.task.key]
         /\ Message.task.values # {}
<1>1. 1 \in 1..Len(buffer) /\ Message = buffer[1]
  BY EmptySeq DEF TakeMessage, TypeOK, Message
<1>2. KnownTask(Message.task)
  BY <1>1 DEF TasksKnown
<1> QED BY <1>2 DEF KnownTask, AcceptsReduce

LEMMA ResultsExactStep == IInv /\ [Next]_vars => ResultsExact'
<1> SUFFICES ASSUME TypeOK, Sending, PairsTaken, TasksKnown, ResultsExact, [Next]_vars
             PROVE  ResultsExact'
  BY DEF IInv
<1>1. CASE StartJob
  BY <1>1 DEF StartJob, ResultsExact
<1>2. ASSUME Mapper \/ Listener, UNCHANGED <<results, groupBy>>,
             isMapFinished => isMapFinished'
      PROVE  ResultsExact'
  <2>1. Job' = Job /\ next' \in Nat /\ next <= next' /\ next \in Nat
    BY <1>2, MapperRuns, ListenerRuns, PairsGrow DEF TypeOK
  <2> QED BY <1>2, <2>1 DEF ResultsExact
<1>3. CASE AddFinishedMapper
  <2> DEFINE p == Message.task.key
  <2>1. p \in 1..next
    BY <1>3, MessageMapped DEF AddFinishedMapper
  <2>2. Job' = Job /\ next' = next /\ isMapFinished' = isMapFinished /\ ~isMapFinished
    BY <1>3 DEF AddFinishedMapper, AcceptsMap, TakeMessage, mapperVars, Job
  <2>3. CASE Job.mapOnly
    <3>1. results' = results \cup {[key |-> k, values |-> {p}] : k \in Job.emit[p]}
      BY <1>3, <2>3 DEF AddFinishedMapper
    <3> HIDE DEF p
    <3> QED BY <2>1, <2>2, <2>3, <3>1 DEF ResultsExact
  <2>4. CASE ~Job.mapOnly
    <3>1. results' = results
      BY <1>3, <2>4 DEF AddFinishedMapper
    <3>2. results = {}
      BY <2>2, <2>4 DEF ResultsExact
    <3> QED BY <3>1, <3>2 DEF ResultsExact
  <2> QED BY <2>3, <2>4
<1>4. CASE AddFinishedReducer
  <2>1. /\ isMapFinished /\ ~Job.mapOnly
        /\ Message.task.values = groupBy[Message.task.key]
        /\ Message.task.values # {}
    BY <1>4, MessageReduced DEF AddFinishedReducer
  <2>2. Job' = Job /\ isMapFinished' = isMapFinished /\ groupBy' = groupBy
    BY <1>4 DEF AddFinishedReducer, TakeMessage, Job
  <2>3. results' = results \cup {[key |-> Message.task.key, values |-> Message.task.values]}
    BY <1>4 DEF AddFinishedReducer
  <2> QED BY <2>1, <2>2, <2>3 DEF ResultsExact
<1>5. CASE Listener /\ ~AddFinishedMapper /\ ~AddFinishedReducer
  <2>1. /\ UNCHANGED <<results, groupBy>>
        /\ isMapFinished => isMapFinished'
    <3>1. UNCHANGED <<results, groupBy>>
      BY <1>5 DEF Listener, IgnoreResponse, ReleaseWorker, RecheckStatus,
         StartReduce, FinishReduce, KeepListening, sharedVars
    <3>2. isMapFinished => isMapFinished'
      BY <1>5, ListenerFrame DEF StartReduce
    <3> QED BY <3>1, <3>2
  <2> QED BY <1>2, <1>5, <2>1
<1>6. CASE Mapper
  BY <1>2, <1>6, MapperFrame
<1>7. CASE Volunteers \/ UNCHANGED vars
  BY <1>7, VolunteersFrame
  DEF jobVars, mapperVars, listenerVars, sharedVars, Job, ResultsExact
<1> QED BY <1>1, <1>3, <1>4, <1>5, <1>6, <1>7, NextCases DEF Listener

LEMMA SearchHasResultStep == IInv /\ [Next]_vars => SearchHasResult'
<1> SUFFICES ASSUME TypeOK, Sending, SearchHasResult, [Next]_vars
             PROVE  SearchHasResult'
  BY DEF IInv
<1> USE DEF SearchHasResult
<1>1. CASE StartJob
  BY <1>1 DEF StartJob
<1>2. CASE Mapper
  <2>1. /\ Job' = Job /\ job' = job /\ job > 0 /\ Job \in JobType
        /\ lpc' = lpc /\ results' = results
    BY <1>2, MapperRuns, MapperFrame
  <2>2. CASE MapSend
    BY <2>1, <2>2 DEF MapSend, HasNext
  <2>3. CASE MapStop
    BY <2>1, <2>3 DEF MapStop, FinishedOnFirstMap
  <2>4. CASE ReduceSend
    BY <2>1, <2>4 DEF ReduceSend, Sending
  <2>5. CASE ~MapSend /\ ~MapStop /\ ~ReduceSend
    <3>1. allReduceSent' = allReduceSent
      BY <1>2, <2>5 DEF Mapper, MapTake, MapPut, Barrier, BeginReduce, ReduceTake,
         ReducePut, sharedVars
    <3> QED BY <2>1, <3>1
  <2> QED BY <2>2, <2>3, <2>4, <2>5
<1>3. CASE Listener
  <2>1. Job' = Job /\ job' = job /\ lpc # "done"
    BY <1>3, ListenerRuns
  <2>2. CASE FinishReduce
    BY <2>1, <2>2 DEF FinishReduce, ReducingFinished, FinishedOnFirstMap, sharedVars
  <2>3. CASE ~FinishReduce
    <3>1. /\ lpc' # "done" /\ allReduceSent' = allReduceSent
          /\ results \subseteq results'
      BY <1>3, <2>3 DEF Listener, AddFinishedMapper, AddFinishedReducer,
         TakeMessage, IgnoreResponse, ReleaseWorker, RecheckStatus, StartReduce,
         KeepListening, sharedVars
    <3> QED BY <2>1, <3>1
  <2> QED BY <2>2, <2>3
<1>4. CASE Volunteers \/ UNCHANGED vars
  BY <1>4, VolunteersFrame DEF jobVars, listenerVars, sharedVars, Job
<1> QED BY <1>1, <1>2, <1>3, <1>4, NextCases DEF Listener

-----------------------------------------------------------------------------
(* The invariant holds.                                                    *)

LEMMA InitInv == Init => IInv
<1> SUFFICES ASSUME Init PROVE IInv
  OBVIOUS
<1>1. TypeOK
  BY InitType
<1>2. TasksKnown
  BY EmptySeq DEF Init, WorkersInit, TasksKnown
<1>3. GroupsSound /\ KeysGrouped /\ ResultsExact
  BY DEF Init, NoGroups, GroupsSound, KeysGrouped, ResultsExact
<1>4. Handshake /\ Sending /\ ListenerOutlivesMapper /\ PairsTaken /\ SearchHasResult
  BY DEF Init, Handshake, Reducing, Sending, ListenerOutlivesMapper, Finished,
     PairsTaken, SearchHasResult
<1> QED BY <1>1, <1>2, <1>3, <1>4 DEF IInv

(* The threads of a job keep the invariant IInv: the flags, the tasks that *)
(* are under way, the groups and the results fit together in every state.  *)
THEOREM Invariance == Spec => []IInv
<1>1. IInv /\ [Next]_vars => IInv'
  BY NextType, HandshakeStep, SendingStep, ListenerOutlivesStep, PairsTakenStep,
     TasksKnownStep, KeysGroupedStep, GroupsSoundStep, ResultsExactStep,
     SearchHasResultStep
  DEF IInv
<1> QED BY InitInv, <1>1, PTL DEF Spec

-----------------------------------------------------------------------------
(* What follows from it.                                                   *)

(* The variables keep their types, and no thread records, sends to or      *)
(* releases a worker it does not hold (MapReducer.run, eval).              *)
THEOREM TypeCorrect == Spec => []TypeOK
<1>1. IInv => TypeOK
  BY DEF IInv
<1> QED BY Invariance, <1>1, PTL

(* Whatever the order in which the two threads reach LOCKMAP, the mapper   *)
(* does not wait there once the listener has seen the end of mapping.      *)
THEOREM WakeupIsNotLost == Spec => []NoLostWakeup
<1>1. IInv => NoLostWakeup
  BY DEF IInv, Handshake, NoLostWakeup
<1> QED BY Invariance, <1>1, PTL

(* Only a map-only search can lose its listener before its mapper is done. *)
THEOREM ListenerStays == Spec => []ListenerOutlivesMapper
<1>1. IInv => ListenerOutlivesMapper
  BY DEF IInv
<1> QED BY Invariance, <1>1, PTL

(* Results rest on pairs of the running job that were handed out and that  *)
(* emitted the result's key, whatever answers earlier jobs left behind.    *)
THEOREM ResultsAreSound == Spec => []ResultsSound
<1>1. ASSUME IInv
      PROVE  ResultsSound
  <2>1. ASSUME NEW r \in results, Job.mapOnly
        PROVE  r.values # {} /\ \A p \in r.values : p \in 1..next /\ r.key \in Job.emit[p]
    BY <1>1, <2>1 DEF IInv, ResultsExact
  <2>2. ASSUME NEW r \in results, ~Job.mapOnly
        PROVE  r.values # {} /\ \A p \in r.values : p \in 1..next /\ r.key \in Job.emit[p]
    <3>1. r.key \in Keys /\ r.values = groupBy[r.key] /\ r.values # {}
      BY <1>1, <2>2 DEF IInv, ResultsExact, TypeOK
    <3> QED BY <1>1, <3>1 DEF IInv, GroupsSound
  <2> QED BY <2>1, <2>2 DEF ResultsSound
<1> QED BY Invariance, <1>1, PTL

(* What a reducer computed, it computed from the whole group of its key:   *)
(* no key of a job that reduces has two results.                           *)
THEOREM GroupsAreWhole == Spec => []WholeGroups
<1>1. IInv => WholeGroups
  BY DEF IInv, ResultsExact, WholeGroups
<1> QED BY Invariance, <1>1, PTL

(* An endless search that is over has a result.                            *)
THEOREM SearchesFind == Spec => []SearchEndsWithResult
<1>1. IInv => SearchEndsWithResult
  BY DEF IInv, SearchHasResult, SearchEndsWithResult, Finished
<1> QED BY Invariance, <1>1, PTL

(* The groups do not change under the mapper's iterator.                   *)
THEOREM GroupsStayFrozen == Spec => GroupByFrozen
<1>1. IInv /\ [Next]_vars => [Reducing => UNCHANGED groupBy]_vars
  <2> SUFFICES ASSUME Handshake, [Next]_vars, Reducing
               PROVE  groupBy' = groupBy
    BY DEF IInv
  <2>1. mpc # "done" /\ isMapFinished
    BY DEF Handshake, Reducing
  <2>2. CASE StartJob
    BY <2>1, <2>2 DEF StartJob
  <2>3. CASE Mapper
    BY <2>3, MapperFrame
  <2>4. CASE Listener
    BY <2>1, <2>4, GroupsFrozen
  <2>5. CASE Volunteers \/ UNCHANGED vars
    BY <2>5, VolunteersFrame DEF jobVars, sharedVars
  <2> QED BY <2>2, <2>3, <2>4, <2>5, NextCases DEF Listener
<1> QED BY Invariance, <1>1, PTL DEF Spec, GroupByFrozen

-----------------------------------------------------------------------------
(* Where the workers are.                                                  *)

Listed(w)         == Contains(idle, w)
Sent(w)           == pending[w] # {}
Answered(w)       == \E i \in 1..Len(buffer) : buffer[i].from = w
HeldByListener(w) == lpc \in {"release", "stale"} /\ lworker = w

AnsweredOnce(w) ==
  \A i, j \in 1..Len(buffer) : buffer[i].from = w /\ buffer[j].from = w => i = j

OneSent(w) == \A t, u \in pending[w] : t = u

(* A worker that both threads leave alone, and that has no task            *)
Untouched(w) ==
  mworker # w /\ ~HeldByListener(w) /\ ~Sent(w) /\ ~Answered(w)

(* A worker is in one place at a time: in the queue of idle workers, in    *)
(* the hands of the mapper or of the listener, at work, or behind its      *)
(* answer in the buffer.                                                   *)
OnePlace(w) ==
  /\ AtMostOnce(idle, w) /\ AnsweredOnce(w) /\ OneSent(w)
  /\ Listed(w) \/ conn[w] = "new" => Untouched(w) /\ w \notin currentTasks
  /\ conn[w] = "new" => ~Listed(w)
  /\ mworker = w => ~HeldByListener(w) /\ ~Sent(w) /\ ~Answered(w)
  /\ HeldByListener(w) => ~Sent(w) /\ ~Answered(w)
  /\ ~(Sent(w) /\ Answered(w))

Exclusion == ~doubleRelease => \A w \in Workers : OnePlace(w)

(* A connected worker whose status is IDLE is in the queue                 *)
IdleIsListed ==
  \A w \in Workers : conn[w] = "open" /\ status[w] = "IDLE" => Listed(w)

Remembered ==
  \A w \in Workers : conn[w] = "open" =>
    Listed(w) \/ Sent(w) \/ Answered(w) \/ w \in {mworker, lworker}

-----------------------------------------------------------------------------
(* Where the pairs and the groups of a job are.                            *)

(* A task of the running job with this type and key                        *)
IsTask(t, type, key) == t.id = job /\ t.type = type /\ t.key = key

(* It has been sent to w, and its answer has not been taken                *)
UnderWay(w, type, key) ==
  \/ \E t \in pending[w] : IsTask(t, type, key)
  \/ \E i \in 1..Len(buffer) : buffer[i].from = w /\ IsTask(buffer[i].task, type, key)

(* w computes the task of this type and key, or took one away with it:     *)
(* a worker of currentTasks that nobody holds and that has no task stays   *)
(* in currentTasks for the rest of the job.                                *)
OnDuty(w, type, key) == UnderWay(w, type, key) \/ Untouched(w)

Merged(p) ==
  \A k \in Job.emit[p] : IF Job.mapOnly
                         THEN [key |-> k, values |-> {p}] \in results
                         ELSE p \in groupBy[k]

Reduced(k) == \E r \in results : r.key = k

PairsAccounted ==
  \A p \in 1..next : \/ Merged(p)
                     \/ mpc = "mapSend" /\ p = next
                     \/ \E w \in currentTasks : OnDuty(w, "MAP", p)

ReduceBegun == \/ mpc \in {"reduceTake", "reducePut", "reduceSend"}
               \/ allReduceSent /\ ~Job.mapOnly

GroupsAccounted ==
  ReduceBegun =>
    \A k \in Grouped : \/ k \in toReduce
                       \/ mpc \in {"reducePut", "reduceSend"} /\ rkey = k
                       \/ Reduced(k)
                       \/ \E w \in currentTasks : OnDuty(w, "REDUCE", k)

(* The mapper has recorded the task it sends                               *)
SendsRecorded == mpc \in {"mapSend", "reduceSend"} => mworker \in currentTasks

(* The flags of the mapper are set when nothing is left to send            *)
AllSent ==
  /\ allMapSent => next = Len(Job.emit)
  /\ allReduceSent => IF Job.mapOnly THEN allMapSent ELSE toReduce = {}

AllMerged == isMapFinished => allMapSent /\ \A p \in 1..next : Merged(p)
AllDone   == lpc = "done" => allReduceSent /\ currentTasks = {}

Accounts == /\ PairsAccounted /\ GroupsAccounted /\ SendsRecorded
            /\ AllSent /\ AllMerged /\ AllDone

(* What a job that does not stop at a first result has still to do is in   *)
(* the hands of somebody.                                                  *)
Accounted == ~doubleRelease /\ job > 0 /\ ~Job.stopOnFirst => Accounts

-----------------------------------------------------------------------------
(* A worker is in one place.                                               *)

(* Who comes to no new place is still in one place.                        *)
LEMMA StaysInPlace ==
  ASSUME NEW v \in Workers, OnePlace(v),
         Contains(idle', v) => Listed(v), AtMostOnce(idle', v),
         AnsweredOnce(v)', Answered(v)' => Answered(v),
         OneSent(v)', Sent(v)' => Sent(v),
         conn'[v] = "new" => conn[v] = "new",
         mworker' = v => mworker = v,
         HeldByListener(v)' => HeldByListener(v),
         v \in currentTasks' => v \in currentTasks
  PROVE  OnePlace(v)'
BY DEF OnePlace, Untouched, Listed

(* The answer at the head of the buffer is taken.                          *)
LEMMA TakenAnswer ==
  ASSUME TypeOK, TakeMessage, NEW v
  PROVE  /\ Answered(v) <=> Answered(v)' \/ v = Message.from
         /\ AnsweredOnce(v) => /\ AnsweredOnce(v)'
                               /\ v = Message.from => ~Answered(v)'
         /\ \A i \in 1..Len(buffer) : \/ buffer[i] = Message
                                     \/ \E j \in 1..Len(buffer') : buffer'[j] = buffer[i]
<1>1. /\ Len(buffer) \in Nat \ {0} /\ Len(buffer') = Len(buffer) - 1
      /\ \A i \in 1..Len(buffer') : buffer'[i] = buffer[i+1]
      /\ Message = buffer[1]
  BY HeadTailProperties, EmptySeq DEF TypeOK, TakeMessage, Message
<1>2. \A i \in 1..Len(buffer') : i+1 \in 1..Len(buffer) /\ i+1 # 1
  BY <1>1
<1>3. /\ 1 \in 1..Len(buffer)
      /\ \A i \in 1..Len(buffer) : i = 1 \/ (i-1 \in 1..Len(buffer') /\ (i-1)+1 = i)
  BY <1>1
<1>4. Answered(v) <=> Answered(v)' \/ v = Message.from
  <2>1. ASSUME NEW i \in 1..Len(buffer), buffer[i].from = v, v # Message.from
        PROVE  Answered(v)'
    <3>1. i-1 \in 1..Len(buffer') /\ buffer'[i-1] = buffer[i]
      BY <1>1, <1>3, <2>1
    <3> QED BY <2>1, <3>1 DEF Answered
  <2> QED BY <1>1, <1>2, <1>3, <2>1 DEF Answered
<1>5. ASSUME AnsweredOnce(v)
      PROVE  AnsweredOnce(v)' /\ (v = Message.from => ~Answered(v)')
  <2>1. ASSUME NEW i \in 1..Len(buffer'), NEW j \in 1..Len(buffer'),
               buffer'[i].from = v, buffer'[j].from = v
        PROVE  i = j
    <3>1. i+1 = j+1
      BY <1>1, <1>2, <1>5, <2>1 DEF AnsweredOnce
    <3> QED BY <1>1, <3>1
  <2>2. v = Message.from => ~Answered(v)'
    BY <1>1, <1>2, <1>3, <1>5 DEF AnsweredOnce, Answered
  <2> QED BY <2>1, <2>2 DEF AnsweredOnce
<1>6. \A i \in 1..Len(buffer) : \/ buffer[i] = Message
                                \/ \E j \in 1..Len(buffer') : buffer'[j] = buffer[i]
  BY <1>1, <1>3
<1> QED BY <1>4, <1>5, <1>6

(* An answer is put into the buffer.                                       *)
LEMMA GivenAnswer ==
  ASSUME TypeOK, NEW w \in Workers, NEW t \in Tasks,
         buffer' = Append(buffer, [from |-> w, task |-> t]), NEW v
  PROVE  /\ Answered(v)' <=> Answered(v) \/ v = w
         /\ AnsweredOnce(v) /\ (v = w => ~Answered(v)) => AnsweredOnce(v)'
         /\ \A i \in 1..Len(buffer) : i \in 1..Len(buffer') /\ buffer'[i] = buffer[i]
         /\ \E i \in 1..Len(buffer') : buffer'[i] = [from |-> w, task |-> t]
         /\ \A i \in 1..Len(buffer') : \/ i \in 1..Len(buffer) /\ buffer'[i] = buffer[i]
                                       \/ buffer'[i] = [from |-> w, task |-> t]
<1> DEFINE e == [from |-> w, task |-> t]
<1>1. e \in [from : Workers, task : Tasks] /\ e.from = w
  OBVIOUS
<1> HIDE DEF e
<1>2. buffer' = Append(buffer, e)
  BY DEF e
<1>3. /\ Len(buffer) \in Nat /\ Len(buffer') = Len(buffer) + 1
      /\ \A i \in 1..Len(buffer) : buffer'[i] = buffer[i]
      /\ buffer'[Len(buffer) + 1] = e
  BY <1>1, <1>2, AppendProperties, LenProperties DEF TypeOK
<1>4. \A i \in 1..Len(buffer') : i \in 1..Len(buffer) \/ i = Len(buffer) + 1
  BY <1>3
<1>5. 1..Len(buffer) \subseteq 1..Len(buffer') /\ Len(buffer) + 1 \in 1..Len(buffer')
  BY <1>3
<1>6. Answered(v)' <=> Answered(v) \/ v = w
  BY <1>1, <1>3, <1>4, <1>5 DEF Answered
<1>7. AnsweredOnce(v) /\ (v = w => ~Answered(v)) => AnsweredOnce(v)'
  BY <1>1, <1>3, <1>4 DEF AnsweredOnce, Answered
<1> QED BY <1>3, <1>4, <1>5, <1>6, <1>7 DEF e

(* The mapper takes the worker at the head of the queue.                   *)
LEMMA TakePlace ==
  ASSUME TypeOK, NEW w \in Workers, GetIdleWorker(w), mworker = None, mworker' = w,
         UNCHANGED <<lpc, lworker, pending, buffer, conn, currentTasks>>,
         NEW v \in Workers, OnePlace(v)
  PROVE  OnePlace(v)'
<1>1. /\ Contains(idle, v) <=> Contains(idle', v) \/ v = w
      /\ AtMostOnce(idle, v) => /\ AtMostOnce(idle', v)
                                /\ v = w => ~Contains(idle', v)
  BY TailContains DEF TypeOK, GetIdleWorker
<1> QED BY <1>1, MapReduceAssumption
        DEF OnePlace, Untouched, Listed, HeldByListener, Sent, Answered, OneSent, AnsweredOnce

(* A worker that is in no place is given back to the queue.                *)
LEMMA ReleasePlace ==
  ASSUME TypeOK, NEW w \in Workers, Release(w), Untouched(w)', ~Listed(w),
         conn[w] # "new",
         mworker' \in {mworker, None},
         \A u \in Workers : HeldByListener(u)' => HeldByListener(u),
         UNCHANGED <<pending, buffer, conn>>,
         NEW v \in Workers, OnePlace(v)
  PROVE  OnePlace(v)'
<1>1. /\ Contains(idle', v) <=> Contains(idle, v) \/ v = w
      /\ AtMostOnce(idle, v) /\ (v = w => ~Contains(idle, v)) => AtMostOnce(idle', v)
  BY AppendContains DEF TypeOK, Release, SetIdleWorker
<1>2. \/ v = w /\ v \notin currentTasks'
      \/ v # w /\ (v \in currentTasks' => v \in currentTasks)
  BY DEF Release
<1>3. UNCHANGED <<Sent(v), Answered(v), OneSent(v), AnsweredOnce(v), conn[v]>>
  BY DEF Sent, Answered, OneSent, AnsweredOnce
<1>4. CASE v = w
  BY <1>1, <1>2, <1>3, <1>4 DEF OnePlace, Untouched, Listed
<1>5. CASE v # w
  <2>1. mworker' = v => mworker = v
    BY MapReduceAssumption
  <2> QED BY <1>1, <1>2, <1>3, <1>5, <2>1, StaysInPlace DEF OnePlace, Listed
<1> QED BY <1>4, <1>5

(* The mapper sends a task to the worker it holds.                         *)
LEMMA SendPlace ==
  ASSUME TypeOK, NEW t \in Tasks, mworker \in Workers, SendTask(mworker, t),
         mworker' = None,
         UNCHANGED <<lpc, lworker, idle, buffer, conn, currentTasks>>,
         NEW v \in Workers, OnePlace(v)
  PROVE  OnePlace(v)'
<1>1. CASE v = mworker
  <2>1. pending'[v] \subseteq {t}
    BY <1>1 DEF SendTask, SendMsg, TypeOK, OnePlace, Sent
  <2>2. OneSent(v)' /\ ~Listed(v) /\ ~Answered(v) /\ ~HeldByListener(v) /\ conn[v] # "new"
    BY <1>1, <2>1 DEF OneSent, OnePlace, Untouched
  <2> QED BY <2>2, MapReduceAssumption
          DEF OnePlace, Untouched, Listed, HeldByListener, Answered, AnsweredOnce
<1>2. CASE v # mworker
  <2>1. pending'[v] = pending[v]
    BY <1>2 DEF SendTask, SendMsg, TypeOK
  <2>2. mworker' # v
    BY MapReduceAssumption
  <2> QED BY <2>1, <2>2, StaysInPlace
          DEF OnePlace, Listed, HeldByListener, Answered, AnsweredOnce, Sent, OneSent
<1> QED BY <1>1, <1>2

(* The mapper and the scheduler: taking, recording, sending and giving     *)
(* back a worker.                                                          *)
LEMMA MapperPlace ==
  ASSUME TypeOK, Mapper, \A w \in Workers : OnePlace(w),
         NEW v \in Workers
  PROVE  OnePlace(v)'
<1> USE MapReduceAssumption
<1>1. CASE MapTake \/ ReduceTake
  <2>1. PICK w \in Workers : GetIdleWorker(w) /\ mworker' = w
    BY <1>1 DEF MapTake, ReduceTake
  <2>2. /\ mworker = None
        /\ UNCHANGED <<lpc, lworker, pending, buffer, conn, currentTasks>>
    BY <1>1 DEF MapTake, ReduceTake, TypeOK, listenerVars, sharedVars
  <2> QED BY <2>1, <2>2, TakePlace
<1>2. CASE MapPut \/ ReducePut
  <2>1. /\ currentTasks' = currentTasks \cup {mworker} /\ mworker' = mworker
        /\ UNCHANGED <<lpc, lworker, idle, pending, buffer, conn>>
    BY <1>2 DEF MapPut, ReducePut, listenerVars, workerVars
  <2> QED BY <2>1
      DEF OnePlace, Untouched, Listed, HeldByListener, Sent, Answered, OneSent, AnsweredOnce
<1>3. CASE MapSend \/ ReduceSend
  <2>1. PICK t \in Tasks : SendTask(mworker, t)
    BY <1>3, MapTaskType, ReduceTaskType DEF MapSend, ReduceSend, TypeOK
  <2>2. /\ mworker \in Workers /\ mworker' = None
        /\ UNCHANGED <<lpc, lworker, idle, buffer, conn, currentTasks>>
    BY <1>3 DEF MapSend, ReduceSend, TypeOK, listenerVars
  <2> QED BY <2>1, <2>2, SendPlace
<1>4. CASE MapStop
  <2>1. PICK w \in Workers : w = mworker /\ Release(w)
    BY <1>4 DEF MapStop, TypeOK
  <2>2. mworker' = None /\ UNCHANGED <<lpc, lworker, pending, buffer, conn>>
    BY <1>4 DEF MapStop, listenerVars
  <2>3. OnePlace(w)
    OBVIOUS
  <2>4. Untouched(w)' /\ ~Listed(w) /\ conn[w] # "new"
    BY <2>1, <2>2, <2>3 DEF OnePlace, Untouched, HeldByListener, Sent, Answered
  <2>5. \A u \in Workers : HeldByListener(u)' => HeldByListener(u)
    BY <2>2 DEF HeldByListener
  <2> QED BY <2>1, <2>2, <2>4, <2>5, ReleasePlace
<1>5. CASE Barrier \/ BeginReduce
  BY <1>5
  DEF Barrier, BeginReduce, listenerVars, sharedVars, workerVars,
      OnePlace, Untouched, Listed, HeldByListener, Sent, Answered, OneSent, AnsweredOnce
<1> QED BY <1>1, <1>2, <1>3, <1>4, <1>5 DEF Mapper

(* The listener: taking an answer and giving its worker back.  Only after  *)
(* a release may eval find the worker taken again.                         *)
LEMMA ListenerPlace ==
  ASSUME TypeOK, Listener, ~doubleRelease', \A w \in Workers : OnePlace(w),
         NEW v \in Workers
  PROVE  OnePlace(v)'
<1> USE MapReduceAssumption
<1>1. CASE TakeMessage /\ lpc' \in {"release", "stale"}
  <2>1. /\ Message.from \in Workers /\ lworker' = Message.from /\ lpc = "take"
        /\ UNCHANGED <<idle, pending, conn, mworker, currentTasks>>
    BY <1>1, MessageType DEF TakeMessage, mapperVars
  <2>2. /\ Answered(v) <=> Answered(v)' \/ v = Message.from
        /\ AnsweredOnce(v) => /\ AnsweredOnce(v)'
                              /\ v = Message.from => ~Answered(v)'
    BY <1>1, TakenAnswer
  <2>3. HeldByListener(v)' <=> v = Message.from
    BY <1>1, <2>1 DEF HeldByListener
  <2> QED BY <2>1, <2>2, <2>3 DEF OnePlace, Untouched, Listed, HeldByListener, Sent, OneSent
<1>2. ASSUME NEW w \in Workers, HeldByListener(w), Release(w),
             UNCHANGED <<mworker, pending, buffer, conn>>, lpc' \in {"recheck", "check"}
      PROVE  OnePlace(v)'
  <2>1. \A u \in Workers : ~HeldByListener(u)'
    BY <1>2 DEF HeldByListener
  <2>2. Untouched(w)' /\ ~Listed(w) /\ conn[w] # "new"
    BY <1>2, <2>1 DEF OnePlace, Untouched, Sent, Answered
  <2> QED BY <1>2, <2>1, <2>2, ReleasePlace
<1>3. CASE ReleaseWorker
  <2>1. /\ lworker \in Workers /\ HeldByListener(lworker) /\ Release(lworker)
        /\ UNCHANGED <<mworker, pending, buffer, conn>> /\ lpc' = "recheck"
    BY <1>3 DEF ReleaseWorker, TypeOK, HeldByListener, mapperVars
  <2> QED BY <1>2, <2>1
<1>4. CASE RecheckStatus /\ StillWorking
  <2>1. lpc = "stale"
    BY <1>4 DEF RecheckStatus, StillWorking
  <2>2. /\ lworker \in Workers /\ HeldByListener(lworker) /\ Release(lworker)
        /\ UNCHANGED <<mworker, pending, buffer, conn>> /\ lpc' = "check"
    BY <1>4, <2>1 DEF RecheckStatus, TypeOK, HeldByListener, mapperVars
  <2> QED BY <1>2, <2>2
<1>5. CASE \/ RecheckStatus /\ ~StillWorking
           \/ StartReduce \/ FinishReduce \/ KeepListening
  <2>1. /\ ~HeldByListener(v)'
        /\ UNCHANGED <<idle, pending, buffer, conn, mworker, currentTasks>>
    BY <1>5 DEF RecheckStatus, StartReduce, FinishReduce, KeepListening,
       HeldByListener, workerVars, mapperVars, sharedVars
  <2> QED BY <2>1 DEF OnePlace, Untouched, Listed, Sent, Answered, OneSent, AnsweredOnce
<1> QED BY <1>1, <1>3, <1>4, <1>5
        DEF Listener, AddFinishedMapper, AddFinishedReducer, IgnoreResponse

(* The volunteers: a connection that is new is in no place yet, and an     *)
(* answer takes the place of its task.                                     *)
LEMMA VolunteersPlace ==
  ASSUME TypeOK, Volunteers, \A w \in Workers : OnePlace(w),
         NEW v \in Workers
  PROVE  OnePlace(v)'
<1>1. UNCHANGED <<lpc, lworker, mworker, currentTasks>>
  BY VolunteersFrame DEF jobVars, mapperVars, listenerVars, sharedVars
<1>2. HeldByListener(v)' <=> HeldByListener(v)
  BY <1>1 DEF HeldByListener
<1>3. ASSUME NEW w \in Workers, Connect(w)
      PROVE  OnePlace(v)'
  <2>1. /\ Contains(idle', v) <=> Contains(idle, v) \/ v = w
        /\ AtMostOnce(idle, v) /\ (v = w => ~Contains(idle, v)) => AtMostOnce(idle', v)
    BY <1>3, AppendContains DEF TypeOK, Connect
  <2>2. /\ UNCHANGED <<pending, buffer>>
        /\ conn[w] = "new" /\ conn'[w] = "open"
        /\ v # w => conn'[v] = conn[v]
    BY <1>3 DEF TypeOK, Connect
  <2> QED BY <1>1, <1>2, <2>1, <2>2
          DEF OnePlace, Untouched, Listed, Sent, Answered, OneSent, AnsweredOnce
<1>4. ASSUME NEW w \in Workers, Answer(w)
      PROVE  OnePlace(v)'
  <2>1. PICK t \in pending[w] :
          /\ pending' = [pending EXCEPT ![w] = @ \ {t}]
          /\ buffer' = Append(buffer, [from |-> w, task |-> t])
    BY <1>4 DEF Answer
  <2>2. t \in Tasks
    BY <2>1 DEF TypeOK
  <2>3. /\ Answered(v)' <=> Answered(v) \/ v = w
        /\ AnsweredOnce(v) /\ (v = w => ~Answered(v)) => AnsweredOnce(v)'
    BY <2>1, <2>2, GivenAnswer
  <2>4. UNCHANGED <<idle, conn>>
    BY <1>4 DEF Answer
  <2>5. CASE v = w
    <3>1. Sent(v) /\ ~Sent(v)' /\ OneSent(v)'
      BY <2>1, <2>5 DEF Sent, OneSent, OnePlace, TypeOK
    <3> QED BY <1>1, <1>2, <2>3, <2>4, <2>5, <3>1 DEF OnePlace, Untouched, Listed
  <2>6. CASE v # w
    <3>1. pending'[v] = pending[v]
      BY <2>1, <2>6 DEF TypeOK
    <3>2. (Sent(v)' <=> Sent(v)) /\ (OneSent(v)' <=> OneSent(v))
      BY <3>1 DEF Sent, OneSent
    <3> QED BY <1>1, <1>2, <2>3, <2>4, <2>6, <3>2 DEF OnePlace, Untouched, Listed
  <2> QED BY <2>5, <2>6
<1>5. ASSUME NEW w \in Workers, Disconnect(w)
      PROVE  OnePlace(v)'
  <2>1. /\ pending'[v] \subseteq pending[v] /\ (conn'[v] = "new" => conn[v] = "new")
        /\ UNCHANGED <<idle, buffer>>
    BY <1>5 DEF Disconnect, TypeOK
  <2> QED BY <1>1, <1>2, <2>1, StaysInPlace
          DEF OnePlace, Listed, Sent, OneSent, Answered, AnsweredOnce
<1>6. ASSUME NEW w \in Workers, RemoveClient(w)
      PROVE  OnePlace(v)'
  <2>1. /\ Contains(idle', v) => Contains(idle, v)
        /\ AtMostOnce(idle, v) => AtMostOnce(idle', v)
    BY <1>6, RemoveFirstContains DEF RemoveClient, TypeOK
  <2>2. UNCHANGED <<conn, pending, buffer>>
    BY <1>6 DEF RemoveClient
  <2> QED BY <1>1, <1>2, <2>1, <2>2, StaysInPlace
          DEF OnePlace, Listed, Sent, OneSent, Answered, AnsweredOnce
<1> QED BY <1>3, <1>4, <1>5, <1>6 DEF Volunteers, WorkersNext

(* A double release is not taken back.                                     *)
LEMMA ReleasedOnce ==
  ASSUME TypeOK, [Next]_vars, ~doubleRelease'
  PROVE  ~doubleRelease
  BY DEF Next, vars, StartJob, Mapper, MapTake, MapPut, MapSend, MapStop, Barrier,
     BeginReduce, ReduceTake, ReducePut, ReduceSend, Listener, AddFinishedMapper,
     AddFinishedReducer, IgnoreResponse, TakeMessage, ReleaseWorker, RecheckStatus,
     StartReduce, FinishReduce, KeepListening, Volunteers, jobVars, listenerVars, TypeOK

LEMMA ExclusionStep == IInv /\ Exclusion /\ [Next]_vars => Exclusion'
<1> SUFFICES ASSUME TypeOK, Exclusion, [Next]_vars, ~doubleRelease', NEW v \in Workers
             PROVE  OnePlace(v)'
  BY DEF IInv, Exclusion
<1>1. ~doubleRelease
  BY ReleasedOnce
<1>2. \A w \in Workers : OnePlace(w)
  BY <1>1 DEF Exclusion
<1>3. CASE StartJob
  BY <1>2, <1>3 DEF StartJob, workerVars, TypeOK, OnePlace, Untouched, Listed,
     HeldByListener, Sent, Answered, OneSent, AnsweredOnce
<1>4. CASE UNCHANGED vars
  BY <1>2, <1>4 DEF vars, jobVars, mapperVars, listenerVars, sharedVars, workerVars,
     OnePlace, Untouched, Listed, HeldByListener, Sent, Answered, OneSent, AnsweredOnce
<1> QED BY <1>2, <1>3, <1>4, MapperPlace, ListenerPlace, VolunteersPlace DEF Next

-----------------------------------------------------------------------------
(* No worker is forgotten.                                                 *)

(* A worker only becomes IDLE, and only connects, to join the queue; the   *)
(* mapper marks the one it takes WORKING.                                  *)
LEMMA IdleIsListedStep == IInv /\ IdleIsListed /\ [Next]_vars => IdleIsListed'
<1> SUFFICES ASSUME TypeOK, IdleIsListed, [Next]_vars,
                    NEW v \in Workers, conn'[v] = "open", status'[v] = "IDLE"
             PROVE  Contains(idle', v)
  BY DEF IInv, IdleIsListed, Listed
<1>1. ASSUME UNCHANGED <<conn, status, idle>>
      PROVE  Contains(idle', v)
  BY <1>1 DEF IdleIsListed, Listed
<1>2. ASSUME NEW w \in Workers, SetIdleWorker(w), conn' = conn
      PROVE  Contains(idle', v)
  <2>1. Contains(idle', v) <=> Contains(idle, v) \/ v = w
    BY <1>2, AppendContains DEF TypeOK, SetIdleWorker
  <2> QED BY <1>2, <2>1 DEF SetIdleWorker, IdleIsListed, Listed, TypeOK
<1>3. ASSUME NEW w \in Workers, GetIdleWorker(w), conn' = conn
      PROVE  Contains(idle', v)
  <2>1. Contains(idle, v) <=> Contains(idle', v) \/ v = w
    BY <1>3, TailContains DEF TypeOK, GetIdleWorker
  <2> QED BY <1>3, <2>1 DEF GetIdleWorker, IdleIsListed, Listed, TypeOK
<1>4. ASSUME NEW w \in Workers, NEW t, SendTask(w, t), UNCHANGED <<conn, idle>>
      PROVE  Contains(idle', v)
  BY <1>4 DEF SendTask, IdleIsListed, Listed, TypeOK
<1>5. CASE StartJob \/ UNCHANGED vars
  BY <1>1, <1>5 DEF StartJob, vars, workerVars
<1>6. CASE Mapper
  <2>1. CASE MapTake \/ ReduceTake
    BY <1>3, <2>1 DEF MapTake, ReduceTake
  <2>2. CASE MapSend \/ ReduceSend
    BY <1>4, <2>2 DEF MapSend, ReduceSend, TypeOK
  <2>3. CASE MapStop
    BY <1>2, <2>3 DEF MapStop, Release, TypeOK
  <2>4. CASE MapPut \/ ReducePut \/ Barrier \/ BeginReduce
    BY <1>1, <2>4 DEF MapPut, ReducePut, Barrier, BeginReduce, workerVars
  <2> QED BY <1>6, <2>1, <2>2, <2>3, <2>4 DEF Mapper
<1>7. CASE Listener
  <2>1. CASE ReleaseWorker \/ RecheckStatus
    BY <1>1, <1>2, <2>1 DEF ReleaseWorker, RecheckStatus, Release, TypeOK
  <2>2. CASE ~ReleaseWorker /\ ~RecheckStatus
    BY <1>1, <1>7, <2>2 DEF Listener, AddFinishedMapper, AddFinishedReducer,
       IgnoreResponse, TakeMessage, StartReduce, FinishReduce, KeepListening, workerVars
  <2> QED BY <2>1, <2>2
<1>8. ASSUME NEW w \in Workers, Connect(w)
      PROVE  Contains(idle', v)
  <2>1. Contains(idle', v) <=> Contains(idle, v) \/ v = w
    BY <1>8, AppendContains DEF TypeOK, Connect
  <2> QED BY <1>8, <2>1 DEF Connect, IdleIsListed, Listed, TypeOK
<1>9. ASSUME NEW w \in Workers, Answer(w) \/ Disconnect(w)
      PROVE  Contains(idle', v)
  BY <1>9 DEF Answer, Disconnect, IdleIsListed, Listed, TypeOK
<1>10. ASSUME NEW w \in Workers, RemoveClient(w)
       PROVE  Contains(idle', v)
  <2>1. Contains(idle, v) /\ v # w => Contains(idle', v)
    BY <1>10, RemoveFirstContains DEF TypeOK, RemoveClient
  <2> QED BY <1>10, <2>1 DEF RemoveClient, IdleIsListed, Listed
<1> QED BY <1>5, <1>6, <1>7, <1>8, <1>9, <1>10 DEF Next, Volunteers, WorkersNext

(* Eval gives a worker it has marked as its own back, unless the queue or  *)
(* the mapper already has it.                                              *)
LEMMA RememberedStep ==
  IInv /\ IdleIsListed /\ Remembered /\ [Next]_vars => Remembered'
<1> SUFFICES ASSUME TypeOK, IdleIsListed, Remembered, [Next]_vars,
                    NEW v \in Workers, conn'[v] = "open",
                    ~Contains(idle', v), v \notin {mworker', lworker'}
             PROVE  Sent(v)' \/ Answered(v)'
  BY DEF IInv, Remembered, Listed
<1> USE MapReduceAssumption
<1>1. conn[v] = "open" =>
        Contains(idle, v) \/ Sent(v) \/ Answered(v) \/ v \in {mworker, lworker}
  BY DEF Remembered, Listed
<1>2. CASE StartJob \/ UNCHANGED vars
  BY <1>1, <1>2 DEF StartJob, vars, jobVars, mapperVars, listenerVars, workerVars,
     Sent, Answered
<1>3. CASE MapTake \/ ReduceTake
  <2>1. PICK w \in Workers : GetIdleWorker(w) /\ mworker' = w
    BY <1>3 DEF MapTake, ReduceTake
  <2>2. Contains(idle, v) <=> Contains(idle', v) \/ v = w
    BY <2>1, TailContains DEF TypeOK, GetIdleWorker
  <2>3. mworker = None /\ UNCHANGED <<lworker, conn, pending, buffer>>
    BY <1>3 DEF MapTake, ReduceTake, TypeOK, listenerVars
  <2> QED BY <1>1, <2>1, <2>2, <2>3 DEF Sent, Answered
<1>4. CASE MapSend \/ ReduceSend
  <2>1. PICK t \in Tasks : SendTask(mworker, t)
    BY <1>4, MapTaskType, ReduceTaskType DEF MapSend, ReduceSend, TypeOK
  <2>2. mworker \in Workers /\ UNCHANGED <<lworker, conn, idle, buffer>>
    BY <1>4 DEF MapSend, ReduceSend, TypeOK, listenerVars
  <2>3. /\ pending[v] \subseteq pending'[v]
        /\ v = mworker => t \in pending'[v]
    BY <2>1, <2>2 DEF SendTask, SendMsg, TypeOK
  <2> QED BY <1>1, <2>2, <2>3 DEF Sent, Answered
<1>5. ASSUME NEW w \in Workers, SetIdleWorker(w), UNCHANGED <<conn, pending, buffer>>,
             v = w \/ (v \in {mworker, lworker} => v \in {mworker', lworker'})
      PROVE  Sent(v)' \/ Answered(v)'
  <2>1. Contains(idle', v) <=> Contains(idle, v) \/ v = w
    BY <1>5, AppendContains DEF TypeOK, SetIdleWorker
  <2> QED BY <1>1, <1>5, <2>1 DEF Sent, Answered
<1>6. CASE MapStop
  BY <1>5, <1>6 DEF MapStop, Release, TypeOK, listenerVars
<1>7. CASE MapPut \/ ReducePut \/ Barrier \/ BeginReduce
  BY <1>1, <1>7 DEF MapPut, ReducePut, Barrier, BeginReduce, listenerVars, workerVars,
     Sent, Answered
<1>8. CASE TakeMessage
  <2>1. Answered(v) <=> Answered(v)' \/ v = Message.from
    BY <1>8, TakenAnswer
  <2>2. lworker = None /\ lworker' = Message.from
        /\ UNCHANGED <<mworker, conn, idle, pending>>
    BY <1>8 DEF TakeMessage, TypeOK, mapperVars
  <2> QED BY <1>1, <2>1, <2>2 DEF Sent
<1>9. CASE ReleaseWorker \/ (RecheckStatus /\ StillWorking)
  BY <1>5, <1>9 DEF ReleaseWorker, RecheckStatus, Release, TypeOK, mapperVars
<1>10. CASE RecheckStatus /\ ~StillWorking
  <2>1. lworker \in Workers /\ status[lworker] = "IDLE"
    BY <1>10 DEF RecheckStatus, StillWorking, TypeOK
  <2>2. UNCHANGED <<mworker, conn, idle, pending, buffer>>
    BY <1>10 DEF RecheckStatus, mapperVars
  <2>3. v # lworker
    BY <2>1, <2>2 DEF IdleIsListed, Listed
  <2> QED BY <1>1, <2>2, <2>3 DEF Sent, Answered
<1>11. CASE StartReduce \/ FinishReduce \/ KeepListening
  BY <1>1, <1>11 DEF StartReduce, FinishReduce, KeepListening, mapperVars, workerVars,
     Sent, Answered
<1>12. CASE Volunteers
  <2>1. UNCHANGED <<mworker, lworker>>
    BY <1>12, VolunteersFrame DEF jobVars, mapperVars, listenerVars
  <2>2. ASSUME NEW w \in Workers, Connect(w)
        PROVE  Sent(v)' \/ Answered(v)'
    <3>1. Contains(idle', v) <=> Contains(idle, v) \/ v = w
      BY <2>2, AppendContains DEF TypeOK, Connect
    <3> QED BY <1>1, <2>1, <2>2, <3>1 DEF Connect, TypeOK, Sent, Answered
  <2>3. ASSUME NEW w \in Workers, Answer(w)
        PROVE  Sent(v)' \/ Answered(v)'
    <3>1. PICK t \in pending[w] :
            /\ pending' = [pending EXCEPT ![w] = @ \ {t}]
            /\ buffer' = Append(buffer, [from |-> w, task |-> t])
      BY <2>3 DEF Answer
    <3>2. Answered(v)' <=> Answered(v) \/ v = w
      BY <3>1, GivenAnswer DEF TypeOK
    <3>3. v # w => pending'[v] = pending[v]
      BY <3>1 DEF TypeOK
    <3> QED BY <1>1, <2>1, <2>3, <3>2, <3>3 DEF Answer, Sent
  <2>4. ASSUME NEW w \in Workers, Disconnect(w)
        PROVE  Sent(v)' \/ Answered(v)'
    <3>1. v # w /\ conn[v] = "open" /\ pending'[v] = pending[v]
      BY <2>4 DEF Disconnect, TypeOK
    <3> QED BY <1>1, <2>1, <2>4, <3>1 DEF Disconnect, Sent, Answered
  <2>5. ASSUME NEW w \in Workers, RemoveClient(w)
        PROVE  Sent(v)' \/ Answered(v)'
    <3>1. v # w /\ UNCHANGED <<conn, pending, buffer>>
      BY <2>5 DEF RemoveClient
    <3>2. Contains(idle, v) => Contains(idle', v)
      BY <2>5, <3>1, RemoveFirstContains DEF TypeOK, RemoveClient
    <3> QED BY <1>1, <2>1, <3>1, <3>2 DEF Sent, Answered
  <2> QED BY <1>12, <2>2, <2>3, <2>4, <2>5 DEF Volunteers, WorkersNext
<1>13. AddFinishedMapper \/ AddFinishedReducer \/ IgnoreResponse => TakeMessage
  BY DEF AddFinishedMapper, AddFinishedReducer, IgnoreResponse
<1>14. CASE Mapper
  BY <1>3, <1>4, <1>6, <1>7, <1>14 DEF Mapper
<1>15. CASE Listener
  BY <1>8, <1>9, <1>10, <1>11, <1>13, <1>15 DEF Listener
<1> QED BY <1>2, <1>12, <1>14, <1>15 DEF Next

-----------------------------------------------------------------------------
(* No pair and no group is left out.                                       *)

(* What a step does to the tasks under way, for every worker but the one   *)
(* it is about: who was on duty still is.                                  *)
LEMMA StaysOnDuty ==
  ASSUME TypeOK, NEW w \in Workers, NEW type, NEW key, OnDuty(w, type, key),
         job' = job, pending'[w] = pending[w], Answered(w)' => Answered(w),
         \A i \in 1..Len(buffer) : buffer[i].from = w =>
           \E j \in 1..Len(buffer') : buffer'[j] = buffer[i],
         mworker' = w => mworker = w,
         HeldByListener(w)' => HeldByListener(w)
  PROVE  OnDuty(w, type, key)'
<1>1. CASE Untouched(w)
  BY <1>1 DEF OnDuty, Untouched, Sent
<1>2. ASSUME NEW t \in pending[w], IsTask(t, type, key)
      PROVE  OnDuty(w, type, key)'
  BY <1>2 DEF OnDuty, UnderWay, IsTask
<1>3. ASSUME NEW i \in 1..Len(buffer), buffer[i].from = w, IsTask(buffer[i].task, type, key)
      PROVE  OnDuty(w, type, key)'
  <2>1. PICK j \in 1..Len(buffer') : buffer'[j] = buffer[i]
    BY <1>3
  <2> QED BY <1>3, <2>1 DEF OnDuty, UnderWay, IsTask
<1> QED BY <1>1, <1>2, <1>3 DEF OnDuty, UnderWay

(* A worker that is held by a thread, or whose turn in the queue it is,    *)
(* is not on duty.                                                         *)
LEMMA HeldIsOffDuty ==
  ASSUME NEW w, OnePlace(w), mworker = w \/ HeldByListener(w), NEW type, NEW key
  PROVE  ~OnDuty(w, type, key)
BY DEF OnePlace, OnDuty, UnderWay, Untouched, Sent, Answered

(* Volunteers come, answer and leave, and whoever was on duty still is:    *)
(* its task is under way, or lost with it.                                 *)
LEMMA VolunteersOnDuty ==
  ASSUME TypeOK, Volunteers, NEW w \in Workers, OnePlace(w),
         NEW type, NEW key, OnDuty(w, type, key)
  PROVE  OnDuty(w, type, key)'
<1>1. UNCHANGED <<job, lpc, lworker, mworker>>
  BY VolunteersFrame DEF jobVars, mapperVars, listenerVars
<1>2. HeldByListener(w)' <=> HeldByListener(w)
  BY <1>1 DEF HeldByListener
<1>3. ASSUME UNCHANGED <<pending, buffer>>
      PROVE  OnDuty(w, type, key)'
  BY <1>1, <1>2, <1>3, StaysOnDuty DEF Answered
<1>4. ASSUME NEW v \in Workers, Answer(v)
      PROVE  OnDuty(w, type, key)'
  <2>1. PICK t \in pending[v] :
          /\ pending' = [pending EXCEPT ![v] = @ \ {t}]
          /\ buffer' = Append(buffer, [from |-> v, task |-> t])
    BY <1>4 DEF Answer
  <2>2. /\ Answered(w)' <=> Answered(w) \/ w = v
        /\ \A i \in 1..Len(buffer) : i \in 1..Len(buffer') /\ buffer'[i] = buffer[i]
        /\ \E i \in 1..Len(buffer') : buffer'[i] = [from |-> v, task |-> t]
    BY <2>1, GivenAnswer DEF TypeOK
  <2>3. CASE w # v
    <3>1. pending'[w] = pending[w]
      BY <2>1, <2>3 DEF TypeOK
    <3> QED BY <1>1, <1>2, <2>2, <2>3, <3>1, StaysOnDuty
  <2>4. CASE w = v
    <3>1. IsTask(t, type, key)
      BY <2>1, <2>4 DEF OnePlace, OneSent, Sent, Answered, OnDuty, UnderWay, Untouched
    <3>2. PICK i \in 1..Len(buffer') : buffer'[i] = [from |-> v, task |-> t]
      BY <2>2
    <3>3. buffer'[i].from = w /\ buffer'[i].task = t
      BY <2>4, <3>2
    <3> QED BY <1>1, <3>1, <3>3 DEF OnDuty, UnderWay, IsTask
  <2> QED BY <2>3, <2>4
<1>5. ASSUME NEW v \in Workers, Disconnect(v)
      PROVE  OnDuty(w, type, key)'
  <2>1. /\ pending'[w] \subseteq pending[w] /\ buffer' = buffer
        /\ w # v => pending'[w] = pending[w]
    BY <1>5 DEF Disconnect, TypeOK
  <2>2. CASE pending'[w] = pending[w]
    BY <1>1, <1>2, <2>1, <2>2, StaysOnDuty DEF Answered
  <2>3. CASE pending'[w] # pending[w]
    <3>1. pending'[w] = {} /\ Sent(w)
      BY <2>1, <2>3 DEF OnePlace, OneSent, Sent
    <3>2. Untouched(w)'
      BY <1>1, <1>2, <2>1, <3>1 DEF OnePlace, Untouched, Sent, Answered
    <3> QED BY <3>2 DEF OnDuty
  <2> QED BY <2>2, <2>3
<1>6. ASSUME NEW v \in Workers, Connect(v) \/ RemoveClient(v)
      PROVE  OnDuty(w, type, key)'
  BY <1>3, <1>6 DEF Connect, RemoveClient
<1> QED BY <1>4, <1>5, <1>6 DEF Volunteers, WorkersNext

(* The mapper takes workers that are off duty, and sends a task to one     *)
(* that was; a job that does not stop at a first result is not stopped.    *)
LEMMA MapperOnDuty ==
  ASSUME TypeOK, Mapper, ~MapStop, \A u \in Workers : OnePlace(u),
         NEW w \in currentTasks, NEW type, NEW key, OnDuty(w, type, key)
  PROVE  w \in currentTasks' /\ OnDuty(w, type, key)'
<1> USE MapReduceAssumption
<1>1. w \in Workers /\ OnePlace(w)
  BY DEF TypeOK
<1>2. job' = job /\ buffer' = buffer /\ lpc' = lpc /\ lworker' = lworker
  BY MapperFrame DEF Mapper, MapTake, MapPut, MapSend, MapStop, Barrier, BeginReduce,
     ReduceTake, ReducePut, ReduceSend, listenerVars
<1>3. (HeldByListener(w)' <=> HeldByListener(w)) /\ (Answered(w)' <=> Answered(w))
  BY <1>2 DEF HeldByListener, Answered
<1>4. ASSUME pending'[w] = pending[w], mworker' = w => mworker = w
      PROVE  OnDuty(w, type, key)'
  BY <1>1, <1>2, <1>3, <1>4, StaysOnDuty
<1>5. CASE MapTake \/ ReduceTake
  <2>1. PICK v \in Workers : GetIdleWorker(v) /\ mworker' = v
    BY <1>5 DEF MapTake, ReduceTake
  <2>2. Listed(v)
    BY <2>1, TailContains DEF TypeOK, GetIdleWorker, Listed
  <2>3. v # w
    BY <1>1, <2>2 DEF OnePlace
  <2>4. pending' = pending /\ currentTasks' = currentTasks
    BY <1>5 DEF MapTake, ReduceTake, sharedVars
  <2> QED BY <1>4, <2>1, <2>3, <2>4
<1>6. CASE MapPut \/ ReducePut
  <2>1. pending' = pending /\ mworker' = mworker /\ currentTasks \subseteq currentTasks'
    BY <1>6 DEF MapPut, ReducePut, workerVars
  <2> QED BY <1>4, <2>1
<1>7. CASE MapSend \/ ReduceSend
  <2>1. PICK t \in Tasks : SendTask(mworker, t)
    BY <1>7, MapTaskType, ReduceTaskType DEF MapSend, ReduceSend, TypeOK
  <2>2. mworker' = None /\ currentTasks' = currentTasks
    BY <1>7 DEF MapSend, ReduceSend
  <2>3. w # mworker
    BY <1>1, HeldIsOffDuty
  <2>4. pending'[w] = pending[w]
    BY <2>1, <2>3 DEF SendTask, SendMsg, TypeOK
  <2> QED BY <1>1, <1>4, <2>2, <2>4
<1>8. CASE Barrier \/ BeginReduce
  <2>1. pending' = pending /\ mworker' = mworker /\ currentTasks' = currentTasks
    BY <1>8 DEF Barrier, BeginReduce, sharedVars, workerVars
  <2> QED BY <1>4, <2>1
<1> QED BY <1>5, <1>6, <1>7, <1>8 DEF Mapper

LEMMA SentIsOnDuty ==
  ASSUME TypeOK, NEW w \in Workers, OnePlace(w), w = mworker, mworker' = None,
         NEW t \in Tasks, SendTask(w, t), NEW type, NEW key, IsTask(t, type, key),
         UNCHANGED <<job, lpc, lworker, buffer>>
  PROVE  OnDuty(w, type, key)'
<1>1. CASE conn[w] = "open"
  <2>1. t \in pending'[w]
    BY <1>1 DEF SendTask, SendMsg, TypeOK
  <2> QED BY <2>1 DEF OnDuty, UnderWay, IsTask
<1>2. CASE conn[w] # "open"
  <2>1. pending' = pending
    BY <1>2 DEF SendTask, SendMsg
  <2>2. Untouched(w)'
    BY <2>1, MapReduceAssumption DEF OnePlace, Untouched, HeldByListener, Sent, Answered
  <2> QED BY <2>2 DEF OnDuty
<1> QED BY <1>1, <1>2

LEMMA MapperAccounts ==
  ASSUME IInv, Mapper, \A w \in Workers : OnePlace(w), Accounts, ~Job.stopOnFirst
  PROVE  Accounts'
<1> USE DEF IInv
<1>1. /\ mpc # "done" /\ job > 0 /\ Job \in JobType /\ job' = job /\ Job' = Job
      /\ UNCHANGED <<lpc, isMapFinished, groupBy, results, buffer>>
  BY MapperRuns, MapperFrame
<1>2. ~MapStop /\ ~allReduceSent
  BY <1>1 DEF MapStop, FinishedOnFirstMap, Sending
<1>3. /\ \A p : Merged(p)' <=> Merged(p)
      /\ \A k : Reduced(k)' <=> Reduced(k)
      /\ Grouped' = Grouped
  BY <1>1 DEF Merged, Reduced, Grouped
<1>4. \A w \in currentTasks : \A type, key :
        OnDuty(w, type, key) => w \in currentTasks' /\ OnDuty(w, type, key)'
  BY <1>2, MapperOnDuty
<1>5. next \in Nat /\ Len(Job.emit) \in Nat /\ next <= Len(Job.emit)
  BY <1>1, EmitTyped DEF TypeOK, PairsTaken
<1>6. ASSUME MapSend \/ ReduceSend,
             NEW t \in Tasks, SendTask(mworker, t), NEW type, NEW key, IsTask(t, type, key)
      PROVE  \E w \in currentTasks' : OnDuty(w, type, key)'
  <2>1. PICK w \in Workers : w = mworker
    BY <1>6 DEF MapSend, ReduceSend, TypeOK
  <2>2. /\ mworker' = None /\ UNCHANGED <<job, lpc, lworker, buffer>>
        /\ w \in currentTasks'
    BY <1>6, <2>1 DEF MapSend, ReduceSend, listenerVars, Accounts, SendsRecorded
  <2> QED BY <1>6, <2>1, <2>2, SentIsOnDuty
<1>7. PairsAccounted'
  <2> SUFFICES ASSUME NEW p \in 1..next', ~Merged(p),
                      ~(mpc' = "mapSend" /\ p = next')
               PROVE  \E w \in currentTasks' : OnDuty(w, "MAP", p)'
    BY <1>3 DEF PairsAccounted
  <2>1. p \in 1..next
    BY <1>1, <1>5 DEF Mapper, MapTake, MapPut, MapSend, MapStop, Barrier, BeginReduce,
       ReduceTake, ReducePut, ReduceSend
  <2>2. CASE \E w \in currentTasks : OnDuty(w, "MAP", p)
    BY <1>4, <2>2
  <2>3. CASE mpc = "mapSend" /\ p = next
    <3>1. MapSend
      BY <2>3 DEF Mapper, MapTake, MapPut, MapStop, Barrier, BeginReduce,
         ReduceTake, ReducePut, ReduceSend
    <3>2. MapTask(next) \in Tasks /\ SendTask(mworker, MapTask(next))
      BY <3>1, MapTaskType DEF MapSend
    <3>3. IsTask(MapTask(next), "MAP", p)
      BY <2>3 DEF IsTask, MapTask
    <3> QED BY <1>6, <3>1, <3>2, <3>3
  <2> QED BY <2>1, <2>2, <2>3 DEF Accounts, PairsAccounted
<1>8. GroupsAccounted'
  <2> SUFFICES ASSUME ReduceBegun', NEW k \in Grouped, k \notin toReduce', ~Reduced(k),
                      ~(mpc' \in {"reducePut", "reduceSend"} /\ rkey' = k)
               PROVE  \E w \in currentTasks' : OnDuty(w, "REDUCE", k)'
    BY <1>3 DEF GroupsAccounted
  <2>1. ReduceTake \/ ReducePut \/ ReduceSend
    BY <1>1, <1>2 DEF ReduceBegun, Mapper, MapTake, MapPut, MapSend, MapStop, AfterMap,
       Barrier, BeginReduce, sharedVars
  <2>2. /\ ReduceBegun
        /\ \/ k \in toReduce
           \/ mpc \in {"reducePut", "reduceSend"} /\ rkey = k
           \/ \E w \in currentTasks : OnDuty(w, "REDUCE", k)
    <3>1. ReduceBegun
      BY <2>1 DEF ReduceBegun, ReduceTake, ReducePut, ReduceSend
    <3> QED BY <3>1 DEF Accounts, GroupsAccounted
  <2>3. CASE \E w \in currentTasks : OnDuty(w, "REDUCE", k)
    BY <1>4, <2>3
  <2>4. CASE k \in toReduce
    BY <2>1, <2>4 DEF ReduceTake, ReducePut, ReduceSend
  <2>5. CASE mpc \in {"reducePut", "reduceSend"} /\ rkey = k
    <3>1. ReduceSend
      BY <2>1, <2>5 DEF ReduceTake, ReducePut
    <3>2. ReduceTask(rkey) \in Tasks /\ SendTask(mworker, ReduceTask(rkey))
      BY <3>1, ReduceTaskType DEF ReduceSend, TypeOK
    <3>3. IsTask(ReduceTask(rkey), "REDUCE", k)
      BY <2>5 DEF IsTask, ReduceTask
    <3> QED BY <1>6, <3>1, <3>2, <3>3
  <2> QED BY <2>2, <2>3, <2>4, <2>5
<1>9. SendsRecorded'
  BY <1>1 DEF SendsRecorded, Mapper, MapTake, MapPut, MapSend, MapStop, AfterMap, Barrier,
     BeginReduce, ReduceTake, ReducePut, ReduceSend
<1>10. AllSent'
  <2>1. CASE MapSend
    BY <1>1, <1>2, <1>5, <2>1 DEF MapSend, HasNext, AllSent, Accounts, Sending
  <2>2. CASE ReduceSend
    BY <1>1, <2>2 DEF ReduceSend, Sending, AllSent, Accounts
  <2>3. CASE MapPut
    BY <1>1, <1>2, <2>3 DEF MapPut, Sending, AllSent
  <2>4. CASE MapTake \/ Barrier \/ BeginReduce \/ ReduceTake \/ ReducePut
    BY <1>1, <1>2, <2>4 DEF MapTake, Barrier, BeginReduce, ReduceTake, ReducePut,
       sharedVars, AllSent, Accounts
  <2> QED BY <1>2, <2>1, <2>2, <2>3, <2>4 DEF Mapper
<1>11. AllMerged'
  <2> SUFFICES ASSUME isMapFinished
               PROVE  allMapSent' /\ \A p \in 1..next' : Merged(p)
    BY <1>1, <1>3 DEF AllMerged
  <2>1. allMapSent /\ \A p \in 1..next : Merged(p)
    BY DEF Accounts, AllMerged
  <2>2. next' = next /\ allMapSent'
    BY <2>1 DEF Sending, Mapper, MapTake, MapPut, MapSend, MapStop, Barrier, BeginReduce,
       ReduceTake, ReducePut, ReduceSend, sharedVars
  <2> QED BY <2>1, <2>2
<1>12. AllDone'
  BY <1>1, <1>2 DEF AllDone, Accounts
<1> QED BY <1>7, <1>8, <1>9, <1>10, <1>11, <1>12 DEF Accounts

(* Whoever answers has one task only, and it is the one that was answered. *)
LEMMA AnswerEndsDuty ==
  ASSUME TypeOK, TakeMessage, NEW w \in Workers, OnePlace(w), w = Message.from,
         NEW type, NEW key, OnDuty(w, type, key)
  PROVE  IsTask(Message.task, type, key)
<1>1. 1 \in 1..Len(buffer) /\ Message = buffer[1]
  BY EmptySeq DEF TypeOK, TakeMessage, Message
<1>2. Answered(w)
  BY <1>1 DEF Answered
<1>3. PICK i \in 1..Len(buffer) : buffer[i].from = w /\ IsTask(buffer[i].task, type, key)
  BY <1>2 DEF OnePlace, OnDuty, UnderWay, Untouched, Sent
<1>4. i = 1
  BY <1>1, <1>3 DEF OnePlace, AnsweredOnce
<1> QED BY <1>1, <1>3, <1>4

LEMMA OthersStayOnDuty ==
  ASSUME TypeOK, TakeMessage, NEW w \in Workers, w # Message.from,
         NEW type, NEW key, OnDuty(w, type, key)
  PROVE  OnDuty(w, type, key)'
<1>1. /\ Answered(w)' => Answered(w)
      /\ \A i \in 1..Len(buffer) : \/ buffer[i] = Message
                                   \/ \E j \in 1..Len(buffer') : buffer'[j] = buffer[i]
  BY TakenAnswer
<1>2. job' = job /\ pending' = pending /\ mworker' = mworker /\ ~HeldByListener(w)'
  BY DEF TakeMessage, mapperVars, HeldByListener
<1> QED BY <1>1, <1>2, StaysOnDuty

(* What every step that takes an answer leaves alone                       *)
LEMMA MessageFrame ==
  ASSUME TakeMessage
  PROVE  /\ job' = job /\ Job' = Job /\ lpc = "take"
         /\ UNCHANGED <<mapperVars, isMapFinished, currentTasks, allMapSent, allReduceSent>>
BY DEF TakeMessage, Job

(* Merging an answer keeps what is merged.                                 *)
LEMMA MergedStays ==
  ASSUME Job' = Job, results \subseteq results',
         \A k \in Keys : groupBy[k] \subseteq groupBy'[k],
         NEW p, Job.emit[p] \subseteq Keys, Merged(p)
  PROVE  Merged(p)'
BY DEF Merged

LEMMA MergeKeeps ==
  ASSUME TypeOK, AddFinishedMapper \/ AddFinishedReducer \/ IgnoreResponse
  PROVE  /\ results \subseteq results'
         /\ \A k \in Keys : groupBy[k] \subseteq groupBy'[k]
<1>1. CASE AddFinishedMapper
  <2> DEFINE p == Message.task.key
  <2>1. IF Job.mapOnly
        THEN /\ results' = results \cup {[key |-> k, values |-> {p}] : k \in Job.emit[p]}
             /\ UNCHANGED groupBy
        ELSE /\ groupBy' = [k \in Keys |->
                            groupBy[k] \cup IF k \in Job.emit[p] THEN {p} ELSE {}]
             /\ UNCHANGED results
    BY <1>1 DEF AddFinishedMapper
  <2> HIDE DEF p
  <2> QED BY <2>1
<1>2. CASE AddFinishedReducer \/ IgnoreResponse
  BY <1>2 DEF AddFinishedReducer, IgnoreResponse
<1> QED BY <1>1, <1>2

LEMMA MapperMerges ==
  ASSUME TypeOK, PairsTaken, TasksKnown, AddFinishedMapper,
         NEW p, p = Message.task.key
  PROVE  Merged(p)'
<1>1. IF Job.mapOnly
      THEN /\ results' = results \cup {[key |-> k, values |-> {p}] : k \in Job.emit[p]}
           /\ UNCHANGED groupBy
      ELSE /\ groupBy' = [k \in Keys |->
                          groupBy[k] \cup IF k \in Job.emit[p] THEN {p} ELSE {}]
           /\ UNCHANGED results
  BY DEF AddFinishedMapper
<1>2. Job' = Job /\ Job \in JobType /\ p \in 1..Len(Job.emit)
  BY MessageFrame, MessageMapped, JobIsTyped DEF AddFinishedMapper
<1>3. Job.emit[p] \subseteq Keys
  BY <1>2, EmitTyped
<1>4. ASSUME NEW k \in Job.emit[p]
      PROVE  IF Job.mapOnly THEN [key |-> k, values |-> {p}] \in results'
                            ELSE p \in groupBy'[k]
  BY <1>1, <1>3, <1>4
<1> QED BY <1>2, <1>4 DEF Merged

(* An answer that is taken was the last that was due for its task: it is   *)
(* merged, unless the job has passed that point.                           *)
LEMMA AnswerAccounts ==
  ASSUME IInv, AddFinishedMapper \/ AddFinishedReducer \/ IgnoreResponse,
         \A w \in Workers : OnePlace(w), Accounts, job > 0
  PROVE  Accounts'
<1> USE DEF IInv
<1>1. /\ TakeMessage /\ job' = job /\ Job' = Job /\ lpc = "take" /\ lpc' # "done"
      /\ UNCHANGED <<mpc, mworker, rkey, toReduce, next, isMapFinished, currentTasks,
                     allMapSent, allReduceSent>>
  BY MessageFrame DEF AddFinishedMapper, AddFinishedReducer, IgnoreResponse, mapperVars
<1>2. Job \in JobType /\ currentTasks \subseteq Workers /\ next <= Len(Job.emit)
  BY StartedJob DEF TypeOK, PairsTaken
<1>3. ASSUME NEW p \in 1..next, Merged(p)
      PROVE  Merged(p)'
  <2>1. Job.emit[p] \subseteq Keys
    BY <1>2, EmitTyped DEF TypeOK
  <2> QED BY <1>1, <1>3, <2>1, MergeKeeps, MergedStays
<1>4. ASSUME NEW w \in currentTasks, NEW type, NEW key, OnDuty(w, type, key)
      PROVE  \/ OnDuty(w, type, key)'
             \/ IsTask(Message.task, type, key)
  BY <1>1, <1>2, <1>4, AnswerEndsDuty, OthersStayOnDuty
<1>5. PairsAccounted'
  <2> SUFFICES ASSUME NEW p \in 1..next, ~Merged(p)', ~(mpc = "mapSend" /\ p = next)
               PROVE  \E w \in currentTasks : OnDuty(w, "MAP", p)'
    BY <1>1 DEF PairsAccounted
  <2>1. PICK w \in currentTasks : OnDuty(w, "MAP", p)
    BY <1>3 DEF Accounts, PairsAccounted
  <2>2. ~IsTask(Message.task, "MAP", p)
    <3>1. SUFFICES ASSUME IsTask(Message.task, "MAP", p)
                   PROVE  FALSE
      OBVIOUS
    <3>2. CASE AddFinishedMapper
      BY <3>1, <3>2, MapperMerges DEF IsTask
    <3>3. CASE AddFinishedReducer
      BY <3>1, <3>3 DEF AddFinishedReducer, AcceptsReduce, IsTask
    <3>4. CASE IgnoreResponse
      <4>1. isMapFinished
        BY <3>1, <3>4 DEF IgnoreResponse, AcceptsMap, IsTask
      <4> QED BY <1>3, <4>1 DEF Accounts, AllMerged
    <3> QED BY <3>2, <3>3, <3>4
  <2> QED BY <1>4, <2>1, <2>2
<1>6. GroupsAccounted'
  <2> SUFFICES ASSUME ReduceBegun, NEW k \in Grouped', k \notin toReduce, ~Reduced(k)',
                      ~(mpc \in {"reducePut", "reduceSend"} /\ rkey = k)
               PROVE  \E w \in currentTasks : OnDuty(w, "REDUCE", k)'
    BY <1>1 DEF GroupsAccounted, ReduceBegun
  <2>1. isMapFinished
    BY DEF ReduceBegun, Handshake, Reducing, Sending
  <2>2. ~AddFinishedMapper /\ groupBy' = groupBy
    BY <2>1 DEF AddFinishedMapper, AcceptsMap, AddFinishedReducer, IgnoreResponse
  <2>3. k \in Grouped /\ ~Reduced(k)
    BY <2>2, MergeKeeps DEF Grouped, Reduced
  <2>4. PICK w \in currentTasks : OnDuty(w, "REDUCE", k)
    BY <2>3 DEF Accounts, GroupsAccounted
  <2>5. ~IsTask(Message.task, "REDUCE", k)
    <3>1. CASE AddFinishedReducer
      <4> DEFINE r == [key |-> Message.task.key, values |-> Message.task.values]
      <4>1. r \in results' /\ r.key = Message.task.key
        BY <3>1 DEF AddFinishedReducer
      <4> HIDE DEF r
      <4> QED BY <4>1 DEF IsTask, Reduced
    <3>2. CASE IgnoreResponse
      BY <3>2 DEF IgnoreResponse, AcceptsReduce, IsTask
    <3> QED BY <2>2, <3>1, <3>2
  <2> QED BY <1>4, <2>4, <2>5
<1>7. SendsRecorded' /\ AllSent' /\ AllDone'
  BY <1>1 DEF Accounts, SendsRecorded, AllSent, AllDone
<1>8. AllMerged'
  BY <1>1, <1>3 DEF Accounts, AllMerged
<1> QED BY <1>5, <1>6, <1>7, <1>8 DEF Accounts

(* A step that sends and takes nothing, and gives back a worker at most,   *)
(* changes no account.                                                     *)
LEMMA SameAccounts ==
  ASSUME Accounts, job' = job, Job' = Job,
         UNCHANGED <<mpc, mworker, rkey, toReduce, next, isMapFinished, groupBy,
                     results, allMapSent, allReduceSent>>,
         lpc' = "done" => lpc = "done",
         \A w \in currentTasks : \A type, key :
           OnDuty(w, type, key) => w \in currentTasks' /\ OnDuty(w, type, key)',
         currentTasks' \subseteq currentTasks,
         mpc \in {"mapSend", "reduceSend"} => mworker \in currentTasks'
  PROVE  Accounts'
<1>1. /\ \A p : Merged(p)' <=> Merged(p)
      /\ \A k : Reduced(k)' <=> Reduced(k)
      /\ Grouped' = Grouped /\ (ReduceBegun' <=> ReduceBegun)
  BY DEF Merged, Reduced, Grouped, ReduceBegun
<1>2. PairsAccounted'
  BY <1>1 DEF Accounts, PairsAccounted
<1>3. GroupsAccounted'
  BY <1>1 DEF Accounts, GroupsAccounted
<1>4. SendsRecorded' /\ AllSent'
  BY DEF Accounts, SendsRecorded, AllSent
<1>5. AllMerged' /\ AllDone'
  BY <1>1 DEF Accounts, AllMerged, AllDone
<1> QED BY <1>2, <1>3, <1>4, <1>5 DEF Accounts

(* The listener gives back workers that are off duty, and starts to reduce *)
(* or ends the job when nothing is left to account for.                    *)
LEMMA ListenerAccounts ==
  ASSUME IInv, Listener, ~doubleRelease', \A w \in Workers : OnePlace(w),
         Accounts, ~Job.stopOnFirst
  PROVE  Accounts'
<1> USE DEF IInv
<1>1. job > 0 /\ Job \in JobType /\ job' = job /\ Job' = Job
  BY ListenerRuns
<1>2. currentTasks \subseteq Workers
  BY DEF TypeOK
<1>3. CASE AddFinishedMapper \/ AddFinishedReducer \/ IgnoreResponse
  BY <1>1, <1>3, AnswerAccounts
<1>4. ASSUME NEW v \in Workers, HeldByListener(v), Release(v), lpc' \in {"recheck", "check"},
             UNCHANGED <<mapperVars, pending, buffer, isMapFinished, groupBy, results,
                         allMapSent, allReduceSent>>
      PROVE  Accounts'
  <2>1. currentTasks' = currentTasks \ {v} /\ OnePlace(v)
    BY <1>4 DEF Release
  <2>2. ASSUME NEW w \in currentTasks, NEW type, NEW key, OnDuty(w, type, key)
        PROVE  w \in currentTasks' /\ OnDuty(w, type, key)'
    <3>1. w # v
      BY <1>4, <2>1, <2>2, HeldIsOffDuty
    <3>2. ~HeldByListener(w)' /\ mworker' = mworker
      BY <1>4 DEF HeldByListener, mapperVars
    <3> QED BY <1>1, <1>2, <1>4, <2>1, <2>2, <3>1, <3>2, StaysOnDuty DEF Answered
  <2>3. mpc \in {"mapSend", "reduceSend"} => mworker \in currentTasks'
    BY <1>4, <2>1 DEF Accounts, SendsRecorded, OnePlace
  <2> QED BY <1>1, <1>4, <2>1, <2>2, <2>3, SameAccounts DEF mapperVars
<1>5. CASE ReleaseWorker
  <2>1. lworker \in Workers /\ HeldByListener(lworker) /\ Release(lworker)
    BY <1>5 DEF ReleaseWorker, TypeOK, HeldByListener
  <2> QED BY <1>4, <1>5, <2>1 DEF ReleaseWorker
<1>6. CASE RecheckStatus /\ StillWorking
  <2>1. lpc = "stale"
    BY <1>6 DEF RecheckStatus, StillWorking
  <2>2. lworker \in Workers /\ HeldByListener(lworker) /\ Release(lworker)
    BY <1>6, <2>1 DEF RecheckStatus, TypeOK, HeldByListener
  <2> QED BY <1>4, <1>6, <2>2 DEF RecheckStatus
<1>7. CASE \/ RecheckStatus /\ ~StillWorking
           \/ KeepListening
  <2>1. /\ lpc' # "done" /\ \A w : ~HeldByListener(w)'
        /\ UNCHANGED <<mapperVars, isMapFinished, groupBy, results, currentTasks,
                       allMapSent, allReduceSent, pending, buffer>>
    BY <1>7 DEF RecheckStatus, KeepListening, HeldByListener, sharedVars, workerVars
  <2>2. ASSUME NEW w \in currentTasks, NEW type, NEW key, OnDuty(w, type, key)
        PROVE  OnDuty(w, type, key)'
    BY <1>1, <1>2, <2>1, <2>2, StaysOnDuty DEF mapperVars, Answered
  <2> QED BY <1>1, <2>1, <2>2, SameAccounts DEF mapperVars, Accounts, SendsRecorded
<1>8. CASE FinishReduce
  <2>1. allReduceSent /\ currentTasks = {}
    BY <1>8 DEF FinishReduce, ReducingFinished, FinishedOnFirstMap
  <2>2. UNCHANGED <<mapperVars, isMapFinished, sharedVars>>
    BY <1>8 DEF FinishReduce
  <2>3. /\ \A p : Merged(p)' <=> Merged(p)
        /\ \A k : Reduced(k)' <=> Reduced(k)
        /\ Grouped' = Grouped /\ (ReduceBegun' <=> ReduceBegun)
    BY <1>1, <2>2 DEF Merged, Reduced, Grouped, ReduceBegun, mapperVars, sharedVars
  <2>4. PairsAccounted' /\ GroupsAccounted'
    BY <2>1, <2>2, <2>3
    DEF Accounts, PairsAccounted, GroupsAccounted, mapperVars, sharedVars
  <2>5. SendsRecorded' /\ AllSent' /\ AllMerged' /\ AllDone'
    BY <1>1, <2>1, <2>2, <2>3
    DEF Accounts, SendsRecorded, AllSent, AllMerged, AllDone, mapperVars, sharedVars
  <2> QED BY <2>4, <2>5 DEF Accounts
<1>9. CASE StartReduce
  <2>1. /\ ~isMapFinished /\ ~allReduceSent /\ allMapSent /\ currentTasks = {}
        /\ mpc # "mapSend"
    BY <1>9 DEF StartReduce, StartsReduce, MappingFinished, FinishedOnFirstMap, Check
  <2>2. \A p \in 1..next : Merged(p)
    BY <2>1 DEF Accounts, PairsAccounted
  <2>3. /\ mpc' \in {mpc, "begin"} /\ lpc' = "take"
        /\ UNCHANGED <<mworker, rkey, toReduce, next, currentTasks, groupBy, results,
                       allMapSent, allReduceSent>>
    BY <1>9 DEF StartReduce, WakeMapper
  <2>4. \A p : Merged(p)' <=> Merged(p)
    BY <1>1, <2>3 DEF Merged
  <2>5. ~ReduceBegun'
    BY <2>1, <2>3 DEF ReduceBegun, Handshake, Reducing
  <2>6. PairsAccounted' /\ AllMerged'
    BY <2>1, <2>2, <2>3, <2>4 DEF PairsAccounted, AllMerged
  <2>7. GroupsAccounted' /\ SendsRecorded' /\ AllSent' /\ AllDone'
    BY <1>1, <2>3, <2>5
    DEF Accounts, GroupsAccounted, SendsRecorded, AllSent, AllDone
  <2> QED BY <2>6, <2>7 DEF Accounts
<1> QED BY <1>3, <1>5, <1>6, <1>7, <1>8, <1>9 DEF Listener

LEMMA AccountedStep == IInv /\ Exclusion /\ Accounted /\ [Next]_vars => Accounted'
<1> SUFFICES ASSUME IInv, Exclusion, Accounted, [Next]_vars,
                    ~doubleRelease', job' > 0, ~Job'.stopOnFirst
             PROVE  Accounts'
  BY DEF Accounted
<1>1. TypeOK /\ ~doubleRelease /\ \A w \in Workers : OnePlace(w)
  BY ReleasedOnce DEF IInv, Exclusion
<1>2. CASE StartJob
  <2>1. /\ next' = 0 /\ lpc' = "take" /\ mpc' \in {"mapTake", "barrier", "done"}
        /\ ~allMapSent' /\ ~allReduceSent' /\ ~isMapFinished'
    BY <1>2 DEF StartJob, AfterMap
  <2>2. PairsAccounted' /\ GroupsAccounted' /\ SendsRecorded'
    BY <2>1 DEF PairsAccounted, GroupsAccounted, ReduceBegun, SendsRecorded
  <2>3. AllSent' /\ AllMerged' /\ AllDone'
    BY <2>1 DEF AllSent, AllMerged, AllDone
  <2> QED BY <2>2, <2>3 DEF Accounts
<1>3. ASSUME job' = job
      PROVE  Accounts /\ ~Job.stopOnFirst /\ Job' = Job
  BY <1>1, <1>3 DEF Accounted, Job
<1>4. CASE Mapper
  BY <1>1, <1>3, <1>4, MapperRuns, MapperAccounts
<1>5. CASE Listener
  BY <1>1, <1>3, <1>5, ListenerRuns, ListenerAccounts
<1>6. ASSUME UNCHANGED jobVars,
             \A w \in currentTasks : \A type, key :
               OnDuty(w, type, key) => OnDuty(w, type, key)'
      PROVE  Accounts'
  <2>1. UNCHANGED <<job, mpc, mworker, rkey, toReduce, next, isMapFinished, groupBy,
                    results, allMapSent, allReduceSent, currentTasks, lpc>>
    BY <1>6 DEF jobVars, mapperVars, listenerVars, sharedVars
  <2> QED BY <1>3, <1>6, <2>1, SameAccounts DEF Accounts, SendsRecorded
<1>7. CASE Volunteers
  <2>1. \A w \in currentTasks : w \in Workers
    BY <1>1 DEF TypeOK
  <2> QED BY <1>1, <1>6, <1>7, <2>1, VolunteersFrame, VolunteersOnDuty
<1>8. CASE UNCHANGED vars
  <2>1. ASSUME NEW w \in currentTasks, NEW type, NEW key, OnDuty(w, type, key)
        PROVE  OnDuty(w, type, key)'
    BY <1>8, <2>1 DEF vars, jobVars, mapperVars, listenerVars, workerVars, OnDuty,
       UnderWay, IsTask, Untouched, HeldByListener, Sent, Answered
  <2> QED BY <1>6, <1>8, <2>1 DEF vars, jobVars
<1> QED BY <1>2, <1>4, <1>5, <1>7, <1>8 DEF Next

-----------------------------------------------------------------------------
(* The second invariant holds.                                             *)

WInv == Exclusion /\ IdleIsListed /\ Remembered /\ Accounted

LEMMA InitWorkers == Init => WInv
<1> SUFFICES ASSUME Init PROVE WInv
  OBVIOUS
<1>1. /\ idle = << >> /\ buffer = << >> /\ Len(<< >>) = 0 /\ 1..0 = {}
      /\ \A w \in Workers : pending[w] = {} /\ conn[w] = "new"
      /\ mworker = None /\ lpc = "done" /\ currentTasks = {} /\ job = 0
  BY EmptySeq DEF Init, WorkersInit
<1>2. \A w \in Workers : ~Listed(w) /\ ~Answered(w) /\ AtMostOnce(idle, w) /\ AnsweredOnce(w)
  BY <1>1 DEF Listed, Contains, Answered, AtMostOnce, AnsweredOnce
<1>3. Exclusion
  BY <1>1, <1>2, MapReduceAssumption
  DEF Exclusion, OnePlace, Untouched, HeldByListener, Sent, OneSent
<1>4. IdleIsListed /\ Remembered /\ Accounted
  BY <1>1 DEF IdleIsListed, Remembered, Accounted
<1> QED BY <1>3, <1>4 DEF WInv

(* Until eval releases a worker twice, each worker is in one place and     *)
(* everything a job has still to do is in somebody's hands; no connected   *)
(* worker is ever forgotten.                                               *)
THEOREM WorkersInvariance == Spec => []WInv
<1>1. IInv /\ WInv /\ [Next]_vars => WInv'
  BY ExclusionStep, IdleIsListedStep, RememberedStep, AccountedStep DEF WInv
<1> QED BY InitWorkers, Invariance, <1>1, PTL DEF Spec

(* The tasks of w whose answer has not been taken                          *)
LEMMA OutstandingIs ==
  ASSUME NEW w, NEW t
  PROVE  t \in Outstanding(w) <=>
           \/ t \in pending[w]
           \/ \E i \in 1..Len(buffer) : buffer[i].from = w /\ buffer[i].task = t
BY DEF Outstanding

LEMMA AtMostOneElement ==
  ASSUME NEW S, \A x, y \in S : x = y
  PROVE  Cardinality(S) <= 1
<1>1. CASE S = {}
  BY <1>1, FS_EmptySet
<1>2. CASE S # {}
  <2>1. PICK x : S = {x}
    BY <1>2
  <2> QED BY <2>1, FS_Singleton
<1> QED BY <1>1, <1>2

(* A worker has one task at a time, is offered once, and only when it has  *)
(* no task, unless eval released a worker twice (WorkerServer,             *)
(* MapReducer.release).                                                    *)
THEOREM WorkersAreExclusive == Spec => []WorkerExclusive
<1>1. ASSUME IInv, WInv
      PROVE  WorkerExclusive
  <2> SUFFICES ASSUME NEW w \in Workers, OnePlace(w)
               PROVE  /\ Cardinality(Outstanding(w)) <= 1
                      /\ Cardinality({i \in 1..Len(idle) : idle[i] = w}) <= 1
                      /\ w \in ToSet(idle) => Outstanding(w) = {} /\ w \notin currentTasks
    BY <1>1 DEF WInv, Exclusion, WorkerExclusive
  <2>1. \A t, u \in Outstanding(w) : t = u
    BY OutstandingIs DEF OnePlace, OneSent, AnsweredOnce, Sent, Answered
  <2>2. \A i, j \in {i \in 1..Len(idle) : idle[i] = w} : i = j
    BY DEF OnePlace, AtMostOnce
  <2>3. ASSUME w \in ToSet(idle)
        PROVE  Outstanding(w) = {} /\ w \notin currentTasks
    <3>1. Listed(w)
      BY <1>1, <2>3, LenProperties DEF ToSet, Listed, Contains, IInv, TypeOK
    <3> QED BY <3>1, OutstandingIs DEF OnePlace, Untouched, Sent, Answered
  <2> QED BY <2>1, <2>2, <2>3, AtMostOneElement
<1> QED BY <1>1, Invariance, WorkersInvariance, PTL

(* A connected worker is idle, has a task, or is in the hands of one of    *)
(* the threads: eval gives back the workers whose answer is dropped.       *)
THEOREM NoWorkerIsForgotten == Spec => []NoWorkerForgotten
<1>1. ASSUME IInv, WInv
      PROVE  NoWorkerForgotten
  <2> SUFFICES ASSUME NEW w \in Workers, conn[w] = "open"
               PROVE  w \in ToSet(idle) \/ Outstanding(w) # {} \/ w \in {mworker, lworker}
    BY DEF NoWorkerForgotten
  <2>1. Listed(w) => w \in ToSet(idle)
    BY <1>1, LenProperties DEF ToSet, Listed, Contains, IInv, TypeOK
  <2>2. Sent(w) \/ Answered(w) => Outstanding(w) # {}
    BY OutstandingIs DEF Sent, Answered
  <2> QED BY <1>1, <2>1, <2>2 DEF WInv, Remembered
<1> QED BY <1>1, Invariance, WorkersInvariance, PTL

(* A job that is over, and was not to stop at a first result, has mapped   *)
(* every pair and reduced every group, whoever was lost on the way, unless *)
(* eval released a worker twice (MapReducerListener.run, Job.runJob).      *)
THEOREM FinishedJobsAreComplete == Spec => []FinishedJobIsComplete
<1>1. ASSUME IInv, WInv
      PROVE  FinishedJobIsComplete
  <2> SUFFICES ASSUME ~doubleRelease, Finished, ~Job.stopOnFirst
               PROVE  results = Expected
    BY DEF FinishedJobIsComplete, Complete
  <2> USE <1>1 DEF IInv
  <2>1. job > 0 /\ Job \in JobType /\ Accounts
    BY StartedJob DEF Finished, WInv, Accounted
  <2>2. allReduceSent /\ currentTasks = {} /\ mpc = "done"
    BY <2>1 DEF Finished, Accounts, AllDone, Sending
  <2>3. /\ DOMAIN Job.emit = 1..next
        /\ \A p \in 1..next : Merged(p) /\ Job.emit[p] \subseteq Keys
    <3>1. allMapSent
      BY <2>1, <2>2 DEF Accounts, AllSent, AllMerged, Sending
    <3>2. next = Len(Job.emit) /\ DOMAIN Job.emit = 1..Len(Job.emit)
      BY <2>1, <3>1, LenProperties DEF Accounts, AllSent, JobType
    <3>3. \A p \in 1..next : Merged(p)
      BY <2>1, <2>2 DEF Accounts, PairsAccounted
    <3> QED BY <2>1, <3>2, <3>3, EmitTyped
  <2>4. CASE Job.mapOnly
    <3>1. Expected = UNION {{[key |-> k, values |-> {p}] : k \in Job.emit[p]} : p \in 1..next}
      BY <2>3, <2>4 DEF Expected
    <3>2. ASSUME NEW r \in results
          PROVE  r \in Expected
      <4>1. PICK p \in 1..next : r.values = {p} /\ r.key \in Job.emit[p]
        BY <2>4 DEF ResultsExact
      <4>2. r = [key |-> r.key, values |-> {p}]
        BY <4>1 DEF TypeOK
      <4> QED BY <3>1, <4>1, <4>2
    <3>3. ASSUME NEW r \in Expected
          PROVE  r \in results
      <4>1. PICK p \in 1..next : \E k \in Job.emit[p] : r = [key |-> k, values |-> {p}]
        BY <3>1
      <4> QED BY <2>3, <2>4, <4>1 DEF Merged
    <3> QED BY <3>2, <3>3
  <2>5. CASE ~Job.mapOnly
    <3>1. Expected = {[key |-> k, values |-> {p \in 1..next : k \in Job.emit[p]}] :
                        k \in UNION {Job.emit[p] : p \in 1..next}}
      BY <2>3, <2>5 DEF Expected
    <3>2. ASSUME NEW k \in Keys
          PROVE  groupBy[k] = {p \in 1..next : k \in Job.emit[p]}
      BY <2>3, <2>5 DEF GroupsSound, Merged
    <3>3. ASSUME NEW r \in results
          PROVE  r \in Expected
      <4>1. r.key \in Keys /\ r.values = groupBy[r.key] /\ r.values # {}
        BY <2>5 DEF ResultsExact, TypeOK
      <4>2. r = [key |-> r.key, values |-> r.values]
        BY DEF TypeOK
      <4>3. r.key \in UNION {Job.emit[p] : p \in 1..next}
        BY <3>2, <4>1
      <4> QED BY <3>1, <3>2, <4>1, <4>2, <4>3
    <3>4. ASSUME NEW r \in Expected
          PROVE  r \in results
      <4>1. PICK k \in UNION {Job.emit[p] : p \in 1..next} :
              r = [key |-> k, values |-> {p \in 1..next : k \in Job.emit[p]}]
        BY <3>1
      <4>2. k \in Keys /\ groupBy[k] # {}
        BY <2>3, <3>2
      <4>3. k \in Grouped /\ toReduce = {}
        BY <2>1, <2>2, <2>5, <4>2 DEF Grouped, Accounts, AllSent
      <4>4. PICK s \in results : s.key = k
        BY <2>1, <2>2, <2>5, <4>3 DEF Accounts, GroupsAccounted, ReduceBegun, Reduced
      <4>5. s.values = groupBy[k] /\ s = [key |-> s.key, values |-> s.values]
        BY <2>5, <4>4 DEF ResultsExact, TypeOK
      <4> QED BY <3>2, <4>1, <4>2, <4>4, <4>5
    <3> QED BY <3>3, <3>4
  <2> QED BY <2>4, <2>5
<1> QED BY <1>1, Invariance, WorkersInvariance, PTL

-----------------------------------------------------------------------------
(* Somebody can always go on.                                              *)

(* The flags are set when a loop has sent its last task; a loop that sends *)
(* none leaves them.                                                       *)
SentBehindLoop ==
  /\ mpc \in {"barrier", "waiting"} => allMapSent \/ Job.emit = << >>
  /\ mpc = "done" /\ lpc # "done" =>
       \/ allReduceSent
       \/ Job.emit = << >>
       \/ ~Job.mapOnly /\ isMapFinished /\ Grouped = {}

(* A listener that takes the next answer has not met the first result, or  *)
(* has finished mapping with it.                                           *)
FirstResultSeen ==
  lpc \in {"take", "stale"} /\ FinishedOnFirstMap => isMapFinished

(* If everything was sent when it checked, there is an answer to come.     *)
HasChecked ==
  lpc = "take" =>
    /\ allReduceSent => currentTasks # {}
    /\ ~Job.mapOnly /\ ~isMapFinished /\ allMapSent => currentTasks # {}

(* The result that ends a search comes with a worker, and the mapper takes *)
(* at most one more.                                                       *)
SearchEnds ==
  job > 0 /\ lpc = "done" => allReduceSent \/ (Job.mapOnly /\ FinishedOnFirstMap)

WorkerIsLeft ==
  /\ job > 0 /\ Job.mapOnly /\ FinishedOnFirstMap
  /\ lpc \in {"recheck", "check", "done"} /\ mpc \in {"mapTake", "mapSend"}
  /\ \A w \in Workers : conn[w] # "closed"
  => idle # << >>

WaitInv ==
  /\ SentBehindLoop /\ FirstResultSeen /\ SearchEnds /\ WorkerIsLeft
  /\ ~doubleRelease => SendsRecorded /\ HasChecked

LEMMA SentBehindLoopStep == IInv /\ SentBehindLoop /\ [Next]_vars => SentBehindLoop'
<1> SUFFICES ASSUME TypeOK, Handshake, Sending, ListenerOutlivesMapper, SentBehindLoop, [Next]_vars
             PROVE  SentBehindLoop'
  BY DEF IInv
<1> USE DEF SentBehindLoop
<1>1. CASE StartJob
  BY <1>1 DEF StartJob, AfterMap, Job
<1>2. CASE Mapper
  <2>1. /\ job' = job /\ Job' = Job /\ job > 0 /\ Job \in JobType
        /\ UNCHANGED <<lpc, isMapFinished, groupBy>>
    BY <1>2, MapperRuns, MapperFrame
  <2>2. Grouped' = Grouped
    BY <2>1 DEF Grouped
  <2>3. CASE MapTake \/ MapPut \/ ReduceTake \/ ReducePut
    BY <2>1, <2>3 DEF MapTake, MapPut, ReduceTake, ReducePut
  <2>4. CASE MapSend \/ MapStop
    BY <2>1, <2>4 DEF MapSend, MapStop, AfterMap, JobType
  <2>5. CASE Barrier
    BY <2>1, <2>5 DEF Barrier
  <2>6. CASE BeginReduce
    BY <2>1, <2>2, <2>6 DEF BeginReduce, Handshake, Reducing, Sending
  <2>7. CASE ReduceSend
    BY <2>1, <2>7 DEF ReduceSend
  <2> QED BY <1>2, <2>3, <2>4, <2>5, <2>6, <2>7 DEF Mapper
<1>3. CASE Listener
  <2>1. job' = job /\ Job' = Job /\ job > 0 /\ lpc # "done"
    BY <1>3, ListenerRuns
  <2>2. UNCHANGED <<allMapSent, allReduceSent>>
    BY <1>3, ListenerFrame DEF StartReduce, sharedVars
  <2>3. mpc' \in {"barrier", "waiting"} => mpc' = mpc
    BY <1>3, ListenerFrame DEF StartReduce, WakeMapper, mapperVars
  <2>4. mpc' = "done" => mpc = "done"
    BY <1>3, ListenerFrame DEF StartReduce, WakeMapper, mapperVars
  <2>5. isMapFinished => isMapFinished' /\ groupBy' = groupBy
    BY <1>3, <2>1, GroupsFrozen, ListenerFrame DEF StartReduce
  <2>6. groupBy' = groupBy => Grouped' = Grouped
    BY DEF Grouped
  <2> QED BY <2>1, <2>2, <2>3, <2>4, <2>5, <2>6
<1>4. CASE Volunteers \/ UNCHANGED vars
  BY <1>4, VolunteersFrame DEF jobVars, mapperVars, listenerVars, sharedVars, Job, Grouped
<1> QED BY <1>1, <1>2, <1>3, <1>4, NextCases DEF Listener

(* A worker the mapper sends to cannot be released by the listener, but    *)
(* for a second time.                                                      *)
LEMMA SendsRecordedStep ==
  ASSUME IInv, Exclusion, ~doubleRelease => SendsRecorded, [Next]_vars, ~doubleRelease'
  PROVE  SendsRecorded'
<1> USE DEF SendsRecorded
<1>1. ~doubleRelease => OnePlace(mworker) \/ mworker \notin Workers
  BY DEF Exclusion
<1>2. CASE StartJob
  BY <1>2 DEF StartJob, AfterMap
<1>3. CASE Mapper
  <2>1. doubleRelease' = doubleRelease
    BY <1>3 DEF Mapper, MapTake, MapPut, MapSend, MapStop, Barrier, BeginReduce,
       ReduceTake, ReducePut, ReduceSend, listenerVars
  <2> QED BY <1>3, <2>1 DEF Mapper, MapTake, MapPut, MapSend, MapStop, AfterMap, Barrier,
          BeginReduce, ReduceTake, ReducePut, ReduceSend, sharedVars
<1>4. CASE Listener
  <2>1. CASE AddFinishedMapper \/ AddFinishedReducer \/ IgnoreResponse
    BY <2>1 DEF AddFinishedMapper, AddFinishedReducer, IgnoreResponse, TakeMessage, mapperVars
  <2>2. CASE ReleaseWorker
    <3>1. SendsRecorded /\ mpc' = mpc /\ mworker' = mworker /\ ~doubleRelease
      BY <2>2 DEF ReleaseWorker, mapperVars
    <3>2. mpc \in {"mapSend", "reduceSend"} => mworker # lworker
      BY <1>1, <2>2, <3>1 DEF ReleaseWorker, OnePlace, HeldByListener, IInv, TypeOK
    <3> QED BY <2>2, <3>1, <3>2 DEF ReleaseWorker, Release
  <2>3. CASE RecheckStatus
    <3>1. SendsRecorded /\ mpc' = mpc /\ mworker' = mworker /\ ~doubleRelease
      BY <2>3 DEF RecheckStatus, mapperVars
    <3>2. CASE StillWorking
      <4>1. lpc = "stale"
        BY <2>3, <3>2 DEF RecheckStatus, StillWorking
      <4>2. mpc \in {"mapSend", "reduceSend"} => mworker # lworker
        BY <1>1, <3>1, <4>1 DEF OnePlace, HeldByListener, IInv, TypeOK
      <4> QED BY <2>3, <3>1, <3>2, <4>2 DEF RecheckStatus, Release
    <3>3. CASE ~StillWorking
      BY <2>3, <3>1, <3>3 DEF RecheckStatus
    <3> QED BY <3>2, <3>3
  <2>4. CASE StartReduce
    BY <2>4 DEF StartReduce, WakeMapper
  <2>5. CASE FinishReduce \/ KeepListening
    BY <2>5 DEF FinishReduce, KeepListening, mapperVars, listenerVars, sharedVars
  <2> QED BY <1>4, <2>1, <2>2, <2>3, <2>4, <2>5 DEF Listener
<1>5. CASE Volunteers \/ UNCHANGED vars
  BY <1>5, VolunteersFrame DEF jobVars, mapperVars, listenerVars, sharedVars
<1> QED BY <1>2, <1>3, <1>4, <1>5, NextCases DEF Listener

(* The conditions the listener tests last                                  *)
LEMMA ChecksFirstResult ==
  ASSUME TypeOK, Listener, lpc' = "take"
  PROVE  /\ StartReduce \/ KeepListening
         /\ KeepListening => /\ FinishedOnFirstMap => isMapFinished
                            /\ ~StartsReduce /\ ~ReducingFinished
<1>1. Job \in JobType
  BY ListenerRuns
<1>2. StartReduce \/ KeepListening
  BY DEF Listener, AddFinishedMapper, AddFinishedReducer, IgnoreResponse,
     ReleaseWorker, RecheckStatus, FinishReduce
<1>3. KeepListening => ~StartsReduce /\ ~ReducingFinished
  BY DEF KeepListening
<1> QED BY <1>1, <1>2, <1>3 DEF StartsReduce, MappingFinished, ReducingFinished, JobType

LEMMA NothingFound == groupBy' = NoGroups => Grouped' = {}
BY DEF Grouped, NoGroups

LEMMA SameFirstResult ==
  ASSUME UNCHANGED <<job, results, groupBy>>
  PROVE  Job' = Job /\ FinishedOnFirstMap' = FinishedOnFirstMap
BY DEF Job, FinishedOnFirstMap, Grouped

LEMMA FirstResultSeenStep == IInv /\ FirstResultSeen /\ [Next]_vars => FirstResultSeen'
<1> SUFFICES ASSUME IInv, FirstResultSeen, [Next]_vars,
                    lpc' \in {"take", "stale"}, FinishedOnFirstMap'
             PROVE  isMapFinished'
  BY DEF FirstResultSeen
<1>1. TypeOK
  BY DEF IInv
<1>2. CASE StartJob
  <2>1. results' = {} /\ Grouped' = {}
    BY <1>2, NothingFound DEF StartJob
  <2> QED BY <2>1 DEF FinishedOnFirstMap
<1>3. CASE Mapper
  <2>1. UNCHANGED <<job, lpc, isMapFinished, groupBy, results>>
    BY <1>3, MapperFrame
  <2> QED BY <2>1, SameFirstResult DEF FirstResultSeen
<1>4. CASE Listener
  <2>1. CASE StartReduce
    BY <2>1 DEF StartReduce
  <2>2. CASE KeepListening
    <3>1. UNCHANGED <<job, isMapFinished, groupBy, results>>
      BY <2>2 DEF KeepListening, listenerVars, sharedVars
    <3>2. lpc' = "take"
      BY <2>2 DEF KeepListening
    <3> QED BY <1>1, <1>4, <2>2, <3>1, <3>2, SameFirstResult, ChecksFirstResult
  <2>3. CASE lpc' = "stale"
    <3>1. IgnoreResponse
      BY <1>4, <2>3 DEF Listener, AddFinishedMapper, AddFinishedReducer, ReleaseWorker,
         RecheckStatus, StartReduce, FinishReduce, KeepListening
    <3>2. lpc = "take" /\ UNCHANGED <<job, isMapFinished, groupBy, results>>
      BY <3>1 DEF IgnoreResponse, TakeMessage
    <3> QED BY <3>2, SameFirstResult DEF FirstResultSeen
  <2> QED BY <1>1, <1>4, <2>1, <2>2, <2>3, ChecksFirstResult
<1>5. CASE Volunteers \/ UNCHANGED vars
  <2>1. UNCHANGED <<job, lpc, isMapFinished, groupBy, results>>
    BY <1>5, VolunteersFrame DEF jobVars, listenerVars, sharedVars
  <2> QED BY <2>1, SameFirstResult DEF FirstResultSeen
<1> QED BY <1>2, <1>3, <1>4, <1>5, NextCases DEF Listener

(* Only a check of the listener brings it back to the buffer, and whatever *)
(* the mapper sends meanwhile is recorded.                                 *)
LEMMA HasCheckedStep ==
  ASSUME IInv, FirstResultSeen, ~doubleRelease => SendsRecorded /\ HasChecked,
         [Next]_vars, ~doubleRelease'
  PROVE  HasChecked'
<1> SUFFICES ASSUME lpc' = "take"
             PROVE  /\ allReduceSent' => currentTasks' # {}
                    /\ ~Job'.mapOnly /\ ~isMapFinished' /\ allMapSent' => currentTasks' # {}
  BY DEF HasChecked
<1>1. TypeOK /\ Handshake /\ Sending
  BY DEF IInv
<1>2. CASE StartJob
  BY <1>2 DEF StartJob
<1>3. CASE Mapper
  <2>1. /\ job' = job /\ Job' = Job /\ job > 0 /\ Job \in JobType
        /\ UNCHANGED <<lpc, isMapFinished>>
    BY <1>1, <1>3, MapperRuns, MapperFrame
  <2>2. doubleRelease' = doubleRelease
    BY <1>3 DEF Mapper, MapTake, MapPut, MapSend, MapStop, Barrier, BeginReduce,
       ReduceTake, ReducePut, ReduceSend, listenerVars
  <2>3. SendsRecorded /\ HasChecked
    BY <2>2
  <2>4. /\ allReduceSent => currentTasks # {}
        /\ ~Job.mapOnly /\ ~isMapFinished /\ allMapSent => currentTasks # {}
    BY <2>1, <2>3 DEF HasChecked
  <2>5. CASE MapTake \/ Barrier \/ BeginReduce \/ ReduceTake
    <3>1. UNCHANGED <<currentTasks, allMapSent, allReduceSent>>
      BY <2>5 DEF MapTake, Barrier, BeginReduce, ReduceTake, sharedVars
    <3> QED BY <2>1, <2>4, <3>1
  <2>6. CASE MapPut \/ ReducePut
    BY <2>6 DEF MapPut, ReducePut
  <2>7. CASE MapSend \/ ReduceSend
    <3>1. currentTasks' = currentTasks /\ mworker \in currentTasks
      BY <2>3, <2>7 DEF MapSend, ReduceSend, SendsRecorded
    <3> QED BY <3>1
  <2>8. CASE MapStop
    <3>1. isMapFinished /\ ~Job.mapOnly
      BY <1>1, <2>1, <2>8 DEF MapStop, Sending, FirstResultSeen
    <3>2. ~allReduceSent'
      BY <2>8, <3>1 DEF MapStop
    <3> QED BY <2>1, <3>1, <3>2
  <2> QED BY <1>3, <2>5, <2>6, <2>7, <2>8 DEF Mapper
<1>4. CASE Listener
  <2>1. Job' = Job /\ job > 0 /\ Job \in JobType
    BY <1>1, <1>4, ListenerRuns
  <2>2. CASE StartReduce
    <3>1. isMapFinished' /\ allReduceSent' = allReduceSent
      BY <2>2 DEF StartReduce, WakeMapper
    <3>2. ~allReduceSent
      BY <1>1, <2>2, OnlyReducersReduce DEF StartReduce, StartsReduce, Sending
    <3> QED BY <3>1, <3>2
  <2>3. CASE KeepListening
    <3>1. /\ UNCHANGED <<isMapFinished, currentTasks, allMapSent, allReduceSent>>
          /\ ~StartsReduce /\ ~ReducingFinished
      BY <2>3 DEF KeepListening, listenerVars, sharedVars
    <3>2. allReduceSent => currentTasks # {}
      BY <3>1 DEF ReducingFinished
    <3>3. ~Job.mapOnly /\ ~isMapFinished /\ allMapSent => currentTasks # {}
      BY <1>1, <2>1, <3>1 DEF StartsReduce, MappingFinished, Sending
    <3> QED BY <2>1, <3>1, <3>2, <3>3
  <2> QED BY <1>1, <1>4, <2>2, <2>3, ChecksFirstResult
<1>5. CASE Volunteers \/ UNCHANGED vars
  <2>1. /\ UNCHANGED <<job, lpc, isMapFinished, currentTasks, allMapSent, allReduceSent>>
        /\ doubleRelease' = doubleRelease
    BY <1>5, VolunteersFrame DEF jobVars, listenerVars, sharedVars
  <2>2. Job' = Job
    BY <2>1 DEF Job
  <2> QED BY <2>1, <2>2 DEF HasChecked
<1> QED BY <1>2, <1>3, <1>4, <1>5, NextCases DEF Listener

LEMMA SearchEndsStep == IInv /\ SearchEnds /\ [Next]_vars => SearchEnds'
<1> SUFFICES ASSUME IInv, SearchEnds, [Next]_vars, job' > 0, lpc' = "done"
             PROVE  allReduceSent' \/ (Job'.mapOnly /\ FinishedOnFirstMap')
  BY DEF SearchEnds
<1>1. TypeOK
  BY DEF IInv
<1>2. CASE StartJob
  BY <1>2 DEF StartJob
<1>3. CASE Mapper
  <2>1. /\ job' = job /\ Job' = Job /\ job > 0
        /\ UNCHANGED <<lpc, groupBy, results>>
    BY <1>1, <1>3, MapperRuns, MapperFrame
  <2>2. FinishedOnFirstMap' = FinishedOnFirstMap
    BY <2>1 DEF FinishedOnFirstMap, Grouped
  <2>3. allReduceSent => mpc = "done"
    BY DEF IInv, Sending
  <2>4. ~allReduceSent
    BY <1>1, <1>3, <2>3, MapperRuns
  <2> QED BY <2>1, <2>2, <2>4 DEF SearchEnds
<1>4. CASE Listener
  <2>1. FinishReduce
    BY <1>4 DEF Listener, AddFinishedMapper, AddFinishedReducer, IgnoreResponse,
       ReleaseWorker, RecheckStatus, StartReduce, KeepListening
  <2>2. /\ Job' = Job /\ UNCHANGED <<groupBy, results, allReduceSent>>
    BY <2>1 DEF FinishReduce, sharedVars, Job
  <2>3. FinishedOnFirstMap' = FinishedOnFirstMap
    BY <2>2 DEF FinishedOnFirstMap, Grouped
  <2> QED BY <2>1, <2>2, <2>3 DEF FinishReduce, ReducingFinished
<1>5. CASE Volunteers \/ UNCHANGED vars
  <2>1. UNCHANGED <<job, lpc, groupBy, results, allReduceSent>>
    BY <1>5, VolunteersFrame DEF jobVars, listenerVars, sharedVars
  <2>2. Job' = Job /\ FinishedOnFirstMap' = FinishedOnFirstMap
    BY <2>1 DEF FinishedOnFirstMap, Grouped, Job
  <2> QED BY <2>1, <2>2 DEF SearchEnds
<1> QED BY <1>2, <1>3, <1>4, <1>5, NextCases DEF Listener

LEMMA WorkerIsLeftStep ==
  ASSUME IInv, FirstResultSeen, WorkerIsLeft, [Next]_vars
  PROVE  WorkerIsLeft'
<1> SUFFICES ASSUME Job'.mapOnly, FinishedOnFirstMap', job' > 0,
                    lpc' \in {"recheck", "check", "done"}, mpc' \in {"mapTake", "mapSend"},
                    \A w \in Workers : conn'[w] # "closed"
             PROVE  idle' # << >>
  BY DEF WorkerIsLeft
<1>1. TypeOK /\ Sending
  BY DEF IInv
<1>2. ASSUME NEW w \in Workers, idle' = Append(idle, w)
      PROVE  idle' # << >>
  <2>1. idle \in Seq(Workers)
    BY <1>1 DEF TypeOK
  <2> QED BY <1>2, <2>1, AppendProperties
<1>3. CASE StartJob
  BY <1>3 DEF StartJob
<1>4. CASE Mapper
  <2>1. /\ job > 0 /\ Job \in JobType
        /\ UNCHANGED <<job, lpc, groupBy, results>>
    BY <1>1, <1>4, MapperRuns, MapperFrame
  <2>2. Job' = Job /\ FinishedOnFirstMap
    BY <2>1, SameFirstResult
  <2>3. MapSend
    BY <1>4, <2>2 DEF Mapper, MapTake, MapPut, MapSend, MapStop, AfterMap, Barrier,
       BeginReduce, ReduceTake, ReducePut, ReduceSend
  <2>4. UNCHANGED <<conn, idle>> /\ mpc = "mapSend"
    BY <2>3 DEF MapSend
  <2> QED BY <2>1, <2>2, <2>4 DEF WorkerIsLeft
<1>5. CASE Listener
  <2>1. job' = job /\ Job' = Job /\ job > 0
    BY <1>1, <1>5, ListenerRuns
  <2>2. CASE ReleaseWorker
    <3>1. lworker \in Workers
      BY <1>1, <2>2 DEF ReleaseWorker, TypeOK
    <3> QED BY <1>2, <2>2, <3>1 DEF ReleaseWorker, Release, SetIdleWorker
  <2>3. CASE RecheckStatus
    <3>1. UNCHANGED <<job, results, groupBy, isMapFinished, mpc, conn>>
      BY <2>3 DEF RecheckStatus, mapperVars
    <3>2. FinishedOnFirstMap /\ Job.mapOnly
      BY <2>1, <3>1, SameFirstResult
    <3>3. lpc = "recheck"
      BY <1>1, <2>1, <2>3, <3>2 DEF FirstResultSeen, Sending, RecheckStatus
    <3>4. CASE StillWorking
      <4>1. lworker \in Workers
        BY <1>1, <3>3 DEF TypeOK
      <4> QED BY <1>2, <2>3, <3>4, <4>1 DEF RecheckStatus, Release, SetIdleWorker
    <3>5. CASE ~StillWorking
      <4>1. idle' = idle
        BY <2>3, <3>5 DEF RecheckStatus
      <4> QED BY <2>1, <3>1, <3>2, <3>3, <4>1 DEF WorkerIsLeft
    <3> QED BY <3>4, <3>5
  <2>4. CASE FinishReduce
    <3>1. UNCHANGED <<job, results, groupBy, mpc, conn, idle>> /\ lpc = "check"
      BY <2>4 DEF FinishReduce, mapperVars, sharedVars, workerVars, Check
    <3>2. FinishedOnFirstMap /\ Job.mapOnly
      BY <2>1, <3>1, SameFirstResult
    <3> QED BY <2>1, <3>1, <3>2 DEF WorkerIsLeft
  <2> QED BY <1>5, <2>2, <2>3, <2>4 DEF Listener, AddFinishedMapper, AddFinishedReducer,
          IgnoreResponse, StartReduce, KeepListening
<1>6. CASE Volunteers \/ UNCHANGED vars
  <2>1. UNCHANGED <<job, mpc, lpc, results, groupBy>>
    BY <1>6, VolunteersFrame DEF jobVars, mapperVars, listenerVars, sharedVars
  <2>2. FinishedOnFirstMap /\ Job.mapOnly
    BY <2>1, SameFirstResult
  <2>3. \/ UNCHANGED <<conn, idle>>
        \/ \E w \in Workers : Connect(w) \/ Disconnect(w) \/ RemoveClient(w)
    BY <1>6 DEF Volunteers, WorkersNext, Answer, vars, workerVars
  <2>4. CASE UNCHANGED <<conn, idle>>
    BY <2>1, <2>2, <2>4 DEF WorkerIsLeft
  <2>5. ASSUME NEW w \in Workers, Connect(w)
        PROVE  idle' # << >>
    BY <1>2, <2>5 DEF Connect
  <2>6. ASSUME NEW w \in Workers, Disconnect(w) \/ RemoveClient(w)
        PROVE  FALSE
    BY <1>1, <2>6 DEF Disconnect, RemoveClient, TypeOK
  <2> QED BY <2>3, <2>4, <2>5, <2>6
<1> QED BY <1>3, <1>4, <1>5, <1>6, NextCases DEF Listener

LEMMA InitWait == Init => WaitInv
<1> SUFFICES ASSUME Init PROVE WaitInv
  OBVIOUS
<1>1. mpc = "done" /\ lpc = "done" /\ job = 0
  BY DEF Init
<1> QED BY <1>1 DEF WaitInv, SentBehindLoop, FirstResultSeen, SearchEnds, WorkerIsLeft,
        SendsRecorded, HasChecked

LEMMA WaitInvariance == Spec => []WaitInv
<1>1. IInv /\ WInv /\ WaitInv /\ [Next]_vars => WaitInv'
  <2> SUFFICES ASSUME IInv, WInv, WaitInv, [Next]_vars PROVE WaitInv'
    OBVIOUS
  <2>1. SentBehindLoop' /\ FirstResultSeen' /\ SearchEnds'
    BY SentBehindLoopStep, FirstResultSeenStep, SearchEndsStep DEF WaitInv
  <2>2. WorkerIsLeft'
    BY WorkerIsLeftStep DEF WaitInv
  <2>3. ~doubleRelease' => SendsRecorded'
    BY SendsRecordedStep DEF WaitInv, WInv
  <2>4. ~doubleRelease' => HasChecked'
    BY HasCheckedStep DEF WaitInv
  <2> QED BY <2>1, <2>2, <2>3, <2>4 DEF WaitInv
<1> QED BY <1>1, InitWait, Invariance, WorkersInvariance, PTL DEF Spec

(* Before a job is over, mapper, listener and volunteers do not all wait   *)
(* for each other, whatever the jobs, the number of workers and the order  *)
(* of their answers, unless eval released a worker twice, a volunteer left *)
(* or there was nothing to send (MapReducer.run, MapReducerListener.run).  *)
THEOREM NobodyWaits == Spec => []NobodyWaitsForever
<1>1. ASSUME IInv, WInv, WaitInv
      PROVE  NobodyWaitsForever
  <2> SUFFICES ASSUME ~doubleRelease, EveryoneWaits, ~NothingToSend,
                      ~(mpc = "done" /\ lpc = "done")
               PROVE  FALSE
    BY DEF NobodyWaitsForever
  <2>1. TypeOK /\ Handshake /\ Sending /\ ListenerOutlivesMapper
    BY <1>1 DEF IInv
  <2>2. job > 0 /\ Job \in JobType
    BY <2>1, JobIsTyped, NumberOfJobs
  <2>3. /\ \/ mpc \in {"mapTake", "reduceTake"} /\ idle = << >>
           \/ mpc \in {"waiting", "done"}
        /\ \/ lpc = "take" /\ buffer = << >>
           \/ lpc = "done"
        /\ \A w \in Workers : conn[w] # "closed" /\ pending[w] = {}
    BY DEF EveryoneWaits
  <2>4. PICK w \in Workers : conn[w] = "open"
    BY DEF EveryoneWaits
  <2>5. mworker = None /\ lworker = None
    BY <2>1, <2>3 DEF TypeOK
  <2>6. ASSUME lpc = "take", NEW v \in Workers, conn[v] = "open"
        PROVE  Listed(v)
    <3>1. ~Sent(v) /\ ~Answered(v)
      BY <2>3, <2>6, EmptySeq DEF Sent, Answered
    <3>2. v \notin {mworker, lworker}
      BY <2>5, MapReduceAssumption
    <3> QED BY <1>1, <2>6, <3>1, <3>2 DEF WInv, Remembered
  <2>7. CASE lpc = "take"
    <3>1. currentTasks = {}
      <4> SUFFICES ASSUME NEW v \in currentTasks PROVE FALSE
        OBVIOUS
      <4>1. v \in Workers
        BY <2>1 DEF TypeOK
      <4>2. OnePlace(v)
        BY <1>1, <4>1 DEF WInv, Exclusion
      <4>3. conn[v] = "open"
        BY <2>1, <2>3, <4>1, <4>2 DEF TypeOK, OnePlace
      <4> QED BY <2>6, <2>7, <4>1, <4>2, <4>3 DEF OnePlace
    <3>2. ~allReduceSent
      BY <1>1, <2>7, <3>1 DEF WaitInv, HasChecked
    <3>3. CASE mpc \in {"mapTake", "reduceTake"}
      <4>1. Listed(w) /\ idle = << >>
        BY <2>3, <2>4, <2>6, <2>7, <3>3
      <4> QED BY <4>1, EmptySeq DEF Listed, Contains
    <3>4. CASE mpc = "waiting"
      <4>1. ~isMapFinished /\ ~Job.mapOnly
        BY <2>1, <2>2, <3>4 DEF Handshake, Sending
      <4>2. allMapSent
        BY <1>1, <3>4 DEF WaitInv, SentBehindLoop, NothingToSend
      <4> QED BY <1>1, <2>7, <3>1, <4>1, <4>2 DEF WaitInv, HasChecked
    <3>5. CASE mpc = "done"
      BY <1>1, <2>7, <3>2, <3>5 DEF WaitInv, SentBehindLoop, NothingToSend
    <3> QED BY <2>3, <3>3, <3>4, <3>5
  <2>8. CASE lpc = "done"
    <3>1. mpc # "done"
      BY <2>8
    <3>2. Job.mapOnly
      BY <2>1, <2>2, <2>8, <3>1 DEF ListenerOutlivesMapper, Finished
    <3>3. mpc = "mapTake" /\ idle = << >>
      BY <2>1, <2>2, <2>3, <3>1, <3>2 DEF Sending
    <3>4. FinishedOnFirstMap
      BY <1>1, <2>1, <2>2, <2>8, <3>1 DEF WaitInv, SearchEnds, Sending
    <3> QED BY <1>1, <2>2, <2>3, <2>8, <3>2, <3>3, <3>4 DEF WaitInv, WorkerIsLeft
  <2> QED BY <2>3, <2>7, <2>8
<1> QED BY <1>1, Invariance, WorkersInvariance, WaitInvariance, PTL

-----------------------------------------------------------------------------
(* The refinement.                                                         *)

LEMMA InitMaps == Init => Contract!Init
  BY DEF Init, Contract!Init, Phase, NoGroups, Contract!NoGroups

LEMMA MergeMaps ==
  ASSUME IInv, AddFinishedMapper
  PROVE  Contract!Merge
<1> DEFINE p == Message.task.key
<1>1. p \in 1..Len(Job.emit) /\ job > 0
  BY MessageMapped, JobIsTyped DEF IInv, AddFinishedMapper, TakeMessage, TypeOK
<1>2. p \in DOMAIN JobList[job].emit
  BY <1>1, StartedJob, LenProperties DEF IInv, Job, JobType
<1>3. Phase = "map" /\ Phase' = "map" /\ job' = job
  BY DEF AddFinishedMapper, AcceptsMap, TakeMessage, Phase
<1>4. IF Job.mapOnly
      THEN /\ results' = results \cup {[key |-> k, values |-> {p}] : k \in Job.emit[p]}
           /\ UNCHANGED groupBy
      ELSE /\ groupBy' = [k \in Keys |->
                          groupBy[k] \cup IF k \in Job.emit[p] THEN {p} ELSE {}]
           /\ UNCHANGED results
  BY DEF AddFinishedMapper
<1> HIDE DEF p
<1> QED BY <1>2, <1>3, <1>4 DEF Contract!Merge, Job

LEMMA ReduceMaps ==
  ASSUME IInv, AddFinishedReducer
  PROVE  \E k \in Keys : Contract!Reduce(k)
<1>1. /\ isMapFinished
      /\ Message.task.values = groupBy[Message.task.key]
      /\ Message.task.values # {}
  BY MessageReduced DEF AddFinishedReducer, IInv
<1>2. Message.task.key \in Keys
  BY MessageType DEF AddFinishedReducer, AcceptsReduce, IInv, Tasks
<1>3. /\ Phase = "reduce" /\ Phase' = "reduce"
      /\ job' = job /\ groupBy' = groupBy
      /\ results' = results \cup {[key |-> Message.task.key, values |-> Message.task.values]}
  BY <1>1 DEF AddFinishedReducer, TakeMessage, Phase
<1> QED BY <1>1, <1>2, <1>3 DEF Contract!Reduce

LEMMA FinishMaps ==
  ASSUME IInv, FinishReduce
  PROVE  Contract!Finish
<1>1. lpc = "check" /\ lpc' = "done" /\ job' = job /\ job > 0 /\ Job \in JobType
  BY JobIsTyped DEF IInv, TypeOK, FinishReduce, Check
<1>2. UNCHANGED <<groupBy, results, isMapFinished>>
  BY DEF FinishReduce, sharedVars
<1>3. isMapFinished <=> ~Job.mapOnly
  BY <1>1 DEF IInv, TypeOK, Sending, FinishReduce, ReducingFinished, JobType
<1>4. Job.endless /\ Job.mapOnly => results # {}
  BY <1>1 DEF IInv, FinishReduce, ReducingFinished, FinishedOnFirstMap, SearchHasResult
<1> QED BY <1>1, <1>2, <1>3, <1>4 DEF Contract!Finish, Phase, Job

LEMMA StepMaps == IInv /\ [Next]_vars => [Contract!Next]_(Contract!vars)
<1> SUFFICES ASSUME IInv, [Next]_vars
             PROVE  Contract!Next \/ UNCHANGED Contract!vars
  OBVIOUS
<1>1. CASE StartJob
  <2>1. Contract!Begin
    BY <1>1 DEF StartJob, Contract!Begin, Phase, NoGroups, Contract!NoGroups
  <2> QED BY <2>1 DEF Contract!Next
<1>2. CASE Mapper
  BY <1>2, MapperFrame DEF Contract!vars, Phase
<1>3. CASE AddFinishedMapper
  BY <1>3, MergeMaps DEF Contract!Next
<1>4. CASE AddFinishedReducer
  BY <1>4, ReduceMaps DEF Contract!Next
<1>5. CASE StartReduce
  <2>1. ~Job.mapOnly
    BY <1>5, OnlyReducersReduce DEF IInv
  <2>2. Contract!Freeze
    BY <1>5, <2>1 DEF StartReduce, StartsReduce, Check, Contract!Freeze, Phase, Job
  <2> QED BY <2>2 DEF Contract!Next
<1>6. CASE FinishReduce
  BY <1>6, FinishMaps DEF Contract!Next
<1>7. CASE IgnoreResponse \/ ReleaseWorker \/ RecheckStatus \/ KeepListening
  <2>1. /\ lpc # "done" /\ lpc' # "done"
        /\ UNCHANGED <<job, groupBy, results, isMapFinished>>
    BY <1>7 DEF IgnoreResponse, TakeMessage, ReleaseWorker, RecheckStatus,
       KeepListening, Check, sharedVars
  <2> QED BY <2>1 DEF Contract!vars, Phase
<1>8. CASE Volunteers \/ UNCHANGED vars
  BY <1>8, VolunteersFrame DEF jobVars, listenerVars, sharedVars, Contract!vars, Phase
<1> QED BY <1>1, <1>2, <1>3, <1>4, <1>5, <1>6, <1>7, <1>8, NextCases DEF Listener

(* The mapper, the listener and the volunteers together implement the      *)
(* contract of a job, for every list of jobs and any number of workers.    *)
THEOREM ContractIsKept == Spec => KeepsContract
  BY InitMaps, StepMaps, Invariance, PTL DEF Spec, KeepsContract, Contract!Spec
=============================================================================
