----------------------------- MODULE Scheduler -----------------------------
(***************************************************************************)
(* JobScheduler and the threads that meet in it: the requests of the web   *)
(* application that make and add jobs, the scheduler's own thread, the     *)
(* console that lists the jobs and the thread that stops the server.  Of a *)
(* job it keeps the status and the life of its two threads, which may end  *)
(* or not; what they do is the subject of MapReduce.                       *)
(***************************************************************************)
EXTENDS Naturals, Sequences, SequencesExt, FiniteSets

CONSTANTS
  Jobs,   \* the jobs that may be made, each by a request of its own
  None    \* null

ASSUME SchedulerAssumption == None \notin Jobs /\ None \notin Nat

VARIABLES
  ids,          \* m_ids of JobIdGenerator, counted from 0 instead of -1
  request,      \* next step of the request that makes each job
  read,         \* the value of m_ids each request has read
  id,           \* m_jobId of each job
  queue,        \* m_jobList
  hand,         \* the job the scheduler has taken and not recorded yet
  running,      \* m_runningJob
  done,         \* m_jobListDone
  spc,          \* next step of the scheduler
  interrupted,  \* interrupt status of the scheduler
  status,       \* m_status of each job
  results,      \* jobs whose m_results is set
  mapper,       \* m_mapReducer of each job, as a thread
  listener,     \* m_mapReducerListener of each job, as a thread
  stop,         \* next step of stopJobScheduler
  target,       \* the job stopJob was called on
  listing,      \* next step of getJobList
  listed,       \* the list it has made so far
  added,        \* history: the jobs in the order in which they were added
  asked         \* history: the jobs that had been added when it was called

requestVars   == <<ids, request, read, id>>
threadVars    == <<mapper, listener>>
schedulerVars == <<hand, running, done, spc, status, results>>
stopVars      == <<stop, target, interrupted>>
listVars      == <<listing, listed, asked>>
vars == <<requestVars, queue, added, schedulerVars, threadVars, stopVars, listVars>>

ThreadStates == {"none", "new", "running", "interrupted", "ended"}

(* Thread.isAlive, what join waits for                                     *)
Alive(state) == state \in {"running", "interrupted"}

Init ==
  /\ ids = 0
  /\ request = [j \in Jobs |-> "read"]
  /\ read = [j \in Jobs |-> 0]
  /\ id = [j \in Jobs |-> None]
  /\ queue = << >> /\ added = << >>
  /\ hand = None /\ running = None
  /\ done = << >>
  /\ spc = "take"
  /\ interrupted = FALSE
  /\ status = [j \in Jobs |-> "WAITING"]
  /\ results = {}
  /\ mapper = [j \in Jobs |-> "none"]
  /\ listener = [j \in Jobs |-> "none"]
  /\ stop = "idle" /\ target = None
  /\ listing = "running" /\ listed = << >> /\ asked = {}

-----------------------------------------------------------------------------
(* The requests.                                                           *)

(* JobIdGenerator.getNextId is not synchronized: it reads the counter,     *)
(* then writes what it read plus one and returns it.                       *)
ReadId(j) ==
  /\ request[j] = "read"
  /\ read' = [read EXCEPT ![j] = ids]
  /\ request' = [request EXCEPT ![j] = "write"]
  /\ UNCHANGED <<ids, id, queue, added, schedulerVars, threadVars, stopVars, listVars>>

WriteId(j) ==
  /\ request[j] = "write"
  /\ ids' = read[j] + 1
  /\ id' = [id EXCEPT ![j] = read[j] + 1]
  /\ request' = [request EXCEPT ![j] = "add"]
  /\ UNCHANGED <<read, queue, added, schedulerVars, threadVars, stopVars, listVars>>

(* JobScheduler.addJob                                                     *)
AddJob(j) ==
  /\ request[j] = "add"
  /\ queue' = Append(queue, j)
  /\ added' = Append(added, j)
  /\ request' = [request EXCEPT ![j] = "added"]
  /\ UNCHANGED <<ids, read, id, schedulerVars, threadVars, stopVars, listVars>>

-----------------------------------------------------------------------------
(* The scheduler's thread: JobScheduler.run and Job.runJob.                *)

(* Mutant: the job is looked at and stays in the queue.                    *)
PeekJob ==
  /\ spc = "take"
  /\ ~interrupted
  /\ queue # << >>
  /\ hand' = Head(queue)
  /\ spc' = "assign"
  /\ UNCHANGED <<requestVars, queue, added, running, done, status, results, threadVars,
                 stopVars, listVars>>

(* The loop's test and take: neither goes on once the thread has been      *)
(* interrupted.                                                            *)
TakeJob ==
  /\ spc = "take"
  /\ ~interrupted
  /\ queue # << >>
  /\ hand' = Head(queue)
  /\ queue' = Tail(queue)
  /\ spc' = "assign"
  /\ UNCHANGED <<requestVars, added, running, done, status, results, threadVars,
                 stopVars, listVars>>

(* The job that was taken becomes m_runningJob, with status RUNNING.       *)
AssignJob ==
  /\ spc = "assign"
  /\ running' = hand
  /\ status' = [status EXCEPT ![hand] = "RUNNING"]
  /\ spc' = "mapper"
  /\ UNCHANGED <<requestVars, queue, added, hand, done, results, threadVars,
                 stopVars, listVars>>

(* runJob constructs the mapper, constructs the listener, starts the       *)
(* listener and starts the mapper.                                         *)
MakeMapper ==
  /\ spc = "mapper"
  /\ mapper' = [mapper EXCEPT ![running] = "new"]
  /\ spc' = "listener"
  /\ UNCHANGED <<requestVars, queue, added, hand, running, done, status, results,
                 listener, stopVars, listVars>>

MakeListener ==
  /\ spc = "listener"
  /\ listener' = [listener EXCEPT ![running] = "new"]
  /\ spc' = "startListener"
  /\ UNCHANGED <<requestVars, queue, added, hand, running, done, status, results,
                 mapper, stopVars, listVars>>

StartListener ==
  /\ spc = "startListener"
  /\ listener' = [listener EXCEPT ![running] = "running"]
  /\ spc' = "startMapper"
  /\ UNCHANGED <<requestVars, queue, added, hand, running, done, status, results,
                 mapper, stopVars, listVars>>

StartMapper ==
  /\ spc = "startMapper"
  /\ mapper' = [mapper EXCEPT ![running] = "running"]
  /\ spc' = "joinMapper"
  /\ UNCHANGED <<requestVars, queue, added, hand, running, done, status, results,
                 listener, stopVars, listVars>>

(* Thread.join waits while the thread is alive, and only a wait throws when *)
(* the scheduler has been interrupted: a thread that has ended is joined   *)
(* all the same.                                                           *)
WaitMapper ==
  /\ spc = "joinMapper"
  /\ Alive(mapper[running]) /\ ~interrupted
  /\ spc' = "waitMapper"
  /\ UNCHANGED <<requestVars, queue, added, hand, running, done, status, results,
                 threadVars, stopVars, listVars>>

JoinMapper ==
  /\ spc \in {"joinMapper", "waitMapper"}
  /\ ~Alive(mapper[running])
  /\ spc' = "joinListener"
  /\ UNCHANGED <<requestVars, queue, added, hand, running, done, status, results,
                 threadVars, stopVars, listVars>>

WaitListener ==
  /\ spc = "joinListener"
  /\ Alive(listener[running]) /\ ~interrupted
  /\ spc' = "waitListener"
  /\ UNCHANGED <<requestVars, queue, added, hand, running, done, status, results,
                 threadVars, stopVars, listVars>>

(* Mutant: the listener is not waited for.                                 *)
SkipListener ==
  /\ spc \in {"joinListener", "waitListener"}
  /\ results' = results \cup {running}
  /\ spc' = "record"
  /\ UNCHANGED <<requestVars, queue, added, hand, running, done, status,
                 threadVars, stopVars, listVars>>

(* The last join and setResults                                            *)
JoinListener ==
  /\ spc \in {"joinListener", "waitListener"}
  /\ ~Alive(listener[running])
  /\ results' = results \cup {running}
  /\ spc' = "record"
  /\ UNCHANGED <<requestVars, queue, added, hand, running, done, status,
                 threadVars, stopVars, listVars>>

RecordJob ==
  /\ spc = "record"
  /\ done' = Append(done, running)
  /\ hand' = None
  /\ spc' = "finish"
  /\ UNCHANGED <<requestVars, queue, added, running, status, results, threadVars,
                 stopVars, listVars>>

FinishJob ==
  /\ spc = "finish"
  /\ status' = [status EXCEPT ![running] = "FINISHED"]
  /\ spc' = "clear"
  /\ UNCHANGED <<requestVars, queue, added, hand, running, done, results, threadVars,
                 stopVars, listVars>>

ClearJob ==
  /\ spc = "clear"
  /\ running' = None
  /\ spc' = "take"
  /\ UNCHANGED <<requestVars, queue, added, hand, done, status, results, threadVars,
                 stopVars, listVars>>

(* The loop's test fails, or take or a join that waits throws, and the     *)
(* thread ends; a job that is in hand stays there.  A wait that meets the  *)
(* end of the thread and the interrupt may return or throw.                *)
EndScheduler ==
  /\ interrupted
  /\ \/ spc \in {"take", "waitMapper", "waitListener"}
     \/ spc = "joinMapper" /\ Alive(mapper[running])
     \/ spc = "joinListener" /\ Alive(listener[running])
  /\ spc' = "ended"
  /\ UNCHANGED <<requestVars, queue, added, hand, running, done, status, results,
                 threadVars, stopVars, listVars>>

SchedulerThread ==
  \/ TakeJob \/ AssignJob
  \/ MakeMapper \/ MakeListener \/ StartListener \/ StartMapper
  \/ WaitMapper \/ JoinMapper \/ WaitListener \/ JoinListener
  \/ RecordJob \/ FinishJob \/ ClearJob
  \/ EndScheduler

-----------------------------------------------------------------------------
(* The threads of the jobs.                                                *)

EndMapper(j) ==
  /\ Alive(mapper[j])
  /\ mapper' = [mapper EXCEPT ![j] = "ended"]
  /\ UNCHANGED <<requestVars, queue, added, schedulerVars, listener, stopVars, listVars>>

EndListener(j) ==
  /\ Alive(listener[j])
  /\ listener' = [listener EXCEPT ![j] = "ended"]
  /\ UNCHANGED <<requestVars, queue, added, schedulerVars, mapper, stopVars, listVars>>

-----------------------------------------------------------------------------
(* The thread that stops the server: JobScheduler.stopJobScheduler and     *)
(* Job.stopJob.                                                            *)

(* Mutant: an interrupt goes unnoticed.                                    *)
NotInterrupted(state) == state

(* Thread.interrupt: it has no effect on a thread that is not alive.       *)
AfterInterrupt(state) == IF state = "running" THEN "interrupted" ELSE state

StopScheduler ==
  /\ stop = "idle"
  /\ stop' = IF running # None THEN "mapper" ELSE "interrupt"
  /\ UNCHANGED <<requestVars, queue, added, schedulerVars, threadVars, target,
                 interrupted, listVars>>

(* m_runningJob is read again: it may be null by now, and the threads of   *)
(* the job may not have been made.  The exception ends stopJobScheduler.   *)
StopMapper ==
  /\ stop = "mapper"
  /\ IF running = None \/ mapper[running] = "none"
     THEN /\ stop' = "failed"
          /\ UNCHANGED <<target, mapper>>
     ELSE /\ stop' = "listener"
          /\ target' = running
          /\ mapper' = [mapper EXCEPT ![running] = AfterInterrupt(@)]
  /\ UNCHANGED <<requestVars, queue, added, schedulerVars, listener, interrupted,
                 listVars>>

StopListener ==
  /\ stop = "listener"
  /\ IF listener[target] = "none"
     THEN stop' = "failed" /\ UNCHANGED listener
     ELSE /\ stop' = "joinMapper"
          /\ listener' = [listener EXCEPT ![target] = AfterInterrupt(@)]
  /\ UNCHANGED <<requestVars, queue, added, schedulerVars, mapper, target, interrupted,
                 listVars>>

StopJoinsMapper ==
  /\ stop = "joinMapper"
  /\ ~Alive(mapper[target])
  /\ stop' = "joinListener"
  /\ UNCHANGED <<requestVars, queue, added, schedulerVars, threadVars, target,
                 interrupted, listVars>>

StopJoinsListener ==
  /\ stop = "joinListener"
  /\ ~Alive(listener[target])
  /\ stop' = "interrupt"
  /\ UNCHANGED <<requestVars, queue, added, schedulerVars, threadVars, target,
                 interrupted, listVars>>

InterruptScheduler ==
  /\ stop = "interrupt"
  /\ interrupted' = TRUE
  /\ stop' = "join"
  /\ UNCHANGED <<requestVars, queue, added, schedulerVars, threadVars, target, listVars>>

StopJoinsScheduler ==
  /\ stop = "join"
  /\ spc = "ended"
  /\ stop' = "returned"
  /\ UNCHANGED <<requestVars, queue, added, schedulerVars, threadVars, target,
                 interrupted, listVars>>

Stopping ==
  \/ StopMapper \/ StopListener \/ StopJoinsMapper \/ StopJoinsListener
  \/ InterruptScheduler \/ StopJoinsScheduler

-----------------------------------------------------------------------------
(* The console: JobScheduler.getJobList.  It is synchronized, but nothing  *)
(* else is: the scheduler moves jobs while the list is made.               *)

(* Mutant: the jobs that are done are added before those that wait.        *)
SourceSwapped(step) == IF step = "done" THEN queue ELSE done

(* Each of the two collections is copied under its own lock.               *)
Source(step) == IF step = "queue" THEN queue ELSE done

ListRunning ==
  /\ listing = "running"
  /\ asked' = ToSet(added)
  /\ listing' = IF running # None THEN "add" ELSE "queue"
  /\ UNCHANGED <<requestVars, queue, added, schedulerVars, threadVars, stopVars, listed>>

(* m_runningJob is read again: the list may get a null.                    *)
ListAdd ==
  /\ listing = "add"
  /\ listed' = Append(listed, running)
  /\ listing' = "queue"
  /\ UNCHANGED <<requestVars, queue, added, schedulerVars, threadVars, stopVars, asked>>

ListAll ==
  /\ listing \in {"queue", "done"}
  /\ listed' = listed \o Source(listing)
  /\ listing' = IF listing = "queue" THEN "done" ELSE "returned"
  /\ UNCHANGED <<requestVars, queue, added, schedulerVars, threadVars, stopVars, asked>>

Listing == ListRunning \/ ListAdd \/ ListAll

-----------------------------------------------------------------------------
Next ==
  \/ \E j \in Jobs : ReadId(j) \/ WriteId(j) \/ AddJob(j)
  \/ SchedulerThread
  \/ \E j \in Jobs : EndMapper(j) \/ EndListener(j)
  \/ StopScheduler \/ Stopping
  \/ Listing

Spec == Init /\ [][Next]_vars

(* The threads of the server run; one of a job may go on for ever, like a  *)
(* search for what does not exist, but ends when it is interrupted.        *)
Fairness ==
  /\ WF_vars(SchedulerThread)
  /\ WF_vars(Stopping)
  /\ \A j \in Jobs :
       /\ WF_vars(mapper[j] = "interrupted" /\ EndMapper(j))
       /\ WF_vars(listener[j] = "interrupted" /\ EndListener(j))

FairSpec == Spec /\ Fairness

-----------------------------------------------------------------------------
(* Properties.                                                             *)

TypeOK ==
  /\ ids \in Nat /\ read \in [Jobs -> Nat]
  /\ request \in [Jobs -> {"read", "write", "add", "added"}]
  /\ id \in [Jobs -> Nat \cup {None}]
  /\ queue \in Seq(Jobs) /\ done \in Seq(Jobs) /\ added \in Seq(Jobs)
  /\ hand \in Jobs \cup {None} /\ running \in Jobs \cup {None}
  /\ spc \in {"take", "assign", "mapper", "listener", "startListener", "startMapper",
              "joinMapper", "waitMapper", "joinListener", "waitListener", "record",
              "finish", "clear", "ended"}
  /\ interrupted \in BOOLEAN
  /\ status \in [Jobs -> {"WAITING", "RUNNING", "FINISHED"}]
  /\ results \subseteq Jobs
  /\ mapper \in [Jobs -> ThreadStates] /\ listener \in [Jobs -> ThreadStates]
  /\ stop \in {"idle", "mapper", "listener", "joinMapper", "joinListener",
               "interrupt", "join", "returned", "failed"}
  /\ target \in Jobs \cup {None}
  /\ listing \in {"running", "add", "queue", "done", "returned"}
  /\ listed \in Seq(Jobs \cup {None})
  /\ asked \subseteq Jobs

InHand == IF hand = None THEN << >> ELSE <<hand>>

(* Jobs are run in the order in which they were added, and each of them is *)
(* in one place: none is lost, run twice or overtaken, wherever the        *)
(* server is stopped: a job whose join is interrupted stays in hand, one   *)
(* whose threads have ended by then is recorded like any other             *)
(* (JobScheduler.run, Job.runJob, Job.stopJob).                            *)
JobsInOrder == added = done \o InHand \o queue

(* Threads of two jobs are never alive together: they would take each      *)
(* other's answers from the one communication buffer (Job.runJob joins     *)
(* both threads, Job.stopJob, the exceptions of take and join).            *)
OneJobAtATime ==
  Cardinality({j \in Jobs : Alive(mapper[j]) \/ Alive(listener[j])}) <= 1

(* A job whose status the console shows as FINISHED is over and has its    *)
(* results: resultsToString reads m_results of such a job only.            *)
FinishedIsOver ==
  \A j \in Jobs :
    status[j] = "FINISHED" => /\ mapper[j] = "ended" /\ listener[j] = "ended"
                              /\ j \in results

(* Whatever the scheduler does meanwhile, a list of the jobs misses at     *)
(* most one of those that had been added: what leaves the queue before it  *)
(* is copied is done by the time m_jobListDone is, but for the job in      *)
(* between (getJobList reads the queue first).                             *)
ListingMissesAtMostOne ==
  listing = "returned" => Cardinality(asked \ ToSet(listed)) <= 1

(* Jobs have different ids as long as no increment of the counter is lost, *)
(* when two requests make a job together; one that is lost makes this job  *)
(* or a later one share its id (JobIdGenerator.getNextId).                 *)
UniqueIdsUnlessLost ==
  LET made == {j \in Jobs : id[j] # None}
  IN  Cardinality({id[j] : j \in made}) = Cardinality(made) \/ ids < Cardinality(made)

(* The scheduler keeps the promise of JobQueue, in every interleaving with *)
(* the requests that add jobs, the threads of the jobs and a stop: each    *)
(* job is run once and in its turn, by itself, and is recorded as done     *)
(* when both its threads have ended (JobScheduler.run, Job.runJob).        *)
AliveJobs == {j \in Jobs : Alive(mapper[j]) \/ Alive(listener[j])}

Turns == INSTANCE JobQueue WITH
           waiting <- queue, active <- hand, alive <- AliveJobs, over <- done

RunsInTurn == Turns!Spec

(* A thread of a job that was interrupted or has ended is not started      *)
(* again, by whatever requests add and the scheduler takes meanwhile: each *)
(* job is taken once, and Job.runJob makes its threads once.               *)
NotStartedAgain ==
  [][\A j \in Jobs :
       /\ mapper[j] \in {"interrupted", "ended"} => mapper'[j] \in {mapper[j], "ended"}
       /\ listener[j] \in {"interrupted", "ended"} =>
            listener'[j] \in {listener[j], "ended"}]_vars

(* stopJobScheduler does not wait for ever, whatever the running job does  *)
(* and wherever the scheduler is, when it found no job or a job whose      *)
(* threads had been started.  (An interrupt of a thread that is made but   *)
(* not started yet is lost, and then the stop may wait for ever.)          *)
StopReturns ==
  \/ stop = "interrupt"
  \/ stop = "listener" /\ mapper[target] \in {"interrupted", "ended"}
  ~> stop = "returned"
=============================================================================
