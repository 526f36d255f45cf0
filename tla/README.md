# Kaliya in TLA+

Kaliya distributes map/reduce jobs over the browsers of volunteers: a page
opens a socket to the server, the server sends it tasks, the script of the job
runs in the page and the answer comes back over the socket. This directory has
TLA+ models of the server's threads and of what they exchange with the
browsers, TLC configurations that check them on small instances, and proofs
checked by TLAPS.

## 1. The system

| component | state | operations | talks to |
|---|---|---|---|
| `WorkerServer`, `Worker`, `Client` | sockets, the queue of idle workers, `m_status` of each worker, the thread pool of readers, the communication buffer | `getIdleWorker`, `setIdleWorker`, `sendTask`, `runClient`, `addClient`, `removeClient` | browsers; both threads of the running job |
| `MapReducer` (the *mapper*), one thread per job | `m_currentTasks`, `m_groupBy`, `m_results`, `m_allMapSent`, `m_allReduceSent`, `m_listenerFinishedMap`, the problem iterator | `run`, `addFinishedMapper`, `addFinishedReducer`, `release`, `startReduce` | idle queue; listener, by flags, two monitors and a wait |
| `MapReducerListener` and its evaluator (the *listener*), one thread per job | `m_isMapFinished` | `run`, `eval`, `isMappingFinished`, `isReducingFinished` | communication buffer; mapper |
| `JobScheduler`, `Job`, `JobIdGenerator` | job queue, running job, finished jobs, status of each job, the id counter | `addJob`, `run`, `runJob`, `getJobList`, `getJobMap`, `stopJobScheduler`, `stopJob` | web requests, console, the two threads of the job |
| `Server`, `WorkerServer.runServer`, `Handler` | server socket, client list, the policy file | accept, first byte, policy answer, `addClient`, `removeClient`, `sendAllMsg`, `stopServer` | browsers, readers, console, scheduler |
| page of the volunteer (`kaliya.js`, `jSocket.js`, `JSocket.as`) | the flash object and whether it is loaded, the socket, what it has received, the scripts being loaded | `init`, `swfloaded`, `connect`, `dataHandler`, `writeFlush`, `closeHandler` | server |
| `WordIterator` (server) and `md5cracker.js` | the current prefix; the letters of the browser's iterator; the state of md5 | `next`, `incr`; `hasNext`, `increment`, `map`, `md5` | mapper; browser |
| `ReverseIndexer` and `reverseIndexer.js` | the list of texts | `map`, `normalizeText`, `reduce` | mapper; browser |
| `KaliyaLogger` | the last 100 messages | `log`, `logAdmin`, `getMessages` | everyone; console; `sendAllMsg` |
| `KaliyaServer`, servlet listener, controllers, pages | – | start, stop, add and list jobs | all of the above |
| `Information`, `ClientKeepAlive` | configuration; nothing (its use is commented out) | – | – |

What is hard in it, and what makes each part correct:

* **Mapper and listener** run at the same time over shared flags, some of them
  read outside the monitor under which they are written; they meet once under
  `LOCKMAP`, in either order. *No wakeup is lost; the groups do not change
  while they are iterated over; the listener does not leave before the mapper;
  a job that ends has all its results and no others.*
* **The communication buffer and the idle queue outlive a job.** *Late answers
  leave no trace in the next job, and their workers are not lost.*
* **A worker goes back to the idle queue in three places** (`release` after an
  answer, `release` in `eval` by the status, `removeClient`). *It is offered
  once and has one task at a time.*
* **Volunteers leave at any moment**, with tasks and with answers on the wire.
* **Web requests, scheduler, console and stop** meet in `JobScheduler` with
  little locking. *Jobs run one at a time, in order; what is shown as finished
  has no thread left; a stop returns.* (That such a job is complete and that
  each has an id of its own is not true when the server is stopped or two requests
  meet: see section 3.)
* **The client list** is a `LinkedHashMap` without a lock, and its keys are made
  of its size, so that they may be given twice. *Who has left is not listed; who
  is connected is, until somebody leaves; stopping closes those who are listed,
  unless a removal meets the copy that it makes of the list.*
* **The flash object** of the page is loaded while the page already asks for it,
  its calls are put off by timers, and it reads messages from a stream as they
  come; scripts are loaded asynchronously. *The page makes one socket and greets
  once; whatever goes wrong it is, to the server, a volunteer who answers a task
  once, with the answer to that task, or not at all.*
* **The scripts** search words by two iterators in two languages, make digests
  with 32-bit arithmetic that JavaScript does not quite have, and cut texts into
  words. *Every word is tried, and once; the digests are those of md5; the index
  is that of the texts, in whatever order the answers come.*
* **Messages to everyone** go through a list that changes, with the monitor of a
  client held while its browser does not read. *Nobody gets one twice, everyone
  gets it if the list stays as it is, and the server can be stopped.*
* **The log** is bounded by three calls that are not one. *It holds the newest
  messages, about as many as it should.*

`PROJECT.json` lists the hazards one by one with their lines and the properties
that are about them.

## 2. The modules

```
JobContract <-(implements)-- MapReduce -- uses --> Workers <-(implements)-- Volunteer
                                 |                                              |
        QueueLemmas <-- MapReduceProofs       MCMapReduce        VolunteerProofs, MCVolunteer
             ^
        ServerProofs --> Server -- MCServer       Registry -- RegistryProofs, MCRegistry
Logger -- LoggerProofs, MCLogger
JobQueue <-(implements)-- Scheduler -- SchedulerProofs, MCScheduler
Scripts --> Md5, Indexer, WordSearch --(implements)--> SharedSearch
Scripts -- ScriptsProofs, MCScripts               WordSearch, SharedSearch --> WordOrder
```

**Workers** has the state and the operations of the volunteers as the server
sees them. A worker is one connection. `idle` is `m_lstWorkerIdle`, `pool` the
readers handed to the thread pool, of which the first `PoolSize` run; `pending`
holds the tasks a browser has and `buffer` the answers read. `Disconnect` loses
any part of what is pending, `RemoveClient` is what the reader does at the end
of the stream. Taking the head of the queue and marking it WORKING are one
step.

**MapReduce** adds the two threads of the running job. `mpc` and `lpc` name the
next step of the mapper and of the listener; each step of `MapReducer.run`,
`MapReducerListener.run` and `eval` that another thread can tell apart is an
action. `synchronized(this)` around the sending of a map task appears as the
step `mapSend`, during which the listener does not evaluate its conditions
(`Check`); `m_currentTasks.put` of a reduce task is outside of it, as in the
code. `eval` has three steps: merging (`AddFinishedMapper`,
`AddFinishedReducer`, `IgnoreResponse`), the release that belongs to it
(`ReleaseWorker`) and the second look at the status (`RecheckStatus`).
`StartJob` is the scheduler's part: a new mapper and a new listener, the
workers as they are. A job is a record: whether it reduces, whether it stops at
its first map, whether its iterator is endless and which keys the map of each
pair emits. Values are abstracted to the pair they come from, so `groupBy` and
`results` say on which pairs each value rests.

**JobContract** says what a job promises without threads, workers or messages:
merge answers of one's own pairs, freeze the groups, reduce each as a whole,
finish not before that. `Contract` in MapReduce is the refinement mapping
(phase from `lpc` and `isMapFinished`).

**Scheduler** has the requests that make and add jobs, the scheduler's thread,
the life of the job threads (not made, made, running, interrupted, ended), the
thread that stops the server and the console's `getJobList`. `++m_ids` is a
read and a write; `m_runningJob` is read anew wherever the code reads it anew.
`Thread.join` throws only where it has to wait: `WaitMapper` and `WaitListener`
begin to wait, which an interrupted thread does not do while the joined one is
alive (`EndScheduler`), and `JoinMapper` and `JoinListener` return once it has
ended, interrupted or not. So a scheduler that is interrupted after `stopJob` has
seen both threads end records their job, marks it FINISHED, clears it and ends by
the test of its loop; one that still waits may throw and keep its job in hand.

**JobQueue** says what the scheduler promises, without requests, statuses or the
steps of `runJob`: a new job waits, has its turn when no other has, is the only one
whose threads are alive, and is over when they have ended. `Turns` in Scheduler is
the refinement mapping: what waits is `queue`, the job whose turn it is is `hand`,
from `take` to the recording in `m_jobListDone`.

**Registry** has the accept thread with the first byte and the policy answer,
the client list with its size as a field of its own (read, then written, by
`put` and `remove`), the readers and `stopServer`. `list` is a function from the
ids in use to workers; ids collide as in the code. `stopServer` copies the list
by an iterator without a lock, between `BeginCopy` and `EndCopy`: if a reader
removes a client meanwhile (`disturbed`) the iterator may throw, and `stopServer`
returns with nobody closed (`FailCopy`), or it may not see the change, and the
copy lacks any of them. `crossDomain` says whether
the policy file has been read: the accept thread runs before that, and a
request for the policy then ends it.

**Server** is about the same list from the other side: what is sent to everyone
(`KaliyaLogger.log`, `sendAllMsg`) while clients come and go, and
`KaliyaServer.stopServer` as a whole. `iterator` is the client the iterator
returns next; `changed` is what makes it throw, which a thread without a lock
may see late (`NextClient` is allowed then, too). `monitor` is held from `Lock`
to `Write`, and `Write` waits for a browser that has stopped to read. The id of
a client is the size of the list when it connects (`Connect`): if that id is in use
the client takes the place of its owner, which no iterator notices, and the reader
of whoever leaves removes the one who is listed under the id. `displaced` has those
who have lost their place so; their connections stay open. The copy `stopServer`
makes may fail or end early when somebody is removed meanwhile (`EndCopy`). The
size itself is right here (the race on it is in Registry), and the scheduler is
between two jobs.

**Volunteer** is one page with its flash object, the connection and the server's
end of it. An action is one callback of the page's single thread, or one turn of
the loop that reads the socket. `Embed`, `AddCallbacks`, `SwfLoaded` and `TestApi`
are the race between `JSocket.init` and the loading of the flash object;
`timers` are the calls that object puts off. `Arrive` brings the next message,
perhaps only a part of it; then `ReadTorn` reads its length and throws, and the
socket is out of step (`inStep`), after which `ReadGarbage` makes nothing of what
it reads. The reader of the server can be out of step as well, when only the
first byte of the greeting had arrived (`Register`, `ReadNoise`). A script ends
in `ScriptLoaded`, which answers the task it was asked for, or in `ScriptFails`.
`W` maps all of this to `Workers` with this one volunteer: `ImplementsWorkers`
says that its steps are `Connect`, `Answer`, `Disconnect`, `RemoveClient` and the
sending of a task there, so that MapReduce, which uses `Workers`, rests on what
the page does.

**Md5** is the md5 of the page: `md51` cuts the text into blocks and pads it
(`NextBlock`, `TailBlock`, `LengthBlock`), `md5cycle` mixes each block in line by
line (`MixLine`; the 64 lines are the table `Lines`). A word is the set of its
bits that are 1, so that the bit operations of JavaScript are those of sets.
`AddWhole` and `AddHalves` are the two functions `add32` of which a browser may
choose either.

**Indexer** has `map`, `normalizeText` and `reduce` of the reverse indexer and
`addValues` of the server. Each call is a step, in whatever order answers come;
names are sequences because duplicates and their order are what could matter. The
loops are folds whose bodies have a name: `NextCharacter`, `SplitAt`, `AddValue`.

**WordSearch** has the prefix iterator of the server and the word iterator of
the browsers. The carry is written in closed form: the last letter that is not
LAST is raised, those behind it start again. `Increment` is the same from the
other end, as in the script.

**SharedSearch** says what the search promises without either iterator: prefixes are
handed out in order, each to one browser, which tries each word of its chunk once, in
some order, and returns when all are tried or one matches. `Shared` in WordSearch is
the refinement mapping; it takes the prefixes handed out from the server's `charlist`
(`Handed`) and forgets at which word a browser is. The words and their order are in
**WordOrder**, which both use.

**Logger** has `logAdmin` in three steps, `add`, `size` and `remove`, for any
number of threads.

**Scripts** puts the three side by side as a page has them: one of them is loaded
and runs to its end. It has no state of its own but which script that is.

The modules whose names end in *Proofs*, and **QueueLemmas**, hold the theorems.
The MC modules only give values to constants, except **MCScripts**, which also has
known digests to compare md5 with (`DigestIsKnown`). Operators marked *Mutant* next to a definition are its faulty
variants, each of which must break the property it is meant for.

## 3. What is checked

| run | instance | shows |
|---|---|---|
| `indexers` | a search and two jobs with reducing, 2 workers, both may be lost, 2 keys | types, `NoLostWakeup`, `ListenerOutlivesMapper`, `WholeGroups`, `GroupByFrozen`; without a double release also `WorkerExclusive`, `FinishedJobIsComplete`; without either, `JobsFinishUnlessWorkerLost`: all jobs end |
| `searches` | endless search, stop at first map with reducing, map-only, 2 workers that may be lost | `ResultsSound`, `SearchEndsWithResult`, `NoWorkerForgotten`, `NobodyWaitsForever`, and that the threads keep `JobContract` |
| `scheduler` | 2 jobs, a stop, a listing | `JobsInOrder`, `ListingMissesAtMostOne`, `StopReturns`, and that the scheduler implements `JobQueue` (`RunsInTurn`) |
| `registry` | 2 volunteers, one may be reset, a policy request that may be early or reset, a stop | `RemovedIsNotListed`, `ListedUntilOneLeaves`, `StopClosesListed`, `NoConnectionHoldsAccept` |
| `volunteer` | a page, 4 tasks (one too long, one whose script may fail and whose answer is too long), a log line, torn messages, the end of the connection from either side | `OneSocket`, `Joins`, `AnsweredUnlessLost`, `ImplementsWorkers` |
| `scripts` | md5 of 15 texts; the index of two files over all short texts and three pairs of names; 2 browsers, 3 letters, chunks of 2, prefixes of up to 2, 5 words sought | `Types`, `Padded`, `DigestIsKnown`, `GroupsAreOfTheTexts`, `IndexIsExact`, `NoWordLeftOut`, `SecretIsFound`, and that the search implements `SharedSearch` (`SharesTheWords`) |
| `logger` | 3 threads, 9 messages, 3 places | `AtMostMax`, `FewAreLost` |
| `server` | 3 clients, the second of which may stop to read, a message, a stop | `SentOnce`, `UndisturbedReachesAll`, `StopFindsNoneOpen`, `ServerStops` |
| `double_release` | two indexers, 2 workers that stay | **violated**: `FinishedJobHasAllResults` |
| `lost_worker` | search, indexer, map-only, one of 2 workers may be lost | **violated**: `AllJobsFinish` |
| `reset` | 2 volunteers, one may be reset | **violated**: `AcceptComesBack` |
| `torn` | a page, 2 tasks, messages that arrive in parts | **violated**: `TaskAnswered` |

### What the violated runs say

* **Double release** (`MapReducerInstructionEvaluator.java:58`). After
  `addFinishedMapper` has released the worker, `eval` reads its status. If the
  mapper took the worker in between, it is WORKING again and `release` removes
  the entry of the *new* task and offers the worker once more. The listener no
  longer waits for that task, and the job is marked finished with results
  missing. No failure is needed. `doubleRelease` is a history variable that
  becomes true here; `FinishedJobIsComplete` and `WorkerExclusive` hold as long
  as it is false, that is: this is the only way to lose results or to share a
  worker, in the instances and, as is proved, in general. The next job can be worse off: when its own first
  task goes to the shared worker and is released before it is answered, the
  mapping ends with no group, the loop that sets `m_allReduceSent`
  (`MapReducer.java:90`) is not entered, and the job never ends.
* **Lost worker** (`WorkerServer.java:66`). A task that goes with its worker
  stays in `m_currentTasks` and is handed to nobody else; the job and those
  behind it never end.
* **Reset** (`WorkerServer.java:44`). The `try` around accept and `Handler`
  catches the exception of one connection and ends the loop for all.
* **Torn** (`JSocket.as:98`). `readUTF` is called as long as there is any byte: it
  takes the length of a message that is not there yet and throws, and the page
  takes what comes next for a length.

### What else the code does against its comments

No run has these as a property; both are reachable in `scheduler`.

* `++m_ids` (`JobIdGenerator.java:23`) of two requests may count once; both jobs then
  have one id, although `getNextId` promises "A unique id to identify a new job".
  `UniqueIdsUnlessLost`, which is proved, says that there is no other way to it.
* `stopJob` waits for the threads it has interrupted before the scheduler is
  interrupted, so the joins of `runJob` may return, and the job is recorded and marked
  FINISHED (`JobScheduler.java:61`), whatever results it has. `JobStatus` has a "Stop
  state" next to the "Finished state" (`Job.java:32`, `:40`); it is set nowhere.

### What the conditions in the properties say

Several properties hold but for a case they name; the case is reachable in the
run, and it is what the code does not handle.

* `JobsFinishUnlessWorkerLost`: a volunteer who leaves may take a task along. The
  property would be false with "a task was lost" in place of "a volunteer has
  left": when a search is over its mapper may still wait for an idle worker
  (`MapReducer.java:57`); if the idle one leaves, the answer of the other is read
  by nobody, as the listener has ended, and nobody becomes idle any more.
* `NobodyWaitsForever`: besides a double release and a volunteer who left, it
  excepts a job without a pair to map or a group to reduce (`NothingToSend`): the
  flags are set at the last task of a loop (`MapReducer.java:69`, `:98`), and a loop
  that sends nothing sets none, so that the listener waits for ever.
* `ListingMissesAtMostOne`: a job between the queue and the list of the finished
  is in neither when the console reads both, although the comment of `getJobList`
  speaks of all the jobs. The list may also have a null in it, from the second read
  of `m_runningJob` (`ListAdd`), which the property does not forbid.
* `StopReturns`: it does not begin at `stop = "mapper"`. An interrupt of a thread
  that is made but not started is lost, and a second read of `m_runningJob` may
  be null; then the stop waits or fails.
* `ListedUntilOneLeaves`: after somebody has left, the size of the list is an id
  in use, and the next client takes the place of its owner (`Worker.java:44`).
* `StopClosesListed`, `StopFindsNoneOpen`: they hold unless a removal met the copy
  of the list (`disturbed`). The iterator of the copy may then throw, the exception
  is caught at `Server.java:155`, and nobody is closed. `StopFindsNoneOpen` also
  excepts those who have lost their place in the list to another (`displaced`).
* `NoConnectionHoldsAccept`: the accept thread may end. A request for the policy
  that comes before `KaliyaServerListener.scala:34` meets a null
  (`Handler.java:58`), and nobody catches the exception.
* `AnsweredUnlessLost`: a script that fails, a message of more than 65535 bytes
  (`Client.java:97`, `JSocket.as:69`) and a stream out of step lose the task, and
  the server is told nothing.
* `IndexIsExact`: a file named `__proto__` is not a property of the object in which
  `reduce` collects the names.
* `UndisturbedReachesAll`: a change of the list ends the loop of `sendAllMsg`. A
  client that takes the place of another under its id is no such change, and the
  property says nothing of the two.
* `ServerStops`: those whom the copy does not have, and their readers, stay as they
  are; the stop returns all the same, but for one case: the scheduler keeps the
  monitor of a client while it writes to a browser that does not read any more, and
  `closeConnection`, which would end the write, waits for that monitor
  (`Client.java:94`).

### Bounds

Two workers are the least with which one can be idle, lost or late while the
other works; two keys make groups that are reduced one before the other; two
jobs, or three, let answers of one job meet the listener of the next. Two
emitting pairs let one pair be merged while the other is under way. Endless
iterators are followed for `Len(emit)` pairs: a search whose first pair finds
nothing and whose second does has both ends of `isFinishedOnFirstMap`. Two
requests are enough for every pair of steps in the scheduler, since its own
thread, the stop and the listing are single. Three connections let one leave and
the next take the id of another; one of them asks for the policy before or after
the file has been read. Four tasks of a page are one of each kind that the code
treats differently and two that may overtake each other. The texts of md5 have
tails of 0, 1, 55, 56 and 63 bytes after none, one and two whole blocks. Texts of
up to three characters that are a capital, a small letter or a dot, and one with
two dots, have every way to begin, to end and to separate words. Three letters
have a first, a middle and a last one, and prefixes and chunks of two letters a
carry inside and one into a new letter. Three threads at a list of three places
let two of them look before either removes; nine messages go round it twice. Of
three clients of Server one has left, whose place in the count is what gives the
third the id of the second; clients are numbered in the order they connect, which
loses nothing, as only `Slow` tells them apart: the second is the one who may stop
to read while it is written to, displaced or closed. One message is sent while all
this goes on; nothing is carried from one message to the next but the list.
Deadlock is not checked: all of these systems may come to rest (all jobs done,
server stopped, nobody connected, the bounds reached).

Symmetry over the workers, and over the threads of Logger, is used in runs
without liveness only.

### Fairness

* MapReduce: weak fairness of the scheduler, the mapper and the listener (Java
  threads that are runnable run), and, as an assumption about the outside, that
  volunteers connect, answer what they were sent and are noticed when they
  leave. That they answer is what torn messages and messages that are too long
  contradict (Volunteer: `AnsweredUnlessLost`); the end of all jobs is claimed for
  volunteers who meet neither. Liveness also needs `PoolSize` to be no smaller than the number of
  workers: with fewer threads a worker without one is sent tasks whose answers
  nobody reads.
* Scheduler: weak fairness of the scheduler and of the stop. A job may go on for
  ever; only an interrupted thread is sure to end.
* Registry: weak fairness of the accept thread and of the reading of the policy
  file, and the assumption that a browser that is connected writes its first
  byte or closes; one that stays silent does hold the accept thread.
* Volunteer: the flash object is loaded and connects, its timers are called, what
  was sent arrives (perhaps in parts), a request for a script ends one way or the
  other, and the reader of the server runs. Nothing is assumed of the faults.
* Server: the scheduler, the stop and each reader run. No browser need read on
  once it has stopped.
* WordSearch: some browser goes on, if any can. That is all the search needs,
  since no browser is lost here (the loss of a task is `lost_worker`).

## 4. What is proved

The theorems of `MapReduceProofs` hold for every list of jobs, any number of
workers, lost or not, any `PoolSize` and any set of keys, from
`WorkersAssumption` and `MapReduceAssumption` alone (the second says that the
jobs are jobs and `None` is no worker).

| theorem | property |
|---|---|
| `TypeCorrect` | `TypeOK` |
| `WakeupIsNotLost` | `NoLostWakeup` |
| `ListenerStays` | `ListenerOutlivesMapper` |
| `ResultsAreSound` | `ResultsSound` |
| `GroupsAreWhole` | `WholeGroups` |
| `SearchesFind` | `SearchEndsWithResult` |
| `GroupsStayFrozen` | `GroupByFrozen` |
| `ContractIsKept` | `KeepsContract`: MapReduce implements JobContract |
| `WorkersAreExclusive` | `WorkerExclusive` |
| `NoWorkerIsForgotten` | `NoWorkerForgotten` |
| `FinishedJobsAreComplete` | `FinishedJobIsComplete` |
| `NobodyWaits` | `NobodyWaitsForever` |

All but the last four rest on `Invariance`, `Spec => []IInv`. None of the properties is inductive
alone. That a wakeup is not lost needs to know how the flag
`listenerFinishedMap` relates to `isMapFinished` and to the waiting mapper
(`Handshake`). That only frozen groups are reduced needs that a REDUCE task of
the running job carries its whole group wherever it is, in a browser or in the
buffer (`TasksKnown`), which holds because it is made after freezing
(`KeysGrouped`) and because answers of other jobs carry another id. That results
are sound needs the same of MAP tasks and that no pair beyond `next` is under
way (`PairsTaken`, `GroupsSound`, `ResultsExact`). That a search ends with a
result needs the flags of the mapper (`Sending`, `SearchHasResult`). Each
conjunct has a lemma of its own with one step per thread. These proofs hold with the
double release in the model: none of these properties depends on it.

The last four rest on a second invariant, `WInv`, which is inductive next to
the first (`WorkersInvariance`). `Exclusion` says that, as long as nobody was
released twice, a worker is in one place: once in the queue of idle workers, in
the hands of the mapper or of the listener, at work on one task, or behind one
answer in the buffer (`OnePlace`). `IdleIsListed` and `Remembered` say the
opposite, that it is in some place, and hold after a double release too: what
`eval` finds IDLE is in the queue, so that it may leave it there. `Accounted`
says in whose hands the work of a job is: each pair that was taken is merged,
about to be sent, or with a worker of `currentTasks`, and so is each group once
reducing has begun. A worker that is lost with its task stays in `currentTasks`
for the rest of the job (`OnDuty`): that is why such a job never ends, and also
why none ends without the results of a lost task. The listener ends the job when
`currentTasks` is empty, and then nothing is left but what is merged. So the
double release is, for every list of jobs and any number of workers, the only
way for a job that does not stop at a first result to finish without all of
them. `QueueLemmas` has what joining a queue, leaving it at its head and
`RemoveFirst` do to it.

`NobodyWaits` needs a third one, `WaitInv`, besides (`WaitInvariance`); it says that
mapper, listener and volunteers never wait for each other all at once. The mapper
sets a flag when it has sent the last task of a loop (`SentBehindLoop`), so it waits
at `LOCKMAP.wait` only for a listener that has something to wait for: one that
takes the next answer found, when it checked, a task that is not answered or the
flag not set (`HasChecked`), and has not met a first result that ends the mapping
(`FirstResultSeen`). With `Remembered`, who is in `currentTasks` is a volunteer who
has the task or whose answer is in the buffer. What is left is a search whose
listener has ended while its mapper still takes a worker: the result came with one
that was released, and the mapper takes at most one more before it reads
`isMapFinished` (`SearchEnds`, `WorkerIsLeft`). This is the part of
`JobsFinishUnlessWorkerLost` that is not about fairness, for every list of jobs and
any number of volunteers; that each of the steps that can be taken is taken, and
that they are finitely many, stays with TLC.

The theorems of `SchedulerProofs` hold for every set of jobs, finite or not, from
`SchedulerAssumption` (`None` is no job and no id).

| theorem | property |
|---|---|
| `TypeCorrect` | `TypeOK` (in no run) |
| `OrderIsKept` | `JobsInOrder` |
| `FinishedJobsAreOver` | `FinishedIsOver` (in no run): what the console shows as FINISHED has no thread alive and `m_results` set; not that it is complete when the server is stopped |
| `JobsTakeTurns` | `OneJobAtATime` (in no run; `RunsInTurn` says more) |
| `TurnsAreKept` | `RunsInTurn`: Scheduler implements JobQueue |
| `JobsAreNotRestarted` | `NotStartedAgain` (in no run): a thread that was interrupted or has ended is not started again |
| `StopOfJobReturns` | `StopReturns`, for the stop of one job (see *Liveness*) |
| `ListingsMissAtMostOne` | `ListingMissesAtMostOne` |
| `IdsAreUniqueUnlessLost` | `UniqueIdsUnlessLost` (in no run) |

Their `IInv` says where the job in hand is held at each step of `run`
(`HandOver`), how far its threads are (`ThreadsOfTheJob`) and that no other job has
one alive (`AliveIsRunning`): without these a FINISHED job could be given new
threads, and a job could be recorded with a thread still alive. For the list of
the console it has what may still be missing at each step (`ListingSoFar`): after
the queue has been copied, what is missing is done but for one job, the one that
was in hand; `JobsInOrder` says that there is no other place for it. That ids differ
rests on `IdsSoFar` instead, inductive next to the types: `m_ids` is never above the
number of jobs made, it is below it from the first lost increment on and does not
catch up, and no id is above that number either. As long as none is lost a request
that is about to write has either read the very number of jobs made, and then gives
an id above all others, or its write is the one that loses an increment.

That Scheduler implements JobQueue rests on `RunOnce` and `TurnInv` besides `IInv`.
A job that is added must be nowhere yet: it has no threads before its turn and is in
the queue once (`RunOnce`), while a job that is done has threads that have ended, and
nobody starts them again (`TurnInv`). `take` begins a turn because nothing is in hand
then (`HandOver`); `AliveInHand` says that every thread alive is one of the job in
hand, so that each other step starts or ends such a thread or changes nothing of
JobQueue; and at the recording none is alive. A stop does not break the order in
either of its ways. A join that waits throws, the scheduler ends with its job in
hand for ever, alive or not, and no other has a turn. A join that finds its thread
ended returns in spite of the interrupt; the job is recorded when both have ended,
like any other, and the test of the loop keeps the next one from being taken.

The theorems of `VolunteerProofs` hold for every set of tasks and lines and any
choice of the faults, from `VolunteerAssumption`.

| theorem | property |
|---|---|
| `TypeCorrect` | `TypeOK` (in no run) |
| `OneSocketOnly` | `OneSocket` |
| `VolunteerJoins` | `Joins` (see *Liveness*) |
| `VolunteerIsWorker` | `ImplementsWorkers` |

Their `IInv` has, besides the types: how far the race of `init` and the flash
object has come and that it started one socket (`StartOnce`), that the greeting
comes before any answer on its way from the timers to the reader
(`GreetingFirst`), that a task is in one place at a time on its way to the page,
in the page and back (`NoCopies`), and that these places are disjoint and within
what was sent (`Apart`). `ImplementsWorkers` needs the last two: without them an
answer could be a second one, or one to a task that was not sent.

The theorems of `ScriptsProofs` about md5 hold for texts of every length, from
`TextsAssumption`; those about the search for every alphabet, length of the chunks,
bound on the prefixes and set of browsers, from `SearchAssumption` (the constants
are numbers, `None` is no prefix, and what is sought can be found); those about the
index for any files, names and texts, from `IndexAssumption` (the files are finite in
number, and none of the two characters listed in section 5 is in a text).

| theorem | property |
|---|---|
| `TypeCorrect` | words stay words of 32 bits |
| `BlocksArePadded` | `Padded` |
| `EitherAdd32` | `AddHalves` and `AddWhole` agree, for halves of any even number of values |
| `ScriptTypes` | `Types` |
| `SearchIsComplete` | `NoWordLeftOut` |
| `SearchIsWithoutRepeats` | `NoWordTwice` (in no run; `SharesTheWords` says more) |
| `WordsAreShared` | `SharesTheWords`: WordSearch implements SharedSearch |
| `SecretStaysAhead` | `SecretIsNotPassed` (in no run): the prefixes do not go past the word with nobody left who tries it |
| `GroupsAreExact` | `GroupsAreOfTheTexts` |
| `IndexIsCorrect` | `IndexIsExact` |

For md5 `IInv` says which blocks of the padded text have been fed at each step of
`md51` (`FedBlocks`) and where in the text that is (`Progress`); 64 divides the
offset, and whether the tail is above 55 decides if a block follows.

The search rests on what one carry does: with `UpTo(c)` the words that come before
`c`, or `c` itself, `Incr` adds its result to `UpTo` (`IncrIsNext`) and nothing more
(`IncrIsNew`), and it neither ends early (`AllBeforeLast`, for `hasNext`) nor begins late
(`NoneBeforeFirst`, for the list that begins one below `FIRST`). `SearchInv` is the
invariant: the prefixes at work are different ones of those the server has handed
out (`Chunks`), a browser is at a place of its own chunk (`Places`), of its prefix it
has tried the words up to that place and no other (`TriedSoFar`), and what is handed
out is tried or at work (`AllTried`, which is `NoWordLeftOut` for words of every
length). That no word comes twice needs `Chunks` and `TriedSoFar` together: a word
belongs to one prefix (`PrefixAndRest`), and this prefix to one browser. TLC has
checked `SearchInv` on a small instance first.

The same invariant gives the refinement of SharedSearch. The server's `next` is
`HandOut` because what `Incr` adds to `Handed` is one prefix, the next in the order;
a turn of the loop in the browser is `Try` because the browser's place is a word of
its chunk (`Places`) that is beyond those it has tried, and no other browser has that
chunk (`Chunks`); it is `Return` because `hasNext` says no at the last word only, and
then all words of the chunk are tried (`TriedSoFar`). All other steps of the page
leave SharedSearch as it is.

The index rests on what three loops do to a text or to a list of any length. The
prover has no induction over data, so it is made from the least element of a set of
numbers (`OneByOne`), and what is to be shown is a set of sequences instead of a
predicate; `FoldExists` and `LoopNext` show that a fold is what a loop makes of its
sequence, one element after the other. What `map` returns is compared with `WordsOf`,
which says what a word is without `normalizeText` and `split`. The two are tied by
`Matches`: the words with letters are, in this order, a numbering of the runs of
letters, each spelled as its run. A character that is no letter leaves the runs alone
(`OtherCharacter`), a letter makes the last run longer or begins one (`NextLetter`);
the empty words are those at the ends (`EmptyWords`). So a word is in the list once
for each place at which it stands (`AsManyAsRuns`). `addValues` adds one name per
pair (`AddValuesDoes`). `IndexInv` is the invariant: what `GroupsAreOfTheTexts` says, but
of all words, since the next answer may open a group for any; nothing is reduced
before every text is read, so that the groups an entry was made from stay as they
are; and an entry is made from its group. TLC has checked it on the instance of
`scripts` first.

The theorems of `LoggerProofs` hold for every finite set of threads and every
`MAX_LOG` no smaller than their number less one; as shipped the pool has 10
threads and the log 100 places.

| theorem | property |
|---|---|
| `TypeCorrect` | `TypeOK` (in no run) |
| `HoldsTheNewest` | `NewestMessages` (in no run): the list holds the newest messages, in order |
| `Bounded` | `AtMostMax` |
| `LosesFew` | `FewAreLost` |

`FewAreLost` is not inductive: a thread about to look may find the list above its
bound because of others that are about to remove. `Kept` counts those.

The theorems of `RegistryProofs` hold for any number of connections, policy
requests and resets, from `RegistryAssumption`.

| theorem | property |
|---|---|
| `TypeCorrect` | `TypeOK` (in no run) |
| `NoRemovedListed` | `RemovedIsNotListed` |
| `CompleteUntilOneLeaves` | `ListedUntilOneLeaves` |
| `StopLeavesNoneOpen` | `StopClosesListed` |
| `AcceptIsReleased` | `NoConnectionHoldsAccept`, for one connection (see *Liveness*) |

`ListInv` says that a worker is listed only under its own id, so that the removal
by id removes it although ids collide; `NoneLeftInv` that until somebody leaves
the size is above every id in use, in spite of its being read and written in
two steps; `StopInv` that the list does not grow any more when it is copied, that
whoever is listed while the copy is made is in it, and that this is still so
afterwards unless a removal disturbed it.

The theorems of `ServerProofs` hold for any number of clients and messages, from
`ServerAssumption`.

| theorem | property |
|---|---|
| `TypeCorrect` | `TypeOK` (in no run) |
| `MonitorIsFreed` | a monitor is held by a thread that is about to write |
| `NobodyTwice` | `SentOnce` |
| `ReachesAllUndisturbed` | `UndisturbedReachesAll` |
| `NobodyIsLeftOpen` | `StopFindsNoneOpen` |

`OrderInv` says that those who have the message, the one it is written to and
the iterator follow each other in the list wherever all of them are in it; this
survives a late look at a changed list because nobody who was removed comes back
and no id is listed twice (`ListInv`), `RemoveFirst` keeps the order (`QueueLemmas`),
and a client that takes the place of another stands where that one stood
(`EarlierInPlace`). `ReachInv` says of each client of a list of unchanged length that
has been in it since the loop began that it has the message, is not connected any
more, gets it now or is still to come.

`CopyInv` says that whoever is connected and has not lost its place is in the list,
and from the beginning of the stop, as long as no removal meets the copy, in the
part of the copy that is not closed yet: so the scheduler, which is stopped last, has
none of these left to wait for.

### Liveness

Three theorems are about what must happen in the end. Each goes through the stages of
one run through the code, with a step that leads from each to the next and a proof that
nobody else's step leads back: `AcceptIsReleased` from accept to the reader of the
connection, `StopOfJobReturns` from the interrupt of a job's mapper through both joins
to the end of the scheduler (`SchedulerEnds`), `VolunteerJoins` from the page through
the race of the flash object and `JSocket.init`, the timer, the connection and the
greeting to the reader. They rest on invariants of their own (`HeldInv`, `RunOnce` and
`ListenerFirst`, `JoinInv`): that the interrupt of a listener is not lost, for example,
is true because `runJob` starts it before the mapper, and because no job is run twice.

What weak fairness gives depends on when a step is ENABLED, and this the provers do
not expand. So each of the three has the hypothesis that a step whose guards are met
is enabled (`CanGoOn`, `CanStop`, `CanJoin`), always, next to the fairness that the
run of the property assumes as well. TLC has found each of them to be an invariant of
the instance of that run (to repeat this, name it as an INVARIANT of an MC module that
extends the module of the proofs). Fairness over all connections or jobs cannot be taken apart by the temporal
prover, so that the first two are theorems about each connection and each job, with the
fairness of its own steps. A stop that finds no running job is the last part of
`StopOfJobReturns`, from the interrupt of the scheduler on.

### Only model-checked

* `DigestIsKnown`: the digests of md5 are a computation and not an argument.
* Liveness whose argument has a loop (each round of it makes something smaller):
  `JobsFinishUnlessWorkerLost`, `SecretIsFound`, `ServerStops`, `AnsweredUnlessLost`.
  The provers have neither induction for that nor a rule for it. Of the first the
  part that is about safety is `NobodyWaits`, of the second `SecretStaysAhead`, of the
  third `NobodyIsLeftOpen`.
* `NoConnectionHoldsAccept` and `StopReturns` as they are checked, with one formula for
  all connections and jobs, and the three hypotheses about ENABLED.

All other properties of the passing runs are theorems.

## 5. What the models leave out

* The encoding of messages and their parsing; an answer that cannot be parsed is
  not modelled, since the shipped scripts send none.
* A list of values is, in MapReduce, the set of pairs it comes from: two equal
  emissions of one pair count once, and the order of values is left out. Both are
  in Indexer.
* `m_status`, `m_runningJob` and other fields are shared without being volatile; a
  read is taken to see the last write. Only the iterators over the client list may
  look late (`NextClient`, `EndCopy`).
* A spurious wakeup at `LOCKMAP.wait`, which is not in a loop.
* MapReduce takes the ids of jobs to be different (their position in the
  list); that the code can give one twice is in Scheduler.
* In MapReduce `release` is one step. Its two calls can be told apart only after a
  double release, whose effects then include more than is modelled.
* The damage a race can do to the links of the `LinkedHashMap`. What an iterator
  over it may do besides throwing is that of a list from which entries are taken,
  for `stopServer` also that it ends early.
* Races of the size of the list in Server: there it is what the list has. In both
  models of the stop every reader has a thread of the pool, and `shutdownNow`
  (`Server.java:153`), which a failed copy skips, is left out: readers that block in
  a socket do not notice an interrupt, and there are none that wait for a thread.
* The page of the console that iterates over `getMessages`. It holds no lock on the
  list of `KaliyaLogger`, and what the iterator of a `LinkedList` then shows (an
  exception, a list that lacks items, the emptied item of a node that `remove(0)` has
  just unlinked) depends on the library and on what a thread sees of another's
  writes; nothing is claimed of it.
* `getJobMap`: it reads in the order of `getJobList` and returns a map by id.
* A write to a socket blocks in Server only, where its monitors are; in MapReduce
  it does not. A message that is too long is in Volunteer only: to MapReduce it
  is a task that is lost.
* Characters above 255 in md5, of which the code itself says that they do not
  work. Letters outside a–z are separators in the indexer; but for two of them
  `toLowerCase` gives one of a–z (U+0130 and U+212A), and these are left out.
* `write`, `flush` and `close` of `jSocket.js`, which nobody calls; security errors
  and the refusal of a connection by the flash player.

### Not modelled

* `Information` reads an XML file at the start and has no further behaviour.
* `ClientKeepAlive` is never started: its only use is commented out.
* The pages and controllers only print; what they read and start is in Scheduler,
  but for the messages of the console (section 5, above).
* `jquery.js`, `json2.min.js`, `toolbox.flashembed.min.js` and the build files are
  third-party code and descriptions.

## 6. What could come next

The core of the program is modelled. What is left is refinement of detail:

1. Writes that block in MapReduce, with the monitors of both threads.
2. What `NobodyWaitsForever` says of a job, said of the stop and of the accept thread:
   that they never wait with nobody to go on.
3. The liveness whose argument has a loop, once a prover with ENABLED and induction
   over data can take it up.
