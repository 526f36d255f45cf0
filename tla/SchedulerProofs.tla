-------------------------- MODULE SchedulerProofs --------------------------
(***************************************************************************)
(* Theorems about Scheduler for every set of jobs.                         *)
(*                                                                         *)
(* IInv is inductive: it says where the job that the scheduler works on is *)
(* held (HandOver), what its threads are doing at each step of runJob      *)
(* (ThreadsOfTheJob), that no other job has a thread alive (AliveIsRunning)*)
(* and what the list that getJobList makes may still miss (ListingSoFar).  *)
(* There is one lemma for each conjunct, with one step for each group of   *)
(* actions.  IdsSoFar, inductive next to the types, is the argument about  *)
(* the ids.                                                                *)
(*                                                                         *)
(* RunOnce and ListenerFirst, inductive next to IInv, say that a job has   *)
(* no threads before its turn and that its listener is started first; on   *)
(* them rest the theorems that no thread is started again, that the        *)
(* scheduler implements JobQueue (with TurnInv: what is done stays over)   *)
(* and that the stop of a job returns.  The last one is about fairness:    *)
(* its hypothesis CanStop says that a step whose guards are met is ENABLED.*)
(***************************************************************************)
EXTENDS Scheduler, SequenceTheorems, FiniteSetTheorems, TLAPS

-----------------------------------------------------------------------------
(* The inductive invariant.                                                *)

MapperJoin   == {"joinMapper", "waitMapper"}
ListenerJoin == {"joinListener", "waitListener"}

Working == {"mapper", "listener", "startListener", "startMapper", "record"}
             \cup MapperJoin \cup ListenerJoin

USE DEF MapperJoin, ListenerJoin

(* The variable of run and m_runningJob, step by step                      *)
HandOver ==
  /\ spc \in {"take", "assign"} => running = None
  /\ spc \in {"take", "finish", "clear"} => hand = None
  /\ spc = "assign" => hand \in Jobs
  /\ spc \in Working => running = hand
  /\ spc \in Working \cup {"finish", "clear"} => running \in Jobs
  /\ spc \in Working \cup {"finish"} => status[running] = "RUNNING"

Over(j) == mapper[j] = "ended" /\ listener[j] = "ended"

(* The threads of the running job: each is made, started and waited for    *)
ThreadsOfTheJob ==
  /\ spc \in {"startMapper"} \cup MapperJoin \cup ListenerJoin =>
       listener[running] \notin {"none", "new"}
  /\ spc \in MapperJoin => mapper[running] \notin {"none", "new"}
  /\ spc \in ListenerJoin => mapper[running] = "ended"
  /\ spc \in {"record", "finish"} => Over(running) /\ running \in results

AliveIsRunning ==
  \A j \in Jobs :
    Alive(mapper[j]) \/ Alive(listener[j]) =>
      j = running /\ spc \in {"startMapper", "ended"} \cup MapperJoin \cup ListenerJoin

(* What getJobList owes: the jobs that have been added; once it has copied *)
(* the queue, those that are done, and at most one that was on its way     *)
ListingSoFar ==
  /\ listing \in {"add", "queue"} => asked \subseteq ToSet(added)
  /\ listing = "done" =>
       \E h \in Jobs \cup {None} :
         asked \subseteq ToSet(listed) \cup ToSet(done) \cup {h}
  /\ listing = "returned" =>
       \E h \in Jobs \cup {None} : asked \subseteq ToSet(listed) \cup {h}

IInv == /\ TypeOK /\ JobsInOrder /\ HandOver /\ ThreadsOfTheJob
        /\ AliveIsRunning /\ FinishedIsOver /\ ListingSoFar

-----------------------------------------------------------------------------
(* Sequences of jobs.                                                      *)

LEMMA ToSetType ==
  ASSUME NEW S, NEW s \in Seq(S)
  PROVE  ToSet(s) \subseteq S
  BY LenProperties, ElementOfSeq DEF ToSet

(* The elements of the empty sequence and of one of length one.            *)
LEMMA ToSetSmall ==
  ASSUME NEW e
  PROVE  ToSet(<< >>) = {} /\ ToSet(<<e>>) = {e}
  BY DEF ToSet

(* A concatenation has the elements of both sequences.                     *)
LEMMA ToSetConcat ==
  ASSUME NEW S, NEW s \in Seq(S), NEW t \in Seq(S)
  PROVE  ToSet(s \o t) = ToSet(s) \cup ToSet(t)
<1>1. /\ Len(s) \in Nat /\ DOMAIN s = 1..Len(s)
      /\ Len(t) \in Nat /\ DOMAIN t = 1..Len(t)
  BY LenProperties
<1>2. /\ DOMAIN (s \o t) = 1..Len(s) + Len(t)
      /\ \A i \in 1..Len(s) + Len(t) :
           (s \o t)[i] = IF i <= Len(s) THEN s[i] ELSE t[i - Len(s)]
  BY ConcatProperties, LenProperties
<1>3. \A i \in 1..Len(s) : i \in DOMAIN (s \o t) /\ (s \o t)[i] = s[i]
  BY <1>1, <1>2
<1>4. \A i \in 1..Len(t) : /\ Len(s) + i \in DOMAIN (s \o t)
                           /\ (s \o t)[Len(s) + i] = t[i]
  BY <1>1, <1>2
<1>5. \A i \in DOMAIN (s \o t) :
        \/ i \in 1..Len(s) /\ (s \o t)[i] = s[i]
        \/ i - Len(s) \in 1..Len(t) /\ (s \o t)[i] = t[i - Len(s)]
  BY <1>1, <1>2
<1>6. ASSUME NEW x \in ToSet(s)
      PROVE  x \in ToSet(s \o t)
  <2>1. PICK i \in 1..Len(s) : s[i] = x
    BY <1>1 DEF ToSet
  <2> QED BY <2>1, <1>3 DEF ToSet
<1>7. ASSUME NEW x \in ToSet(t)
      PROVE  x \in ToSet(s \o t)
  <2>1. PICK i \in 1..Len(t) : t[i] = x
    BY <1>1 DEF ToSet
  <2> QED BY <2>1, <1>4 DEF ToSet
<1>8. ASSUME NEW x \in ToSet(s \o t)
      PROVE  x \in ToSet(s) \cup ToSet(t)
  <2>1. PICK i \in DOMAIN (s \o t) : (s \o t)[i] = x
    BY DEF ToSet
  <2> QED BY <2>1, <1>1, <1>5 DEF ToSet
<1> QED BY <1>6, <1>7, <1>8

(* A queue is its head followed by its tail.                               *)
LEMMA HeadAndTail ==
  ASSUME NEW S, NEW s \in Seq(S), s # << >>
  PROVE  /\ Head(s) \in S /\ Tail(s) \in Seq(S)
         /\ <<Head(s)>> \in Seq(S)
         /\ s = <<Head(s)>> \o Tail(s)
<1>1. /\ Head(s) \in S /\ Tail(s) \in Seq(S) /\ Len(Tail(s)) = Len(s) - 1
      /\ \A i \in 1..Len(Tail(s)) : Tail(s)[i] = s[i+1]
  BY HeadTailProperties
<1>2. /\ <<Head(s)>> \in Seq(S) /\ Len(<<Head(s)>>) = 1 /\ <<Head(s)>>[1] = Head(s)
  BY <1>1
<1>3. Head(s) = s[1] /\ Len(s) \in Nat \ {0}
  BY EmptySeq
<1> DEFINE u == <<Head(s)>>
           v == Tail(s)
<1>4. /\ u \o v \in Seq(S) /\ Len(u \o v) = Len(s)
      /\ \A i \in 1..Len(s) : (u \o v)[i] = s[i]
  <2> HIDE DEF u, v
  <2>1. u \in Seq(S) /\ v \in Seq(S)
    BY <1>1, <1>2 DEF u, v
  <2>2. /\ Len(u) = 1 /\ u[1] = s[1]
        /\ Len(v) = Len(s) - 1 /\ \A i \in 1..Len(s) - 1 : v[i] = s[i+1]
    BY <1>1, <1>2, <1>3 DEF u, v
  <2>3. /\ u \o v \in Seq(S) /\ Len(u \o v) = Len(u) + Len(v)
        /\ \A i \in 1..Len(u) + Len(v) :
             (u \o v)[i] = IF i <= Len(u) THEN u[i] ELSE v[i - Len(u)]
    BY <2>1, ConcatProperties
  <2> QED BY <1>3, <2>2, <2>3
<1>5. s = u \o v
  BY <1>4, SeqEqual
<1> QED BY <1>1, <1>2, <1>5

(* A sequence over a set is one over any larger set.                       *)
LEMMA SeqOfMore ==
  ASSUME NEW S, NEW T, S \subseteq T, NEW s \in Seq(S)
  PROVE  s \in Seq(T)
<1>1. Len(s) \in Nat /\ s \in [1..Len(s) -> S]
  BY LenProperties
<1>2. s \in [1..Len(s) -> T]
  BY <1>1
<1> QED BY <1>1, <1>2

-----------------------------------------------------------------------------
(* Types.                                                                  *)

LEMMA InitType == Init => TypeOK
<1> SUFFICES ASSUME Init PROVE TypeOK
  OBVIOUS
<1>1. /\ queue \in Seq(Jobs) /\ done \in Seq(Jobs) /\ added \in Seq(Jobs)
      /\ listed \in Seq(Jobs \cup {None})
  BY EmptySeq DEF Init
<1>2. /\ read \in [Jobs -> Nat] /\ id \in [Jobs -> Nat \cup {None}]
      /\ request \in [Jobs -> {"read", "write", "add", "added"}]
      /\ status \in [Jobs -> {"WAITING", "RUNNING", "FINISHED"}]
      /\ mapper \in [Jobs -> ThreadStates] /\ listener \in [Jobs -> ThreadStates]
  BY DEF Init, ThreadStates
<1> QED BY <1>1, <1>2 DEF Init, TypeOK

(* What each thread leaves alone.                                          *)
LEMMA RequestFrame ==
  ASSUME NEW j \in Jobs, ReadId(j) \/ WriteId(j) \/ AddJob(j)
  PROVE  UNCHANGED <<schedulerVars, threadVars, stopVars, listVars>>
  BY DEF ReadId, WriteId, AddJob

LEMMA SchedulerFrame ==
  ASSUME SchedulerThread
  PROVE  UNCHANGED <<requestVars, added, stopVars, listVars>>
  BY DEF SchedulerThread, TakeJob, AssignJob, MakeMapper, MakeListener, StartListener,
     StartMapper, WaitMapper, JoinMapper, WaitListener, JoinListener, RecordJob,
     FinishJob, ClearJob, EndScheduler

LEMMA EndFrame ==
  ASSUME NEW j \in Jobs, EndMapper(j) \/ EndListener(j)
  PROVE  UNCHANGED <<requestVars, queue, added, schedulerVars, stopVars, listVars>>
  BY DEF EndMapper, EndListener

LEMMA StopFrame ==
  ASSUME StopScheduler \/ Stopping
  PROVE  UNCHANGED <<requestVars, queue, added, schedulerVars, listVars>>
  BY DEF StopScheduler, Stopping, StopMapper, StopListener, StopJoinsMapper,
     StopJoinsListener, InterruptScheduler, StopJoinsScheduler

LEMMA ListFrame ==
  ASSUME Listing
  PROVE  UNCHANGED <<requestVars, queue, added, schedulerVars, threadVars, stopVars>>
  BY DEF Listing, ListRunning, ListAdd, ListAll

(* The requests keep the types.                                            *)
LEMMA RequestType ==
  ASSUME TypeOK, NEW j \in Jobs, ReadId(j) \/ WriteId(j) \/ AddJob(j)
  PROVE  TypeOK'
<1>1. UNCHANGED <<schedulerVars, threadVars, stopVars, listVars>>
  BY RequestFrame
<1>2. CASE ReadId(j)
  BY <1>1, <1>2 DEF ReadId, TypeOK, schedulerVars, threadVars, stopVars, listVars
<1>3. CASE WriteId(j)
  BY <1>1, <1>3 DEF WriteId, TypeOK, schedulerVars, threadVars, stopVars, listVars
<1>4. CASE AddJob(j)
  <2>1. queue' \in Seq(Jobs) /\ added' \in Seq(Jobs)
    BY <1>4, AppendProperties DEF AddJob, TypeOK
  <2>2. request' \in [Jobs -> {"read", "write", "add", "added"}]
        /\ UNCHANGED <<ids, read, id>>
    BY <1>4 DEF AddJob, TypeOK
  <2> QED BY <1>1, <2>1, <2>2 DEF TypeOK, schedulerVars, threadVars, stopVars, listVars
<1> QED BY <1>2, <1>3, <1>4

(* The scheduler keeps the types; what it records is a job.                *)
LEMMA SchedulerType ==
  ASSUME TypeOK, HandOver, SchedulerThread
  PROVE  TypeOK'
<1>1. UNCHANGED <<requestVars, added, stopVars, listVars>>
  BY SchedulerFrame
<1>2. queue' \in Seq(Jobs) /\ hand' \in Jobs \cup {None}
  <2>1. CASE TakeJob
    BY <2>1, HeadTailProperties DEF TakeJob, TypeOK
  <2>2. CASE ~TakeJob
    BY <2>2 DEF SchedulerThread, AssignJob, MakeMapper, MakeListener,
       StartListener, StartMapper, WaitMapper, JoinMapper, WaitListener, JoinListener,
       RecordJob, FinishJob, ClearJob,
       EndScheduler, TypeOK
  <2> QED BY <2>1, <2>2
<1>3. done' \in Seq(Jobs)
  <2>1. CASE RecordJob
    <3>1. running \in Jobs
      BY <2>1 DEF RecordJob, HandOver, Working
    <3> QED BY <2>1, <3>1, AppendProperties DEF RecordJob, TypeOK
  <2>2. CASE ~RecordJob
    BY <2>2 DEF SchedulerThread, TakeJob, AssignJob, MakeMapper, MakeListener,
       StartListener, StartMapper, WaitMapper, JoinMapper, WaitListener, JoinListener,
       FinishJob, ClearJob,
       EndScheduler, TypeOK
  <2> QED BY <2>1, <2>2
<1>4. /\ running' \in Jobs \cup {None} /\ results' \subseteq Jobs
      /\ spc' \in {"take", "assign", "mapper", "listener", "startListener", "startMapper",
                   "joinMapper", "waitMapper", "joinListener", "waitListener",
                   "record", "finish", "clear", "ended"}
  BY DEF SchedulerThread, TakeJob, AssignJob, MakeMapper, MakeListener,
     StartListener, StartMapper, WaitMapper, JoinMapper, WaitListener, JoinListener,
     RecordJob, FinishJob, ClearJob,
     EndScheduler, TypeOK, HandOver, Working
<1>5. /\ status' \in [Jobs -> {"WAITING", "RUNNING", "FINISHED"}]
      /\ mapper' \in [Jobs -> ThreadStates] /\ listener' \in [Jobs -> ThreadStates]
  BY DEF SchedulerThread, TakeJob, AssignJob, MakeMapper, MakeListener,
     StartListener, StartMapper, WaitMapper, JoinMapper, WaitListener, JoinListener,
     RecordJob, FinishJob, ClearJob,
     EndScheduler, TypeOK, ThreadStates, threadVars
<1> QED BY <1>1, <1>2, <1>3, <1>4, <1>5 DEF TypeOK, requestVars, stopVars, listVars

(* The end of a job's thread keeps the types.                              *)
LEMMA EndType ==
  ASSUME TypeOK, NEW j \in Jobs, EndMapper(j) \/ EndListener(j)
  PROVE  TypeOK'
<1>1. UNCHANGED <<requestVars, queue, added, schedulerVars, stopVars, listVars>>
  BY EndFrame
<1>2. mapper' \in [Jobs -> ThreadStates] /\ listener' \in [Jobs -> ThreadStates]
  BY DEF EndMapper, EndListener, TypeOK, ThreadStates
<1> QED BY <1>1, <1>2 DEF TypeOK, requestVars, schedulerVars, stopVars, listVars

(* An interrupt does what it does to the thread of one job only.           *)
LEMMA InterruptType ==
  ASSUME NEW f \in [Jobs -> ThreadStates], NEW k
  PROVE  /\ [f EXCEPT ![k] = AfterInterrupt(@)] \in [Jobs -> ThreadStates]
         /\ \A j \in Jobs : [f EXCEPT ![k] = AfterInterrupt(@)][j] \in {f[j], AfterInterrupt(f[j])}
<1> DEFINE g == [f EXCEPT ![k] = AfterInterrupt(@)]
<1>1. g = [j \in Jobs |-> IF j = k THEN AfterInterrupt(f[j]) ELSE f[j]]
  OBVIOUS
<1>2. \A state \in ThreadStates : AfterInterrupt(state) \in ThreadStates
  BY DEF AfterInterrupt, ThreadStates
<1>3. ASSUME NEW j \in Jobs
      PROVE  (IF j = k THEN AfterInterrupt(f[j]) ELSE f[j]) \in ThreadStates
  BY <1>2
<1>4. g \in [Jobs -> ThreadStates]
  BY <1>1, <1>3
<1>5. \A j \in Jobs : g[j] \in {f[j], AfterInterrupt(f[j])}
  BY <1>1
<1> QED BY <1>4, <1>5

(* The thread that stops the server keeps the types.                       *)
LEMMA StopType ==
  ASSUME TypeOK, StopScheduler \/ Stopping
  PROVE  TypeOK'
<1>1. UNCHANGED <<requestVars, queue, added, schedulerVars, listVars>>
  BY StopFrame
<1>2. mapper' \in [Jobs -> ThreadStates] /\ listener' \in [Jobs -> ThreadStates]
  <2>1. CASE StopMapper
    <3>1. [mapper EXCEPT ![running] = AfterInterrupt(@)] \in [Jobs -> ThreadStates]
      BY InterruptType DEF TypeOK
    <3>2. \/ mapper' = mapper
          \/ mapper' = [mapper EXCEPT ![running] = AfterInterrupt(@)]
      BY <2>1 DEF StopMapper
    <3> QED BY <2>1, <3>1, <3>2 DEF StopMapper, TypeOK
  <2>2. CASE StopListener
    <3>1. [listener EXCEPT ![target] = AfterInterrupt(@)] \in [Jobs -> ThreadStates]
      BY InterruptType DEF TypeOK
    <3>2. \/ listener' = listener
          \/ listener' = [listener EXCEPT ![target] = AfterInterrupt(@)]
      BY <2>2 DEF StopListener
    <3> QED BY <2>2, <3>1, <3>2 DEF StopListener, TypeOK
  <2>3. CASE ~StopMapper /\ ~StopListener
    BY <2>3 DEF StopScheduler, Stopping, StopJoinsMapper, StopJoinsListener,
       InterruptScheduler, StopJoinsScheduler, threadVars, TypeOK
  <2> QED BY <2>1, <2>2, <2>3
<1>3. /\ stop' \in {"idle", "mapper", "listener", "joinMapper", "joinListener",
                    "interrupt", "join", "returned", "failed"}
      /\ target' \in Jobs \cup {None} /\ interrupted' \in BOOLEAN
  BY DEF StopScheduler, Stopping, StopMapper, StopListener, StopJoinsMapper,
     StopJoinsListener, InterruptScheduler, StopJoinsScheduler, TypeOK
<1> QED BY <1>1, <1>2, <1>3 DEF TypeOK, requestVars, schedulerVars, listVars

(* The console keeps the types.                                            *)
LEMMA ListType ==
  ASSUME TypeOK, Listing
  PROVE  TypeOK'
<1>1. UNCHANGED <<requestVars, queue, added, schedulerVars, threadVars, stopVars>>
  BY ListFrame
<1>2. asked' \subseteq Jobs
  <2>1. ToSet(added) \subseteq Jobs
    BY ToSetType DEF TypeOK
  <2> QED BY <2>1 DEF Listing, ListRunning, ListAdd, ListAll, TypeOK
<1>3. listed' \in Seq(Jobs \cup {None})
  <2>1. queue \in Seq(Jobs \cup {None}) /\ done \in Seq(Jobs \cup {None})
    BY SeqOfMore DEF TypeOK
  <2>2. CASE ListRunning
    BY <2>2 DEF ListRunning, TypeOK
  <2>3. CASE ListAdd
    BY <2>3, AppendProperties DEF ListAdd, TypeOK
  <2>4. CASE ListAll
    BY <2>1, <2>4, ConcatProperties DEF ListAll, Source, TypeOK
  <2> QED BY <2>2, <2>3, <2>4 DEF Listing
<1>4. listing' \in {"running", "add", "queue", "done", "returned"}
  BY DEF Listing, ListRunning, ListAdd, ListAll
<1> QED BY <1>1, <1>2, <1>3, <1>4 DEF TypeOK, requestVars, schedulerVars, threadVars,
stopVars

(* Every step keeps the types.                                             *)
LEMMA TypeStep ==
  ASSUME TypeOK, HandOver, [Next]_vars
  PROVE  TypeOK'
<1>1. CASE UNCHANGED vars
  BY <1>1 DEF vars, requestVars, schedulerVars, threadVars, stopVars, listVars, TypeOK
<1> QED BY <1>1, RequestType, SchedulerType, EndType, StopType, ListType DEF Next

(* A step of another thread leaves what the scheduler keeps as it is.      *)
LEMMA OthersFrame ==
  ASSUME [Next]_vars, ~SchedulerThread
  PROVE  UNCHANGED schedulerVars
<1>1. CASE UNCHANGED vars
  BY <1>1 DEF vars
<1> QED BY <1>1, RequestFrame, EndFrame, StopFrame, ListFrame DEF Next

-----------------------------------------------------------------------------
(* The queue, the job in hand and the jobs that are done.                  *)

LEMMA HandOverStep ==
  ASSUME TypeOK, HandOver, [Next]_vars
  PROVE  HandOver'
<1>1. CASE ~SchedulerThread
  BY <1>1, OthersFrame DEF schedulerVars, HandOver
<1>2. CASE TakeJob
  BY <1>2, HeadTailProperties DEF TakeJob, HandOver, Working, TypeOK
<1>3. CASE AssignJob
  BY <1>3 DEF AssignJob, HandOver, Working, TypeOK
<1>4. CASE MakeMapper \/ MakeListener \/ StartListener \/ StartMapper
  BY <1>4 DEF MakeMapper, MakeListener, StartListener, StartMapper, HandOver, Working
<1>5. CASE WaitMapper \/ JoinMapper \/ WaitListener \/ JoinListener \/ RecordJob
  BY <1>5 DEF WaitMapper, JoinMapper, WaitListener, JoinListener, RecordJob, HandOver,
     Working
<1>6. CASE FinishJob \/ ClearJob \/ EndScheduler
  BY <1>6 DEF FinishJob, ClearJob, EndScheduler, HandOver, Working
<1> QED BY <1>1, <1>2, <1>3, <1>4, <1>5, <1>6 DEF SchedulerThread

(* The job in hand, as a sequence.                                         *)
LEMMA InHandType == TypeOK => InHand \in Seq(Jobs)
  BY DEF TypeOK, InHand

(* No step loses a job, doubles it or lets it overtake another.            *)
LEMMA OrderStep ==
  ASSUME TypeOK, HandOver, JobsInOrder, [Next]_vars
  PROVE  JobsInOrder'
<1>1. queue \in Seq(Jobs) /\ done \in Seq(Jobs) /\ InHand \in Seq(Jobs)
      /\ done \o InHand \in Seq(Jobs)
  BY InHandType, ConcatProperties DEF TypeOK
<1>2. ASSUME NEW j \in Jobs, AddJob(j)
      PROVE  JobsInOrder'
  <2>1. added' = added \o <<j>> /\ queue' = queue \o <<j>>
    BY <1>1, <1>2, AppendIsConcat DEF AddJob, TypeOK
  <2>2. (done \o InHand) \o (queue \o <<j>>) = ((done \o InHand) \o queue) \o <<j>>
    <3>1. <<j>> \in Seq(Jobs)
      OBVIOUS
    <3> QED BY <1>1, <3>1, ConcatAssociative
  <2>3. done' = done /\ InHand' = InHand
    BY <1>2 DEF AddJob, schedulerVars, InHand
  <2> QED BY <2>1, <2>2, <2>3 DEF JobsInOrder
<1>3. CASE TakeJob
  <2>1. /\ queue = <<Head(queue)>> \o Tail(queue)
        /\ Head(queue) \in Jobs /\ Tail(queue) \in Seq(Jobs) /\ <<Head(queue)>> \in Seq(Jobs)
    BY <1>1, <1>3, HeadAndTail DEF TakeJob
  <2>2. InHand = << >> /\ InHand' = <<Head(queue)>>
    BY <1>3, <2>1, SchedulerAssumption DEF TakeJob, HandOver, InHand
  <2>3. done \o << >> = done
    BY <1>1, ConcatEmptySeq
  <2>4. done \o (<<Head(queue)>> \o Tail(queue)) = (done \o <<Head(queue)>>) \o Tail(queue)
    BY <1>1, <2>1, ConcatAssociative
  <2> QED BY <1>3, <2>1, <2>2, <2>3, <2>4 DEF TakeJob, JobsInOrder
<1>4. CASE RecordJob
  <2>1. running \in Jobs /\ InHand = <<running>> /\ InHand' = << >>
    BY <1>4, SchedulerAssumption DEF RecordJob, HandOver, Working, InHand
  <2>2. done' = done \o <<running>>
    BY <1>1, <1>4, <2>1, AppendIsConcat DEF RecordJob
  <2>3. (done \o <<running>>) \o << >> = done \o <<running>>
    BY <1>1, <2>1, ConcatEmptySeq
  <2> QED BY <1>4, <2>1, <2>2, <2>3 DEF RecordJob, JobsInOrder
<1>5. CASE SchedulerThread /\ ~TakeJob /\ ~RecordJob
  <2>1. UNCHANGED <<added, queue, hand, done>>
    BY <1>5 DEF SchedulerThread, AssignJob, MakeMapper, MakeListener, StartListener,
       StartMapper, WaitMapper, JoinMapper, WaitListener, JoinListener, FinishJob,
       ClearJob, EndScheduler
  <2> QED BY <2>1 DEF JobsInOrder, InHand
<1>6. CASE ~SchedulerThread /\ ~(\E j \in Jobs : AddJob(j))
  <2>1. UNCHANGED <<added, queue, hand, done>>
    <3>1. UNCHANGED schedulerVars
      BY <1>6, OthersFrame
    <3>2. UNCHANGED <<added, queue>>
      BY <1>6, EndFrame, StopFrame, ListFrame DEF Next, ReadId, WriteId, vars
    <3> QED BY <3>1, <3>2 DEF schedulerVars
  <2> QED BY <2>1 DEF JobsInOrder, InHand
<1> QED BY <1>2, <1>3, <1>4, <1>5, <1>6

-----------------------------------------------------------------------------
(* The threads of the jobs.                                                *)

LEMMA StopThreads ==
  ASSUME TypeOK, StopScheduler \/ Stopping
  PROVE  \A k \in Jobs : /\ mapper'[k] \in {mapper[k], AfterInterrupt(mapper[k])}
                         /\ listener'[k] \in {listener[k], AfterInterrupt(listener[k])}
<1>1. CASE StopMapper
  <2>1. \/ mapper' = mapper
        \/ mapper' = [mapper EXCEPT ![running] = AfterInterrupt(@)]
    BY <1>1 DEF StopMapper
  <2>2. listener' = listener
    BY <1>1 DEF StopMapper
  <2>3. \A k \in Jobs : [mapper EXCEPT ![running] = AfterInterrupt(@)][k]
                         \in {mapper[k], AfterInterrupt(mapper[k])}
    BY InterruptType DEF TypeOK
  <2> QED BY <2>1, <2>2, <2>3
<1>2. CASE StopListener
  <2>1. \/ listener' = listener
        \/ listener' = [listener EXCEPT ![target] = AfterInterrupt(@)]
    BY <1>2 DEF StopListener
  <2>2. mapper' = mapper
    BY <1>2 DEF StopListener
  <2>3. \A k \in Jobs : [listener EXCEPT ![target] = AfterInterrupt(@)][k]
                         \in {listener[k], AfterInterrupt(listener[k])}
    BY InterruptType DEF TypeOK
  <2> QED BY <2>1, <2>2, <2>3
<1>3. CASE ~StopMapper /\ ~StopListener
  BY <1>3 DEF StopScheduler, Stopping, StopJoinsMapper, StopJoinsListener,
     InterruptScheduler, StopJoinsScheduler, threadVars
<1> QED BY <1>1, <1>2, <1>3

(* The steps that touch neither the scheduler nor the threads of a job     *)
LEMMA QuietSteps ==
  ASSUME [Next]_vars, ~SchedulerThread, ~StopScheduler, ~Stopping,
         \A j \in Jobs : ~EndMapper(j) /\ ~EndListener(j)
  PROVE  UNCHANGED <<schedulerVars, threadVars>>
<1>1. CASE UNCHANGED vars
  BY <1>1 DEF vars
<1> QED BY <1>1, RequestFrame, ListFrame DEF Next

(* Every step keeps the threads of the job as far as runJob is.            *)
LEMMA ThreadsStep ==
  ASSUME TypeOK, HandOver, ThreadsOfTheJob, [Next]_vars
  PROVE  ThreadsOfTheJob'
<1>1. CASE \/ TakeJob \/ AssignJob \/ MakeMapper \/ MakeListener
           \/ FinishJob \/ ClearJob \/ EndScheduler
  BY <1>1 DEF TakeJob, AssignJob, MakeMapper, MakeListener, FinishJob, ClearJob,
     EndScheduler, ThreadsOfTheJob
<1>2. CASE StartListener \/ StartMapper
  BY <1>2 DEF StartListener, StartMapper, ThreadsOfTheJob, TypeOK, HandOver, Working
<1>3. CASE WaitMapper \/ JoinMapper \/ WaitListener \/ JoinListener \/ RecordJob
  <2>1. running \in Jobs
    BY <1>3 DEF WaitMapper, JoinMapper, WaitListener, JoinListener, RecordJob, HandOver,
       Working
  <2> QED BY <1>3, <2>1 DEF WaitMapper, JoinMapper, WaitListener, JoinListener,
  RecordJob, ThreadsOfTheJob,
             TypeOK, ThreadStates, Alive, Over, threadVars
<1>4. ASSUME NEW j \in Jobs, EndMapper(j) \/ EndListener(j)
      PROVE  ThreadsOfTheJob'
  <2>1. UNCHANGED schedulerVars
    BY <1>4, EndFrame
  <2>2. \A k \in Jobs : /\ mapper'[k] \in {mapper[k], "ended"}
                        /\ listener'[k] \in {listener[k], "ended"}
    BY <1>4 DEF EndMapper, EndListener, TypeOK
  <2> QED BY <2>1, <2>2 DEF schedulerVars, ThreadsOfTheJob, Over, HandOver, Working
<1>5. CASE StopScheduler \/ Stopping
  <2>1. UNCHANGED schedulerVars
    BY <1>5, StopFrame
  <2>2. \A k \in Jobs : /\ mapper'[k] \in {mapper[k], AfterInterrupt(mapper[k])}
                        /\ listener'[k] \in {listener[k], AfterInterrupt(listener[k])}
    BY <1>5, StopThreads
  <2> QED BY <2>1, <2>2 DEF schedulerVars, ThreadsOfTheJob, Over, HandOver, Working,
             AfterInterrupt
<1>6. CASE UNCHANGED <<schedulerVars, threadVars>>
  BY <1>6 DEF schedulerVars, threadVars, ThreadsOfTheJob, Over
<1> QED BY <1>1, <1>2, <1>3, <1>4, <1>5, <1>6, QuietSteps DEF SchedulerThread

(* No step makes a thread of another job alive.                            *)
LEMMA AliveStep ==
  ASSUME TypeOK, HandOver, ThreadsOfTheJob, AliveIsRunning, [Next]_vars
  PROVE  AliveIsRunning'
<1>1. CASE TakeJob \/ AssignJob \/ FinishJob \/ ClearJob
  <2>1. UNCHANGED threadVars /\ spc \notin {"startMapper", "ended"} \cup MapperJoin \cup ListenerJoin
    BY <1>1 DEF TakeJob, AssignJob, FinishJob, ClearJob
  <2> QED BY <2>1 DEF AliveIsRunning, threadVars
<1>2. CASE MakeMapper \/ MakeListener
  <2>1. spc \notin {"startMapper", "ended"} \cup MapperJoin \cup ListenerJoin
    BY <1>2 DEF MakeMapper, MakeListener
  <2>2. \A j \in Jobs : /\ mapper'[j] \in {mapper[j], "new"}
                        /\ listener'[j] \in {listener[j], "new"}
    BY <1>2 DEF MakeMapper, MakeListener, TypeOK
  <2> QED BY <2>1, <2>2 DEF AliveIsRunning, Alive
<1>3. CASE StartListener \/ StartMapper
  <2>1. running' = running /\ spc' \in {"startMapper", "joinMapper"}
    BY <1>3 DEF StartListener, StartMapper
  <2>2. \A j \in Jobs : j # running => mapper'[j] = mapper[j] /\ listener'[j] = listener[j]
    BY <1>3 DEF StartListener, StartMapper, TypeOK
  <2> QED BY <2>1, <2>2 DEF AliveIsRunning
<1>4. CASE WaitMapper \/ JoinMapper \/ WaitListener \/ EndScheduler \/ RecordJob
  <2>1. UNCHANGED <<threadVars, running>>
    BY <1>4 DEF WaitMapper, JoinMapper, WaitListener, EndScheduler, RecordJob
  <2>2. \/ spc' \in {"waitMapper", "joinListener", "waitListener", "ended"}
        \/ spc = "record"
    BY <1>4 DEF WaitMapper, JoinMapper, WaitListener, EndScheduler, RecordJob
  <2> QED BY <2>1, <2>2 DEF AliveIsRunning, threadVars
<1>5. CASE JoinListener
  <2>1. UNCHANGED <<threadVars, running>> /\ ~Alive(listener[running]) /\ mapper[running] = "ended"
    BY <1>5 DEF JoinListener, ThreadsOfTheJob
  <2> QED BY <2>1 DEF AliveIsRunning, threadVars, Alive
<1>6. ASSUME NEW j \in Jobs, EndMapper(j) \/ EndListener(j)
      PROVE  AliveIsRunning'
  <2>1. UNCHANGED schedulerVars
    BY <1>6, EndFrame
  <2>2. \A k \in Jobs : /\ mapper'[k] \in {mapper[k], "ended"}
                        /\ listener'[k] \in {listener[k], "ended"}
    BY <1>6 DEF EndMapper, EndListener, TypeOK
  <2> QED BY <2>1, <2>2 DEF schedulerVars, AliveIsRunning, Alive
<1>7. CASE StopScheduler \/ Stopping
  <2>1. UNCHANGED schedulerVars
    BY <1>7, StopFrame
  <2>2. \A k \in Jobs : /\ mapper'[k] \in {mapper[k], AfterInterrupt(mapper[k])}
                        /\ listener'[k] \in {listener[k], AfterInterrupt(listener[k])}
    BY <1>7, StopThreads
  <2> QED BY <2>1, <2>2 DEF schedulerVars, AliveIsRunning, Alive, AfterInterrupt
<1>8. CASE UNCHANGED <<schedulerVars, threadVars>>
  BY <1>8 DEF schedulerVars, threadVars, AliveIsRunning
<1> QED BY <1>1, <1>2, <1>3, <1>4, <1>5, <1>6, <1>7, <1>8, QuietSteps DEF SchedulerThread

(* A job that is FINISHED stays over.                                      *)
LEMMA FinishedStep ==
  ASSUME TypeOK, HandOver, ThreadsOfTheJob, FinishedIsOver, [Next]_vars
  PROVE  FinishedIsOver'
<1>1. CASE \/ TakeJob \/ ClearJob \/ EndScheduler \/ RecordJob
           \/ WaitMapper \/ JoinMapper \/ WaitListener \/ JoinListener
  <2>1. UNCHANGED <<threadVars, status>> /\ results \subseteq results'
    BY <1>1 DEF TakeJob, ClearJob, EndScheduler, WaitMapper, JoinMapper, WaitListener,
       JoinListener, RecordJob
  <2> QED BY <2>1 DEF FinishedIsOver, threadVars
<1>2. CASE AssignJob
  <2>1. UNCHANGED <<threadVars, results>>
        /\ \A j \in Jobs : status'[j] \in {status[j], "RUNNING"}
    BY <1>2 DEF AssignJob, TypeOK
  <2> QED BY <2>1 DEF FinishedIsOver, threadVars
<1>3. CASE MakeMapper \/ MakeListener \/ StartListener \/ StartMapper
  <2>1. UNCHANGED <<status, results>> /\ status[running] = "RUNNING"
    BY <1>3 DEF MakeMapper, MakeListener, StartListener, StartMapper, HandOver, Working
  <2>2. \A j \in Jobs : j # running => mapper'[j] = mapper[j] /\ listener'[j] = listener[j]
    BY <1>3 DEF MakeMapper, MakeListener, StartListener, StartMapper, TypeOK
  <2> QED BY <2>1, <2>2 DEF FinishedIsOver
<1>4. CASE FinishJob
  <2>1. UNCHANGED <<threadVars, results>> /\ Over(running) /\ running \in results
    BY <1>4 DEF FinishJob, ThreadsOfTheJob
  <2>2. \A j \in Jobs : j # running => status'[j] = status[j]
    BY <1>4 DEF FinishJob, TypeOK
  <2> QED BY <2>1, <2>2 DEF FinishedIsOver, threadVars, Over
<1>5. ASSUME NEW j \in Jobs, EndMapper(j) \/ EndListener(j)
      PROVE  FinishedIsOver'
  <2>1. UNCHANGED schedulerVars
    BY <1>5, EndFrame
  <2>2. \A k \in Jobs : /\ mapper'[k] \in {mapper[k], "ended"}
                        /\ listener'[k] \in {listener[k], "ended"}
    BY <1>5 DEF EndMapper, EndListener, TypeOK
  <2> QED BY <2>1, <2>2 DEF schedulerVars, FinishedIsOver
<1>6. CASE StopScheduler \/ Stopping
  <2>1. UNCHANGED schedulerVars
    BY <1>6, StopFrame
  <2>2. \A k \in Jobs : /\ mapper'[k] \in {mapper[k], AfterInterrupt(mapper[k])}
                        /\ listener'[k] \in {listener[k], AfterInterrupt(listener[k])}
    BY <1>6, StopThreads
  <2> QED BY <2>1, <2>2 DEF schedulerVars, FinishedIsOver, AfterInterrupt
<1>7. CASE UNCHANGED <<schedulerVars, threadVars>>
  BY <1>7 DEF schedulerVars, threadVars, FinishedIsOver
<1> QED BY <1>1, <1>2, <1>3, <1>4, <1>5, <1>6, <1>7, QuietSteps DEF SchedulerThread

-----------------------------------------------------------------------------
(* The list that the console shows.                                        *)

LEMMA AddedIsSomewhere ==
  ASSUME TypeOK, JobsInOrder
  PROVE  \E h \in Jobs \cup {None} :
           ToSet(added) \subseteq ToSet(queue) \cup ToSet(done) \cup {h}
<1>1. queue \in Seq(Jobs) /\ done \in Seq(Jobs) /\ InHand \in Seq(Jobs)
      /\ done \o InHand \in Seq(Jobs)
  BY InHandType, ConcatProperties DEF TypeOK
<1>2. ToSet(added) = (ToSet(done) \cup ToSet(InHand)) \cup ToSet(queue)
  <2>1. ToSet(done \o InHand) = ToSet(done) \cup ToSet(InHand)
    BY <1>1, ToSetConcat
  <2>2. ToSet((done \o InHand) \o queue) = ToSet(done \o InHand) \cup ToSet(queue)
    BY <1>1, ToSetConcat
  <2> QED BY <2>1, <2>2 DEF JobsInOrder
<1>3. ToSet(InHand) \subseteq {hand}
  BY ToSetSmall DEF InHand
<1> QED BY <1>2, <1>3 DEF TypeOK

(* The scheduler and the requests only add to what getJobList copies last. *)
LEMMA DoneGrows ==
  ASSUME TypeOK, HandOver, [Next]_vars
  PROVE  ToSet(done) \subseteq ToSet(done') /\ ToSet(added) \subseteq ToSet(added')
<1>1. ASSUME NEW s \in Seq(Jobs), NEW j \in Jobs
      PROVE  ToSet(s) \subseteq ToSet(Append(s, j))
  <2>1. Append(s, j) = s \o <<j>> /\ <<j>> \in Seq(Jobs)
    BY AppendIsConcat
  <2>2. ToSet(s \o <<j>>) = ToSet(s) \cup ToSet(<<j>>)
    BY <2>1, ToSetConcat
  <2> QED BY <2>1, <2>2
<1>2. done' = done \/ \E j \in Jobs : done' = Append(done, j)
  <2>1. CASE RecordJob
    BY <2>1 DEF RecordJob, HandOver, Working
  <2>2. CASE SchedulerThread /\ ~RecordJob
    BY <2>2 DEF SchedulerThread, TakeJob, AssignJob, MakeMapper, MakeListener,
       StartListener, StartMapper, WaitMapper, JoinMapper, WaitListener, JoinListener,
       FinishJob, ClearJob, EndScheduler
  <2>3. CASE ~SchedulerThread
    BY <2>3, OthersFrame DEF schedulerVars
  <2> QED BY <2>1, <2>2, <2>3
<1>3. added' = added \/ \E j \in Jobs : added' = Append(added, j)
  BY SchedulerFrame, EndFrame, StopFrame, ListFrame DEF Next, ReadId, WriteId, AddJob, vars
<1> QED BY <1>1, <1>2, <1>3 DEF TypeOK

(* Every step keeps what getJobList owes.                                  *)
LEMMA ListingStep ==
  ASSUME TypeOK, JobsInOrder, HandOver, ListingSoFar, [Next]_vars
  PROVE  ListingSoFar'
<1>1. ToSet(done) \subseteq ToSet(done') /\ ToSet(added) \subseteq ToSet(added')
  BY DoneGrows
<1>2. CASE ListRunning
  BY <1>2 DEF ListRunning, ListingSoFar
<1>3. CASE ListAdd
  BY <1>3 DEF ListAdd, ListingSoFar
<1>4. CASE ListAll
  <2>1. /\ queue \in Seq(Jobs \cup {None}) /\ done \in Seq(Jobs \cup {None})
        /\ listed \in Seq(Jobs \cup {None})
    BY SeqOfMore DEF TypeOK
  <2>2. CASE listing = "queue"
    <3>1. ToSet(listed') = ToSet(listed) \cup ToSet(queue)
      BY <1>4, <2>1, <2>2, ToSetConcat DEF ListAll, Source
    <3>2. listing' = "done" /\ asked' = asked /\ done' = done /\ asked \subseteq ToSet(added)
      BY <1>4, <2>2 DEF ListAll, schedulerVars, ListingSoFar
    <3> QED BY <3>1, <3>2, AddedIsSomewhere DEF ListingSoFar
  <2>3. CASE listing = "done"
    <3>1. ToSet(listed') = ToSet(listed) \cup ToSet(done)
      BY <1>4, <2>1, <2>3, ToSetConcat DEF ListAll, Source
    <3>2. listing' = "returned" /\ asked' = asked
      BY <1>4, <2>3 DEF ListAll
    <3> QED BY <2>3, <3>1, <3>2 DEF ListingSoFar
  <2> QED BY <1>4, <2>2, <2>3 DEF ListAll
<1>5. CASE ~Listing
  <2>1. UNCHANGED listVars
    BY <1>5, RequestFrame, SchedulerFrame, EndFrame, StopFrame DEF Next, vars
  <2> QED BY <1>1, <2>1 DEF listVars, ListingSoFar
<1> QED BY <1>2, <1>3, <1>4, <1>5 DEF Listing

-----------------------------------------------------------------------------
(* The theorems.                                                           *)

LEMMA InitInv == Init => IInv
<1> SUFFICES ASSUME Init PROVE IInv
  OBVIOUS
<1>1. TypeOK
  BY InitType
<1>2. JobsInOrder
  <2>1. << >> \o << >> = << >>
    BY ConcatEmptySeq, EmptySeq
  <2> QED BY <2>1 DEF Init, JobsInOrder, InHand
<1>3. HandOver /\ ThreadsOfTheJob /\ ListingSoFar
  BY DEF Init, HandOver, Working, ThreadsOfTheJob, ListingSoFar
<1>4. AliveIsRunning /\ FinishedIsOver
  BY DEF Init, AliveIsRunning, FinishedIsOver, Alive
<1> QED BY <1>1, <1>2, <1>3, <1>4 DEF IInv

(* Every step keeps the invariant.                                         *)
LEMMA StepInv == IInv /\ [Next]_vars => IInv'
  BY TypeStep, OrderStep, HandOverStep, ThreadsStep, AliveStep, FinishedStep, ListingStep
  DEF IInv

(* IInv holds in every reachable state.                                    *)
LEMMA Invariance == Spec => []IInv
  BY InitInv, StepInv, PTL DEF Spec

(* The variables of the scheduler have their types.                        *)
THEOREM TypeCorrect == Spec => []TypeOK
<1>1. IInv => TypeOK
  BY DEF IInv
<1> QED BY <1>1, Invariance, PTL

(* Whatever the number of jobs and wherever the server is stopped, each    *)
(* job that was added is in one place and they are run in the order in     *)
(* which they were added (JobScheduler.run).                               *)
THEOREM OrderIsKept == Spec => []JobsInOrder
<1>1. IInv => JobsInOrder
  BY DEF IInv
<1> QED BY <1>1, Invariance, PTL

(* A job that is FINISHED has no thread alive and has its results.         *)
THEOREM FinishedJobsAreOver == Spec => []FinishedIsOver
<1>1. IInv => FinishedIsOver
  BY DEF IInv
<1> QED BY <1>1, Invariance, PTL

(* A set with room for one element has at most one.                        *)
LEMMA AtMostOne ==
  ASSUME NEW S, NEW h, S \subseteq {h}
  PROVE  Cardinality(S) <= 1
<1>1. IsFiniteSet({h}) /\ Cardinality({h}) = 1
  BY FS_Singleton
<1> QED BY <1>1, FS_Subset

(* The threads of two jobs are never alive together (Job.runJob,           *)
(* Job.stopJob).                                                           *)
THEOREM JobsTakeTurns == Spec => []OneJobAtATime
<1>1. IInv => OneJobAtATime
  <2> SUFFICES ASSUME IInv PROVE OneJobAtATime
    OBVIOUS
  <2> DEFINE A == {j \in Jobs : Alive(mapper[j]) \/ Alive(listener[j])}
  <2>1. A \subseteq {running}
    BY DEF IInv, AliveIsRunning
  <2>2. Cardinality(A) <= 1
    BY <2>1, AtMostOne
  <2> QED BY <2>2 DEF OneJobAtATime
<1> QED BY <1>1, Invariance, PTL

(* A list of the jobs misses at most one of those that had been added, for *)
(* any number of jobs that come and go while it is made (getJobList).      *)
THEOREM ListingsMissAtMostOne == Spec => []ListingMissesAtMostOne
<1>1. IInv => ListingMissesAtMostOne
  <2> SUFFICES ASSUME IInv, listing = "returned"
               PROVE  Cardinality(asked \ ToSet(listed)) <= 1
    BY DEF ListingMissesAtMostOne
  <2>1. PICK h \in Jobs \cup {None} : asked \ ToSet(listed) \subseteq {h}
    BY DEF IInv, ListingSoFar
  <2> QED BY <2>1, AtMostOne
<1> QED BY <1>1, Invariance, PTL

-----------------------------------------------------------------------------
(* The ids of the jobs.                                                    *)

Made == {j \in Jobs : id[j] # None}

(* The counter is behind the number of jobs made as soon as an increment   *)
(* is lost and never catches up.  A request that is about to write has     *)
(* either read the very number of jobs made, or writes too little.         *)
IdsSoFar ==
  /\ IsFiniteSet(Made)
  /\ ids <= Cardinality(Made)
  /\ \A j \in Jobs :
       /\ id[j] = None <=> request[j] \in {"read", "write"}
       /\ id[j] # None => id[j] <= Cardinality(Made)
       /\ request[j] = "write" =>
            /\ read[j] <= Cardinality(Made)
            /\ read[j] = Cardinality(Made) => ids = Cardinality(Made)
  /\ ids = Cardinality(Made) =>
       \A i, j \in Made : id[i] = id[j] => i = j

LEMMA IdsInit == Init => IdsSoFar
<1> SUFFICES ASSUME Init PROVE IdsSoFar
  OBVIOUS
<1>1. Made = {} /\ ids = 0
  BY DEF Init, Made
<1>2. IsFiniteSet(Made) /\ Cardinality(Made) = 0
  BY <1>1, FS_EmptySet
<1> QED BY <1>1, <1>2 DEF Init, IdsSoFar

(* The new job is one more, and writes one more than it has read.          *)
LEMMA WriteIdStep ==
  ASSUME TypeOK, IdsSoFar, NEW j \in Jobs, WriteId(j)
  PROVE  IdsSoFar'
<1> DEFINE n == Cardinality(Made)
<1>1. n \in Nat
  BY FS_CardinalityType DEF IdsSoFar
<1>2. /\ id[j] = None /\ read[j] \in Nat /\ read[j] + 1 # None
      /\ id' = [id EXCEPT ![j] = read[j] + 1] /\ id'[j] = read[j] + 1
      /\ \A i \in Jobs \ {j} : id'[i] = id[i]
  BY SchedulerAssumption DEF TypeOK, IdsSoFar, WriteId
<1>3. Made' = Made \cup {j} /\ j \notin Made
  BY <1>2 DEF Made
<1>4. IsFiniteSet(Made') /\ Cardinality(Made') = n + 1
  BY <1>3, FS_AddElement DEF IdsSoFar
<1>5. ids' = read[j] + 1 /\ read[j] <= n /\ (read[j] = n => ids = n)
  BY DEF WriteId, IdsSoFar
<1>6. /\ \A i \in Jobs \ {j} : request'[i] = request[i]
      /\ request'[j] = "add" /\ read' = read
  BY DEF WriteId, TypeOK
<1>7. ASSUME NEW i \in Jobs
      PROVE  /\ id'[i] = None <=> request'[i] \in {"read", "write"}
             /\ id'[i] # None => id'[i] <= n + 1
             /\ request'[i] = "write" => read'[i] <= n + 1 /\ read'[i] # n + 1
  <2>1. CASE i = j
    BY <1>1, <1>2, <1>5, <1>6, <2>1
  <2>2. CASE i # j
    <3>1. /\ id[i] = None <=> request[i] \in {"read", "write"}
          /\ id[i] # None => id[i] <= n /\ id[i] \in Nat
          /\ request[i] = "write" => read[i] <= n /\ read[i] \in Nat
      BY DEF IdsSoFar, TypeOK
    <3> QED BY <1>1, <1>2, <1>6, <2>2, <3>1
  <2> QED BY <2>1, <2>2
<1>8. ASSUME ids' = n + 1, NEW i \in Made', NEW k \in Made', id'[i] = id'[k]
      PROVE  i = k
  <2>1. ids = n /\ read[j] = n
    BY <1>1, <1>2, <1>5, <1>8
  <2>2. \A l \in Made : id[l] \in Nat /\ id[l] <= n
    BY DEF Made, IdsSoFar, TypeOK
  <2>3. \A l \in Made : id'[l] = id[l] /\ l # j
    BY <1>2, <1>3 DEF Made
  <2>4. i # j /\ k # j => i = k
    BY <1>3, <1>8, <2>1, <2>3 DEF IdsSoFar
  <2>5. id'[j] = n + 1
    BY <1>2, <2>1
  <2>6. \A l \in Made : id'[l] # id'[j]
    BY <1>1, <2>2, <2>3, <2>5
  <2> QED BY <1>3, <1>8, <2>4, <2>6
<1>9. ids' <= n + 1
  BY <1>1, <1>2, <1>5
<1> HIDE DEF n
<1>10. Cardinality(Made)' = n + 1
  BY <1>4
<1> QED BY <1>1, <1>4, <1>7, <1>8, <1>9, <1>10 DEF IdsSoFar

LEMMA IdsStep == TypeOK /\ IdsSoFar /\ [Next]_vars => IdsSoFar'
<1> SUFFICES ASSUME TypeOK, IdsSoFar, [Next]_vars PROVE IdsSoFar'
  OBVIOUS
<1>1. ASSUME UNCHANGED id PROVE Made' = Made
  BY <1>1 DEF Made
<1>2. CASE UNCHANGED requestVars
  BY <1>1, <1>2 DEF requestVars, IdsSoFar
<1>3. ASSUME NEW j \in Jobs, ReadId(j) PROVE IdsSoFar'
  <2>1. /\ UNCHANGED <<ids, id>> /\ Made' = Made /\ request[j] = "read"
        /\ read' = [read EXCEPT ![j] = ids] /\ request' = [request EXCEPT ![j] = "write"]
    BY <1>1, <1>3 DEF ReadId
  <2>2. /\ read'[j] = ids /\ request'[j] = "write"
        /\ \A i \in Jobs \ {j} : read'[i] = read[i] /\ request'[i] = request[i]
    BY <2>1 DEF TypeOK
  <2>3. ids <= Cardinality(Made)
    BY DEF IdsSoFar
  <2> QED BY <2>1, <2>2, <2>3 DEF IdsSoFar
<1>4. ASSUME NEW j \in Jobs, AddJob(j) PROVE IdsSoFar'
  <2>1. /\ UNCHANGED <<ids, id, read>> /\ Made' = Made /\ request[j] = "add"
        /\ request' = [request EXCEPT ![j] = "added"]
    BY <1>1, <1>4 DEF AddJob
  <2>2. /\ request'[j] = "added"
        /\ \A i \in Jobs \ {j} : request'[i] = request[i]
    BY <2>1 DEF TypeOK
  <2> QED BY <2>1, <2>2 DEF IdsSoFar
<1>5. CASE SchedulerThread
  BY <1>2, <1>5, SchedulerFrame
<1>6. ASSUME NEW j \in Jobs, EndMapper(j) \/ EndListener(j) PROVE IdsSoFar'
  BY <1>2, <1>6, EndFrame
<1>7. CASE StopScheduler \/ Stopping
  BY <1>2, <1>7, StopFrame
<1>8. CASE Listing
  BY <1>2, <1>8, ListFrame
<1>9. CASE UNCHANGED vars
  BY <1>2, <1>9 DEF vars
<1> QED BY <1>3, <1>4, <1>5, <1>6, <1>7, <1>8, <1>9, WriteIdStep DEF Next

(* Any number of requests may make jobs together: their ids are different  *)
(* unless an increment of the counter has been lost, and then the counter  *)
(* stays behind for ever (JobIdGenerator.getNextId).                       *)
THEOREM IdsAreUniqueUnlessLost == Spec => []UniqueIdsUnlessLost
<1>1. IdsSoFar /\ TypeOK => UniqueIdsUnlessLost
  <2> SUFFICES ASSUME IdsSoFar, TypeOK, ~(ids < Cardinality(Made))
               PROVE  Cardinality({id[j] : j \in Made}) = Cardinality(Made)
    BY DEF UniqueIdsUnlessLost, Made
  <2> DEFINE Ids == {id[j] : j \in Made}
             idOf == [j \in Made |-> id[j]]
  <2>1. ids = Cardinality(Made)
    BY FS_CardinalityType DEF IdsSoFar, TypeOK
  <2>2. \A i, j \in Made : id[i] = id[j] => i = j
    BY <2>1 DEF IdsSoFar
  <2>3. idOf \in Bijection(Made, Ids)
    BY <2>2 DEF Bijection, Injection, Surjection, IsInjective
  <2> QED BY <2>3, FS_Bijection DEF IdsSoFar, ExistsBijection
<1>2. Spec => []IdsSoFar
  BY IdsInit, IdsStep, TypeCorrect, PTL DEF Spec
<1> QED BY <1>1, <1>2, TypeCorrect, PTL

-----------------------------------------------------------------------------
(* The stop of the scheduler: no job is run twice, so that a thread that   *)
(* was interrupted stays so until it ends.                                 *)

(* A job without threads                                                   *)
Fresh(j) == mapper[j] = "none" /\ listener[j] = "none"

(* A job has no threads before it is run, and is added and taken once.     *)
RunOnce ==
  /\ \A j \in Jobs : request[j] # "added" =>
       Fresh(j) /\ j # hand /\ j # running /\ \A n \in DOMAIN queue : queue[n] # j
  /\ \A n \in DOMAIN queue : Fresh(queue[n]) /\ queue[n] # hand /\ queue[n] # running
  /\ \A m, n \in DOMAIN queue : queue[m] = queue[n] => m = n
  /\ spc \in {"assign", "mapper"} => Fresh(hand)
  /\ spc = "listener" => mapper[running] = "new" /\ listener[running] = "none"
  /\ spc = "startListener" => mapper[running] = "new" /\ listener[running] = "new"
  /\ spc = "startMapper" => mapper[running] = "new"

(* The listener of a job is started before its mapper.                     *)
ListenerFirst ==
  \A j \in Jobs : mapper[j] \notin {"none", "new"} => listener[j] \notin {"none", "new"}

(* A job that is added is in no other place.                               *)
LEMMA AddJobOnce ==
  ASSUME TypeOK, RunOnce, NEW j \in Jobs, AddJob(j)
  PROVE  RunOnce'
<1>1. /\ queue' \in Seq(Jobs) /\ Len(queue') = Len(queue) + 1
      /\ \A n \in 1..Len(queue) : queue'[n] = queue[n]
      /\ queue'[Len(queue) + 1] = j
  BY AppendProperties DEF TypeOK, AddJob
<1>2. DOMAIN queue = 1..Len(queue) /\ DOMAIN queue' = 1..Len(queue) + 1 /\ Len(queue) \in Nat
  BY <1>1, LenProperties DEF TypeOK
<1>3. \A n \in DOMAIN queue' :
        \/ n \in DOMAIN queue /\ queue'[n] = queue[n]
        \/ n = Len(queue) + 1 /\ queue'[n] = j
  <2> SUFFICES ASSUME NEW n \in 1..Len(queue) + 1
               PROVE  \/ n \in 1..Len(queue) /\ queue'[n] = queue[n]
                      \/ n = Len(queue) + 1 /\ queue'[n] = j
    BY <1>2
  <2>1. n \in 1..Len(queue) \/ n = Len(queue) + 1
    BY <1>2
  <2> QED BY <1>1, <2>1
<1>4. Fresh(j) /\ j # hand /\ j # running /\ \A n \in DOMAIN queue : queue[n] # j
  BY DEF AddJob, RunOnce
<1>5. /\ UNCHANGED <<mapper, listener, hand, running, spc>>
      /\ \A k \in Jobs : request'[k] # "added" => request[k] # "added" /\ k # j
  BY DEF AddJob, TypeOK, schedulerVars, threadVars
<1> QED BY <1>3, <1>4, <1>5 DEF RunOnce, Fresh

(* The job that is taken is not in the rest of the queue.                  *)
LEMMA TakeJobOnce ==
  ASSUME TypeOK, HandOver, RunOnce, TakeJob
  PROVE  RunOnce'
<1>1. /\ queue \in Seq(Jobs) /\ queue # << >> /\ queue' = Tail(queue)
      /\ hand' = Head(queue) /\ spc' = "assign" /\ running = None
      /\ UNCHANGED <<mapper, listener, running, request>>
  BY DEF TypeOK, TakeJob, HandOver, requestVars, threadVars
<1>2. /\ Head(queue) = queue[1] /\ Len(queue) \in Nat \ {0}
      /\ DOMAIN queue = 1..Len(queue) /\ DOMAIN queue' = 1..Len(queue) - 1
      /\ \A n \in 1..Len(queue) - 1 : queue'[n] = queue[n + 1]
  BY <1>1, HeadTailProperties, LenProperties, EmptySeq
<1>3. \A n \in DOMAIN queue' : n + 1 \in DOMAIN queue /\ n + 1 # 1 /\ queue'[n] = queue[n + 1]
  BY <1>2
<1>4. 1 \in DOMAIN queue /\ hand' = queue[1] /\ Fresh(queue[1])
  BY <1>1, <1>2 DEF RunOnce
<1>5. \A m, n \in DOMAIN queue' : m + 1 = n + 1 => m = n
  BY <1>2
<1>6. \A j \in Jobs : j # None
  BY SchedulerAssumption
<1>7. \A m, n \in DOMAIN queue' : queue'[m] = queue'[n] => m = n
  BY <1>3, <1>5 DEF RunOnce
<1>8. \A n \in DOMAIN queue' : /\ Fresh(queue[n])'
                               /\ queue'[n] # hand' /\ queue'[n] # running'
  <2> SUFFICES ASSUME NEW n \in DOMAIN queue'
               PROVE  Fresh(queue[n])' /\ queue'[n] # hand' /\ queue'[n] # running'
    OBVIOUS
  <2>1. /\ Fresh(queue[n + 1]) /\ queue[n + 1] # running /\ queue[n + 1] # queue[1]
        /\ queue'[n] = queue[n + 1]
    BY <1>3, <1>4 DEF RunOnce
  <2> QED BY <1>1, <1>4, <2>1 DEF Fresh
<1>9. \A j \in Jobs : request'[j] # "added" =>
        Fresh(j)' /\ j # hand' /\ j # running' /\ \A n \in DOMAIN queue' : queue'[n] # j
  BY <1>1, <1>3, <1>4 DEF RunOnce, Fresh
<1>10. Fresh(hand)'
  BY <1>1, <1>4 DEF RunOnce, Fresh
<1> QED BY <1>1, <1>7, <1>8, <1>9, <1>10 DEF RunOnce

(* No step gives threads to a job that waits, or makes them twice.         *)
LEMMA RunOnceStep ==
  ASSUME TypeOK, HandOver, RunOnce, [Next]_vars
  PROVE  RunOnce'
<1>0. queue \in Seq(Jobs) /\ \A n \in DOMAIN queue : queue[n] \in Jobs
  BY ElementOfSeq DEF TypeOK
<1>1. CASE AssignJob \/ RecordJob \/ FinishJob \/ ClearJob
  <2>1. /\ UNCHANGED <<threadVars, queue, requestVars>>
        /\ hand' \in {hand, None} /\ running' \in {running, hand, None}
        /\ \/ spc = "assign" /\ spc' = "mapper" /\ hand' = hand
           \/ spc' \in {"finish", "clear", "take"}
    BY <1>1 DEF AssignJob, RecordJob, FinishJob, ClearJob
  <2> QED BY <2>1, <1>0, SchedulerAssumption DEF RunOnce, Fresh, threadVars, requestVars
<1>2. CASE MakeMapper \/ MakeListener \/ StartListener \/ StartMapper
  <2>1. running = hand /\ running \in Jobs
    BY <1>2 DEF MakeMapper, MakeListener, StartListener, StartMapper, HandOver, Working
  <2>2. UNCHANGED <<queue, request, hand, running>>
    BY <1>2 DEF MakeMapper, MakeListener, StartListener, StartMapper, requestVars
  <2>3. \A k \in Jobs : k # running => mapper'[k] = mapper[k] /\ listener'[k] = listener[k]
    BY <1>2 DEF MakeMapper, MakeListener, StartListener, StartMapper, TypeOK
  <2>4. /\ \A j \in Jobs : request'[j] # "added" =>
             Fresh(j)' /\ j # hand' /\ j # running' /\ \A n \in DOMAIN queue' : queue'[n] # j
        /\ \A n \in DOMAIN queue' :
             Fresh(queue[n])' /\ queue'[n] # hand' /\ queue'[n] # running'
        /\ \A m, n \in DOMAIN queue' : queue'[m] = queue'[n] => m = n
    BY <1>0, <2>2, <2>3 DEF RunOnce, Fresh
  <2>5. \/ spc' = "listener" /\ mapper'[running] = "new" /\ listener'[running] = "none"
        \/ spc' = "startListener" /\ mapper'[running] = "new" /\ listener'[running] = "new"
        \/ spc' = "startMapper" /\ mapper'[running] = "new"
        \/ spc' = "joinMapper"
    BY <1>2, <2>1 DEF MakeMapper, MakeListener, StartListener, StartMapper, TypeOK,
       RunOnce, Fresh
  <2> QED BY <2>2, <2>4, <2>5 DEF RunOnce
<1>3. CASE WaitMapper \/ JoinMapper \/ WaitListener \/ JoinListener \/ EndScheduler
  BY <1>3 DEF WaitMapper, JoinMapper, WaitListener, JoinListener, EndScheduler, RunOnce,
     Fresh, threadVars,
     requestVars
<1>4. ASSUME NEW j \in Jobs, EndMapper(j) \/ EndListener(j)
      PROVE  RunOnce'
  <2>1. UNCHANGED <<requestVars, queue, schedulerVars>>
    BY <1>4, EndFrame
  <2>2. \A k \in Jobs : /\ mapper[k] \in {"none", "new"} => mapper'[k] = mapper[k]
                        /\ listener[k] \in {"none", "new"} => listener'[k] = listener[k]
    BY <1>4 DEF EndMapper, EndListener, TypeOK, Alive
  <2> QED BY <1>0, <2>1, <2>2 DEF requestVars, schedulerVars, RunOnce, Fresh, HandOver,
     Working
<1>5. CASE StopScheduler \/ Stopping
  <2>1. UNCHANGED <<requestVars, queue, schedulerVars>>
    BY <1>5, StopFrame
  <2>2. \A k \in Jobs : /\ mapper[k] \in {"none", "new"} => mapper'[k] = mapper[k]
                        /\ listener[k] \in {"none", "new"} => listener'[k] = listener[k]
    BY <1>5, StopThreads DEF AfterInterrupt
  <2> QED BY <1>0, <2>1, <2>2 DEF requestVars, schedulerVars, RunOnce, Fresh, HandOver,
     Working
<1>6. CASE Listing \/ UNCHANGED vars
  <2>1. UNCHANGED <<requestVars, queue, schedulerVars, threadVars>>
    BY <1>6, ListFrame DEF vars
  <2> QED BY <2>1 DEF requestVars, schedulerVars, threadVars, RunOnce, Fresh
<1>7. ASSUME NEW j \in Jobs, ReadId(j) \/ WriteId(j)
      PROVE  RunOnce'
  <2>1. /\ UNCHANGED <<queue, schedulerVars, threadVars>>
        /\ \A k \in Jobs : request'[k] # "added" => request[k] # "added"
    BY <1>7 DEF ReadId, WriteId, TypeOK
  <2> QED BY <2>1 DEF schedulerVars, threadVars, RunOnce, Fresh
<1> QED BY <1>1, <1>2, <1>3, <1>4, <1>5, <1>6, <1>7, AddJobOnce, TakeJobOnce
        DEF Next, SchedulerThread

(* runJob starts the listener before the mapper.                           *)
LEMMA ListenerFirstStep ==
  ASSUME TypeOK, HandOver, ThreadsOfTheJob, RunOnce, ListenerFirst, [Next]_vars
  PROVE  ListenerFirst'
<1>1. CASE MakeMapper \/ MakeListener \/ StartListener \/ StartMapper
  <2>1. running \in Jobs /\ running = hand
    BY <1>1 DEF MakeMapper, MakeListener, StartListener, StartMapper, HandOver, Working
  <2> QED BY <1>1, <2>1 DEF MakeMapper, MakeListener, StartListener, StartMapper,
             ListenerFirst, ThreadsOfTheJob, RunOnce, Fresh, TypeOK
<1>2. CASE SchedulerThread /\ ~(MakeMapper \/ MakeListener \/ StartListener \/ StartMapper)
  <2>1. UNCHANGED threadVars
    BY <1>2 DEF SchedulerThread, TakeJob, AssignJob, WaitMapper, JoinMapper,
       WaitListener, JoinListener, RecordJob,
       FinishJob, ClearJob, EndScheduler
  <2> QED BY <2>1 DEF ListenerFirst, threadVars
<1>3. ASSUME NEW j \in Jobs, EndMapper(j) \/ EndListener(j)
      PROVE  ListenerFirst'
  BY <1>3 DEF EndMapper, EndListener, TypeOK, Alive, ListenerFirst
<1>4. CASE StopScheduler \/ Stopping
  BY <1>4, StopThreads DEF AfterInterrupt, ListenerFirst
<1>5. CASE UNCHANGED threadVars
  BY <1>5 DEF ListenerFirst, threadVars
<1> QED BY <1>1, <1>2, <1>3, <1>4, <1>5, QuietSteps

(* RunOnce and ListenerFirst hold in every reachable state.                *)
LEMMA OnceInvariance == Spec => [](IInv /\ RunOnce /\ ListenerFirst)
<1>1. Init => RunOnce /\ ListenerFirst
  <2>1. DOMAIN << >> = {}
    OBVIOUS
  <2> QED BY <2>1, SchedulerAssumption DEF Init, RunOnce, ListenerFirst, Fresh
<1>2. IInv /\ RunOnce /\ ListenerFirst /\ [Next]_vars => RunOnce' /\ ListenerFirst'
  BY RunOnceStep, ListenerFirstStep DEF IInv
<1> QED BY <1>1, <1>2, Invariance, PTL DEF Spec

-----------------------------------------------------------------------------
(* The scheduler ends when it is interrupted.                              *)

(* The scheduler's thread at the steps of runJob and run, interrupted      *)
Heard(state) == interrupted /\ spc = state

(* The steps that may follow each, once the thread has been interrupted: a *)
(* join that has to wait ends it, another one goes on.                     *)
After(state) ==
  CASE state = "assign" -> {"mapper"}
    [] state = "mapper" -> {"listener"}
    [] state = "listener" -> {"startListener"}
    [] state = "startListener" -> {"startMapper"}
    [] state = "startMapper" -> {"joinMapper"}
    [] state \in MapperJoin -> {"joinListener", "ended"}
    [] state \in ListenerJoin -> {"record", "ended"}
    [] state = "record" -> {"finish"}
    [] state = "finish" -> {"clear"}
    [] state = "clear" -> {"take"}
    [] OTHER -> {"ended"}

(* An interrupt is not forgotten by the scheduler.                         *)
LEMMA InterruptStays ==
  ASSUME [Next]_vars, interrupted
  PROVE  interrupted'
<1>1. CASE Stopping
  BY <1>1 DEF Stopping, StopMapper, StopListener, StopJoinsMapper,
     StopJoinsListener, InterruptScheduler, StopJoinsScheduler
<1>2. CASE StopScheduler
  BY <1>2 DEF StopScheduler
<1>3. CASE UNCHANGED vars
  BY <1>3 DEF vars, stopVars
<1> QED BY <1>1, <1>2, <1>3, RequestFrame, SchedulerFrame, EndFrame, ListFrame
        DEF Next, stopVars

(* Until it has ended only its own thread moves it, from step to step.     *)
LEMMA HeardStep ==
  ASSUME [Next]_vars, NEW s \in {"take", "assign", "mapper", "listener", "startListener",
                                 "startMapper", "joinMapper", "waitMapper",
                                 "joinListener", "waitListener", "record", "finish",
                                 "clear"},
         Heard(s)
  PROVE  IF SchedulerThread THEN \E t \in After(s) : Heard(t)' ELSE Heard(s)'
<1>1. interrupted'
  BY InterruptStays DEF Heard
<1>2. ~SchedulerThread => spc' = spc
  BY OthersFrame DEF schedulerVars
<1>3. SchedulerThread => spc' \in After(s)
  BY DEF Heard, After, SchedulerThread, TakeJob, AssignJob, MakeMapper,
     MakeListener, StartListener, StartMapper, WaitMapper, JoinMapper, WaitListener,
     JoinListener, RecordJob,
     FinishJob, ClearJob, EndScheduler
<1> QED BY <1>1, <1>2, <1>3 DEF Heard

(* The scheduler can take a step when it is interrupted (see CanStop).     *)
SchedulerCanGoOn == interrupted /\ spc # "ended" => ENABLED <<SchedulerThread>>_vars

(* The scheduler's step to one of two others, or a step of another thread  *)
Moves(s, t, u) == \/ SchedulerThread /\ (Heard(t)' \/ Heard(u)')
                  \/ ~SchedulerThread /\ Heard(s)'

(* A scheduler that is interrupted ends, wherever it is in run or runJob.  *)
LEMMA SchedulerEnds ==
  Spec /\ WF_vars(SchedulerThread) /\ []SchedulerCanGoOn
    => (interrupted ~> Heard("ended"))
<1>1. TypeOK /\ interrupted =>
        \/ Heard("assign") \/ Heard("mapper") \/ Heard("listener") \/ Heard("startListener")
        \/ Heard("startMapper") \/ Heard("joinMapper") \/ Heard("waitMapper")
        \/ Heard("joinListener") \/ Heard("waitListener")
        \/ Heard("record") \/ Heard("finish") \/ Heard("clear") \/ Heard("take")
        \/ Heard("ended")
  BY DEF TypeOK, Heard
<1>2. [Next]_vars =>
        /\ Heard("assign") => Moves("assign", "mapper", "mapper")
        /\ Heard("mapper") => Moves("mapper", "listener", "listener")
        /\ Heard("listener") => Moves("listener", "startListener", "startListener")
        /\ Heard("startListener") => Moves("startListener", "startMapper", "startMapper")
        /\ Heard("startMapper") => Moves("startMapper", "joinMapper", "joinMapper")
        /\ Heard("joinMapper") => Moves("joinMapper", "joinListener", "ended")
        /\ Heard("waitMapper") => Moves("waitMapper", "joinListener", "ended")
        /\ Heard("joinListener") => Moves("joinListener", "record", "ended")
        /\ Heard("waitListener") => Moves("waitListener", "record", "ended")
        /\ Heard("record") => Moves("record", "finish", "finish")
        /\ Heard("finish") => Moves("finish", "clear", "clear")
        /\ Heard("clear") => Moves("clear", "take", "take")
        /\ Heard("take") => Moves("take", "ended", "ended")
  BY HeardStep DEF After, Moves
<1>3. /\ Heard("assign") => interrupted /\ spc # "ended"
      /\ Heard("mapper") => interrupted /\ spc # "ended"
      /\ Heard("listener") => interrupted /\ spc # "ended"
      /\ Heard("startListener") => interrupted /\ spc # "ended"
      /\ Heard("startMapper") => interrupted /\ spc # "ended"
      /\ Heard("joinMapper") => interrupted /\ spc # "ended"
      /\ Heard("waitMapper") => interrupted /\ spc # "ended"
      /\ Heard("joinListener") => interrupted /\ spc # "ended"
      /\ Heard("waitListener") => interrupted /\ spc # "ended"
      /\ Heard("record") => interrupted /\ spc # "ended"
      /\ Heard("finish") => interrupted /\ spc # "ended"
      /\ Heard("clear") => interrupted /\ spc # "ended"
      /\ Heard("take") => interrupted /\ spc # "ended"
  BY DEF Heard
<1>4. SchedulerCanGoOn /\ interrupted /\ spc # "ended" => ENABLED <<SchedulerThread>>_vars
  BY DEF SchedulerCanGoOn
<1> QED BY <1>1, <1>2, <1>3, <1>4, TypeCorrect, PTL DEF Spec, Moves

-----------------------------------------------------------------------------
(* The stop of a job returns.                                              *)

(* What a thread is once it has been interrupted                           *)
Ending == {"interrupted", "ended"}

(* The thread ends because of the interrupt, as Fairness has it.           *)
MapperHears(j) == mapper[j] = "interrupted" /\ EndMapper(j)
ListenerHears(j) == listener[j] = "interrupted" /\ EndListener(j)

(* A thread that was interrupted or has ended is not made again: no job is *)
(* run twice.                                                              *)
LEMMA EndingStays ==
  ASSUME IInv, RunOnce, [Next]_vars, NEW j \in Jobs
  PROVE  /\ mapper[j] \in Ending => mapper'[j] \in {mapper[j], "ended"}
         /\ listener[j] \in Ending => listener'[j] \in {listener[j], "ended"}
<1> USE DEF Ending
<1>0. TypeOK /\ HandOver
  BY DEF IInv
<1>1. CASE MakeMapper \/ MakeListener \/ StartListener \/ StartMapper
  <2>1. running \in Jobs /\ running = hand
    BY <1>0, <1>1 DEF MakeMapper, MakeListener, StartListener, StartMapper, HandOver,
       Working
  <2> QED BY <1>0, <1>1, <2>1 DEF MakeMapper, MakeListener, StartListener, StartMapper,
             RunOnce, Fresh, TypeOK
<1>2. CASE SchedulerThread /\ ~(MakeMapper \/ MakeListener \/ StartListener \/ StartMapper)
  <2>1. UNCHANGED threadVars
    BY <1>2 DEF SchedulerThread, TakeJob, AssignJob, WaitMapper, JoinMapper,
       WaitListener, JoinListener, RecordJob,
       FinishJob, ClearJob, EndScheduler
  <2> QED BY <2>1 DEF threadVars
<1>3. ASSUME NEW k \in Jobs, EndMapper(k) \/ EndListener(k)
      PROVE  /\ mapper'[j] \in {mapper[j], "ended"}
             /\ listener'[j] \in {listener[j], "ended"}
  BY <1>0, <1>3 DEF EndMapper, EndListener, TypeOK
<1>4. CASE StopScheduler \/ Stopping
  BY <1>0, <1>4, StopThreads DEF AfterInterrupt
<1>5. CASE UNCHANGED threadVars
  BY <1>5 DEF threadVars
<1> QED BY <1>1, <1>2, <1>3, <1>4, <1>5, QuietSteps

(* A job that was interrupted or is over is never started again.           *)
THEOREM JobsAreNotRestarted == Spec => NotStartedAgain
<1>1. IInv /\ RunOnce /\ [Next]_vars =>
        \A j \in Jobs :
          /\ mapper[j] \in {"interrupted", "ended"} => mapper'[j] \in {mapper[j], "ended"}
          /\ listener[j] \in {"interrupted", "ended"} =>
               listener'[j] \in {listener[j], "ended"}
  BY EndingStays DEF Ending
<1> QED BY <1>1, OnceInvariance, PTL DEF Spec, NotStartedAgain

(* Nobody else moves a stop that is under way.                             *)
LEMMA StopKept ==
  ASSUME [Next]_vars, ~Stopping, stop # "idle"
  PROVE  UNCHANGED stopVars
<1>1. CASE UNCHANGED vars
  BY <1>1 DEF vars
<1>2. ~StopScheduler
  BY DEF StopScheduler
<1> QED BY <1>1, <1>2, RequestFrame, SchedulerFrame, EndFrame, ListFrame DEF Next

(* Where the stop of a job is: it has interrupted the mapper, waits for    *)
(* it, waits for the listener                                              *)
Interrupting(j) == stop = "listener" /\ target = j /\ mapper[j] \in Ending
WaitsMapper(j) ==
  stop = "joinMapper" /\ target = j /\ mapper[j] \in Ending /\ listener[j] \in Ending
WaitsListener(j) == stop = "joinListener" /\ target = j /\ listener[j] \in Ending

(* stopJob, step by step: each waits for what the one before has asked for.*)
LEMMA StopOfJob ==
  ASSUME IInv, RunOnce, ListenerFirst, [Next]_vars, NEW j \in Jobs
  PROVE  /\ Interrupting(j) => IF Stopping THEN WaitsMapper(j)' ELSE Interrupting(j)'
         /\ WaitsMapper(j) => IF Stopping THEN WaitsListener(j)' /\ ~Alive(mapper[j])
                              ELSE WaitsMapper(j)'
         /\ WaitsListener(j) => IF Stopping THEN stop' = "interrupt" /\ ~Alive(listener[j])
                                ELSE WaitsListener(j)'
         /\ stop = "interrupt" => IF Stopping THEN stop' = "join" /\ interrupted'
                                  ELSE stop' = "interrupt"
         /\ stop = "join" => IF Stopping THEN stop' = "returned" /\ spc = "ended"
                             ELSE stop' = "join"
<1>1. CASE ~Stopping
  <2>1. stop # "idle" => stop' = stop /\ target' = target
    BY <1>1, StopKept DEF stopVars
  <2>2. /\ mapper[j] \in Ending => mapper'[j] \in Ending
        /\ listener[j] \in Ending => listener'[j] \in Ending
    BY EndingStays DEF Ending
  <2> QED BY <1>1, <2>1, <2>2 DEF Interrupting, WaitsMapper, WaitsListener
<1>2. CASE Stopping
  <2>1. ASSUME Interrupting(j) PROVE WaitsMapper(j)'
    <3>1. /\ stop = "listener" /\ target = j /\ StopListener
          /\ mapper[j] \in Ending
      BY <1>2, <2>1 DEF Interrupting, Stopping, StopMapper, StopListener, StopJoinsMapper,
         StopJoinsListener, InterruptScheduler, StopJoinsScheduler
    <3>2. /\ listener[j] \in {"running", "interrupted", "ended"}
          /\ listener \in [Jobs -> ThreadStates]
      BY <3>1 DEF ListenerFirst, Ending, IInv, TypeOK, ThreadStates
    <3>3. /\ stop' = "joinMapper" /\ mapper' = mapper /\ target' = target
          /\ listener' = [listener EXCEPT ![j] = AfterInterrupt(@)]
      BY <3>1, <3>2 DEF StopListener
    <3>4. listener'[j] = AfterInterrupt(listener[j])
      BY <3>2, <3>3
    <3>5. AfterInterrupt(listener[j]) \in Ending
      BY <3>2 DEF AfterInterrupt, Ending
    <3> QED BY <3>1, <3>3, <3>4, <3>5 DEF WaitsMapper
  <2>2. ASSUME WaitsMapper(j) PROVE WaitsListener(j)' /\ ~Alive(mapper[j])
    BY <1>2, <2>2 DEF WaitsMapper, WaitsListener, Stopping, StopMapper, StopListener,
       StopJoinsMapper, StopJoinsListener, InterruptScheduler, StopJoinsScheduler,
       threadVars
  <2>3. ASSUME WaitsListener(j) PROVE stop' = "interrupt" /\ ~Alive(listener[j])
    BY <1>2, <2>3 DEF WaitsListener, Stopping, StopMapper, StopListener,
       StopJoinsMapper, StopJoinsListener, InterruptScheduler, StopJoinsScheduler
  <2>4. stop = "interrupt" => stop' = "join" /\ interrupted'
    BY <1>2 DEF Stopping, StopMapper, StopListener,
       StopJoinsMapper, StopJoinsListener, InterruptScheduler, StopJoinsScheduler
  <2>5. stop = "join" => stop' = "returned" /\ spc = "ended"
    BY <1>2 DEF Stopping, StopMapper, StopListener,
       StopJoinsMapper, StopJoinsListener, InterruptScheduler, StopJoinsScheduler
  <2> QED BY <1>2, <2>1, <2>2, <2>3, <2>4, <2>5
<1> QED BY <1>1, <1>2

(* The steps whose guards are met can be taken: ENABLED is out of the      *)
(* provers' reach, and the theorem takes this as its hypothesis.           *)
CanStop(j) ==
  /\ interrupted /\ spc # "ended" => ENABLED <<SchedulerThread>>_vars
  /\ \/ Interrupting(j)
     \/ WaitsMapper(j) /\ mapper[j] = "ended"
     \/ WaitsListener(j) /\ listener[j] = "ended"
     \/ stop = "interrupt"
     \/ stop = "join" /\ spc = "ended"
     => ENABLED <<Stopping>>_vars
  /\ mapper[j] = "interrupted" => ENABLED <<MapperHears(j)>>_vars
  /\ listener[j] = "interrupted" => ENABLED <<ListenerHears(j)>>_vars

(* StopReturns, for the stop of one job: it returns, whatever the job and  *)
(* the scheduler are doing, if the threads run and those of the job end    *)
(* when they are interrupted (JobScheduler.stopJobScheduler, Job.stopJob). *)
THEOREM StopOfJobReturns ==
  ASSUME NEW j \in Jobs
  PROVE  /\ Spec
         /\ WF_vars(SchedulerThread) /\ WF_vars(Stopping)
         /\ WF_vars(MapperHears(j)) /\ WF_vars(ListenerHears(j))
         /\ []CanStop(j)
         => (\/ stop = "interrupt"
             \/ stop = "listener" /\ target = j /\ mapper[j] \in {"interrupted", "ended"}
             ~> stop = "returned")
<1> DEFINE Inv == IInv /\ RunOnce /\ ListenerFirst
           MapperGone == WaitsMapper(j) /\ mapper[j] = "ended"
           MapperLeft == WaitsMapper(j) /\ mapper[j] = "interrupted"
           ListenerGone == WaitsListener(j) /\ listener[j] = "ended"
           ListenerLeft == WaitsListener(j) /\ listener[j] = "interrupted"
           Joins == stop = "join" /\ interrupted
           F == /\ Spec
                /\ WF_vars(SchedulerThread) /\ WF_vars(Stopping)
                /\ WF_vars(MapperHears(j)) /\ WF_vars(ListenerHears(j))
                /\ []CanStop(j)
<1>1. Inv /\ [Next]_vars /\ Interrupting(j) =>
        \/ Stopping /\ (MapperGone \/ MapperLeft)'
        \/ ~Stopping /\ Interrupting(j)'
  BY StopOfJob DEF WaitsMapper, Ending
<1>2. Inv /\ [Next]_vars /\ MapperLeft => MapperLeft' \/ MapperGone'
  BY StopOfJob DEF WaitsMapper, Ending, Alive
<1>3. Inv /\ [Next]_vars /\ MapperLeft /\ <<MapperHears(j)>>_vars => MapperGone'
  <2> SUFFICES ASSUME Inv, [Next]_vars, MapperLeft, MapperHears(j) PROVE MapperGone'
    OBVIOUS
  <2>1. mapper'[j] = "ended"
    BY DEF MapperHears, EndMapper, IInv, TypeOK
  <2> QED BY <1>2, <2>1
<1>4. Inv /\ [Next]_vars /\ MapperGone =>
        \/ Stopping /\ (ListenerGone \/ ListenerLeft)'
        \/ ~Stopping /\ MapperGone'
  BY StopOfJob, EndingStays DEF WaitsMapper, WaitsListener, Ending
<1>5. Inv /\ [Next]_vars /\ ListenerLeft => ListenerLeft' \/ ListenerGone'
  BY StopOfJob DEF WaitsListener, Ending, Alive
<1>6. Inv /\ [Next]_vars /\ ListenerLeft /\ <<ListenerHears(j)>>_vars => ListenerGone'
  <2> SUFFICES ASSUME Inv, [Next]_vars, ListenerLeft, ListenerHears(j) PROVE ListenerGone'
    OBVIOUS
  <2>1. listener'[j] = "ended"
    BY DEF ListenerHears, EndListener, IInv, TypeOK
  <2> QED BY <1>5, <2>1
<1>7. Inv /\ [Next]_vars /\ ListenerGone =>
        \/ Stopping /\ (stop = "interrupt")'
        \/ ~Stopping /\ ListenerGone'
  BY StopOfJob, EndingStays DEF WaitsListener, Ending
<1>8. Inv /\ [Next]_vars /\ stop = "interrupt" =>
        \/ Stopping /\ Joins'
        \/ ~Stopping /\ (stop = "interrupt")'
  BY StopOfJob
<1>9. Inv /\ [Next]_vars /\ Joins =>
        \/ Stopping /\ (stop = "returned")'
        \/ ~Stopping /\ Joins'
  BY StopOfJob, InterruptStays
<1>10. Inv /\ [Next]_vars /\ Heard("ended") => Heard("ended")'
  <2> SUFFICES ASSUME [Next]_vars, Heard("ended") PROVE Heard("ended")'
    OBVIOUS
  <2>1. ~SchedulerThread
    BY DEF Heard, SchedulerThread, TakeJob, AssignJob, MakeMapper, MakeListener,
       StartListener, StartMapper, WaitMapper, JoinMapper, WaitListener, JoinListener,
       RecordJob, FinishJob,
       ClearJob, EndScheduler
  <2> QED BY <2>1, OthersFrame, InterruptStays DEF Heard, schedulerVars
<1>11. /\ Joins => interrupted
       /\ Inv /\ Interrupting(j) => ~MapperGone /\ ~MapperLeft
  BY DEF Interrupting, WaitsMapper
<1>12. /\ CanStop(j) => SchedulerCanGoOn
       /\ CanStop(j) /\ (Interrupting(j) \/ MapperGone \/ ListenerGone \/ stop = "interrupt")
            => ENABLED <<Stopping>>_vars
       /\ CanStop(j) /\ Joins /\ Heard("ended") => ENABLED <<Stopping>>_vars
       /\ CanStop(j) /\ MapperLeft => ENABLED <<MapperHears(j)>>_vars
       /\ CanStop(j) /\ ListenerLeft => ENABLED <<ListenerHears(j)>>_vars
  BY DEF CanStop, SchedulerCanGoOn, Heard
<1>13. stop = "listener" /\ target = j /\ mapper[j] \in {"interrupted", "ended"}
         => Interrupting(j)
  BY DEF Interrupting, Ending
<1>14. Spec => []Inv
  BY OnceInvariance, PTL
<1>15. Spec => [][Next]_vars
  BY PTL DEF Spec
<1> HIDE DEF Inv, MapperGone, MapperLeft, ListenerGone, ListenerLeft, Joins
<1>16. F => (Joins ~> stop = "returned")
  BY <1>9, <1>10, <1>11, <1>12, <1>14, <1>15, SchedulerEnds, PTL
<1>17. F => (stop = "interrupt" ~> Joins)
  BY <1>8, <1>12, <1>14, <1>15, PTL
<1>18. F => (MapperLeft \/ MapperGone ~> ListenerLeft \/ ListenerGone)
  BY <1>2, <1>3, <1>4, <1>12, <1>14, <1>15, PTL
<1>19. F => (ListenerLeft \/ ListenerGone ~> stop = "interrupt")
  BY <1>5, <1>6, <1>7, <1>12, <1>14, <1>15, PTL
<1>20. F => (Interrupting(j) ~> MapperLeft \/ MapperGone)
  BY <1>1, <1>12, <1>14, <1>15, PTL
<1> QED BY <1>13, <1>16, <1>17, <1>18, <1>19, <1>20, PTL

-----------------------------------------------------------------------------
(* The refinement of JobQueue.                                             *)

(* A scheduler that has ended keeps the job it was at; a job that is done  *)
(* is over.                                                                *)
TurnInv ==
  /\ spc = "ended" => running = hand
  /\ \A j \in ToSet(done) : mapper[j] = "ended"

(* An appended element is the only one that is new.                        *)
LEMMA ToSetAppend ==
  ASSUME NEW S, NEW s \in Seq(S), NEW e \in S
  PROVE  ToSet(Append(s, e)) = ToSet(s) \cup {e}
<1>1. <<e>> \in Seq(S) /\ Append(s, e) = s \o <<e>>
  BY AppendIsConcat
<1>2. ToSet(s \o <<e>>) = ToSet(s) \cup ToSet(<<e>>)
  BY <1>1, ToSetConcat
<1>3. ToSet(<<e>>) = {e}
  BY ToSetSmall
<1> QED BY <1>1, <1>2, <1>3

(* What is done stays over: no job is run twice.                           *)
LEMMA TurnStep ==
  ASSUME IInv, RunOnce, TurnInv, [Next]_vars
  PROVE  TurnInv'
<1>0. TypeOK /\ HandOver /\ ThreadsOfTheJob /\ ToSet(done) \subseteq Jobs
  BY ToSetType DEF IInv, TypeOK
<1>1. spc' = "ended" => running' = hand'
  <2>1. CASE SchedulerThread
    BY <1>0, <2>1 DEF SchedulerThread, TakeJob, AssignJob, MakeMapper, MakeListener,
       StartListener, StartMapper, WaitMapper, JoinMapper, WaitListener, JoinListener,
       RecordJob, FinishJob, ClearJob,
       EndScheduler, HandOver, Working
  <2>2. CASE ~SchedulerThread
    BY <2>2, OthersFrame DEF schedulerVars, TurnInv
  <2> QED BY <2>1, <2>2
<1>2. \A j \in ToSet(done) : mapper'[j] = "ended"
  BY <1>0, EndingStays DEF Ending, TurnInv
<1>3. CASE RecordJob
  <2>1. running \in Jobs /\ mapper[running] = "ended" /\ mapper' = mapper
    BY <1>0, <1>3 DEF RecordJob, HandOver, Working, ThreadsOfTheJob, Over, threadVars
  <2>2. ToSet(done') = ToSet(done) \cup {running}
    BY <1>0, <1>3, <2>1, ToSetAppend DEF RecordJob, TypeOK
  <2> QED BY <1>1, <1>2, <2>1, <2>2 DEF TurnInv
<1>4. CASE ~RecordJob
  <2>1. done' = done
    <3>1. CASE SchedulerThread
      BY <1>4, <3>1 DEF SchedulerThread, TakeJob, AssignJob, MakeMapper, MakeListener,
         StartListener, StartMapper, WaitMapper, JoinMapper, WaitListener, JoinListener,
         FinishJob, ClearJob,
         EndScheduler
    <3>2. CASE ~SchedulerThread
      BY <3>2, OthersFrame DEF schedulerVars
    <3> QED BY <3>1, <3>2
  <2> QED BY <1>1, <1>2, <2>1 DEF TurnInv
<1> QED BY <1>3, <1>4

(* The threads that are alive are those of the job whose turn it is.       *)
LEMMA AliveInHand ==
  /\ IInv /\ TurnInv => AliveJobs \subseteq {hand} \ {None}
  /\ (IInv /\ TurnInv)' => AliveJobs' \subseteq {hand'} \ {None}
<1> USE SchedulerAssumption DEF IInv, TurnInv, AliveIsRunning, HandOver, Working, AliveJobs
<1>1. IInv /\ TurnInv => AliveJobs \subseteq {hand} \ {None}
  OBVIOUS
<1>2. (IInv /\ TurnInv)' => AliveJobs' \subseteq {hand'} \ {None}
  OBVIOUS
<1> QED BY <1>1, <1>2

(* Every step of the scheduler is a step of JobQueue, or none: addJob adds *)
(* a job that is nowhere yet, take begins one when no other is in hand, a  *)
(* job is recorded when its threads have ended, and in every other step    *)
(* threads of the job in hand start or end.                                *)
LEMMA TurnsStep ==
  ASSUME IInv, RunOnce, TurnInv, IInv', TurnInv', [Next]_vars
  PROVE  [Turns!Next]_Turns!vars
<1>0. /\ TypeOK /\ HandOver /\ AliveIsRunning
      /\ ToSet(done) \subseteq Jobs /\ ToSet(queue) \subseteq Jobs
  BY ToSetType DEF IInv, TypeOK
<1>1. /\ AliveJobs \subseteq {hand} \ {None}
      /\ AliveJobs' \subseteq {hand'} \ {None}
  BY AliveInHand
<1>2. ASSUME NEW j \in Jobs, AddJob(j)
      PROVE  Turns!Add(j)
  <2>1. Fresh(j) /\ j # hand /\ j \notin ToSet(queue)
    BY <1>2 DEF AddJob, RunOnce, ToSet
  <2>2. j \notin ToSet(done)
    BY <2>1 DEF TurnInv, Fresh
  <2>3. UNCHANGED <<hand, done, mapper, listener>> /\ queue' = Append(queue, j)
    BY <1>2 DEF AddJob, schedulerVars, threadVars
  <2>4. AliveJobs' = AliveJobs
    BY <2>3 DEF AliveJobs
  <2> QED BY <2>1, <2>2, <2>3, <2>4 DEF Turns!Add, Turns!ToSet, ToSet
<1>3. CASE TakeJob
  <2>1. /\ hand = None /\ queue # << >> /\ hand' = Head(queue) /\ queue' = Tail(queue)
        /\ UNCHANGED <<done, mapper, listener>>
    BY <1>0, <1>3 DEF TakeJob, HandOver, threadVars
  <2>2. AliveJobs' = AliveJobs
    BY <2>1 DEF AliveJobs
  <2> QED BY <2>1, <2>2 DEF Turns!Next, Turns!Begin
<1>4. CASE RecordJob
  <2>1. /\ hand # None /\ running = hand /\ done' = Append(done, hand) /\ hand' = None
        /\ UNCHANGED <<queue, mapper, listener>>
    BY <1>0, <1>4, SchedulerAssumption DEF RecordJob, HandOver, Working, threadVars
  <2>2. AliveJobs = {} /\ AliveJobs' = AliveJobs
    BY <1>0, <1>4, <2>1 DEF AliveJobs, AliveIsRunning, RecordJob
  <2> QED BY <2>1, <2>2 DEF Turns!Next, Turns!End
<1>5. CASE ~TakeJob /\ ~RecordJob /\ ~(\E j \in Jobs : AddJob(j))
  <2>1. UNCHANGED <<queue, hand, done>>
    <3>1. CASE SchedulerThread
      BY <1>5, <3>1 DEF SchedulerThread, AssignJob, MakeMapper, MakeListener, StartListener,
         StartMapper, WaitMapper, JoinMapper, WaitListener, JoinListener, FinishJob,
         ClearJob, EndScheduler
    <3>2. CASE ~SchedulerThread
      <4>1. UNCHANGED schedulerVars
        BY <3>2, OthersFrame
      <4>2. UNCHANGED queue
        BY <1>5, <3>2, EndFrame, StopFrame, ListFrame DEF Next, ReadId, WriteId, vars
      <4> QED BY <4>1, <4>2 DEF schedulerVars
    <3> QED BY <3>1, <3>2
  <2>2. CASE hand # None
    BY <1>1, <2>1, <2>2 DEF Turns!Next, Turns!Work
  <2>3. CASE hand = None
    <3>1. AliveJobs = {} /\ AliveJobs' = {}
      BY <1>1, <2>1, <2>3
    <3> QED BY <2>1, <3>1 DEF Turns!vars
  <2> QED BY <2>2, <2>3
<1> QED BY <1>2, <1>3, <1>4, <1>5 DEF Turns!Next

(* The scheduler keeps the promise of JobQueue.                            *)
THEOREM TurnsAreKept == Spec => RunsInTurn
<1>1. Init => TurnInv /\ Turns!Init
  <2>1. ToSet(<< >>) = {}
    BY ToSetSmall
  <2> QED BY <2>1 DEF Init, TurnInv, Turns!Init, AliveJobs, Alive
<1>2. IInv /\ RunOnce /\ TurnInv /\ [Next]_vars => TurnInv'
  BY TurnStep
<1>3. IInv /\ RunOnce /\ TurnInv /\ (IInv /\ TurnInv)' /\ [Next]_vars
        => [Turns!Next]_Turns!vars
  BY TurnsStep
<1>4. Spec => []TurnInv
  BY <1>1, <1>2, OnceInvariance, PTL DEF Spec
<1> QED BY <1>1, <1>3, <1>4, OnceInvariance, PTL DEF Spec, RunsInTurn, Turns!Spec
=============================================================================
