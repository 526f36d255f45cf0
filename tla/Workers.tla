------------------------------ MODULE Workers ------------------------------
(***************************************************************************)
(* The volunteers of the computation as the server sees them: the Worker   *)
(* objects of WorkerServer, the queue of idle workers, the thread pool     *)
(* that reads their sockets and the communication buffer the answers are   *)
(* put in.  A worker is one connection: a browser that comes back after a  *)
(* disconnection is another worker.                                        *)
(*                                                                         *)
(* The module keeps the state and the operations; MapReduce says who calls *)
(* them and when.                                                          *)
(***************************************************************************)
EXTENDS Naturals, Sequences, SequencesExt

CONSTANTS
  Workers,    \* the connections that may be opened
  Mortal,     \* those of them that may be lost
  PoolSize    \* workerThreadPoolSize: the reader threads of the server

ASSUME WorkersAssumption ==
  /\ Mortal \subseteq Workers
  /\ PoolSize \in Nat \ {0}

VARIABLES
  conn,       \* socket of each worker: "new", "open" or "closed"
  idle,       \* m_lstWorkerIdle, the queue of idle workers
  status,     \* m_status of each worker
  pool,       \* readers given to m_threadPool that have not returned, in order
  pending,    \* tasks whose answer is still to be read from the worker
  buffer      \* m_communicationBuffer, the answers read so far

workerVars == <<conn, idle, status, pool, pending, buffer>>

WorkersInit ==
  /\ conn    = [w \in Workers |-> "new"]
  /\ idle    = << >>
  /\ status  = [w \in Workers |-> "IDLE"]
  /\ pool    = << >>
  /\ pending = [w \in Workers |-> {}]
  /\ buffer  = << >>

-----------------------------------------------------------------------------
(* Operations of the map/reduce threads on the workers.                    *)

(* WorkerServer.getIdleWorker: blocks while no worker is idle.  Taking the *)
(* head and marking it WORKING are one step: between the two statements    *)
(* the worker is in no queue and its status is still IDLE, as before.      *)
GetIdleWorker(w) ==
  /\ idle # << >>
  /\ w = Head(idle)
  /\ idle' = Tail(idle)
  /\ status' = [status EXCEPT ![w] = "WORKING"]

(* WorkerServer.setIdleWorker                                              *)
SetIdleWorker(w) ==
  /\ status' = [status EXCEPT ![w] = "IDLE"]
  /\ idle' = Append(idle, w)

(* Client.sendMsg: what is written to a socket that is closed is lost, and *)
(* the exception is swallowed.                                             *)
SendMsg(w, t) ==
  pending' = IF conn[w] = "open"
             THEN [pending EXCEPT ![w] = @ \cup {t}]
             ELSE pending

(* Worker.sendTask                                                         *)
SendTask(w, t) ==
  /\ status' = [status EXCEPT ![w] = "WORKING"]
  /\ SendMsg(w, t)

-----------------------------------------------------------------------------
(* What the network and the server's other threads do.                     *)

(* The accept thread constructs the Worker, which addClient puts into the  *)
(* queue of idle workers, and gives its reader to the thread pool.         *)
Connect(w) ==
  /\ conn[w] = "new"
  /\ conn' = [conn EXCEPT ![w] = "open"]
  /\ idle' = Append(idle, w)
  /\ pool' = Append(pool, w)
  /\ UNCHANGED <<status, pending, buffer>>

(* The pool has PoolSize threads and serves its queue in order: the        *)
(* readers that run are the oldest ones that have not returned.            *)
Reading(w) == \E i \in 1..Len(pool) : i <= PoolSize /\ pool[i] = w

(* The browser answers one of the tasks it was sent, in any order since    *)
(* the job's script is loaded asynchronously, and the reader thread puts   *)
(* the answer into the buffer.                                             *)
Answer(w) ==
  /\ Reading(w)
  /\ \E t \in pending[w] :
       /\ pending' = [pending EXCEPT ![w] = @ \ {t}]
       /\ buffer'  = Append(buffer, [from |-> w, task |-> t])
  /\ UNCHANGED <<conn, idle, status, pool>>

(* The browser goes away; some of its answers may already be on the wire.  *)
Disconnect(w) ==
  /\ w \in Mortal
  /\ conn[w] = "open"
  /\ conn' = [conn EXCEPT ![w] = "closed"]
  /\ \E onTheWire \in SUBSET pending[w] :
       pending' = [pending EXCEPT ![w] = onTheWire]
  /\ UNCHANGED <<idle, status, pool, buffer>>

(* The reader meets the end of the stream and removes its client: once     *)
(* from the idle queue, whatever the worker was doing.                     *)
RemoveClient(w) ==
  /\ Reading(w)
  /\ conn[w] = "closed"
  /\ pending[w] = {}
  /\ pool' = RemoveFirst(pool, w)
  /\ idle' = RemoveFirst(idle, w)
  /\ UNCHANGED <<conn, status, pending, buffer>>

WorkersNext ==
  \E w \in Workers :
    Connect(w) \/ Answer(w) \/ Disconnect(w) \/ RemoveClient(w)
=============================================================================
