------------------------------ MODULE Registry ------------------------------
(***************************************************************************)
(* The client list of the server: the accept thread (WorkerServer.run and  *)
(* Handler) takes the connections one at a time, gives each worker an id   *)
(* made of the size of the list and puts it there; the readers of the      *)
(* workers (Worker.runClient) remove them, by id; stopServer closes what   *)
(* it finds in the list.  The list is a LinkedHashMap without a lock, used *)
(* by all of these threads.                                                *)
(***************************************************************************)
EXTENDS Integers

CONSTANTS
  Conns,     \* the connections that may be made
  Policy,    \* those that ask for the crossdomain file
  MayReset,  \* those that may be reset
  None       \* no connection

ASSUME RegistryAssumption ==
  /\ Policy \subseteq Conns /\ MayReset \subseteq Conns
  /\ None \notin Conns /\ "accept" \notin Conns

VARIABLES
  conn,      \* "new", "waiting" for accept, "open", or closed by the
             \* "browser", by the "server" or "reset"
  byte,      \* connections whose first byte, or end, can be read
  apc,       \* next step of the accept thread
  current,   \* the connection the accept thread handles
  id,        \* m_id of each worker: "Node" followed by this number
  list,      \* m_clientList: the worker under each id that is in use
  size,      \* its size, a field of its own in the map
  reader,    \* next step of the reader of each worker
  seen,      \* the size each thread has read and is about to change
  crossDomain, \* the policy file has been read
  listening, \* the server socket is open
  stop,      \* next step of stopServer
  toClose,   \* its copy of the list
  disturbed, \* a removal has met the copy
  left       \* history: a client has been removed

connVars   == <<conn, byte>>
acceptVars == <<apc, current, id>>
listVars   == <<list, size, seen>>
serverVars == <<crossDomain, listening, stop, toClose, disturbed>>
vars == <<connVars, acceptVars, listVars, reader, serverVars, left>>

Init ==
  /\ conn = [c \in Conns |-> "new"]
  /\ byte = {}
  /\ apc = "accept" /\ current = None
  /\ id = [c \in Conns |-> 0]
  /\ list = [i \in {} |-> None]
  /\ size = 0
  /\ seen = [t \in Conns \cup {"accept"} |-> 0]
  /\ reader = [c \in Conns |-> "none"]
  /\ crossDomain = FALSE
  /\ listening = TRUE
  /\ stop = "idle" /\ toClose = {} /\ disturbed = FALSE
  /\ left = FALSE

Listed == {list[i] : i \in DOMAIN list}

Put(i, c)  == [j \in DOMAIN list \cup {i} |-> IF j = i THEN c ELSE list[j]]
Remove(i)  == [j \in DOMAIN list \ {i} |-> list[j]]

-----------------------------------------------------------------------------
(* The browsers.                                                           *)

(* A connection waits in the backlog of the server socket.                 *)
Dial(c) ==
  /\ conn[c] = "new"
  /\ listening
  /\ conn' = [conn EXCEPT ![c] = "waiting"]
  /\ UNCHANGED <<byte, acceptVars, listVars, reader, serverVars, left>>

(* connectHandler of kaliya.js writes at once; so does the flash player    *)
(* that asks for the policy.                                               *)
FirstByte(c) ==
  /\ conn[c] \in {"waiting", "open"}
  /\ c \notin byte
  /\ byte' = byte \cup {c}
  /\ UNCHANGED <<conn, acceptVars, listVars, reader, serverVars, left>>

(* The browser closes the connection; the end can be read like a byte, and *)
(* who leaves before asking for the policy is like any other.              *)
Leave(c) ==
  /\ conn[c] = "open"
  /\ c \in Policy => c \in byte
  /\ conn' = [conn EXCEPT ![c] = "browser"]
  /\ byte' = byte \cup {c}
  /\ UNCHANGED <<acceptVars, listVars, reader, serverVars, left>>

Reset(c) ==
  /\ c \in MayReset
  /\ conn[c] \in {"waiting", "open"}
  /\ conn' = [conn EXCEPT ![c] = "reset"]
  /\ UNCHANGED <<byte, acceptVars, listVars, reader, serverVars, left>>

-----------------------------------------------------------------------------
(* The listener of the web application makes the server, whose accept      *)
(* thread then runs, and reads the policy file afterwards.                 *)
SetCrossDomain ==
  /\ ~crossDomain
  /\ crossDomain' = TRUE
  /\ UNCHANGED <<connVars, acceptVars, listVars, reader, listening, stop, toClose,
                 disturbed, left>>

-----------------------------------------------------------------------------
(* The accept thread: WorkerServer.runServer and the constructor of        *)
(* Handler it calls.                                                       *)

Accept(c) ==
  /\ apc = "accept"
  /\ listening
  /\ conn[c] \in {"waiting", "reset"}
  /\ reader[c] = "none"
  /\ conn' = [conn EXCEPT ![c] = IF @ = "waiting" THEN "open" ELSE @]
  /\ current' = c
  /\ apc' = "read"
  /\ UNCHANGED <<byte, id, listVars, reader, serverVars, left>>

(* To read from a connection that was reset, or to write to it, throws an  *)
(* IOException, which ends runServer; accept throws one when the server    *)
(* socket is closed.  A request for the policy before it has been read     *)
(* meets null, and that exception is caught by nobody.                     *)
EndServer ==
  /\ \/ apc = "accept" /\ ~listening
     \/ apc = "read" /\ conn[current] = "reset"
     \/ apc = "read" /\ current \in byte \cap Policy /\ ~crossDomain
  /\ apc' = "ended"
  /\ UNCHANGED <<connVars, current, id, listVars, reader, serverVars, left>>

AnswerPolicy ==
  /\ apc = "read"
  /\ current \in byte \cap Policy
  /\ conn[current] # "reset" /\ crossDomain
  /\ conn' = [conn EXCEPT ![current] = "server"]
  /\ apc' = "accept"
  /\ current' = None
  /\ UNCHANGED <<byte, id, listVars, reader, serverVars, left>>

(* Mutant: the id of the first client of all is given to everyone.         *)
MakeSameId ==
  /\ apc = "read"
  /\ current \in byte \ Policy
  /\ id' = [id EXCEPT ![current] = 0]
  /\ apc' = "put"
  /\ UNCHANGED <<connVars, current, listVars, reader, serverVars, left>>

(* Mutant: at the end of the stream the byte is read again.                *)
WaitForByte ==
  /\ apc = "read"
  /\ current \in byte \ Policy
  /\ conn[current] # "browser"
  /\ id' = [id EXCEPT ![current] = size]
  /\ apc' = "put"
  /\ UNCHANGED <<connVars, current, listVars, reader, serverVars, left>>

(* The constructor of Worker makes the id; the end of the stream is        *)
(* handled like any byte.                                                  *)
MakeWorker ==
  /\ apc = "read"
  /\ current \in byte \ Policy
  /\ id' = [id EXCEPT ![current] = size]
  /\ apc' = "put"
  /\ UNCHANGED <<connVars, current, listVars, reader, serverVars, left>>

(* Server.addClient: put replaces the client that has the same id, and     *)
(* grows the list otherwise.                                               *)
AddClient ==
  /\ apc = "put"
  /\ list' = Put(id[current], current)
  /\ IF id[current] \notin DOMAIN list
     THEN apc' = "grow" /\ seen' = [seen EXCEPT !["accept"] = size]
     ELSE apc' = "execute" /\ UNCHANGED seen
  /\ UNCHANGED <<connVars, current, id, size, reader, serverVars, left>>

Grow ==
  /\ apc = "grow"
  /\ size' = seen["accept"] + 1
  /\ seen' = [seen EXCEPT !["accept"] = 0]
  /\ apc' = "execute"
  /\ UNCHANGED <<connVars, current, id, list, reader, serverVars, left>>

(* The reader is given to the thread pool.                                 *)
Execute ==
  /\ apc = "execute"
  /\ reader' = [reader EXCEPT ![current] = "reading"]
  /\ current' = None
  /\ apc' = "accept"
  /\ UNCHANGED <<connVars, id, listVars, serverVars, left>>

AcceptThread ==
  \/ \E c \in Conns : Accept(c)
  \/ EndServer \/ AnswerPolicy \/ MakeWorker \/ AddClient \/ Grow \/ Execute

-----------------------------------------------------------------------------
(* The readers: the end of Worker.runClient.                               *)

(* Mutant: the client is not taken out of the list.                        *)
ForgetClient(c) ==
  /\ reader[c] = "reading"
  /\ conn[c] \notin {"open"}
  /\ reader' = [reader EXCEPT ![c] = "close"]
  /\ left' = TRUE
  /\ UNCHANGED <<connVars, acceptVars, listVars, serverVars>>

(* Server.removeClient removes whoever has the id of the client.           *)
RemoveClient(c) ==
  /\ reader[c] = "reading"
  /\ conn[c] # "open"
  /\ left' = TRUE
  /\ list' = Remove(id[c])
  /\ IF id[c] \notin DOMAIN list
     THEN reader' = [reader EXCEPT ![c] = "close"] /\ UNCHANGED seen
     ELSE reader' = [reader EXCEPT ![c] = "shrink"] /\ seen' = [seen EXCEPT ![c] = size]
  /\ disturbed' = (disturbed \/ (stop = "copy" /\ id[c] \in DOMAIN list))
  /\ UNCHANGED <<connVars, acceptVars, size, crossDomain, listening, stop, toClose>>

Shrink(c) ==
  /\ reader[c] = "shrink"
  /\ size' = seen[c] - 1
  /\ seen' = [seen EXCEPT ![c] = 0]
  /\ reader' = [reader EXCEPT ![c] = "close"]
  /\ UNCHANGED <<connVars, acceptVars, list, serverVars, left>>

CloseConnection(c) ==
  /\ reader[c] = "close"
  /\ conn' = [conn EXCEPT ![c] = "server"]
  /\ reader' = [reader EXCEPT ![c] = "ended"]
  /\ UNCHANGED <<byte, acceptVars, listVars, serverVars, left>>

Reader(c) == RemoveClient(c) \/ Shrink(c) \/ CloseConnection(c)

-----------------------------------------------------------------------------
(* Server.stopServer.                                                      *)

(* The server socket is closed and the accept thread interrupted.          *)
StopServer ==
  /\ stop = "idle"
  /\ listening' = FALSE
  /\ stop' = "join"
  /\ UNCHANGED <<connVars, acceptVars, listVars, reader, crossDomain, toClose,
                 disturbed, left>>

(* Mutant: the list is copied without waiting for the accept thread.       *)
CopyAtOnce ==
  /\ stop = "join"
  /\ toClose' = Listed
  /\ disturbed' = (\E c \in Conns : reader[c] = "shrink")
  /\ stop' = "copy"
  /\ UNCHANGED <<connVars, acceptVars, listVars, reader, crossDomain, listening, left>>

(* join, and the iterator of the copy, which takes no lock: a client that  *)
(* is being removed disturbs it, too.                                      *)
BeginCopy ==
  /\ stop = "join"
  /\ apc = "ended"
  /\ toClose' = Listed
  /\ disturbed' = (\E c \in Conns : reader[c] = "shrink")
  /\ stop' = "copy"
  /\ UNCHANGED <<connVars, acceptVars, listVars, reader, crossDomain, listening, left>>

(* If a client is removed meanwhile and the iterator does not see it, the  *)
(* copy may end early or leave out any.                                    *)
EndCopy ==
  /\ stop = "copy"
  /\ toClose' \in (IF disturbed THEN SUBSET toClose ELSE {toClose})
  /\ stop' = "close"
  /\ UNCHANGED <<connVars, acceptVars, listVars, reader, crossDomain, listening,
                 disturbed, left>>

(* If it does see it, it throws, and stopServer returns at once.           *)
FailCopy ==
  /\ stop = "copy" /\ disturbed
  /\ toClose' = {}
  /\ stop' = "returned"
  /\ UNCHANGED <<connVars, acceptVars, listVars, reader, crossDomain, listening,
                 disturbed, left>>

CloseClients ==
  /\ stop = "close"
  /\ conn' = [c \in Conns |-> IF c \in toClose THEN "server" ELSE conn[c]]
  /\ stop' = "returned"
  /\ UNCHANGED <<byte, acceptVars, listVars, reader, crossDomain, listening, toClose,
                 disturbed, left>>

Stopping == BeginCopy \/ EndCopy \/ FailCopy \/ CloseClients

-----------------------------------------------------------------------------
Next ==
  \/ \E c \in Conns : Dial(c) \/ FirstByte(c) \/ Leave(c) \/ Reset(c) \/ Reader(c)
  \/ AcceptThread
  \/ SetCrossDomain \/ StopServer \/ Stopping

Spec == Init /\ [][Next]_vars

(* The accept thread runs, a browser that is connected writes, and the     *)
(* policy file is read.                                                    *)
Fairness ==
  /\ WF_vars(AcceptThread)
  /\ WF_vars(SetCrossDomain)
  /\ \A c \in Conns : WF_vars(FirstByte(c))

FairSpec == Spec /\ Fairness

-----------------------------------------------------------------------------
(* Properties.                                                             *)

TypeOK ==
  /\ conn \in [Conns -> {"new", "waiting", "open", "browser", "server", "reset"}]
  /\ byte \subseteq Conns
  /\ apc \in {"accept", "read", "put", "grow", "execute", "ended"}
  /\ current \in Conns \cup {None}
  /\ apc \in {"read", "put", "grow", "execute"} => current \in Conns
  /\ id \in [Conns -> Int]
  /\ list \in [DOMAIN list -> Conns] /\ DOMAIN list \subseteq Int
  /\ size \in Int
  /\ seen \in [Conns \cup {"accept"} -> Int]
  /\ reader \in [Conns -> {"none", "reading", "shrink", "close", "ended"}]
  /\ crossDomain \in BOOLEAN /\ listening \in BOOLEAN /\ left \in BOOLEAN
  /\ disturbed \in BOOLEAN
  /\ stop \in {"idle", "join", "copy", "close", "returned"}
  /\ toClose \subseteq Conns

Connected == {c \in Conns : conn[c] = "open" /\ reader[c] = "reading"}

(* A worker whose reader has removed it is not in the list, although ids   *)
(* are given twice and a client may take the place of another or be        *)
(* removed in its stead (Server.addClient, Server.removeClient).           *)
RemovedIsNotListed ==
  \A c \in Conns : reader[c] \in {"shrink", "close", "ended"} => c \notin Listed

(* Until a first client has left, every client that is connected is in the *)
(* list (Worker's id from getClientCount).                                 *)
ListedUntilOneLeaves == ~left => Connected \subseteq Listed

(* Once stopServer has returned no client of the list is open, unless a    *)
(* removal met its copy: the list does not grow any more then, because the *)
(* accept thread has been joined, but the copy of a list without a lock    *)
(* may fail, and no client at all is closed then (stopServer).             *)
StopClosesListed ==
  stop = "returned" /\ ~disturbed => \A c \in Listed : conn[c] # "open"

(* The accept thread is done with every connection in the end, be it a     *)
(* worker, a request for the policy, one that is closed again before it    *)
(* has written anything or one that is reset (Handler).                    *)
NoConnectionHoldsAccept ==
  current # None /\ apc # "ended" ~> current = None \/ apc = "ended"

(* The documented loop of runServer, which adds the clients to the thread  *)
(* pool when they connect: the accept thread comes back from every         *)
(* connection for the next one, unless the server is stopped.              *)
AcceptComesBack == apc # "accept" ~> apc = "accept" \/ ~listening
=============================================================================
