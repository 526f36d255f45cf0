------------------------------- MODULE Server -------------------------------
(***************************************************************************)
(* What the server sends to everyone and how it is stopped: the scheduler  *)
(* writes a message to each client of the list after a job (KaliyaLogger's *)
(* log and Server.sendAllMsg) while clients come and go and their readers  *)
(* take them out of the list; KaliyaServer.stopServer closes the clients   *)
(* and then stops the scheduler.  To write to a client and to close it     *)
(* take the client's monitor, and to write waits for a browser that does   *)
(* not read.                                                               *)
(*                                                                         *)
(* How the size of the list, of which ids are made, gets wrong is the      *)
(* subject of Registry, the scheduler's jobs of Scheduler: here the size   *)
(* is right and the job that was run is over.                              *)
(***************************************************************************)
EXTENDS Integers, Sequences, SequencesExt

CONSTANTS
  Clients,  \* the clients that may connect, numbered in the order they do
  Slow,     \* those whose browser may stop to read, once, for a while or
            \* for ever
  Rounds,   \* bound: the messages that are sent to everyone
  None      \* no client, nobody

ASSUME ServerAssumption ==
  /\ Clients \subseteq Nat
  /\ Slow \subseteq Clients
  /\ Rounds \in Nat
  /\ None \notin Clients

VARIABLES
  clientList,  \* m_clientList, in its order
  id,          \* m_id of each client: "Node" followed by this number
  displaced,   \* history: who lost the place in the list to another or was
               \* removed in the stead of another
  socket,      \* of each client: "new", "open", "left" by the browser, "closed"
  browser,     \* of each client: "reads", "stalled", "readsOn"
  monitor,     \* who is in a synchronized method of each client
  reader,      \* next step of Client.run: "none", "read", "close", "ended"
  spc,         \* next step of the scheduler
  round,       \* messages sent so far
  iterator,    \* the client that the iterator of sendAllMsg returns next
  changed,     \* a client was added or removed since the iterator was made
  current,     \* the client that is written to
  received,    \* history: who got the message, in order
  listed,      \* history: who has been in the list since the iterator was made
  interrupted, \* interrupt status of the scheduler
  stop,        \* next step of KaliyaServer.stopServer
  toClose,     \* the clients of stopServer's copy that are not closed yet
  disturbed    \* a client was removed while the copy was made

listVars   == <<clientList, id, displaced>>
clientVars == <<listVars, socket, browser, monitor, reader>>
sendVars   == <<spc, round, iterator, changed, current, received, listed>>
stopVars   == <<interrupted, stop, toClose, disturbed>>
vars == <<clientVars, sendVars, stopVars>>

Init ==
  /\ clientList = << >>
  /\ id = [c \in Clients |-> 0]
  /\ displaced = {}
  /\ socket  = [c \in Clients |-> "new"]
  /\ browser = [c \in Clients |-> "reads"]
  /\ monitor = [c \in Clients |-> None]
  /\ reader  = [c \in Clients |-> "none"]
  /\ spc = "work" /\ round = 0
  /\ iterator = None /\ changed = FALSE /\ current = None
  /\ received = << >> /\ listed = {}
  /\ interrupted = FALSE
  /\ stop = "idle" /\ toClose = << >> /\ disturbed = FALSE

-----------------------------------------------------------------------------
(* The clients.                                                            *)

(* Who is listed under an id: one client at most                           *)
Holder(i) == {c \in ToSet(clientList) : id[c] = i}

InPlaceOf(old, c) ==
  [n \in 1..Len(clientList) |-> IF clientList[n] \in old THEN c ELSE clientList[n]]

(* Mutant: stopServer does not wait for the accept thread.                 *)
ConnectAnyTime(c) ==
  LET old == Holder(Len(clientList)) IN
  /\ socket[c] = "new"
  /\ \A d \in Clients : d < c => socket[d] # "new"
  /\ socket' = [socket EXCEPT ![c] = "open"]
  /\ id' = [id EXCEPT ![c] = Len(clientList)]
  /\ clientList' = IF old = {} THEN Append(clientList, c) ELSE InPlaceOf(old, c)
  /\ changed' = (changed \/ old = {})
  /\ iterator' = IF iterator \in old THEN c ELSE iterator
  /\ listed' = listed \ old
  /\ displaced' = displaced \cup old
  /\ reader' = [reader EXCEPT ![c] = "read"]
  /\ UNCHANGED <<browser, monitor, spc, round, current, received, stopVars>>

(* The worker's id is made of the size of the list; Server.addClient puts  *)
(* it in the place of the client that has this id already, which no        *)
(* iterator notices, and at the end otherwise.  The reader is given to the *)
(* pool.                                                                   *)
Connect(c) ==
  LET old == Holder(Len(clientList)) IN
  /\ socket[c] = "new"
  /\ \A d \in Clients : d < c => socket[d] # "new"
  /\ stop = "idle"
  /\ socket' = [socket EXCEPT ![c] = "open"]
  /\ id' = [id EXCEPT ![c] = Len(clientList)]
  /\ clientList' = IF old = {} THEN Append(clientList, c) ELSE InPlaceOf(old, c)
  /\ changed' = (changed \/ old = {})
  /\ iterator' = IF iterator \in old THEN c ELSE iterator
  /\ listed' = listed \ old
  /\ displaced' = displaced \cup old
  /\ reader' = [reader EXCEPT ![c] = "read"]
  /\ UNCHANGED <<browser, monitor, spc, round, current, received, stopVars>>

Stall(c) ==
  /\ c \in Slow /\ browser[c] = "reads"
  /\ socket[c] = "open"
  /\ browser' = [browser EXCEPT ![c] = "stalled"]
  /\ UNCHANGED <<listVars, socket, monitor, reader, sendVars, stopVars>>

ReadOn(c) ==
  /\ browser[c] = "stalled"
  /\ socket[c] = "open"
  /\ browser' = [browser EXCEPT ![c] = "readsOn"]
  /\ UNCHANGED <<listVars, socket, monitor, reader, sendVars, stopVars>>

Leave(c) ==
  /\ socket[c] = "open"
  /\ socket' = [socket EXCEPT ![c] = "left"]
  /\ UNCHANGED <<listVars, browser, monitor, reader, sendVars, stopVars>>

(* Server.removeClient when the reader finds the end of the stream: it     *)
(* removes whoever is listed under the id, whom the copy of stopServer, if *)
(* it is being made, may have got already or not get any more.             *)
RemoveClient(c) ==
  /\ reader[c] = "read"
  /\ socket[c] \in {"left", "closed"}
  /\ reader' = [reader EXCEPT ![c] = "close"]
  /\ \/ /\ Holder(id[c]) = {}
        /\ UNCHANGED <<clientList, displaced, changed, listed, toClose, disturbed>>
     \/ \E d \in Holder(id[c]) :
          /\ clientList' = RemoveFirst(clientList, d)
          /\ displaced' = displaced \cup ({d} \ {c})
          /\ changed' = TRUE
          /\ listed' = listed \ {d}
          /\ disturbed' = (disturbed \/ stop = "copy")
          /\ \/ UNCHANGED toClose
             \/ stop = "copy" /\ toClose' = RemoveFirst(toClose, d)
  /\ UNCHANGED <<id, socket, browser, monitor, spc, round, iterator, current, received,
                 interrupted, stop>>

(* Client.closeConnection, for which the monitor must be free              *)
Close(c) ==
  /\ monitor[c] = None
  /\ socket' = [socket EXCEPT ![c] = "closed"]

CloseAtEnd(c) ==
  /\ reader[c] = "close"
  /\ Close(c)
  /\ reader' = [reader EXCEPT ![c] = "ended"]
  /\ UNCHANGED <<listVars, browser, monitor, sendVars, stopVars>>

Reader(c) == RemoveClient(c) \/ CloseAtEnd(c)

-----------------------------------------------------------------------------
(* The scheduler between two jobs: KaliyaLogger.log and sendAllMsg.        *)

(* Mutant: the iterator moves by two.                                      *)
AfterNext(c) ==
  IF \E n \in 1..Len(clientList) - 2 : clientList[n] = c
  THEN clientList[(CHOOSE n \in 1..Len(clientList) - 2 : clientList[n] = c) + 2]
  ELSE None

(* Who comes after client c in the list                                    *)
After(c) ==
  IF \E n \in 1..Len(clientList) - 1 : clientList[n] = c
  THEN clientList[(CHOOSE n \in 1..Len(clientList) - 1 : clientList[n] = c) + 1]
  ELSE None

(* The iterator over the values of the list is made.                       *)
BeginRound ==
  /\ spc = "work" /\ ~interrupted
  /\ round < Rounds
  /\ round' = round + 1
  /\ iterator' = IF clientList = << >> THEN None ELSE Head(clientList)
  /\ changed' = FALSE
  /\ received' = << >>
  /\ listed' = ToSet(clientList)
  /\ spc' = "next"
  /\ UNCHANGED <<clientVars, current, stopVars>>

(* Mutant: after a change the loop begins again.                           *)
RestartRound ==
  /\ spc = "next"
  /\ \/ /\ iterator = None
        /\ spc' = "work"
        /\ UNCHANGED <<iterator, changed>>
     \/ /\ iterator # None /\ changed
        /\ iterator' = IF clientList = << >> THEN None ELSE Head(clientList)
        /\ changed' = FALSE
        /\ UNCHANGED spc
  /\ UNCHANGED <<clientVars, round, current, received, listed, stopVars>>

(* The loop is over, or next throws because the list has changed; then     *)
(* sendAllMsg catches the exception and returns.                           *)
EndRound ==
  /\ spc = "next"
  /\ iterator = None \/ changed
  /\ spc' = "work"
  /\ UNCHANGED <<clientVars, round, iterator, changed, current, received, listed,
                 stopVars>>

(* next; without a lock the thread may not see yet that the list has       *)
(* changed, and goes on to the client that now comes after, if one does.   *)
NextClient ==
  /\ spc = "next"
  /\ iterator # None
  /\ current' = iterator
  /\ iterator' = After(iterator)
  /\ spc' = "lock"
  /\ UNCHANGED <<clientVars, round, changed, received, listed, stopVars>>

(* Client.sendMsg                                                          *)
Lock ==
  /\ spc = "lock"
  /\ monitor[current] = None
  /\ monitor' = [monitor EXCEPT ![current] = "scheduler"]
  /\ spc' = "write"
  /\ UNCHANGED <<listVars, socket, browser, reader, round, iterator, changed,
                 current, received, listed, stopVars>>

(* Waits while the browser does not read; what is written to a socket that *)
(* is not open throws, which sendMsg catches.                              *)
Write ==
  /\ spc = "write"
  /\ socket[current] = "open" => browser[current] # "stalled"
  /\ received' = IF socket[current] = "open" THEN Append(received, current) ELSE received
  /\ monitor' = [monitor EXCEPT ![current] = None]
  /\ spc' = "next"
  /\ UNCHANGED <<listVars, socket, browser, reader, round, iterator, changed,
                 current, listed, stopVars>>

(* take throws, and the loop of JobScheduler.run ends.                     *)
EndScheduler ==
  /\ spc = "work" /\ interrupted
  /\ spc' = "ended"
  /\ UNCHANGED <<clientVars, round, iterator, changed, current, received, listed,
                 stopVars>>

SchedulerThread ==
  EndRound \/ NextClient \/ Lock \/ Write \/ EndScheduler

-----------------------------------------------------------------------------
(* KaliyaServer.stopServer.                                                *)

(* Server.stopServer makes the iterator of its copy, which takes no lock,  *)
(* when the accept thread has ended.                                       *)
StopServer ==
  /\ stop = "idle"
  /\ toClose' = clientList
  /\ stop' = "copy"
  /\ UNCHANGED <<clientVars, sendVars, interrupted, disturbed>>

(* If a client was removed meanwhile the iterator may throw, and nobody is *)
(* closed; if it does not see it, the copy may end early.                  *)
EndCopy ==
  /\ stop = "copy"
  /\ \/ ~disturbed /\ UNCHANGED toClose
     \/ disturbed /\ \E n \in 0..Len(toClose) : toClose' = SubSeq(toClose, 1, n)
  /\ stop' = "close"
  /\ UNCHANGED <<clientVars, sendVars, interrupted, disturbed>>

CloseClient ==
  /\ stop = "close" /\ toClose # << >>
  /\ Close(Head(toClose))
  /\ toClose' = Tail(toClose)
  /\ UNCHANGED <<listVars, browser, monitor, reader, sendVars,
                 interrupted, stop, disturbed>>

(* Mutant: the scheduler is joined without being interrupted.              *)
OnlyJoinScheduler ==
  /\ stop = "close" /\ toClose = << >>
  /\ stop' = "join"
  /\ UNCHANGED <<clientVars, sendVars, interrupted, toClose, disturbed>>

(* stopJobScheduler interrupts the scheduler and joins it.                 *)
StopScheduler ==
  /\ stop = "close" /\ toClose = << >>
  /\ interrupted' = TRUE
  /\ stop' = "join"
  /\ UNCHANGED <<clientVars, sendVars, toClose, disturbed>>

JoinScheduler ==
  /\ stop = "join" /\ spc = "ended"
  /\ stop' = "returned"
  /\ UNCHANGED <<clientVars, sendVars, interrupted, toClose, disturbed>>

Stopping == EndCopy \/ CloseClient \/ StopScheduler \/ JoinScheduler

-----------------------------------------------------------------------------
Next ==
  \/ \E c \in Clients : Connect(c) \/ Stall(c) \/ ReadOn(c) \/ Leave(c) \/ Reader(c)
  \/ BeginRound \/ SchedulerThread
  \/ StopServer \/ Stopping

Spec == Init /\ [][Next]_vars

(* The threads of the server run; no browser need read on.                 *)
Fairness ==
  /\ WF_vars(SchedulerThread)
  /\ WF_vars(Stopping)
  /\ \A c \in Clients : WF_vars(Reader(c))

FairSpec == Spec /\ Fairness

-----------------------------------------------------------------------------
(* Properties.                                                             *)

TypeOK ==
  /\ clientList \in Seq(Clients)
  /\ id \in [Clients -> Nat] /\ displaced \subseteq Clients
  /\ socket  \in [Clients -> {"new", "open", "left", "closed"}]
  /\ browser \in [Clients -> {"reads", "stalled", "readsOn"}]
  /\ monitor \in [Clients -> {None, "scheduler"}]
  /\ reader  \in [Clients -> {"none", "read", "close", "ended"}]
  /\ spc \in {"work", "next", "lock", "write", "ended"}
  /\ round \in 0..Rounds
  /\ iterator \in Clients \cup {None} /\ current \in Clients \cup {None}
  /\ received \in Seq(Clients) /\ listed \subseteq Clients
  /\ changed \in BOOLEAN /\ interrupted \in BOOLEAN
  /\ stop \in {"idle", "copy", "close", "join", "returned"}
  /\ toClose \in Seq(Clients) /\ disturbed \in BOOLEAN

(* Two clients, the first of which the list has no later than the second   *)
Earlier(c, d) ==
  /\ c # d
  /\ \A p, q \in 1..Len(clientList) : clientList[p] = c /\ clientList[q] = d => p < q

(* Nobody gets a message twice, and who gets it gets it in the order of    *)
(* the list, whether or not the list changes meanwhile (sendAllMsg).       *)
SentOnce ==
  \A m, n \in 1..Len(received) : m < n => Earlier(received[m], received[n])

(* If the list has kept its length, everyone who has stayed in it and is   *)
(* still connected has the message in the end (sendAllMsg).                *)
UndisturbedReachesAll ==
  spc = "work" /\ round > 0 /\ ~changed =>
    \A c \in listed : socket[c] = "open" => c \in ToSet(received)

(* When the scheduler is interrupted no client is connected any more:      *)
(* those who were when the list was copied are closed, and nobody comes    *)
(* after that.  The scheduler then cannot wait for a browser that does not *)
(* read (KaliyaServer.stopServer stops the server before it).  Except      *)
(* clients that had lost their place in the list, an id being given twice, *)
(* and all of them if a client was removed while the list was copied.      *)
StopFindsNoneOpen ==
  stop \in {"join", "returned"} /\ ~disturbed =>
    \A c \in Clients \ displaced : socket[c] # "open"

(* Once stopServer has been called it returns and the scheduler ends,      *)
(* whoever it leaves open, although writers and closers wait for each      *)
(* other's monitors, and so do the readers of the clients it closes;       *)
(* unless the scheduler writes for ever to a browser that does not read    *)
(* any more, which closeConnection cannot cut off without the monitor      *)
(* (Client.sendMsg, closeConnection).                                      *)
ServerStops ==
  \/ stop # "idle" ~>
       /\ stop = "returned"
       /\ disturbed \/ \A c \in Clients \ displaced : reader[c] \in {"none", "ended"}
  \/ <>[](spc = "write" /\ socket[current] = "open" /\ browser[current] = "stalled")
=============================================================================
