--------------------------- MODULE RegistryProofs ---------------------------
(***************************************************************************)
(* Theorems about Registry, for any number of connections: who is in the   *)
(* client list, what a stop of the server leaves open, and that the accept *)
(* thread gets rid of every connection it handles.                         *)
(***************************************************************************)
EXTENDS Registry, TLAPS

(* The accept thread has made the worker of a connection and not given its *)
(* reader to the pool; or it has put the worker into the list already.     *)
Making == apc \in {"read", "put", "grow", "execute"}
Put1   == apc \in {"grow", "execute"}

(* A worker is listed under its own id, and only between its being put     *)
(* there and the step of its reader that removes it.                       *)
ListInv ==
  /\ Making => reader[current] = "none"
  /\ \A i \in DOMAIN list : id[list[i]] = i
  /\ \A i \in DOMAIN list : reader[list[i]] = "reading" \/ (Put1 /\ list[i] = current)

(* Until a worker has left, the size of the list is above every id in it:  *)
(* the next worker takes nobody's place.                                   *)
NoneLeftInv ==
  ~left =>
    /\ \A c \in Conns : reader[c] \in {"none", "reading"}
    /\ \A i \in DOMAIN list : i < size \/ (apc = "grow" /\ i = size)
    /\ apc = "put" => id[current] = size
    /\ apc = "grow" => id[current] = size /\ seen["accept"] = size
    /\ \A c \in Conns : reader[c] = "reading" \/ (Put1 /\ c = current) =>
         id[c] \in DOMAIN list /\ list[id[c]] = c

(* When the list is copied nothing is added to it any more; the copy is    *)
(* complete unless a removal met it.                                       *)
StopInv ==
  /\ stop \in {"copy", "close", "returned"} => apc = "ended"
  /\ stop = "copy" => Listed \subseteq toClose
  /\ stop \in {"close", "returned"} /\ ~disturbed => Listed \subseteq toClose
  /\ stop = "returned" => \A c \in toClose : conn[c] = "server"

IInv == TypeOK /\ ListInv /\ NoneLeftInv /\ StopInv

-----------------------------------------------------------------------------
LEMMA InitIInv == Init => IInv
<1> SUFFICES ASSUME Init PROVE IInv
  OBVIOUS
<1>1. DOMAIN list = {}
  BY DEF Init
<1>2. list \in [DOMAIN list -> Conns]
  BY DEF Init
<1>3. TypeOK
  <2>1. /\ conn \in [Conns -> {"new", "waiting", "open", "browser", "server", "reset"}]
        /\ reader \in [Conns -> {"none", "reading", "shrink", "close", "ended"}]
        /\ id \in [Conns -> Int] /\ seen \in [Conns \cup {"accept"} -> Int]
        /\ size \in Int
    BY DEF Init
  <2> QED BY <1>1, <1>2, <2>1, Zenon DEF Init, TypeOK
<1>4. ListInv /\ NoneLeftInv /\ StopInv
  BY <1>1 DEF Init, ListInv, NoneLeftInv, StopInv, Making, Put1
<1> QED BY <1>3, <1>4 DEF IInv

(* The list after put and after remove                                     *)
LEMMA PutType ==
  ASSUME TypeOK, NEW i \in Int, NEW c \in Conns
  PROVE  /\ DOMAIN Put(i, c) = DOMAIN list \cup {i}
         /\ Put(i, c) \in [DOMAIN Put(i, c) -> Conns]
         /\ DOMAIN Put(i, c) \subseteq Int
         /\ \A j \in DOMAIN Put(i, c) : Put(i, c)[j] = IF j = i THEN c ELSE list[j]
BY DEF TypeOK, Put

LEMMA RemoveType ==
  ASSUME TypeOK, NEW i
  PROVE  /\ DOMAIN Remove(i) = DOMAIN list \ {i}
         /\ Remove(i) \in [DOMAIN Remove(i) -> Conns]
         /\ DOMAIN Remove(i) \subseteq Int
         /\ \A j \in DOMAIN Remove(i) : Remove(i)[j] = list[j]
BY DEF TypeOK, Remove

-----------------------------------------------------------------------------
(* The browsers and the policy file change nothing but the connections.    *)
LEMMA BrowserStep ==
  ASSUME IInv,
         \/ \E c \in Conns : Dial(c) \/ FirstByte(c) \/ Leave(c) \/ Reset(c)
         \/ SetCrossDomain
  PROVE  IInv'
<1>1. UNCHANGED <<acceptVars, listVars, reader, listening, stop, toClose, disturbed,
                  left>>
  BY DEF Dial, FirstByte, Leave, Reset, SetCrossDomain, serverVars
<1>2. TypeOK'
  <2>1. /\ conn' \in [Conns -> {"new", "waiting", "open", "browser", "server", "reset"}]
        /\ byte' \subseteq Conns /\ crossDomain' \in BOOLEAN
    BY DEF IInv, TypeOK, Dial, FirstByte, Leave, Reset, SetCrossDomain, connVars,
           serverVars
  <2> QED BY <1>1, <2>1 DEF IInv, TypeOK, acceptVars, listVars
<1>3. ListInv' /\ NoneLeftInv'
  BY <1>1 DEF IInv, ListInv, NoneLeftInv, Making, Put1, acceptVars, listVars
<1>4. \A c \in Conns : conn[c] = "server" => conn'[c] = "server"
  BY DEF IInv, TypeOK, Dial, FirstByte, Leave, Reset, SetCrossDomain, connVars
<1>5. StopInv'
  BY <1>1, <1>4 DEF IInv, TypeOK, StopInv, Listed, acceptVars, listVars
<1> QED BY <1>2, <1>3, <1>5 DEF IInv

LEMMA AcceptStep ==
  ASSUME IInv, AcceptThread
  PROVE  IInv'
<1> USE RegistryAssumption DEF acceptVars, listVars, connVars, serverVars
<1>1. ASSUME NEW c \in Conns, Accept(c)
      PROVE  IInv'
  <2>1. TypeOK'
    BY <1>1 DEF IInv, TypeOK, Accept
  <2>2. ListInv' /\ NoneLeftInv'
    BY <1>1 DEF IInv, TypeOK, ListInv, NoneLeftInv, Accept, Making, Put1
  <2>3. StopInv'
    BY <1>1 DEF IInv, TypeOK, StopInv, Accept, Listed
  <2> QED BY <2>1, <2>2, <2>3 DEF IInv
<1>2. CASE EndServer
  <2>1. TypeOK'
    BY <1>2 DEF IInv, TypeOK, EndServer
  <2>2. ListInv' /\ NoneLeftInv'
    BY <1>2 DEF IInv, TypeOK, ListInv, NoneLeftInv, EndServer, Making, Put1
  <2>3. StopInv'
    BY <1>2 DEF IInv, TypeOK, StopInv, EndServer, Listed
  <2> QED BY <2>1, <2>2, <2>3 DEF IInv
<1>3. CASE AnswerPolicy
  <2>1. TypeOK'
    BY <1>3 DEF IInv, TypeOK, AnswerPolicy
  <2>2. ListInv' /\ NoneLeftInv'
    BY <1>3 DEF IInv, TypeOK, ListInv, NoneLeftInv, AnswerPolicy, Making, Put1
  <2>3. StopInv'
    BY <1>3 DEF IInv, TypeOK, StopInv, AnswerPolicy, Listed
  <2> QED BY <2>1, <2>2, <2>3 DEF IInv
<1>4. CASE MakeWorker
  <2>1. TypeOK'
    BY <1>4 DEF IInv, TypeOK, MakeWorker
  <2>2. current \in Conns /\ \A i \in DOMAIN list : list[i] # current
    BY <1>4 DEF IInv, TypeOK, ListInv, MakeWorker, Making, Put1
  <2>3. \A c \in Conns : c # current => id'[c] = id[c]
    BY <1>4 DEF IInv, TypeOK, MakeWorker
  <2>4. ListInv'
    BY <1>4, <2>2, <2>3 DEF IInv, TypeOK, ListInv, MakeWorker, Making, Put1
  <2>5. NoneLeftInv'
    BY <1>4, <2>2, <2>3 DEF IInv, TypeOK, ListInv, NoneLeftInv, MakeWorker, Making, Put1
  <2>6. StopInv'
    BY <1>4 DEF IInv, TypeOK, StopInv, MakeWorker, Listed
  <2> QED BY <2>1, <2>4, <2>5, <2>6 DEF IInv
<1>5. CASE AddClient
  <2> DEFINE i == id[current]
  <2>1. /\ current \in Conns /\ i \in Int /\ apc = "put"
        /\ list' = Put(i, current)
        /\ UNCHANGED <<connVars, current, id, size, reader, serverVars, left>>
    BY <1>5 DEF IInv, TypeOK, AddClient
  <2>2. /\ DOMAIN list' = DOMAIN list \cup {i}
        /\ list' \in [DOMAIN list' -> Conns]
        /\ DOMAIN list' \subseteq Int
        /\ \A j \in DOMAIN list' : list'[j] = IF j = i THEN current ELSE list[j]
    <3> DEFINE P == Put(i, current)
    <3>1. /\ DOMAIN P = DOMAIN list \cup {i}
          /\ P \in [DOMAIN P -> Conns]
          /\ DOMAIN P \subseteq Int
          /\ \A j \in DOMAIN P : P[j] = IF j = i THEN current ELSE list[j]
      BY <2>1, PutType DEF IInv
    <3> HIDE DEF P, i
    <3> QED BY <2>1, <3>1 DEF P
  <2>3. TypeOK'
    BY <1>5, <2>1, <2>2 DEF IInv, TypeOK, AddClient
  <2>4. ListInv'
    BY <1>5, <2>1, <2>2 DEF IInv, ListInv, AddClient, Making, Put1
  <2>5. ASSUME ~left
        PROVE  NoneLeftInv'
    <3>1. i = size /\ \A j \in DOMAIN list : j < size
      BY <2>1, <2>5 DEF IInv, NoneLeftInv
    <3>2. i \notin DOMAIN list
      BY <3>1 DEF IInv, TypeOK
    <3>3. apc' = "grow" /\ seen'["accept"] = size
      BY <1>5, <3>2 DEF IInv, TypeOK, AddClient
    <3> QED BY <2>1, <2>2, <2>5, <3>1, <3>2, <3>3 DEF IInv, NoneLeftInv, Put1
  <2>6. NoneLeftInv'
    BY <2>1, <2>5 DEF NoneLeftInv
  <2>7. StopInv'
    BY <1>5, <2>1 DEF IInv, StopInv
  <2> QED BY <2>3, <2>4, <2>6, <2>7 DEF IInv
<1>6. CASE Grow
  <2>1. TypeOK'
    BY <1>6 DEF IInv, TypeOK, Grow
  <2>2. ListInv'
    BY <1>6 DEF IInv, ListInv, Grow, Making, Put1
  <2>3. NoneLeftInv'
    BY <1>6 DEF IInv, TypeOK, NoneLeftInv, Grow, Put1
  <2>4. StopInv'
    BY <1>6 DEF IInv, StopInv, Grow
  <2> QED BY <2>1, <2>2, <2>3, <2>4 DEF IInv
<1>7. CASE Execute
  <2>1. TypeOK'
    BY <1>7 DEF IInv, TypeOK, Execute
  <2>2. ListInv'
    BY <1>7 DEF IInv, TypeOK, ListInv, Execute, Making, Put1
  <2>3. NoneLeftInv'
    BY <1>7 DEF IInv, TypeOK, NoneLeftInv, Execute, Put1
  <2>4. StopInv'
    BY <1>7 DEF IInv, StopInv, Execute
  <2> QED BY <2>1, <2>2, <2>3, <2>4 DEF IInv
<1> QED BY <1>1, <1>2, <1>3, <1>4, <1>5, <1>6, <1>7 DEF AcceptThread

LEMMA ReaderStep ==
  ASSUME IInv, NEW c \in Conns, Reader(c)
  PROVE  IInv'
<1> USE RegistryAssumption DEF acceptVars, listVars, connVars, serverVars
<1>1. CASE RemoveClient(c)
  <2>1. /\ list' = Remove(id[c]) /\ left' = TRUE
        /\ UNCHANGED <<connVars, acceptVars, size, crossDomain, listening, stop, toClose>>
        /\ reader[c] = "reading" /\ (disturbed => disturbed') /\ disturbed' \in BOOLEAN
    BY <1>1 DEF RemoveClient
  <2>2. /\ DOMAIN list' = DOMAIN list \ {id[c]}
        /\ list' \in [DOMAIN list' -> Conns]
        /\ DOMAIN list' \subseteq Int
        /\ \A j \in DOMAIN list' : list'[j] = list[j]
    BY <2>1, RemoveType DEF IInv
  <2>3. \A d \in Conns : d # c => reader'[d] = reader[d]
    BY <1>1 DEF IInv, TypeOK, RemoveClient
  <2>4. \A j \in DOMAIN list' : list'[j] # c
    BY <2>2 DEF IInv, ListInv
  <2>5. TypeOK'
    BY <1>1, <2>1, <2>2 DEF IInv, TypeOK, RemoveClient
  <2>6. ListInv'
    <3>1. Making => current # c /\ current \in Conns
      BY <2>1 DEF IInv, TypeOK, ListInv, Making
    <3> QED BY <2>1, <2>2, <2>3, <2>4, <3>1 DEF IInv, TypeOK, ListInv, Making, Put1
  <2>7. NoneLeftInv'
    BY <2>1 DEF NoneLeftInv
  <2>8. StopInv'
    BY <2>1, <2>2 DEF IInv, StopInv, Listed
  <2> QED BY <2>5, <2>6, <2>7, <2>8 DEF IInv
<1>2. CASE Shrink(c)
  <2>1. TypeOK'
    BY <1>2 DEF IInv, TypeOK, Shrink
  <2>2. ListInv'
    BY <1>2 DEF IInv, TypeOK, ListInv, Shrink, Making, Put1
  <2>3. NoneLeftInv' /\ StopInv'
    BY <1>2 DEF IInv, TypeOK, NoneLeftInv, StopInv, Shrink, Listed
  <2> QED BY <2>1, <2>2, <2>3 DEF IInv
<1>3. CASE CloseConnection(c)
  <2>1. TypeOK'
    BY <1>3 DEF IInv, TypeOK, CloseConnection
  <2>2. ListInv'
    BY <1>3 DEF IInv, TypeOK, ListInv, CloseConnection, Making, Put1
  <2>3. NoneLeftInv' /\ StopInv'
    BY <1>3 DEF IInv, TypeOK, NoneLeftInv, StopInv, CloseConnection, Listed
  <2> QED BY <2>1, <2>2, <2>3 DEF IInv
<1> QED BY <1>1, <1>2, <1>3 DEF Reader

LEMMA StopStep ==
  ASSUME IInv, StopServer \/ Stopping
  PROVE  IInv'
<1>1. /\ UNCHANGED <<byte, acceptVars, listVars, reader, crossDomain, left>>
      /\ disturbed' \in BOOLEAN /\ listening' \in BOOLEAN
  BY DEF IInv, TypeOK, StopServer, Stopping, BeginCopy, EndCopy, FailCopy, CloseClients,
         connVars
<1>2. conn' = conn \/ CloseClients
  BY DEF StopServer, Stopping, BeginCopy, EndCopy, FailCopy, connVars
<1>3. conn' \in [Conns -> {"new", "waiting", "open", "browser", "server", "reset"}]
  BY <1>2 DEF IInv, TypeOK, CloseClients
<1>4. /\ toClose' \subseteq Conns
      /\ stop' \in {"idle", "join", "copy", "close", "returned"}
  BY DEF IInv, TypeOK, StopServer, Stopping, BeginCopy, EndCopy, FailCopy, CloseClients,
         Listed
<1>5. TypeOK'
  BY <1>1, <1>3, <1>4 DEF IInv, TypeOK, acceptVars, listVars
<1>6. ListInv' /\ NoneLeftInv' /\ Listed' = Listed
  BY <1>1 DEF IInv, ListInv, NoneLeftInv, Making, Put1, Listed, acceptVars, listVars
<1>7. StopInv'
  <2> USE <1>6 DEF IInv, StopInv, acceptVars
  <2>1. CASE StopServer
    BY <2>1 DEF StopServer
  <2>2. CASE BeginCopy
    BY <2>2 DEF BeginCopy
  <2>3. CASE EndCopy
    BY <2>3, Zenon DEF EndCopy, TypeOK
  <2>4. CASE FailCopy
    BY <2>4 DEF FailCopy
  <2>5. CASE CloseClients
    BY <2>5 DEF CloseClients, TypeOK
  <2> QED BY <2>1, <2>2, <2>3, <2>4, <2>5 DEF Stopping
<1> QED BY <1>5, <1>6, <1>7 DEF IInv

LEMMA NextIInv == IInv /\ [Next]_vars => IInv'
<1> SUFFICES ASSUME IInv, [Next]_vars PROVE IInv'
  OBVIOUS
<1>1. CASE UNCHANGED vars
  BY <1>1 DEF vars, connVars, acceptVars, listVars, serverVars, IInv, TypeOK, ListInv,
              NoneLeftInv, StopInv, Making, Put1, Listed
<1> QED BY <1>1, BrowserStep, AcceptStep, ReaderStep, StopStep DEF Next

LEMMA Invariance == Spec => []IInv
BY InitIInv, NextIInv, PTL DEF Spec

-----------------------------------------------------------------------------
(* The variables of the accept thread, the readers and the list keep their *)
(* types; the accept thread has a connection in hand when it handles one.  *)
THEOREM TypeCorrect == Spec => []TypeOK
<1>1. IInv => TypeOK
  BY DEF IInv
<1> QED BY <1>1, Invariance, PTL

(* Whatever ids are given twice, a worker that has been removed is not in  *)
(* the list (Server.addClient, Server.removeClient).                       *)
THEOREM NoRemovedListed == Spec => []RemovedIsNotListed
<1>1. IInv => RemovedIsNotListed
  BY DEF IInv, TypeOK, ListInv, RemovedIsNotListed, Listed, Making, Put1
<1> QED BY <1>1, Invariance, PTL

(* As long as nobody has left the list is complete (Worker's id).          *)
THEOREM CompleteUntilOneLeaves == Spec => []ListedUntilOneLeaves
<1>1. IInv => ListedUntilOneLeaves
  BY DEF IInv, NoneLeftInv, ListedUntilOneLeaves, Connected, Listed
<1> QED BY <1>1, Invariance, PTL

(* A stop that has returned leaves no client of the list open              *)
(* (Server.stopServer).                                                    *)
THEOREM StopLeavesNoneOpen == Spec => []StopClosesListed
<1>1. IInv => StopClosesListed
  BY DEF IInv, TypeOK, StopInv, StopClosesListed
<1> QED BY <1>1, Invariance, PTL

-----------------------------------------------------------------------------
(* What the accept thread waits for has come or is still to come: it holds *)
(* a connection that may write, that has written or left, or that was      *)
(* reset.  Nobody else closes it.                                          *)
HeldInv ==
  /\ apc = "read" => conn[current] \in {"open", "reset"} \/ current \in byte
  /\ apc = "accept" => current = None

LEMMA HeldStep == IInv /\ HeldInv /\ [Next]_vars => HeldInv'
<1> SUFFICES ASSUME IInv, HeldInv, [Next]_vars PROVE HeldInv'
  OBVIOUS
<1> USE DEF IInv, TypeOK, HeldInv, connVars, acceptVars
<1>1. ASSUME NEW c \in Conns, Dial(c) \/ FirstByte(c) \/ Leave(c) \/ Reset(c) PROVE HeldInv'
  BY <1>1 DEF Dial, FirstByte, Leave, Reset
<1>2. ASSUME NEW c \in Conns, Reader(c) PROVE HeldInv'
  BY <1>2 DEF Reader, RemoveClient, Shrink, CloseConnection, ListInv, Making
<1>3. CASE AcceptThread
  BY <1>3 DEF AcceptThread, Accept, EndServer, AnswerPolicy, MakeWorker, AddClient, Grow, Execute
<1>4. CASE SetCrossDomain \/ StopServer \/ Stopping
  BY <1>4 DEF SetCrossDomain, StopServer, Stopping, BeginCopy, EndCopy, FailCopy,
              CloseClients, StopInv
<1>5. CASE UNCHANGED vars
  BY <1>5 DEF vars
<1> QED BY <1>1, <1>2, <1>3, <1>4, <1>5 DEF Next

LEMMA HeldInvariance == Spec => []HeldInv
<1>1. Init => HeldInv
  BY DEF Init, HeldInv
<1> QED BY <1>1, HeldStep, Invariance, PTL DEF Spec

(* What of a connection the accept thread has not had yet, and has had     *)
Unread(c) == current = c /\ apc = "read" /\ conn[c] # "reset" /\ c \notin byte
Readable(c) == current = c /\ apc = "read" /\ (conn[c] = "reset" \/ c \in byte)
At(c, step) == current = c /\ apc = step
Released == current = None \/ apc = "ended"

(* The steps whose guards are met can be taken: ENABLED is out of the      *)
(* provers' reach, and the theorem takes this as its hypothesis.           *)
CanGoOn(c) ==
  /\ Unread(c) /\ conn[c] = "open" => ENABLED <<FirstByte(c)>>_vars
  /\ Readable(c) \/ At(c, "put") \/ At(c, "grow") \/ At(c, "execute") =>
       ENABLED <<AcceptThread>>_vars

LEMMA OthersLeaveIt ==
  ASSUME IInv, NEW c \in Conns, current = c, Making, [Next]_vars, ~AcceptThread
  PROVE  UNCHANGED <<current, apc>> /\ (c \in byte => c \in byte')
         /\ (conn[c] = "reset" => conn'[c] = "reset")
<1> USE DEF connVars, acceptVars, IInv, TypeOK
<1>1. ASSUME NEW d \in Conns, Dial(d) \/ FirstByte(d) \/ Leave(d) \/ Reset(d)
      PROVE  UNCHANGED <<current, apc>> /\ (c \in byte => c \in byte')
             /\ (conn[c] = "reset" => conn'[c] = "reset")
  BY <1>1 DEF Dial, FirstByte, Leave, Reset
<1>2. ASSUME NEW d \in Conns, Reader(d)
      PROVE  UNCHANGED <<current, apc, byte>> /\ conn'[c] = conn[c]
  BY <1>2 DEF Reader, RemoveClient, Shrink, CloseConnection, ListInv
<1>3. ASSUME SetCrossDomain \/ StopServer \/ Stopping \/ UNCHANGED vars
      PROVE  UNCHANGED <<current, apc, byte>> /\ conn'[c] = conn[c]
  BY <1>3 DEF SetCrossDomain, StopServer, Stopping, BeginCopy, EndCopy, FailCopy,
              CloseClients, StopInv, Making, vars
<1> QED BY <1>1, <1>2, <1>3 DEF Next

LEMMA AcceptGoesOn ==
  ASSUME IInv, NEW c \in Conns, current = c, Making, AcceptThread
  PROVE  /\ ~Unread(c)
         /\ Readable(c) => At(c, "put")' \/ Released'
         /\ At(c, "put") => At(c, "grow")' \/ At(c, "execute")'
         /\ At(c, "grow") => At(c, "execute")'
         /\ At(c, "execute") => Released'
BY DEF IInv, TypeOK, Making, AcceptThread, Accept, EndServer, AnswerPolicy, MakeWorker,
       AddClient, Grow, Execute, Unread, Readable, At, Released, acceptVars, connVars

(* NoConnectionHoldsAccept, for one connection: the accept thread is done  *)
(* with it in the end, if it runs and the browser writes its first byte or *)
(* closes, whatever the readers, the other browsers and a stop of the      *)
(* server do (Handler).                                                    *)
THEOREM AcceptIsReleased ==
  ASSUME NEW c \in Conns
  PROVE  Spec /\ WF_vars(AcceptThread) /\ WF_vars(FirstByte(c)) /\ []CanGoOn(c)
           => (current = c /\ apc # "ended" ~> Released)
<1> DEFINE Inv == IInv /\ HeldInv
<1>1. Inv /\ current = c /\ apc # "ended" =>
        Unread(c) \/ Readable(c) \/ At(c, "put") \/ At(c, "grow") \/ At(c, "execute")
  BY RegistryAssumption DEF IInv, TypeOK, HeldInv, Unread, Readable, At
<1>2. Inv /\ Unread(c) /\ [Next]_vars => Unread(c)' \/ Readable(c)'
  <2> SUFFICES ASSUME Inv, Unread(c), [Next]_vars PROVE Unread(c)' \/ Readable(c)'
    OBVIOUS
  <2>1. ~AcceptThread
    BY AcceptGoesOn DEF Unread, Making
  <2> QED BY <2>1, OthersLeaveIt DEF Unread, Readable, Making
<1>3. Inv /\ Unread(c) /\ <<FirstByte(c)>>_vars => Readable(c)'
  BY DEF FirstByte, Unread, Readable, acceptVars
<1>4. Inv /\ Readable(c) /\ [Next]_vars => Readable(c)' \/ At(c, "put")' \/ Released'
  <2> SUFFICES ASSUME Inv, Readable(c), [Next]_vars
               PROVE  Readable(c)' \/ At(c, "put")' \/ Released'
    OBVIOUS
  <2> QED BY AcceptGoesOn, OthersLeaveIt DEF Readable, Making
<1>5. Inv /\ Readable(c) /\ <<AcceptThread>>_vars => At(c, "put")' \/ Released'
  BY AcceptGoesOn DEF Readable, Making
<1>6. Inv /\ At(c, "put") /\ [Next]_vars => At(c, "put")' \/ At(c, "grow")' \/ At(c, "execute")'
  BY AcceptGoesOn, OthersLeaveIt DEF At, Making
<1>7. Inv /\ At(c, "put") /\ <<AcceptThread>>_vars => At(c, "grow")' \/ At(c, "execute")'
  BY AcceptGoesOn DEF At, Making
<1>8. Inv /\ At(c, "grow") /\ [Next]_vars => At(c, "grow")' \/ At(c, "execute")'
  BY AcceptGoesOn, OthersLeaveIt DEF At, Making
<1>9. Inv /\ At(c, "grow") /\ <<AcceptThread>>_vars => At(c, "execute")'
  BY AcceptGoesOn DEF At, Making
<1>10. Inv /\ At(c, "execute") /\ [Next]_vars => At(c, "execute")' \/ Released'
  BY AcceptGoesOn, OthersLeaveIt DEF At, Making
<1>11. Inv /\ At(c, "execute") /\ <<AcceptThread>>_vars => Released'
  BY AcceptGoesOn DEF At, Making
<1>12. Inv /\ Unread(c) /\ CanGoOn(c) => ENABLED <<FirstByte(c)>>_vars
  BY DEF CanGoOn, HeldInv, Unread
<1>13. CanGoOn(c) /\ (Readable(c) \/ At(c, "put") \/ At(c, "grow") \/ At(c, "execute"))
         => ENABLED <<AcceptThread>>_vars
  BY DEF CanGoOn
<1>14. Spec => []Inv
  BY Invariance, HeldInvariance, PTL
<1>15. Spec => [][Next]_vars
  BY PTL DEF Spec
<1> HIDE DEF Inv
<1>16. Spec /\ WF_vars(AcceptThread) /\ WF_vars(FirstByte(c)) /\ []CanGoOn(c)
         => (At(c, "put") \/ At(c, "grow") \/ At(c, "execute") ~> Released)
  BY <1>6, <1>7, <1>8, <1>9, <1>10, <1>11, <1>13, <1>14, <1>15, PTL
<1>17. Spec /\ WF_vars(AcceptThread) /\ WF_vars(FirstByte(c)) /\ []CanGoOn(c)
         => (Unread(c) \/ Readable(c) ~> At(c, "put") \/ Released)
  BY <1>2, <1>3, <1>4, <1>5, <1>12, <1>13, <1>14, <1>15, PTL
<1> QED BY <1>1, <1>14, <1>16, <1>17, PTL
=============================================================================
