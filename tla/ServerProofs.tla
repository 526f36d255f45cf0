---------------------------- MODULE ServerProofs ----------------------------
(***************************************************************************)
(* Theorems about Server, for any number of clients and messages: who gets *)
(* a message to everyone while clients come and go, who holds the monitor  *)
(* of a client, and who is connected when the scheduler is stopped.        *)
(***************************************************************************)
EXTENDS Server, QueueLemmas

USE DEF listVars

(* Inside sendAllMsg; and between next and the end of sendMsg              *)
Busy    == spc \in {"next", "lock", "write"}
Pending == spc \in {"lock", "write"}

(* A monitor is held by a thread that is about to write.                   *)
HeldToWrite ==
  \A c \in Clients : monitor[c] # None => spc = "write" /\ current = c

(* Nobody is listed twice, under one id or under two, and whoever has been *)
(* in the list does not connect again.                                     *)
ListInv ==
  /\ \A p, q \in 1..Len(clientList) : id[clientList[p]] = id[clientList[q]] => p = q
  /\ \A p \in 1..Len(clientList) : socket[clientList[p]] # "new"
  /\ \A m \in 1..Len(received) : socket[received[m]] # "new"
  /\ iterator # None => socket[iterator] # "new"
  /\ current # None => socket[current] # "new"
  /\ Pending => current # None

(* The loop goes through the list in its order: those who have the         *)
(* message, the one it is written to, and what is still to come.           *)
OrderInv ==
  /\ Pending => \A m \in 1..Len(received) : Earlier(received[m], current)
  /\ Busy /\ iterator # None =>
       \A m \in 1..Len(received) : Earlier(received[m], iterator)
  /\ Pending /\ iterator # None => Earlier(current, iterator)

(* As long as nobody is added or removed, each client that has been in the *)
(* list since the loop began has the message, is not connected any more,   *)
(* gets it now or is still to come.                                        *)
ReachInv ==
  ~changed /\ round > 0 =>
    /\ listed \subseteq ToSet(clientList)
    /\ \A p \in 1..Len(clientList) : clientList[p] \in listed =>
         \/ \E m \in 1..Len(received) : received[m] = clientList[p]
         \/ socket[clientList[p]] # "open"
         \/ Pending /\ current = clientList[p]
         \/ Busy /\ iterator # None /\ \E q \in 1..p : clientList[q] = iterator

IInv == TypeOK /\ HeldToWrite /\ ListInv /\ OrderInv /\ SentOnce /\ ReachInv

-----------------------------------------------------------------------------
LEMMA InitIInv == Init => IInv
<1> SUFFICES ASSUME Init PROVE IInv
  OBVIOUS
<1>1. clientList = << >> /\ received = << >> /\ toClose = << >>
  BY DEF Init
<1>2. TypeOK
  <2>1. /\ socket \in [Clients -> {"new", "open", "left", "closed"}]
        /\ browser \in [Clients -> {"reads", "stalled", "readsOn"}]
        /\ monitor \in [Clients -> {None, "scheduler"}]
        /\ reader \in [Clients -> {"none", "read", "close", "ended"}]
    BY DEF Init
  <2>2. clientList \in Seq(Clients) /\ received \in Seq(Clients) /\ toClose \in Seq(Clients)
    BY <1>1
  <2>3. round \in 0..Rounds
    BY ServerAssumption DEF Init
  <2> QED BY <2>1, <2>2, <2>3 DEF Init, TypeOK
<1>3. 1..Len(clientList) = {} /\ 1..Len(received) = {}
  BY <1>1
<1>4. HeldToWrite /\ ListInv /\ OrderInv /\ SentOnce /\ ReachInv
  BY <1>3 DEF Init, HeldToWrite, ListInv, OrderInv, SentOnce, ReachInv, Busy, Pending
<1> QED BY <1>2, <1>4 DEF IInv

LEMMA PrefixSeq ==
  ASSUME NEW S, NEW s \in Seq(S), NEW n \in 0..Len(s)
  PROVE  SubSeq(s, 1, n) \in Seq(S)
<1>1. Len(s) \in Nat /\ \A i \in 1..Len(s) : s[i] \in S
  BY LenProperties, ElementOfSeq
<1>2. \A i \in 1..n : s[i] \in S
  BY <1>1
<1> QED BY <1>1, <1>2, SubSeqProperties, Z3

(* What comes after a client is in the list.                               *)
LEMMA AfterType ==
  ASSUME TypeOK, NEW c
  PROVE  /\ After(c) \in Clients \cup {None}
         /\ After(c) # None =>
              \E n \in 1..Len(clientList) - 1 :
                clientList[n] = c /\ After(c) = clientList[n+1]
<1>1. Len(clientList) \in Nat /\ \A n \in 1..Len(clientList) : clientList[n] \in Clients
  BY LenProperties, ElementOfSeq DEF TypeOK
<1>2. CASE \E n \in 1..Len(clientList) - 1 : clientList[n] = c
  <2> DEFINE n == CHOOSE n \in 1..Len(clientList) - 1 : clientList[n] = c
  <2>1. n \in 1..Len(clientList) - 1 /\ clientList[n] = c
    BY <1>2
  <2>2. After(c) = clientList[n+1]
    BY <1>2 DEF After
  <2> HIDE DEF n
  <2>3. n+1 \in 1..Len(clientList)
    BY <1>1, <2>1
  <2> QED BY <1>1, <2>1, <2>2, <2>3
<1>3. CASE ~ \E n \in 1..Len(clientList) - 1 : clientList[n] = c
  BY <1>3 DEF After
<1> QED BY <1>2, <1>3

(* Who connects is put at the end of the list, or in the place of a client *)
(* with the same id.                                                       *)
LEMMA ConnectCases ==
  ASSUME TypeOK, ListInv, NEW n \in Clients, Connect(n)
  PROVE  /\ socket[n] = "new" /\ id' = [id EXCEPT ![n] = Len(clientList)]
         /\ \A p \in 1..Len(clientList) : clientList[p] \in Clients /\ clientList[p] # n
         /\ \/ /\ \A p \in 1..Len(clientList) : id[clientList[p]] # Len(clientList)
               /\ clientList' = Append(clientList, n) /\ changed' = TRUE
               /\ UNCHANGED <<iterator, listed, displaced>>
            \/ \E k \in 1..Len(clientList) :
               /\ id[clientList[k]] = Len(clientList)
               /\ clientList' = [clientList EXCEPT ![k] = n] /\ changed' = changed
               /\ iterator' = IF iterator = clientList[k] THEN n ELSE iterator
               /\ listed' = listed \ {clientList[k]}
               /\ displaced' = displaced \cup {clientList[k]}
<1> DEFINE old == Holder(Len(clientList))
<1>1. /\ Len(clientList) \in Nat /\ DOMAIN clientList = 1..Len(clientList)
      /\ \A p \in 1..Len(clientList) : clientList[p] \in Clients
      /\ clientList = [p \in 1..Len(clientList) |-> clientList[p]]
  BY LenProperties, ElementOfSeq, SeqDef DEF TypeOK
<1>2. /\ socket[n] = "new" /\ id' = [id EXCEPT ![n] = Len(clientList)]
      /\ clientList' = IF old = {} THEN Append(clientList, n) ELSE InPlaceOf(old, n)
      /\ changed' = (changed \/ old = {})
      /\ iterator' = IF iterator \in old THEN n ELSE iterator
      /\ listed' = listed \ old
      /\ displaced' = displaced \cup old
  BY DEF Connect
<1>3. \A p \in 1..Len(clientList) : clientList[p] # n
  BY <1>2 DEF ListInv
<1>4. old = {clientList[p] : p \in {q \in 1..Len(clientList) :
                                     id[clientList[q]] = Len(clientList)}}
  BY <1>1 DEF Holder, ToSet
<1> HIDE DEF old
<1>5. CASE old = {}
  <2>1. /\ \A p \in 1..Len(clientList) : id[clientList[p]] # Len(clientList)
        /\ clientList' = Append(clientList, n)
    BY <1>2, <1>4, <1>5
  <2>2. changed' = TRUE
    BY <1>2, <1>5, Zenon
  <2>3. UNCHANGED <<iterator, listed, displaced>>
    BY <1>2, <1>5
  <2> QED BY <1>1, <1>2, <1>3, <2>1, <2>2, <2>3
<1>6. CASE old # {}
  <2>1. PICK k \in 1..Len(clientList) : id[clientList[k]] = Len(clientList)
    BY <1>4, <1>6
  <2>2. old = {clientList[k]}
    BY <1>4, <2>1 DEF ListInv
  <2>3. \A p \in 1..Len(clientList) : clientList[p] \in old <=> p = k
    BY <2>1, <2>2 DEF ListInv
  <2>4. InPlaceOf(old, n) = [clientList EXCEPT ![k] = n]
    BY <1>1, <2>3 DEF InPlaceOf
  <2>5. /\ clientList' = [clientList EXCEPT ![k] = n] /\ changed' = changed
        /\ iterator' = IF iterator = clientList[k] THEN n ELSE iterator
        /\ listed' = listed \ {clientList[k]}
        /\ displaced' = displaced \cup {clientList[k]}
    BY <1>2, <1>6, <2>2, <2>4 DEF TypeOK
  <2> QED BY <1>1, <1>2, <1>3, <2>1, <2>5
<1> QED BY <1>5, <1>6

(* Who is removed is in the list.                                          *)
LEMMA RemoveCases ==
  ASSUME TypeOK, NEW c \in Clients, RemoveClient(c)
  PROVE  /\ socket[c] \in {"left", "closed"} /\ reader' = [reader EXCEPT ![c] = "close"]
         /\ UNCHANGED <<id, socket, browser, monitor, spc, round, iterator, current,
                        received, interrupted, stop>>
         /\ \/ UNCHANGED <<clientList, displaced, changed, listed, toClose, disturbed>>
            \/ \E d \in Clients :
                 /\ clientList' = RemoveFirst(clientList, d)
                 /\ displaced' = displaced \cup ({d} \ {c})
                 /\ changed' = TRUE
                 /\ listed' = listed \ {d}
                 /\ disturbed' = (disturbed \/ stop = "copy")
                 /\ \/ UNCHANGED toClose
                    \/ stop = "copy" /\ toClose' = RemoveFirst(toClose, d)
<1>1. Holder(id[c]) \subseteq Clients
  <2>1. \A p \in DOMAIN clientList : clientList[p] \in Clients
    BY LenProperties, ElementOfSeq DEF TypeOK
  <2> QED BY <2>1 DEF Holder, ToSet
<1> QED BY <1>1, Zenon DEF RemoveClient

LEMMA TypeStep == TypeOK /\ ListInv /\ [Next]_vars => TypeOK'
<1> SUFFICES ASSUME TypeOK, ListInv, [Next]_vars
             PROVE  TypeOK'
  OBVIOUS
<1> USE ServerAssumption
<1>1. ASSUME NEW c \in Clients, Connect(c)
      PROVE  TypeOK'
  <2>1. /\ clientList' \in Seq(Clients)
        /\ iterator' \in Clients \cup {None} /\ changed' \in BOOLEAN
        /\ listed' \subseteq Clients /\ displaced' \subseteq Clients
    <3>1. \A k \in 1..Len(clientList) : [clientList EXCEPT ![k] = c] \in Seq(Clients)
      BY ExceptSeq DEF TypeOK
    <3>2. Append(clientList, c) \in Seq(Clients)
      BY AppendProperties DEF TypeOK
    <3>3. \A k \in 1..Len(clientList) : clientList[k] \in Clients
      BY <1>1, ConnectCases
    <3>4. CASE /\ clientList' = Append(clientList, c) /\ changed' = TRUE
               /\ UNCHANGED <<iterator, listed, displaced>>
      BY <3>2, <3>4 DEF TypeOK
    <3>5. ASSUME NEW k \in 1..Len(clientList),
                 clientList' = [clientList EXCEPT ![k] = c], changed' = changed,
                 iterator' = IF iterator = clientList[k] THEN c ELSE iterator,
                 listed' = listed \ {clientList[k]},
                 displaced' = displaced \cup {clientList[k]}
          PROVE  /\ clientList' \in Seq(Clients)
                 /\ iterator' \in Clients \cup {None} /\ changed' \in BOOLEAN
                 /\ listed' \subseteq Clients /\ displaced' \subseteq Clients
      BY <3>1, <3>3, <3>5 DEF TypeOK
    <3> QED BY <1>1, <3>4, <3>5, ConnectCases
  <2>2. id' \in [Clients -> Nat]
    <3>1. id' = [id EXCEPT ![c] = Len(clientList)] /\ Len(clientList) \in Nat
      BY <1>1, LenProperties DEF Connect, TypeOK
    <3> QED BY <3>1 DEF TypeOK
  <2> QED BY <1>1, <2>1, <2>2 DEF TypeOK, Connect, stopVars
<1>2. ASSUME NEW c \in Clients, Stall(c) \/ ReadOn(c) \/ Leave(c)
      PROVE  TypeOK'
  <2>1. /\ socket' \in [Clients -> {"new", "open", "left", "closed"}]
        /\ browser' \in [Clients -> {"reads", "stalled", "readsOn"}]
    BY <1>2 DEF TypeOK, Stall, ReadOn, Leave
  <2>2. UNCHANGED <<listVars, monitor, reader, sendVars, stopVars>>
    BY <1>2 DEF Stall, ReadOn, Leave
  <2> QED BY <2>1, <2>2 DEF TypeOK, sendVars, stopVars
<1>3. ASSUME NEW c \in Clients, RemoveClient(c)
      PROVE  TypeOK'
  <2>1. \A d \in Clients : /\ RemoveFirst(clientList, d) \in Seq(Clients)
                            /\ RemoveFirst(toClose, d) \in Seq(Clients)
    BY RemoveFirstElements DEF TypeOK
  <2>2. /\ clientList' \in Seq(Clients) /\ toClose' \in Seq(Clients)
        /\ displaced' \subseteq Clients /\ listed' \subseteq Clients
        /\ changed' \in BOOLEAN
    <3>1. CASE UNCHANGED <<clientList, displaced, changed, listed, toClose, disturbed>>
      BY <3>1 DEF TypeOK
    <3>2. ASSUME NEW d \in Clients,
                 clientList' = RemoveFirst(clientList, d),
                 displaced' = displaced \cup ({d} \ {c}),
                 changed' = TRUE, listed' = listed \ {d},
                 toClose' = toClose \/ toClose' = RemoveFirst(toClose, d)
          PROVE  /\ clientList' \in Seq(Clients) /\ toClose' \in Seq(Clients)
                 /\ displaced' \subseteq Clients /\ listed' \subseteq Clients
                 /\ changed' \in BOOLEAN
      BY <2>1, <3>2 DEF TypeOK
    <3> QED BY <1>3, <3>1, <3>2, RemoveCases
  <2>3. disturbed' \in BOOLEAN
    BY <1>3, RemoveCases, Zenon DEF TypeOK
  <2> QED BY <1>3, <2>2, <2>3, RemoveCases DEF TypeOK
<1>4. ASSUME NEW c \in Clients, CloseAtEnd(c)
      PROVE  TypeOK'
  BY <1>4 DEF TypeOK, CloseAtEnd, Close, sendVars, stopVars
<1>5. CASE BeginRound
  <2>1. /\ received' \in Seq(Clients)
        /\ iterator' \in Clients \cup {None}
        /\ listed' \subseteq Clients
    <3>1. \A p \in DOMAIN clientList : clientList[p] \in Clients
      BY LenProperties, ElementOfSeq DEF TypeOK
    <3>2. listed' \subseteq Clients
      BY <1>5, <3>1 DEF BeginRound, ToSet
    <3>3. clientList # << >> => Head(clientList) \in Clients
      BY HeadTailProperties DEF TypeOK
    <3> QED BY <1>5, <3>2, <3>3 DEF BeginRound
  <2>2. round' \in 0..Rounds
    BY <1>5 DEF BeginRound, TypeOK
  <2> QED BY <1>5, <2>1, <2>2 DEF TypeOK, BeginRound, clientVars, stopVars
<1>6. CASE NextClient
  <2>1. iterator' \in Clients \cup {None}
    BY <1>6, AfterType DEF NextClient
  <2> QED BY <1>6, <2>1 DEF TypeOK, NextClient, clientVars, stopVars
<1>7. CASE EndRound \/ EndScheduler
  BY <1>7 DEF TypeOK, EndRound, EndScheduler, clientVars, stopVars
<1>8. CASE Lock
  BY <1>8 DEF TypeOK, Lock, stopVars
<1>9. CASE Write
  <2>1. current \in Clients
    BY <1>9 DEF TypeOK, Write, ListInv, Pending
  <2>2. received' \in Seq(Clients)
    BY <1>9, <2>1, AppendProperties DEF TypeOK, Write
  <2> QED BY <1>9, <2>2 DEF TypeOK, Write, stopVars
<1>10. CASE StopServer \/ EndCopy \/ StopScheduler \/ JoinScheduler
  <2>1. toClose' \in Seq(Clients)
    <3>1. \A n \in 0..Len(toClose) : SubSeq(toClose, 1, n) \in Seq(Clients)
      BY PrefixSeq DEF TypeOK
    <3> QED BY <1>10, <3>1 DEF TypeOK, StopServer, EndCopy, StopScheduler, JoinScheduler
  <2> QED BY <1>10, <2>1 DEF TypeOK, StopServer, EndCopy, StopScheduler, JoinScheduler,
                            clientVars, sendVars
<1>11. CASE CloseClient
  <2>1. Tail(toClose) \in Seq(Clients)
    BY <1>11, HeadTailProperties DEF CloseClient, TypeOK
  <2> QED BY <1>11, <2>1 DEF TypeOK, CloseClient, Close, sendVars
<1>12. CASE UNCHANGED vars
  BY <1>12 DEF TypeOK, vars, clientVars, sendVars, stopVars
<1> QED BY <1>1, <1>2, <1>3, <1>4, <1>5, <1>6, <1>7, <1>8, <1>9, <1>10, <1>11, <1>12
        DEF Next, Reader, SchedulerThread, Stopping

-----------------------------------------------------------------------------
(* Who comes before whom, when the list changes.                           *)

LEMMA EarlierConnect ==
  ASSUME TypeOK, ListInv, NEW n \in Clients, Connect(n),
         NEW c, NEW d, c # n, d # n, Earlier(c, d)
  PROVE  Earlier(c, d)'
<1>1. Len(clientList) \in Nat /\ DOMAIN clientList = 1..Len(clientList)
  BY LenProperties DEF TypeOK
<1>2. ASSUME NEW p \in 1..Len(clientList'), NEW q \in 1..Len(clientList'),
             clientList'[p] = c, clientList'[q] = d
      PROVE  p < q
  <2>1. CASE clientList' = Append(clientList, n)
    <3>1. /\ Len(clientList') = Len(clientList) + 1
          /\ \A i \in 1..Len(clientList) : clientList'[i] = clientList[i]
          /\ clientList'[Len(clientList) + 1] = n
      BY <2>1, AppendProperties DEF TypeOK
    <3> QED BY <1>1, <1>2, <3>1 DEF Earlier
  <2>2. ASSUME NEW k \in 1..Len(clientList), clientList' = [clientList EXCEPT ![k] = n]
        PROVE  p < q
    <3>1. Len(clientList') = Len(clientList)
      BY <2>2, ExceptSeq DEF TypeOK
    <3> QED BY <1>1, <1>2, <2>2, <3>1 DEF Earlier
  <2> QED BY <2>1, <2>2, ConnectCases
<1> QED BY <1>2 DEF Earlier

(* Who comes before a client comes before the one that takes its place.    *)
LEMMA EarlierInPlace ==
  ASSUME TypeOK, ListInv, NEW n \in Clients, Connect(n),
         NEW k \in 1..Len(clientList), clientList' = [clientList EXCEPT ![k] = n],
         NEW c, c # n, Earlier(c, clientList[k])
  PROVE  Earlier(c, n)'
<1>1. /\ DOMAIN clientList = 1..Len(clientList)
      /\ Len(clientList') = Len(clientList)
  BY LenProperties, ExceptSeq DEF TypeOK
<1>2. \A p \in 1..Len(clientList) : clientList[p] # n
  BY ConnectCases
<1>3. ASSUME NEW p \in 1..Len(clientList'), NEW q \in 1..Len(clientList'),
             clientList'[p] = c, clientList'[q] = n
      PROVE  p < q
  <2>1. q = k
    BY <1>1, <1>2, <1>3
  <2>2. p # k /\ clientList[p] = c
    BY <1>1, <1>3
  <2> QED BY <1>1, <2>1, <2>2 DEF Earlier
<1> QED BY <1>3 DEF Earlier

LEMMA EarlierRemove ==
  ASSUME TypeOK, NEW r \in Clients, RemoveClient(r), NEW c, NEW d, Earlier(c, d)
  PROVE  Earlier(c, d)'
<1>1. CASE clientList' = clientList
  BY <1>1 DEF Earlier
<1>2. ASSUME NEW g \in Clients, clientList' = RemoveFirst(clientList, g)
      PROVE  Earlier(c, d)'
  <2> DEFINE l == RemoveFirst(clientList, g)
  <2>1. l \in Seq(Clients) /\ clientList' = l
    BY <1>2, RemoveFirstElements DEF TypeOK
  <2>2. PICK k \in Nat : \A i \in 1..Len(l) :
          LET j == IF i < k THEN i ELSE i+1
          IN  j \in 1..Len(clientList) /\ l[i] = clientList[j]
    <3>1. clientList \in Seq(Clients)
      BY DEF TypeOK
    <3> QED BY <3>1, RemoveFirstShifts, Zenon
  <2> HIDE DEF l
  <2>3. ASSUME NEW p \in 1..Len(l), NEW q \in 1..Len(l), l[p] = c, l[q] = d
        PROVE  p < q
    <3> DEFINE P == IF p < k THEN p ELSE p+1
               Q == IF q < k THEN q ELSE q+1
    <3>1. /\ P \in 1..Len(clientList) /\ clientList[P] = c
          /\ Q \in 1..Len(clientList) /\ clientList[Q] = d
      BY <2>2, <2>3
    <3>2. P < Q
      <4> HIDE DEF P, Q
      <4> QED BY <3>1 DEF Earlier
    <3>3. Len(l) \in Nat
      BY <2>1, LenProperties
    <3> QED BY <3>2, <3>3
  <2> QED BY <2>1, <2>3 DEF Earlier
<1> QED BY <1>1, <1>2, RemoveCases

(* The list does not change.                                               *)
LEMMA EarlierSame ==
  ASSUME clientList' = clientList, NEW c, NEW d
  PROVE  Earlier(c, d)' <=> Earlier(c, d)
BY DEF Earlier

-----------------------------------------------------------------------------
LEMMA HeldStep ==
  ASSUME TypeOK, HeldToWrite, [Next]_vars
  PROVE  HeldToWrite'
<1> USE DEF HeldToWrite
<1>1. ASSUME NEW c \in Clients, Connect(c) \/ Stall(c) \/ ReadOn(c) \/ Leave(c) \/ Reader(c)
      PROVE  HeldToWrite'
  BY <1>1 DEF Connect, Stall, ReadOn, Leave, Reader, RemoveClient, CloseAtEnd, sendVars
<1>2. CASE BeginRound \/ EndRound \/ NextClient \/ EndScheduler
  BY <1>2 DEF BeginRound, EndRound, NextClient, EndScheduler, clientVars
<1>3. CASE Lock
  BY <1>3 DEF Lock, TypeOK
<1>4. CASE Write
  BY <1>4 DEF Write, TypeOK
<1>5. CASE StopServer \/ Stopping
  BY <1>5 DEF StopServer, Stopping, EndCopy, CloseClient, StopScheduler, JoinScheduler,
              clientVars, sendVars
<1>6. CASE UNCHANGED vars
  BY <1>6 DEF vars, clientVars, sendVars
<1> QED BY <1>1, <1>2, <1>3, <1>4, <1>5, <1>6 DEF Next, SchedulerThread

(* A socket that is not new does not become new again.                     *)
LEMMA NeverNewAgain ==
  ASSUME TypeOK, [Next]_vars, NEW d \in Clients, socket[d] # "new"
  PROVE  socket'[d] # "new"
<1>1. ASSUME NEW c \in Clients, Connect(c) \/ Stall(c) \/ ReadOn(c) \/ Leave(c) \/ Reader(c)
      PROVE  socket'[d] # "new"
  BY <1>1 DEF TypeOK, Connect, Stall, ReadOn, Leave, Reader, RemoveClient, CloseAtEnd, Close
<1>2. CASE BeginRound \/ SchedulerThread
  BY <1>2 DEF BeginRound, SchedulerThread, EndRound, NextClient, Lock, Write,
              EndScheduler, clientVars
<1>3. CASE StopServer \/ Stopping
  BY <1>3 DEF TypeOK, StopServer, Stopping, EndCopy, CloseClient, Close, StopScheduler,
              JoinScheduler, clientVars
<1>4. CASE UNCHANGED vars
  BY <1>4 DEF vars, clientVars
<1> QED BY <1>1, <1>2, <1>3, <1>4 DEF Next

LEMMA ListStep ==
  ASSUME TypeOK, ListInv, [Next]_vars
  PROVE  ListInv'
<1>1. /\ Len(clientList) \in Nat
      /\ \A p \in 1..Len(clientList) : clientList[p] \in Clients
      /\ Len(received) \in Nat
      /\ \A m \in 1..Len(received) : received[m] \in Clients
  BY LenProperties, ElementOfSeq DEF TypeOK
<1>2. /\ \A p \in 1..Len(clientList) : socket'[clientList[p]] # "new"
      /\ \A m \in 1..Len(received) : socket'[received[m]] # "new"
      /\ iterator # None => socket'[iterator] # "new"
      /\ current # None => socket'[current] # "new"
  BY <1>1, NeverNewAgain DEF ListInv, TypeOK
<1>3. ASSUME NEW c \in Clients, Connect(c)
      PROVE  ListInv'
  <2>1. /\ socket'[c] = "open" /\ id'[c] = Len(clientList)
        /\ \A p \in 1..Len(clientList) :
             clientList[p] # c /\ id'[clientList[p]] = id[clientList[p]]
        /\ UNCHANGED <<received, current, spc>>
    <3>1. /\ socket' = [socket EXCEPT ![c] = "open"]
          /\ id' = [id EXCEPT ![c] = Len(clientList)]
          /\ UNCHANGED <<received, current, spc>>
      BY <1>3 DEF Connect
    <3>2. \A p \in 1..Len(clientList) : clientList[p] # c
      BY <1>3, ConnectCases
    <3> QED BY <1>1, <3>1, <3>2 DEF TypeOK
  <2>2. CASE /\ \A p \in 1..Len(clientList) : id[clientList[p]] # Len(clientList)
             /\ clientList' = Append(clientList, c)
             /\ iterator' = iterator
    <3>1. /\ Len(clientList') = Len(clientList) + 1
          /\ \A p \in 1..Len(clientList) : clientList'[p] = clientList[p]
          /\ clientList'[Len(clientList) + 1] = c
      BY <2>2, AppendProperties DEF TypeOK
    <3>2. \A p, q \in 1..Len(clientList') :
            id'[clientList'[p]] = id'[clientList'[q]] => p = q
      BY <1>1, <2>1, <2>2, <3>1 DEF ListInv
    <3>3. \A p \in 1..Len(clientList') : socket'[clientList'[p]] # "new"
      BY <1>1, <1>2, <2>1, <3>1
    <3> QED BY <1>2, <2>1, <2>2, <3>2, <3>3 DEF ListInv, Pending
  <2>3. ASSUME NEW k \in 1..Len(clientList),
               id[clientList[k]] = Len(clientList),
               clientList' = [clientList EXCEPT ![k] = c],
               iterator' = IF iterator = clientList[k] THEN c ELSE iterator
        PROVE  ListInv'
    <3>1. /\ Len(clientList') = Len(clientList)
          /\ \A p \in 1..Len(clientList) :
               clientList'[p] = IF p = k THEN c ELSE clientList[p]
      BY <2>3, LenProperties, ExceptSeq DEF TypeOK
    <3>2. \A p, q \in 1..Len(clientList') :
            id'[clientList'[p]] = id'[clientList'[q]] => p = q
      <4>1. \A p \in 1..Len(clientList) : id'[clientList'[p]] = id[clientList[p]]
        BY <2>1, <2>3, <3>1
      <4> QED BY <3>1, <4>1 DEF ListInv
    <3>3. \A p \in 1..Len(clientList') : socket'[clientList'[p]] # "new"
      BY <1>2, <2>1, <3>1
    <3>4. iterator' # None => socket'[iterator'] # "new"
      BY <1>2, <2>1, <2>3
    <3> QED BY <1>2, <2>1, <3>2, <3>3, <3>4 DEF ListInv, Pending
  <2> QED BY <1>3, <2>2, <2>3, ConnectCases
<1>4. ASSUME NEW c \in Clients, RemoveClient(c)
      PROVE  ListInv'
  <2>0. UNCHANGED <<id, received, current, spc, iterator>>
    BY <1>4 DEF RemoveClient
  <2>1. CASE clientList' = clientList
    BY <1>2, <2>0, <2>1 DEF ListInv, Pending
  <2>2. ASSUME NEW d \in Clients, clientList' = RemoveFirst(clientList, d)
        PROVE  ListInv'
    <3> DEFINE l == RemoveFirst(clientList, d)
    <3>1. l \in Seq(Clients) /\ clientList' = l
      BY <2>2, RemoveFirstElements DEF TypeOK
    <3>2. PICK k \in Nat : \A i \in 1..Len(l) :
            LET j == IF i < k THEN i ELSE i+1
            IN  j \in 1..Len(clientList) /\ l[i] = clientList[j]
      <4>1. clientList \in Seq(Clients)
        BY DEF TypeOK
      <4> QED BY <4>1, RemoveFirstShifts, Zenon
    <3> HIDE DEF l
    <3>3. \A p, q \in 1..Len(l) : id[l[p]] = id[l[q]] => p = q
      <4> SUFFICES ASSUME NEW p \in 1..Len(l), NEW q \in 1..Len(l), id[l[p]] = id[l[q]]
                   PROVE  p = q
        OBVIOUS
      <4> DEFINE P == IF p < k THEN p ELSE p+1
                 Q == IF q < k THEN q ELSE q+1
      <4>1. /\ P \in 1..Len(clientList) /\ l[p] = clientList[P]
            /\ Q \in 1..Len(clientList) /\ l[q] = clientList[Q]
        BY <3>2
      <4>2. P = Q
        <5> HIDE DEF P, Q
        <5> QED BY <4>1 DEF ListInv
      <4>3. Len(l) \in Nat
        BY <3>1, LenProperties
      <4> QED BY <4>2, <4>3
    <3>4. \A p \in 1..Len(l) : socket'[l[p]] # "new"
      BY <1>2, <3>2
    <3> QED BY <1>2, <2>0, <3>1, <3>3, <3>4 DEF ListInv, Pending
  <2> QED BY <1>4, <2>1, <2>2, RemoveCases
<1>5. ASSUME NEW c \in Clients, Stall(c) \/ ReadOn(c) \/ Leave(c) \/ CloseAtEnd(c)
      PROVE  ListInv'
  BY <1>2, <1>5 DEF ListInv, Stall, ReadOn, Leave, CloseAtEnd, sendVars, Pending
<1>6. CASE BeginRound
  <2>1. /\ clientList' = clientList /\ received' = << >> /\ current' = current
        /\ spc' = "next" /\ id' = id
    BY <1>6 DEF BeginRound, clientVars
  <2>2. iterator' # None => \E p \in 1..Len(clientList) : iterator' = clientList[p]
    <3>1. clientList # << >> => 1 \in 1..Len(clientList) /\ Head(clientList) = clientList[1]
      BY <1>1, EmptySeq DEF TypeOK
    <3> QED BY <1>6, <3>1 DEF BeginRound
  <2> QED BY <1>2, <2>1, <2>2 DEF ListInv, Pending
<1>7. CASE NextClient
  <2>1. iterator' # None => \E p \in 1..Len(clientList) : iterator' = clientList[p]
    <3>1. After(iterator) # None =>
            \E n \in 1..Len(clientList) - 1 :
              clientList[n] = iterator /\ After(iterator) = clientList[n+1]
      BY AfterType
    <3>2. \A n \in 1..Len(clientList) - 1 : n+1 \in 1..Len(clientList)
      BY <1>1
    <3> QED BY <1>7, <3>1, <3>2 DEF NextClient
  <2>2. current' = iterator /\ iterator # None
    BY <1>7 DEF NextClient
  <2> QED BY <1>2, <1>7, <2>1, <2>2 DEF ListInv, NextClient, clientVars, Pending
<1>8. CASE Lock \/ EndRound \/ EndScheduler
  BY <1>2, <1>8 DEF ListInv, Lock, EndRound, EndScheduler, clientVars, Pending
<1>9. CASE Write
  <2>1. current \in Clients
    BY <1>9 DEF Write, ListInv, Pending, TypeOK
  <2>2. \A m \in 1..Len(received') :
          \/ m \in 1..Len(received) /\ received'[m] = received[m]
          \/ received'[m] = current
    BY <1>1, <1>9, <2>1, AppendProperties DEF Write, TypeOK
  <2>3. \A m \in 1..Len(received') : socket'[received'[m]] # "new"
    BY <1>2, <2>1, <2>2, ServerAssumption
  <2> QED BY <1>2, <1>9, <2>3 DEF ListInv, Write, Pending
<1>10. CASE StopServer \/ Stopping
  BY <1>2, <1>10 DEF ListInv, StopServer, Stopping, EndCopy, CloseClient, StopScheduler,
                     JoinScheduler, clientVars, sendVars, Pending
<1>11. CASE UNCHANGED vars
  BY <1>2, <1>11 DEF ListInv, vars, clientVars, sendVars, Pending
<1> QED BY <1>3, <1>4, <1>5, <1>6, <1>7, <1>8, <1>9, <1>10, <1>11
        DEF Next, Reader, SchedulerThread

-----------------------------------------------------------------------------
(* What comes after the iterator comes after all that comes before it.     *)
LEMMA EarlierAfter ==
  ASSUME TypeOK, ListInv, After(iterator) # None,
         NEW c, c = iterator \/ Earlier(c, iterator)
  PROVE  Earlier(c, After(iterator))
<1>1. Len(clientList) \in Nat
  BY LenProperties DEF TypeOK
<1>2. PICK n \in 1..Len(clientList) - 1 :
        clientList[n] = iterator /\ After(iterator) = clientList[n+1]
  BY AfterType
<1>3. n \in 1..Len(clientList) /\ n+1 \in 1..Len(clientList) /\ n < n+1
  BY <1>1
<1>4. c # After(iterator)
  BY <1>1, <1>2, <1>3 DEF ListInv, Earlier
<1>5. ASSUME NEW p \in 1..Len(clientList), NEW q \in 1..Len(clientList),
             clientList[p] = c, clientList[q] = After(iterator)
      PROVE  p < q
  <2>1. q = n+1
    BY <1>2, <1>3, <1>5 DEF ListInv
  <2>2. p = n \/ p < n
    BY <1>2, <1>3, <1>5 DEF ListInv, Earlier
  <2> QED BY <1>1, <2>1, <2>2
<1> QED BY <1>4, <1>5 DEF Earlier

(* A step that keeps, of the message that is sent, who has it and where    *)
(* the loop is.                                                            *)
LEMMA OrderKept ==
  ASSUME OrderInv, SentOnce,
         received' = received, current' = current, iterator' = iterator, spc' = spc,
         \A m, n \in 1..Len(received) :
           Earlier(received[m], received[n]) => Earlier(received[m], received[n])',
         \A m \in 1..Len(received) : Pending =>
           (Earlier(received[m], current) => Earlier(received[m], current)'),
         \A m \in 1..Len(received) : iterator # None =>
           (Earlier(received[m], iterator) => Earlier(received[m], iterator)'),
         Pending /\ iterator # None =>
           (Earlier(current, iterator) => Earlier(current, iterator)')
  PROVE  OrderInv' /\ SentOnce'
<1>1. SentOnce'
  <2> SUFFICES ASSUME NEW m \in 1..Len(received), NEW n \in 1..Len(received), m < n
               PROVE  Earlier(received[m], received[n])'
    BY DEF SentOnce
  <2> QED BY DEF SentOnce
<1>2. (Pending => \A m \in 1..Len(received) : Earlier(received[m], current))'
  BY DEF OrderInv, Pending
<1>3. (Busy /\ iterator # None => \A m \in 1..Len(received) : Earlier(received[m], iterator))'
  BY DEF OrderInv, Busy
<1>4. (Pending /\ iterator # None => Earlier(current, iterator))'
  BY DEF OrderInv, Pending
<1> QED BY <1>1, <1>2, <1>3, <1>4 DEF OrderInv

LEMMA OrderStep ==
  ASSUME TypeOK, ListInv, OrderInv, SentOnce, [Next]_vars
  PROVE  OrderInv' /\ SentOnce'
<1>1. ASSUME NEW c \in Clients, Connect(c)
      PROVE  OrderInv' /\ SentOnce'
  <2>1. /\ \A m \in 1..Len(received) : received[m] # c
        /\ Pending => current # c
        /\ iterator # None => iterator # c
    BY <1>1 DEF Connect, ListInv
  <2>2. received' = received /\ current' = current /\ spc' = spc
    BY <1>1 DEF Connect
  <2>3. \A d, e : d # c /\ e # c /\ Earlier(d, e) => Earlier(d, e)'
    BY <1>1, EarlierConnect
  <2>4. CASE iterator' = iterator
    BY <2>1, <2>2, <2>3, <2>4, OrderKept
  <2>5. ASSUME NEW k \in 1..Len(clientList), clientList' = [clientList EXCEPT ![k] = c],
               iterator = clientList[k], iterator' = c
        PROVE  OrderInv' /\ SentOnce'
    <3>1. iterator # None /\ c # None
      BY <2>5, <1>1, ConnectCases, ServerAssumption
    <3>2. \A d : d # c /\ Earlier(d, iterator) => Earlier(d, c)'
      BY <1>1, <2>5, EarlierInPlace
    <3>3. SentOnce'
      <4>1. ASSUME NEW m \in 1..Len(received), NEW n \in 1..Len(received), m < n,
                   NEW x, NEW y, x = received[m], y = received[n]
            PROVE  Earlier(x, y)'
        BY <2>1, <2>3, <4>1 DEF SentOnce
      <4> QED BY <2>2, <4>1 DEF SentOnce, Earlier
    <3>4. (Pending => \A m \in 1..Len(received) : Earlier(received[m], current))'
      <4>1. ASSUME Pending, NEW m \in 1..Len(received),
                   NEW x, NEW y, x = received[m], y = current
            PROVE  Earlier(x, y)'
        BY <2>1, <2>3, <4>1 DEF OrderInv
      <4> QED BY <2>2, <4>1 DEF Pending, Earlier
    <3>5. (Busy => \A m \in 1..Len(received) : Earlier(received[m], iterator))'
      <4>1. ASSUME Busy, NEW m \in 1..Len(received), NEW x, x = received[m]
            PROVE  Earlier(x, c)'
        BY <2>1, <3>1, <3>2, <4>1 DEF OrderInv
      <4> QED BY <2>2, <2>5, <4>1 DEF Busy, Earlier
    <3>6. (Pending => Earlier(current, iterator))'
      <4>1. ASSUME Pending, NEW x, x = current
            PROVE  Earlier(x, c)'
        BY <2>1, <3>1, <3>2, <4>1 DEF OrderInv
      <4> QED BY <2>2, <2>5, <4>1 DEF Pending, Earlier
    <3> QED BY <3>3, <3>4, <3>5, <3>6 DEF OrderInv
  <2> QED BY <1>1, <2>4, <2>5, ConnectCases
<1>2. ASSUME NEW c \in Clients, RemoveClient(c)
      PROVE  OrderInv' /\ SentOnce'
  <2>1. /\ received' = received /\ current' = current
        /\ iterator' = iterator /\ spc' = spc
    BY <1>2 DEF RemoveClient
  <2>2. \A d, e : Earlier(d, e) => Earlier(d, e)'
    BY <1>2, EarlierRemove
  <2> QED BY <2>1, <2>2, OrderKept
<1>3. CASE /\ clientList' = clientList
           /\ received' = received /\ current' = current
           /\ iterator' = iterator /\ spc' = spc
  <2>1. \A d, e : Earlier(d, e) => Earlier(d, e)'
    BY <1>3, EarlierSame
  <2> QED BY <1>3, <2>1, OrderKept
<1>4. CASE BeginRound
  <2>1. received' = << >> /\ spc' = "next"
    BY <1>4 DEF BeginRound
  <2>2. 1..Len(received') = {}
    BY <2>1
  <2> QED BY <2>1, <2>2 DEF OrderInv, SentOnce, Pending
<1>5. CASE EndRound \/ EndScheduler
  <2>1. /\ clientList' = clientList /\ received' = received
        /\ spc' \in {"work", "ended"}
    BY <1>5 DEF EndRound, EndScheduler, clientVars
  <2>2. SentOnce'
    BY <2>1 DEF SentOnce, Earlier
  <2> QED BY <2>1, <2>2 DEF OrderInv, Busy, Pending
<1>6. CASE NextClient
  <2>1. /\ clientList' = clientList /\ received' = received
        /\ current' = iterator /\ iterator' = After(iterator) /\ iterator # None
        /\ spc = "next" /\ spc' = "lock"
    BY <1>6 DEF NextClient, clientVars
  <2>2. SentOnce'
    BY <2>1 DEF SentOnce, Earlier
  <2>3. \A m \in 1..Len(received) : Earlier(received[m], iterator)
    BY <2>1 DEF OrderInv, Busy
  <2>4. (\A m \in 1..Len(received) : Earlier(received[m], current))'
    BY <2>1, <2>3 DEF Earlier
  <2>5. After(iterator) # None =>
          /\ Earlier(iterator, After(iterator))
          /\ \A m \in 1..Len(received) : Earlier(received[m], After(iterator))
    BY <2>3, EarlierAfter
  <2>6. iterator' # None =>
          /\ Earlier(current, iterator)'
          /\ (\A m \in 1..Len(received) : Earlier(received[m], iterator))'
    BY <2>1, <2>5 DEF Earlier
  <2> QED BY <2>2, <2>4, <2>6 DEF OrderInv
<1>7. CASE Lock
  <2>1. /\ clientList' = clientList /\ received' = received
        /\ current' = current /\ iterator' = iterator
        /\ spc = "lock" /\ spc' = "write"
    BY <1>7 DEF Lock
  <2>2. SentOnce'
    BY <2>1 DEF SentOnce, Earlier
  <2>3. \A d, e : Earlier(d, e)' <=> Earlier(d, e)
    BY <2>1, EarlierSame
  <2> QED BY <2>1, <2>2, <2>3 DEF OrderInv, Busy, Pending
<1>8. CASE Write
  <2>1. /\ clientList' = clientList
        /\ current' = current /\ iterator' = iterator
        /\ spc = "write" /\ spc' = "next"
        /\ received' = received \/ received' = Append(received, current)
    BY <1>8 DEF Write
  <2>2. current \in Clients
    BY <2>1 DEF ListInv, Pending, TypeOK
  <2>3. Len(received) \in Nat
    BY LenProperties DEF TypeOK
  <2>4. \A m \in 1..Len(received') :
          \/ m \in 1..Len(received) /\ received'[m] = received[m]
          \/ m > Len(received) /\ m = Len(received') /\ received'[m] = current
    <3>1. CASE received' = received
      BY <3>1
    <3>2. CASE received' = Append(received, current)
      <4>1. received \in Seq(Clients)
        BY DEF TypeOK
      <4> QED BY <2>2, <2>3, <3>2, <4>1, AppendProperties
    <3> QED BY <2>1, <3>1, <3>2
  <2>5. \A d, e : Earlier(d, e)' <=> Earlier(d, e)
    BY <2>1, EarlierSame
  <2>6. SentOnce'
    <3> SUFFICES ASSUME NEW m \in 1..Len(received'), NEW n \in 1..Len(received'), m < n
                 PROVE  Earlier(received[m], received[n])'
      BY DEF SentOnce
    <3>1. m \in 1..Len(received) /\ received'[m] = received[m]
      BY <2>3, <2>4
    <3>2. CASE n \in 1..Len(received) /\ received'[n] = received[n]
      <4>1. Earlier(received[m], received[n])
        BY <3>1, <3>2 DEF SentOnce
      <4> QED BY <2>1, <3>1, <3>2, <4>1 DEF Earlier
    <3>3. CASE received'[n] = current
      <4>1. Earlier(received[m], current)
        BY <2>1, <3>1 DEF OrderInv, Pending
      <4> QED BY <2>1, <3>1, <3>3, <4>1 DEF Earlier
    <3> QED BY <2>4, <3>2, <3>3
  <2>7. ASSUME iterator # None, NEW m \in 1..Len(received')
        PROVE  Earlier(received'[m], iterator)
    BY <2>1, <2>4, <2>7 DEF OrderInv, Busy, Pending
  <2>8. (Busy /\ iterator # None =>
           \A m \in 1..Len(received) : Earlier(received[m], iterator))'
    BY <2>1, <2>7 DEF Earlier
  <2> QED BY <2>1, <2>6, <2>8 DEF OrderInv, Pending
<1>9. ASSUME NEW c \in Clients, Stall(c) \/ ReadOn(c) \/ Leave(c) \/ CloseAtEnd(c)
      PROVE  OrderInv' /\ SentOnce'
  BY <1>3, <1>9 DEF Stall, ReadOn, Leave, CloseAtEnd, sendVars
<1>10. CASE StopServer \/ Stopping
  BY <1>3, <1>10 DEF StopServer, Stopping, EndCopy, CloseClient, StopScheduler, JoinScheduler,
                     clientVars, sendVars
<1>11. CASE UNCHANGED vars
  BY <1>3, <1>11 DEF vars, clientVars, sendVars
<1> QED BY <1>1, <1>2, <1>4, <1>5, <1>6, <1>7, <1>8, <1>9, <1>10, <1>11
        DEF Next, Reader, SchedulerThread

-----------------------------------------------------------------------------
(* A step that changes neither the list nor the message, and opens no      *)
(* socket.                                                                 *)
LEMMA ReachKept ==
  ASSUME TypeOK, ReachInv,
         clientList' = clientList, changed' = changed, round' = round,
         received' = received, listed' = listed, current' = current,
         iterator' = iterator, Pending' <=> Pending, Busy' <=> Busy,
         \A d \in Clients : socket[d] # "open" => socket'[d] # "open"
  PROVE  ReachInv'
<1>1. \A p \in 1..Len(clientList) : clientList[p] \in Clients
  BY ElementOfSeq DEF TypeOK
<1> QED BY <1>1 DEF ReachInv

LEMMA ReachStep ==
  ASSUME TypeOK, ListInv, ReachInv, [Next]_vars
  PROVE  ReachInv'
<1>1. /\ Len(clientList) \in Nat
      /\ \A p \in 1..Len(clientList) : clientList[p] \in Clients
      /\ Len(received) \in Nat
  BY LenProperties, ElementOfSeq DEF TypeOK
<1>2. ASSUME NEW c \in Clients, Connect(c) \/ RemoveClient(c)
      PROVE  ReachInv'
  <2>1. CASE changed' = TRUE
    BY <2>1 DEF ReachInv
  <2>2. ASSUME RemoveClient(c), changed' # TRUE
        PROVE  ReachInv'
    <3>1. UNCHANGED <<clientList, changed, round, received, listed, current, iterator,
                      socket, spc>>
      BY <2>2, RemoveCases
    <3> QED BY <3>1, ReachKept DEF Pending, Busy
  <2>3. ASSUME Connect(c), NEW k \in 1..Len(clientList),
               clientList' = [clientList EXCEPT ![k] = c], changed' = changed,
               iterator' = IF iterator = clientList[k] THEN c ELSE iterator,
               listed' = listed \ {clientList[k]}
        PROVE  ReachInv'
    <3>1. /\ UNCHANGED <<round, received, current, spc>>
          /\ \A d \in Clients : d # c => socket'[d] = socket[d]
      BY <2>3 DEF Connect, TypeOK
    <3>2. /\ Len(clientList') = Len(clientList)
          /\ DOMAIN clientList = 1..Len(clientList)
          /\ DOMAIN clientList' = 1..Len(clientList)
          /\ \A p \in 1..Len(clientList) :
               clientList'[p] = IF p = k THEN c ELSE clientList[p]
      BY <2>3, LenProperties, ExceptSeq DEF TypeOK
    <3>3. c # None /\ \A p \in 1..Len(clientList) : clientList[p] # c
      BY <2>3, ConnectCases, ServerAssumption
    <3> SUFFICES ASSUME ~changed, round > 0
                 PROVE  ReachInv'
      BY <2>3, <3>1 DEF ReachInv
    <3>4. listed' \subseteq ToSet(clientList')
      BY <2>3, <3>2 DEF ReachInv, ToSet
    <3>5. c \notin listed
      BY <3>2, <3>3 DEF ReachInv, ToSet
    <3>6. ASSUME NEW p \in 1..Len(clientList), clientList'[p] \in listed'
          PROVE  p # k /\ clientList[p] \in listed /\ clientList'[p] = clientList[p]
      BY <2>3, <3>2, <3>5, <3>6
    <3>7. ASSUME NEW q \in 1..Len(clientList), clientList[q] = iterator, iterator # None
          PROVE  clientList'[q] = iterator' /\ iterator' # None
      BY <2>3, <3>2, <3>3, <3>7 DEF ListInv
    <3>8. ASSUME NEW p \in 1..Len(clientList), clientList'[p] \in listed'
          PROVE  \/ \E m \in 1..Len(received) : received[m] = clientList'[p]
                 \/ socket'[clientList'[p]] # "open"
                 \/ Pending /\ current = clientList'[p]
                 \/ Busy /\ iterator' # None /\ \E q \in 1..p : clientList'[q] = iterator'
      <4>1. p # k /\ clientList[p] \in listed /\ clientList'[p] = clientList[p]
        BY <3>6, <3>8
      <4>2. socket'[clientList[p]] = socket[clientList[p]]
        BY <1>1, <3>1, <3>3
      <4>3. \A q \in 1..p : q \in 1..Len(clientList)
        BY <1>1
      <4> QED BY <3>7, <4>1, <4>2, <4>3 DEF ReachInv
    <3> QED BY <3>1, <3>2, <3>4, <3>8 DEF ReachInv, Busy, Pending
  <2>4. RemoveClient(c) \/ changed' = TRUE \/
          \E k \in 1..Len(clientList) :
               /\ clientList' = [clientList EXCEPT ![k] = c] /\ changed' = changed
               /\ iterator' = IF iterator = clientList[k] THEN c ELSE iterator
               /\ listed' = listed \ {clientList[k]}
    BY <1>2, ConnectCases
  <2> QED BY <1>2, <2>1, <2>2, <2>3, <2>4
<1>3. ASSUME NEW c \in Clients, Stall(c) \/ ReadOn(c) \/ Leave(c) \/ CloseAtEnd(c)
      PROVE  ReachInv'
  <2>1. \A d \in Clients : socket[d] # "open" => socket'[d] # "open"
    BY <1>3 DEF Stall, ReadOn, Leave, CloseAtEnd, Close, TypeOK
  <2>2. clientList' = clientList /\ UNCHANGED sendVars
    BY <1>3 DEF Stall, ReadOn, Leave, CloseAtEnd
  <2> QED BY <2>1, <2>2, ReachKept DEF sendVars, Pending, Busy
<1>4. CASE BeginRound
  <2>1. /\ clientList' = clientList /\ listed' = ToSet(clientList) /\ spc' = "next"
        /\ iterator' = IF clientList = << >> THEN None ELSE Head(clientList)
    BY <1>4 DEF BeginRound, clientVars
  <2>2. ASSUME NEW p \in 1..Len(clientList)
        PROVE  iterator' # None /\ \E q \in 1..p : clientList[q] = iterator'
    <3>1. clientList # << >> /\ 1 \in 1..p /\ Head(clientList) = clientList[1]
      BY <1>1, EmptySeq DEF TypeOK
    <3>2. iterator' = clientList[1] /\ clientList[1] \in Clients
      BY <1>1, <2>1, <3>1
    <3> QED BY <3>1, <3>2, ServerAssumption
  <2> QED BY <2>1, <2>2 DEF ReachInv, Busy
<1>5. CASE EndRound
  <2>1. /\ clientList' = clientList /\ socket' = socket /\ changed' = changed
        /\ round' = round /\ received' = received /\ listed' = listed
        /\ iterator = None \/ changed
    BY <1>5 DEF EndRound, clientVars
  <2>2. ~Pending
    BY <1>5 DEF EndRound, Pending
  <2> QED BY <2>1, <2>2 DEF ReachInv
<1>6. CASE NextClient
  <2>1. /\ clientList' = clientList /\ socket' = socket /\ changed' = changed
        /\ round' = round /\ received' = received /\ listed' = listed
        /\ current' = iterator /\ iterator' = After(iterator) /\ iterator # None
        /\ spc = "next" /\ spc' = "lock"
    BY <1>6 DEF NextClient, clientVars
  <2>2. ASSUME NEW p \in 1..Len(clientList), NEW q \in 1..p, clientList[q] = iterator
        PROVE  \/ current' = clientList[p]
               \/ iterator' # None /\ \E r \in 1..p : clientList[r] = iterator'
    <3>1. CASE q = p
      BY <2>1, <2>2, <3>1
    <3>2. CASE q # p
      <4>1. q \in 1..Len(clientList) - 1 /\ q+1 \in 1..p /\ q+1 \in 1..Len(clientList)
        BY <1>1, <3>2
      <4>2. \A n \in 1..Len(clientList) - 1 : clientList[n] = iterator => n = q
        BY <1>1, <2>2, <4>1 DEF ListInv
      <4>3. After(iterator) = clientList[q+1]
        BY <2>2, <4>1, <4>2 DEF After
      <4> QED BY <1>1, <2>1, <4>1, <4>3, ServerAssumption
    <3> QED BY <3>1, <3>2
  <2> QED BY <2>1, <2>2 DEF ReachInv, Busy, Pending
<1>7. CASE Lock
  BY <1>7, ReachKept DEF Lock, Busy, Pending
<1>8. CASE Write
  <2>1. /\ clientList' = clientList /\ socket' = socket /\ changed' = changed
        /\ round' = round /\ listed' = listed
        /\ current' = current /\ iterator' = iterator
        /\ spc = "write" /\ spc' = "next"
        /\ received' = IF socket[current] = "open" THEN Append(received, current)
                       ELSE received
    BY <1>8 DEF Write
  <2>2. current \in Clients
    BY <2>1 DEF ListInv, Pending, TypeOK
  <2>3. \A m \in 1..Len(received) : m \in 1..Len(received') /\ received'[m] = received[m]
    <3>1. CASE received' = received
      BY <3>1
    <3>2. CASE received' = Append(received, current)
      BY <1>1, <2>2, <3>2, AppendProperties DEF TypeOK
    <3> QED BY <2>1, <3>1, <3>2
  <2>4. socket[current] = "open" => \E m \in 1..Len(received') : received'[m] = current
    <3>1. received \in Seq(Clients)
      BY DEF TypeOK
    <3>2. CASE received' = Append(received, current)
      BY <1>1, <2>2, <3>1, <3>2, AppendProperties
    <3> QED BY <2>1, <3>2
  <2>5. ASSUME ~changed, round > 0, NEW p \in 1..Len(clientList), clientList[p] \in listed
        PROVE  \/ \E m \in 1..Len(received') : received'[m] = clientList[p]
               \/ socket[clientList[p]] # "open"
               \/ iterator # None /\ \E q \in 1..p : clientList[q] = iterator
    BY <2>3, <2>4, <2>5 DEF ReachInv
  <2> QED BY <2>1, <2>5 DEF ReachInv, Busy
<1>9. CASE EndScheduler
  BY <1>9, ReachKept DEF EndScheduler, clientVars, Busy, Pending
<1>10. CASE StopServer \/ Stopping
  <2>1. \A d \in Clients : socket[d] # "open" => socket'[d] # "open"
    BY <1>10 DEF StopServer, Stopping, EndCopy, CloseClient, Close, StopScheduler, JoinScheduler,
                 clientVars, TypeOK
  <2>2. clientList' = clientList /\ UNCHANGED sendVars
    BY <1>10 DEF StopServer, Stopping, EndCopy, CloseClient, StopScheduler, JoinScheduler, clientVars
  <2> QED BY <2>1, <2>2, ReachKept DEF sendVars, Pending, Busy
<1>11. CASE UNCHANGED vars
  BY <1>11, ReachKept DEF vars, clientVars, sendVars, Pending, Busy
<1> QED BY <1>2, <1>3, <1>4, <1>5, <1>6, <1>7, <1>8, <1>9, <1>10, <1>11
        DEF Next, Reader, SchedulerThread

-----------------------------------------------------------------------------
LEMMA Invariance == Spec => []IInv
<1>1. IInv /\ [Next]_vars => IInv'
  BY TypeStep, HeldStep, ListStep, OrderStep, ReachStep DEF IInv
<1> QED BY InitIInv, <1>1, PTL DEF Spec

(* The clients, the message and the stop keep their types in every         *)
(* interleaving of the accept thread, readers, scheduler and stopServer.   *)
THEOREM TypeCorrect == Spec => []TypeOK
<1>1. IInv => TypeOK
  BY DEF IInv
<1> QED BY Invariance, <1>1, PTL

(* Who is in sendMsg of a client is about to write to it: the monitor is   *)
(* free again after every write, one that throws included.                 *)
THEOREM MonitorIsFreed == Spec => []HeldToWrite
<1>1. IInv => HeldToWrite
  BY DEF IInv
<1> QED BY Invariance, <1>1, PTL

(* sendAllMsg gives nobody a message twice or out of the list's order,     *)
(* although the iterator may not see that the list has changed.            *)
THEOREM NobodyTwice == Spec => []SentOnce
<1>1. IInv => SentOnce
  BY DEF IInv
<1> QED BY Invariance, <1>1, PTL

(* sendAllMsg reaches everyone who is connected if the list has not        *)
(* changed meanwhile.                                                      *)
THEOREM ReachesAllUndisturbed == Spec => []UndisturbedReachesAll
<1>1. ASSUME IInv PROVE UndisturbedReachesAll
  <2> SUFFICES ASSUME spc = "work", round > 0, ~changed, NEW c \in listed,
                      socket[c] = "open"
               PROVE  c \in ToSet(received)
    BY DEF UndisturbedReachesAll
  <2>1. /\ DOMAIN clientList = 1..Len(clientList)
        /\ DOMAIN received = 1..Len(received)
    BY <1>1, LenProperties DEF IInv, TypeOK
  <2>2. PICK p \in 1..Len(clientList) : clientList[p] = c
    BY <1>1, <2>1 DEF IInv, ReachInv, ToSet
  <2>3. \E m \in 1..Len(received) : received[m] = c
    BY <1>1, <2>2 DEF IInv, ReachInv, Busy, Pending
  <2> QED BY <2>1, <2>3 DEF ToSet
<1> QED BY Invariance, <1>1, PTL

-----------------------------------------------------------------------------
(* The stop of the server.                                                 *)

(* Who is connected and has not lost the place in the list is there, and   *)
(* from the beginning of the stop in the part of its copy that is not      *)
(* closed yet, unless a removal met the copy.                              *)
CopyInv ==
  /\ \A c \in Clients \ displaced : socket[c] = "open" =>
       /\ reader[c] = "read" /\ Contains(clientList, c)
       /\ stop # "idle" /\ ~disturbed => Contains(toClose, c)
  /\ stop \in {"join", "returned"} => toClose = << >>

LEMMA CopyStep == TypeOK /\ ListInv /\ CopyInv /\ [Next]_vars => CopyInv'
<1> SUFFICES ASSUME TypeOK, ListInv, CopyInv, [Next]_vars PROVE CopyInv'
  OBVIOUS
<1>0. clientList \in Seq(Clients) /\ toClose \in Seq(Clients)
  BY DEF TypeOK
<1>1. ASSUME NEW c \in Clients, Connect(c) PROVE CopyInv'
  <2>1. /\ UNCHANGED <<stop, toClose, disturbed>> /\ stop = "idle"
        /\ socket' = [socket EXCEPT ![c] = "open"] /\ reader' = [reader EXCEPT ![c] = "read"]
    BY <1>1 DEF Connect, stopVars
  <2>2. /\ \A d \in Clients : d # c => socket'[d] = socket[d] /\ reader'[d] = reader[d]
        /\ reader'[c] = "read"
    BY <2>1 DEF TypeOK
  <2>3. displaced \subseteq displaced' /\ Contains(clientList', c)
        /\ \A d \in Clients \ displaced' : Contains(clientList, d) => Contains(clientList', d)
    <3>1. CASE clientList' = Append(clientList, c) /\ UNCHANGED displaced
      BY <1>0, <3>1, AppendContains
    <3>2. ASSUME NEW k \in 1..Len(clientList),
                 clientList' = [clientList EXCEPT ![k] = c],
                 displaced' = displaced \cup {clientList[k]}
          PROVE  /\ displaced \subseteq displaced' /\ Contains(clientList', c)
                 /\ \A d \in Clients \ displaced' :
                      Contains(clientList, d) => Contains(clientList', d)
      <4>1. /\ Len(clientList') = Len(clientList)
            /\ \A p \in 1..Len(clientList) :
                 clientList'[p] = IF p = k THEN c ELSE clientList[p]
        BY <1>0, <3>2, ExceptSeq
      <4>2. Contains(clientList', c)
        BY <4>1 DEF Contains
      <4>3. \A d \in Clients : d # clientList[k] /\ Contains(clientList, d) => Contains(clientList', d)
        BY <4>1 DEF Contains
      <4> QED BY <3>2, <4>2, <4>3
    <3> QED BY <1>1, <3>1, <3>2, ConnectCases
  <2> QED BY <2>1, <2>2, <2>3 DEF CopyInv
<1>2. ASSUME NEW c \in Clients, RemoveClient(c) PROVE CopyInv'
  <2>1. /\ UNCHANGED <<stop, socket>> /\ socket[c] # "open"
        /\ \A d \in Clients : d # c => reader'[d] = reader[d]
    <3>1. /\ UNCHANGED <<stop, socket>> /\ socket[c] \in {"left", "closed"}
          /\ reader' = [reader EXCEPT ![c] = "close"]
      BY <1>2, RemoveCases
    <3> QED BY <3>1 DEF TypeOK
  <2>2. CASE UNCHANGED <<clientList, displaced, toClose, disturbed>>
    BY <2>1, <2>2 DEF CopyInv, Contains
  <2>3. ASSUME NEW d \in Clients,
               clientList' = RemoveFirst(clientList, d),
               displaced' = displaced \cup ({d} \ {c}),
               disturbed' = (disturbed \/ stop = "copy"),
               \/ UNCHANGED toClose
               \/ stop = "copy" /\ toClose' = RemoveFirst(toClose, d)
        PROVE  CopyInv'
    <3>1. \A e \in Clients : Contains(clientList, e) /\ e # d => Contains(clientList', e)
      BY <1>0, <2>3, RemoveFirstContains
    <3>2. ~disturbed' => ~disturbed /\ toClose' = toClose
      BY <2>3, Zenon
    <3>3. stop' \in {"join", "returned"} => toClose' = toClose
      BY <2>1, <2>3
    <3>4. \A e \in Clients \ displaced' : socket'[e] = "open" => e # c /\ e # d /\ e \notin displaced
      BY <2>1, <2>3
    <3> QED BY <2>1, <3>1, <3>2, <3>3, <3>4 DEF CopyInv, Contains
  <2> QED BY <1>2, <2>2, <2>3, RemoveCases
<1>3. ASSUME NEW c \in Clients, Leave(c) \/ CloseAtEnd(c) PROVE CopyInv'
  <2>1. /\ UNCHANGED <<listVars, stop, toClose, disturbed>>
        /\ \A d \in Clients : socket'[d] = "open" => socket[d] = "open" /\ reader'[d] = reader[d]
    BY <1>3 DEF Leave, CloseAtEnd, Close, TypeOK, stopVars
  <2> QED BY <2>1 DEF CopyInv
<1>4. CASE StopServer
  BY <1>4 DEF StopServer, CopyInv, clientVars
<1>5. CASE EndCopy
  <2>1. /\ UNCHANGED <<listVars, socket, reader, disturbed>>
        /\ stop = "copy" /\ stop' = "close" /\ (~disturbed => toClose' = toClose)
    BY <1>5 DEF EndCopy, clientVars
  <2> QED BY <2>1 DEF CopyInv, Contains
<1>6. CASE CloseClient
  <2> DEFINE h == Head(toClose)
  <2>1. /\ toClose # << >> /\ toClose' = Tail(toClose) /\ h \in Clients
        /\ socket' = [socket EXCEPT ![h] = "closed"]
        /\ UNCHANGED <<listVars, reader, stop, disturbed>> /\ stop = "close"
    BY <1>6, <1>0, HeadTailProperties DEF CloseClient, Close
  <2>2. \A d \in Clients : socket'[d] = "open" => socket[d] = "open" /\ d # h
    BY <2>1 DEF TypeOK
  <2>3. \A d \in Clients : Contains(toClose, d) <=> Contains(toClose', d) \/ d = h
    BY <1>0, <2>1, TailContains
  <2> QED BY <2>1, <2>2, <2>3 DEF CopyInv
<1>7. CASE StopScheduler \/ JoinScheduler
  BY <1>7 DEF StopScheduler, JoinScheduler, CopyInv, clientVars
<1>8. ASSUME UNCHANGED <<listVars, socket, reader, stop, toClose, disturbed>> PROVE CopyInv'
  BY <1>8 DEF CopyInv, Contains
<1>9. ASSUME NEW c \in Clients, Stall(c) \/ ReadOn(c)
      PROVE  UNCHANGED <<listVars, socket, reader, stop, toClose, disturbed>>
  BY <1>9 DEF Stall, ReadOn, stopVars
<1>10. BeginRound \/ SchedulerThread \/ UNCHANGED vars =>
        UNCHANGED <<listVars, socket, reader, stop, toClose, disturbed>>
  BY DEF BeginRound, SchedulerThread, EndRound, NextClient, Lock, Write, EndScheduler,
     vars, clientVars, stopVars
<1> QED BY <1>1, <1>2, <1>3, <1>4, <1>5, <1>6, <1>7, <1>8, <1>9, <1>10
        DEF Next, Stopping, Reader

(* The scheduler, which is stopped after the clients, does not wait for a  *)
(* browser any more, but for one that has lost its place in the list       *)
(* before: what it still writes throws at once.  A removal that meets the  *)
(* copy of the list undoes this (KaliyaServer.stopServer,                  *)
(* Server.stopServer).                                                     *)
THEOREM NobodyIsLeftOpen == Spec => []StopFindsNoneOpen
<1>1. Init => CopyInv
  BY DEF Init, CopyInv
<1>2. CopyInv => StopFindsNoneOpen
  <2> SUFFICES ASSUME CopyInv, stop \in {"join", "returned"}, ~disturbed,
                      NEW c \in Clients \ displaced, socket[c] = "open"
               PROVE  FALSE
    BY DEF StopFindsNoneOpen
  <2>1. Contains(toClose, c) /\ toClose = << >>
    BY DEF CopyInv
  <2> QED BY <2>1 DEF Contains
<1>3. IInv => TypeOK /\ ListInv
  BY DEF IInv
<1> QED BY <1>1, <1>2, <1>3, CopyStep, Invariance, PTL DEF Spec
=============================================================================
