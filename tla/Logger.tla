------------------------------- MODULE Logger -------------------------------
(***************************************************************************)
(* The messages of the console (KaliyaLogger): any thread of the server    *)
(* may call logAdmin, whose three calls on the synchronized list, add,     *)
(* size and remove, are three steps.                                       *)
(*                                                                         *)
(* A message is its place among all that were ever added.                  *)
(***************************************************************************)
EXTENDS Integers, Sequences, FiniteSets

CONSTANTS
  Threads,     \* the threads that log
  MAX_LOG,     \* MAX_LOG
  MaxMessages  \* bound: the messages that are added

(* There are no more threads than the list has places and one.             *)
ASSUME LoggerAssumption ==
  /\ IsFiniteSet(Threads)
  /\ MAX_LOG \in Nat /\ MaxMessages \in Nat
  /\ Cardinality(Threads) <= MAX_LOG + 1

VARIABLES
  lstMessage,  \* m_lstMessage
  added,       \* history: how many messages were added
  tpc          \* next step of each thread: "add", "size" or "remove"

vars == <<lstMessage, added, tpc>>

Init ==
  /\ lstMessage = << >>
  /\ added = 0
  /\ tpc = [t \in Threads |-> "add"]

-----------------------------------------------------------------------------
(* KaliyaLogger.logAdmin.                                                  *)

Add(t) ==
  /\ tpc[t] = "add"
  /\ added < MaxMessages
  /\ added' = added + 1
  /\ lstMessage' = Append(lstMessage, added')
  /\ tpc' = [tpc EXCEPT ![t] = "size"]

(* Mutants: >= instead of >; the size is not looked at.                    *)
CheckSizeAtLeast(t) ==
  /\ tpc[t] = "size"
  /\ tpc' = [tpc EXCEPT ![t] = IF Len(lstMessage) >= MAX_LOG THEN "remove" ELSE "add"]
  /\ UNCHANGED <<lstMessage, added>>
CheckSizeNot(t) ==
  /\ tpc[t] = "size"
  /\ tpc' = [tpc EXCEPT ![t] = "add"]
  /\ UNCHANGED <<lstMessage, added>>

CheckSize(t) ==
  /\ tpc[t] = "size"
  /\ tpc' = [tpc EXCEPT ![t] = IF Len(lstMessage) > MAX_LOG THEN "remove" ELSE "add"]
  /\ UNCHANGED <<lstMessage, added>>

(* remove(0)                                                               *)
Remove(t) ==
  /\ tpc[t] = "remove"
  /\ lstMessage' = Tail(lstMessage)
  /\ tpc' = [tpc EXCEPT ![t] = "add"]
  /\ UNCHANGED added

Next == \E t \in Threads : Add(t) \/ CheckSize(t) \/ Remove(t)

Spec == Init /\ [][Next]_vars

-----------------------------------------------------------------------------
(* Properties.                                                             *)

Checking == {t \in Threads : tpc[t] = "size"}
Removing == {t \in Threads : tpc[t] = "remove"}

TypeOK ==
  /\ lstMessage \in Seq(Nat)
  /\ added \in Nat
  /\ tpc \in [Threads -> {"add", "size", "remove"}]

(* The list holds the newest messages, all of them in their order, however *)
(* the threads take turns (logAdmin).                                      *)
NewestMessages ==
  /\ Len(lstMessage) <= added
  /\ \A n \in 1..Len(lstMessage) :
       lstMessage[n] = added - Len(lstMessage) + n

(* The list is above its bound by the threads that have added a message    *)
(* and not yet looked or removed one, and by no more: when all of them are *)
(* done it is within the bound.                                            *)
AtMostMax ==
  Len(lstMessage) <= MAX_LOG + Cardinality(Checking) + Cardinality(Removing)

(* Two threads may look before either removes, and then both do: the list  *)
(* may lose a message it has room for, but one for each other thread at    *)
(* the most.  So remove(0) never meets an empty list.                      *)
FewAreLost ==
  /\ Len(lstMessage) - Cardinality(Removing)
       >= IF added <= MAX_LOG + 1 - Cardinality(Threads) THEN added
          ELSE MAX_LOG + 1 - Cardinality(Threads)
  /\ \A t \in Removing : lstMessage # << >>
=============================================================================
