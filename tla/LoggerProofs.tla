---------------------------- MODULE LoggerProofs ----------------------------
(***************************************************************************)
(* Theorems about Logger, for any number of threads and messages: what the *)
(* list holds, that it keeps to its bound and that little is lost.         *)
(***************************************************************************)
EXTENDS Logger, FiniteSetTheorems, SequenceTheorems, TLAPS

(* The list as it will be once those who are about to remove have done so  *)
Least == MAX_LOG + 1 - Cardinality(Threads)

(* Each thread that has seen the list above its bound takes one message,   *)
(* so few can that something is left for each of them.                     *)
Kept ==
  \/ Len(lstMessage) - Cardinality(Removing) >= added
  \/ Len(lstMessage) - Cardinality(Removing) >= Least

IInv == TypeOK /\ NewestMessages /\ AtMostMax /\ Kept

LEMMA Counts ==
  ASSUME TypeOK
  PROVE  /\ IsFiniteSet(Checking) /\ IsFiniteSet(Removing)
         /\ Cardinality(Checking) \in Nat /\ Cardinality(Removing) \in Nat
         /\ Cardinality(Threads) \in Nat
         /\ Cardinality(Removing) <= Cardinality(Threads)
<1>1. IsFiniteSet(Threads) /\ Checking \subseteq Threads /\ Removing \subseteq Threads
  BY LoggerAssumption DEF Checking, Removing
<1>2. /\ IsFiniteSet(Checking) /\ IsFiniteSet(Removing)
      /\ Cardinality(Removing) <= Cardinality(Threads)
  BY <1>1, FS_Subset
<1> QED BY <1>1, <1>2, FS_CardinalityType

(* The threads that check or remove, as one of them goes on                *)
LEMMA AddCounts ==
  ASSUME TypeOK, NEW t \in Threads, Add(t)
  PROVE  /\ Cardinality(Checking') = Cardinality(Checking) + 1
         /\ Removing' = Removing
<1>1. Checking' = Checking \cup {t} /\ t \notin Checking /\ Removing' = Removing
  BY DEF Add, TypeOK, Checking, Removing
<1> QED BY <1>1, Counts, FS_AddElement

LEMMA CheckCounts ==
  ASSUME TypeOK, NEW t \in Threads, CheckSize(t)
  PROVE  /\ Cardinality(Checking') = Cardinality(Checking) - 1
         /\ IF Len(lstMessage) > MAX_LOG
            THEN Cardinality(Removing') = Cardinality(Removing) + 1
            ELSE Removing' = Removing
<1>1. Checking' = Checking \ {t} /\ t \in Checking /\ t \notin Removing
  BY DEF CheckSize, TypeOK, Checking, Removing
<1>2. Cardinality(Checking') = Cardinality(Checking) - 1
  BY <1>1, Counts, FS_RemoveElement
<1>3. CASE Len(lstMessage) > MAX_LOG
  <2>1. Removing' = Removing \cup {t}
    BY <1>3 DEF CheckSize, TypeOK, Removing
  <2> QED BY <1>1, <1>2, <1>3, <2>1, Counts, FS_AddElement
<1>4. CASE ~(Len(lstMessage) > MAX_LOG)
  <2>1. Removing' = Removing
    BY <1>4 DEF CheckSize, TypeOK, Removing
  <2> QED BY <1>2, <1>4, <2>1
<1> QED BY <1>3, <1>4

LEMMA RemoveCounts ==
  ASSUME TypeOK, NEW t \in Threads, Remove(t)
  PROVE  /\ Checking' = Checking
         /\ Cardinality(Removing') = Cardinality(Removing) - 1
         /\ Cardinality(Removing) >= 1
<1>1. Removing' = Removing \ {t} /\ t \in Removing /\ Checking' = Checking
  BY DEF Remove, TypeOK, Checking, Removing
<1>2. Cardinality(Removing') = Cardinality(Removing) - 1
  BY <1>1, Counts, FS_RemoveElement
<1>3. IsFiniteSet(Removing')
  BY <1>1, Counts, FS_RemoveElement
<1> QED BY <1>1, <1>2, <1>3, Counts, FS_CardinalityType

-----------------------------------------------------------------------------
(* Each step keeps the invariant.                                          *)

LEMMA Lengths ==
  ASSUME TypeOK
  PROVE  Len(lstMessage) \in Nat /\ Least \in Nat
<1>1. Len(lstMessage) \in Nat
  BY LenProperties DEF TypeOK
<1>2. Least \in Nat
  BY Counts, LoggerAssumption DEF Least
<1> QED BY <1>1, <1>2

(* Whoever is about to remove a message finds one.                         *)
LEMMA SomethingToRemove ==
  ASSUME IInv, NEW t \in Threads, tpc[t] = "remove"
  PROVE  lstMessage # << >> /\ Len(lstMessage) >= 1
<1>1. t \in Removing
  BY DEF Removing
<1>2. Cardinality(Removing) >= 1
  <2>1. Cardinality(Removing) # 0
    BY <1>1, Counts, FS_EmptySet DEF IInv
  <2> QED BY <2>1, Counts DEF IInv
<1>3. added \in Nat
  BY DEF IInv, TypeOK
<1>4. Len(lstMessage) >= 1
  BY <1>2, <1>3, Lengths, Counts DEF IInv, Kept
<1> QED BY <1>4, EmptySeq

LEMMA InitIInv == Init => IInv
<1> SUFFICES ASSUME Init PROVE IInv
  OBVIOUS
<1>1. /\ lstMessage = << >> /\ added = 0
      /\ << >> \in Seq(Nat) /\ Len(<< >>) = 0
  BY EmptySeq DEF Init
<1>2. TypeOK
  <2>1. tpc \in [Threads -> {"add", "size", "remove"}]
    BY DEF Init
  <2>2. lstMessage \in Seq(Nat) /\ added \in Nat
    BY <1>1
  <2> QED BY <2>1, <2>2 DEF TypeOK
<1>3. Checking = {} /\ Removing = {}
  BY DEF Init, Checking, Removing
<1>4. Cardinality(Checking) = 0 /\ Cardinality(Removing) = 0
  BY <1>3, FS_EmptySet
<1>5. NewestMessages
  BY <1>1 DEF NewestMessages
<1>6. AtMostMax /\ Kept
  BY <1>1, <1>4, LoggerAssumption DEF AtMostMax, Kept
<1> QED BY <1>2, <1>5, <1>6 DEF IInv

LEMMA AddKeeps == ASSUME IInv, NEW t \in Threads, Add(t) PROVE IInv'
<1>1. /\ TypeOK /\ added \in Nat /\ lstMessage \in Seq(Nat)
      /\ added' = added + 1 /\ lstMessage' = Append(lstMessage, added + 1)
      /\ tpc' = [tpc EXCEPT ![t] = "size"]
  BY DEF IInv, TypeOK, Add
<1>2. /\ lstMessage' \in Seq(Nat) /\ Len(lstMessage') = Len(lstMessage) + 1
      /\ \A n \in 1..Len(lstMessage) : lstMessage'[n] = lstMessage[n]
      /\ lstMessage'[Len(lstMessage) + 1] = added + 1
  BY <1>1, AppendProperties, added + 1 \in Nat
<1>3. /\ Cardinality(Checking') = Cardinality(Checking) + 1
      /\ Removing' = Removing
  BY <1>1, AddCounts
<1>4. TypeOK'
  BY <1>1, <1>2 DEF TypeOK
<1>5. NewestMessages'
  <2>1. PICK l \in Nat : l = Len(lstMessage)
    BY Lengths, <1>1
  <2>2. /\ l <= added /\ added \in Nat /\ added' = added + 1
        /\ \A n \in 1..l : lstMessage'[n] = added - l + n
        /\ lstMessage'[l + 1] = added + 1
        /\ Len(lstMessage') = l + 1
    BY <1>1, <1>2, <2>1 DEF IInv, NewestMessages
  <2>3. ASSUME NEW n \in 1..l + 1
        PROVE  lstMessage'[n] = added' - (l + 1) + n
    <3>1. CASE n = l + 1
      BY <2>2, <3>1
    <3>2. CASE n \in 1..l
      BY <2>2, <3>2
    <3> QED BY <3>1, <3>2
  <2>4. l + 1 <= added'
    BY <2>2
  <2> QED BY <2>2, <2>3, <2>4 DEF NewestMessages
<1>6. AtMostMax'
  BY <1>1, <1>2, <1>3, Lengths, Counts, LoggerAssumption DEF IInv, AtMostMax
<1>7. Kept'
  BY <1>1, <1>2, <1>3, Lengths, Counts DEF IInv, Kept, Least
<1> QED BY <1>4, <1>5, <1>6, <1>7 DEF IInv

LEMMA CheckKeeps == ASSUME IInv, NEW t \in Threads, CheckSize(t) PROVE IInv'
<1>1. TypeOK /\ added \in Nat
  BY DEF IInv, TypeOK
<1>2. UNCHANGED <<lstMessage, added>>
  BY DEF CheckSize
<1>3. TypeOK'
  BY <1>1, <1>2 DEF TypeOK, CheckSize
<1>4. /\ Cardinality(Checking') = Cardinality(Checking) - 1
      /\ IF Len(lstMessage) > MAX_LOG
         THEN Cardinality(Removing') = Cardinality(Removing) + 1
         ELSE Removing' = Removing
  BY <1>1, CheckCounts
<1>5. Cardinality(Removing') <= Cardinality(Threads)
  <2>1. IsFiniteSet(Threads) /\ Removing' \subseteq Threads
    BY LoggerAssumption DEF Removing
  <2> QED BY <2>1, FS_Subset
<1>6. NewestMessages'
  BY <1>2 DEF IInv, NewestMessages
<1>7. CASE Len(lstMessage) > MAX_LOG
  <2>1. Cardinality(Removing') = Cardinality(Removing) + 1
    BY <1>4, <1>7
  <2>2. AtMostMax'
    BY <1>1, <1>2, <1>4, <2>1, Lengths, Counts, LoggerAssumption DEF IInv, AtMostMax
  <2>3. Kept'
    BY <1>1, <1>2, <1>5, <1>7, <2>1, Lengths, Counts, LoggerAssumption DEF Kept, Least
  <2> QED BY <1>3, <1>6, <2>2, <2>3 DEF IInv
<1>8. CASE ~(Len(lstMessage) > MAX_LOG)
  <2>1. Removing' = Removing
    BY <1>4, <1>8
  <2>2. Cardinality(Checking') \in Nat
    <3>1. IsFiniteSet(Threads) /\ Checking' \subseteq Threads
      BY LoggerAssumption DEF Checking
    <3>2. IsFiniteSet(Checking')
      BY <3>1, FS_Subset
    <3> QED BY <3>2, FS_CardinalityType
  <2>3. AtMostMax'
    BY <1>1, <1>2, <1>8, <2>1, <2>2, Lengths, Counts, LoggerAssumption DEF AtMostMax
  <2>4. Kept'
    BY <1>2, <2>1 DEF IInv, Kept
  <2> QED BY <1>3, <1>6, <2>3, <2>4 DEF IInv
<1> QED BY <1>7, <1>8

LEMMA RemoveKeeps == ASSUME IInv, NEW t \in Threads, Remove(t) PROVE IInv'
<1>1. /\ TypeOK /\ added \in Nat /\ lstMessage \in Seq(Nat)
      /\ lstMessage # << >> /\ Len(lstMessage) >= 1
  BY SomethingToRemove DEF IInv, TypeOK, Remove
<1>2. lstMessage' = Tail(lstMessage) /\ added' = added
  BY DEF Remove
<1>3. /\ lstMessage' \in Seq(Nat) /\ Len(lstMessage') = Len(lstMessage) - 1
      /\ \A n \in 1..Len(lstMessage) - 1 : lstMessage'[n] = lstMessage[n + 1]
  BY <1>1, <1>2, HeadTailProperties
<1>4. /\ Checking' = Checking
      /\ Cardinality(Removing') = Cardinality(Removing) - 1
  BY <1>1, RemoveCounts
<1>5. TypeOK'
  BY <1>1, <1>2, <1>3 DEF TypeOK, Remove
<1>6. NewestMessages'
  BY <1>1, <1>2, <1>3, Lengths DEF IInv, NewestMessages
<1>7. AtMostMax'
  <2>1. /\ Len(lstMessage) \in Nat /\ MAX_LOG \in Nat
        /\ Cardinality(Checking) \in Nat /\ Cardinality(Removing) \in Nat
    BY <1>1, Lengths, Counts, LoggerAssumption
  <2>2. Len(lstMessage) <= MAX_LOG + Cardinality(Checking) + Cardinality(Removing)
    BY DEF IInv, AtMostMax
  <2>3. Len(lstMessage') <= MAX_LOG + Cardinality(Checking') + Cardinality(Removing')
    BY <1>3, <1>4, <2>1, <2>2
  <2> QED BY <2>3 DEF AtMostMax
<1>8. Kept'
  BY <1>1, <1>2, <1>3, <1>4, Lengths, Counts DEF IInv, Kept, Least
<1> QED BY <1>5, <1>6, <1>7, <1>8 DEF IInv

LEMMA NextIInv == IInv /\ [Next]_vars => IInv'
<1> SUFFICES ASSUME IInv, [Next]_vars PROVE IInv'
  OBVIOUS
<1>1. CASE \E t \in Threads : Add(t) \/ CheckSize(t) \/ Remove(t)
  BY <1>1, AddKeeps, CheckKeeps, RemoveKeeps
<1>2. CASE UNCHANGED vars
  BY <1>2 DEF vars, IInv, TypeOK, NewestMessages, AtMostMax, Kept, Checking, Removing
<1> QED BY <1>1, <1>2 DEF Next

-----------------------------------------------------------------------------
(* The theorems.                                                           *)

(* The variables keep their types.                                         *)
THEOREM TypeCorrect == Spec => []TypeOK
<1>1. IInv => TypeOK
  BY DEF IInv
<1> QED BY <1>1, InitIInv, NextIInv, PTL DEF Spec

(* The list holds the newest messages in order, for any threads.           *)
THEOREM HoldsTheNewest == Spec => []NewestMessages
<1>1. IInv => NewestMessages
  BY DEF IInv
<1> QED BY <1>1, InitIInv, NextIInv, PTL DEF Spec

(* It is above its bound by no more than the threads that are not done.    *)
THEOREM Bounded == Spec => []AtMostMax
<1>1. IInv => AtMostMax
  BY DEF IInv
<1> QED BY <1>1, InitIInv, NextIInv, PTL DEF Spec

(* It loses at most a message for each other thread, and remove finds one. *)
THEOREM LosesFew == Spec => []FewAreLost
<1>1. IInv => FewAreLost
  <2> SUFFICES ASSUME IInv PROVE FewAreLost
    OBVIOUS
  <2>1. \A t \in Removing : lstMessage # << >>
    BY SomethingToRemove DEF Removing
  <2>2. added \in Nat /\ TypeOK
    BY DEF IInv, TypeOK
  <2>3. /\ Len(lstMessage) \in Nat /\ Least \in Nat
        /\ Cardinality(Removing) \in Nat
    BY <2>2, Lengths, Counts
  <2>4. Len(lstMessage) - Cardinality(Removing) >= IF added <= Least THEN added ELSE Least
    BY <2>2, <2>3 DEF IInv, Kept
  <2> QED BY <2>1, <2>4 DEF FewAreLost, Least
<1> QED BY <1>1, InitIInv, NextIInv, PTL DEF Spec
=============================================================================
