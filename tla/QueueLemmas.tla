---------------------------- MODULE QueueLemmas ----------------------------
(***************************************************************************)
(* What joining a queue, leaving it at its head and RemoveFirst of         *)
(* SequencesExt do to a queue: the proofs about the queues of the server   *)
(* rest on these facts.                                                    *)
(***************************************************************************)
EXTENDS SequencesExt, SequenceTheorems, WellFoundedInduction, TLAPS

(* A set of natural numbers that is not empty has a least element.         *)
LEMMA LeastNatural ==
  ASSUME NEW T \in SUBSET Nat, T # {}
  PROVE  \E x \in T : \A y \in T : x =< y
<1>1. PICK x \in T : \A y \in T : ~ (<<y, x>> \in OpToRel(<, Nat))
  BY NatLessThanWellFounded, WFMin
<1>2. OpToRel(<, Nat) = {ss \in Nat \X Nat : ss[1] < ss[2]}
  BY Zenon DEF OpToRel
<1>3. ASSUME NEW y \in T
      PROVE  x =< y
  <2>1. ~ (y < x)
    <3>1. y < x => <<y, x>> \in OpToRel(<, Nat)
      BY <1>2
    <3> QED BY <1>1, <3>1
  <2> QED BY <2>1
<1> QED BY <1>3

(* RemoveFirst(s, e) is s without position p, the first that holds e.      *)
LEMMA RemoveFirstIsRemoveAt ==
  ASSUME NEW S, NEW s \in Seq(S), NEW e, \E i \in 1..Len(s) : s[i] = e
  PROVE  \E p \in 1..Len(s) :
           /\ s[p] = e
           /\ RemoveFirst(s, e) = SubSeq(s, 1, p-1) \o SubSeq(s, p+1, Len(s))
<1> DEFINE I == {i \in 1..Len(s) : s[i] = e}
           p == CHOOSE x \in I : \A y \in I : x =< y
<1>1. I # {} /\ I \in SUBSET Nat
  BY LenProperties
<1>2. p \in I
  BY <1>1, LeastNatural
<1>3. SelectInSeq(s, LAMBDA v : v = e) = p
  BY <1>1 DEF SelectInSeq, Min
<1>4. RemoveFirst(s, e) = RemoveAt(s, p)
  BY <1>3 DEF RemoveFirst
<1> QED BY <1>2, <1>4 DEF RemoveAt

(* RemoveFirst leaves the elements of the queue it is given, in their      *)
(* order: from some position p on each comes from one position further on. *)
LEMMA RemoveFirstShifts ==
  ASSUME NEW S, NEW s \in Seq(S), NEW e
  PROVE  /\ RemoveFirst(s, e) \in Seq(S)
         /\ \E p \in Nat : \A i \in 1..Len(RemoveFirst(s, e)) :
              LET j == IF i < p THEN i ELSE i+1
              IN  j \in 1..Len(s) /\ RemoveFirst(s, e)[i] = s[j]
<1>1. CASE \E i \in 1..Len(s) : s[i] = e
  <2>1. PICK p \in 1..Len(s) :
          RemoveFirst(s, e) = SubSeq(s, 1, p-1) \o SubSeq(s, p+1, Len(s))
    BY <1>1, RemoveFirstIsRemoveAt
  <2> DEFINE u == SubSeq(s, 1, p-1)
             v == SubSeq(s, p+1, Len(s))
  <2>2. Len(s) \in Nat /\ \A i \in 1..Len(s) : s[i] \in S
    BY LenProperties, ElementOfSeq
  <2>3. /\ u \in Seq(S) /\ Len(u) = p-1
        /\ \A i \in 1..p-1 : u[i] = s[i]
    BY <2>2, SubSeqProperties, Z3
  <2>4. /\ v \in Seq(S) /\ Len(v) = Len(s) - p
        /\ \A i \in 1..Len(s)-p : v[i] = s[p+i]
    BY <2>2, SubSeqProperties, Z3
  <2> HIDE DEF u, v
  <2>5. /\ u \o v \in Seq(S)
        /\ Len(u \o v) = Len(s) - 1
        /\ \A i \in 1..Len(s)-1 : (u \o v)[i] = IF i <= p-1 THEN u[i] ELSE v[i-(p-1)]
    <3>1. Len(u) + Len(v) = Len(s) - 1
      BY <2>2, <2>3, <2>4
    <3>2. /\ u \o v \in Seq(S)
          /\ Len(u \o v) = Len(u) + Len(v)
          /\ \A i \in 1..Len(u) + Len(v) :
               (u \o v)[i] = IF i <= Len(u) THEN u[i] ELSE v[i - Len(u)]
      BY <2>3, <2>4, ConcatProperties
    <3> QED BY <3>1, <3>2, <2>3
  <2>6. ASSUME NEW i \in 1..Len(s)-1
        PROVE  /\ (IF i < p THEN i ELSE i+1) \in 1..Len(s)
               /\ (u \o v)[i] = s[IF i < p THEN i ELSE i+1]
    <3>1. CASE i < p
      BY <3>1, <2>2, <2>3, <2>5
    <3>2. CASE ~(i < p)
      <4>1. i-(p-1) \in 1..Len(s)-p /\ i+1 \in 1..Len(s) /\ p+(i-(p-1)) = i+1
        BY <3>2, <2>2
      <4>2. (u \o v)[i] = v[i-(p-1)]
        BY <3>2, <2>2, <2>5
      <4> QED BY <4>1, <4>2, <3>2, <2>4
    <3> QED BY <3>1, <3>2
  <2>7. RemoveFirst(s, e) = u \o v
    BY <2>1 DEF u, v
  <2>8. p \in Nat /\ 1..Len(RemoveFirst(s, e)) = 1..Len(s)-1
    BY <2>5, <2>7
  <2>9. ASSUME NEW i \in 1..Len(RemoveFirst(s, e))
        PROVE  LET j == IF i < p THEN i ELSE i+1
               IN  j \in 1..Len(s) /\ RemoveFirst(s, e)[i] = s[j]
    BY <2>6, <2>7, <2>8
  <2> QED BY <2>5, <2>7, <2>8, <2>9
<1>2. CASE ~ \E i \in 1..Len(s) : s[i] = e
  <2>1. RemoveFirst(s, e) = s
    BY <1>2 DEF RemoveFirst
  <2>2. Len(s) \in Nat
    BY LenProperties
  <2>3. ASSUME NEW i \in 1..Len(RemoveFirst(s, e))
        PROVE  LET j == IF i < Len(s)+1 THEN i ELSE i+1
               IN  j \in 1..Len(s) /\ RemoveFirst(s, e)[i] = s[j]
    <3>1. i < Len(s)+1 /\ i \in 1..Len(s)
      BY <2>1, <2>2
    <3> QED BY <2>1, <3>1
  <2>4. Len(s)+1 \in Nat
    BY <2>2
  <2>5. RemoveFirst(s, e) \in Seq(S)
    BY <2>1
  <2> QED BY <2>3, <2>4, <2>5
<1> QED BY <1>1, <1>2

(* RemoveFirst leaves a queue with elements of the queue it is given.      *)
LEMMA RemoveFirstElements ==
  ASSUME NEW S, NEW s \in Seq(S), NEW e
  PROVE  /\ RemoveFirst(s, e) \in Seq(S)
         /\ \A i \in 1..Len(RemoveFirst(s, e)) :
              \E j \in 1..Len(s) : RemoveFirst(s, e)[i] = s[j]
BY RemoveFirstShifts

(* v is in the queue s at one position at most.                            *)
AtMostOnce(s, v) == \A i, j \in 1..Len(s) : s[i] = v /\ s[j] = v => i = j

(* What joins a queue, what leaves it at its head and what is removed from *)
(* it changes nothing for the others; what is in it once leaves it for     *)
(* good.                                                                   *)
LEMMA AppendContains ==
  ASSUME NEW S, NEW s \in Seq(S), NEW e \in S, NEW v
  PROVE  /\ Contains(Append(s, e), v) <=> Contains(s, v) \/ v = e
         /\ AtMostOnce(s, v) /\ (v = e => ~Contains(s, v)) =>
              AtMostOnce(Append(s, e), v)
<1> DEFINE u == Append(s, e)
<1>1. /\ Len(s) \in Nat /\ Len(u) = Len(s) + 1
      /\ \A i \in 1..Len(s) : u[i] = s[i]
      /\ u[Len(s) + 1] = e
  BY AppendProperties, LenProperties
<1> HIDE DEF u
<1>2. \A i \in 1..Len(u) : i \in 1..Len(s) \/ i = Len(s) + 1
  BY <1>1
<1>3. 1..Len(s) \subseteq 1..Len(u) /\ Len(s) + 1 \in 1..Len(u)
  BY <1>1
<1>4. Contains(u, v) <=> Contains(s, v) \/ v = e
  BY <1>1, <1>2, <1>3 DEF Contains
<1>5. AtMostOnce(s, v) /\ (v = e => ~Contains(s, v)) => AtMostOnce(u, v)
  BY <1>1, <1>2 DEF AtMostOnce, Contains
<1> QED BY <1>4, <1>5 DEF u

LEMMA TailContains ==
  ASSUME NEW S, NEW s \in Seq(S), s # << >>, NEW v
  PROVE  /\ Contains(s, v) <=> Contains(Tail(s), v) \/ v = Head(s)
         /\ AtMostOnce(s, v) => /\ AtMostOnce(Tail(s), v)
                                /\ v = Head(s) => ~Contains(Tail(s), v)
<1> DEFINE u == Tail(s)
<1>1. /\ Len(s) \in Nat \ {0} /\ Len(u) = Len(s) - 1
      /\ \A i \in 1..Len(u) : u[i] = s[i+1]
      /\ Head(s) = s[1]
  BY HeadTailProperties, EmptySeq
<1> HIDE DEF u
<1>2. \A i \in 1..Len(u) : i+1 \in 1..Len(s) /\ i+1 # 1
  BY <1>1
<1>3. 1 \in 1..Len(s) /\ \A i \in 1..Len(s) : i = 1 \/ (i-1 \in 1..Len(u) /\ (i-1)+1 = i)
  BY <1>1
<1>4. Contains(s, v) <=> Contains(u, v) \/ v = Head(s)
  <2>1. ASSUME NEW i \in 1..Len(s), s[i] = v, v # Head(s)
        PROVE  Contains(u, v)
    <3>1. i-1 \in 1..Len(u) /\ u[i-1] = s[i]
      BY <1>1, <1>3, <2>1
    <3> QED BY <2>1, <3>1 DEF Contains
  <2> QED BY <1>1, <1>2, <1>3, <2>1 DEF Contains
<1>5. ASSUME AtMostOnce(s, v)
      PROVE  /\ AtMostOnce(u, v)
             /\ v = Head(s) => ~Contains(u, v)
  <2>1. ASSUME NEW i \in 1..Len(u), NEW j \in 1..Len(u), u[i] = v, u[j] = v
        PROVE  i = j
    <3>1. i+1 = j+1
      BY <1>1, <1>2, <1>5, <2>1 DEF AtMostOnce
    <3> QED BY <1>1, <3>1
  <2>2. v = Head(s) => ~Contains(u, v)
    BY <1>1, <1>2, <1>3, <1>5 DEF AtMostOnce, Contains
  <2> QED BY <2>1, <2>2 DEF AtMostOnce
<1> QED BY <1>4, <1>5 DEF u

LEMMA RemoveFirstContains ==
  ASSUME NEW S, NEW s \in Seq(S), NEW e, NEW v
  PROVE  /\ Contains(RemoveFirst(s, e), v) => Contains(s, v)
         /\ Contains(s, v) /\ v # e => Contains(RemoveFirst(s, e), v)
         /\ AtMostOnce(s, v) => AtMostOnce(RemoveFirst(s, e), v)
<1> DEFINE u == RemoveFirst(s, e)
<1>1. u \in Seq(S) /\ Len(u) \in Nat /\ Len(s) \in Nat
  BY RemoveFirstShifts, LenProperties
<1>2. PICK k \in Nat : \A i \in 1..Len(u) :
        LET j == IF i < k THEN i ELSE i+1
        IN  j \in 1..Len(s) /\ u[i] = s[j]
  BY RemoveFirstShifts, Zenon
<1>3. Contains(u, v) => Contains(s, v)
  BY RemoveFirstElements DEF Contains
<1>4. AtMostOnce(s, v) => AtMostOnce(u, v)
  <2> HIDE DEF u
  <2>1. ASSUME AtMostOnce(s, v), NEW i \in 1..Len(u), NEW j \in 1..Len(u),
               u[i] = v, u[j] = v
        PROVE  i = j
    <3>1. (IF i < k THEN i ELSE i+1) = (IF j < k THEN j ELSE j+1)
      BY <1>2, <2>1 DEF AtMostOnce
    <3> QED BY <1>1, <3>1
  <2> QED BY <2>1 DEF AtMostOnce
<1>5. ASSUME NEW j \in 1..Len(s), s[j] = v, v # e
      PROVE  Contains(u, v)
  <2>1. CASE \E i \in 1..Len(s) : s[i] = e
    <3>1. PICK p \in 1..Len(s) :
            s[p] = e /\ u = SubSeq(s, 1, p-1) \o SubSeq(s, p+1, Len(s))
      BY <2>1, RemoveFirstIsRemoveAt
    <3> DEFINE a == SubSeq(s, 1, p-1)
               b == SubSeq(s, p+1, Len(s))
    <3>2. \A i \in 1..Len(s) : s[i] \in S
      BY ElementOfSeq
    <3>3. /\ a \in Seq(S) /\ Len(a) = p-1
          /\ \A i \in 1..p-1 : a[i] = s[i]
      BY <1>1, <3>2, SubSeqProperties, Z3
    <3>4. /\ b \in Seq(S) /\ Len(b) = Len(s) - p
          /\ \A i \in 1..Len(s)-p : b[i] = s[p+i]
      BY <1>1, <3>2, SubSeqProperties, Z3
    <3> HIDE DEF a, b, u
    <3>5. /\ Len(a \o b) = Len(a) + Len(b)
          /\ \A i \in 1..Len(a) + Len(b) :
               (a \o b)[i] = IF i <= Len(a) THEN a[i] ELSE b[i - Len(a)]
      BY <3>3, <3>4, ConcatProperties
    <3>6. j # p
      BY <1>5, <3>1
    <3>7. CASE j < p
      <4>1. j \in 1..p-1 /\ j \in 1..Len(a) + Len(b) /\ j <= Len(a)
        BY <1>1, <3>3, <3>4, <3>7
      <4>2. (a \o b)[j] = s[j]
        BY <3>3, <3>5, <4>1
      <4>3. j \in 1..Len(a \o b)
        BY <3>5, <4>1
      <4> QED BY <1>5, <4>2, <4>3, <3>1 DEF Contains, a, b
    <3>8. CASE j > p
      <4>1. /\ j-1 \in 1..Len(a) + Len(b) /\ ~(j-1 <= Len(a))
            /\ j-p \in 1..Len(s)-p /\ (j-1) - Len(a) = j-p /\ p+(j-p) = j
        BY <1>1, <3>3, <3>4, <3>8
      <4>2. (a \o b)[j-1] = s[j]
        BY <3>4, <3>5, <4>1
      <4>3. j-1 \in 1..Len(a \o b)
        BY <3>5, <4>1
      <4> QED BY <1>5, <4>2, <4>3, <3>1 DEF Contains, a, b
    <3> QED BY <1>1, <3>6, <3>7, <3>8
  <2>2. CASE ~ \E i \in 1..Len(s) : s[i] = e
    BY <1>5, <2>2 DEF RemoveFirst, Contains
  <2> QED BY <2>1, <2>2
<1> QED BY <1>3, <1>4, <1>5 DEF Contains, u
=============================================================================
