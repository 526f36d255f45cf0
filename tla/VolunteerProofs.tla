-------------------------- MODULE VolunteerProofs --------------------------
(***************************************************************************)
(* Theorems about Volunteer for any tasks and lines, and every combination *)
(* of faults.  IInv is inductive: the flash object has made its socket or  *)
(* will (StartOnce), only the first message on the line is the greeting    *)
(* (GreetingFirst), and a task is in at most one place on its way to the   *)
(* page and back (Apart), once (NoCopies).  JoinInv, inductive next to it, *)
(* says what is on its way to the server before that has its worker; on it *)
(* and the fairness rests that the volunteer joins.                        *)
(***************************************************************************)
EXTENDS Volunteer, QueueLemmas

-----------------------------------------------------------------------------
(* Sequences whose elements from a set D differ from each other.           *)

DistinctIn(s, D) ==
  \A i, j \in 1..Len(s) : s[i] = s[j] /\ s[i] \in D => i = j

LEMMA NothingInEmpty ==
  ASSUME NEW x, NEW D
  PROVE  ~Contains(<< >>, x) /\ DistinctIn(<< >>, D)
BY DEF Contains, DistinctIn

LEMMA AppendOne ==
  ASSUME NEW S, NEW s \in Seq(S), NEW e \in S, NEW D
  PROVE  /\ Append(s, e) \in Seq(S)
         /\ \A x : Contains(Append(s, e), x) <=> Contains(s, x) \/ x = e
         /\ DistinctIn(s, D) /\ (e \in D => ~Contains(s, e)) =>
              DistinctIn(Append(s, e), D)
<1> DEFINE a == Append(s, e)
<1>1. /\ a \in Seq(S) /\ Len(a) = Len(s) + 1 /\ Len(s) \in Nat
      /\ \A i \in 1..Len(s) : a[i] = s[i]
      /\ a[Len(s) + 1] = e
  BY AppendProperties, LenProperties
<1> HIDE DEF a
<1>2. \A x : Contains(a, x) <=> Contains(s, x) \/ x = e
  BY <1>1 DEF Contains
<1>3. ASSUME DistinctIn(s, D), e \in D => ~Contains(s, e)
      PROVE  DistinctIn(a, D)
  <2>1. SUFFICES ASSUME NEW i \in 1..Len(a), NEW j \in 1..Len(a),
                        a[i] = a[j], a[i] \in D
                 PROVE  i = j
    BY DEF DistinctIn
  <2>2. CASE i \in 1..Len(s) /\ j \in 1..Len(s)
    BY <2>1, <2>2, <1>1, <1>3 DEF DistinctIn
  <2>3. CASE i = Len(s) + 1 \/ j = Len(s) + 1
    BY <2>1, <2>3, <1>1, <1>3 DEF Contains
  <2> QED BY <2>2, <2>3, <1>1
<1> QED BY <1>1, <1>2, <1>3 DEF a

LEMMA TakeHead ==
  ASSUME NEW S, NEW s \in Seq(S), s # << >>, NEW D
  PROVE  /\ Head(s) \in S /\ Tail(s) \in Seq(S)
         /\ Contains(s, Head(s))
         /\ \A x : Contains(Tail(s), x) => Contains(s, x)
         /\ \A x : Contains(s, x) => x = Head(s) \/ Contains(Tail(s), x)
         /\ DistinctIn(s, D) => DistinctIn(Tail(s), D)
         /\ DistinctIn(s, D) /\ Head(s) \in D => ~Contains(Tail(s), Head(s))
<1> DEFINE u == Tail(s)
           h == Head(s)
<1>1. /\ h \in S /\ u \in Seq(S)
      /\ Len(u) = Len(s) - 1 /\ Len(s) \in Nat /\ Len(s) # 0
      /\ \A i \in 1..Len(u) : u[i] = s[i + 1]
      /\ h = s[1]
  BY HeadTailProperties, LenProperties, EmptySeq
<1> HIDE DEF u, h
<1>2. Contains(s, h)
  BY <1>1 DEF Contains
<1>3. \A x : Contains(u, x) => Contains(s, x)
  BY <1>1 DEF Contains
<1>4. ASSUME NEW x, Contains(s, x), x # h
      PROVE  Contains(u, x)
  <2>1. PICK i \in 1..Len(s) : s[i] = x
    BY <1>4 DEF Contains
  <2>2. i - 1 \in 1..Len(u) /\ u[i - 1] = x
    BY <2>1, <1>1, <1>4
  <2> QED BY <2>2 DEF Contains
<1>5. ASSUME DistinctIn(s, D)
      PROVE  DistinctIn(u, D)
  BY <1>1, <1>5 DEF DistinctIn
<1>6. ASSUME DistinctIn(s, D), h \in D, Contains(u, h)
      PROVE  FALSE
  <2>1. PICK i \in 1..Len(u) : u[i] = h
    BY <1>6 DEF Contains
  <2>2. i + 1 \in 1..Len(s) /\ 1 \in 1..Len(s) /\ s[i + 1] = s[1]
    BY <2>1, <1>1
  <2> QED BY <2>2, <1>1, <1>6 DEF DistinctIn
<1> QED BY <1>1, <1>2, <1>3, <1>4, <1>5, <1>6 DEF u, h

(* A part of a sequence                                                    *)
LEMMA PartOf ==
  ASSUME NEW S, NEW s \in Seq(S), NEW D, NEW m \in 1..Len(s) + 1, NEW n \in 0..Len(s)
  PROVE  /\ SubSeq(s, m, n) \in Seq(S)
         /\ \A x : Contains(SubSeq(s, m, n), x) => Contains(s, x)
         /\ DistinctIn(s, D) => DistinctIn(SubSeq(s, m, n), D)
<1> DEFINE u == SubSeq(s, m, n)
<1>1. Len(s) \in Nat /\ \A i \in 1..Len(s) : s[i] \in S
  BY LenProperties, ElementOfSeq
<1>2. m \in Int /\ n \in Int /\ \A i \in m..n : s[i] \in S
  BY <1>1
<1>3. /\ u \in Seq(S)
      /\ Len(u) = IF m <= n THEN n - m + 1 ELSE 0
      /\ \A i \in 1..n - m + 1 : u[i] = s[m + i - 1]
  BY <1>2, SubSeqProperties, Z3
<1> HIDE DEF u
<1>4. \A i \in 1..Len(u) : m + i - 1 \in 1..Len(s) /\ u[i] = s[m + i - 1]
  BY <1>1, <1>2, <1>3
<1>5. \A x : Contains(u, x) => Contains(s, x)
  BY <1>4 DEF Contains
<1>6. ASSUME DistinctIn(s, D)
      PROVE  DistinctIn(u, D)
  <2>1. SUFFICES ASSUME NEW i \in 1..Len(u), NEW j \in 1..Len(u),
                        u[i] = u[j], u[i] \in D
                 PROVE  i = j
    BY DEF DistinctIn
  <2>2. m + i - 1 = m + j - 1
    BY <2>1, <1>4, <1>6 DEF DistinctIn
  <2>3. i \in Int /\ j \in Int
    OBVIOUS
  <2> QED BY <2>2, <2>3, <1>2
<1> QED BY <1>3, <1>5, <1>6 DEF u

(* The two parts of a sequence whose elements differ                       *)
LEMMA PartsDiffer ==
  ASSUME NEW S, NEW s \in Seq(S), NEW D, NEW n \in 1..Len(s), DistinctIn(s, D),
         NEW x \in D, Contains(SubSeq(s, 1, n), x)
  PROVE  ~Contains(SubSeq(s, n + 1, Len(s)), x)
<1>1. Len(s) \in Nat /\ \A i \in 1..Len(s) : s[i] \in S
  BY LenProperties, ElementOfSeq
<1>2. /\ Len(SubSeq(s, 1, n)) = n
      /\ \A i \in 1..n : SubSeq(s, 1, n)[i] = s[i]
  <2>1. 1 \in Int /\ n \in Int /\ \A i \in 1..n : s[i] \in S
    BY <1>1
  <2> QED BY <2>1, SubSeqProperties, Z3
<1>3. /\ Len(SubSeq(s, n + 1, Len(s))) = Len(s) - n
      /\ \A i \in 1..Len(s) - n : SubSeq(s, n + 1, Len(s))[i] = s[n + i]
  <2>1. n + 1 \in Int /\ Len(s) \in Int /\ \A i \in n + 1..Len(s) : s[i] \in S
    BY <1>1
  <2> QED BY <2>1, <1>1, SubSeqProperties, Z3
<1>4. PICK i \in 1..n : s[i] = x
  BY <1>2 DEF Contains
<1>5. ASSUME Contains(SubSeq(s, n + 1, Len(s)), x)
      PROVE  FALSE
  <2>1. PICK j \in 1..Len(s) - n : s[n + j] = x
    BY <1>3, <1>5 DEF Contains
  <2>2. i \in 1..Len(s) /\ n + j \in 1..Len(s) /\ i # n + j
    BY <1>1, <2>1
  <2> QED BY <1>4, <2>1, <2>2 DEF DistinctIn
<1> QED BY <1>5

LEMMA JoinTwo ==
  ASSUME NEW S, NEW s \in Seq(S), NEW u \in Seq(S), NEW D
  PROVE  /\ s \o u \in Seq(S)
         /\ \A x : Contains(s \o u, x) => Contains(s, x) \/ Contains(u, x)
         /\ /\ DistinctIn(s, D) /\ DistinctIn(u, D)
            /\ \A x \in D : ~(Contains(s, x) /\ Contains(u, x))
            => DistinctIn(s \o u, D)
<1> DEFINE c == s \o u
<1>1. /\ Len(s) \in Nat /\ Len(u) \in Nat
      /\ c \in Seq(S) /\ Len(c) = Len(s) + Len(u)
      /\ \A i \in 1..Len(s) + Len(u) :
           c[i] = IF i <= Len(s) THEN s[i] ELSE u[i - Len(s)]
  BY ConcatProperties, LenProperties
<1> HIDE DEF c
<1>2. \A i \in 1..Len(c) : \/ i \in 1..Len(s) /\ c[i] = s[i]
                           \/ i - Len(s) \in 1..Len(u) /\ c[i] = u[i - Len(s)]
  BY <1>1
<1>3. \A x : Contains(c, x) => Contains(s, x) \/ Contains(u, x)
  BY <1>2 DEF Contains
<1>4. ASSUME DistinctIn(s, D), DistinctIn(u, D),
             \A x \in D : ~(Contains(s, x) /\ Contains(u, x))
      PROVE  DistinctIn(c, D)
  <2>1. SUFFICES ASSUME NEW i \in 1..Len(c), NEW j \in 1..Len(c),
                        c[i] = c[j], c[i] \in D
                 PROVE  i = j
    BY DEF DistinctIn
  <2>2. CASE i \in 1..Len(s) /\ j \in 1..Len(s) /\ c[i] = s[i] /\ c[j] = s[j]
    BY <2>1, <2>2, <1>4 DEF DistinctIn
  <2>3. CASE /\ i - Len(s) \in 1..Len(u) /\ j - Len(s) \in 1..Len(u)
             /\ c[i] = u[i - Len(s)] /\ c[j] = u[j - Len(s)]
    <3>1. i - Len(s) = j - Len(s)
      BY <2>1, <2>3, <1>4 DEF DistinctIn
    <3>2. i \in Int /\ j \in Int /\ Len(s) \in Int
      BY <1>1
    <3> QED BY <3>1, <3>2
  <2>4. CASE i \in 1..Len(s) /\ j - Len(s) \in 1..Len(u)
             /\ c[i] = s[i] /\ c[j] = u[j - Len(s)]
    BY <2>1, <2>4, <1>4 DEF Contains
  <2>5. CASE j \in 1..Len(s) /\ i - Len(s) \in 1..Len(u)
             /\ c[j] = s[j] /\ c[i] = u[i - Len(s)]
    BY <2>1, <2>5, <1>4 DEF Contains
  <2> QED BY <1>2, <2>2, <2>3, <2>4, <2>5
<1> QED BY <1>1, <1>3, <1>4 DEF c

-----------------------------------------------------------------------------
(* The inductive invariant.                                                *)

(* The callback of JSocket.init has been called or will be, not both.      *)
StartOnce ==
  /\ init = "embed" => swf = "none" /\ sockets = 0 /\ ~swfloadedcb
  /\ init = "test" => swf # "none" /\ sockets = 0 /\ ~swfloadedcb
  /\ init = "done" => swf # "none" /\ IF swfloadedcb /\ swf # "announced"
                                      THEN sockets = 0 ELSE sockets = 1

(* The greeting is the first message, and Handler takes it off the line.   *)
GreetingFirst ==
  /\ line \in {"none", "connecting"} => up = << >> /\ reader = "none"
  /\ line \in {"left", "closed"} => reader # "none"
  /\ reader = "none" => sent = {}
  /\ Contains(timers, "greeting") => /\ reader = "none" /\ up = << >>
                                     /\ line \notin {"none", "connecting"}
  /\ Contains(up, "greeting") => reader = "none"

(* No sequence has a task twice, or the greeting.                          *)
NoCopies ==
  /\ DistinctIn(down, Tasks) /\ DistinctIn(arrived, Tasks)
  /\ DistinctIn(timers, Tasks \cup {"greeting"}) /\ DistinctIn(up, Tasks)

(* A task is in one place at most, and nowhere before it was sent.         *)
Apart ==
  \A t \in Tasks :
    /\ Contains(down, t) => /\ t \in sent /\ ~Contains(arrived, t)
                            /\ t \notin loading /\ ~Contains(timers, t)
                            /\ ~Contains(up, t) /\ ~Contains(buffer, t)
    /\ Contains(arrived, t) => /\ t \in sent /\ t \notin loading
                               /\ ~Contains(timers, t) /\ ~Contains(up, t)
                               /\ ~Contains(buffer, t)
    /\ t \in loading => /\ t \in sent /\ ~Contains(timers, t)
                        /\ ~Contains(up, t) /\ ~Contains(buffer, t)
    /\ Contains(timers, t) => /\ t \in sent /\ ~Contains(up, t)
                              /\ ~Contains(buffer, t)
    /\ Contains(up, t) => t \in sent /\ ~Contains(buffer, t)
    /\ Contains(buffer, t) => t \in sent

IInv == TypeOK /\ StartOnce /\ GreetingFirst /\ NoCopies /\ Apart

LEMMA InitIInv == Init => IInv
<1> SUFFICES ASSUME Init PROVE IInv
  OBVIOUS
<1>1. TypeOK
  <2>1. /\ timers \in Seq(Tasks \cup {"connect", "greeting"})
        /\ up \in Seq(Tasks \cup {"greeting"})
        /\ down \in Seq(Tasks \cup Lines) /\ arrived \in Seq(Tasks \cup Lines)
        /\ buffer \in Seq(Tasks) /\ sockets \in Nat
    BY SMT DEF Init
  <2>2. /\ swfloadedcb \in BOOLEAN /\ torn \in BOOLEAN /\ socketData \in BOOLEAN
        /\ inStep \in BOOLEAN /\ readerInStep \in BOOLEAN /\ noise \in BOOLEAN
    BY Zenon DEF Init
  <2> QED BY <2>1, <2>2 DEF Init, TypeOK
<1>3. StartOnce
  BY DEF Init, StartOnce
<1>2. GreetingFirst /\ NoCopies /\ Apart
  BY NothingInEmpty DEF Init, GreetingFirst, NoCopies, Apart
<1> QED BY <1>1, <1>2, <1>3 DEF IInv

(* What the actions of the start do: the callback may put off connect.     *)
LEMMA StartStep == IInv /\ Start => IInv'
<1> SUFFICES ASSUME IInv, Start PROVE IInv'
  OBVIOUS
<1> USE DEF IInv
<1>1. \/ UNCHANGED timers
      \/ timers' = Append(timers, "connect")
  BY DEF Start, Embed, AddCallbacks, SwfLoaded, TestApi, SwfLoadedCallback
<1>2. UNCHANGED <<line, up, down, flashVars, pageVars, serverVars>>
  BY DEF Start, Embed, AddCallbacks, SwfLoaded, TestApi
<1>3. StartOnce'
  BY DEF Start, Embed, AddCallbacks, SwfLoaded, TestApi, SwfLoadedCallback,
         StartOnce, TypeOK
<1> DEFINE D == Tasks \cup {"greeting"}
<1>4. /\ timers' \in Seq(Tasks \cup {"connect", "greeting"})
      /\ \A x \in D : Contains(timers', x) <=> Contains(timers, x)
      /\ DistinctIn(timers, D)'
  <2>1. CASE timers' = Append(timers, "connect")
    <3>1. "connect" \notin D /\ timers \in Seq(Tasks \cup {"connect", "greeting"})
      BY VolunteerAssumption DEF TypeOK
    <3> QED BY <2>1, <3>1, AppendOne DEF NoCopies
  <2>2. CASE UNCHANGED timers
    BY <2>2 DEF TypeOK, NoCopies, DistinctIn
  <2> QED BY <1>1, <2>1, <2>2
<1>5. TypeOK'
  <2>1. /\ init' \in {"embed", "test", "done"}
        /\ swf' \in {"none", "embedded", "ready", "announced"}
        /\ sockets' \in Nat
    BY SMT DEF Start, Embed, AddCallbacks, SwfLoaded, TestApi, SwfLoadedCallback, TypeOK
  <2>2. swfloadedcb' \in BOOLEAN
    BY Zenon DEF Start, Embed, AddCallbacks, SwfLoaded, TestApi, TypeOK
  <2> QED BY <2>1, <2>2, <1>2, <1>4 DEF TypeOK, flashVars, pageVars, serverVars
<1>6. GreetingFirst' /\ NoCopies' /\ Apart'
  BY <1>2, <1>4, Z3 DEF GreetingFirst, NoCopies, Apart, flashVars, pageVars,
                        serverVars, DistinctIn, Contains
<1> QED BY <1>3, <1>5, <1>6

(* The timers are called: the first call that was put off is made.         *)
LEMMA TimerStep == IInv /\ Timer => IInv'
<1> SUFFICES ASSUME IInv, Timer PROVE IInv'
  OBVIOUS
<1> USE DEF IInv
<1> DEFINE D == Tasks \cup {"greeting"}
           S == Tasks \cup {"connect", "greeting"}
           h == Head(timers)
<1>1. /\ timers # << >> /\ timers' = Tail(timers)
      /\ UNCHANGED <<startVars, down, flashVars, pageVars, serverVars>>
  BY DEF Timer, DoConnect, DoWriteFlush
<1>2. /\ h \in S /\ timers' \in Seq(S)
      /\ Contains(timers, h)
      /\ \A x : Contains(timers', x) => Contains(timers, x)
      /\ DistinctIn(timers', D)
      /\ h \in D => ~Contains(timers', h)
  <2>1. timers \in Seq(S) /\ DistinctIn(timers, D)
    BY DEF TypeOK, NoCopies
  <2> QED BY <1>1, <2>1, TakeHead
<1> HIDE DEF D, S
<1>3. CASE DoConnect
  <2>1. UNCHANGED up /\ line' = IF line = "none" THEN "connecting" ELSE line
    BY <1>3 DEF DoConnect
  <2>2. TypeOK'
    BY <1>1, <1>2, <2>1 DEF TypeOK, startVars, flashVars, pageVars, serverVars, S
  <2>3. StartOnce' /\ NoCopies'
    BY <1>1, <1>2, <2>1 DEF StartOnce, NoCopies, startVars, flashVars, D
  <2>4. GreetingFirst'
    BY <1>1, <1>2, <2>1 DEF GreetingFirst, serverVars
  <2>5. Apart'
    BY <1>1, <1>2, <2>1 DEF Apart, flashVars, pageVars, serverVars
  <2> QED BY <2>2, <2>3, <2>4, <2>5
<1>4. CASE DoWriteFlush
  <2>1. /\ h \in D /\ UNCHANGED line
        /\ \/ UNCHANGED up
           \/ line = "open" /\ up' = Append(up, h)
    BY <1>2, <1>4 DEF DoWriteFlush, D, S
  <2>2. up \in Seq(D) /\ DistinctIn(up, Tasks)
    BY DEF TypeOK, NoCopies, D
  <2>3. h \in Tasks => ~Contains(up, h)
    BY <1>2 DEF Apart
  <2>4. /\ up' \in Seq(D)
        /\ \A x : Contains(up', x) => Contains(up, x) \/ x = h
        /\ DistinctIn(up', Tasks)
    <3>1. h \in D
      BY <2>1
    <3> HIDE DEF h
    <3>2. CASE up' = Append(up, h)
      BY <2>2, <2>3, <3>1, <3>2, AppendOne
    <3>3. CASE UNCHANGED up
      BY <2>2, <3>3
    <3> QED BY <2>1, <3>2, <3>3
  <2>5. TypeOK'
    BY <1>1, <1>2, <2>1, <2>4
       DEF TypeOK, startVars, flashVars, pageVars, serverVars, S, D
  <2>6. StartOnce' /\ NoCopies'
    BY <1>1, <1>2, <2>4 DEF StartOnce, NoCopies, startVars, flashVars, D
  <2>7. GreetingFirst'
    <3>1. h \in Tasks => h \in sent
      BY <1>2 DEF Apart
    <3>2. h \in Tasks => reader # "none" /\ ~Contains(timers, "greeting")
      BY <3>1 DEF GreetingFirst
    <3>3. h \in Tasks \/ h = "greeting"
      BY <2>1 DEF D
    <3>4. CASE h = "greeting"
      BY <3>4, <1>1, <1>2, <2>1, <2>4 DEF GreetingFirst, serverVars, D
    <3>5. CASE h \in Tasks
      BY <3>2, <3>5, <1>1, <1>2, <2>1, <2>4, VolunteerAssumption
         DEF GreetingFirst, serverVars
    <3> QED BY <3>3, <3>4, <3>5
  <2>8. Apart'
    BY <1>1, <1>2, <2>1, <2>4 DEF Apart, flashVars, pageVars, serverVars, D
  <2> QED BY <2>5, <2>6, <2>7, <2>8
<1> QED BY <1>3, <1>4 DEF Timer

LEMMA ConnectedStep == IInv /\ Connected => IInv'
<1> SUFFICES ASSUME IInv, Connected PROVE IInv'
  OBVIOUS
<1> USE DEF IInv
<1> DEFINE D == Tasks \cup {"greeting"}
           S == Tasks \cup {"connect", "greeting"}
<1>1. /\ line = "connecting" /\ line' = "open"
      /\ timers' = Append(timers, "greeting")
      /\ UNCHANGED <<startVars, up, down, flashVars, pageVars, serverVars>>
  BY DEF Connected
<1>2. /\ timers \in Seq(S) /\ DistinctIn(timers, D) /\ ~Contains(timers, "greeting")
  BY <1>1 DEF TypeOK, NoCopies, GreetingFirst
<1>3. /\ timers' \in Seq(S)
      /\ \A x : Contains(timers', x) <=> Contains(timers, x) \/ x = "greeting"
      /\ DistinctIn(timers', D)
  BY <1>1, <1>2, AppendOne
<1>4. TypeOK'
  BY <1>1, <1>3 DEF TypeOK, startVars, flashVars, pageVars, serverVars
<1>5. StartOnce' /\ NoCopies'
  BY <1>1, <1>3 DEF StartOnce, NoCopies, startVars, flashVars
<1>6. GreetingFirst'
  BY <1>1, <1>3 DEF GreetingFirst, serverVars
<1>7. Apart'
  BY <1>1, <1>3, VolunteerAssumption DEF Apart, flashVars, pageVars, serverVars
<1> QED BY <1>4, <1>5, <1>6, <1>7

LEMMA ArriveStep == IInv /\ Arrive => IInv'
<1> SUFFICES ASSUME IInv, Arrive PROVE IInv'
  OBVIOUS
<1> USE DEF IInv
<1> DEFINE S == Tasks \cup Lines
<1>1. /\ torn' \in BOOLEAN /\ socketData' = TRUE
      /\ UNCHANGED <<startVars, timers, line, up, inStep, pageVars, serverVars>>
  BY VolunteerAssumption DEF Arrive
<1>2. PICK n \in 1..Len(down) :
        /\ arrived' = arrived \o SubSeq(down, 1, n)
        /\ down' = SubSeq(down, n + 1, Len(down))
  BY DEF Arrive
<1>3. /\ down \in Seq(S) /\ arrived \in Seq(S) /\ Len(down) \in Nat
      /\ DistinctIn(down, Tasks) /\ DistinctIn(arrived, Tasks)
  BY LenProperties DEF TypeOK, NoCopies
<1> DEFINE part == SubSeq(down, 1, n)
<1>4. /\ part \in Seq(S) /\ DistinctIn(part, Tasks)
      /\ \A x : Contains(part, x) => Contains(down, x)
  <2>1. 1 \in 1..Len(down) + 1 /\ n \in 0..Len(down)
    BY <1>3
  <2> QED BY <1>3, <2>1, PartOf
<1>5. /\ down' \in Seq(S) /\ DistinctIn(down', Tasks)
      /\ \A x : Contains(down', x) => Contains(down, x)
  <2>1. n + 1 \in 1..Len(down) + 1 /\ Len(down) \in 0..Len(down)
    BY <1>3
  <2> QED BY <1>2, <1>3, <2>1, PartOf
<1>6. \A x \in Tasks : Contains(part, x) => ~Contains(down', x)
  BY <1>2, <1>3, PartsDiffer
<1>7. \A x \in Tasks : ~(Contains(arrived, x) /\ Contains(part, x))
  BY <1>4 DEF Apart
<1>8. /\ arrived' \in Seq(S) /\ DistinctIn(arrived', Tasks)
      /\ \A x : Contains(arrived', x) => Contains(arrived, x) \/ Contains(part, x)
  BY <1>2, <1>3, <1>4, <1>7, JoinTwo
<1> HIDE DEF part
<1>9. TypeOK'
  BY <1>1, <1>5, <1>8 DEF TypeOK, startVars, pageVars, serverVars
<1>10. StartOnce' /\ NoCopies'
  BY <1>1, <1>5, <1>8 DEF StartOnce, NoCopies, startVars
<1>11. GreetingFirst'
  BY <1>1 DEF GreetingFirst, serverVars
<1>12. Apart'
  BY <1>1, <1>4, <1>5, <1>6, <1>8 DEF Apart, pageVars, serverVars
<1> QED BY <1>9, <1>10, <1>11, <1>12

(* The page reads its socket.                                              *)
LEMMA ReadStep == IInv /\ Read => IInv'
<1> SUFFICES ASSUME IInv, Read PROVE IInv'
  OBVIOUS
<1> USE DEF IInv
<1> DEFINE S == Tasks \cup Lines
<1>1. UNCHANGED <<startVars, timers, line, up, down, serverVars>>
  BY DEF Read, ReadUTF, ReadTorn, ReadGarbage
<1>2. StartOnce' /\ GreetingFirst'
  BY <1>1 DEF StartOnce, GreetingFirst, startVars, serverVars
<1>3. arrived \in Seq(S) /\ DistinctIn(arrived, Tasks)
  BY DEF TypeOK, NoCopies
<1>4. CASE ReadUTF
  <2> DEFINE m == Head(arrived)
  <2>1. /\ arrived # << >> /\ arrived' = Tail(arrived)
        /\ loading' = loading \cup ({m} \cap Tasks)
        /\ shown' = shown \cup ({m} \cap Lines)
        /\ socketData' \in BOOLEAN /\ UNCHANGED <<torn, inStep>>
    BY <1>4 DEF ReadUTF
  <2>2. /\ m \in S /\ arrived' \in Seq(S) /\ Contains(arrived, m)
        /\ \A x : Contains(arrived', x) => Contains(arrived, x)
        /\ DistinctIn(arrived', Tasks)
        /\ m \in Tasks => ~Contains(arrived', m)
    BY <1>3, <2>1, TakeHead
  <2> HIDE DEF m
  <2>3. TypeOK'
    BY <1>1, <2>1, <2>2 DEF TypeOK, startVars, serverVars
  <2>4. NoCopies'
    BY <1>1, <2>2 DEF NoCopies
  <2>5. Apart'
    BY <1>1, <2>1, <2>2 DEF Apart, serverVars
  <2> QED BY <1>2, <2>3, <2>4, <2>5
<1>5. CASE ReadTorn \/ ReadGarbage
  <2>1. /\ arrived' = << >> /\ torn' = FALSE /\ socketData' = FALSE
        /\ UNCHANGED pageVars
    BY <1>5 DEF ReadTorn, ReadGarbage
  <2>2. inStep' \in BOOLEAN
    BY <1>5, Zenon DEF ReadTorn, ReadGarbage, TypeOK
  <2>5. arrived' \in Seq(S) /\ torn' \in BOOLEAN /\ socketData' \in BOOLEAN
    <3>1. torn' \in BOOLEAN /\ socketData' \in BOOLEAN
      BY <2>1, Zenon
    <3> QED BY <2>1, <3>1, EmptySeq
  <2>3. TypeOK'
    BY <1>1, <2>1, <2>2, <2>5 DEF TypeOK, startVars, pageVars, serverVars
  <2>4. NoCopies' /\ Apart'
    BY <1>1, <2>1, NothingInEmpty DEF NoCopies, Apart, pageVars, serverVars
  <2> QED BY <1>2, <2>3, <2>4
<1> QED BY <1>4, <1>5 DEF Read

LEMMA ScriptStep == ASSUME NEW t \in Tasks PROVE IInv /\ Script(t) => IInv'
<1> SUFFICES ASSUME IInv, Script(t) PROVE IInv'
  OBVIOUS
<1> USE DEF IInv
<1> DEFINE D == Tasks \cup {"greeting"}
           S == Tasks \cup {"connect", "greeting"}
<1>1. /\ t \in loading /\ loading' = loading \ {t}
      /\ UNCHANGED <<startVars, line, up, down, flashVars, shown, serverVars>>
      /\ \/ timers' = Append(timers, t)
         \/ UNCHANGED timers
  BY DEF Script, ScriptLoaded, ScriptFails
<1>2. /\ timers \in Seq(S) /\ DistinctIn(timers, D) /\ ~Contains(timers, t)
  BY <1>1 DEF TypeOK, NoCopies, Apart
<1>3. /\ timers' \in Seq(S)
      /\ \A x : Contains(timers', x) => Contains(timers, x) \/ x = t
      /\ DistinctIn(timers', D)
  <2>1. CASE timers' = Append(timers, t)
    BY <1>2, <2>1, AppendOne
  <2>2. CASE UNCHANGED timers
    BY <1>2, <2>2
  <2> QED BY <1>1, <2>1, <2>2
<1>4. TypeOK'
  BY <1>1, <1>3 DEF TypeOK, startVars, flashVars, serverVars
<1>5. StartOnce' /\ NoCopies'
  BY <1>1, <1>3 DEF StartOnce, NoCopies, startVars, flashVars
<1>6. GreetingFirst'
  BY <1>1, <1>3, VolunteerAssumption DEF GreetingFirst, serverVars
<1>7. Apart'
  BY <1>1, <1>3 DEF Apart, flashVars, serverVars
<1> QED BY <1>4, <1>5, <1>6, <1>7

(* The connection ends on one side or the other.                           *)
LEMMA EndStep == IInv /\ (Leave \/ CloseConnection) => IInv'
<1> SUFFICES ASSUME IInv, Leave \/ CloseConnection PROVE IInv'
  OBVIOUS
<1> USE DEF IInv
<1> DEFINE D == Tasks \cup {"greeting"}
<1>1. /\ line' \in {"left", "closed"} /\ reader = "reading"
      /\ UNCHANGED <<startVars, inStep, shown, serverVars>>
  BY DEF Leave, CloseConnection, flashVars, pageVars
<1>2. up \in Seq(D) /\ DistinctIn(up, Tasks) /\ Len(up) \in Nat
  BY LenProperties DEF TypeOK, NoCopies
<1>3. /\ up' \in Seq(D) /\ DistinctIn(up', Tasks)
      /\ \A x : Contains(up', x) => Contains(up, x)
  <2>1. CASE Leave
    <3>1. PICK n \in 0..Len(up) : up' = SubSeq(up, 1, n)
      BY <2>1 DEF Leave
    <3>2. 1 \in 1..Len(up) + 1
      BY <1>2
    <3> QED BY <1>2, <3>1, <3>2, PartOf
  <2>2. CASE CloseConnection
    <3>1. up' = << >>
      BY <2>2 DEF CloseConnection
    <3> QED BY <3>1, NothingInEmpty, EmptySeq
  <2> QED BY <2>1, <2>2
<1>4. \/ /\ timers' = << >> /\ loading' = {} /\ down' = << >>
         /\ arrived' = << >> /\ torn' = FALSE /\ socketData' = FALSE
      \/ UNCHANGED <<timers, loading, down, arrived, torn, socketData>>
  BY DEF Leave, CloseConnection, flashVars, pageVars
<1>5. TypeOK'
  <2>1. /\ timers' \in Seq(Tasks \cup {"connect", "greeting"})
        /\ down' \in Seq(Tasks \cup Lines) /\ arrived' \in Seq(Tasks \cup Lines)
        /\ loading' \subseteq Tasks
    BY <1>4, EmptySeq DEF TypeOK
  <2>2. torn' \in BOOLEAN /\ socketData' \in BOOLEAN
    BY <1>4, Zenon DEF TypeOK
  <2> QED BY <1>1, <1>3, <2>1, <2>2 DEF TypeOK, startVars, serverVars
<1>6. StartOnce' /\ NoCopies'
  BY <1>1, <1>3, <1>4, NothingInEmpty DEF StartOnce, NoCopies, startVars
<1>7. GreetingFirst'
  BY <1>1, <1>3, <1>4, NothingInEmpty DEF GreetingFirst, serverVars
<1>8. Apart'
  BY <1>1, <1>3, <1>4, NothingInEmpty DEF Apart, serverVars
<1> QED BY <1>5, <1>6, <1>7, <1>8

(* The server reads its end of the line.                                   *)
LEMMA ReaderStep == IInv /\ Reader => IInv'
<1> SUFFICES ASSUME IInv, Reader PROVE IInv'
  OBVIOUS
<1> USE DEF IInv
<1> DEFINE D == Tasks \cup {"greeting"}
<1>1. UNCHANGED <<startVars, timers, line, down, flashVars, pageVars, sent>>
  BY DEF Reader, Register, ReadAnswer, ReadNoise, RemoveClient
<1>2. StartOnce'
  BY <1>1 DEF StartOnce, startVars
<1>3. up \in Seq(D) /\ buffer \in Seq(Tasks) /\ DistinctIn(up, Tasks)
  BY DEF TypeOK, NoCopies
<1>4. CASE Register \/ ReadNoise \/ RemoveClient
  <2>1. /\ up' \in {up, << >>} /\ UNCHANGED buffer
        /\ reader' \in {reader, "reading", "removed"}
        /\ up = << >> \/ up' = << >>
        /\ reader = "none" => up # << >>
    BY <1>4 DEF Register, ReadNoise, RemoveClient
  <2>2. readerInStep' \in BOOLEAN /\ noise' \in BOOLEAN
    BY <1>4, VolunteerAssumption, Zenon
       DEF Register, ReadNoise, RemoveClient, TypeOK
  <2>6. up' \in Seq(D) /\ reader' \in {"none", "reading", "removed"}
    <3>1. CASE up' = up
      BY <3>1, <1>3, <2>1 DEF TypeOK
    <3>2. CASE up' = << >>
      BY <3>2, <2>1, EmptySeq DEF TypeOK
    <3> QED BY <2>1, <3>1, <3>2
  <2>3. TypeOK'
    BY <1>1, <2>1, <2>2, <2>6 DEF TypeOK, startVars, flashVars, pageVars
  <2>4. NoCopies' /\ Apart'
    BY <1>1, <2>1, NothingInEmpty DEF NoCopies, Apart, flashVars, pageVars
  <2>5. GreetingFirst'
    BY <1>1, <2>1, NothingInEmpty DEF GreetingFirst
  <2> QED BY <1>2, <2>3, <2>4, <2>5
<1>5. CASE ReadAnswer
  <2> DEFINE h == Head(up)
  <2>1. /\ up # << >> /\ up' = Tail(up) /\ buffer' = Append(buffer, h)
        /\ reader = "reading" /\ UNCHANGED <<reader, readerInStep, noise>>
    BY <1>5 DEF ReadAnswer
  <2>2. /\ h \in D /\ up' \in Seq(D) /\ Contains(up, h)
        /\ \A x : Contains(up', x) => Contains(up, x)
        /\ DistinctIn(up', Tasks)
        /\ h \in Tasks => ~Contains(up', h)
    BY <1>3, <2>1, TakeHead
  <2>3. h \in Tasks
    BY <2>1, <2>2 DEF GreetingFirst
  <2> HIDE DEF h
  <2>4. /\ buffer' \in Seq(Tasks)
        /\ \A x : Contains(buffer', x) <=> Contains(buffer, x) \/ x = h
    BY <1>3, <2>1, <2>3, AppendOne
  <2>5. TypeOK'
    BY <1>1, <2>1, <2>2, <2>4 DEF TypeOK, startVars, flashVars, pageVars
  <2>6. NoCopies'
    BY <1>1, <2>2 DEF NoCopies, flashVars
  <2>7. GreetingFirst'
    BY <1>1, <2>1, <2>2 DEF GreetingFirst
  <2>8. Apart'
    BY <1>1, <2>2, <2>3, <2>4 DEF Apart, flashVars, pageVars
  <2> QED BY <1>2, <2>5, <2>6, <2>7, <2>8
<1> QED BY <1>4, <1>5 DEF Reader

LEMMA SendStep ==
  ASSUME NEW m \in Tasks \cup Lines
  PROVE  IInv /\ SendMsg(m) => IInv'
<1> SUFFICES ASSUME IInv, SendMsg(m) PROVE IInv'
  OBVIOUS
<1> USE DEF IInv
<1> DEFINE S == Tasks \cup Lines
<1>1. /\ reader # "none" /\ m \notin sent /\ sent' = sent \cup {m}
      /\ down' = Append(down, m) \/ UNCHANGED down
      /\ UNCHANGED <<startVars, timers, line, up, flashVars, pageVars, reader,
                     readerInStep, buffer, noise>>
  BY DEF SendMsg
<1>2. down \in Seq(S) /\ DistinctIn(down, Tasks) /\ (m \in Tasks => ~Contains(down, m))
  BY <1>1 DEF TypeOK, NoCopies, Apart
<1>3. /\ down' \in Seq(S) /\ DistinctIn(down', Tasks)
      /\ \A x : Contains(down', x) => Contains(down, x) \/ x = m
  <2>1. CASE down' = Append(down, m)
    BY <1>2, <2>1, AppendOne
  <2>2. CASE UNCHANGED down
    BY <1>2, <2>2
  <2> QED BY <1>1, <2>1, <2>2
<1>4. TypeOK'
  BY <1>1, <1>3 DEF TypeOK, startVars, flashVars, pageVars
<1>5. StartOnce' /\ NoCopies' /\ GreetingFirst'
  BY <1>1, <1>3 DEF StartOnce, NoCopies, GreetingFirst, startVars, flashVars
<1>6. Apart'
  BY <1>1, <1>3 DEF Apart, flashVars, pageVars
<1> QED BY <1>4, <1>5, <1>6

LEMMA StepIInv == IInv /\ [Next]_vars => IInv'
<1>1. IInv /\ UNCHANGED vars => IInv'
  BY DEF IInv, TypeOK, StartOnce, GreetingFirst, NoCopies, Apart, DistinctIn,
         Contains, vars, startVars, flashVars, pageVars, serverVars
<1> QED BY <1>1, StartStep, TimerStep, ConnectedStep, ArriveStep, ReadStep,
           ScriptStep, EndStep, ReaderStep, SendStep DEF Next

LEMMA Invariance == Spec => []IInv
  BY InitIInv, StepIInv, PTL DEF Spec

-----------------------------------------------------------------------------
(* The theorems.                                                           *)

(* The variables keep their types, whatever fails: the server's reader     *)
(* puts the answers of tasks into the buffer and nothing else.             *)
THEOREM TypeCorrect == Spec => []TypeOK
<1>1. IInv => TypeOK
  BY DEF IInv
<1> QED BY <1>1, Invariance, PTL

(* The page makes one socket, in whatever order JSocket.init and the flash *)
(* object get to it.                                                       *)
THEOREM OneSocketOnly == Spec => []OneSocket
<1>1. IInv => OneSocket
  BY DEF IInv, TypeOK, StartOnce, OneSocket
<1> QED BY <1>1, Invariance, PTL

-----------------------------------------------------------------------------
(* What the volunteer is for Workers.                                      *)

MapVars == <<ConnOfMe, Listed, Pending, AnswersRead>>

LEMMA MappedVars ==
  UNCHANGED MapVars => UNCHANGED W!workerVars
BY DEF MapVars, W!workerVars

LEMMA InitMaps == Init => W!WorkersInit
BY NothingInEmpty
   DEF Init, W!WorkersInit, ConnOfMe, Listed, Pending, Answered, AnswersRead

(* Steps of which the rest of the server sees nothing                      *)
LEMMA HiddenSteps ==
  ASSUME UNCHANGED <<line, reader, readerInStep, sent, buffer>> /\ IInv,
         UNCHANGED up \/ line = "open"
  PROVE  UNCHANGED W!workerVars
<1>1. UNCHANGED <<ConnOfMe, Listed, AnswersRead>>
  BY DEF ConnOfMe, Listed, AnswersRead
<1>2. UNCHANGED Pending
  BY DEF Pending, Answered
<1> QED BY <1>1, <1>2, MappedVars DEF MapVars

LEMMA StartLine == IInv /\ (DoConnect \/ Connected) => UNCHANGED W!workerVars
<1> SUFFICES ASSUME IInv, DoConnect \/ Connected PROVE UNCHANGED W!workerVars
  OBVIOUS
<1>1. /\ UNCHANGED <<reader, readerInStep, sent, buffer, up>>
      /\ line \in {"left", "closed"} <=> line' \in {"left", "closed"}
      /\ line' = line \/ reader = "none"
  <2>1. line \in {"none", "connecting"} => reader = "none"
    BY DEF IInv, GreetingFirst
  <2> QED BY <2>1 DEF DoConnect, Connected, serverVars
<1>2. UNCHANGED <<ConnOfMe, Listed, AnswersRead>>
  BY <1>1 DEF ConnOfMe, Listed, AnswersRead
<1>3. UNCHANGED Pending
  <2>1. CASE line' = line
    BY <1>1, <2>1 DEF Pending, Answered
  <2>2. CASE line' # line
    BY <1>1, <2>2 DEF Pending, Answered, DoConnect, Connected
  <2> QED BY <2>1, <2>2
<1> QED BY <1>2, <1>3, MappedVars DEF MapVars

LEMMA RegisterMaps == IInv /\ Register => W!Connect(Me)
<1> SUFFICES ASSUME IInv, Register PROVE W!Connect(Me)
  OBVIOUS
<1>1. /\ reader = "none" /\ reader' = "reading" /\ up # << >>
      /\ UNCHANGED <<line, sent, buffer>>
  BY DEF Register
<1>2. line = "open"
  BY <1>1 DEF IInv, TypeOK, GreetingFirst
<1>3. /\ ConnOfMe[Me] = "new"
      /\ ConnOfMe' = [ConnOfMe EXCEPT ![Me] = "open"]
  BY <1>1, <1>2 DEF ConnOfMe
<1>4. /\ Listed = << >> /\ Listed' = <<Me>>
      /\ Append(<< >>, Me) = <<Me>>
  BY <1>1 DEF Listed
<1>5. Pending' = Pending /\ AnswersRead' = AnswersRead
  BY <1>1, <1>2 DEF Pending, Answered, AnswersRead
<1> QED BY <1>3, <1>4, <1>5 DEF W!Connect

LEMMA SendMaps ==
  ASSUME NEW m \in Tasks \cup Lines, IInv, SendMsg(m)
  PROVE  (\E t \in Tasks : SendsTask(t)) \/ UNCHANGED W!workerVars
<1>1. /\ reader # "none" /\ m \notin sent /\ sent' = sent \cup {m}
      /\ UNCHANGED <<line, up, reader, readerInStep, buffer>>
  BY DEF SendMsg
<1>2. UNCHANGED <<ConnOfMe, Listed, AnswersRead>>
  BY <1>1 DEF ConnOfMe, Listed, AnswersRead
<1>3. line \in {"open", "left", "closed"}
  BY <1>1 DEF IInv, TypeOK, GreetingFirst
<1>4. CASE m \in Tasks
  <2>1. ConnOfMe[Me] = IF line = "open" THEN "open" ELSE "closed"
    BY <1>1 DEF ConnOfMe
  <2>2. CASE line = "open"
    <3>1. m \notin Answered
      BY <1>1, <1>4 DEF IInv, Apart, Answered
    <3>2. Pending' = Pending \cup {m}
      BY <1>1, <1>4, <2>2, <3>1 DEF Pending, Answered
    <3>3. W!SendMsg(Me, m)
      BY <2>1, <2>2, <3>2 DEF W!SendMsg
    <3> QED BY <1>2, <1>4, <3>3 DEF SendsTask
  <2>3. CASE line # "open"
    <3>1. Pending' = Pending
      BY <1>1, <1>3, <2>3 DEF Pending
    <3>2. W!SendMsg(Me, m)
      BY <2>1, <2>3, <3>1 DEF W!SendMsg
    <3> QED BY <1>2, <1>4, <3>2 DEF SendsTask
  <2> QED BY <2>2, <2>3
<1>5. CASE m \notin Tasks
  <2>1. Pending' = Pending
    BY <1>1, <1>5 DEF Pending, Answered
  <2> QED BY <1>2, <2>1, MappedVars DEF MapVars
<1> QED BY <1>4, <1>5

LEMMA AnswerMaps == IInv /\ ReadAnswer => W!Answer(Me)
<1> SUFFICES ASSUME IInv, ReadAnswer PROVE W!Answer(Me)
  OBVIOUS
<1> DEFINE h == Head(up)
           D == Tasks \cup {"greeting"}
<1>1. /\ reader = "reading" /\ readerInStep /\ line # "closed" /\ up # << >>
      /\ up' = Tail(up) /\ buffer' = Append(buffer, h)
      /\ UNCHANGED <<line, reader, readerInStep, sent>>
  BY DEF ReadAnswer
<1>2. up \in Seq(D) /\ buffer \in Seq(Tasks) /\ DistinctIn(up, Tasks)
  BY DEF IInv, TypeOK, NoCopies
<1>3. /\ h \in D /\ Contains(up, h)
      /\ \A x : Contains(up', x) => Contains(up, x)
      /\ \A x : Contains(up, x) => x = h \/ Contains(up', x)
      /\ h \in Tasks => ~Contains(up', h)
  BY <1>1, <1>2, TakeHead
<1>4. h \in Tasks /\ h \in sent /\ ~Contains(buffer, h)
  <2>1. h \in Tasks
    BY <1>1, <1>3 DEF IInv, GreetingFirst
  <2> QED BY <2>1, <1>3 DEF IInv, Apart
<1> HIDE DEF h
<1>5. \A x : Contains(buffer', x) <=> Contains(buffer, x) \/ x = h
  BY <1>1, <1>2, <1>4, AppendOne
<1>6. h \in Pending /\ Pending' = Pending \ {h}
  <2>1. CASE line = "left"
    BY <1>1, <1>3, <1>4, <2>1 DEF Pending
  <2>2. CASE line # "left"
    BY <1>1, <1>4, <1>5, <2>2 DEF Pending, Answered
  <2> QED BY <2>1, <2>2
<1>7. AnswersRead' = Append(AnswersRead, [from |-> Me, task |-> h])
  <2>1. /\ Len(buffer) \in Nat /\ Len(buffer') = Len(buffer) + 1
        /\ \A i \in 1..Len(buffer) : buffer'[i] = buffer[i]
        /\ buffer'[Len(buffer) + 1] = h
    BY <1>1, <1>2, <1>4, AppendProperties, LenProperties
  <2> DEFINE R == [from : {Me}, task : Tasks]
             a == Append(AnswersRead, [from |-> Me, task |-> h])
  <2>2. AnswersRead \in Seq(R) /\ Len(AnswersRead) = Len(buffer)
    <3>1. \A i \in 1..Len(buffer) : buffer[i] \in Tasks
      BY <1>2, ElementOfSeq
    <3>2. AnswersRead \in [1..Len(buffer) -> R] /\ DOMAIN AnswersRead = 1..Len(buffer)
      BY <3>1 DEF AnswersRead
    <3> HIDE DEF R
    <3>3. AnswersRead \in Seq(R)
      BY <2>1, <3>2, SeqDef
    <3>4. Len(AnswersRead) \in Nat /\ DOMAIN AnswersRead = 1..Len(AnswersRead)
      BY <3>3, LenProperties
    <3> QED BY <2>1, <3>2, <3>3, <3>4
  <2>3. AnswersRead' \in Seq(R) /\ Len(AnswersRead') = Len(buffer) + 1
    <3>1. \A i \in 1..Len(buffer') : buffer'[i] \in Tasks
      BY <1>2, <1>4, <2>1, ElementOfSeq
    <3>2. AnswersRead' \in [1..Len(buffer') -> R] /\ DOMAIN AnswersRead' = 1..Len(buffer')
      BY <3>1 DEF AnswersRead
    <3> HIDE DEF R
    <3>3. AnswersRead' \in Seq(R)
      BY <2>1, <3>2, SeqDef
    <3>4. Len(AnswersRead') \in Nat /\ DOMAIN AnswersRead' = 1..Len(AnswersRead')
      BY <3>3, LenProperties
    <3> QED BY <2>1, <3>2, <3>3, <3>4
  <2>4. /\ a \in Seq(R) /\ Len(a) = Len(buffer) + 1
        /\ \A i \in 1..Len(buffer) : a[i] = AnswersRead[i]
        /\ a[Len(buffer) + 1] = [from |-> Me, task |-> h]
    <3>1. [from |-> Me, task |-> h] \in R
      BY <1>4
    <3> QED BY <2>2, <3>1, AppendProperties
  <2>5. \A i \in 1..Len(buffer) + 1 : AnswersRead'[i] = a[i]
    BY <2>1, <2>4 DEF AnswersRead
  <2> QED BY <2>3, <2>4, <2>5, SeqEqual
<1>8. W!Reading(Me)
  BY <1>1 DEF W!Reading, Listed
<1>9. UNCHANGED <<ConnOfMe, Listed>>
  BY <1>1 DEF ConnOfMe, Listed
<1>10. /\ h \in [w \in {Me} |-> Pending][Me]
       /\ [w \in {Me} |-> Pending'] =
            [[w \in {Me} |-> Pending] EXCEPT ![Me] = @ \ {h}]
  BY <1>6
<1> QED BY <1>7, <1>8, <1>9, <1>10 DEF W!Answer

LEMMA EndMaps == IInv /\ (Leave \/ CloseConnection) => W!Disconnect(Me)
<1> SUFFICES ASSUME IInv, Leave \/ CloseConnection PROVE W!Disconnect(Me)
  OBVIOUS
<1>1. /\ line = "open" /\ line' \in {"left", "closed"} /\ reader = "reading"
      /\ UNCHANGED <<reader, readerInStep, sent, buffer>>
  BY DEF Leave, CloseConnection, serverVars
<1>2. \A x : line' = "left" /\ Contains(up', x) => Contains(up, x)
  <2>1. up \in Seq(Tasks \cup {"greeting"}) /\ Len(up) \in Nat
    BY LenProperties DEF IInv, TypeOK
  <2>2. CASE Leave
    <3>1. PICK n \in 0..Len(up) : up' = SubSeq(up, 1, n)
      BY <2>2 DEF Leave
    <3>2. 1 \in 1..Len(up) + 1
      BY <2>1
    <3> QED BY <2>1, <3>1, <3>2, PartOf
  <2>3. CASE CloseConnection
    BY <2>3 DEF CloseConnection
  <2> QED BY <2>2, <2>3
<1>3. Pending' \in SUBSET Pending
  BY <1>1, <1>2 DEF Pending, Answered, IInv, Apart
<1>4. /\ ConnOfMe[Me] = "open"
      /\ ConnOfMe' = [ConnOfMe EXCEPT ![Me] = "closed"]
  BY <1>1 DEF ConnOfMe
<1>5. UNCHANGED <<Listed, AnswersRead>>
  BY <1>1 DEF Listed, AnswersRead
<1>6. \E onTheWire \in SUBSET [w \in {Me} |-> Pending][Me] :
        [w \in {Me} |-> Pending'] =
          [[w \in {Me} |-> Pending] EXCEPT ![Me] = onTheWire]
  BY <1>3
<1> QED BY <1>4, <1>5, <1>6 DEF W!Disconnect

LEMMA RemoveOnly == RemoveFirst(<<Me>>, Me) = << >>
<1>1. <<Me>> \in Seq({Me}) /\ \E i \in 1..Len(<<Me>>) : <<Me>>[i] = Me
  OBVIOUS
<1>2. PICK p \in 1..Len(<<Me>>) :
        RemoveFirst(<<Me>>, Me) = SubSeq(<<Me>>, 1, p-1) \o SubSeq(<<Me>>, p+1, Len(<<Me>>))
  BY <1>1, RemoveFirstIsRemoveAt
<1>3. p = 1 /\ Len(<<Me>>) = 1
  BY <1>2
<1>4. SubSeq(<<Me>>, 1, p-1) = << >> /\ SubSeq(<<Me>>, p+1, Len(<<Me>>)) = << >>
  BY <1>3, SubSeqEmpty
<1> QED BY <1>2, <1>4

LEMMA SameRemove == W!RemoveFirst(<<Me>>, Me) = RemoveFirst(<<Me>>, Me)
BY DEF W!RemoveFirst, RemoveFirst, W!RemoveAt, RemoveAt,
       W!SelectInSeq, SelectInSeq, W!Min, Min

LEMMA RemoveMaps == IInv /\ RemoveClient => W!RemoveClient(Me)
<1> SUFFICES ASSUME IInv, RemoveClient PROVE W!RemoveClient(Me)
  OBVIOUS
<1>1. /\ reader = "reading" /\ reader' = "removed"
      /\ line \in {"left", "closed"} /\ up = << >>
      /\ UNCHANGED <<line, up, readerInStep, sent, buffer>>
  BY DEF RemoveClient
<1>2. W!Reading(Me)
  BY <1>1 DEF W!Reading, Listed
<1>3. ConnOfMe[Me] = "closed" /\ UNCHANGED <<ConnOfMe, AnswersRead>>
  BY <1>1 DEF ConnOfMe, AnswersRead
<1>4. Pending = {} /\ UNCHANGED Pending
  BY <1>1, NothingInEmpty DEF Pending
<1>5. Listed = <<Me>> /\ Listed' = << >>
  BY <1>1 DEF Listed
<1> QED BY <1>2, <1>3, <1>4, <1>5, RemoveOnly, SameRemove DEF W!RemoveClient

LEMMA NoiseMaps == IInv /\ ReadNoise => UNCHANGED W!workerVars
<1> SUFFICES ASSUME IInv, ReadNoise PROVE UNCHANGED W!workerVars
  OBVIOUS
<1>1. ~readerInStep /\ UNCHANGED <<line, reader, readerInStep, sent, buffer>>
  BY DEF ReadNoise
<1>2. UNCHANGED <<ConnOfMe, Listed, AnswersRead, Pending>>
  BY <1>1 DEF ConnOfMe, Listed, AnswersRead, Pending, Answered
<1> QED BY <1>2, MappedVars DEF MapVars

LEMMA StepMaps ==
  IInv /\ [Next]_vars =>
    [W!WorkersNext \/ \E t \in Tasks : SendsTask(t)]_(W!workerVars)
<1> SUFFICES ASSUME IInv, [Next]_vars
             PROVE  [W!WorkersNext \/ \E t \in Tasks : SendsTask(t)]_(W!workerVars)
  OBVIOUS
<1>1. CASE \/ Start \/ Arrive \/ Read \/ DoWriteFlush
           \/ \E t \in Tasks : Script(t)
           \/ UNCHANGED vars
  <2>1. /\ UNCHANGED <<line, reader, readerInStep, sent, buffer>>
        /\ UNCHANGED up \/ line = "open"
    BY <1>1 DEF Start, Embed, AddCallbacks, SwfLoaded, TestApi, Arrive, Read,
                ReadUTF, ReadTorn, ReadGarbage, DoWriteFlush, Script, ScriptLoaded,
                ScriptFails, serverVars, vars
  <2> QED BY <2>1, HiddenSteps
<1>2. CASE DoConnect \/ Connected
  BY <1>2, StartLine
<1>3. CASE Leave \/ CloseConnection
  BY <1>3, EndMaps DEF W!WorkersNext
<1>4. CASE Reader
  BY <1>4, RegisterMaps, AnswerMaps, NoiseMaps, RemoveMaps
     DEF Reader, W!WorkersNext
<1>5. CASE \E m \in Tasks \cup Lines : SendMsg(m)
  BY <1>5, SendMaps
<1> QED BY <1>1, <1>2, <1>3, <1>4, <1>5 DEF Next, Timer

(* Whatever fails on the page, in the flash object or on the line, the     *)
(* volunteer is a worker as the module Workers has it: a task it was sent  *)
(* is answered at most once, and with its own answer.                      *)
THEOREM VolunteerIsWorker == Spec => ImplementsWorkers
  BY InitMaps, StepMaps, Invariance, PTL DEF Spec, ImplementsWorkers

-----------------------------------------------------------------------------
(* The volunteer gets to the server.                                       *)

(* The page before the server has its worker: the socket is still to be    *)
(* made, is about to connect, connects, is about to write the greeting, or *)
(* has written it.                                                         *)
Unmade     == sockets = 0 /\ timers = << >> /\ line = "none" /\ up = << >>
PutOff     == sockets = 1 /\ timers = <<"connect">> /\ line = "none" /\ up = << >>
Connecting == sockets = 1 /\ timers = << >> /\ line = "connecting" /\ up = << >>
Greets     == sockets = 1 /\ timers = <<"greeting">> /\ line = "open" /\ up = << >>
Greeted    == sockets = 1 /\ timers = << >> /\ line = "open" /\ up = <<"greeting">>

OnItsWay == Unmade \/ PutOff \/ Connecting \/ Greets \/ Greeted

JoinInv ==
  reader = "none" =>
    down = << >> /\ arrived = << >> /\ ~socketData /\ loading = {} /\ OnItsWay

Joined == reader # "none"

LEMMA OneElement == ASSUME NEW e
  PROVE  /\ <<e>> # << >> /\ Head(<<e>>) = e /\ Tail(<<e>>) = << >>
         /\ Append(<< >>, e) = <<e>>
OBVIOUS

(* What a step of the page does before the server has its worker           *)
LEMMA StartBefore ==
  ASSUME IInv, OnItsWay, Start
  PROVE  /\ Unmade => Unmade' \/ PutOff'
         /\ PutOff => PutOff'
         /\ Connecting => Connecting'
         /\ Greets => Greets'
         /\ Greeted => Greeted'
         /\ UNCHANGED <<reader, down, arrived, socketData, loading>>
<1>1. Append(<< >>, "connect") = <<"connect">>
  BY OneElement
<1>2. sockets = 1 => ~TestApi /\ (SwfLoaded => ~swfloadedcb)
  BY DEF IInv, TypeOK, StartOnce, TestApi, SwfLoaded
<1>0. UNCHANGED <<reader, down, arrived, socketData, loading>>
  BY DEF Start, Embed, AddCallbacks, SwfLoaded, TestApi, flashVars, pageVars, serverVars
<1>3. CASE SwfLoadedCallback /\ sockets = 0 /\ UNCHANGED <<line, up>>
  <2>1. Unmade /\ PutOff'
    BY <1>1, <1>3 DEF SwfLoadedCallback, OnItsWay, Unmade, PutOff, Connecting, Greets, Greeted
  <2> QED BY <1>0, <2>1 DEF Unmade, PutOff, Connecting, Greets, Greeted
<1>4. CASE UNCHANGED <<sockets, timers, line, up>>
  BY <1>0, <1>4 DEF Unmade, PutOff, Connecting, Greets, Greeted
<1>6. \/ SwfLoadedCallback /\ UNCHANGED <<line, up>> /\ sockets = 0
      \/ UNCHANGED <<sockets, timers, line, up>>
  <2>1. CASE Embed \/ AddCallbacks
    BY <2>1 DEF Embed, AddCallbacks
  <2>2. CASE SwfLoaded
    BY <2>2, <1>2 DEF SwfLoaded, OnItsWay, Unmade, PutOff, Connecting, Greets, Greeted
  <2>3. CASE TestApi
    BY <2>3, <1>2 DEF TestApi, OnItsWay, Unmade, PutOff, Connecting, Greets, Greeted
  <2> QED BY <2>1, <2>2, <2>3 DEF Start
<1> QED BY <1>3, <1>4, <1>6

LEMMA TimerBefore ==
  ASSUME OnItsWay, Timer
  PROVE  /\ ~Unmade /\ ~Connecting /\ ~Greeted
         /\ PutOff => Connecting'
         /\ Greets => Greeted'
         /\ UNCHANGED <<reader, down, arrived, socketData, loading>>
<1>1. "greeting" \notin LongAnswer /\ "greeting" # "connect"
  BY VolunteerAssumption
<1>2. /\ <<"greeting">> # << >> /\ Head(<<"greeting">>) = "greeting" /\ Tail(<<"greeting">>) = << >>
      /\ <<"connect">> # << >> /\ Head(<<"connect">>) = "connect" /\ Tail(<<"connect">>) = << >>
      /\ Append(<< >>, "greeting") = <<"greeting">>
  BY OneElement
<1>3. timers # << >> /\ ~Unmade /\ ~Connecting /\ ~Greeted
  BY DEF Timer, DoConnect, DoWriteFlush, Unmade, Connecting, Greeted
<1>4. ASSUME PutOff PROVE Connecting' /\ UNCHANGED <<reader, down, arrived, socketData, loading>>
  <2>1. DoConnect
    BY <1>2, <1>4 DEF Timer, DoWriteFlush, PutOff
  <2> QED BY <1>2, <1>4, <2>1 DEF DoConnect, PutOff, Connecting, startVars, flashVars, pageVars, serverVars
<1>5. ASSUME Greets PROVE Greeted' /\ UNCHANGED <<reader, down, arrived, socketData, loading>>
  <2>1. DoWriteFlush
    BY <1>1, <1>2, <1>5 DEF Timer, DoConnect, Greets
  <2> QED BY <1>1, <1>2, <1>5, <2>1 DEF DoWriteFlush, Greets, Greeted, startVars, flashVars, pageVars, serverVars
<1> QED BY <1>3, <1>4, <1>5 DEF OnItsWay

LEMMA ConnectedBefore ==
  ASSUME OnItsWay, Connected
  PROVE  Connecting /\ Greets' /\ UNCHANGED <<reader, down, arrived, socketData, loading>>
<1>1. Append(<< >>, "greeting") = <<"greeting">>
  BY OneElement
<1> QED BY <1>1 DEF Connected, OnItsWay, Unmade, PutOff, Connecting, Greets, Greeted, startVars, flashVars,
       pageVars, serverVars

LEMMA OthersBefore ==
  ASSUME JoinInv, ~Joined, [Next]_vars, ~Start, ~Timer, ~Connected
  PROVE  (Greeted /\ Register) \/ UNCHANGED vars
<1>1. ~Arrive /\ ~Read
  BY DEF Arrive, Read, ReadUTF, ReadTorn, ReadGarbage, JoinInv, Joined
<1>2. \A t \in Tasks : ~Script(t)
  BY DEF Script, ScriptLoaded, ScriptFails, JoinInv, Joined
<1>3. ~Leave /\ ~CloseConnection /\ ~ReadAnswer /\ ~ReadNoise /\ ~RemoveClient
  BY DEF Leave, CloseConnection, ReadAnswer, ReadNoise, RemoveClient, Joined
<1>4. \A m \in Tasks \cup Lines : ~SendMsg(m)
  BY DEF SendMsg, Joined
<1>5. Register => Greeted
  BY DEF Register, JoinInv, OnItsWay, Unmade, PutOff, Connecting, Greets, Joined
<1> QED BY <1>1, <1>2, <1>3, <1>4, <1>5 DEF Next, Reader

(* Each step before the server has its worker, from one stage to the next  *)
Goes ==
  \/ Unmade /\ (Unmade \/ PutOff)'
  \/ PutOff /\ ~Timer /\ PutOff'
  \/ PutOff /\ Connecting'
  \/ Connecting /\ ~Connected /\ Connecting'
  \/ Connecting /\ Greets'
  \/ Greets /\ ~Timer /\ Greets'
  \/ Greets /\ Greeted'
  \/ Greeted /\ ~Reader /\ Greeted'

LEMMA BeforeStep ==
  ASSUME IInv, JoinInv, ~Joined, [Next]_vars
  PROVE  Joined' \/ (Goes /\ UNCHANGED <<reader, down, arrived, socketData, loading>>)
<1>1. OnItsWay
  BY DEF JoinInv, Joined
<1>2. CASE Start
  <2>1. ~Timer /\ ~Connected /\ ~Reader
    BY <1>2 DEF Start, Embed, AddCallbacks, SwfLoaded, TestApi, Timer, DoConnect, DoWriteFlush,
       Connected, Reader, Register, ReadAnswer, ReadNoise, RemoveClient, startVars, serverVars,
       SwfLoadedCallback
  <2> QED BY <1>1, <1>2, <2>1, StartBefore DEF OnItsWay, Goes
<1>3. CASE Timer
  BY <1>1, <1>3, TimerBefore DEF OnItsWay, Goes
<1>4. CASE Connected
  BY <1>1, <1>4, ConnectedBefore DEF Goes
<1>5. CASE Register
  BY <1>5 DEF Register, Joined
<1>6. CASE UNCHANGED vars
  <2>1. UNCHANGED <<sockets, timers, line, up, reader, down, arrived, socketData, loading>>
    BY <1>6 DEF vars, startVars, flashVars, pageVars, serverVars
  <2>2. ~Timer
    BY <1>1, <2>1, TimerBefore, OneElement DEF OnItsWay, Unmade, PutOff, Connecting, Greets, Greeted
  <2>3. ~Connected
    BY <2>1 DEF Connected
  <2>4. Greeted => ~Reader
    BY <2>1 DEF Reader, Register, ReadAnswer, ReadNoise, RemoveClient, Joined
  <2> QED BY <1>1, <2>1, <2>2, <2>3, <2>4 DEF OnItsWay, Unmade, PutOff, Connecting, Greets,
             Greeted, Goes
<1> QED BY <1>2, <1>3, <1>4, <1>5, <1>6, OthersBefore

(* Who has joined stays so.                                                *)
LEMMA JoinedStays == ASSUME Joined, [Next]_vars PROVE Joined'
<1>1. Start \/ Timer \/ Connected \/ Arrive \/ Read => reader' = reader
  BY DEF Start, Embed, AddCallbacks, SwfLoaded, TestApi, Timer, DoConnect, DoWriteFlush,
     Connected, Arrive, Read, ReadUTF, ReadTorn, ReadGarbage, serverVars
<1>2. \A t \in Tasks : Script(t) => reader' = reader
  BY DEF Script, ScriptLoaded, ScriptFails, serverVars
<1>3. Leave \/ CloseConnection => reader' = reader
  BY DEF Leave, CloseConnection, serverVars
<1>4. Reader => Joined'
  BY DEF Reader, Register, ReadAnswer, ReadNoise, RemoveClient, Joined
<1>5. \A m \in Tasks \cup Lines : SendMsg(m) => reader' = reader
  BY DEF SendMsg
<1>6. UNCHANGED vars => reader' = reader
  BY DEF vars, serverVars
<1> QED BY <1>1, <1>2, <1>3, <1>4, <1>5, <1>6 DEF Next, Joined

LEMMA JoinStep == IInv /\ JoinInv /\ [Next]_vars => JoinInv'
<1> SUFFICES ASSUME IInv, JoinInv, [Next]_vars PROVE JoinInv'
  OBVIOUS
<1>1. CASE Joined
  BY <1>1, JoinedStays DEF JoinInv, Joined
<1>2. CASE ~Joined /\ Goes
  <2>1. OnItsWay'
    BY <1>2 DEF Goes, OnItsWay
  <2> QED BY <1>2, <2>1, BeforeStep DEF JoinInv, Joined
<1> QED BY <1>1, <1>2, BeforeStep DEF JoinInv, Joined

-----------------------------------------------------------------------------
(* How far init and the flash object are before the socket is made         *)
Loading(i, s) == ~Joined /\ Unmade /\ init = i /\ swf = s

LEMMA LoadingStep ==
  ASSUME IInv, JoinInv, [Next]_vars, NEW i, NEW s, Loading(i, s)
  PROVE  \/ ~Start /\ Loading(i, s)'
         \/ /\ Start
            /\ \/ PutOff' /\ ~Joined'
               \/ Loading("test", "embedded")' /\ i = "embed" /\ s = "none"
               \/ Loading("test", "ready")' /\ i = "test" /\ s = "embedded"
               \/ Loading("done", "embedded")' /\ i = "test" /\ s = "embedded"
               \/ Loading("test", "announced")' /\ i = "test" /\ s = "ready"
               \/ Loading("done", "ready")' /\ i = "done" /\ s = "embedded"
<1>1. /\ ~Joined /\ Unmade /\ init = i /\ swf = s /\ OnItsWay
      /\ init = "embed" => swf = "none"
      /\ init \in {"embed", "test", "done"} /\ swf \in {"none", "embedded", "ready", "announced"}
      /\ init = "test" => swf # "none" /\ ~swfloadedcb
      /\ init = "done" => swf # "none" /\ swfloadedcb /\ swf # "announced"
  BY DEF Loading, IInv, TypeOK, StartOnce, JoinInv, Joined, Unmade
<1>2. CASE Start
  <2>1. (Unmade' \/ PutOff') /\ ~Joined'
    BY <1>1, <1>2, StartBefore DEF Joined
  <2>2. Unmade' => sockets' = sockets
    BY <1>1 DEF Unmade
  <2>3. CASE Embed
    BY <1>1, <1>2, <2>1, <2>3 DEF Embed, Loading
  <2>4. CASE AddCallbacks
    BY <1>1, <1>2, <2>1, <2>4 DEF AddCallbacks, Loading
  <2>5. CASE SwfLoaded
    BY <1>1, <1>2, <2>1, <2>5 DEF SwfLoaded, SwfLoadedCallback, Loading, Unmade
  <2>6. CASE TestApi
    BY <1>1, <1>2, <2>1, <2>6 DEF TestApi, SwfLoadedCallback, Loading, Unmade
  <2> QED BY <1>2, <2>3, <2>4, <2>5, <2>6 DEF Start
<1>3. CASE ~Start
  <2>1. UNCHANGED vars
    BY <1>1, <1>3, OthersBefore, TimerBefore, ConnectedBefore DEF Unmade, Greeted, Connecting
  <2> QED BY <1>3, <2>1 DEF vars, startVars, serverVars, Loading, Joined, Unmade
<1> QED BY <1>2, <1>3

(* The steps whose guards are met can be taken: ENABLED is out of the      *)
(* provers' reach, and the theorem takes this as its hypothesis.           *)
CanJoin ==
  /\ ~Joined /\ sockets = 0 => ENABLED <<Start>>_vars
  /\ timers # << >> => ENABLED <<Timer>>_vars
  /\ line = "connecting" => ENABLED <<Connected>>_vars
  /\ ~Joined /\ up # << >> => ENABLED <<Reader>>_vars

(* The volunteer gets to the server, in whatever order the flash object    *)
(* and JSocket.init find each other, and nothing comes in between.         *)
THEOREM VolunteerJoins == FairSpec /\ []CanJoin => Joins
<1> DEFINE Inv == IInv /\ JoinInv
           At(stage) == ~Joined /\ stage
<1>1. Init => JoinInv
  BY DEF Init, JoinInv, OnItsWay, Unmade
<1>2. Spec => []Inv
  BY <1>1, JoinStep, Invariance, PTL DEF Spec
<1>3. FairSpec => /\ Spec /\ [][Next]_vars
                  /\ WF_vars(Start) /\ WF_vars(Timer) /\ WF_vars(Connected) /\ WF_vars(Reader)
  BY PTL DEF FairSpec, Fairness, Spec
<1>4. Init => Loading("embed", "none")
  BY DEF Init, Loading, Joined, Unmade
<1>5. Inv /\ [Next]_vars =>
        /\ Loading("embed", "none") =>
             \/ ~Start /\ Loading("embed", "none")'
             \/ Start /\ (PutOff' \/ Loading("test", "embedded")')
        /\ Loading("test", "embedded") =>
             \/ ~Start /\ Loading("test", "embedded")'
             \/ Start /\ (\/ PutOff'
                          \/ Loading("test", "ready")'
                          \/ Loading("done", "embedded")')
        /\ Loading("test", "ready") =>
             \/ ~Start /\ Loading("test", "ready")'
             \/ Start /\ (PutOff' \/ Loading("test", "announced")')
        /\ Loading("done", "embedded") =>
             \/ ~Start /\ Loading("done", "embedded")'
             \/ Start /\ (PutOff' \/ Loading("done", "ready")')
        /\ Loading("test", "announced") =>
             \/ ~Start /\ Loading("test", "announced")'
             \/ Start /\ PutOff'
        /\ Loading("done", "ready") =>
             \/ ~Start /\ Loading("done", "ready")'
             \/ Start /\ PutOff'
  BY LoadingStep
<1>6. CanJoin =>
        /\ Loading("embed", "none") \/ Loading("test", "embedded") \/ Loading("test", "ready")
           \/ Loading("done", "embedded") \/ Loading("test", "announced")
           \/ Loading("done", "ready") => ENABLED <<Start>>_vars
        /\ PutOff => ENABLED <<Timer>>_vars
        /\ Connecting => ENABLED <<Connected>>_vars
        /\ Greets => ENABLED <<Timer>>_vars
        /\ Greeted => Joined \/ ENABLED <<Reader>>_vars
  BY OneElement DEF CanJoin, Loading, Unmade, PutOff, Connecting, Greets, Greeted
<1>7. Inv /\ [Next]_vars =>
        /\ PutOff => Joined \/ Joined' \/ (~Timer /\ PutOff') \/ Connecting'
        /\ Connecting => Joined \/ Joined' \/ (~Connected /\ Connecting') \/ Greets'
        /\ Greets => Joined \/ Joined' \/ (~Timer /\ Greets') \/ Greeted'
        /\ Greeted => Joined \/ Joined' \/ (~Reader /\ Greeted')
  <2>1. /\ PutOff => ~Unmade /\ ~Connecting /\ ~Greets /\ ~Greeted
        /\ Connecting => ~Unmade /\ ~Greets /\ ~Greeted
        /\ Greets => ~Unmade /\ ~Greeted
        /\ Greeted => ~Unmade
    BY OneElement DEF Unmade, PutOff, Connecting, Greets, Greeted
  <2> QED BY <2>1, BeforeStep DEF Goes
<1> HIDE DEF Inv
<1>8. FairSpec /\ []CanJoin => <>(PutOff \/ Joined)
  BY <1>2, <1>3, <1>4, <1>5, <1>6, PTL DEF Spec
<1>9. FairSpec /\ []CanJoin => (PutOff ~> Joined)
  BY <1>2, <1>3, <1>6, <1>7, PTL
<1>10. Inv /\ [Next]_vars /\ ~Joined => ~Joined' \/ (reader = "reading")'
  <2> SUFFICES ASSUME Inv, [Next]_vars, ~Joined, Joined' PROVE reader' = "reading"
    OBVIOUS
  <2>1. \/ Start \/ Timer \/ Connected \/ UNCHANGED vars
        \/ Register
    BY OthersBefore DEF Inv
  <2>2. OnItsWay
    BY DEF Inv, JoinInv, Joined
  <2>3. ~(Start \/ Timer \/ Connected)
    BY <2>2, StartBefore, TimerBefore, ConnectedBefore DEF Inv, Joined
  <2>4. ~UNCHANGED vars
    BY DEF Joined, vars, serverVars
  <2> QED BY <2>1, <2>3, <2>4 DEF Register
<1>11. Init => ~Joined
  BY <1>4 DEF Loading
<1>12. FairSpec /\ []CanJoin => <>Joined
  BY <1>8, <1>9, PTL
<1>13. FairSpec /\ <>Joined => <>(reader = "reading")
  BY <1>2, <1>3, <1>10, <1>11, PTL DEF Spec
<1> QED BY <1>12, <1>13, PTL DEF Joins
=============================================================================
