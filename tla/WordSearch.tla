----------------------------- MODULE WordSearch -----------------------------
(***************************************************************************)
(* The search for the word behind an md5 hash.  The server hands out       *)
(* prefixes in order (WordIterator.java); a browser tries the words that   *)
(* begin with its prefix (md5cracker.js): CHUNKLENGTH more letters, or up  *)
(* to CHUNKLENGTH letters when the prefix is empty.  How tasks travel, and *)
(* what happens when a browser is lost, is the subject of MapReduce.       *)
(***************************************************************************)
EXTENDS WordOrder, SequencesExt, FiniteSetsExt

CONSTANTS
  MaxPrefix,    \* bound: the longest prefix that is handed out
  Secrets,      \* the words that may be sought
  Browsers,     \* the browsers that search
  None          \* no prefix

WordSearchAssumption ==
  /\ LAST \in Nat
  /\ ChunkLength \in Nat \ {0}
  /\ MaxPrefix \in Nat
  /\ Secrets \subseteq UNION {[1..n -> 0..LAST] : n \in 1..MaxPrefix + ChunkLength}
  /\ None \notin Seq(0..LAST)

VARIABLES
  charlist,     \* m_charlist of the server's iterator
  emptyString,  \* m_emptyString: the empty prefix has been handed out
  prefix,       \* the value of the task each browser works on
  charList,     \* charList of its iterator, the last letter first
  secret,       \* the word that is sought
  tested,       \* history: the words that have been tried
  found         \* the word of a browser's answer, if one found it

serverVars == <<charlist, emptyString>>
vars == <<serverVars, prefix, charList, secret, tested, found>>

Init ==
  /\ charlist = << >>
  /\ emptyString = FALSE
  /\ prefix = [b \in Browsers |-> None]
  /\ charList = [b \in Browsers |-> << >>]
  /\ secret \in Secrets
  /\ tested = {}
  /\ found = {}

-----------------------------------------------------------------------------
(* Mutants: the carry leaves LAST where it was; a letter is raised once    *)
(* too often.                                                              *)
IncrKeepsLast(word) ==
  LET rest == {i \in DOMAIN word : word[i] # LAST}
  IN  IF rest = {}
      THEN [i \in 1..Len(word) + 1 |-> FIRST]
      ELSE [word EXCEPT ![Max(rest)] = @ + 1]
IncrPastLast(word) ==
  LET rest == {i \in DOMAIN word : word[i] <= LAST}
  IN  IF rest = {}
      THEN [i \in 1..Len(word) + 1 |-> FIRST]
      ELSE [word EXCEPT ![Max(rest)] = @ + 1]

(* WordIterator.incr of the server: the last letter that is not LAST is    *)
(* raised and those behind it start again; when there is none the word     *)
(* starts again one letter longer.                                         *)
Incr(word) ==
  LET rest == {i \in DOMAIN word : word[i] # LAST}
  IN  IF rest = {}
      THEN [i \in 1..Len(word) + 1 |-> FIRST]
      ELSE [i \in DOMAIN word |-> CASE i < Max(rest) -> word[i]
                                    [] i = Max(rest) -> word[i] + 1
                                    [] i > Max(rest) -> FIRST]

(* WordIterator.increment of the browser does the same from the other end. *)
Increment(list) == Reverse(Incr(Reverse(list)))

(* The constructor of the browser's WordIterator: the first next raises    *)
(* what begins one below FIRST.                                            *)
NewCharList(size) ==
  [i \in 1..size |-> IF i = 1 THEN FIRST - 1 ELSE FIRST]

(* Mutant: the browser stops at the first LAST.                            *)
HasNextNoLast(b) ==
  /\ Len(charList[b]) # ChunkLength + 1
  /\ \/ prefix[b] = << >> /\ Len(charList[b]) < ChunkLength
     \/ \A i \in DOMAIN charList[b] : charList[b][i] # LAST

(* WordIterator.hasNext of the browser                                     *)
HasNext(b) ==
  /\ Len(charList[b]) # ChunkLength + 1
  /\ \/ prefix[b] = << >> /\ Len(charList[b]) < ChunkLength
     \/ \E i \in DOMAIN charList[b] : charList[b][i] # LAST

-----------------------------------------------------------------------------
(* Mutant: the empty prefix is handed out again and again.                 *)
NextPrefixAgain(b) ==
  /\ prefix[b] = None
  /\ found = {}
  /\ prefix' = [prefix EXCEPT ![b] = charlist]
  /\ charList' = [charList EXCEPT ![b] = << >>]
  /\ UNCHANGED <<serverVars, secret, tested, found>>

(* The browser gets the next prefix of the server's iterator, unless a     *)
(* result has ended the search (MapReducer.run, WordIterator.next), and    *)
(* md5cracker.map makes its own iterator.                                  *)
NextPrefix(b) ==
  /\ prefix[b] = None
  /\ found = {}
  /\ charlist' = IF emptyString THEN Incr(charlist) ELSE charlist
  /\ Len(charlist') <= MaxPrefix
  /\ emptyString' = TRUE
  /\ prefix' = [prefix EXCEPT ![b] = charlist']
  /\ charList' = [charList EXCEPT ![b] =
                    NewCharList(IF charlist' = << >> THEN 0 ELSE ChunkLength)]
  /\ UNCHANGED <<secret, tested, found>>

(* One turn of the loop of md5cracker.map; it returns with the first match. *)
TestWord(b) ==
  /\ prefix[b] # None
  /\ HasNext(b)
  /\ charList' = [charList EXCEPT ![b] = Increment(@)]
  /\ LET word == prefix[b] \o Reverse(charList'[b])
     IN  /\ tested' = tested \cup {word}
         /\ IF word = secret
            THEN found' = {word} /\ prefix' = [prefix EXCEPT ![b] = None]
            ELSE UNCHANGED <<found, prefix>>
  /\ UNCHANGED <<serverVars, secret>>

(* It returns without a match.                                             *)
EndChunk(b) ==
  /\ prefix[b] # None
  /\ ~HasNext(b)
  /\ prefix' = [prefix EXCEPT ![b] = None]
  /\ UNCHANGED <<serverVars, charList, secret, tested, found>>

Next == \E b \in Browsers : NextPrefix(b) \/ TestWord(b) \/ EndChunk(b)

(* The browsers answer, and the server has a next prefix for them.         *)
Spec == Init /\ [][Next]_vars /\ WF_vars(Next)

-----------------------------------------------------------------------------
(* Properties.                                                             *)

TypeOK ==
  /\ charlist \in Seq(Letters)
  /\ emptyString \in BOOLEAN
  /\ \A b \in Browsers :
       /\ prefix[b] = None \/ prefix[b] \in Seq(Letters)
       /\ charList[b] \in Seq(Letters \cup {FIRST - 1})
  /\ \A w \in tested \cup found : w \in Seq(Letters) /\ w # << >>

(* No word is left out: as long as the search goes on, every word of a     *)
(* prefix up to the server's has been tried, or a browser is still working *)
(* on its prefix (the carries of incr and of increment, hasNext, and the   *)
(* chunk of the empty prefix with its words of every length).              *)
NoWordLeftOut ==
  emptyString /\ found = {} =>
    \A n \in 1..MaxPrefix + ChunkLength : \A word \in Words(n) :
      Before(PrefixOf(word), charlist) =>
        word \in tested \/ \E b \in Browsers : prefix[b] = PrefixOf(word)

(* The prefixes that the server's iterator has handed out                  *)
Handed ==
  IF emptyString
  THEN {p \in UNION {Words(n) : n \in 0..Len(charlist)} : Before(p, charlist)}
  ELSE {}

Shared == INSTANCE SharedSearch WITH handed <- Handed, work <- prefix

(* The search keeps to SharedSearch: the two iterators take every prefix,  *)
(* and under it every word, once and in turn, whatever browsers do at the  *)
(* same time (incr, increment, hasNext, next, md5cracker.map).             *)
SharesTheWords == Shared!Spec

(* No word is tried twice, by the same browser or by two (the chunks of    *)
(* the server's iterator do not overlap).                                  *)
NoWordTwice == [][\A b \in Browsers : TestWord(b) => tested' # tested]_vars

(* What ends the search is the word: it is found when it is tried, and the *)
(* prefixes do not go past it with nobody left who tries it (the answer    *)
(* of md5cracker.map that ends the job).                                   *)
SecretIsNotPassed ==
  /\ found = tested \cap {secret}
  /\ emptyString /\ Before(PrefixOf(secret), charlist) =>
       found = {secret} \/ \E b \in Browsers : prefix[b] = PrefixOf(secret)

(* A search ends: the word is found when it is written in the alphabet.    *)
(* (md5cracker.js, WordIterator.java: the answer that ends the job.)       *)
SecretIsFound == <>(found = {secret})
=============================================================================
