------------------------------ MODULE Indexer ------------------------------
(***************************************************************************)
(* The reverse index of some files (reverseIndexer.js): map cuts a text    *)
(* into words and names its file for each of them, the server groups the   *)
(* names by word as the answers come, and reduce lists each file once.     *)
(*                                                                         *)
(* A character is its code.  Each call of map and of reduce is a step, in  *)
(* whatever order the volunteers answer.  How the tasks travel, and which  *)
(* of them are lost, is the subject of MapReduce; here none is.            *)
(***************************************************************************)
EXTENDS Integers, Sequences, SequencesExt

CONSTANTS
  Problems,  \* the lists of files, each with its name and its text
  Proto      \* the name that is no name of a property of an object

(* The files are finite in number.  Of all characters, only two that are   *)
(* not in 65..90 become letters of a..z when they are made lower case.     *)
Characters == Nat \ {304, 8490}

IndexerAssumption ==
  \A p \in Problems :
    IsFiniteSet(DOMAIN p) /\ \A f \in DOMAIN p : p[f].value \in Seq(Characters)

VARIABLES
  problem,   \* the files of the job
  unread,    \* the files whose answer has not come
  groupBy,   \* m_groupBy: the names that were sent for each word, in order
  results    \* m_results

vars == <<problem, unread, groupBy, results>>

-----------------------------------------------------------------------------
(* The functions of the page.                                              *)

SPACE == 32

LowerCase(c)  == IF c \in 65..90 THEN c + 32 ELSE c
IsLetter(c)   == c \in 97..122

(* Mutant: each character that is not a letter becomes a space.            *)
NormalizeEach(s) ==
  [n \in DOMAIN s |-> IF IsLetter(LowerCase(s[n])) THEN LowerCase(s[n]) ELSE SPACE]

(* Lower case, and a space for each run of characters that are no letters  *)
NextCharacter(t, c) ==
  IF IsLetter(LowerCase(c)) THEN Append(t, LowerCase(c))
  ELSE IF t # << >> /\ Last(t) = SPACE THEN t
  ELSE Append(t, SPACE)

normalizeText(s) == FoldLeft(NextCharacter, << >>, s)

(* split(' '): a space ends a word, and the empty word is one.             *)
SplitAt(words, c) ==
  IF c = SPACE THEN Append(words, << >>)
  ELSE [words EXCEPT ![Len(words)] = Append(@, c)]

Split(s) == FoldLeft(SplitAt, << << >> >>, s)

map(key, value) ==
  LET words == Split(normalizeText(value))
  IN  [n \in DOMAIN words |-> [key |-> words[n], value |-> key]]

(* Mutant: the names are listed as they came.                              *)
reduceAll(key, values) == {[key |-> key, value |-> values]}

(* The names are made properties of an object and listed in the order of   *)
(* the browser.  An assignment to Proto does not make a property.          *)
reduce(key, values) ==
  LET filesSet == ToSet(values) \ {Proto}
  IN  {[key |-> key, value |-> files] : files \in SetToSeqs(filesSet)}

-----------------------------------------------------------------------------
(* MapReducer.addValues: the values of a key in the order they came        *)
AddValue(groups, pair) ==
  LET values == IF pair.key \in DOMAIN groups THEN groups[pair.key] ELSE << >>
  IN  [k \in DOMAIN groups \cup {pair.key} |->
         IF k = pair.key THEN Append(values, pair.value) ELSE groups[k]]

addValues(groups, pairs) == FoldLeft(AddValue, groups, pairs)

Init ==
  /\ problem \in Problems
  /\ unread = DOMAIN problem
  /\ groupBy = << >>
  /\ results = {}

(* A volunteer's answer to the map task of file f                          *)
MapFile(f) ==
  /\ f \in unread
  /\ groupBy' = addValues(groupBy, map(problem[f].key, problem[f].value))
  /\ unread' = unread \ {f}
  /\ UNCHANGED <<problem, results>>

(* A volunteer's answer to the reduce task of word k; the tasks are sent   *)
(* when every file has been read.                                          *)
ReduceWord(k) ==
  /\ unread = {}
  /\ \A r \in results : r.key # k
  /\ \E r \in reduce(k, groupBy[k]) : results' = results \cup {r}
  /\ UNCHANGED <<problem, unread, groupBy>>

Next ==
  \/ \E f \in unread : MapFile(f)
  \/ \E k \in DOMAIN groupBy : ReduceWord(k)

Spec == Init /\ [][Next]_vars

-----------------------------------------------------------------------------
(* Properties.                                                             *)

(* The words of a text, said without normalizeText and split: its runs of  *)
(* letters that no other letter is next to, and the empty word when there  *)
(* is no letter at an end of it.                                           *)
LetterAt(text, n) == n \in DOMAIN text /\ IsLetter(LowerCase(text[n]))

Runs(text) ==
  {run \in (1..Len(text)) \X (1..Len(text)) :
     /\ run[1] <= run[2]
     /\ \A n \in run[1]..run[2] : LetterAt(text, n)
     /\ ~LetterAt(text, run[1] - 1) /\ ~LetterAt(text, run[2] + 1)}

Spelled(text, run) ==
  [n \in 1..run[2] - run[1] + 1 |-> LowerCase(text[run[1] + n - 1])]

WordsOf(text) ==
  {Spelled(text, run) : run \in Runs(text)} \cup
  (IF LetterAt(text, 1) /\ LetterAt(text, Len(text)) THEN {} ELSE {<< >>})

(* Every group has been reduced.                                           *)
Over == unread = {} /\ \A k \in DOMAIN groupBy : \E r \in results : r.key = k

Having(k, files) == {f \in files : k \in WordsOf(problem[f].value)}
NamesOf(files)   == {problem[f].key : f \in files}

(* While the answers come, in any order and with names that occur twice or *)
(* not, there is a group for each word read so far; the names in it are    *)
(* those of the files that have the word, once for each place it stands    *)
(* at: map makes no other word of a text, and merging the next answer      *)
(* loses none and doubles none (map, addValues).                           *)
GroupsAreOfTheTexts ==
  LET read == DOMAIN problem \ unread
      places(k) == UNION {{f} \X {run \in Runs(problem[f].value) :
                                    Spelled(problem[f].value, run) = k} : f \in read}
  IN  /\ DOMAIN groupBy = UNION {WordsOf(problem[f].value) : f \in read}
      /\ \A k \in DOMAIN groupBy :
           /\ ToSet(groupBy[k]) = NamesOf(Having(k, read))
           /\ k # << >> => Len(groupBy[k]) = Cardinality(places(k))

(* The entry of a word lists the files that have it, each of them once,    *)
(* whatever order the names came in; only a file named Proto is left out.  *)
(* In the end every word of every file has an entry (reduce, addValues).   *)
IndexIsExact ==
  /\ \A r \in results :
       /\ ToSet(r.value) = NamesOf(Having(r.key, DOMAIN problem)) \ {Proto}
       /\ Cardinality(ToSet(r.value)) = Len(r.value)
  /\ Over =>
       {r.key : r \in results} = UNION {WordsOf(problem[f].value) : f \in DOMAIN problem}
=============================================================================
