------------------------------ MODULE Scripts ------------------------------
(***************************************************************************)
(* What the scripts of the page compute.  kaliya.js loads the script of    *)
(* the job it was sent; here it runs md5 on a text (Md5), makes the index  *)
(* of some files (Indexer) or searches for a word (WordSearch), to the     *)
(* end and with nothing else to do.                                        *)
(***************************************************************************)
EXTENDS Md5

CONSTANTS
  Problems, Proto,                                       \* those of Indexer
  LAST, ChunkLength, MaxPrefix, Secrets, Browsers, None  \* those of WordSearch

VARIABLES
  script,                                   \* the script that runs
  problem, unread, groupBy, results,        \* those of Indexer
  charlist, emptyString, prefix, charList, secret, tested, found
                                            \* those of WordSearch

I == INSTANCE Indexer
S == INSTANCE WordSearch

ASSUME IndexAssumption == I!IndexerAssumption
ASSUME SearchAssumption == S!WordSearchAssumption

-----------------------------------------------------------------------------
indexVars  == <<problem, unread, groupBy, results>>
searchVars == <<charlist, emptyString, prefix, charList, secret, tested, found>>
scriptVars == <<script, vars, indexVars, searchVars>>

(* Of the scripts that do not run, nothing matters: one initial state each *)
ScriptInit ==
  /\ script \in {"md5", "reverseIndexer", "md5cracker"}
  /\ Init /\ (script # "md5" => s = CHOOSE t \in Texts : TRUE)
  /\ I!Init /\ (script # "reverseIndexer" => problem = CHOOSE p \in Problems : TRUE)
  /\ S!Init /\ (script # "md5cracker" => secret = CHOOSE w \in Secrets : TRUE)

Digest == script = "md5" /\ Next /\ UNCHANGED <<script, indexVars, searchVars>>
Index  == script = "reverseIndexer" /\ I!Next /\ UNCHANGED <<script, vars, searchVars>>
Search == script = "md5cracker" /\ S!Next /\ UNCHANGED <<script, vars, indexVars>>

ScriptNext == Digest \/ Index \/ Search

(* The browsers answer, and the server has a next prefix for them.         *)
ScriptSpec == ScriptInit /\ [][ScriptNext]_scriptVars /\ WF_searchVars(Search)

-----------------------------------------------------------------------------
(* Padded is defined in Md5; the others are those of the modules.          *)

(* Words stay words of 32 bits, letters stay letters of the alphabet.      *)
Types == TypeOK /\ S!TypeOK

(* See Indexer: the groups are those of the texts, whatever order the      *)
(* answers come in (map, normalizeText, addValues).                        *)
GroupsAreOfTheTexts == I!GroupsAreOfTheTexts

(* See Indexer: an entry lists the files that have its word, each once, and *)
(* in the end every word has one (reduce, addValues).                      *)
IndexIsExact == I!IndexIsExact

(* See WordSearch: no word is passed over by the two iterators (incr,      *)
(* increment, hasNext).                                                    *)
NoWordLeftOut == S!NoWordLeftOut

(* See WordSearch: the words are shared out as SharedSearch says (the two  *)
(* iterators, md5cracker.map).                                             *)
SharesTheWords == S!SharesTheWords

(* See WordSearch: the word is found when it is tried, and it is not       *)
(* passed over with nobody left who tries it (md5cracker.map).             *)
SecretIsNotPassed == S!SecretIsNotPassed

(* See WordSearch: no word is tried twice (WordIterator.next).             *)
NoWordTwice == S!NoWordTwice

(* See WordSearch: the search ends with the word (md5cracker.map).         *)
SecretIsFound == script = "md5cracker" => S!SecretIsFound
=============================================================================
