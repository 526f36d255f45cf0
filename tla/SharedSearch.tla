---------------------------- MODULE SharedSearch ----------------------------
(***************************************************************************)
(* What the search for a word promises, without iterators: the words are   *)
(* shared out in chunks, the words with one prefix; the prefixes are       *)
(* handed out in order, each to one browser, which tries the words of its  *)
(* chunk in some order, each of them once, and does not return before all  *)
(* of them are tried or the word is found.                                 *)
(***************************************************************************)
EXTENDS WordOrder

CONSTANTS
  Secrets,   \* the words that may be sought
  Browsers,  \* the browsers that search
  None       \* no prefix

VARIABLES
  handed,  \* the prefixes that have been handed out
  work,    \* the one each browser works on
  secret,  \* the word that is sought
  tested,  \* the words that have been tried
  found    \* the word of a browser's answer, if one found it

vars == <<handed, work, secret, tested, found>>

(* The words that are tried under a prefix: those of CHUNKLENGTH more      *)
(* letters, and the shorter ones too under the empty prefix                *)
Chunk(p) ==
  {p \o u : u \in UNION {Words(n) : n \in IF p = << >> THEN 1..ChunkLength
                                                        ELSE {ChunkLength}}}

(* The words up to p in their order                                        *)
UpTo(p) == {q \in UNION {Words(n) : n \in 0..Len(p)} : Before(q, p)}

Init ==
  /\ handed = {}
  /\ work = [b \in Browsers |-> None]
  /\ secret \in Secrets
  /\ tested = {}
  /\ found = {}

(* WordIterator.next of the server, for a browser that has no task: the    *)
(* prefix is new, and all before it have been handed out.                  *)
HandOut(b) ==
  /\ work[b] = None
  /\ found = {}
  /\ LET p == work'[b]
     IN  /\ p \in Seq(Letters) \ handed
         /\ UpTo(p) = handed \cup {p}
         /\ handed' = handed \cup {p}
         /\ work' = [work EXCEPT ![b] = p]
  /\ UNCHANGED <<secret, tested, found>>

(* A turn of the loop of md5cracker.map: some word of the chunk that       *)
(* nobody has tried.  The match ends it.                                   *)
Try(b) ==
  /\ work[b] # None
  /\ \E w \in Chunk(work[b]) \ tested :
       /\ tested' = tested \cup {w}
       /\ IF w = secret
          THEN found' = {w} /\ work' = [work EXCEPT ![b] = None]
          ELSE UNCHANGED <<found, work>>
  /\ UNCHANGED <<handed, secret>>

(* md5cracker.map returns without a match when the chunk is tried.         *)
Return(b) ==
  /\ work[b] # None
  /\ Chunk(work[b]) \subseteq tested
  /\ work' = [work EXCEPT ![b] = None]
  /\ UNCHANGED <<handed, secret, tested, found>>

Next == \E b \in Browsers : HandOut(b) \/ Try(b) \/ Return(b)

Spec == Init /\ [][Next]_vars
=============================================================================
