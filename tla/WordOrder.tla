------------------------------ MODULE WordOrder ------------------------------
(***************************************************************************)
(* The words that the search for a word goes through, and their order.  A  *)
(* word is a sequence of letters, a letter a number: FIRST is 0 (the       *)
(* character 0) and LAST is z.                                             *)
(***************************************************************************)
EXTENDS Integers, Sequences

CONSTANTS
  LAST,         \* LAST
  ChunkLength   \* CHUNKLENGTH

FIRST    == 0
Letters  == FIRST..LAST
Words(n) == [1..n -> Letters]

(* The prefix under which a word is tried: all but the last CHUNKLENGTH    *)
(* letters.                                                                *)
PrefixOf(word) ==
  SubSeq(word, 1, IF Len(word) <= ChunkLength THEN 0 ELSE Len(word) - ChunkLength)

(* Shorter words first, words of one length in the order of the alphabet   *)
Before(u, v) ==
  \/ Len(u) < Len(v)
  \/ /\ Len(u) = Len(v)
     /\ \/ u = v
        \/ \E i \in DOMAIN u : /\ u[i] < v[i]
                               /\ \A k \in 1..i - 1 : u[k] = v[k]
=============================================================================
