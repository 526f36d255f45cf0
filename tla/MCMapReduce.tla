---------------------------- MODULE MCMapReduce ----------------------------
(***************************************************************************)
(* Instances of MapReduce for TLC: two keys, two workers and lists of one  *)
(* to three jobs of the kinds the server runs.                             *)
(***************************************************************************)
EXTENDS MapReduce

CONSTANTS a, b, w1, w2

(* A reverse indexer, a job without reducing, an md5 search and a job that *)
(* reduces what its first answer gave                                      *)
Indexer(emits) == [mapOnly |-> FALSE, stopOnFirst |-> FALSE,
                   endless |-> FALSE, emit |-> emits]
MapOnly(emits) == [Indexer(emits) EXCEPT !.mapOnly = TRUE]
StopMap(emits) == [Indexer(emits) EXCEPT !.stopOnFirst = TRUE]
Search(emits)  == [MapOnly(emits) EXCEPT !.stopOnFirst = TRUE, !.endless = TRUE]

TwoIndexers == << Indexer(<<{a, b}, {a}>>), Indexer(<<{b}>>) >>
Searches    == << Search(<<{}, {a}>>), StopMap(<<{b}, {a}>>), MapOnly(<<{b}, {a}>>) >>
SearchThenIndex ==
  << Search(<<{a}>>), Indexer(<<{a, b}, {a}>>), Indexer(<<{b}>>) >>
AllKinds    == << Search(<<{}, {a}>>), Indexer(<<{a, b}, {a}>>), MapOnly(<<{b}>>) >>

Symmetry == Permutations(Workers)
=============================================================================
