------------------------------ MODULE MCLogger ------------------------------
(***************************************************************************)
(* An instance of Logger for TLC: three threads, a list of three messages, *)
(* and more messages than the list can ever hold.                          *)
(***************************************************************************)
EXTENDS Logger, TLC

CONSTANTS t1, t2, t3

Symmetry == Permutations(Threads)
=============================================================================
