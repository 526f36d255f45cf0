------------------------------ MODULE MCServer ------------------------------
(***************************************************************************)
(* An instance of Server for TLC: three clients, so that the third gets    *)
(* the id of the second, whose browser may stop to read, when the first    *)
(* has left.                                                               *)
(***************************************************************************)
EXTENDS Server
=============================================================================
