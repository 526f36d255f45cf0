----------------------------- MODULE MCRegistry -----------------------------
(***************************************************************************)
(* Instances of Registry for TLC: two volunteers, either of which may be   *)
(* reset or leave, and a request for the policy file.                      *)
(***************************************************************************)
EXTENDS Registry
CONSTANTS c1, c2, p

=============================================================================
