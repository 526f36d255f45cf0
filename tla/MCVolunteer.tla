---------------------------- MODULE MCVolunteer ----------------------------
(***************************************************************************)
(* Instances of Volunteer for TLC: with every fault, with none, and with   *)
(* one at a time.                                                          *)
(***************************************************************************)
EXTENDS Volunteer
=============================================================================
