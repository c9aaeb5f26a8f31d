---------------------------- MODULE MCTransTable ----------------------------
(* Instances of TransTable for TLC. *)
EXTENDS TransTable
=============================================================================
