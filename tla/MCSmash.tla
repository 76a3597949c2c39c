------------------------------ MODULE MCSmash -------------------------------
(* Instances of Smash for TLC. *)
EXTENDS Smash
=============================================================================
