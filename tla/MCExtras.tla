------------------------------ MODULE MCExtras ------------------------------
(***************************************************************************)
(* TLC instance of Extras: no bound is needed, its state space is finite.  *)
(***************************************************************************)
EXTENDS Extras
=============================================================================
