---------------------------- MODULE MCQueryReplay ----------------------------
(***************************************************************************)
(* TLC instance of QueryReplay.                                            *)
(***************************************************************************)
EXTENDS QueryReplay
=============================================================================
