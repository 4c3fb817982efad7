--------------------------- MODULE MCLivenessGuard ---------------------------
(***************************************************************************)
(* TLC instance of LivenessGuard.                                          *)
(***************************************************************************)
EXTENDS LivenessGuard
=============================================================================
