--------------------------- MODULE MCForwardBytes ---------------------------
(***************************************************************************)
(* TLC instance of ForwardBytes: frames of up to two bytes, so that a send *)
(* can be partial, two attempts, two consumers whose waits overlap, and a  *)
(* clock that covers the silence limit twice.                              *)
(***************************************************************************)
EXTENDS ForwardBytes
=============================================================================
