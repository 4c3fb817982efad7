-------------------------- MODULE MCStreamingCall --------------------------
(***************************************************************************)
(* TLC instance of StreamingCall: a consumer, one other thread that        *)
(* cancels and gRPC's thread, so that three threads can record the status  *)
(* and two can finish the two layers in either order; two responses, so    *)
(* that one of them is not the first.                                      *)
(***************************************************************************)
EXTENDS StreamingCall
=============================================================================
