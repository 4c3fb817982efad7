------------------------------ MODULE MCProxy ------------------------------
(***************************************************************************)
(* TLC instance of Proxy: two connections, so that one can be accepted,    *)
(* opening or failing while the other one forwards, and one stop().        *)
(***************************************************************************)
EXTENDS Proxy
=============================================================================
