------------------------ MODULE MCReleaseCoalescing ------------------------
(***************************************************************************)
(* TLC instance of ReleaseCoalescing: two iterators share two pool workers *)
(* and have two responses each: the second release can arrive while the    *)
(* drain of the first is being submitted, queued, at the top of its loop,  *)
(* sending or leaving, and two drains of one iterator could run at once.   *)
(***************************************************************************)
EXTENDS ReleaseCoalescing
=============================================================================
