---------------------------- MODULE ReleasePoint ----------------------------
(***************************************************************************)
(* What the coalesced ReleaseExecute(until) calls of a reattachable        *)
(* execution promise, with no threads, locks or pools: per iterator there  *)
(* is one release at a time, it names a response that the consumer has     *)
(* already been given, and every release goes further than the one before. *)
(* ReleaseCoalescing (client/reattach_patch.py) implements it.             *)
(***************************************************************************)
EXTENDS Naturals

CONSTANTS Iter,   \* the reattachable iterators of coalescing clients
          MaxId   \* bound: responses of one execution

VARIABLES
    returned,   \* [Iter -> 0..MaxId]  last response given to the consumer
    inflight,   \* [Iter -> 0..MaxId]  until-id of the release under way, or 0
    sent,       \* [Iter -> 0..MaxId]  until-id of the latest release sent
    released    \* [Iter -> 0..MaxId]  what the server has dropped

pvars == <<returned, inflight, sent, released>>

PInit ==
    /\ returned = [i \in Iter |-> 0]
    /\ inflight = [i \in Iter |-> 0]
    /\ sent     = [i \in Iter |-> 0]
    /\ released = [i \in Iter |-> 0]

\* The consumer is given one more response.
Return(i) ==
    /\ returned[i] < MaxId
    /\ returned' = [returned EXCEPT ![i] = @ + 1]
    /\ UNCHANGED <<inflight, sent, released>>

\* A release starts: none is under way, and it goes beyond the last one.
Start(i) ==
    /\ inflight[i] = 0
    /\ \E k \in 1..MaxId :
          /\ sent[i] < k
          /\ k <= returned[i]
          /\ inflight' = [inflight EXCEPT ![i] = k]
    /\ UNCHANGED <<returned, sent, released>>

\* It ends; a failed one may or may not have reached the server.
Finish(i) ==
    /\ inflight[i] # 0
    /\ sent' = [sent EXCEPT ![i] = inflight[i]]
    /\ released' \in {released, [released EXCEPT ![i] = inflight[i]]}
    /\ inflight' = [inflight EXCEPT ![i] = 0]
    /\ UNCHANGED returned

PNext == \E i \in Iter : Return(i) \/ Start(i) \/ Finish(i)

PSpec == PInit /\ [][PNext]_pvars
=============================================================================
