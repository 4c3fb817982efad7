------------------------- MODULE ReleaseCoalescing -------------------------
(***************************************************************************)
(* client/reattach_patch.py, install_release_coalescing: instead of one    *)
(* ReleaseExecute(until) RPC per response, an iterator keeps only the      *)
(* latest response id that is not yet sent and at most one "drain" task in *)
(* pyspark's shared thread pool, which sends what is pending until nothing *)
(* is left.                                                                *)
(*                                                                         *)
(* Threads: the consuming thread of every iterator (_release_until runs in *)
(* it) and the workers of the pool (_drain_releases runs in them).         *)
(* The response ids of an execution are numbered 1..MaxId in the order the *)
(* consumer is given them; 0 is Python's None.  Iterators whose stub is    *)
(* not in _COALESCED_STUBS run pyspark's own code and are not in Iter.     *)
(***************************************************************************)
EXTENDS Naturals

CONSTANTS Iter,     \* the reattachable iterators of coalescing clients
          Worker,   \* the threads of pyspark's release pool
          MaxId,    \* bound: responses of one execution
          NoIter    \* a worker that runs no drain

ASSUME ReleaseAssumption == MaxId \in Nat /\ NoIter \notin Iter

NoId == 0           \* next_id is None

VARIABLES
    returned,   \* [Iter -> 0..MaxId]  it._last_returned_response_id
    complete,   \* [Iter -> BOOLEAN]   it._result_complete
    nextId,     \* [Iter -> 0..MaxId]  _ReleaseState.next_id
    busy,       \* [Iter -> BOOLEAN]   _ReleaseState.busy
    cons,       \* [Iter -> CPc]       where the consuming thread is
    skipped,    \* [Iter -> BOOLEAN]   the pool refused the latest release
    queued,     \* [Iter -> Nat]       drains of the iterator waiting in the pool
    wit,        \* [Worker -> Iter \cup {NoIter}]  the drain a worker runs
    wuntil,     \* [Worker -> 0..MaxId]  its until_id, 0 at the top of the loop
    sent,       \* [Iter -> 0..MaxId]  until-id of the latest release sent
    released,   \* [Iter -> 0..MaxId]  what the server has dropped
    pool,       \* state of the class-wide release pool
    eager       \* pyspark <= 4.1: the pool comes with the first iterator

vars == <<returned, complete, nextId, busy, cons, skipped, queued, wit, wuntil,
          sent, released, pool, eager>>

\* "run": outside _release_until; "call": send() got a response and is about to
\* enter it; "store": the execution was not over, the id is not stored yet;
\* "submit": busy is set, the drain is not submitted yet; "refused": the pool did
\* not take it, busy is still set.
CPc == {"run", "call", "store", "submit", "refused"}

\* "none": the instance is None; "down": shut down, the instance still there.
Pool == {"none", "open", "down"}

Init ==
    /\ returned = [i \in Iter |-> 0]
    /\ complete = [i \in Iter |-> FALSE]
    /\ nextId   = [i \in Iter |-> NoId]
    /\ busy     = [i \in Iter |-> FALSE]
    /\ cons     = [i \in Iter |-> "run"]
    /\ skipped  = [i \in Iter |-> FALSE]
    /\ queued   = [i \in Iter |-> 0]
    /\ wit      = [w \in Worker |-> NoIter]
    /\ wuntil   = [w \in Worker |-> NoId]
    /\ sent     = [i \in Iter |-> 0]
    /\ released = [i \in Iter |-> 0]
    /\ eager \in BOOLEAN
    /\ pool = IF eager THEN "open" ELSE "none"

(***************************************************************************)
(* The consuming thread.                                                   *)
(***************************************************************************)

\* pyspark's send(): the next response is recorded as returned and
\* _release_until is called with its id.
Send(i) ==
    /\ cons[i] = "run"
    /\ ~complete[i]
    /\ returned[i] < MaxId
    /\ returned' = [returned EXCEPT ![i] = @ + 1]
    /\ cons' = [cons EXCEPT ![i] = "call"]
    /\ UNCHANGED <<complete, nextId, busy, skipped, queued, wit, wuntil, sent,
                   released, pool, eager>>

\* pyspark's _release_all: the execution is over, successfully or not, or the
\* iterator is closed, which another thread may do at any time.  The server
\* releases everything.
ReleaseAll(i) ==
    /\ ~complete[i]
    /\ complete' = [complete EXCEPT ![i] = TRUE]
    /\ UNCHANGED <<returned, nextId, busy, cons, skipped, queued, wit, wuntil,
                   sent, released, pool, eager>>

\* Mutant: busy is set but not looked at.
ReleaseUntilAlwaysSubmits(i) ==
    /\ cons[i] = "store"
    /\ nextId' = [nextId EXCEPT ![i] = returned[i]]
    /\ busy' = [busy EXCEPT ![i] = TRUE]
    /\ cons' = [cons EXCEPT ![i] = "submit"]
    /\ UNCHANGED <<returned, complete, skipped, queued, wit, wuntil, sent,
                   released, pool, eager>>

\* Mutant: the busy check comes before next_id is stored.
ReleaseUntilChecksFirst(i) ==
    /\ cons[i] = "store"
    /\ nextId' = IF busy[i] THEN nextId ELSE [nextId EXCEPT ![i] = returned[i]]
    /\ busy' = [busy EXCEPT ![i] = TRUE]
    /\ cons' = [cons EXCEPT ![i] = IF busy[i] THEN "run" ELSE "submit"]
    /\ UNCHANGED <<returned, complete, skipped, queued, wit, wuntil, sent,
                   released, pool, eager>>

\* _result_complete is looked at without the lock, so it may be set right after.
CheckComplete(i) ==
    /\ cons[i] = "call"
    /\ cons' = [cons EXCEPT ![i] = IF complete[i] THEN "run" ELSE "store"]
    /\ UNCHANGED <<returned, complete, nextId, busy, skipped, queued, wit, wuntil,
                   sent, released, pool, eager>>

\* The first locked block of _release_until.
ReleaseUntil(i) ==
    /\ cons[i] = "store"
    /\ nextId' = [nextId EXCEPT ![i] = returned[i]]
    /\ skipped' = [skipped EXCEPT ![i] = FALSE]
    /\ busy' = [busy EXCEPT ![i] = TRUE]
    /\ cons' = [cons EXCEPT ![i] = IF busy[i] THEN "run" ELSE "submit"]
    /\ UNCHANGED <<returned, complete, queued, wit, wuntil, sent, released,
                   pool, eager>>

\* The submission, under the iterator class's lock: an eager pool that is gone
\* is not recreated, and a pool that is shut down raises RuntimeError.
Submit(i) ==
    /\ cons[i] = "submit"
    /\ IF pool = "open" \/ (pool = "none" /\ ~eager)
       THEN /\ queued' = [queued EXCEPT ![i] = @ + 1]
            /\ cons' = [cons EXCEPT ![i] = "run"]
            /\ pool' = "open"
       ELSE /\ cons' = [cons EXCEPT ![i] = "refused"]
            /\ UNCHANGED <<queued, pool>>
    /\ UNCHANGED <<returned, complete, nextId, busy, skipped, wit, wuntil, sent,
                   released, eager>>

\* Mutant: busy is not reset when the drain could not be scheduled.
RefusedKeepsBusy(i) ==
    /\ cons[i] = "refused"
    /\ skipped' = [skipped EXCEPT ![i] = TRUE]
    /\ cons' = [cons EXCEPT ![i] = "run"]
    /\ UNCHANGED <<returned, complete, nextId, busy, queued, wit, wuntil, sent,
                   released, pool, eager>>

\* The last locked block of _release_until: the drain could not be scheduled.
Refused(i) ==
    /\ cons[i] = "refused"
    /\ busy' = [busy EXCEPT ![i] = FALSE]
    /\ skipped' = [skipped EXCEPT ![i] = TRUE]
    /\ cons' = [cons EXCEPT ![i] = "run"]
    /\ UNCHANGED <<returned, complete, nextId, queued, wit, wuntil, sent,
                   released, pool, eager>>

(***************************************************************************)
(* The pool and its workers.                                               *)
(***************************************************************************)

\* A worker takes a queued drain.
PickUp(w, i) ==
    /\ wit[w] = NoIter
    /\ queued[i] > 0
    /\ queued' = [queued EXCEPT ![i] = @ - 1]
    /\ wit' = [wit EXCEPT ![w] = i]
    /\ wuntil' = [wuntil EXCEPT ![w] = NoId]
    /\ UNCHANGED <<returned, complete, nextId, busy, cons, skipped, sent,
                   released, pool, eager>>

\* The locked block at the top of _drain_releases' loop.
DrainTake(w, i) ==
    /\ wit[w] = i
    /\ wuntil[w] = NoId
    /\ nextId' = [nextId EXCEPT ![i] = NoId]
    /\ IF nextId[i] = NoId \/ complete[i]
       THEN /\ busy' = [busy EXCEPT ![i] = FALSE]
            /\ wit' = [wit EXCEPT ![w] = NoIter]
            /\ UNCHANGED wuntil
       ELSE /\ wuntil' = [wuntil EXCEPT ![w] = nextId[i]]
            /\ UNCHANGED <<busy, wit>>
    /\ UNCHANGED <<returned, complete, cons, skipped, queued, sent, released,
                   pool, eager>>

\* Mutant: one release per drain, then busy is reset and the drain ends.
DrainSendOnce(w, i) ==
    /\ wit[w] = i
    /\ wuntil[w] # NoId
    /\ sent' = [sent EXCEPT ![i] = wuntil[w]]
    /\ released' = [released EXCEPT ![i] = wuntil[w]]
    /\ wuntil' = [wuntil EXCEPT ![w] = NoId]
    /\ wit' = [wit EXCEPT ![w] = NoIter]
    /\ busy' = [busy EXCEPT ![i] = FALSE]
    /\ UNCHANGED <<returned, complete, nextId, cons, skipped, queued, pool, eager>>

\* Mutant: a failed release is put back as the pending one.
DrainSendPutsBack(w, i) ==
    /\ wit[w] = i
    /\ wuntil[w] # NoId
    /\ sent' = [sent EXCEPT ![i] = wuntil[w]]
    /\ nextId' = [nextId EXCEPT ![i] = wuntil[w]]
    /\ wuntil' = [wuntil EXCEPT ![w] = NoId]
    /\ UNCHANGED <<returned, complete, busy, cons, skipped, queued, wit, released,
                   pool, eager>>

\* The RPC with its retries; a failure is logged and the loop goes on, and a
\* failed call may still have reached the server.
DrainSend(w, i) ==
    /\ wit[w] = i
    /\ wuntil[w] # NoId
    /\ sent' = [sent EXCEPT ![i] = wuntil[w]]
    /\ released' \in {released, [released EXCEPT ![i] = wuntil[w]]}
    /\ wuntil' = [wuntil EXCEPT ![w] = NoId]
    /\ UNCHANGED <<returned, complete, nextId, busy, cons, skipped, queued, wit,
                   pool, eager>>

\* The pool goes away: shutdown() of the iterator class clears the instance
\* ("none"), interpreter exit leaves a pool that refuses work ("down").  Drains
\* already submitted still run.
PoolShutdown ==
    /\ pool = "open"
    /\ pool' \in {"none", "down"}
    /\ UNCHANGED <<returned, complete, nextId, busy, cons, skipped, queued, wit,
                   wuntil, sent, released, eager>>

\* A new iterator of an eager pyspark brings the pool back.
PoolCreate ==
    /\ eager
    /\ pool = "none"
    /\ pool' = "open"
    /\ UNCHANGED <<returned, complete, nextId, busy, cons, skipped, queued, wit,
                   wuntil, sent, released, eager>>

Consumer(i) == CheckComplete(i) \/ ReleaseUntil(i) \/ Submit(i) \/ Refused(i)

Drain(w) == \E i \in Iter : PickUp(w, i) \/ DrainTake(w, i) \/ DrainSend(w, i)

Next ==
    \/ \E i \in Iter : Send(i) \/ ReleaseAll(i) \/ Consumer(i)
    \/ \E w \in Worker : Drain(w)
    \/ PoolShutdown
    \/ PoolCreate

\* A thread inside _release_until or a drain keeps running: its locks are held
\* for a few assignments and the RPC's retries are bounded.
Fairness ==
    /\ \A i \in Iter : WF_vars(Consumer(i))
    /\ \A w \in Worker : WF_vars(Drain(w))

Spec == Init /\ [][Next]_vars

FairSpec == Spec /\ Fairness

-----------------------------------------------------------------------------

\* Every variable of the release bookkeeping has its type.
TypeOK ==
    /\ returned \in [Iter -> 0..MaxId]
    /\ complete \in [Iter -> BOOLEAN]
    /\ nextId \in [Iter -> 0..MaxId]
    /\ busy \in [Iter -> BOOLEAN]
    /\ cons \in [Iter -> CPc]
    /\ skipped \in [Iter -> BOOLEAN]
    /\ queued \in [Iter -> Nat]
    /\ wit \in [Worker -> Iter \cup {NoIter}]
    /\ wuntil \in [Worker -> 0..MaxId]
    /\ sent \in [Iter -> 0..MaxId]
    /\ released \in [Iter -> 0..MaxId]
    /\ pool \in Pool
    /\ eager \in BOOLEAN

\* _ReleaseState.busy means exactly what its comment says, "A drain is
\* scheduled or running": an iterator never has two drains (in the consumer's
\* hands, queued or running), and busy is set while it has one.
OneDrain ==
    \A i \in Iter :
        /\ cons[i] \in {"submit", "refused"} =>
               busy[i] /\ queued[i] = 0 /\ \A w \in Worker : wit[w] # i
        /\ queued[i] > 0 =>
               busy[i] /\ queued[i] = 1 /\ \A w \in Worker : wit[w] # i
        /\ \A w \in Worker : wit[w] = i =>
               busy[i] /\ \A v \in Worker : wit[v] = i => v = w

\* No lost wake-up: a release that is pending while nothing is set to send it
\* is one the pool refused, never one that a drain missed on its way out.
NoLostRelease ==
    \A i \in Iter : nextId[i] # NoId => busy[i] \/ skipped[i]

\* And busy is not left behind: somebody who will clear it is on the way.
BusyHasOwner ==
    \A i \in Iter : busy[i] =>
        \/ cons[i] \in {"submit", "refused"}
        \/ queued[i] > 0
        \/ \E w \in Worker : wit[w] = i

\* Every ReleaseExecute of an iterator goes further than the one before: no
\* drain repeats an id, and none sends a stale id after a newer one.
ReleasesAdvance ==
    [][\A w \in Worker : \A i \in Iter :
          wit[w] = i /\ wuntil[w] # NoId /\ wuntil'[w] = NoId
              => sent'[i] > sent[i]]_vars

\* Every response given to the consumer is released, by its own release or a
\* later one, unless the execution completes or the pool is gone.
ReleaseReachesServer ==
    \A i \in Iter : \A k \in 1..MaxId :
        (returned[i] = k) ~> (sent[i] >= k \/ complete[i] \/ skipped[i])

\* The until-id of the release an iterator has under way, 0 if there is none.
Inflight ==
    [i \in Iter |->
        IF \E w \in Worker : wit[w] = i /\ wuntil[w] # NoId
        THEN wuntil[CHOOSE w \in Worker : wit[w] = i /\ wuntil[w] # NoId]
        ELSE 0]

RP == INSTANCE ReleasePoint WITH inflight <- Inflight

\* The coalescing implements the sequential release point.
Refinement == RP!PSpec
=============================================================================
