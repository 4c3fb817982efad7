----------------------------- MODULE QueryReplay -----------------------------
(***************************************************************************)
(* client/reattach_patch.py and session.py: queries of several threads on  *)
(* one client.  A query whose reattach position the server has lost is run *)
(* once more under a new operation id; every operation may open a progress *)
(* bar in a dictionary that all threads share under ManagedSparkSession's  *)
(* lock, which getOrCreate() and stop() hold for as long as they run.      *)
(*                                                                         *)
(* pyspark is external: it calls the progress handlers from the thread     *)
(* that reads the stream, one after the other, the last time with          *)
(* done=True when the stream has ended in whatever way.  Task counts       *)
(* matter only in being zero or not.  An interrupt is modelled while the   *)
(* stream is read, not inside the clean-up that follows it.                *)
(***************************************************************************)
EXTENDS Naturals, FiniteSets

CONSTANTS
    Query,       \* calls of _execute_and_fetch or of its iterator variant
    MaxUpdates,  \* bound: progress messages of one query
    MaxHolds,    \* bound: getOrCreate() and stop() calls of other threads
    MaxClears    \* bound: clearProgressHandlers() calls of other threads

ASSUME QueryAssumption ==
    MaxUpdates \in Nat /\ MaxHolds \in Nat /\ MaxClears \in Nat

VARIABLES
    plan,      \* [Query -> Plan]      the request
    enabled,   \* MANAGED_SPARK_CONNECT_REPLAY_ON_POSITION_LOST
    c,         \* [Query -> Call]      the call's thread
    bars,      \* set of operations    _execution_progress_bar
    handlers,  \* the client's progress handlers, all of them ours
    clearing,  \* clearProgressHandlers() calls between clear and register
    clears,    \* clearProgressHandlers() calls so far
    lock,      \* "free" | "held"      ManagedSparkSession._lock, by a session call
    holds,     \* session calls so far
    closed,    \* the client is closed
    runs       \* [Query -> Nat]       executions the server was asked for

vars == <<plan, enabled, c, bars, handlers, clearing, clears, lock, holds,
          closed, runs>>

\* fetch: _execute_and_fetch; otherwise the iterator of toLocalIterator().
Plan == [kind : {"root", "command"}, code : BOOLEAN, fetch : BOOLEAN]

Op == Query \X {1, 2}

Outcome == {"none", "ok", "lost", "error", "interrupt"}

CallPc == {"idle", "stream", "notify", "exit", "ended", "closeOld", "closeNew",
           "closeReq", "done"}

Call == [pc : CallPc, att : {1, 2}, out : Outcome, tasks : BOOLEAN, upd : 0..MaxUpdates,
         idx : 1..(MaxClears + 2)]

Init ==
    /\ plan \in [Query -> Plan]
    /\ enabled \in BOOLEAN
    /\ c = [q \in Query |-> [pc |-> "idle", att |-> 1, out |-> "none", tasks |-> FALSE,
                             upd |-> 0, idx |-> 1]]
    /\ bars = {}
    /\ handlers = 1
    /\ clearing = 0 /\ clears = 0
    /\ lock = "free" /\ holds = 0
    /\ closed = FALSE
    /\ runs = [q \in Query |-> 0]

\* The operation the call is running.
CurOp(q) == <<q, c[q].att>>

\* Mutant: commands are looked at, inline user code is not.
RunsAgainWithCode(q) == enabled /\ plan[q].kind = "root"

\* The condition under which the replay hook runs the query once more.
RunsAgain(q) == enabled /\ plan[q].kind = "root" /\ ~plan[q].code

\* The server is asked for one more execution, if the client can still send.
Ask(q) == runs' = IF closed THEN runs ELSE [runs EXCEPT ![q] = @ + 1]

Quiet == UNCHANGED <<plan, enabled, handlers, clearing, clears, lock, holds, closed>>

(***************************************************************************)
(* pyspark's fetch loop.                                                   *)
(***************************************************************************)

\* The call begins: the hooks give the request an operation id, show its link
\* and start the stream.
Execute(q) ==
    /\ c[q].pc = "idle" /\ ~closed
    /\ c' = [c EXCEPT ![q].pc = "stream"]
    /\ Ask(q)
    /\ UNCHANGED bars /\ Quiet

\* A progress message: the handlers are about to be called.
Progress(q) ==
    /\ c[q].pc = "stream" /\ ~closed
    /\ c[q].upd < MaxUpdates
    /\ \E t \in BOOLEAN :
          c' = [c EXCEPT ![q] = [@ EXCEPT !.pc = "notify", !.idx = 1,
                                          !.upd = c[q].upd + 1, !.tasks = t]]
    /\ UNCHANGED <<bars, runs>> /\ Quiet

\* The stream ends and Progress.__exit__ is about to report done=True.
EndStream(q) ==
    /\ c[q].pc = "stream"
    /\ \E o \in (IF closed THEN {"error", "interrupt"} ELSE Outcome \ {"none"}) :
          c' = [c EXCEPT ![q] = [@ EXCEPT !.pc = "exit", !.idx = 1, !.out = o]]
    /\ UNCHANGED <<bars, runs>> /\ Quiet

\* One call of our progress handler.  Without tasks it returns at once; with
\* tasks it opens, updates or, when done, closes the bar, under the lock.
Handler(q) ==
    /\ c[q].pc \in {"notify", "exit"}
    /\ c[q].idx <= handlers
    /\ IF c[q].tasks
       THEN /\ lock = "free"
            /\ bars' = IF c[q].pc = "exit" THEN bars \ {CurOp(q)}
                       ELSE bars \cup {CurOp(q)}
       ELSE UNCHANGED bars
    /\ c' = [c EXCEPT ![q].idx = @ + 1]
    /\ UNCHANGED runs /\ Quiet

\* All handlers that are registered were called.
Notified(q) ==
    /\ c[q].pc \in {"notify", "exit"}
    /\ c[q].idx > handlers
    /\ c' = [c EXCEPT ![q].pc = IF @ = "notify" THEN "stream" ELSE "ended"]
    /\ UNCHANGED <<bars, runs>> /\ Quiet

(***************************************************************************)
(* The hooks around it, innermost first: the replay, then the closing of   *)
(* the bar.  The iterator variant has neither.                             *)
(***************************************************************************)

\* _close_progress_bar, which does nothing if the operation has none.
CloseBar(op) == lock = "free" /\ bars' = bars \ {op}

\* What the replay hook does with the end of an attempt: only the first loss of
\* the position of a plan that may run again leads to a second attempt.  An
\* interrupt is not an Exception and passes through.
ReplayHook(q) ==
    /\ c[q].pc = "ended"
    /\ LET lost == c[q].out = "lost"
           next == IF ~plan[q].fetch THEN "done"
                   ELSE IF c[q].att = 2 THEN "closeNew"
                   ELSE IF lost /\ RunsAgain(q) THEN "closeOld" ELSE "closeReq"
       IN c' = [c EXCEPT ![q].pc = next]
    /\ UNCHANGED <<bars, runs>> /\ Quiet

\* The abandoned operation's bar is closed and the copy of the request, with a
\* new operation id and without reattach options, is run.
Replay(q) ==
    /\ c[q].pc = "closeOld" /\ CloseBar(CurOp(q))
    /\ c' = [c EXCEPT ![q] = [@ EXCEPT !.pc = "stream", !.att = 2, !.out = "none",
                                       !.tasks = FALSE]]
    /\ Ask(q) /\ Quiet

\* Mutant: the finally of the replay closes the bar of the caller's request.
CloseNewClosesOld(q) ==
    /\ c[q].pc = "closeNew" /\ CloseBar(<<q, 1>>)
    /\ c' = [c EXCEPT ![q].pc = "closeReq"]
    /\ UNCHANGED runs /\ Quiet

\* The finally of the second attempt: the new operation's bar.
CloseNew(q) ==
    /\ c[q].pc = "closeNew" /\ CloseBar(CurOp(q))
    /\ c' = [c EXCEPT ![q].pc = "closeReq"]
    /\ UNCHANGED runs /\ Quiet

\* The outermost hook's finally: the bar of the request as the caller made it.
CloseReq(q) ==
    /\ c[q].pc = "closeReq" /\ CloseBar(<<q, 1>>)
    /\ c' = [c EXCEPT ![q].pc = "done"]
    /\ UNCHANGED runs /\ Quiet

QueryStep(q) ==
    \/ Execute(q) \/ Progress(q) \/ EndStream(q) \/ Handler(q) \/ Notified(q)
    \/ ReplayHook(q) \/ Replay(q) \/ CloseNew(q) \/ CloseReq(q)

(***************************************************************************)
(* Other threads.                                                          *)
(***************************************************************************)

\* clearProgressHandlers() of a user: pyspark's own clears the list, and ours
\* is registered again afterwards.
ClearBegin ==
    /\ clears < MaxClears /\ ~closed
    /\ clears' = clears + 1
    /\ clearing' = clearing + 1
    /\ handlers' = 0
    /\ UNCHANGED <<plan, enabled, c, bars, lock, holds, closed, runs>>

ClearEnd ==
    /\ clearing > 0
    /\ clearing' = clearing - 1
    /\ handlers' = handlers + 1
    /\ UNCHANGED <<plan, enabled, c, bars, clears, lock, holds, closed, runs>>

\* A getOrCreate() or stop() of another thread takes the lock.
Hold ==
    /\ lock = "free" /\ holds < MaxHolds
    /\ lock' = "held"
    /\ holds' = holds + 1
    /\ UNCHANGED <<plan, enabled, c, bars, handlers, clearing, clears, closed, runs>>

\* Mutant: a stop() waits, with the lock, for the queries to end.
ReleaseAfterQueries ==
    /\ lock = "held"
    /\ \A q \in Query : c[q].pc \in {"idle", "done"}
    /\ lock' = "free"
    /\ \/ UNCHANGED <<closed, handlers>>
       \/ closed' = TRUE /\ handlers' = 0
    /\ UNCHANGED <<plan, enabled, c, bars, clearing, clears, holds, runs>>

\* It ends; stop() has closed the client, taken the hooks off and cleared the
\* handlers.  Calls that are under way keep the hooks they went through.
Release ==
    /\ lock = "held"
    /\ lock' = "free"
    /\ \/ UNCHANGED <<closed, handlers>>
       \/ closed' = TRUE /\ handlers' = 0
    /\ UNCHANGED <<plan, enabled, c, bars, clearing, clears, holds, runs>>

Next ==
    \/ \E q \in Query : QueryStep(q)
    \/ ClearBegin \/ ClearEnd \/ Hold \/ Release

\* Threads are scheduled, a stream ends, and a session call gives its lock back
\* (it has timeouts); nobody is bound to make a call.
Fairness ==
    /\ \A q \in Query :
          /\ WF_vars(EndStream(q)) /\ WF_vars(Handler(q)) /\ WF_vars(Notified(q))
          /\ WF_vars(ReplayHook(q)) /\ WF_vars(Replay(q))
          /\ WF_vars(CloseNew(q)) /\ WF_vars(CloseReq(q))
    /\ WF_vars(ClearEnd) /\ WF_vars(Release)

Spec == Init /\ [][Next]_vars

FairSpec == Spec /\ Fairness

-----------------------------------------------------------------------------

\* Every variable has its type; in particular there is no third attempt.
TypeOK ==
    /\ plan \in [Query -> Plan] /\ enabled \in BOOLEAN
    /\ c \in [Query -> Call]
    /\ bars \subseteq Op
    /\ handlers \in 0..(MaxClears + 1)
    /\ clearing \in 0..MaxClears /\ clears \in 0..MaxClears
    /\ lock \in {"free", "held"} /\ holds \in 0..MaxHolds
    /\ closed \in BOOLEAN
    /\ runs \in [Query -> 0..2]

\* When _execute_and_fetch has returned or raised, no bar of the query is left:
\* not the caller's operation's and not the replay's, even if the final message
\* had no tasks, came while the handlers were cleared, or never came.
NoBarLeft == \A q \in Query : c[q].pc = "done" /\ plan[q].fetch =>
                 {<<q, 1>>, <<q, 2>>} \cap bars = {}

\* A call that has begun ends, though it waits for the session lock.
QueriesEnd == \A q \in Query : c[q].pc = "stream" ~> c[q].pc = "done"

\* The replay implements the promise that a query runs once, or twice if its
\* plan has no side effect, and has one outcome.
Replayable == [q \in Query |-> enabled /\ plan[q] = [kind |-> "root", code |-> FALSE,
                                                      fetch |-> TRUE]]
OutcomeOf == [q \in Query |-> IF c[q].pc # "done" THEN "none"
                              ELSE IF c[q].out = "ok" THEN "rows" ELSE "raised"]
QO == INSTANCE QueryOutcome WITH again <- Replayable, outcome <- OutcomeOf
RunsOnce == QO!QSpec
=============================================================================
