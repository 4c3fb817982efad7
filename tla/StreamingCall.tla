--------------------------- MODULE StreamingCall ---------------------------
(***************************************************************************)
(* instrumentation/_grpc.py, _StreamingCall: the two nested spans of one   *)
(* server-streaming RPC.  The outer call wraps client/core.py's            *)
(* _GuardedStream, which passes everything on to the inner call, which     *)
(* wraps gRPC's own.  instrumentation/_core.py's Span and Recorder keep    *)
(* the records and the spans in flight that wait_idle() waits for.         *)
(*                                                                         *)
(* Threads: the consumer of the stream, others that may cancel() it,       *)
(* gRPC's own (Grpc), which runs the status callbacks, and one in          *)
(* wait_idle().  todo is what a thread has left to do of the calls it is   *)
(* in, innermost first; an element is one locked section or one step       *)
(* without a lock.  Attributes, byte counts and clock values are left out: *)
(* of the attributes a span only keeps the last value set before its end.  *)
(***************************************************************************)
EXTENDS Naturals, Sequences, SequencesExt

CONSTANTS Consumer,  \* the thread that iterates
          Canceller, \* the other threads that may call cancel()
          Grpc,      \* gRPC's thread
          MaxResp    \* bound: responses of the stream

ASSUME StreamingAssumption ==
    /\ Consumer \notin Canceller /\ Grpc \notin Canceller \cup {Consumer}
    /\ MaxResp \in Nat

Layer == {"outer", "inner"}
User == Canceller \cup {Consumer}
Proc == User \cup {Grpc}

VARIABLES
    over,      \* gRPC has the final status: is_active() is FALSE
    callbacks, \* the layers whose status callback gRPC holds
    dropped,   \* nobody refers to the stream any more: __del__ was called
    finished,  \* [Layer -> BOOLEAN]  _finished
    recorded,  \* [Layer -> BOOLEAN]  _status_recorded
    count,     \* [Layer -> 0..MaxResp]  _count
    ended,     \* [Layer -> BOOLEAN]  Span._ended
    events,    \* [Layer -> the events of its span]
    inflight,  \* the layers whose span is in Recorder._inflight
    emitted,   \* [Layer -> records of its span handed to the sinks]
    waiter,    \* wait_idle(): "out", "check", "asleep", "idle", "timeout"
    todo       \* [Proc -> what the thread has left to do]

vars == <<over, callbacks, dropped, finished, recorded, count, ended, events,
          inflight, emitted, waiter, todo>>

\* The call of the RPC returns: the inner _StreamingCall is built, then the outer.
Init ==
    /\ over \in BOOLEAN
    /\ callbacks = {}
    /\ dropped = FALSE
    /\ finished = [l \in Layer |-> FALSE]
    /\ recorded = [l \in Layer |-> FALSE]
    /\ count = [l \in Layer |-> 0]
    /\ ended = [l \in Layer |-> FALSE]
    /\ events = [l \in Layer |-> <<>>]
    /\ inflight = Layer
    /\ emitted = [l \in Layer |-> 0]
    /\ waiter = "out"
    /\ todo = [p \in Proc |-> IF p = Consumer
                              THEN <<<<"init", "inner">>, <<"init", "outer">>,
                                     <<"built", "outer">>>>
                              ELSE <<>>]

\* What p does next is op of layer l.
At(p, op, l) == todo[p] # <<>> /\ Head(todo[p]) = <<op, l>>

\* It has done that; first it has to do more.
Then(p, more) == todo' = [todo EXCEPT ![p] = more \o Tail(@)]

\* Mutant: an event is added to a span that has ended.
AddEventLate(l, name) == events' = [events EXCEPT ![l] = Append(@, name)]

\* Span.add_event
AddEvent(l, name) ==
    events' = IF ended[l] THEN events ELSE [events EXCEPT ![l] = Append(@, name)]

\* _finish(): _record_status(), then the claim of _finished.
Finish(l) == <<<<"record", l>>, <<"claim", l>>>>

-----------------------------------------------------------------------------
(* What the threads start. *)

Ready(p) ==
    /\ todo[p] = <<>>
    /\ ~dropped
    /\ <<"built", "outer">> \notin ToSet(todo[Consumer])

Start(p, ops) ==
    /\ todo' = [todo EXCEPT ![p] = ops]
    /\ UNCHANGED <<over, callbacks, finished, recorded, count, ended, events, inflight,
                   emitted, waiter>>

\* next() returns a message, through both layers.
NextMessage ==
    /\ Ready(Consumer)
    /\ count["inner"] < MaxResp
    /\ Start(Consumer, <<<<"next", "inner">>, <<"next", "outer">>>>)
    /\ UNCHANGED dropped

\* next() raises, in the inner layer and then in the outer one: the stream has
\* ended, failed, or the wait was interrupted (the RPC still runs).
NextRaises ==
    /\ Ready(Consumer)
    /\ Start(Consumer, Finish("inner") \o Finish("outer"))
    /\ UNCHANGED dropped

\* What the callback of a layer does, when gRPC holds it.
Called(l) == IF l \in callbacks THEN <<<<"record", l>>>> ELSE <<>>

\* gRPC has the final status, and its thread runs the callbacks it holds.
StatusArrives(mine) ==
    /\ over' = TRUE
    /\ todo' = [p \in Proc |-> IF p = Grpc /\ ~over
                               THEN mine[p] \o Called("inner") \o Called("outer")
                               ELSE mine[p]]
    /\ UNCHANGED <<callbacks, dropped, finished, recorded, count, ended, events, inflight,
                   emitted, waiter>>

\* The server ends the RPC.
ServerEnds == ~over /\ StatusArrives(todo)

\* cancel() ends it here; then the inner and the outer layer finish.
Cancel(p) ==
    /\ Ready(p)
    /\ StatusArrives([todo EXCEPT ![p] = Finish("inner") \o Finish("outer")])

\* The last reference goes away: __del__ of the outer layer, then of the inner.
\* A callback that is running holds a reference of its own, and its thread runs
\* __del__ when it is through.
Drop ==
    /\ Ready(Consumer)
    /\ \A p \in User : todo[p] = <<>>
    /\ dropped' = TRUE
    /\ LET del == Finish("outer") \o Finish("inner")
       IN IF At(Grpc, "status", "outer")
          THEN Start(Grpc, todo[Grpc] \o del)
          ELSE Start(Consumer, del)

-----------------------------------------------------------------------------
(* The steps of the methods. *)

\* The end of __init__: add_callback(), which refuses when the RPC is over.
InitCall(p, l) ==
    /\ At(p, "init", l)
    /\ callbacks' = IF over THEN callbacks ELSE callbacks \cup {l}
    /\ Then(p, IF over THEN <<<<"record", l>>>> ELSE <<>>)
    /\ UNCHANGED <<over, dropped, finished, recorded, count, ended, events, inflight,
                   emitted, waiter>>

\* The stream is handed to its consumer.
Built(p) ==
    /\ At(p, "built", "outer")
    /\ Then(p, <<>>)
    /\ UNCHANGED <<over, callbacks, dropped, finished, recorded, count, ended, events,
                   inflight, emitted, waiter>>

\* Mutant: whether the RPC still runs is not asked.
RecordStatusBlocks(p, l) ==
    /\ At(p, "record", l)
    /\ LET skip == recorded[l] \/ finished[l]
       IN /\ recorded' = [recorded EXCEPT ![l] = @ \/ ~skip]
          /\ Then(p, IF skip THEN <<>> ELSE <<<<"status", l>>>>)
    /\ UNCHANGED <<over, callbacks, dropped, finished, count, ended, events, inflight,
                   emitted, waiter>>

\* Mutant: _status_recorded is not set.
RecordStatusUnset(p, l) ==
    /\ At(p, "record", l)
    /\ LET skip == \/ recorded[l] \/ finished[l] \/ ~over
       IN Then(p, IF skip THEN <<>> ELSE <<<<"status", l>>>>)
    /\ UNCHANGED <<over, callbacks, dropped, finished, recorded, count, ended, events,
                   inflight, emitted, waiter>>

\* The locked section of _record_status.  A callback whose weak reference is
\* dead does nothing.
RecordStatus(p, l) ==
    /\ At(p, "record", l)
    /\ LET skip == \/ recorded[l] \/ finished[l] \/ ~over
                   \/ /\ p = Grpc /\ dropped /\ l = "outer"
                      /\ <<"claim", l>> \notin ToSet(todo[p])
       IN /\ recorded' = [recorded EXCEPT ![l] = @ \/ ~skip]
          /\ Then(p, IF skip THEN <<>> ELSE <<<<"status", l>>>>)
    /\ UNCHANGED <<over, callbacks, dropped, finished, count, ended, events, inflight,
                   emitted, waiter>>

\* Then code(), which blocks while the RPC runs, and the event.
StatusEvent(p, l) ==
    /\ At(p, "status", l)
    /\ over
    /\ AddEvent(l, "status")
    /\ Then(p, <<>>)
    /\ UNCHANGED <<over, callbacks, dropped, finished, recorded, count, ended, inflight,
                   emitted, waiter>>

\* Mutant: every layer is left to finish by itself.
ClaimAlone(p, l) ==
    /\ At(p, "claim", l)
    /\ finished' = [finished EXCEPT ![l] = TRUE]
    /\ Then(p, IF finished[l] THEN <<>> ELSE <<<<"end", l>>>>)
    /\ UNCHANGED <<over, callbacks, dropped, recorded, count, ended, events, inflight,
                   emitted, waiter>>

\* The locked section of _finish; whoever claims it finishes the inner layer
\* first and ends the span.
Claim(p, l) ==
    /\ At(p, "claim", l)
    /\ finished' = [finished EXCEPT ![l] = TRUE]
    /\ Then(p, IF finished[l] THEN <<>>
               ELSE (IF l = "outer" THEN Finish("inner") ELSE <<>>) \o <<<<"end", l>>>>)
    /\ UNCHANGED <<over, callbacks, dropped, recorded, count, ended, events, inflight,
                   emitted, waiter>>

\* Span.end: the flag, Recorder._untrack, which wakes wait_idle(), the record.
EndSpan(p, l) ==
    /\ At(p, "end", l)
    /\ ended' = [ended EXCEPT ![l] = TRUE]
    /\ Then(p, IF ended[l] THEN <<>> ELSE <<<<"untrack", l>>, <<"emit", l>>>>)
    /\ UNCHANGED <<over, callbacks, dropped, finished, recorded, count, events, inflight,
                   emitted, waiter>>

\* Mutant: nobody is woken.
UntrackSilent(p, l) ==
    /\ At(p, "untrack", l)
    /\ inflight' = inflight \ {l}
    /\ Then(p, <<>>)
    /\ UNCHANGED <<over, callbacks, dropped, finished, recorded, count, ended, events,
                   emitted, waiter>>

Untrack(p, l) ==
    /\ At(p, "untrack", l)
    /\ inflight' = inflight \ {l}
    /\ waiter' = IF waiter = "asleep" THEN "check" ELSE waiter
    /\ Then(p, <<>>)
    /\ UNCHANGED <<over, callbacks, dropped, finished, recorded, count, ended, events,
                   emitted>>

Emit(p, l) ==
    /\ At(p, "emit", l)
    /\ emitted' = [emitted EXCEPT ![l] = @ + 1]
    /\ Then(p, <<>>)
    /\ UNCHANGED <<over, callbacks, dropped, finished, recorded, count, ended, events,
                   inflight, waiter>>

\* __next__ of a layer has a message.
Delivered(p, l) ==
    /\ At(p, "next", l)
    /\ count' = [count EXCEPT ![l] = @ + 1]
    /\ IF count[l] = 0 THEN AddEvent(l, "first_response") ELSE UNCHANGED events
    /\ Then(p, <<>>)
    /\ UNCHANGED <<over, callbacks, dropped, finished, recorded, ended, inflight, emitted,
                   waiter>>

-----------------------------------------------------------------------------
(* Recorder.wait_idle(). *)

\* The waiting thread goes on.
Wait(from, to) ==
    /\ waiter = from
    /\ waiter' = to
    /\ UNCHANGED <<over, callbacks, dropped, finished, recorded, count, ended, events,
                   inflight, emitted, todo>>

WaitIdle == Wait("out", "check")

\* `while any(...)`, under the condition's lock.
CheckIdle == Wait("check", IF inflight = {} THEN "idle" ELSE "asleep")

\* timeout_s is over while the thread waits: one more look.
WaitTimesOut == Wait("asleep", IF inflight = {} THEN "idle" ELSE "timeout")

-----------------------------------------------------------------------------

Step(p) ==
    \/ Built(p)
    \/ \E l \in Layer :
          \/ InitCall(p, l) \/ Delivered(p, l) \/ RecordStatus(p, l) \/ StatusEvent(p, l)
          \/ Claim(p, l) \/ EndSpan(p, l) \/ Untrack(p, l) \/ Emit(p, l)

Next ==
    \/ NextMessage \/ NextRaises \/ Drop \/ ServerEnds
    \/ \E p \in User : Cancel(p)
    \/ \E p \in Proc : Step(p)
    \/ WaitIdle \/ CheckIdle \/ WaitTimesOut

Spec == Init /\ [][Next]_vars

\* Threads are scheduled.  Nothing says that the RPC ends, that the consumer
\* ever finishes, or that wait_idle() runs into its timeout.
FairSpec == Spec /\ (\A p \in Proc : WF_vars(Step(p))) /\ WF_vars(CheckIdle)

-----------------------------------------------------------------------------

\* "the lock makes the check-and-set atomic so the status event is recorded
\* exactly once": whoever sees the final status, gRPC's thread, the consumer and
\* the cancelling threads together record it at most once.
StatusOnce ==
    \A l \in Layer : \A i, j \in DOMAIN events[l] :
        events[l][i] = "status" /\ events[l][j] = "status" => i = j

\* A record that was handed to the sinks does not change any more, whatever
\* callbacks come late: neither its events nor how often it was written.
RecordIsFinal ==
    [][\A l \in Layer : emitted[l] > 0 =>
          events'[l] = events[l] /\ emitted'[l] = emitted[l]]_vars

\* "Nested layers: the inner span closes before the outer one", unless another
\* thread has claimed the inner one and is about to end it.
InnerFirst ==
    ended["outer"] =>
        \/ ended["inner"]
        \/ \E p \in Proc : <<"end", "inner">> \in ToSet(todo[p])

\* A stream that its consumer is done with (drained, failed, cancelled or
\* dropped, also while the RPC still runs) has both its records written: no
\* thread waits for the RPC, and none leaves it to another that never comes.
StreamIsRecorded ==
    (\E p \in Proc : <<"claim", "outer">> \in ToSet(todo[p]))
        ~> (\A l \in Layer : emitted[l] = 1)

\* wait_idle() returns once the last span is gone, however the two raced.
WaitIdleReturns ==
    (waiter \in {"check", "asleep"} /\ inflight = {}) ~> (waiter \notin {"check", "asleep"})
=============================================================================
