-------------------------- MODULE SessionLifecycle --------------------------
(***************************************************************************)
(* session.py: how ManagedSparkSession finds, creates, attaches to, stops  *)
(* and terminates the Dataproc session behind a Spark Connect client.      *)
(*                                                                         *)
(* One process holds the class-level state (variable m).  getOrCreate()    *)
(* and stop() run under ManagedSparkSession._lock from beginning to end,   *)
(* so there is one call at a time (variable call), made by any thread.     *)
(* Every Dataproc RPC of a call is a step of its own: between two of them  *)
(* the server changes the session, and other clients, which may share a    *)
(* session that was named with sessionId(), delete and recreate it.        *)
(*                                                                         *)
(* The guards of the RPCs of other threads write the liveness cache too,   *)
(* without that lock (GuardVerdict; LivenessGuard has their own steps).    *)
(* Every RPC can also fail with an error that says nothing about the       *)
(* session (an outage), and the user can interrupt every wait              *)
(* (KeyboardInterrupt).  Progress bars, messages, spans and the session's  *)
(* configuration are left out; so is STATE_UNSPECIFIED, which Dataproc     *)
(* does not report of a session.                                           *)
(***************************************************************************)
EXTENDS Naturals, FiniteSets

CONSTANTS
    Thread,       \* threads of the process that call getOrCreate() and stop()
    Custom,       \* session ids a user names with sessionId()
    Generated,    \* what generate_session_id() can return (bound)
    MaxObj,       \* bound: ManagedSparkSession objects made
    MaxUuid,      \* bound: server sessions ever created
    MaxPolls,     \* terminate_s8s_session's max_polls (180)
    StartRetries, \* MANAGED_SPARK_CONNECT_SESSION_START_RETRIES
    Interrupts,   \* BOOLEAN: the user interrupts calls (KeyboardInterrupt)
    NoId, Gen     \* no session id; a builder without sessionId()

ASSUME SessionAssumption ==
    /\ MaxObj \in Nat /\ MaxUuid \in Nat /\ StartRetries \in Nat
    /\ MaxPolls \in Nat \ {0}
    /\ Thread # {}
    /\ Interrupts \in BOOLEAN
    /\ Custom \cap Generated = {}
    /\ NoId \notin Custom \cup Generated
    /\ Gen \notin Custom \cup Generated

Id == Custom \cup Generated
Obj == 1..MaxObj
NoObj == 0
Uuid == 0..MaxUuid      \* 0: none

VARIABLES
    srv,    \* [Id -> Resource]  Dataproc's session resources
    uuids,  \* how many server sessions were created so far
    m,      \* the class-level state of ManagedSparkSession and its objects
    call,   \* the call that holds ManagedSparkSession._lock
    told,   \* generated ids whose termination Dataproc accepted from this process
    letGo   \* generated ids it stopped tracking without asking for that

vars == <<srv, uuids, m, call, told, letGo>>

States == {"NONE", "CREATING", "ACTIVE", "TERMINATING", "TERMINATED", "FAILED"}
Resource == [st : States, uuid : Uuid, ep : BOOLEAN]
NoResource == [st |-> "NONE", uuid |-> 0, ep |-> FALSE]

\* _DEAD_STATES
DeadStates == {"FAILED", "TERMINATING", "TERMINATED"}
Alive(r) == r.st \in {"CREATING", "ACTIVE"}
HasEndpoint(r) == r.st = "ACTIVE" /\ r.ep

(***************************************************************************)
(* The class-level state: _active_s8s_session_id and _uuid,                *)
(* _active_session_uses_custom_id, _default_session, pyspark's             *)
(* _instantiatedSession and per-thread _active_session, the active-session *)
(* file, the liveness cache, and the session objects (id, uuid, open).     *)
(***************************************************************************)
MInit == [id |-> NoId, uuid |-> 0, custom |-> FALSE,
          default |-> NoObj, inst |-> NoObj,
          active |-> [t \in Thread |-> NoObj],
          file |-> NoId,
          live |-> [i \in Id |-> "none"],
          made |-> 0,
          obj |-> [o \in Obj |-> [id |-> NoId, uuid |-> 0, open |-> FALSE]]]

\* What the liveness cache holds for a name.  The last three are all False verdicts:
\* of the incarnation this process is attached to, or a later one; of an earlier one,
\* recorded late; and of a terminate_s8s_session that was interrupted.
DeadVerdicts == {"dead", "overtaken", "interrupted"}
Verdicts == {"none", "active"} \cup DeadVerdicts

\* mark_s8s_session_active, the False verdicts, invalidate_s8s_session_active.
Mark(s, i, v) == [s EXCEPT !.live[i] = v]
MarkActive(s, i) == Mark(s, i, "active")
MarkDead(s, i) == Mark(s, i, "dead")
Invalidate(s) == [s EXCEPT !.live = [i \in Id |-> "none"]]

\* _active_s8s_session_id and _active_session_uses_custom_id := None, False.
ClearId(s) == [s EXCEPT !.id = NoId, !.custom = FALSE]

\* pyspark's getActiveSession() skips a stopped session.
GetActiveSession(s, t) ==
    IF s.active[t] # NoObj /\ s.obj[s.active[t]].open THEN s.active[t] ELSE NoObj

\* getActiveSession() or _default_session
InProcess(s, t) ==
    IF GetActiveSession(s, t) # NoObj THEN GetActiveSession(s, t) ELSE s.default

\* _forget_server_session
Forget(s, o) ==
    Invalidate([ClearId(s) EXCEPT !.uuid = 0, !.file = NoId,
                                  !.inst = IF @ = o THEN NoObj ELSE @])

\* Mutant: the default session is cleared before it is looked at.
StopLocalForgetsLate(s, o, t) ==
    [s EXCEPT !.default = IF @ = o THEN NoObj ELSE @,
              !.obj[o].open = FALSE,
              !.active[t] = IF @ = o THEN NoObj ELSE @]

\* _stop without, or after, the server's termination: only the default session
\* takes the class-level state with it; every one closes its client.
StopLocal(s, o, t) ==
    LET f == IF o = s.default THEN [Forget(s, o) EXCEPT !.default = NoObj] ELSE s
    IN [f EXCEPT !.obj[o].open = FALSE,
                 !.active[t] = IF @ = o THEN NoObj ELSE @]

\* Mutant: the uuid of the session connected to is not kept.
AttachKeepsUuid(s, r, i) == MarkActive(s, i)

\* __connect up to the constructor: the uuid and the liveness verdict are set.
Attach(s, r, i) == MarkActive([s EXCEPT !.uuid = r.uuid], i)

\* __connect after it: the new object is the default session.
Connected(s, r, i, t) ==
    LET o == s.made + 1
        a == Attach(s, r, i)
    IN [a EXCEPT !.made = o,
                 !.obj[o] = [id |-> i, uuid |-> r.uuid, open |-> TRUE],
                 !.default = o,
                 !.active[t] = IF @ = NoObj THEN o ELSE @]

(***************************************************************************)
(* The call in progress.  pc is the RPC it is about to make or the wait it *)
(* is in; req is the builder's session id or Gen; cont is what follows a   *)
(* termination; target is the object being stopped; tid the session id     *)
(* being terminated; resp the GetSession response a custom id kept, then   *)
(* the one to connect with; and ret the object a finished call returned.   *)
(***************************************************************************)
Pc == {"idle", "lookup", "waitterm", "delete", "reuse", "create", "waitcreate",
       "waitep", "connect", "check", "terminate", "poll"}
Cont == {"none", "done", "asked", "create", "raise", "cleanup"}

Idle(o) == [pc |-> "idle", t |-> CHOOSE t \in Thread : TRUE, req |-> Gen,
            creating |-> FALSE, attempt |-> 1, resp |-> NoResource,
            cont |-> "none", target |-> NoObj, tid |-> NoId, polls |-> 0,
            ret |-> o]

Raise == call' = Idle(NoObj)
Interrupted == Interrupts /\ Raise
Goto(pc) == call' = [call EXCEPT !.pc = pc]

Init ==
    /\ srv = [i \in Id |-> NoResource]
    /\ uuids = 0
    /\ m = MInit
    /\ call = Idle(NoObj)
    /\ told = {}
    /\ letGo = {}

\* The server session behind the class-level id is left to its TTL.
LetGo(i) == letGo' = letGo \cup ({i} \cap Generated)

-----------------------------------------------------------------------------
(***************************************************************************)
(* getOrCreate: entry and the lookup of a custom session id.               *)
(***************************************************************************)

GetOrCreate(t, r) ==
    /\ call.pc = "idle"
    /\ call' = [Idle(NoObj) EXCEPT !.pc = IF r = Gen THEN "reuse" ELSE "lookup",
                                   !.t = t, !.req = r]
    /\ UNCHANGED <<srv, uuids, m, told, letGo>>

\* Mutants: the uuid, the id is not compared; the session is not marked custom.
HandleFoundById(r) ==
    LET e == InProcess(m, call.t)
        s == IF e # NoObj /\ m.id # call.req THEN StopLocal(m, e, call.t) ELSE m
    IN /\ m' = [MarkActive(s, call.req) EXCEPT !.id = call.req, !.custom = TRUE]
       /\ call' = [call EXCEPT !.pc = "reuse",
                               !.resp = IF r.st = "ACTIVE" THEN r ELSE NoResource]
       /\ UNCHANGED letGo

HandleFoundUnmarked(r) ==
    LET e == InProcess(m, call.t)
        s == IF e # NoObj /\ m.id # call.req THEN StopLocal(m, e, call.t) ELSE m
    IN /\ m' = [MarkActive(s, call.req) EXCEPT !.id = call.req]
       /\ call' = [call EXCEPT !.pc = "reuse",
                               !.resp = IF r.st = "ACTIVE" THEN r ELSE NoResource]
       /\ LetGo(m.id)

\* _handle_custom_session_id with a usable session: an in-process session of
\* another id, or of an earlier incarnation of this one, is stopped.
HandleFound(r) ==
    LET e == InProcess(m, call.t)
        other == e # NoObj /\ (m.id # call.req \/ m.uuid # r.uuid)
        s == IF other THEN StopLocal(m, e, call.t) ELSE m
        k == IF r.st = "ACTIVE" THEN MarkActive(s, call.req) ELSE s
    IN /\ m' = [k EXCEPT !.id = call.req, !.custom = TRUE]
       /\ call' = [call EXCEPT !.pc = "reuse",
                               !.resp = IF r.st = "ACTIVE" THEN r ELSE NoResource]
       /\ IF m.id # call.req THEN LetGo(m.id) ELSE UNCHANGED letGo

\* ... and without one.
HandleAbsent ==
    LET e == InProcess(m, call.t)
        s == IF e # NoObj THEN StopLocal(m, e, call.t) ELSE m
    IN /\ m' = ClearId(s)
       /\ Goto("reuse")
       /\ LetGo(m.id)

\* _get_session_by_id: any error counts as "not found".
Lookup ==
    /\ call.pc = "lookup"
    /\ \/ Alive(srv[call.req]) /\ HandleFound(srv[call.req])
       \/ srv[call.req].st = "NONE" /\ HandleAbsent
       \/ HandleAbsent                                       \* an outage
       \/ /\ srv[call.req].st = "TERMINATING"
          /\ Goto("waitterm") /\ UNCHANGED <<m, letGo>>
       \/ /\ srv[call.req].st \in {"TERMINATED", "FAILED"}
          /\ Goto("delete") /\ UNCHANGED <<m, letGo>>
       \/ Interrupted /\ UNCHANGED <<m, letGo>>
    /\ UNCHANGED <<srv, uuids, told>>

\* _wait_for_termination: another state, NotFound or 180 s end the wait, and so
\* does an error, which skips the deletion.
WaitForTermination ==
    /\ call.pc = "waitterm"
    /\ \/ Goto("delete") /\ UNCHANGED <<m, letGo>>
       \/ HandleAbsent
       \/ Interrupted /\ UNCHANGED <<m, letGo>>
    /\ UNCHANGED <<srv, uuids, told>>

\* _delete_session; Dataproc deletes a session in any state but TERMINATING.
DeleteSession ==
    /\ call.pc = "delete"
    /\ \/ /\ srv[call.req].st # "TERMINATING"
          /\ srv' = [srv EXCEPT ![call.req].st = "NONE", ![call.req].ep = FALSE]
          /\ HandleAbsent
       \/ HandleAbsent /\ UNCHANGED srv                      \* refused or failed
       \/ Interrupted /\ UNCHANGED <<srv, m, letGo>>
    /\ UNCHANGED <<uuids, told>>

-----------------------------------------------------------------------------
(***************************************************************************)
(* _get_exiting_active_session: reuse, reattach, or stop and create.       *)
(***************************************************************************)

\* The end of getOrCreate: whichever path got it, the session is the default.
Return(s, o) ==
    /\ m' = [s EXCEPT !.default = o, !.inst = o]
    /\ call' = Idle(o)

\* stop() of session o: terminate is "auto" (None), "yes" or "no".  Only the
\* default session's stop() can terminate the server session, and only if there
\* is one; otherwise the local part follows at once.
ShouldTerminate(s, o, terminate) ==
    /\ o = s.default
    /\ s.id # NoId
    /\ terminate = "yes" \/ (terminate = "auto" /\ ~s.custom)

\* What a stop() leads to once it is through: back to the user, or on to the
\* creation, or to the error that made getOrCreate() abandon the session.
Continue(c, cont) ==
    call' = IF cont = "create"
            THEN [c EXCEPT !.pc = "create", !.cont = "none", !.target = NoObj,
                           !.tid = NoId, !.polls = 0]
            ELSE Idle(NoObj)

BeginStop(s, c, o, terminate, cont) ==
    IF ShouldTerminate(s, o, terminate)
    THEN /\ m' = s
         /\ call' = [c EXCEPT !.pc = "terminate", !.cont = cont, !.target = o,
                              !.tid = s.id, !.polls = 0]
         /\ UNCHANGED letGo
    ELSE /\ m' = StopLocal(s, o, c.t)
         /\ Continue(c, cont)
         /\ IF o = s.default THEN LetGo(s.id) ELSE UNCHANGED letGo

Stop(t, o, terminate) ==
    /\ call.pc = "idle"
    /\ o <= m.made
    /\ BeginStop(m, [Idle(NoObj) EXCEPT !.t = t], o, terminate,
                 IF terminate = "yes" THEN "asked" ELSE "done")
    /\ UNCHANGED <<srv, uuids, told>>

\* The session is still there: an in-process session is returned as it is,
\* otherwise a new one is attached, now or when there is an endpoint.
Found(s, r) ==
    LET o == InProcess(s, call.t)
    IN IF o # NoObj THEN Return(s, o)
       ELSE /\ m' = s
            /\ call' = [call EXCEPT !.pc = IF HasEndpoint(r) THEN "connect" ELSE "waitep",
                                    !.resp = r]

\* It is gone: its in-process session is stopped, then one is created.
Gone(s, o) ==
    IF o = NoObj
    THEN m' = s /\ Goto("create") /\ UNCHANGED letGo
    ELSE BeginStop(s, call, o, "auto", "create")

\* GetSession of get_active_s8s_session_response, recorded in the cache.
CheckedGetSession ==
    \/ /\ Alive(srv[m.id])
       /\ Found(IF srv[m.id].st = "ACTIVE" THEN MarkActive(m, m.id) ELSE m, srv[m.id])
       /\ UNCHANGED letGo
    \/ ~Alive(srv[m.id]) /\ Gone(MarkDead(m, m.id), InProcess(m, call.t))

\* The GetSession failed: "not a verdict", so an in-process session is reused
\* unchecked.
FailOpen ==
    IF InProcess(m, call.t) # NoObj
    THEN /\ m' = [m EXCEPT !.default = InProcess(m, call.t),
                           !.inst = InProcess(m, call.t)]
         /\ call' = Idle(InProcess(m, call.t))
    ELSE Raise /\ UNCHANGED m

Reuse ==
    /\ call.pc = "reuse"
    /\ \/ m.id = NoId /\ Gone(m, m.default)
       \/ /\ m.id # NoId
          /\ IF call.resp # NoResource
             THEN Found(m, call.resp) /\ UNCHANGED letGo
             ELSE \/ CheckedGetSession
                  \/ FailOpen /\ UNCHANGED letGo
                  \/ Interrupted /\ UNCHANGED <<m, letGo>>
    /\ UNCHANGED <<srv, uuids, told>>

-----------------------------------------------------------------------------
(***************************************************************************)
(* __create_with_retries and __create.                                     *)
(***************************************************************************)

\* Mutant: the attempts are not counted against the limit.
RetryAlways ==
    call' = [call EXCEPT !.pc = "create", !.attempt = @ + 1,
                         !.resp = NoResource, !.target = NoObj]

\* A session that did not start is replaced by another one, unless the caller
\* named it.
Retry ==
    IF call.attempt <= (IF call.req = Gen THEN StartRetries ELSE 0)
    THEN call' = [call EXCEPT !.pc = "create", !.attempt = @ + 1,
                              !.resp = NoResource, !.target = NoObj]
    ELSE Raise

NewIds == IF call.req = Gen
          THEN {g \in Generated : srv[g].uuid = 0}
          ELSE {call.req}

\* CreateSession.  It fails for an id in use, and for many other reasons, also
\* after the server has created the session; a KeyboardInterrupt keeps the id.
CreateSession ==
    /\ call.pc = "create"
    /\ \E i \in NewIds :
        LET s == [m EXCEPT !.id = i, !.custom = call.req # Gen]
            new == [st |-> "CREATING", uuid |-> uuids + 1, ep |-> FALSE]
        IN \/ /\ uuids < MaxUuid /\ srv[i].st = "NONE"
              /\ srv' = [srv EXCEPT ![i] = new]
              /\ uuids' = uuids + 1
              /\ \/ /\ m' = s
                    /\ call' = [call EXCEPT !.pc = "waitcreate", !.creating = TRUE]
                    /\ UNCHANGED letGo
                 \/ m' = ClearId(s) /\ Raise /\ LetGo(i)
                 \/ m' = s /\ Interrupted /\ UNCHANGED letGo
           \/ /\ \/ m' = ClearId(s) /\ Raise
                 \/ m' = s /\ Interrupted
              /\ UNCHANGED <<srv, uuids, letGo>>
    /\ UNCHANGED told

\* Nothing to create, or a configuration that can not be used: an error.
CreateRefused ==
    /\ call.pc = "create"
    /\ Raise
    /\ UNCHANGED <<srv, uuids, m, told, letGo>>

\* operation.result(): the operation ends with the session as it then is, or
\* with an error (failed, deleted, 1200 s over), or is interrupted.
WaitCreated ==
    /\ call.pc = "waitcreate"
    /\ LET r == srv[m.id]
       IN \/ /\ r.st \in DeadStates
             /\ m' = ClearId([m EXCEPT !.file = NoId])
             /\ Retry /\ UNCHANGED letGo
          \/ /\ Alive(r)
             /\ m' = [m EXCEPT !.file = m.id]
             /\ call' = [call EXCEPT !.pc = IF HasEndpoint(r) THEN "connect" ELSE "waitep",
                                     !.resp = r]
             /\ UNCHANGED letGo
          \/ m' = ClearId(m) /\ Raise /\ LetGo(m.id)
          \/ Interrupted /\ UNCHANGED <<m, letGo>>
    /\ UNCHANGED <<srv, uuids, told>>

\* Mutant: the wait has no timeout.
WaitEndpointForever ==
    /\ call.pc = "waitep"
    /\ \/ /\ HasEndpoint(srv[m.id])
          /\ call' = [call EXCEPT !.pc = "connect", !.resp = srv[m.id]]
       \/ ~Alive(srv[m.id]) /\ Raise
    /\ UNCHANGED <<srv, uuids, m, told, letGo>>

\* _poll_for_session_endpoint, for a new session and for one to reattach to.
WaitEndpoint ==
    /\ call.pc = "waitep"
    /\ LET r == srv[m.id]
           c == ClearId([m EXCEPT !.file = NoId])
       IN \/ /\ HasEndpoint(r)
             /\ call' = [call EXCEPT !.pc = "connect", !.resp = r]
             /\ UNCHANGED <<m, letGo>>
          \/ /\ ~Alive(r)
             /\ IF call.creating THEN m' = c /\ Retry ELSE Raise /\ UNCHANGED m
             /\ UNCHANGED letGo
          \/ /\ ~call.creating                   \* timeout or interrupt
             /\ Raise /\ UNCHANGED <<m, letGo>>
          \/ /\ call.creating /\ call.req # Gen
             /\ m' = c /\ Raise /\ LetGo(m.id)
          \/ /\ call.creating /\ call.req = Gen
             /\ m' = c
             /\ call' = [call EXCEPT !.pc = "terminate", !.cont = "cleanup",
                                     !.tid = m.id, !.polls = 0]
             /\ UNCHANGED letGo
    /\ UNCHANGED <<srv, uuids, told>>

\* __connect: the constructor can fail (credentials, proxy, channel).
Connect ==
    /\ call.pc = "connect"
    /\ \/ /\ m.made < MaxObj
          /\ LET s == Connected(m, call.resp, m.id, call.t)
             IN IF call.creating
                THEN m' = s /\ call' = [call EXCEPT !.pc = "check", !.target = s.made]
                ELSE Return(s, s.made)
       \/ m' = Attach(m, call.resp, m.id) /\ Raise
    /\ UNCHANGED <<srv, uuids, told, letGo>>

\* _check_new_session: the first RPC, and if it fails the cached verdict or a
\* GetSession.  Only a session reported gone is abandoned, and an interrupted
\* check, which terminates a generated one.
CheckNewSession ==
    /\ call.pc = "check"
    /\ LET r == srv[m.id]
           dead == MarkDead(m, m.id)
       IN \/ /\ m' = StopLocal(dead, call.target, call.t)
             /\ ~Alive(r) \/ m.live[m.id] \in DeadVerdicts
             /\ Retry /\ LetGo(m.id)
          \/ /\ r.st = "ACTIVE" /\ m.live[m.id] \notin DeadVerdicts
             /\ Return(MarkActive(m, m.id), call.target) /\ UNCHANGED letGo
          \/ Return(m, call.target) /\ UNCHANGED letGo   \* it worked, or an outage
          \/ /\ Interrupts
             /\ BeginStop(m, call, call.target,
                          IF call.req = Gen THEN "yes" ELSE "no", "raise")
    /\ UNCHANGED <<srv, uuids, told>>

-----------------------------------------------------------------------------
(***************************************************************************)
(* terminate_s8s_session and what _terminate_server_session makes of it.   *)
(***************************************************************************)

TerminateDone(s) ==
    IF call.cont = "cleanup" THEN m' = s /\ Raise
    ELSE m' = StopLocal(s, call.target, call.t) /\ Continue(call, call.cont)

\* Mutants: the session is closed and forgotten; the dead verdict is kept.
TerminateFailedForgets(s) ==
    /\ m' = IF call.cont = "cleanup" THEN s ELSE StopLocal(s, call.target, call.t)
    /\ Raise

TerminateFailedKeepsVerdict(s) == m' = s /\ Raise

\* The session stays as it was, so that stop() can be called again; the error
\* of a clean-up is only logged.
TerminateFailed(s) ==
    /\ m' = IF call.cont = "cleanup" THEN s ELSE Invalidate(s)
    /\ Raise

\* A KeyboardInterrupt is no Exception: the verdict stays.
TerminateCutShort(s) ==
    /\ Interrupted
    /\ m' = [s EXCEPT !.live[call.tid] = IF @ = "dead" THEN "interrupted" ELSE @]

\* The verdict is recorded, then TerminateSession is called.  NotFound, Aborted
\* (still creating) and FailedPrecondition count as done; an error may hide that
\* the server accepted.
TerminateSession ==
    /\ call.pc = "terminate"
    /\ LET r == srv[call.tid]
           s == MarkDead(m, call.tid)
           drop == LetGo(call.tid)
           keep == IF call.cont = "cleanup" THEN drop ELSE UNCHANGED letGo
       IN \/ /\ r.st \in {"ACTIVE", "TERMINATING", "TERMINATED", "FAILED"}
             /\ told' = told \cup ({call.tid} \cap Generated)
             /\ \/ m' = s /\ Goto("poll") /\ UNCHANGED letGo
                \/ TerminateFailed(s) /\ keep
          \/ /\ r.st # "ACTIVE"
             /\ TerminateDone(s) /\ drop /\ UNCHANGED told
          \/ TerminateFailed(s) /\ keep /\ UNCHANGED told
          \/ TerminateCutShort(s) /\ keep /\ UNCHANGED told
    /\ UNCHANGED <<srv, uuids>>

\* The poll for a terminal state: it gives up after MaxPolls, and a session
\* that ended FAILED is an error.
TerminatePoll ==
    /\ call.pc = "poll"
    /\ LET r == srv[call.tid]
       IN \/ /\ Alive(r) /\ call.polls + 1 < MaxPolls
             /\ call' = [call EXCEPT !.polls = @ + 1] /\ UNCHANGED m
          \/ Alive(r) /\ call.polls + 1 >= MaxPolls /\ TerminateDone(m)
          \/ r.st \in {"TERMINATING", "TERMINATED", "NONE"} /\ TerminateDone(m)
          \/ r.st = "FAILED" /\ TerminateFailed(m)
          \/ TerminateFailed(m)
          \/ TerminateCutShort(m)
    /\ UNCHANGED <<srv, uuids, told, letGo>>

-----------------------------------------------------------------------------
(***************************************************************************)
(* Dataproc and the other clients (external).                              *)
(***************************************************************************)

ServerStep(i) ==
    /\ \/ /\ srv[i].st = "CREATING"
          /\ \E e \in BOOLEAN : srv' = [srv EXCEPT ![i].st = "ACTIVE", ![i].ep = e]
       \/ /\ srv[i].st = "ACTIVE" /\ ~srv[i].ep
          /\ srv' = [srv EXCEPT ![i].ep = TRUE]
       \/ /\ srv[i].st = "ACTIVE"                           \* TTL or TerminateSession
          /\ srv' = [srv EXCEPT ![i].st = "TERMINATING"]
       \/ /\ srv[i].st \in {"CREATING", "ACTIVE", "TERMINATING"}
          /\ srv' = [srv EXCEPT ![i].st = "FAILED"]
       \/ /\ srv[i].st = "TERMINATING"
          /\ srv' = [srv EXCEPT ![i].st = "TERMINATED"]
    /\ UNCHANGED <<uuids, m, call, told, letGo>>

\* Another notebook that names the same session, or the console.
OtherClient(i) ==
    /\ \/ /\ srv[i].st \in {"TERMINATED", "FAILED"}
          /\ srv' = [srv EXCEPT ![i].st = "NONE", ![i].ep = FALSE]
          /\ UNCHANGED uuids
       \/ /\ i \in Custom /\ srv[i].st = "NONE" /\ uuids < MaxUuid
          /\ uuids' = uuids + 1
          /\ srv' = [srv EXCEPT ![i] = [st |-> "CREATING", uuid |-> uuids + 1, ep |-> FALSE]]
    /\ UNCHANGED <<m, call, told, letGo>>

(***************************************************************************)
(* The guards of RPCs on other threads.                                    *)
(***************************************************************************)

\* Dataproc runs the server session that s is attached to.
Runs(s) == srv[s.id].uuid = s.uuid /\ Alive(srv[s.id])

\* A guard records the answer to its GetSession whenever its thread gets to it, at any
\* moment of a call too: ACTIVE, at some time before; or gone, which is said of the
\* incarnation of that time, this one or one that an older session object was attached
\* to.  What is recorded of another name, or while nothing is attached, is not looked
\* at before the next attachment overwrites it.
GuardVerdict ==
    /\ m.default # NoObj /\ m.id # NoId
    /\ \/ m' = MarkActive(m, m.id)
       \/ ~Runs(m) /\ m' = MarkDead(m, m.id)
       \/ /\ \E o \in Obj : m.obj[o].id = m.id /\ m.obj[o].uuid < m.uuid
          /\ m' = Mark(m, m.id, "overtaken")
    /\ UNCHANGED <<srv, uuids, call, told, letGo>>

CallStep ==
    \/ Lookup \/ WaitForTermination \/ DeleteSession \/ Reuse
    \/ CreateSession \/ CreateRefused \/ WaitCreated \/ WaitEndpoint
    \/ Connect \/ CheckNewSession \/ TerminateSession \/ TerminatePoll

Next ==
    \/ \E t \in Thread, r \in Custom \cup {Gen} : GetOrCreate(t, r)
    \/ \E t \in Thread, o \in Obj, a \in {"auto", "yes", "no"} : Stop(t, o, a)
    \/ CallStep
    \/ \E i \in Id : ServerStep(i) \/ OtherClient(i)
    \/ GuardVerdict

Spec == Init /\ [][Next]_vars

\* Every wait of a call has a timeout, so a call that holds the lock goes on.
FairSpec == Spec /\ WF_vars(CallStep)

-----------------------------------------------------------------------------

\* The types of the class-level state, the call and Dataproc's resources.
TypeOK ==
    /\ srv \in [Id -> Resource]
    /\ uuids \in Uuid
    /\ m \in [id : Id \cup {NoId}, uuid : Uuid, custom : BOOLEAN,
              default : 0..MaxObj, inst : 0..MaxObj,
              active : [Thread -> 0..MaxObj], file : Id \cup {NoId},
              live : [Id -> Verdicts], made : 0..MaxObj,
              obj : [Obj -> [id : Id \cup {NoId}, uuid : Uuid, open : BOOLEAN]]]
    /\ call \in [pc : Pc, t : Thread, req : Custom \cup {Gen}, creating : BOOLEAN,
                 attempt : 1..(StartRetries + 1), resp : Resource, cont : Cont,
                 target : 0..MaxObj, tid : Id \cup {NoId}, polls : 0..MaxPolls,
                 ret : 0..MaxObj]
    /\ told \subseteq Generated /\ letGo \subseteq Generated

\* "This class owns its default session": every open session that getOrCreate()
\* made is the default session, in every thread and in pyspark's
\* _instantiatedSession too, so that no reference leads to a second client and
\* none is left open without an owner, after any sequence of failures.
OneOpenSession ==
    /\ \A o \in Obj : m.obj[o].open => o = m.default
    /\ m.default # NoObj => m.obj[m.default].open
    /\ m.inst \in {NoObj, m.default}

\* Between calls the class-level id and uuid are those of the default session:
\* its stop() terminates its own server session and no other.
DefaultOwnsId ==
    call.pc = "idle" /\ m.default # NoObj =>
        m.id = m.obj[m.default].id /\ m.uuid = m.obj[m.default].uuid

\* A session the caller named is terminated only by an explicit
\* stop(terminate=True): not by stop(), by a failed start or by a reuse check.
NamedOnlyOnRequest ==
    call.pc \in {"terminate", "poll"} /\ call.tid \in Custom =>
        call.cont = "asked"

\* A live session with a generated id that this process created is either
\* still known to it, so that stop() can be called again, or its termination
\* was accepted, or it was let go on one of the ways the code leaves to the TTL
\* (a failed CreateSession, stop(terminate=False), a switch to a named session,
\* an Aborted TerminateSession): a stop() that fails never orphans it.
NoOrphan ==
    \A g \in Generated : Alive(srv[g]) =>
        \/ m.id = g
        \/ call.pc = "terminate" /\ call.tid = g
        \/ g \in told \cup letGo

\* getOrCreate() with sessionId() returns a session attached to that id, and
\* never to an earlier incarnation than the one it looked up.
NamedIsCurrent ==
    [][call.req \in Custom /\ call'.ret # NoObj
          => LET r == m'.obj[call'.ret]
             IN r.id = call.req /\ (call.resp # NoResource => r.uuid = call.resp.uuid)]_vars

\* Between calls the liveness cache does not hold the default session dead while
\* Dataproc runs it, so that it can be used, and stopped again: no failed stop(), no
\* reuse check and no guard of another thread leaves such a verdict, in any order of
\* their writes.  Two verdicts can be wrong: an interrupted termination's own, and a
\* late one on an earlier incarnation of the name.
VerdictHonest ==
    call.pc = "idle" /\ m.default # NoObj /\ m.live[m.id] = "dead" => ~Runs(m)

\* What a call has left: attempts, of which finding the session is the first and
\* each CreateSession one more, and in an attempt the RPCs and waits it may still make.
AttemptsLeft(c) ==
    (StartRetries + 1 - c.attempt)
        + (IF \/ c.pc \in {"lookup", "waitterm", "delete", "reuse"}
              \/ c.pc \in {"terminate", "poll"} /\ c.cont = "create" THEN 1 ELSE 0)

StepsLeft(c) ==
    CASE c.pc \in {"lookup", "create"}    -> MaxPolls + 6
      [] c.pc \in {"waitterm", "waitcreate"} -> MaxPolls + 5
      [] c.pc \in {"delete", "waitep"}    -> MaxPolls + 4
      [] c.pc \in {"reuse", "connect"}    -> MaxPolls + 3
      [] c.pc = "check"                   -> MaxPolls + 2
      [] c.pc = "terminate"               -> MaxPolls + 1
      [] c.pc = "poll"                    -> MaxPolls - c.polls
      [] c.pc = "idle"                    -> 0

\* In a well-founded order: of two natural numbers, the first counts more.
Nearer(d, c) ==
    /\ AttemptsLeft(d) \in Nat /\ StepsLeft(d) \in Nat
    /\ \/ AttemptsLeft(d) < AttemptsLeft(c)
       \/ AttemptsLeft(d) = AttemptsLeft(c) /\ StepsLeft(d) < StepsLeft(c)

\* Whatever Dataproc answers and other clients do, every step of getOrCreate() and
\* stop() brings the call nearer to its end, and every other step leaves the call and
\* all but the liveness verdicts alone: retries, waits and polls, one inside the other,
\* can not go round for ever under the lock.
CallsAdvance ==
    [][call.pc # "idle" =>
          \/ call'.pc = "idle"
          \/ Nearer(call', call)
          \/ /\ UNCHANGED <<call, told, letGo>>
             /\ m' = [m EXCEPT !.live = m'.live]]_vars

\* getOrCreate() and stop() come back: the lock is not held for ever.
CallsReturn == (call.pc # "idle") ~> (call.pc = "idle")
=============================================================================
