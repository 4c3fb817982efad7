---------------------------- MODULE LivenessGuard ----------------------------
(***************************************************************************)
(* client/core.py's RPC guard and session.py's liveness cache: every       *)
(* guarded Spark Connect RPC first asks whether its session is still there *)
(* (pre_rpc, from the cache if that has an answer), and an RPC that failed *)
(* in a way a dead session could explain asks again (on_error, never from  *)
(* the cache).                                                             *)
(*                                                                         *)
(* RPCs run on several threads.  GetSession is answered at one moment and  *)
(* its verdict recorded at a later one, with anything in between.  The     *)
(* cache has one entry per session name: a session that was deleted and    *)
(* created again under its name (a new incarnation) has the old entry.     *)
(* An entry also says here which incarnation it is about, and whether it   *)
(* is terminate_s8s_session's own; the code does not keep that.            *)
(***************************************************************************)
EXTENDS Integers

CONSTANTS
    Rpc,      \* threads that issue guarded RPCs
    Ttl,      \* MANAGED_SPARK_CONNECT_LIVENESS_TTL_SECONDS; negative: for ever
    MaxNow,   \* bound: clock ticks
    MaxInc    \* bound: incarnations of the named session

ASSUME GuardAssumption == Ttl \in Int /\ MaxNow \in Nat /\ MaxInc \in Nat \ {0}

VARIABLES
    up,       \* Dataproc's state of the session name
    inc,      \* its incarnation
    entry,    \* _LIVENESS[key]: verdict v ("none", "active" or "dead"), and when
    now,      \* _now()
    pc,       \* [Rpc -> where the RPC is]
    ans,      \* [Rpc -> the answer to its GetSession, on its way back]
    about,    \* [Rpc -> the incarnation it was about]
    result,   \* [Rpc -> how its latest RPC ended]
    att,      \* [Rpc -> incarnation its channel is attached to]
    cur,      \* incarnation this process connected to last
    found,    \* incarnation of the response getOrCreate() is working with, 0: none
    late,     \* [Rpc -> the session was gone when the RPC was issued]
    excuse,   \* [Rpc -> the on_error check was skipped or could not be made]
    term,     \* stop() is inside terminate_s8s_session
    cut       \* the latest terminate_s8s_session left its verdict behind

server == <<up, inc>>
rpcs == <<pc, ans, about, result, att, late, excuse>>
session == <<cur, found, term, cut>>
vars == <<server, entry, now, rpcs, session>>

Answers == {"ACTIVE", "CREATING", "GONE", "outage"}
Pcs == {"idle", "pre", "pre2", "preask", "rpc", "errask"}

Init ==
    /\ up = "ACTIVE" /\ inc = 1 /\ cur = 1 /\ found = 0
    /\ entry = [v |-> "active", at |-> 0, of |-> 1, own |-> FALSE]   \* by __connect
    /\ now = 0
    /\ pc = [r \in Rpc |-> "idle"]
    /\ ans = [r \in Rpc |-> "none"]
    /\ about = [r \in Rpc |-> 1]
    /\ result = [r \in Rpc |-> "none"]
    /\ att = [r \in Rpc |-> 1]
    /\ late = [r \in Rpc |-> FALSE]
    /\ excuse = [r \in Rpc |-> FALSE]
    /\ term = FALSE /\ cut = FALSE

Gone(i) == up = "GONE" \/ inc # i

\* _record_liveness
Record(v, i, own) == entry' = [v |-> v, at |-> now, of |-> i, own |-> own]

\* invalidate_s8s_session_active
Invalidate == entry' = [v |-> "none", at |-> now, of |-> inc, own |-> FALSE]

\* _check_cached_liveness in mode pre_rpc: a dead verdict stands, an active one
\* as long as the TTL says; "none" is Python's None.
CheckCachedLiveness ==
    CASE entry.v = "dead" -> "dead"
      [] entry.v = "active" /\ (Ttl < 0 \/ (Ttl > 0 /\ now - entry.at < Ttl)) -> "active"
      [] OTHER -> "none"

End(r, how) ==
    /\ pc' = [pc EXCEPT ![r] = "idle"]
    /\ result' = [result EXCEPT ![r] = how]

Issue(r) ==
    /\ pc[r] = "idle"
    /\ pc' = [pc EXCEPT ![r] = "pre"]
    /\ result' = [result EXCEPT ![r] = "none"]
    /\ att' = [att EXCEPT ![r] = cur]
    /\ late' = [late EXCEPT ![r] = Gone(cur)]
    /\ excuse' = [excuse EXCEPT ![r] = FALSE]
    /\ UNCHANGED <<server, entry, now, ans, about, session>>

\* The pre-RPC guard looks at the cache, in is_active()'s check and, when that
\* had no answer, once more in is_s8s_session_active.
PreGuard(r) ==
    /\ pc[r] \in {"pre", "pre2"}
    /\ LET c == CheckCachedLiveness
           ask == IF pc[r] = "pre" THEN "pre2" ELSE "preask"
       IN \/ c = "dead" /\ End(r, "inactive")
          \/ /\ c # "dead"
             /\ pc' = [pc EXCEPT ![r] = IF c = "active" THEN "rpc" ELSE ask]
             /\ UNCHANGED result
    /\ UNCHANGED <<server, entry, now, ans, about, att, late, excuse, session>>

\* Dataproc answers a GetSession, or does not.
Answer(r) ==
    /\ pc[r] \in {"preask", "errask"} /\ ans[r] = "none"
    /\ \E a \in {up, "outage"} : ans' = [ans EXCEPT ![r] = a]
    /\ about' = [about EXCEPT ![r] = inc]
    /\ UNCHANGED <<server, entry, now, pc, result, att, late, excuse, session>>

\* Mutant: an error is recorded like NotFound.
VerdictOnError(r) ==
    /\ ans[r] # "none"
    /\ ans' = [ans EXCEPT ![r] = "none"]
    /\ Record(IF ans[r] = "ACTIVE" THEN "active" ELSE "dead", about[r], FALSE)
    /\ End(r, IF ans[r] = "ACTIVE" THEN "error" ELSE "inactive")
    /\ UNCHANGED <<server, now, about, att, late, excuse, session>>

\* get_active_s8s_session_response has the answer: ACTIVE and gone are recorded,
\* CREATING counts as active and is not, an error leaves the cache alone and
\* fails open (_check_active).  A gone session ends the RPC with
\* SessionNotActiveError; otherwise it is sent (pre_rpc) or its own error is
\* raised (on_error).
Verdict(r) ==
    /\ ans[r] # "none"
    /\ ans' = [ans EXCEPT ![r] = "none"]
    /\ \/ ans[r] = "ACTIVE" /\ Record("active", about[r], FALSE)
       \/ ans[r] = "GONE" /\ Record("dead", about[r], FALSE)
       \/ ans[r] \in {"CREATING", "outage"} /\ UNCHANGED entry
    /\ excuse' = [excuse EXCEPT ![r] = pc[r] = "errask" /\ ans[r] = "outage"]
    /\ \/ ans[r] = "GONE" /\ End(r, "inactive")
       \/ ans[r] # "GONE" /\ pc[r] = "errask" /\ End(r, "error")
       \/ /\ ans[r] # "GONE" /\ pc[r] = "preask"
          /\ pc' = [pc EXCEPT ![r] = "rpc"] /\ UNCHANGED result
    /\ UNCHANGED <<server, now, about, att, late, session>>

\* Mutant: the check after a failed RPC takes the cached verdict.
CallChecksCache(r) ==
    /\ pc[r] = "rpc"
    /\ \/ ~Gone(att[r]) /\ End(r, "ok")
       \/ End(r, IF CheckCachedLiveness = "dead" THEN "inactive" ELSE "error")
    /\ UNCHANGED <<server, entry, now, ans, about, att, late, excuse, session>>

\* The RPC itself: it works while its incarnation is up, and fails any time.
\* _should_check_liveness_on_error decides by the error whether to ask.
Call(r) ==
    /\ pc[r] = "rpc"
    /\ \/ ~Gone(att[r]) /\ End(r, "ok") /\ UNCHANGED excuse
       \/ /\ pc' = [pc EXCEPT ![r] = "errask"]
          /\ UNCHANGED <<result, excuse>>
       \/ /\ End(r, "error")
          /\ excuse' = [excuse EXCEPT ![r] = TRUE]
    /\ UNCHANGED <<server, entry, now, ans, about, att, late, session>>

\* terminate_s8s_session records a verdict of its own, then makes the RPC.
TerminateBegin ==
    /\ ~term /\ found = 0
    /\ term' = TRUE
    /\ Record("dead", inc, TRUE)
    /\ UNCHANGED <<server, now, rpcs, cur, found, cut>>

\* It succeeds, and _forget_server_session clears the cache, or fails, and so does
\* _terminate_server_session.  But a KeyboardInterrupt is no Exception, and leaves
\* the verdict; so does a failure in the clean-up of __create.
TerminateEnd ==
    /\ term
    /\ term' = FALSE
    /\ up' \in {up, "GONE"}
    /\ \/ Invalidate /\ cut' = FALSE
       \/ UNCHANGED entry /\ cut' = TRUE
    /\ UNCHANGED <<inc, now, rpcs, cur, found>>

\* A stop() without termination, and clear_dataproc_caches().
Forget ==
    /\ ~term
    /\ Invalidate
    /\ UNCHANGED <<server, now, rpcs, session>>

\* Dataproc ends the session (TTL, failure, another client).
ServerEnds ==
    /\ up # "GONE"
    /\ up' = "GONE"
    /\ UNCHANGED <<inc, entry, now, rpcs, session>>

\* It is created again under its name, by this process or by another client.
ServerRecreates ==
    /\ up = "GONE" /\ inc < MaxInc
    /\ inc' = inc + 1
    /\ up' = "CREATING"
    /\ UNCHANGED <<entry, now, rpcs, session>>

ServerStarts ==
    /\ up = "CREATING"
    /\ up' = "ACTIVE"
    /\ UNCHANGED <<inc, entry, now, rpcs, session>>

\* getOrCreate() has a response with an ACTIVE session to work with, from
\* GetSession or CreateSession.
Find ==
    /\ ~term /\ found = 0 /\ up = "ACTIVE"
    /\ found' = inc
    /\ UNCHANGED <<server, entry, now, rpcs, cur, term, cut>>

\* mark_s8s_session_active, whatever has become of the session since: by
\* _handle_custom_session_id, and by __connect, which attaches to it.
MarkFound ==
    /\ found # 0
    /\ Record("active", found, FALSE)
    /\ \/ UNCHANGED <<cur, found>>
       \/ cur' = found /\ found' = 0
    /\ UNCHANGED <<server, now, rpcs, term, cut>>

\* An in-process session is returned, or an error.
DropFound ==
    /\ found # 0
    /\ found' = 0
    /\ UNCHANGED <<server, entry, now, rpcs, cur, term, cut>>

Tick ==
    /\ now < MaxNow
    /\ now' = now + 1
    /\ UNCHANGED <<server, entry, rpcs, session>>

RpcStep(r) == PreGuard(r) \/ Answer(r) \/ Verdict(r) \/ Call(r)

Next ==
    \/ \E r \in Rpc : Issue(r) \/ RpcStep(r)
    \/ TerminateBegin \/ TerminateEnd \/ Forget \/ Find \/ MarkFound \/ DropFound
    \/ ServerEnds \/ ServerRecreates \/ ServerStarts \/ Tick

Spec == Init /\ [][Next]_vars

-----------------------------------------------------------------------------

\* Types of the guard's state.
TypeOK ==
    /\ up \in {"ACTIVE", "CREATING", "GONE"}
    /\ inc \in 1..MaxInc /\ cur \in 1..MaxInc /\ found \in 0..MaxInc /\ now \in 0..MaxNow
    /\ entry \in [v : {"none", "active", "dead"}, at : 0..MaxNow, of : 1..MaxInc,
                  own : BOOLEAN]
    /\ pc \in [Rpc -> Pcs]
    /\ ans \in [Rpc -> Answers \cup {"none"}]
    /\ about \in [Rpc -> 1..MaxInc]
    /\ result \in [Rpc -> {"none", "ok", "error", "inactive"}]
    /\ att \in [Rpc -> 1..MaxInc]
    /\ late \in [Rpc -> BOOLEAN] /\ excuse \in [Rpc -> BOOLEAN]
    /\ term \in BOOLEAN /\ cut \in BOOLEAN

\* An RPC issued after its session was gone does not end in a bare gRPC error:
\* whatever the cache said, the user is told with SessionNotActiveError, unless
\* Dataproc could not be asked, the error says it is not about the session, or
\* the session has been created again by then.
DeathSurfaces ==
    \A r \in Rpc : late[r] /\ result[r] # "none" =>
        \/ result[r] = "inactive"
        \/ result[r] = "error" /\ (excuse[r] \/ inc # att[r])

\* An outage is no verdict, and neither is a termination that failed: what the cache
\* holds dead is an incarnation that Dataproc has said is gone, however late that
\* answer was recorded, or terminate_s8s_session is at work, or nobody took its own
\* back: it was interrupted, or failed in the clean-up of a start that had failed.
OutageIsNoVerdict ==
    entry.v = "dead" => Gone(entry.of) \/ (entry.own /\ (term \/ cut))
=============================================================================
