------------------------- MODULE LivenessGuard_proofs -------------------------
(***************************************************************************)
(* Proofs about LivenessGuard, for any set of RPC threads, any TTL and any *)
(* number of incarnations.  The inductive invariant keeps what an answer   *)
(* that is still on its way says about the past: a session that was gone   *)
(* is gone or has a new incarnation, and one that is there although the    *)
(* RPC was late is a new incarnation.                                      *)
(***************************************************************************)
EXTENDS LivenessGuard, TLAPS

\* One RPC: it has an answer under way only while it asks, and a result only when
\* it has ended; what was gone when it was issued stays gone for its incarnation;
\* an answer that finds the session then is about a later one, and one that does
\* not find it was true.
Thread(r) ==
    /\ att[r] <= inc
    /\ ans[r] # "none" => pc[r] \in {"preask", "errask"}
    /\ result[r] # "none" => pc[r] = "idle"
    /\ late[r] => Gone(att[r])
    /\ late[r] /\ ans[r] \in {"ACTIVE", "CREATING"} => inc # att[r]
    /\ about[r] <= inc
    /\ ans[r] = "GONE" => Gone(about[r])
    /\ late[r] /\ result[r] # "none" =>
         \/ result[r] = "inactive"
         \/ result[r] = "error" /\ (excuse[r] \/ inc # att[r])

\* What getOrCreate() found and what the cache holds is of an incarnation there was.
Honest == cur <= inc /\ found <= inc /\ entry.of <= inc /\ OutageIsNoVerdict

\* The inductive invariant.
IInv == TypeOK /\ Honest /\ \A r \in Rpc : Thread(r)

-----------------------------------------------------------------------------

\* Every initial state satisfies the inductive invariant.
LEMMA InitIInv == Init => IInv
<1> SUFFICES ASSUME Init PROVE IInv
  OBVIOUS
<1>1. TypeOK
  <2>1. /\ late \in [Rpc -> BOOLEAN] /\ excuse \in [Rpc -> BOOLEAN]
        /\ term \in BOOLEAN /\ cut \in BOOLEAN
    BY Zenon DEF Init
  <2>2. /\ inc \in 1..MaxInc /\ cur \in 1..MaxInc /\ found \in 0..MaxInc /\ now \in 0..MaxNow
        /\ entry \in [v : {"none", "active", "dead"}, at : 0..MaxNow, of : 1..MaxInc,
                      own : BOOLEAN]
        /\ att \in [Rpc -> 1..MaxInc]
        /\ about \in [Rpc -> 1..MaxInc]
    BY GuardAssumption, SMT DEF Init
  <2>3. /\ pc \in [Rpc -> Pcs] /\ ans \in [Rpc -> Answers \cup {"none"}]
        /\ result \in [Rpc -> {"none", "ok", "error", "inactive"}]
    BY SMT DEF Init, Pcs, Answers
  <2>4. up \in {"ACTIVE", "CREATING", "GONE"}
    BY DEF Init
  <2> QED
    BY <2>1, <2>2, <2>3, <2>4, Zenon DEF TypeOK
<1>2. \A r \in Rpc : Thread(r)
  <2> TAKE r \in Rpc
  <2>1. ~late[r]
    BY Zenon DEF Init
  <2>2. ans[r] = "none" /\ result[r] = "none" /\ att[r] = 1 /\ about[r] = 1 /\ inc = 1
    BY SMT DEF Init
  <2> QED
    BY <2>1, <2>2 DEF Thread
<1>3. Honest
  BY DEF Init, Honest, OutageIsNoVerdict
<1> QED
  BY <1>1, <1>2, <1>3 DEF IInv

\* Every step keeps the types.
LEMMA TypeStep == TypeOK /\ [Next]_vars => TypeOK'
<1> SUFFICES ASSUME TypeOK, [Next]_vars PROVE TypeOK'
  OBVIOUS
<1> USE GuardAssumption DEF TypeOK, Pcs, Answers, server, rpcs, session
<1>1. ASSUME NEW r \in Rpc, Issue(r) PROVE TypeOK'
  BY <1>1 DEF Issue, Gone
<1>2. ASSUME NEW r \in Rpc, PreGuard(r) PROVE TypeOK'
  BY <1>2 DEF PreGuard, End
<1>3. ASSUME NEW r \in Rpc, Answer(r) PROVE TypeOK'
  BY <1>3 DEF Answer
<1>4. ASSUME NEW r \in Rpc, Verdict(r) PROVE TypeOK'
  <2>1. entry' \in [v : {"none", "active", "dead"}, at : 0..MaxNow, of : 1..MaxInc,
                    own : BOOLEAN]
    <3>1. about[r] \in 1..MaxInc
      OBVIOUS
    <3>2. CASE Record("active", about[r], FALSE)
      BY <3>1, <3>2 DEF Record
    <3>3. CASE Record("dead", about[r], FALSE)
      BY <3>1, <3>3 DEF Record
    <3>4. CASE UNCHANGED entry
      BY <3>4
    <3> QED
      BY <1>4, <3>2, <3>3, <3>4, Zenon DEF Verdict
  <2>2. ans' \in [Rpc -> Answers \cup {"none"}] /\ excuse' \in [Rpc -> BOOLEAN]
    BY <1>4 DEF Verdict
  <2>3. /\ pc' \in [Rpc -> Pcs]
        /\ result' \in [Rpc -> {"none", "ok", "error", "inactive"}]
    BY <1>4 DEF Verdict, End
  <2>4. UNCHANGED <<up, inc, now, about, att, late, cur, found, term, cut>>
    BY <1>4, Zenon DEF Verdict
  <2> QED
    BY <2>1, <2>2, <2>3, <2>4
<1>5. ASSUME NEW r \in Rpc, Call(r) PROVE TypeOK'
  BY <1>5 DEF Call, End
<1>6. CASE TerminateBegin
  BY <1>6 DEF TerminateBegin, Record
<1>7. CASE TerminateEnd
  <2>1. entry' \in [v : {"none", "active", "dead"}, at : 0..MaxNow, of : 1..MaxInc,
                    own : BOOLEAN]
    <3>1. CASE Invalidate
      BY <3>1 DEF Invalidate
    <3>2. CASE UNCHANGED entry
      BY <3>2
    <3> QED
      BY <1>7, <3>1, <3>2, Zenon DEF TerminateEnd
  <2>2. up' \in {"ACTIVE", "CREATING", "GONE"}
    BY <1>7 DEF TerminateEnd
  <2>3. term' \in BOOLEAN /\ cut' \in BOOLEAN
    BY <1>7, Zenon DEF TerminateEnd
  <2>4. UNCHANGED <<inc, now, pc, ans, about, result, att, late, excuse, cur, found>>
    BY <1>7, Zenon DEF TerminateEnd
  <2> QED
    BY <2>1, <2>2, <2>3, <2>4
<1>8. CASE Forget
  BY <1>8 DEF Forget, Invalidate
<1>9. CASE Find
  BY <1>9 DEF Find
<1>10. CASE MarkFound
  BY <1>10 DEF MarkFound, Record
<1>11. CASE DropFound
  BY <1>11 DEF DropFound
<1>12. CASE ServerEnds
  BY <1>12 DEF ServerEnds
<1>13. CASE ServerRecreates
  BY <1>13 DEF ServerRecreates
<1>14. CASE ServerStarts
  BY <1>14 DEF ServerStarts
<1>15. CASE Tick
  BY <1>15 DEF Tick
<1>16. CASE UNCHANGED vars
  BY <1>16 DEF vars
<1> QED
  BY <1>1, <1>2, <1>3, <1>4, <1>5, <1>6, <1>7, <1>8, <1>9, <1>10, <1>11, <1>12, <1>13,
     <1>14, <1>15, <1>16 DEF Next, RpcStep

\* An RPC keeps its invariant when others take their steps: incarnations only
\* ever get more, and a session that is gone comes back as a new one.
LEMMA Bystander ==
    ASSUME TypeOK, NEW r \in Rpc, Thread(r),
           pc'[r] = pc[r], ans'[r] = ans[r], about'[r] = about[r],
           result'[r] = result[r], att'[r] = att[r],
           late'[r] = late[r], excuse'[r] = excuse[r],
           \/ inc' = inc /\ (up = "GONE" => up' = "GONE")
           \/ inc' = inc + 1
    PROVE  Thread(r)'
BY DEF TypeOK, Thread, Gone, Answers

\* A step of an RPC.
LEMMA RpcKeeps ==
    ASSUME TypeOK, Honest, NEW r \in Rpc, Thread(r),
           Issue(r) \/ RpcStep(r)
    PROVE  /\ Thread(r)' /\ Honest'
           /\ UNCHANGED <<up, inc>>
           /\ \A s \in Rpc \ {r} :
                 /\ pc'[s] = pc[s] /\ ans'[s] = ans[s] /\ about'[s] = about[s]
                 /\ result'[s] = result[s]
                 /\ att'[s] = att[s] /\ late'[s] = late[s] /\ excuse'[s] = excuse[s]
<1> USE DEF TypeOK, Pcs, Answers, Thread, Honest, OutageIsNoVerdict, Gone, server, session
<1>1. CASE Issue(r)
  BY <1>1 DEF Issue
<1>2. CASE PreGuard(r)
  BY <1>2 DEF PreGuard, End
<1>3. CASE Answer(r)
  BY <1>3 DEF Answer
<1>4. CASE Verdict(r)
  BY <1>4 DEF Verdict, End, Record
<1>5. CASE Call(r)
  BY <1>5 DEF Call, End
<1> QED
  BY <1>1, <1>2, <1>3, <1>4, <1>5 DEF RpcStep

\* A step of getOrCreate() or stop(), of Dataproc or of the clock.
Other ==
    \/ TerminateBegin \/ TerminateEnd \/ Forget \/ Find \/ MarkFound \/ DropFound
    \/ ServerEnds \/ ServerRecreates \/ ServerStarts \/ Tick \/ UNCHANGED vars

LEMMA OthersKeep ==
    ASSUME TypeOK, Honest, Other
    PROVE  /\ Honest'
           /\ UNCHANGED <<pc, ans, about, result, att, late, excuse>>
           /\ \/ inc' = inc /\ (up = "GONE" => up' = "GONE")
              \/ inc' = inc + 1
<1> USE DEF Honest, OutageIsNoVerdict, Gone, TypeOK, server, rpcs, session
<1>1. CASE TerminateBegin
  BY <1>1 DEF TerminateBegin, Record
<1>2. CASE TerminateEnd
  BY <1>2 DEF TerminateEnd, Invalidate
<1>3. CASE Forget
  BY <1>3 DEF Forget, Invalidate
<1>4. CASE Find
  BY <1>4 DEF Find
<1>5. CASE MarkFound
  BY <1>5 DEF MarkFound, Record
<1>6. CASE DropFound
  BY <1>6 DEF DropFound
<1>7. CASE ServerEnds
  BY <1>7 DEF ServerEnds
<1>8. CASE ServerRecreates
  BY <1>8 DEF ServerRecreates
<1>9. CASE ServerStarts
  BY <1>9 DEF ServerStarts
<1>10. CASE Tick
  BY <1>10 DEF Tick
<1>11. CASE UNCHANGED vars
  BY <1>11 DEF vars
<1> QED
  BY <1>1, <1>2, <1>3, <1>4, <1>5, <1>6, <1>7, <1>8, <1>9, <1>10, <1>11 DEF Other

\* Every step keeps the inductive invariant.
LEMMA StepIInv == IInv /\ [Next]_vars => IInv'
<1> SUFFICES ASSUME IInv, [Next]_vars PROVE IInv'
  OBVIOUS
<1>1. TypeOK /\ TypeOK' /\ Honest
  BY TypeStep DEF IInv
<1>2. \A r \in Rpc : Thread(r)
  BY DEF IInv
<1>3. ASSUME NEW r \in Rpc, Issue(r) \/ RpcStep(r) PROVE IInv'
  <2>1. /\ Thread(r)' /\ Honest' /\ UNCHANGED <<up, inc>>
        /\ \A s \in Rpc \ {r} :
              /\ pc'[s] = pc[s] /\ ans'[s] = ans[s] /\ about'[s] = about[s]
              /\ result'[s] = result[s]
              /\ att'[s] = att[s] /\ late'[s] = late[s] /\ excuse'[s] = excuse[s]
    BY <1>1, <1>2, <1>3, RpcKeeps
  <2>2. ASSUME NEW s \in Rpc \ {r} PROVE Thread(s)'
    BY <1>1, <1>2, <2>1, Bystander
  <2> QED
    BY <1>1, <2>1, <2>2 DEF IInv
<1>4. CASE Other
  <2>1. /\ Honest'
        /\ UNCHANGED <<pc, ans, about, result, att, late, excuse>>
        /\ \/ inc' = inc /\ (up = "GONE" => up' = "GONE")
           \/ inc' = inc + 1
    BY <1>1, <1>4, OthersKeep
  <2>2. ASSUME NEW s \in Rpc PROVE Thread(s)'
    BY <1>1, <1>2, <2>1, Bystander
  <2> QED
    BY <1>1, <2>1, <2>2 DEF IInv
<1> QED
  BY <1>3, <1>4 DEF Next, Other

\* The inductive invariant holds in every reachable state.
LEMMA Invariance == Spec => []IInv
BY InitIInv, StepIInv, PTL DEF Spec

-----------------------------------------------------------------------------

\* Type correctness: every variable has its type.
THEOREM TypeCorrect == Spec => []TypeOK
<1>1. IInv => TypeOK
  BY DEF IInv
<1> QED
  BY <1>1, Invariance, PTL

\* An RPC that was issued after its session was gone ends in the error that says
\* so, whatever the cache held, if Dataproc could be asked (client/core.py).
THEOREM DeathIsTold == Spec => []DeathSurfaces
<1>1. IInv => DeathSurfaces
  BY DEF IInv, Thread, DeathSurfaces
<1> QED
  BY <1>1, Invariance, PTL

\* The cache never takes an outage, or a failed termination, for the death of the
\* session (session.py's liveness cache).
THEOREM DeadIsTrue == Spec => []OutageIsNoVerdict
<1>1. IInv => OutageIsNoVerdict
  BY DEF IInv, Honest
<1> QED
  BY <1>1, Invariance, PTL
=============================================================================
