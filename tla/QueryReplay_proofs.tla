-------------------------- MODULE QueryReplay_proofs --------------------------
(***************************************************************************)
(* Proofs about QueryReplay, for any set of queries and any number of      *)
(* progress messages, session calls and clearProgressHandlers() calls.     *)
(* The inductive invariant follows one query through its attempts: what    *)
(* the server was asked for and which bars may be open at each point.      *)
(***************************************************************************)
EXTENDS QueryReplay, TLAPS

\* A clearProgressHandlers() registers at most one handler again.
HandlerBound == clearing <= clears /\ handlers + clearing <= clears + 1

\* One query: its executions and its bars.  The first attempt's bar is gone when
\* the second starts, and the second's when only the caller's is left to close.
Course(q) ==
    /\ c[q].pc = "idle" => c[q].att = 1 /\ runs[q] = 0
    /\ c[q].pc # "idle" /\ c[q].att = 1 => runs[q] = 1
    /\ c[q].att = 1 => <<q, 2>> \notin bars
    /\ c[q].att = 2 => /\ RunsAgain(q) /\ plan[q].fetch
                       /\ runs[q] \in {1, 2}
                       /\ <<q, 1>> \notin bars
    /\ c[q].pc = "closeOld" => c[q].att = 1 /\ RunsAgain(q) /\ plan[q].fetch
    /\ c[q].pc = "closeNew" => c[q].att = 2
    /\ c[q].pc = "closeReq" => plan[q].fetch /\ <<q, 2>> \notin bars
    /\ c[q].pc = "done" /\ plan[q].fetch => {<<q, 1>>, <<q, 2>>} \cap bars = {}

\* The inductive invariant.
IInv == TypeOK /\ HandlerBound /\ \A q \in Query : Course(q)

-----------------------------------------------------------------------------

\* Every initial state satisfies the inductive invariant.
LEMMA InitIInv == Init => IInv
<1> SUFFICES ASSUME Init PROVE IInv
  OBVIOUS
<1>1. 1 \in 1..(MaxClears + 2) /\ 0 \in 0..MaxUpdates
  BY QueryAssumption
<1>2. c \in [Query -> Call] /\ \A q \in Query : c[q].pc = "idle" /\ c[q].att = 1
  <2> DEFINE r == [pc |-> "idle", att |-> 1, out |-> "none", tasks |-> FALSE,
                   upd |-> 0, idx |-> 1]
  <2>1. r \in Call /\ r.pc = "idle" /\ r.att = 1
    BY <1>1 DEF Call, CallPc, Outcome
  <2>2. c = [q \in Query |-> r]
    BY DEF Init
  <2> HIDE DEF r
  <2> QED
    BY <2>1, <2>2
<1>3. /\ plan \in [Query -> Plan] /\ enabled \in BOOLEAN /\ bars = {} /\ handlers = 1
      /\ clearing = 0 /\ clears = 0 /\ lock = "free" /\ holds = 0 /\ closed = FALSE
      /\ runs = [q \in Query |-> 0]
  BY DEF Init
<1>4. TypeOK
  <2>1. runs \in [Query -> 0..2]
    BY <1>3
  <2>2. handlers \in 0..(MaxClears + 1) /\ clears \in 0..MaxClears /\ clearing \in 0..MaxClears
        /\ holds \in 0..MaxHolds
    BY <1>3, QueryAssumption
  <2>3. closed \in BOOLEAN /\ lock \in {"free", "held"} /\ bars \subseteq Op
    BY <1>3
  <2> QED
    BY <1>2, <1>3, <2>1, <2>2, <2>3, Zenon DEF TypeOK
<1>5. \A q \in Query : Course(q)
  BY <1>2, <1>3 DEF Course
<1> QED
  BY <1>3, <1>4, <1>5 DEF IInv, HandlerBound

\* What the steps of a query have in common: the call goes on at another place,
\* and the other calls stay where they are.
Moves(q, pc, att) ==
    /\ c' \in [Query -> Call]
    /\ \A p \in Query \ {q} : c'[p] = c[p]
    /\ c'[q].pc = pc /\ c'[q].att = att

\* They open or close bars of their own query only, and let the server run only
\* that one.
Local(q) ==
    /\ \A p \in Query \ {q} : runs'[p] = runs[p]
    /\ bars' \subseteq Op
    /\ \A p \in Query \ {q}, k \in {1, 2} : <<p, k>> \in bars' <=> <<p, k>> \in bars
    /\ runs' \in [Query -> Nat]
    /\ Quiet

\* The server is asked at most once more, and a second time only if the query may
\* run again.
Asked(q, pc) ==
    \/ runs' = runs
    \/ /\ pc = "stream" /\ runs' = [runs EXCEPT ![q] = @ + 1]
       /\ runs[q] = 0 \/ (runs[q] = 1 /\ RunsAgain(q) /\ plan[q].fetch)

\* A step of one query leaves the course of the others as it is.
LEMMA OtherCourse ==
    ASSUME NEW q \in Query, NEW pc, NEW att, Moves(q, pc, att), Local(q),
           NEW p \in Query, p # q, Course(p)
    PROVE  Course(p)'
<1>1. /\ c'[p] = c[p] /\ runs'[p] = runs[p] /\ plan' = plan /\ enabled' = enabled
      /\ <<p, 1>> \in bars' <=> <<p, 1>> \in bars
      /\ <<p, 2>> \in bars' <=> <<p, 2>> \in bars
  BY DEF Moves, Local, Quiet
<1> QED
  BY <1>1 DEF Course, RunsAgain

\* A step of the query, as seen from outside.
Footprint(q) ==
    /\ c[q].pc # "done" /\ Quiet
    /\ \E pc, att : Moves(q, pc, att) /\ Asked(q, pc)

\* A query's step that is local and keeps its own course keeps the invariant.
LEMMA LocalStep ==
    ASSUME IInv, NEW q \in Query, c[q].pc # "done", NEW pc, NEW att,
           Moves(q, pc, att), Asked(q, pc), Local(q), Course(q)'
    PROVE  IInv' /\ Footprint(q)
<1>1. \A p \in Query : Course(p)'
  BY OtherCourse DEF IInv
<1>2. \A p \in Query : runs'[p] \in 0..2
  <2> TAKE p \in Query
  <2>1. c'[p].att \in {1, 2} /\ Course(p)'
    BY <1>1 DEF Moves, Call
  <2> QED
    BY <2>1 DEF Course
<1>3. runs' \in [Query -> 0..2]
  BY <1>2 DEF Local
<1>4. TypeOK'
  BY <1>3 DEF IInv, TypeOK, Moves, Local, Quiet
<1>5. Footprint(q)
  BY DEF Footprint, Local
<1>6. HandlerBound'
  BY DEF IInv, HandlerBound, Local, Quiet
<1> QED
  BY <1>1, <1>4, <1>5, <1>6 DEF IInv

\* Every step of a query keeps the inductive invariant.
LEMMA QueryKeeps ==
    ASSUME IInv, NEW q \in Query, QueryStep(q)
    PROVE  IInv' /\ Footprint(q)
<1> USE QueryAssumption
<1>0. /\ c \in [Query -> Call] /\ Course(q)
      /\ c[q].pc \in CallPc /\ c[q].att \in {1, 2}
      /\ runs \in [Query -> 0..2] /\ bars \subseteq Op
      /\ handlers \in 0..(MaxClears + 1)
      /\ c[q].upd \in 0..MaxUpdates /\ c[q].idx \in 1..(MaxClears + 2)
  BY DEF IInv, TypeOK, Call
<1>1. ASSUME runs' = runs, Quiet,
             \/ bars' = bars
             \/ \E k \in {1, 2} : bars' = bars \cup {<<q, k>>} \/ bars' = bars \ {<<q, k>>}
      PROVE  Local(q)
  BY <1>0, <1>1 DEF Local, Op
<1>2. ASSUME Ask(q), Quiet, bars' = bars \/ \E k \in {1, 2} : bars' = bars \ {<<q, k>>}
      PROVE  Local(q) /\ runs'[q] = IF closed THEN runs[q] ELSE runs[q] + 1
  BY <1>0, <1>2 DEF Local, Op, Ask
<1>3. CASE Execute(q)
  <2>1. Moves(q, "stream", c[q].att)
    BY <1>0, <1>3 DEF Execute, Moves, Call, CallPc
  <2>2. c[q].pc = "idle" /\ ~closed /\ Ask(q) /\ Quiet /\ bars' = bars
    BY <1>3 DEF Execute
  <2>3. Local(q) /\ runs'[q] = runs[q] + 1
    BY <1>2, <2>2
  <2>4. Course(q)'
    BY <1>0, <2>1, <2>2, <2>3 DEF Course, Moves
  <2>5. Asked(q, "stream") /\ c[q].pc # "done"
    BY <1>0, <2>2, Zenon DEF Asked, Ask, Course
  <2> QED
    BY <2>1, <2>3, <2>4, <2>5, LocalStep
<1>4. CASE Progress(q)
  <2> DEFINE up == c[q].upd + 1
  <2>1. PICK t \in BOOLEAN :
          c' = [c EXCEPT ![q] = [@ EXCEPT !.pc = "notify", !.idx = 1,
                                          !.upd = up, !.tasks = t]]
    BY <1>4, Zenon DEF Progress
  <2>2. Moves(q, "notify", c[q].att)
    <3>1. c[q].upd < MaxUpdates
      BY <1>4, Zenon DEF Progress
    <3>2. up \in 0..MaxUpdates /\ 1 \in 1..(MaxClears + 2)
      BY <1>0, <3>1
    <3> HIDE DEF up
    <3> QED
      BY <1>0, <2>1, <3>2, ZenonT(60) DEF Moves, Call, CallPc
  <2>3. c[q].pc = "stream" /\ Quiet /\ bars' = bars /\ runs' = runs
    BY <1>4 DEF Progress
  <2>4. Local(q)
    BY <1>1, <2>3
  <2>5. Course(q)'
    BY <1>0, <2>2, <2>3 DEF Course, Moves, RunsAgain, Quiet
  <2>6. Asked(q, "notify") /\ c[q].pc # "done"
    BY <2>3 DEF Asked
  <2> QED
    BY <2>2, <2>4, <2>5, <2>6, LocalStep
<1>5. CASE EndStream(q)
  <2>1. PICK o \in Outcome :
          c' = [c EXCEPT ![q] = [@ EXCEPT !.pc = "exit", !.idx = 1, !.out = o]]
    <3>1. {"error", "interrupt"} \subseteq Outcome /\ Outcome \ {"none"} \subseteq Outcome
      BY DEF Outcome
    <3> QED
      BY <1>5, <3>1, Zenon DEF EndStream
  <2>2. Moves(q, "exit", c[q].att)
    <3>1. 1 \in 1..(MaxClears + 2)
      OBVIOUS
    <3> QED
      BY <1>0, <2>1, <3>1, ZenonT(60) DEF Moves, Call, CallPc
  <2>3. c[q].pc = "stream" /\ Quiet /\ bars' = bars /\ runs' = runs
    BY <1>5 DEF EndStream
  <2>4. Local(q)
    BY <1>1, <2>3
  <2>5. Course(q)'
    BY <1>0, <2>2, <2>3 DEF Course, Moves, RunsAgain, Quiet
  <2>6. Asked(q, "exit") /\ c[q].pc # "done"
    BY <2>3 DEF Asked
  <2> QED
    BY <2>2, <2>4, <2>5, <2>6, LocalStep
<1>6. CASE Handler(q)
  <2>0. c[q].idx <= handlers
    BY <1>6, Zenon DEF Handler
  <2>1. c[q].idx + 1 \in 1..(MaxClears + 2)
    BY <1>0, <2>0
  <2>2. Moves(q, c[q].pc, c[q].att)
    BY <1>0, <1>6, <2>1, ZenonT(60) DEF Handler, Moves, Call
  <2>3. /\ c[q].pc \in {"notify", "exit"} /\ Quiet /\ runs' = runs
        /\ \/ bars' = bars
           \/ bars' = bars \cup {<<q, c[q].att>>} \/ bars' = bars \ {<<q, c[q].att>>}
    BY <1>6, Zenon DEF Handler, CurOp
  <2>4. Local(q)
    BY <1>0, <1>1, <2>3
  <2>5. Course(q)'
    BY <1>0, <2>2, <2>3 DEF Course, Moves, RunsAgain, Quiet
  <2>6. Asked(q, c[q].pc) /\ c[q].pc # "done"
    BY <2>3 DEF Asked
  <2> QED
    BY <2>2, <2>4, <2>5, <2>6, LocalStep
<1>7. CASE Notified(q)
  <2>1. \E pc \in {"stream", "ended"} : Moves(q, pc, c[q].att)
    BY <1>0, <1>7, ZenonT(60) DEF Notified, Moves, Call, CallPc
  <2>2. PICK pc \in {"stream", "ended"} : Moves(q, pc, c[q].att)
    BY <2>1
  <2>3. c[q].pc \in {"notify", "exit"} /\ Quiet /\ bars' = bars /\ runs' = runs
    BY <1>7 DEF Notified
  <2>4. Local(q)
    BY <1>1, <2>3
  <2>5. Course(q)'
    BY <1>0, <2>2, <2>3 DEF Course, Moves, RunsAgain, Quiet
  <2>6. Asked(q, pc) /\ c[q].pc # "done"
    BY <2>3 DEF Asked
  <2> QED
    BY <2>2, <2>4, <2>5, <2>6, LocalStep
<1>8. CASE ReplayHook(q)
  <2>1. PICK pc \in {"done", "closeNew", "closeOld", "closeReq"} :
          /\ c' = [c EXCEPT ![q].pc = pc]
          /\ pc = "done" <=> ~plan[q].fetch
          /\ pc = "closeNew" => c[q].att = 2
          /\ pc \in {"closeOld", "closeReq"} => c[q].att # 2
          /\ pc = "closeOld" => RunsAgain(q)
    BY <1>8, Zenon DEF ReplayHook
  <2>2. Moves(q, pc, c[q].att)
    BY <1>0, <2>1, ZenonT(60) DEF Moves, Call, CallPc
  <2>3. c[q].pc = "ended" /\ Quiet /\ bars' = bars /\ runs' = runs
    BY <1>8 DEF ReplayHook
  <2>4. Local(q)
    BY <1>1, <2>3
  <2>5. Course(q)'
    BY <1>0, <2>1, <2>2, <2>3 DEF Course, Moves, RunsAgain, Quiet
  <2>6. Asked(q, pc) /\ c[q].pc # "done"
    BY <2>3 DEF Asked
  <2> QED
    BY <2>2, <2>4, <2>5, <2>6, LocalStep
<1>9. CASE Replay(q)
  <2>1. Moves(q, "stream", 2)
    BY <1>0, <1>9, ZenonT(60) DEF Replay, Moves, Call, CallPc, Outcome
  <2>2. /\ c[q].pc = "closeOld" /\ Ask(q) /\ Quiet
        /\ bars' = bars \ {<<q, c[q].att>>}
    BY <1>9 DEF Replay, CloseBar, CurOp
  <2>3. Local(q) /\ runs'[q] = IF closed THEN runs[q] ELSE runs[q] + 1
    BY <1>0, <1>2, <2>2
  <2>4. c[q].att = 1 /\ RunsAgain(q) /\ plan[q].fetch /\ runs[q] = 1 /\ <<q, 2>> \notin bars
    BY <1>0, <2>2 DEF Course
  <2>5. Course(q)'
    BY <2>1, <2>2, <2>3, <2>4 DEF Course, Moves, RunsAgain, Quiet
  <2>6. Asked(q, "stream") /\ c[q].pc # "done"
    BY <2>2, <2>4 DEF Asked, Ask
  <2> QED
    BY <2>1, <2>3, <2>5, <2>6, LocalStep
<1>10. CASE CloseNew(q)
  <2>1. Moves(q, "closeReq", c[q].att)
    BY <1>0, <1>10, ZenonT(60) DEF CloseNew, Moves, Call, CallPc
  <2>2. /\ c[q].pc = "closeNew" /\ Quiet /\ runs' = runs
        /\ bars' = bars \ {<<q, c[q].att>>}
    BY <1>10 DEF CloseNew, CloseBar, CurOp
  <2>3. Local(q)
    BY <1>0, <1>1, <2>2
  <2>4. Course(q)'
    BY <1>0, <2>1, <2>2 DEF Course, Moves, RunsAgain, Quiet
  <2>5. Asked(q, "closeReq") /\ c[q].pc # "done"
    BY <2>2 DEF Asked
  <2> QED
    BY <2>1, <2>3, <2>4, <2>5, LocalStep
<1>11. CASE CloseReq(q)
  <2>1. Moves(q, "done", c[q].att)
    BY <1>0, <1>11, ZenonT(60) DEF CloseReq, Moves, Call, CallPc
  <2>2. c[q].pc = "closeReq" /\ Quiet /\ runs' = runs /\ bars' = bars \ {<<q, 1>>}
    BY <1>11 DEF CloseReq, CloseBar
  <2>3. Local(q)
    BY <1>1, <2>2
  <2>4. Course(q)'
    BY <1>0, <2>1, <2>2 DEF Course, Moves, RunsAgain, Quiet
  <2>5. Asked(q, "done") /\ c[q].pc # "done"
    BY <2>2 DEF Asked
  <2> QED
    BY <2>1, <2>3, <2>4, <2>5, LocalStep
<1> QED
  BY <1>3, <1>4, <1>5, <1>6, <1>7, <1>8, <1>9, <1>10, <1>11 DEF QueryStep

\* So does every step of another thread, which touches no call and no bar.
LEMMA OthersKeep ==
    ASSUME IInv, ClearBegin \/ ClearEnd \/ Hold \/ Release \/ UNCHANGED vars
    PROVE  IInv'
<1> USE QueryAssumption DEF IInv, TypeOK, HandlerBound
<1>1. c' = c /\ bars' = bars /\ runs' = runs /\ plan' = plan /\ enabled' = enabled
  BY DEF ClearBegin, ClearEnd, Hold, Release, vars
<1>2. \A q \in Query : Course(q)'
  BY <1>1 DEF Course, RunsAgain
<1>3. CASE ClearBegin
  BY <1>1, <1>2, <1>3 DEF ClearBegin
<1>4. CASE ClearEnd
  BY <1>1, <1>2, <1>4 DEF ClearEnd
<1>5. CASE Hold
  BY <1>1, <1>2, <1>5 DEF Hold
<1>6. CASE Release
  <2>1. /\ closed' = closed \/ closed' = TRUE
        /\ handlers' \in {0, handlers} /\ lock' = "free"
        /\ clearing' = clearing /\ clears' = clears /\ holds' = holds
    BY <1>6 DEF Release
  <2>2. closed' \in BOOLEAN
    BY <2>1, Zenon
  <2>3. TypeOK'
    BY <1>1, <2>1, <2>2
  <2>4. HandlerBound'
    <3>1. handlers' = 0 \/ handlers' = handlers
      BY <2>1
    <3>2. clearing' = clearing /\ clears' = clears
      BY <2>1
    <3>3. /\ clearing \in Nat /\ clears \in Nat /\ handlers \in Nat
          /\ clearing <= clears /\ handlers + clearing <= clears + 1
      OBVIOUS
    <3> QED
      BY <3>1, <3>2, <3>3
  <2> HIDE DEF TypeOK, HandlerBound
  <2> QED
    BY <1>2, <2>3, <2>4
<1>7. CASE UNCHANGED vars
  BY <1>1, <1>2, <1>7 DEF vars
<1> QED
  BY <1>3, <1>4, <1>5, <1>6, <1>7

\* Every step keeps the inductive invariant.
LEMMA StepIInv == IInv /\ [Next]_vars => IInv'
<1> SUFFICES ASSUME IInv, [Next]_vars PROVE IInv'
  OBVIOUS
<1>1. ASSUME NEW q \in Query, QueryStep(q) PROVE IInv'
  BY <1>1, QueryKeeps
<1> QED
  BY <1>1, OthersKeep DEF Next

\* The inductive invariant holds in every reachable state.
LEMMA Invariance == Spec => []IInv
BY InitIInv, StepIInv, PTL DEF Spec

-----------------------------------------------------------------------------

\* Type correctness; no query has a third attempt.
THEOREM TypeCorrect == Spec => []TypeOK
<1>1. IInv => TypeOK
  BY DEF IInv
<1> QED
  BY <1>1, Invariance, PTL

\* When _execute_and_fetch has returned or raised, no progress bar of the query is
\* left, neither the caller's operation's nor the replay's.
THEOREM NoBarIsLeft == Spec => []NoBarLeft
<1>1. IInv => NoBarLeft
  BY DEF IInv, Course, NoBarLeft
<1> QED
  BY <1>1, Invariance, PTL

-----------------------------------------------------------------------------

\* A step of a query asks the server, concludes the query, or is not visible.
LEMMA StepMaps ==
    ASSUME IInv, NEW q \in Query, QueryStep(q)
    PROVE  QO!Ask(q) \/ QO!Conclude(q) \/ UNCHANGED QO!qvars
<1>1. c[q].pc # "done" /\ Quiet
  BY QueryKeeps DEF Footprint
<1>2. PICK pc, att : Moves(q, pc, att) /\ Asked(q, pc)
  BY QueryKeeps DEF Footprint
<1>3. Replayable' = Replayable
  BY <1>1 DEF Quiet, Replayable
<1>4. OutcomeOf[q] = "none"
  BY <1>1 DEF OutcomeOf
<1>5. CASE pc # "done"
  <2>1. \A p \in Query : c'[p].pc = "done" <=> c[p].pc = "done"
    BY <1>1, <1>2, <1>5 DEF Moves
  <2>2. \A p \in Query : c[p].pc = "done" => c'[p].out = c[p].out
    BY <1>1, <1>2 DEF Moves
  <2>3. OutcomeOf' = OutcomeOf
    BY <2>1, <2>2 DEF OutcomeOf
  <2>4. CASE runs' = runs
    BY <1>3, <2>3, <2>4 DEF QO!qvars
  <2>5. CASE runs' # runs
    <3>1. /\ runs' = [runs EXCEPT ![q] = @ + 1]
          /\ runs[q] = 0 \/ (runs[q] = 1 /\ RunsAgain(q) /\ plan[q].fetch)
      BY <1>2, <2>5 DEF Asked
    <3>2. RunsAgain(q) /\ plan[q].fetch => Replayable[q]
      <4>1. plan[q] \in Plan
        BY DEF IInv, TypeOK
      <4> QED
        BY <4>1 DEF RunsAgain, Replayable, Plan
    <3> QED
      BY <1>3, <1>4, <2>3, <3>1, <3>2 DEF QO!Ask
  <2> QED
    BY <2>4, <2>5
<1>6. CASE pc = "done"
  <2>1. runs' = runs /\ runs[q] > 0
    <3>1. runs' = runs
      BY <1>2, <1>6 DEF Asked
    <3>2. Course(q)'
      BY QueryKeeps DEF IInv
    <3>3. c'[q].pc = "done" /\ c'[q].att \in {1, 2}
      BY <1>2, <1>6 DEF Moves, Call
    <3> QED
      BY <3>1, <3>2, <3>3 DEF Course
  <2> DEFINE o == IF c'[q].out = "ok" THEN "rows" ELSE "raised"
  <2>2. OutcomeOf' = [OutcomeOf EXCEPT ![q] = o]
    BY <1>2, <1>6 DEF OutcomeOf, Moves
  <2> QED
    BY <1>3, <1>4, <2>1, <2>2 DEF QO!Conclude
<1> QED
  BY <1>5, <1>6

\* The replay implements QueryOutcome: whatever the transport does, a query is
\* asked for once, twice only if its plan has no side effect, and concludes once.
THEOREM ReplayImplements == Spec => RunsOnce
<1>1. Init => QO!QInit
  <2> SUFFICES ASSUME Init PROVE QO!QInit
    OBVIOUS
  <2>1. \A q \in Query : c[q].pc = "idle"
    <3> DEFINE r == [pc |-> "idle", att |-> 1, out |-> "none", tasks |-> FALSE,
                     upd |-> 0, idx |-> 1]
    <3>1. r.pc = "idle" /\ c = [q \in Query |-> r]
      BY DEF Init
    <3> HIDE DEF r
    <3> QED
      BY <3>1
  <2>2. OutcomeOf = [q \in Query |-> "none"]
    BY <2>1 DEF OutcomeOf
  <2>3. Replayable \in [Query -> BOOLEAN]
    BY Zenon DEF Init, Replayable
  <2>4. runs = [q \in Query |-> 0]
    BY DEF Init
  <2> QED
    BY <2>2, <2>3, <2>4 DEF QO!QInit
<1>2. IInv /\ [Next]_vars => [QO!QNext]_(QO!qvars)
  <2> SUFFICES ASSUME IInv, [Next]_vars PROVE [QO!QNext]_(QO!qvars)
    OBVIOUS
  <2>1. ASSUME NEW q \in Query, QueryStep(q) PROVE QO!Ask(q) \/ QO!Conclude(q) \/ UNCHANGED QO!qvars
    BY <2>1, StepMaps
  <2>2. CASE ClearBegin \/ ClearEnd \/ Hold \/ Release \/ UNCHANGED vars
    <3>1. c' = c /\ runs' = runs /\ plan' = plan /\ enabled' = enabled
      BY <2>2 DEF ClearBegin, ClearEnd, Hold, Release, vars
    <3> QED
      BY <3>1 DEF QO!qvars, OutcomeOf, Replayable
  <2> QED
    BY <2>1, <2>2 DEF Next, QO!QNext
<1> QED
  BY <1>1, <1>2, Invariance, PTL DEF Spec, RunsOnce, QO!QSpec
=============================================================================
