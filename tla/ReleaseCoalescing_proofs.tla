---------------------- MODULE ReleaseCoalescing_proofs ----------------------
(***************************************************************************)
(* Proofs about ReleaseCoalescing, for any set of iterators and workers    *)
(* and any number of responses.  The inductive invariant adds to the       *)
(* checked invariants the order of the ids an iterator has in its          *)
(* different places: dropped <= sent < in flight < pending < returned.     *)
(***************************************************************************)
EXTENDS ReleaseCoalescing, TLAPS

\* The ids of one iterator, from the server to the consumer.
IdOrder ==
    \A i \in Iter :
        /\ released[i] <= sent[i]
        /\ sent[i] <= returned[i]
        /\ nextId[i] <= returned[i]
        /\ nextId[i] # NoId => sent[i] < nextId[i]
        /\ cons[i] \in {"call", "store"} => nextId[i] < returned[i] /\ sent[i] < returned[i]
        /\ \A w \in Worker : wit[w] = i /\ wuntil[w] # NoId =>
               /\ sent[i] < wuntil[w]
               /\ wuntil[w] <= returned[i]
               /\ nextId[i] # NoId => wuntil[w] < nextId[i]
               /\ cons[i] \in {"call", "store"} => wuntil[w] < returned[i]

\* A worker that runs no drain has no until_id.
IdleWorker == \A w \in Worker : wit[w] = NoIter => wuntil[w] = NoId

\* The inductive invariant.
IInv == TypeOK /\ OneDrain /\ NoLostRelease /\ BusyHasOwner /\ IdOrder /\ IdleWorker

-----------------------------------------------------------------------------

\* Every initial state satisfies the inductive invariant.
LEMMA InitIInv == Init => IInv
BY ReleaseAssumption
   DEF Init, IInv, TypeOK, OneDrain, NoLostRelease, BusyHasOwner, IdOrder,
       IdleWorker, NoId, CPc, Pool

\* Every step keeps the types: ids stay below MaxId because only send() counts
\* them up, under its bound.
LEMMA TypeStep == TypeOK /\ [Next]_vars => TypeOK'
<1> SUFFICES ASSUME TypeOK, [Next]_vars PROVE TypeOK'
  OBVIOUS
<1> USE ReleaseAssumption DEF TypeOK, NoId, CPc, Pool
<1>1. ASSUME NEW i \in Iter, Send(i) PROVE TypeOK'
  BY <1>1 DEF Send
<1>2. ASSUME NEW i \in Iter, ReleaseAll(i) PROVE TypeOK'
  BY <1>2 DEF ReleaseAll
<1>3. ASSUME NEW i \in Iter, ReleaseUntil(i) PROVE TypeOK'
  <2>1. /\ nextId' = [nextId EXCEPT ![i] = returned[i]]
        /\ busy' = [busy EXCEPT ![i] = TRUE] /\ skipped' = [skipped EXCEPT ![i] = FALSE]
    BY <1>3 DEF ReleaseUntil
  <2>2. \E c \in {"run", "submit"} : cons' = [cons EXCEPT ![i] = c]
    BY <1>3 DEF ReleaseUntil
  <2>3. cons' \in [Iter -> CPc]
    BY <2>2
  <2>4. nextId' \in [Iter -> 0..MaxId]
    BY <2>1
  <2>5. busy' \in [Iter -> BOOLEAN] /\ skipped' \in [Iter -> BOOLEAN]
    BY <2>1
  <2> QED
    BY <1>3, <2>3, <2>4, <2>5 DEF ReleaseUntil
<1>3a. ASSUME NEW i \in Iter, CheckComplete(i) PROVE TypeOK'
  <2>1. \E c \in {"run", "store"} : cons' = [cons EXCEPT ![i] = c]
    BY <1>3a DEF CheckComplete
  <2>2. cons' \in [Iter -> CPc]
    BY <2>1
  <2> QED
    BY <1>3a, <2>2 DEF CheckComplete
<1>4. ASSUME NEW i \in Iter, Submit(i) PROVE TypeOK'
  BY <1>4 DEF Submit
<1>5. ASSUME NEW i \in Iter, Refused(i) PROVE TypeOK'
  BY <1>5 DEF Refused
<1>6. ASSUME NEW w \in Worker, NEW i \in Iter, PickUp(w, i) PROVE TypeOK'
  BY <1>6 DEF PickUp
<1>7. ASSUME NEW w \in Worker, NEW i \in Iter, DrainTake(w, i) PROVE TypeOK'
  <2>1. /\ busy' = busy \/ busy' = [busy EXCEPT ![i] = FALSE]
        /\ wit' = wit \/ wit' = [wit EXCEPT ![w] = NoIter]
        /\ wuntil' = wuntil \/ wuntil' = [wuntil EXCEPT ![w] = nextId[i]]
        /\ nextId' = [nextId EXCEPT ![i] = 0]
    BY <1>7 DEF DrainTake
  <2>2. busy' \in [Iter -> BOOLEAN] /\ wit' \in [Worker -> Iter \cup {NoIter}]
    BY <2>1
  <2>3. wuntil' \in [Worker -> 0..MaxId] /\ nextId' \in [Iter -> 0..MaxId]
    BY <2>1
  <2> QED
    BY <1>7, <2>2, <2>3 DEF DrainTake
<1>8. ASSUME NEW w \in Worker, NEW i \in Iter, DrainSend(w, i) PROVE TypeOK'
  BY <1>8 DEF DrainSend
<1>9. CASE PoolShutdown
  BY <1>9 DEF PoolShutdown
<1>10. CASE PoolCreate
  BY <1>10 DEF PoolCreate
<1>11. CASE UNCHANGED vars
  BY <1>11 DEF vars
<1> QED
  BY <1>1, <1>2, <1>3, <1>3a, <1>4, <1>5, <1>6, <1>7, <1>8, <1>9, <1>10, <1>11
     DEF Next, Consumer, Drain

\* An iterator never gets a second drain, and one that is on the way keeps busy.
LEMMA DrainStep ==
    IInv /\ [Next]_vars => OneDrain' /\ BusyHasOwner' /\ IdleWorker'
<1> SUFFICES ASSUME IInv, [Next]_vars
             PROVE OneDrain' /\ BusyHasOwner' /\ IdleWorker'
  OBVIOUS
<1> USE ReleaseAssumption
    DEF IInv, TypeOK, OneDrain, BusyHasOwner, IdleWorker, NoId, CPc
<1>1. ASSUME NEW i \in Iter, Send(i)
      PROVE OneDrain' /\ BusyHasOwner' /\ IdleWorker'
  BY <1>1 DEF Send
<1>2. ASSUME NEW i \in Iter, ReleaseAll(i)
      PROVE OneDrain' /\ BusyHasOwner' /\ IdleWorker'
  BY <1>2 DEF ReleaseAll
<1>3. ASSUME NEW i \in Iter, CheckComplete(i) \/ ReleaseUntil(i)
      PROVE OneDrain' /\ BusyHasOwner' /\ IdleWorker'
  BY <1>3 DEF CheckComplete, ReleaseUntil
<1>4. ASSUME NEW i \in Iter, Submit(i)
      PROVE OneDrain' /\ BusyHasOwner' /\ IdleWorker'
  BY <1>4 DEF Submit
<1>5. ASSUME NEW i \in Iter, Refused(i)
      PROVE OneDrain' /\ BusyHasOwner' /\ IdleWorker'
  BY <1>5 DEF Refused
<1>6. ASSUME NEW w \in Worker, NEW i \in Iter, PickUp(w, i)
      PROVE OneDrain' /\ BusyHasOwner' /\ IdleWorker'
  BY <1>6 DEF PickUp
<1>7. ASSUME NEW w \in Worker, NEW i \in Iter, DrainTake(w, i)
      PROVE OneDrain' /\ BusyHasOwner' /\ IdleWorker'
  BY <1>7 DEF DrainTake
<1>8. ASSUME NEW w \in Worker, NEW i \in Iter, DrainSend(w, i)
      PROVE OneDrain' /\ BusyHasOwner' /\ IdleWorker'
  BY <1>8 DEF DrainSend
<1>9. CASE PoolShutdown
  BY <1>9 DEF PoolShutdown
<1>10. CASE PoolCreate
  BY <1>10 DEF PoolCreate
<1>11. CASE UNCHANGED vars
  BY <1>11 DEF vars
<1> QED
  BY <1>1, <1>2, <1>3, <1>4, <1>5, <1>6, <1>7, <1>8, <1>9, <1>10, <1>11
     DEF Next, Consumer, Drain

\* A drain leaves only when nothing is pending, under the lock that
\* _release_until stores the next id with.
LEMMA LostStep == IInv /\ [Next]_vars => NoLostRelease'
<1> SUFFICES ASSUME IInv, [Next]_vars PROVE NoLostRelease'
  OBVIOUS
<1> USE ReleaseAssumption DEF IInv, TypeOK, NoLostRelease, NoId
<1>1. ASSUME NEW i \in Iter, Send(i) PROVE NoLostRelease'
  BY <1>1 DEF Send
<1>2. ASSUME NEW i \in Iter, ReleaseAll(i) PROVE NoLostRelease'
  BY <1>2 DEF ReleaseAll
<1>3. ASSUME NEW i \in Iter, CheckComplete(i) \/ ReleaseUntil(i) PROVE NoLostRelease'
  BY <1>3 DEF CheckComplete, ReleaseUntil
<1>4. ASSUME NEW i \in Iter, Submit(i) PROVE NoLostRelease'
  BY <1>4 DEF Submit
<1>5. ASSUME NEW i \in Iter, Refused(i) PROVE NoLostRelease'
  BY <1>5 DEF Refused
<1>6. ASSUME NEW w \in Worker, NEW i \in Iter, PickUp(w, i) PROVE NoLostRelease'
  BY <1>6 DEF PickUp
<1>7. ASSUME NEW w \in Worker, NEW i \in Iter, DrainTake(w, i) PROVE NoLostRelease'
  BY <1>7 DEF DrainTake
<1>8. ASSUME NEW w \in Worker, NEW i \in Iter, DrainSend(w, i) PROVE NoLostRelease'
  BY <1>8 DEF DrainSend
<1>9. CASE PoolShutdown
  BY <1>9 DEF PoolShutdown
<1>10. CASE PoolCreate
  BY <1>10 DEF PoolCreate
<1>11. CASE UNCHANGED vars
  BY <1>11 DEF vars
<1> QED
  BY <1>1, <1>2, <1>3, <1>4, <1>5, <1>6, <1>7, <1>8, <1>9, <1>10, <1>11
     DEF Next, Consumer, Drain

\* The ids keep their order; it rests on OneDrain, since a second drain could
\* send what it took before the first one did.
LEMMA OrderStep == IInv /\ [Next]_vars => IdOrder'
<1> SUFFICES ASSUME IInv, [Next]_vars PROVE IdOrder'
  OBVIOUS
<1> USE ReleaseAssumption DEF IInv, TypeOK, OneDrain, IdOrder, IdleWorker, NoId, CPc
<1>1. ASSUME NEW i \in Iter, Send(i) PROVE IdOrder'
  BY <1>1 DEF Send
<1>2. ASSUME NEW i \in Iter, ReleaseAll(i) PROVE IdOrder'
  BY <1>2 DEF ReleaseAll
<1>3. ASSUME NEW i \in Iter, CheckComplete(i) \/ ReleaseUntil(i) PROVE IdOrder'
  BY <1>3 DEF CheckComplete, ReleaseUntil
<1>4. ASSUME NEW i \in Iter, Submit(i) PROVE IdOrder'
  BY <1>4 DEF Submit
<1>5. ASSUME NEW i \in Iter, Refused(i) PROVE IdOrder'
  BY <1>5 DEF Refused
<1>6. ASSUME NEW w \in Worker, NEW i \in Iter, PickUp(w, i) PROVE IdOrder'
  BY <1>6 DEF PickUp
<1>7. ASSUME NEW w \in Worker, NEW i \in Iter, DrainTake(w, i) PROVE IdOrder'
  BY <1>7 DEF DrainTake
<1>8. ASSUME NEW w \in Worker, NEW i \in Iter, DrainSend(w, i) PROVE IdOrder'
  BY <1>8 DEF DrainSend
<1>9. CASE PoolShutdown
  BY <1>9 DEF PoolShutdown
<1>10. CASE PoolCreate
  BY <1>10 DEF PoolCreate
<1>11. CASE UNCHANGED vars
  BY <1>11 DEF vars
<1> QED
  BY <1>1, <1>2, <1>3, <1>4, <1>5, <1>6, <1>7, <1>8, <1>9, <1>10, <1>11
     DEF Next, Consumer, Drain

\* The invariant is inductive.
LEMMA StepIInv == IInv /\ [Next]_vars => IInv'
BY TypeStep, DrainStep, LostStep, OrderStep DEF IInv

\* The inductive invariant holds throughout every behaviour.
THEOREM Invariance == Spec => []IInv
BY InitIInv, StepIInv, PTL DEF Spec

\* Type correctness of the release bookkeeping.
THEOREM TypeCorrect == Spec => []TypeOK
BY Invariance, PTL DEF IInv

\* _ReleaseState.busy: at most one drain per iterator, and busy while it lives.
THEOREM SingleDrain == Spec => []OneDrain
BY Invariance, PTL DEF IInv

\* No release is lost between a drain that leaves and a consumer that stores
\* the next id.
THEOREM LosesNoRelease == Spec => []NoLostRelease
BY Invariance, PTL DEF IInv

\* busy never outlives the drain it stands for.
THEOREM BusyIsOwned == Spec => []BusyHasOwner
BY Invariance, PTL DEF IInv

\* Every ReleaseExecute(until) of an iterator goes further than the last.
THEOREM Advance == Spec => ReleasesAdvance
<1> DEFINE Adv == \A w \in Worker : \A i \in Iter :
                    wit[w] = i /\ wuntil[w] # NoId /\ wuntil'[w] = NoId
                        => sent'[i] > sent[i]
<1>1. IInv /\ [Next]_vars => [Adv]_vars
  <2> SUFFICES ASSUME IInv, Next, NEW v \in Worker, NEW j \in Iter,
                      wit[v] = j, wuntil[v] # NoId, wuntil'[v] = NoId
               PROVE sent'[j] > sent[j]
    OBVIOUS
  <2> USE DEF IInv, TypeOK, NoId
  <2>1. ASSUME NEW i \in Iter, Send(i) \/ ReleaseAll(i) \/ Consumer(i)
        PROVE FALSE
    BY <2>1 DEF Send, ReleaseAll, Consumer, CheckComplete, ReleaseUntil, Submit, Refused
  <2>2. ASSUME NEW w \in Worker, NEW i \in Iter, PickUp(w, i) \/ DrainTake(w, i)
        PROVE FALSE
    BY <2>2, ReleaseAssumption DEF PickUp, DrainTake
  <2>3. ~PoolShutdown /\ ~PoolCreate
    BY DEF PoolShutdown, PoolCreate
  <2>4. ASSUME NEW w \in Worker, NEW i \in Iter, DrainSend(w, i)
        PROVE sent'[j] > sent[j]
    <3>1. w = v /\ i = j
      BY <2>4 DEF DrainSend
    <3> QED
      BY <2>4, <3>1, ReleaseAssumption DEF DrainSend, IdOrder
  <2> QED
    BY <2>1, <2>2, <2>3, <2>4 DEF Next, Drain
<1> QED
  BY <1>1, Invariance, PTL DEF Spec, ReleasesAdvance

-----------------------------------------------------------------------------
(***************************************************************************)
(* The refinement of ReleasePoint.                                         *)
(***************************************************************************)

\* With at most one drain per iterator, Inflight is that drain's until_id.
InflightIs ==
    /\ DOMAIN Inflight = Iter
    /\ \A i \in Iter :
          /\ \A w \in Worker : wit[w] = i => Inflight[i] = wuntil[w]
          /\ (\A w \in Worker : wit[w] # i) => Inflight[i] = 0

\* The refinement mapping reads the drain that there is.
LEMMA InflightFact == IInv => InflightIs
BY DEF IInv, TypeOK, OneDrain, Inflight, NoId, InflightIs

\* The same of the state after a step.
LEMMA InflightFactNext == IInv' => InflightIs'
BY InflightFact, PTL

\* The initial states of the coalescing are initial states of the release point.
LEMMA InitRefines == Init => RP!PInit
BY DEF Init, RP!PInit, Inflight, NoId

\* Every step of the coalescing is a step of the release point or a stutter.
LEMMA StepRefines == IInv /\ IInv' /\ [Next]_vars => [RP!PNext]_(RP!pvars)
<1> SUFFICES ASSUME IInv, IInv', [Next]_vars PROVE [RP!PNext]_(RP!pvars)
  OBVIOUS
<1> DEFINE Stutter == UNCHANGED <<returned, Inflight, sent, released>>
<1> USE InflightFact, InflightFactNext
<1>0. UNCHANGED <<wit, wuntil>> => Inflight' = Inflight
  BY DEF Inflight
<1>1. ASSUME NEW i \in Iter, Send(i) PROVE RP!Return(i)
  BY <1>0, <1>1 DEF Send, RP!Return
<1>2. ASSUME NEW i \in Iter, ReleaseAll(i) \/ Consumer(i) PROVE Stutter
  BY <1>0, <1>2 DEF ReleaseAll, Consumer, CheckComplete, ReleaseUntil, Submit, Refused
<1>3. CASE PoolShutdown \/ PoolCreate \/ UNCHANGED vars
  <2>1. Stutter
    BY <1>0, <1>3 DEF PoolShutdown, PoolCreate, vars
  <2> QED
    BY <2>1 DEF RP!pvars
<1>4. ASSUME NEW w \in Worker, NEW i \in Iter, PickUp(w, i) PROVE Stutter
  <2>1. \A j \in Iter : Inflight'[j] = Inflight[j]
    BY <1>4, ReleaseAssumption
       DEF PickUp, IInv, TypeOK, OneDrain, NoId, InflightIs
  <2>2. Inflight' = Inflight
    BY <2>1 DEF Inflight
  <2> QED
    BY <1>4, <2>2 DEF PickUp
<1>5. ASSUME NEW w \in Worker, NEW i \in Iter, DrainTake(w, i)
      PROVE RP!Start(i) \/ Stutter
  <2>1. CASE nextId[i] = NoId \/ complete[i]
    <3>1. \A j \in Iter : Inflight'[j] = Inflight[j]
      BY <1>5, <2>1, ReleaseAssumption
         DEF DrainTake, IInv, TypeOK, OneDrain, NoId, InflightIs
    <3>2. Inflight' = Inflight
      BY <3>1 DEF Inflight
    <3> QED
      BY <1>5, <2>1, <3>2 DEF DrainTake
  <2>2. CASE ~(nextId[i] = NoId \/ complete[i])
    <3>1. \A j \in Iter : Inflight'[j] = [Inflight EXCEPT ![i] = nextId[i]][j]
      BY <1>5, <2>2, ReleaseAssumption
         DEF DrainTake, IInv, TypeOK, OneDrain, NoId, InflightIs
    <3>2. Inflight' = [Inflight EXCEPT ![i] = nextId[i]]
      BY <3>1 DEF Inflight
    <3>3. /\ Inflight[i] = 0
          /\ nextId[i] \in 1..MaxId
          /\ sent[i] < nextId[i]
          /\ nextId[i] <= returned[i]
      BY <1>5, <2>2, ReleaseAssumption
         DEF DrainTake, IInv, TypeOK, IdOrder, NoId, InflightIs
    <3> QED
      BY <1>5, <2>2, <3>2, <3>3 DEF DrainTake, RP!Start
  <2> QED
    BY <2>1, <2>2
<1>6. ASSUME NEW w \in Worker, NEW i \in Iter, DrainSend(w, i)
      PROVE RP!Finish(i)
  <2>1. \A j \in Iter : Inflight'[j] = [Inflight EXCEPT ![i] = 0][j]
    BY <1>6, ReleaseAssumption
       DEF DrainSend, IInv, TypeOK, OneDrain, NoId, InflightIs
  <2>2. Inflight' = [Inflight EXCEPT ![i] = 0]
    BY <2>1 DEF Inflight
  <2>3. Inflight[i] = wuntil[w] /\ Inflight[i] # 0
    BY <1>6 DEF DrainSend, NoId, InflightIs
  <2> QED
    BY <1>6, <2>2, <2>3 DEF DrainSend, RP!Finish
<1> QED
  BY <1>1, <1>2, <1>3, <1>4, <1>5, <1>6 DEF Next, Drain, RP!PNext, RP!pvars

\* The coalescing implements the sequential release point.
THEOREM ImplementsReleasePoint == Spec => Refinement
BY InitRefines, StepRefines, Invariance, PTL DEF Spec, Refinement, RP!PSpec
=============================================================================
