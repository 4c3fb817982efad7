------------------------- MODULE StreamingCall_proofs -------------------------
(***************************************************************************)
(* Proofs about StreamingCall, for any set of cancelling threads and any   *)
(* length of the stream: the status event is recorded once, a record that  *)
(* was written is final, and the outer span does not end while nobody has  *)
(* taken on the inner one.                                                 *)
(*                                                                         *)
(* None of the three is inductive: each depends on what the threads still  *)
(* have to do.  Told, Written and Nested say which of the pending steps    *)
(* can exist together with which flags.                                    *)
(***************************************************************************)
EXTENDS StreamingCall, SequenceTheorems, TLAPS

\* A step of a method, and an event of a span.
Op == {"init", "built", "next", "record", "claim", "status", "end", "untrack", "emit"}
          \X Layer

Name == {"status", "first_response"}

\* Every variable has its type.
TypeOK ==
    /\ over \in BOOLEAN /\ dropped \in BOOLEAN
    /\ callbacks \subseteq Layer /\ inflight \subseteq Layer
    /\ finished \in [Layer -> BOOLEAN]
    /\ recorded \in [Layer -> BOOLEAN]
    /\ ended \in [Layer -> BOOLEAN]
    /\ count \in [Layer -> Nat]
    /\ emitted \in [Layer -> Nat]
    /\ events \in [Layer -> Seq(Name)]
    /\ waiter \in {"out", "check", "asleep", "idle", "timeout"}
    /\ todo \in [Proc -> Seq(Op)]

\* The span has no status event.
Silent(l) == \A i \in 1..Len(events[l]) : events[l][i] # "status"

\* Thread p has x to do, now or later.
Pending(p, x) == \E i \in 1..Len(todo[p]) : todo[p][i] = x

\* At most one thread is about to add the status event of a layer.  It has set
\* _status_recorded, and the event is not there yet.
Told ==
    /\ \A p \in Proc : \A i \in 1..Len(todo[p]) : \A l \in Layer :
          todo[p][i] = <<"status", l>> => i = 1 /\ recorded[l] /\ Silent(l)
    /\ \A p, q \in Proc : \A l \in Layer :
          Pending(p, <<"status", l>>) /\ Pending(q, <<"status", l>>) => p = q
    /\ \A l \in Layer : ~recorded[l] => Silent(l)

\* At most one thread is about to write the record of a layer, right after it has
\* ended and untracked the span, and nothing was written before.
Written ==
    /\ \A p \in Proc : \A i \in 1..Len(todo[p]) : \A l \in Layer :
          todo[p][i] = <<"emit", l>> =>
              /\ ended[l] /\ emitted[l] = 0
              /\ i = 1 \/ (i = 2 /\ todo[p][1] = <<"untrack", l>>)
    /\ \A p, q \in Proc : \A l \in Layer :
          Pending(p, <<"emit", l>>) /\ Pending(q, <<"emit", l>>) => p = q
    /\ \A l \in Layer : ~ended[l] => emitted[l] = 0

\* Whoever is about to end the outer span has the inner one claimed before that.
InnerClaimed ==
    \A p \in Proc : \A i \in 1..Len(todo[p]) :
        todo[p][i] = <<"end", "outer">> =>
            finished["inner"] \/ \E j \in 1..(i - 1) : todo[p][j] = <<"claim", "inner">>

\* And whoever has claimed the inner one is about to end it.
Nested ==
    /\ InnerClaimed
    /\ finished["inner"] =>
          ended["inner"] \/ \E p \in Proc : Pending(p, <<"end", "inner">>)
    /\ ended["outer"] => finished["inner"]

-----------------------------------------------------------------------------

\* The steps a thread adds behind what it has to do when a call begins.
Opening == {"next", "record", "claim"}

\* A step that only begins calls: the threads' lists get longer at the end.
Begins ==
    /\ \A p \in Proc :
          /\ Len(todo[p]) <= Len(todo'[p])
          /\ \A i \in 1..Len(todo[p]) : todo'[p][i] = todo[p][i]
          /\ \A i \in 1..Len(todo'[p]) : i > Len(todo[p]) => todo'[p][i][1] \in Opening
    /\ UNCHANGED <<finished, recorded, ended, events, emitted>>

\* Adding to the end of a list leaves what is there.
LEMMA AppendShape ==
    ASSUME NEW s \in Seq(Op), NEW t \in Seq(Op),
           \A i \in 1..Len(t) : t[i][1] \in Opening
    PROVE  /\ s \o t \in Seq(Op)
           /\ Len(s) <= Len(s \o t)
           /\ \A i \in 1..Len(s) : (s \o t)[i] = s[i]
           /\ \A i \in 1..Len(s \o t) : i > Len(s) => (s \o t)[i][1] \in Opening
<1>1. /\ s \o t \in Seq(Op) /\ Len(s \o t) = Len(s) + Len(t)
      /\ \A i \in 1..(Len(s) + Len(t)) :
            (s \o t)[i] = IF i <= Len(s) THEN s[i] ELSE t[i - Len(s)]
  BY ConcatProperties
<1>2. Len(s) \in Nat /\ Len(t) \in Nat
  BY LenProperties
<1>3. ASSUME NEW i \in 1..Len(s \o t), i > Len(s)
      PROVE  (s \o t)[i][1] \in Opening
  <2>1. i - Len(s) \in 1..Len(t) /\ (s \o t)[i] = t[i - Len(s)]
    BY <1>1, <1>2, <1>3
  <2> QED
    BY <2>1
<1> QED
  BY <1>1, <1>2, <1>3

\* The same for two lists in a row.
LEMMA OpeningConcat ==
    ASSUME NEW s \in Seq(Op), NEW t \in Seq(Op),
           \A i \in 1..Len(s) : s[i][1] \in Opening,
           \A i \in 1..Len(t) : t[i][1] \in Opening
    PROVE  s \o t \in Seq(Op) /\ \A i \in 1..Len(s \o t) : (s \o t)[i][1] \in Opening
<1>1. Len(s) \in Nat /\ Len(s \o t) \in Nat
  BY LenProperties, ConcatProperties
<1>2. ASSUME NEW i \in 1..Len(s \o t) PROVE (s \o t)[i][1] \in Opening
  <2>1. CASE i <= Len(s)
    <3>1. i \in 1..Len(s) /\ (s \o t)[i] = s[i]
      BY <1>1, <2>1, AppendShape
    <3> QED
      BY <3>1
  <2>2. CASE i > Len(s)
    BY <2>2, AppendShape
  <2> QED
    BY <1>1, <2>1, <2>2
<1> QED
  BY <1>2, AppendShape

\* What the methods add: finishing a layer, a message, a callback.
LEMMA OpeningLists ==
    ASSUME NEW l \in Layer
    PROVE  /\ Finish(l) \in Seq(Op)
           /\ \A i \in 1..Len(Finish(l)) : Finish(l)[i][1] \in Opening
           /\ Called(l) \in Seq(Op)
           /\ \A i \in 1..Len(Called(l)) : Called(l)[i][1] \in Opening
<1>1. <<"record", l>> \in Op /\ <<"claim", l>> \in Op
  BY DEF Op
<1>2. Finish(l) \in Seq(Op) /\ \A i \in 1..Len(Finish(l)) : Finish(l)[i][1] \in Opening
  BY <1>1 DEF Finish, Opening
<1>3. Called(l) \in Seq(Op) /\ \A i \in 1..Len(Called(l)) : Called(l)[i][1] \in Opening
  BY <1>1 DEF Called, Opening
<1> QED
  BY <1>2, <1>3

\* A step of thread p: its first operation is done, and more is put in its place.
LEMMA ThenShape ==
    ASSUME TypeOK, NEW p \in Proc, NEW op, NEW l, At(p, op, l),
           NEW more \in Seq(Op), Then(p, more)
    PROVE  /\ Len(todo[p]) \in Nat \ {0} /\ Len(more) \in Nat
           /\ todo[p][1] = <<op, l>>
           /\ todo' \in [Proc -> Seq(Op)]
           /\ \A q \in Proc \ {p} : todo'[q] = todo[q]
           /\ Len(todo'[p]) = Len(more) + Len(todo[p]) - 1
           /\ \A i \in 1..Len(more) : todo'[p][i] = more[i]
           /\ \A i \in 2..Len(todo[p]) : todo'[p][Len(more) + i - 1] = todo[p][i]
           /\ \A i \in 1..Len(todo'[p]) : i > Len(more) =>
                 /\ i - Len(more) + 1 \in 2..Len(todo[p])
                 /\ todo'[p][i] = todo[p][i - Len(more) + 1]
<1> DEFINE s == todo[p]
           t == Tail(s)
<1>1. s \in Seq(Op) /\ s # <<>> /\ Head(s) = <<op, l>>
  BY DEF TypeOK, At
<1>2. Len(s) \in Nat \ {0} /\ Len(more) \in Nat /\ s[1] = <<op, l>>
  BY <1>1, LenProperties, HeadTailProperties, EmptySeq
<1>3. t \in Seq(Op) /\ Len(t) = Len(s) - 1 /\ \A i \in 1..Len(t) : t[i] = s[i + 1]
  BY <1>1, HeadTailProperties
<1>4. todo'[p] = more \o t /\ \A q \in Proc \ {p} : todo'[q] = todo[q]
  BY DEF Then, TypeOK
<1> HIDE DEF t
<1>5. /\ more \o t \in Seq(Op) /\ Len(more \o t) = Len(more) + Len(t)
      /\ \A i \in 1..(Len(more) + Len(t)) :
            (more \o t)[i] = IF i <= Len(more) THEN more[i] ELSE t[i - Len(more)]
  BY <1>3, ConcatProperties
<1>6. todo' \in [Proc -> Seq(Op)]
  BY <1>4, <1>5 DEF Then, TypeOK, t
<1> HIDE DEF s
<1>7. ASSUME NEW i \in 1..(Len(more) + Len(t)), i > Len(more)
      PROVE  i - Len(more) + 1 \in 2..Len(s) /\ (more \o t)[i] = s[i - Len(more) + 1]
  <2>1. i - Len(more) \in 1..Len(t) /\ (i - Len(more)) + 1 = i - Len(more) + 1
    BY <1>2, <1>3, <1>7
  <2>2. (more \o t)[i] = t[i - Len(more)]
    BY <1>2, <1>5, <1>7
  <2>3. t[i - Len(more)] = s[i - Len(more) + 1]
    BY <1>3, <2>1
  <2> QED
    BY <1>2, <1>3, <2>1, <2>2, <2>3
<1>8. ASSUME NEW i \in 2..Len(s) PROVE (more \o t)[Len(more) + i - 1] = s[i]
  <2> DEFINE k == Len(more) + i - 1
  <2>1. k \in 1..(Len(more) + Len(t)) /\ k > Len(more) /\ k - Len(more) + 1 = i
    BY <1>2, <1>3
  <2> HIDE DEF k
  <2>2. (more \o t)[k] = s[i]
    BY <1>7, <2>1
  <2> QED
    BY <2>2 DEF k
<1>9. \A i \in 1..Len(more) : (more \o t)[i] = more[i]
  BY <1>2, <1>3, <1>5
<1>10. Len(todo'[p]) = Len(more) + Len(s) - 1
  BY <1>2, <1>3, <1>4, <1>5
<1>11. 1..Len(todo'[p]) = 1..(Len(more) + Len(t))
  BY <1>4, <1>5
<1>12. \A i \in 1..Len(todo'[p]) : i > Len(more) =>
                 /\ i - Len(more) + 1 \in 2..Len(s)
                 /\ todo'[p][i] = s[i - Len(more) + 1]
  BY <1>4, <1>7, <1>11
<1> QED
  BY <1>2, <1>4, <1>6, <1>8, <1>9, <1>10, <1>12 DEF s

-----------------------------------------------------------------------------

\* A thread that is in no call begins one.
LEMMA StartShape ==
    ASSUME TypeOK, NEW p \in Proc, NEW ops \in Seq(Op), todo[p] = <<>>,
           \A i \in 1..Len(ops) : ops[i][1] \in Opening,
           Start(p, ops)
    PROVE  Begins /\ todo' \in [Proc -> Seq(Op)]
<1>1. /\ todo' = [todo EXCEPT ![p] = ops]
      /\ UNCHANGED <<finished, recorded, ended, events, emitted>>
  BY DEF Start
<1>2. todo'[p] = ops /\ \A q \in Proc \ {p} : todo'[q] = todo[q]
  BY <1>1 DEF TypeOK
<1>3. todo' \in [Proc -> Seq(Op)]
  BY <1>1 DEF TypeOK
<1>4. \A q \in Proc : todo[q] \in Seq(Op) /\ Len(todo[q]) \in Nat
  BY LenProperties DEF TypeOK
<1>5. Len(todo[p]) = 0 /\ Len(ops) \in Nat
  BY EmptySeq, LenProperties
<1>6. ASSUME NEW q \in Proc
      PROVE  /\ Len(todo[q]) <= Len(todo'[q])
             /\ \A i \in 1..Len(todo[q]) : todo'[q][i] = todo[q][i]
             /\ \A i \in 1..Len(todo'[q]) : i > Len(todo[q]) => todo'[q][i][1] \in Opening
  <2>1. CASE q = p
    BY <1>2, <1>5, <2>1
  <2>2. CASE q # p
    <3>1. todo'[q] = todo[q]
      BY <1>2, <2>2
    <3> QED
      BY <1>4, <3>1
  <2> QED
    BY <2>1, <2>2
<1> QED
  BY <1>1, <1>3, <1>6 DEF Begins

\* The final status arrives while some threads are where they were and others, that
\* were in no call, have begun one.
LEMMA StatusShape ==
    ASSUME TypeOK, NEW mine \in [Proc -> Seq(Op)],
           \A p \in Proc :
              \/ mine[p] = todo[p]
              \/ todo[p] = <<>> /\ \A i \in 1..Len(mine[p]) : mine[p][i][1] \in Opening,
           StatusArrives(mine)
    PROVE  Begins /\ todo' \in [Proc -> Seq(Op)]
<1> DEFINE called == Called("inner") \o Called("outer")
<1>1. called \in Seq(Op) /\ \A i \in 1..Len(called) : called[i][1] \in Opening
  <2>1. /\ Called("inner") \in Seq(Op) /\ Called("outer") \in Seq(Op)
        /\ \A i \in 1..Len(Called("inner")) : Called("inner")[i][1] \in Opening
        /\ \A i \in 1..Len(Called("outer")) : Called("outer")[i][1] \in Opening
    BY OpeningLists DEF Layer
  <2> QED
    BY <2>1, OpeningConcat
<1>2. ASSUME NEW p \in Proc
      PROVE  /\ mine[p] \o called \in Seq(Op)
             /\ todo'[p] = mine[p] \/ todo'[p] = mine[p] \o called
  <2>1. mine[p] \o called = (mine[p] \o Called("inner")) \o Called("outer")
    <3>1. Called("inner") \in Seq(Op) /\ Called("outer") \in Seq(Op) /\ mine[p] \in Seq(Op)
      BY OpeningLists DEF Layer
    <3> QED
      BY <3>1, ConcatAssociative
  <2>2. \/ todo'[p] = mine[p]
        \/ todo'[p] = (mine[p] \o Called("inner")) \o Called("outer")
    BY DEF StatusArrives
  <2>3. mine[p] \o called \in Seq(Op)
    BY <1>1, AppendShape
  <2> QED
    BY <2>1, <2>2, <2>3
<1> HIDE DEF called
<1>3. todo' \in [Proc -> Seq(Op)]
  <2>1. DOMAIN todo' = Proc /\ todo' = [p \in Proc |-> todo'[p]]
    BY DEF StatusArrives
  <2>2. \A p \in Proc : todo'[p] \in Seq(Op)
    BY <1>2
  <2> QED
    BY <2>1, <2>2
<1>4. ASSUME NEW p \in Proc
      PROVE  /\ Len(todo[p]) <= Len(todo'[p])
             /\ \A i \in 1..Len(todo[p]) : todo'[p][i] = todo[p][i]
             /\ \A i \in 1..Len(todo'[p]) : i > Len(todo[p]) => todo'[p][i][1] \in Opening
  <2>0. mine[p] \in Seq(Op) /\ Len(todo[p]) \in Nat /\ Len(mine[p]) \in Nat
    BY LenProperties DEF TypeOK
  <2>1. CASE mine[p] = todo[p]
    <3>1. CASE todo'[p] = mine[p]
      BY <2>0, <2>1, <3>1
    <3>2. CASE todo'[p] = mine[p] \o called
      BY <1>1, <2>0, <2>1, <3>2, AppendShape
    <3> QED
      BY <1>2, <3>1, <3>2
  <2>2. CASE todo[p] = <<>> /\ \A i \in 1..Len(mine[p]) : mine[p][i][1] \in Opening
    <3>1. Len(todo[p]) = 0 /\ Len(todo'[p]) \in Nat
      <4>1. todo'[p] \in Seq(Op)
        BY <1>3
      <4> QED
        BY <2>2, <4>1, EmptySeq, LenProperties
    <3>2. \A i \in 1..Len(todo'[p]) : todo'[p][i][1] \in Opening
      BY <1>1, <1>2, <2>0, <2>2, OpeningConcat
    <3> QED
      BY <3>1, <3>2
  <2> QED
    BY <2>1, <2>2
<1>5. UNCHANGED <<finished, recorded, ended, events, emitted>>
  BY DEF StatusArrives
<1> QED
  BY <1>3, <1>4, <1>5 DEF Begins

\* What begins a call: a message, an error, the end of the RPC, cancel(), the last
\* reference.
LEMMA BeginStep ==
    ASSUME TypeOK,
           \/ NextMessage \/ NextRaises \/ Drop \/ ServerEnds
           \/ \E p \in User : Cancel(p)
    PROVE  Begins /\ todo' \in [Proc -> Seq(Op)]
<1>0. Consumer \in Proc /\ Grpc \in Proc /\ User \subseteq Proc
  BY DEF Proc, User
<1>a. /\ Finish("inner") \o Finish("outer") \in Seq(Op)
      /\ Finish("outer") \o Finish("inner") \in Seq(Op)
      /\ \A i \in 1..Len(Finish("inner") \o Finish("outer")) :
            (Finish("inner") \o Finish("outer"))[i][1] \in Opening
      /\ \A i \in 1..Len(Finish("outer") \o Finish("inner")) :
            (Finish("outer") \o Finish("inner"))[i][1] \in Opening
  <2>1. /\ Finish("inner") \in Seq(Op) /\ Finish("outer") \in Seq(Op)
        /\ \A i \in 1..Len(Finish("inner")) : Finish("inner")[i][1] \in Opening
        /\ \A i \in 1..Len(Finish("outer")) : Finish("outer")[i][1] \in Opening
    BY OpeningLists DEF Layer
  <2> QED
    BY <2>1, OpeningConcat
<1>1. CASE NextMessage
  <2> DEFINE ops == <<<<"next", "inner">>, <<"next", "outer">>>>
  <2>1. ops \in Seq(Op) /\ \A i \in 1..Len(ops) : ops[i][1] \in Opening
    BY DEF Op, Layer, Opening
  <2>2. todo[Consumer] = <<>> /\ Start(Consumer, ops)
    BY <1>1 DEF NextMessage, Ready
  <2> HIDE DEF ops
  <2> QED
    BY <1>0, <2>1, <2>2, StartShape
<1>2. CASE NextRaises
  <2>1. todo[Consumer] = <<>> /\ Start(Consumer, Finish("inner") \o Finish("outer"))
    BY <1>2 DEF NextRaises, Ready
  <2> QED
    BY <1>0, <1>a, <2>1, StartShape
<1>3. CASE Drop
  <2> DEFINE del == Finish("outer") \o Finish("inner")
  <2>1. CASE At(Grpc, "status", "outer")
    <3>1. Start(Grpc, todo[Grpc] \o del)
      BY <1>3, <2>1 DEF Drop
    <3> HIDE DEF del
    <3>2. /\ todo' = [todo EXCEPT ![Grpc] = todo[Grpc] \o del]
          /\ UNCHANGED <<finished, recorded, ended, events, emitted>>
      BY <3>1 DEF Start
    <3>3. /\ todo'[Grpc] = todo[Grpc] \o del
          /\ \A q \in Proc \ {Grpc} : todo'[q] = todo[q]
      BY <1>0, <3>2 DEF TypeOK
    <3>4. \A q \in Proc : todo[q] \in Seq(Op) /\ Len(todo[q]) \in Nat
      BY LenProperties DEF TypeOK
    <3>5. del \in Seq(Op) /\ \A i \in 1..Len(del) : del[i][1] \in Opening
      BY <1>a DEF del
    <3>6. todo[Grpc] \o del \in Seq(Op)
      BY <1>0, <3>4, <3>5, AppendShape
    <3>7. todo' \in [Proc -> Seq(Op)]
      BY <3>2, <3>6 DEF TypeOK
    <3>8. ASSUME NEW q \in Proc
          PROVE  /\ Len(todo[q]) <= Len(todo'[q])
                 /\ \A i \in 1..Len(todo[q]) : todo'[q][i] = todo[q][i]
                 /\ \A i \in 1..Len(todo'[q]) :
                       i > Len(todo[q]) => todo'[q][i][1] \in Opening
      <4>1. CASE q = Grpc
        <5>1. todo[q] \in Seq(Op) /\ todo'[q] = todo[q] \o del
          BY <3>3, <3>4, <4>1
        <5> QED
          BY <3>5, <5>1, AppendShape
      <4>2. CASE q # Grpc
        <5>1. todo'[q] = todo[q]
          BY <3>3, <4>2
        <5> QED
          BY <3>4, <5>1
      <4> QED
        BY <4>1, <4>2
    <3> QED
      BY <3>2, <3>7, <3>8 DEF Begins
  <2>2. CASE ~At(Grpc, "status", "outer")
    <3>1. todo[Consumer] = <<>> /\ Start(Consumer, del)
      BY <1>3, <2>2 DEF Drop, Ready
    <3> QED
      BY <1>0, <1>a, <3>1, StartShape
  <2> QED
    BY <2>1, <2>2
<1>4. CASE ServerEnds
  <2>1. StatusArrives(todo) /\ todo \in [Proc -> Seq(Op)]
    BY <1>4 DEF ServerEnds, TypeOK
  <2> QED
    BY <2>1, StatusShape
<1>5. ASSUME NEW p \in User, Cancel(p) PROVE Begins /\ todo' \in [Proc -> Seq(Op)]
  <2> DEFINE fin == Finish("inner") \o Finish("outer")
             mine == [todo EXCEPT ![p] = fin]
  <2>1. todo[p] = <<>> /\ StatusArrives(mine)
    BY <1>5 DEF Cancel, Ready
  <2>2. fin \in Seq(Op) /\ \A i \in 1..Len(fin) : fin[i][1] \in Opening
    BY <1>a
  <2> HIDE DEF fin
  <2>3. /\ mine \in [Proc -> Seq(Op)] /\ mine[p] = fin
        /\ \A q \in Proc \ {p} : mine[q] = todo[q]
    BY <1>0, <2>2 DEF TypeOK
  <2> HIDE DEF mine
  <2> QED
    BY <2>1, <2>2, <2>3, StatusShape
<1> QED
  BY <1>1, <1>2, <1>3, <1>4, <1>5

\* What is pending and was not added when a call began was pending before, at the
\* same place.
LEMMA BeginsPending ==
    ASSUME TypeOK, Begins, NEW p \in Proc, NEW o, NEW k, o \notin Opening
    PROVE  /\ \A i \in 1..Len(todo'[p]) : todo'[p][i] = <<o, k>> =>
                 i \in 1..Len(todo[p]) /\ todo[p][i] = <<o, k>>
           /\ Pending(p, <<o, k>>)' <=> Pending(p, <<o, k>>)
<1>1. /\ Len(todo[p]) \in Nat /\ Len(todo[p]) <= Len(todo'[p])
      /\ \A i \in 1..Len(todo[p]) : todo'[p][i] = todo[p][i]
      /\ \A i \in 1..Len(todo'[p]) : i > Len(todo[p]) => todo'[p][i][1] \in Opening
  BY LenProperties DEF TypeOK, Begins
<1>2. ASSUME NEW i \in 1..Len(todo'[p]), todo'[p][i] = <<o, k>>
      PROVE  i \in 1..Len(todo[p]) /\ todo[p][i] = <<o, k>>
  <2>1. ~ (i > Len(todo[p]))
    BY <1>1, <1>2
  <2>2. i \in 1..Len(todo[p])
    BY <1>1, <2>1
  <2> QED
    BY <1>1, <1>2, <2>2
<1>3. ASSUME NEW i \in 1..Len(todo[p]), todo[p][i] = <<o, k>>
      PROVE  i \in 1..Len(todo'[p]) /\ todo'[p][i] = <<o, k>>
  <2>1. todo'[p][i] = <<o, k>>
    BY <1>1, <1>3
  <2>2. i \in 1..Len(todo'[p])
    BY <1>1
  <2> QED
    BY <2>1, <2>2
<1> QED
  BY <1>2, <1>3 DEF Pending

\* The beginning of a call disturbs none of the three.
LEMMA BeginsKeep ==
    ASSUME TypeOK, Begins, Told, Written, Nested
    PROVE  Told' /\ Written' /\ Nested'
<1>0. UNCHANGED <<finished, recorded, ended, events, emitted>>
  BY DEF Begins
<1>a. \A l : Silent(l)' = Silent(l)
  BY <1>0 DEF Silent
<1>b. /\ "status" \notin Opening /\ "emit" \notin Opening /\ "end" \notin Opening
      /\ "untrack" \notin Opening
  BY DEF Opening
<1>1. Told'
  <2>1. ASSUME NEW p \in Proc, NEW i \in 1..Len(todo'[p]), NEW l \in Layer,
               todo'[p][i] = <<"status", l>>
        PROVE  i = 1 /\ recorded'[l] /\ Silent(l)'
    <3>1. i \in 1..Len(todo[p]) /\ todo[p][i] = <<"status", l>>
      BY <1>b, <2>1, BeginsPending
    <3> QED
      BY <1>0, <1>a, <3>1 DEF Told
  <2>2. ASSUME NEW p \in Proc, NEW q \in Proc, NEW l \in Layer,
               Pending(p, <<"status", l>>)', Pending(q, <<"status", l>>)'
        PROVE  p = q
    <3>1. Pending(p, <<"status", l>>) /\ Pending(q, <<"status", l>>)
      BY <1>b, <2>2, BeginsPending
    <3> QED
      BY <3>1 DEF Told
  <2>3. \A l \in Layer : ~recorded'[l] => Silent(l)'
    BY <1>0, <1>a DEF Told
  <2> QED
    BY <2>1, <2>2, <2>3 DEF Told
<1>2. Written'
  <2>1. ASSUME NEW p \in Proc, NEW i \in 1..Len(todo'[p]), NEW l \in Layer,
               todo'[p][i] = <<"emit", l>>
        PROVE  /\ ended'[l] /\ emitted'[l] = 0
               /\ i = 1 \/ (i = 2 /\ todo'[p][1] = <<"untrack", l>>)
    <3>1. i \in 1..Len(todo[p]) /\ todo[p][i] = <<"emit", l>>
      BY <1>b, <2>1, BeginsPending
    <3>2. /\ ended[l] /\ emitted[l] = 0
          /\ i = 1 \/ (i = 2 /\ todo[p][1] = <<"untrack", l>>)
      BY <3>1 DEF Written
    <3>3. i = 2 => todo'[p][1] = todo[p][1]
      <4>1. Len(todo[p]) \in Nat /\ \A j \in 1..Len(todo[p]) : todo'[p][j] = todo[p][j]
        BY LenProperties DEF TypeOK, Begins
      <4> QED
        BY <3>1, <4>1
    <3> QED
      BY <1>0, <3>2, <3>3
  <2>2. ASSUME NEW p \in Proc, NEW q \in Proc, NEW l \in Layer,
               Pending(p, <<"emit", l>>)', Pending(q, <<"emit", l>>)'
        PROVE  p = q
    <3>1. Pending(p, <<"emit", l>>) /\ Pending(q, <<"emit", l>>)
      BY <1>b, <2>2, BeginsPending
    <3> QED
      BY <3>1 DEF Written
  <2>3. \A l \in Layer : ~ended'[l] => emitted'[l] = 0
    BY <1>0 DEF Written
  <2> QED
    BY <2>1, <2>2, <2>3 DEF Written
<1>3. Nested'
  <2>1. ASSUME NEW p \in Proc, NEW i \in 1..Len(todo'[p]),
               todo'[p][i] = <<"end", "outer">>
        PROVE  finished'["inner"] \/ \E j \in 1..(i - 1) : todo'[p][j] = <<"claim", "inner">>
    <3>1. i \in 1..Len(todo[p]) /\ todo[p][i] = <<"end", "outer">>
      BY <1>b, <2>1, BeginsPending
    <3>2. finished["inner"] \/ \E j \in 1..(i - 1) : todo[p][j] = <<"claim", "inner">>
      BY <3>1 DEF Nested, InnerClaimed
    <3>3. \A j \in 1..(i - 1) : todo'[p][j] = todo[p][j]
      <4>1. Len(todo[p]) \in Nat /\ \A j \in 1..Len(todo[p]) : todo'[p][j] = todo[p][j]
        BY LenProperties DEF TypeOK, Begins
      <4> QED
        BY <3>1, <4>1
    <3> QED
      BY <1>0, <3>2, <3>3
  <2>2. finished'["inner"] =>
            ended'["inner"] \/ \E p \in Proc : Pending(p, <<"end", "inner">>)'
    <3>1. \A p \in Proc : Pending(p, <<"end", "inner">>) => Pending(p, <<"end", "inner">>)'
      BY <1>b, BeginsPending
    <3> QED
      BY <1>0, <3>1 DEF Nested
  <2>3. ended'["outer"] => finished'["inner"]
    BY <1>0 DEF Nested
  <2> QED
    BY <2>1, <2>2, <2>3 DEF Nested, InnerClaimed
<1> QED
  BY <1>1, <1>2, <1>3

-----------------------------------------------------------------------------

\* After a step of p: what is pending was pending behind the step, or is new.
LEMMA ThenPending ==
    ASSUME TypeOK, NEW p \in Proc, NEW op, NEW l, At(p, op, l),
           NEW more \in Seq(Op), Then(p, more), NEW q \in Proc, NEW x,
           Pending(q, x)'
    PROVE  Pending(q, x) \/ (q = p /\ \E i \in 1..Len(more) : more[i] = x)
<1>1. PICK i \in 1..Len(todo'[q]) : todo'[q][i] = x
  BY DEF Pending
<1>2. CASE q # p
  <2>1. todo'[q] = todo[q]
    BY <1>2, ThenShape
  <2> QED
    BY <1>1, <2>1 DEF Pending
<1>3. CASE q = p
  <2>1. /\ Len(todo[p]) \in Nat \ {0} /\ Len(more) \in Nat
        /\ Len(todo'[p]) = Len(more) + Len(todo[p]) - 1
        /\ \A j \in 1..Len(more) : todo'[p][j] = more[j]
        /\ \A j \in 1..Len(todo'[p]) : j > Len(more) =>
              /\ j - Len(more) + 1 \in 2..Len(todo[p])
              /\ todo'[p][j] = todo[p][j - Len(more) + 1]
    BY ThenShape
  <2>2. CASE i <= Len(more)
    BY <1>1, <1>3, <2>1, <2>2
  <2>3. CASE i > Len(more)
    <3>1. /\ i - Len(more) + 1 \in 1..Len(todo[p])
          /\ todo[p][i - Len(more) + 1] = x
      BY <1>1, <1>3, <2>1, <2>3
    <3> QED
      BY <1>3, <3>1 DEF Pending
  <2> QED
    BY <1>3, <2>1, <2>2, <2>3
<1> QED
  BY <1>2, <1>3

\* What is pending stays so, but for the step that is done.
LEMMA ThenStays ==
    ASSUME TypeOK, NEW p \in Proc, NEW op, NEW l, At(p, op, l),
           NEW more \in Seq(Op), Then(p, more), NEW q \in Proc, NEW x,
           Pending(q, x), x # <<op, l>>
    PROVE  Pending(q, x)'
<1>1. PICK i \in 1..Len(todo[q]) : todo[q][i] = x
  BY DEF Pending
<1>2. CASE q # p
  <2>1. todo'[q] = todo[q]
    BY <1>2, ThenShape
  <2> QED
    BY <1>1, <2>1 DEF Pending
<1>3. CASE q = p
  <2>1. /\ Len(todo[p]) \in Nat \ {0} /\ Len(more) \in Nat
        /\ todo[p][1] = <<op, l>>
        /\ Len(todo'[p]) = Len(more) + Len(todo[p]) - 1
        /\ \A j \in 2..Len(todo[p]) : todo'[p][Len(more) + j - 1] = todo[p][j]
    BY ThenShape
  <2>2. i \in 2..Len(todo[p])
    <3>1. i \in 1..Len(todo[p]) /\ todo[p][i] = x
      BY <1>1, <1>3
    <3>2. i # 1
      BY <2>1, <3>1
    <3> QED
      BY <2>1, <3>1, <3>2
  <2>3. Len(more) + i - 1 \in 1..Len(todo'[p]) /\ todo'[p][Len(more) + i - 1] = x
    BY <1>1, <1>3, <2>1, <2>2
  <2> QED
    BY <1>3, <2>3 DEF Pending
<1> QED
  BY <1>2, <1>3

\* A step that adds no status event, and has none to add, keeps Told.
LEMMA ThenTold ==
    ASSUME TypeOK, Told, NEW p \in Proc, NEW op, NEW l, At(p, op, l),
           NEW more \in Seq(Op), Then(p, more),
           \A i \in 1..Len(more) : more[i][1] # "status",
           recorded' = recorded, \A k \in Layer : Silent(k) => Silent(k)'
    PROVE  Told'
<1>1. ASSUME NEW q \in Proc, NEW i \in 1..Len(todo'[q]), NEW k \in Layer,
             todo'[q][i] = <<"status", k>>
      PROVE  i = 1 /\ recorded'[k] /\ Silent(k)'
  <2>1. CASE q # p
    <3>1. todo'[q] = todo[q]
      BY <2>1, ThenShape
    <3> QED
      BY <1>1, <3>1 DEF Told
  <2>2. CASE q = p
    <3>1. /\ Len(more) \in Nat
          /\ \A j \in 1..Len(more) : todo'[p][j] = more[j]
          /\ \A j \in 1..Len(todo'[p]) : j > Len(more) =>
                /\ j - Len(more) + 1 \in 2..Len(todo[p])
                /\ todo'[p][j] = todo[p][j - Len(more) + 1]
          /\ Len(todo[p]) \in Nat
      BY ThenShape
    <3>2. i > Len(more)
      BY <1>1, <2>2, <3>1
    <3> DEFINE j == i - Len(more) + 1
    <3>3. j \in 2..Len(todo[p]) /\ todo[p][j] = <<"status", k>>
      BY <1>1, <2>2, <3>1, <3>2
    <3> HIDE DEF j
    <3>4. j \in 1..Len(todo[p])
      BY <3>1, <3>3
    <3>5. j = 1
      BY <3>3, <3>4 DEF Told
    <3> QED
      BY <3>3, <3>5
  <2> QED
    BY <2>1, <2>2
<1>2. ASSUME NEW q \in Proc, NEW r \in Proc, NEW k \in Layer,
             Pending(q, <<"status", k>>)', Pending(r, <<"status", k>>)'
      PROVE  q = r
  <2>1. Pending(q, <<"status", k>>) /\ Pending(r, <<"status", k>>)
    BY <1>2, ThenPending
  <2> QED
    BY <2>1 DEF Told
<1>3. \A k \in Layer : ~recorded'[k] => Silent(k)'
  BY DEF Told
<1> QED
  BY <1>1, <1>2, <1>3 DEF Told

\* A step that does not end, untrack or write a span keeps Written; so does untracking,
\* which brings the write to the front.
LEMMA ThenWritten ==
    ASSUME TypeOK, Written, NEW p \in Proc, NEW op, NEW l, At(p, op, l),
           NEW more \in Seq(Op), Then(p, more),
           \A i \in 1..Len(more) : more[i][1] # "emit",
           op = "untrack" => more = <<>>,
           ended' = ended, emitted' = emitted
    PROVE  Written'
<1>1. ASSUME NEW q \in Proc, NEW i \in 1..Len(todo'[q]), NEW k \in Layer,
             todo'[q][i] = <<"emit", k>>
      PROVE  /\ ended'[k] /\ emitted'[k] = 0
             /\ i = 1 \/ (i = 2 /\ todo'[q][1] = <<"untrack", k>>)
  <2>1. CASE q # p
    <3>1. todo'[q] = todo[q]
      BY <2>1, ThenShape
    <3> QED
      BY <1>1, <3>1 DEF Written
  <2>2. CASE q = p
    <3>1. /\ Len(more) \in Nat /\ Len(todo[p]) \in Nat /\ todo[p][1] = <<op, l>>
          /\ \A j \in 1..Len(more) : todo'[p][j] = more[j]
          /\ \A j \in 1..Len(todo'[p]) : j > Len(more) =>
                /\ j - Len(more) + 1 \in 2..Len(todo[p])
                /\ todo'[p][j] = todo[p][j - Len(more) + 1]
      BY ThenShape
    <3>2. i > Len(more)
      BY <1>1, <2>2, <3>1
    <3> DEFINE j == i - Len(more) + 1
    <3>3. j \in 2..Len(todo[p]) /\ todo[p][j] = <<"emit", k>>
      BY <1>1, <2>2, <3>1, <3>2
    <3>4. ended[k] /\ emitted[k] = 0 /\ (j = 1 \/ (j = 2 /\ todo[p][1] = <<"untrack", k>>))
      <4> HIDE DEF j
      <4>1. j \in 1..Len(todo[p])
        BY <3>1, <3>3
      <4> QED
        BY <3>3, <4>1 DEF Written
    <3>5. j = 2 /\ todo[p][1] = <<"untrack", k>>
      BY <3>3, <3>4
    <3>6. op = "untrack"
      BY <3>1, <3>5
    <3>7. Len(more) = 0
      BY <3>6, EmptySeq
    <3> QED
      BY <3>1, <3>2, <3>4, <3>5, <3>7
  <2> QED
    BY <2>1, <2>2
<1>2. ASSUME NEW q \in Proc, NEW r \in Proc, NEW k \in Layer,
             Pending(q, <<"emit", k>>)', Pending(r, <<"emit", k>>)'
      PROVE  q = r
  <2>1. Pending(q, <<"emit", k>>) /\ Pending(r, <<"emit", k>>)
    BY <1>2, ThenPending
  <2> QED
    BY <2>1 DEF Written
<1>3. \A k \in Layer : ~ended'[k] => emitted'[k] = 0
  BY DEF Written
<1> QED
  BY <1>1, <1>2, <1>3 DEF Written

\* Any step but the claim of the inner layer keeps InnerClaimed, if what it adds does.
LEMMA ThenClaimed ==
    ASSUME TypeOK, Nested, NEW p \in Proc, NEW op, NEW l, At(p, op, l),
           NEW more \in Seq(Op), Then(p, more),
           \A i \in 1..Len(more) : more[i] = <<"end", "outer">> =>
              \E j \in 1..(i - 1) : more[j] = <<"claim", "inner">>,
           <<op, l>> # <<"claim", "inner">>,
           finished'["inner"] = finished["inner"]
    PROVE  InnerClaimed'
<1>1. ASSUME NEW q \in Proc, NEW i \in 1..Len(todo'[q]), todo'[q][i] = <<"end", "outer">>
      PROVE  finished'["inner"] \/ \E j \in 1..(i - 1) : todo'[q][j] = <<"claim", "inner">>
  <2>1. CASE q # p
    <3>1. todo'[q] = todo[q]
      BY <2>1, ThenShape
    <3> QED
      BY <1>1, <3>1 DEF Nested, InnerClaimed
  <2>2. CASE q = p
    <3>1. /\ Len(more) \in Nat /\ Len(todo[p]) \in Nat /\ todo[p][1] = <<op, l>>
          /\ \A j \in 1..Len(more) : todo'[p][j] = more[j]
          /\ \A j \in 2..Len(todo[p]) : todo'[p][Len(more) + j - 1] = todo[p][j]
          /\ \A j \in 1..Len(todo'[p]) : j > Len(more) =>
                /\ j - Len(more) + 1 \in 2..Len(todo[p])
                /\ todo'[p][j] = todo[p][j - Len(more) + 1]
      BY ThenShape
    <3>2. CASE i <= Len(more)
      <4>0. i \in 1..Len(more) /\ more[i] = <<"end", "outer">>
        BY <1>1, <2>2, <3>1, <3>2
      <4>1. PICK j \in 1..(i - 1) : more[j] = <<"claim", "inner">>
        BY <4>0
      <4>2. todo'[p][j] = <<"claim", "inner">>
        BY <3>1, <3>2, <4>1
      <4> QED
        BY <2>2, <4>1, <4>2
    <3> SUFFICES ASSUME i > Len(more)
                 PROVE  finished'["inner"] \/
                           \E j \in 1..(i - 1) : todo'[q][j] = <<"claim", "inner">>
      BY <3>1, <3>2
    <3> DEFINE k == i - Len(more) + 1
    <3>3. k \in 2..Len(todo[p]) /\ todo[p][k] = <<"end", "outer">>
      BY <1>1, <2>2, <3>1
    <3>4. finished["inner"] \/ \E j \in 1..(k - 1) : todo[p][j] = <<"claim", "inner">>
      <4> HIDE DEF k
      <4>1. k \in 1..Len(todo[p])
        BY <3>1, <3>3
      <4> QED
        BY <3>3, <4>1 DEF Nested, InnerClaimed
    <3>5. ASSUME NEW j \in 1..(k - 1), todo[p][j] = <<"claim", "inner">>
          PROVE  \E m \in 1..(i - 1) : todo'[p][m] = <<"claim", "inner">>
      <4>1. j # 1
        BY <3>1, <3>5
      <4>2. j \in 2..Len(todo[p])
        BY <3>1, <3>3, <3>5, <4>1
      <4>3. Len(more) + j - 1 \in 1..(i - 1)
        BY <3>1, <3>5, <4>1
      <4>4. todo'[p][Len(more) + j - 1] = <<"claim", "inner">>
        BY <3>1, <3>5, <4>2
      <4> QED
        BY <4>3, <4>4
    <3> QED
      BY <2>2, <3>4, <3>5
  <2> QED
    BY <2>1, <2>2
<1> QED
  BY <1>1 DEF InnerClaimed

\* A step that does not claim a layer or end a span keeps Nested.
LEMMA ThenNested ==
    ASSUME TypeOK, Nested, NEW p \in Proc, NEW op, NEW l, At(p, op, l),
           NEW more \in Seq(Op), Then(p, more),
           \A i \in 1..Len(more) : more[i][1] # "end",
           op \notin {"claim", "end"},
           finished' = finished, ended' = ended
    PROVE  Nested'
<1>1. InnerClaimed'
  <2>1. \A i \in 1..Len(more) : more[i] # <<"end", "outer">>
    OBVIOUS
  <2>2. <<op, l>> # <<"claim", "inner">>
    OBVIOUS
  <2> QED
    BY <2>1, <2>2, ThenClaimed
<1>2. finished'["inner"] =>
          ended'["inner"] \/ \E q \in Proc : Pending(q, <<"end", "inner">>)'
  <2>1. \A q \in Proc : Pending(q, <<"end", "inner">>) => Pending(q, <<"end", "inner">>)'
    BY ThenStays
  <2> QED
    BY <2>1 DEF Nested
<1>3. ended'["outer"] => finished'["inner"]
  BY DEF Nested
<1> QED
  BY <1>1, <1>2, <1>3 DEF Nested

-----------------------------------------------------------------------------

\* The inductive invariant.
IInv == TypeOK /\ Told /\ StatusOnce /\ Written /\ Nested

\* Span.add_event: the event comes last, unless the span has ended.
LEMMA AddEventShape ==
    ASSUME TypeOK, NEW l \in Layer, NEW name \in Name, AddEvent(l, name)
    PROVE  /\ events' \in [Layer -> Seq(Name)]
           /\ \A k \in Layer \ {l} : events'[k] = events[k]
           /\ \/ events'[l] = events[l]
              \/ /\ ~ended[l] /\ Len(events[l]) \in Nat
                 /\ Len(events'[l]) = Len(events[l]) + 1
                 /\ \A i \in 1..Len(events[l]) : events'[l][i] = events[l][i]
                 /\ events'[l][Len(events[l]) + 1] = name
<1>0. events[l] \in Seq(Name) /\ Len(events[l]) \in Nat
  BY LenProperties DEF TypeOK
<1>1. CASE ended[l]
  BY <1>1 DEF AddEvent, TypeOK
<1>2. CASE ~ended[l]
  <2> DEFINE s == Append(events[l], name)
  <2>1. /\ s \in Seq(Name) /\ Len(s) = Len(events[l]) + 1
        /\ \A i \in 1..Len(events[l]) : s[i] = events[l][i]
        /\ s[Len(events[l]) + 1] = name
    BY <1>0, AppendProperties
  <2>2. events' = [events EXCEPT ![l] = s]
    BY <1>2 DEF AddEvent
  <2> HIDE DEF s
  <2>3. /\ events' \in [Layer -> Seq(Name)] /\ events'[l] = s
        /\ \A k \in Layer \ {l} : events'[k] = events[k]
    BY <2>1, <2>2 DEF TypeOK
  <2> QED
    BY <1>0, <1>2, <2>1, <2>3
<1> QED
  BY <1>1, <1>2

\* An event that is not a status keeps a span silent, and the status single.
LEMMA OtherEvent ==
    ASSUME TypeOK, StatusOnce, NEW l \in Layer,
           AddEvent(l, "first_response") \/ UNCHANGED events
    PROVE  StatusOnce' /\ \A k \in Layer : Silent(k) => Silent(k)'
<1>1. CASE UNCHANGED events
  BY <1>1 DEF StatusOnce, Silent
<1>2. CASE AddEvent(l, "first_response")
  <2>0. "first_response" \in Name
    BY DEF Name
  <2>1. /\ events' \in [Layer -> Seq(Name)]
        /\ \A k \in Layer \ {l} : events'[k] = events[k]
        /\ \/ events'[l] = events[l]
           \/ /\ ~ended[l] /\ Len(events[l]) \in Nat
              /\ Len(events'[l]) = Len(events[l]) + 1
              /\ \A i \in 1..Len(events[l]) : events'[l][i] = events[l][i]
              /\ events'[l][Len(events[l]) + 1] = "first_response"
    BY <1>2, <2>0, AddEventShape
  <2>2. \A k \in Layer : /\ DOMAIN events[k] = 1..Len(events[k])
                          /\ DOMAIN events'[k] = 1..Len(events'[k])
    BY <2>1, LenProperties DEF TypeOK
  <2>3. ASSUME NEW k \in Layer, NEW i \in 1..Len(events'[k]), events'[k][i] = "status"
        PROVE  i \in 1..Len(events[k]) /\ events[k][i] = "status"
    <3>1. CASE events'[k] = events[k]
      BY <2>3, <3>1
    <3>2. CASE k = l /\ events'[l] # events[l]
      <4>1. i # Len(events[l]) + 1
        BY <2>1, <2>3, <3>2
      <4>2. i \in 1..Len(events[l])
        BY <2>1, <3>2, <4>1
      <4> QED
        BY <2>1, <2>3, <3>2, <4>2
    <3> QED
      BY <2>1, <3>1, <3>2
  <2>4. StatusOnce'
    BY <2>2, <2>3 DEF StatusOnce
  <2>5. \A k \in Layer : Silent(k) => Silent(k)'
    BY <2>3 DEF Silent
  <2> QED
    BY <2>4, <2>5
<1> QED
  BY <1>1, <1>2

\* _record_status: the layer's flag is claimed for one event.
LEMMA RecordKeeps ==
    ASSUME IInv, NEW p \in Proc, NEW l \in Layer, RecordStatus(p, l)
    PROVE  Told' /\ StatusOnce' /\ Written' /\ Nested'
<1> USE DEF IInv
<1> DEFINE skip == \/ recorded[l] \/ finished[l] \/ ~over
                   \/ /\ p = Grpc /\ dropped /\ l = "outer"
                      /\ <<"claim", l>> \notin ToSet(todo[p])
           more == IF skip THEN <<>> ELSE <<<<"status", l>>>>
<1>1. /\ At(p, "record", l) /\ Then(p, more)
      /\ recorded' = [recorded EXCEPT ![l] = recorded[l] \/ ~skip]
      /\ UNCHANGED <<finished, ended, events, emitted>>
  BY DEF RecordStatus
<1>2. StatusOnce' /\ \A k \in Layer : Silent(k)' = Silent(k)
  BY <1>1 DEF StatusOnce, Silent
<1>3. <<"status", l>> \in Op /\ <<>> \in Seq(Op)
  BY DEF Op
<1>4. CASE skip
  <2>1. more = <<>> /\ Len(more) = 0
    BY <1>4
  <2>2. recorded' = recorded
    <3>1. recorded[l] \in BOOLEAN
      BY DEF TypeOK
    <3>2. (recorded[l] \/ ~skip) = recorded[l]
      BY <1>4, <3>1
    <3> HIDE DEF skip
    <3> QED
      BY <1>1, <3>2 DEF TypeOK
  <2> HIDE DEF more, skip
  <2>a. /\ more \in Seq(Op)
        /\ \A i \in 1..Len(more) : more[i][1] \notin {"status", "emit", "end"}
    BY <1>3, <2>1
  <2>3. Told'
    BY <1>1, <1>2, <2>a, <2>2, ThenTold
  <2>4. Written'
    BY <1>1, <2>a, ThenWritten
  <2>5. Nested'
    BY <1>1, <2>a, ThenNested
  <2> QED
    BY <1>2, <2>3, <2>4, <2>5
<1>5. CASE ~skip
  <2>1. more = <<<<"status", l>>>> /\ ~recorded[l]
    BY <1>5
  <2>2. recorded'[l] = TRUE /\ \A k \in Layer \ {l} : recorded'[k] = recorded[k]
    <3>1. (recorded[l] \/ ~skip) = TRUE
      BY <1>5
    <3> HIDE DEF skip
    <3> QED
      BY <1>1, <3>1 DEF TypeOK
  <2>3. more \in Seq(Op) /\ Len(more) = 1 /\ more[1] = <<"status", l>>
    BY <1>3, <2>1
  <2> HIDE DEF more, skip
  <2>4. Written'
    <3>1. \A i \in 1..Len(more) : more[i][1] # "emit"
      BY <2>3
    <3> QED
      BY <1>1, <2>3, <3>1, ThenWritten
  <2>5. Nested'
    <3>1. \A i \in 1..Len(more) : more[i][1] # "end"
      BY <2>3
    <3> QED
      BY <1>1, <2>3, <3>1, ThenNested
  <2>6. Silent(l)
    BY <2>1 DEF Told
  <2>7. ASSUME NEW q \in Proc, NEW i \in 1..Len(todo'[q]), NEW k \in Layer,
               todo'[q][i] = <<"status", k>>
        PROVE  i = 1 /\ recorded'[k] /\ Silent(k)'
    <3>1. CASE q # p
      <4>1. todo'[q] = todo[q]
        BY <1>1, <2>3, <3>1, ThenShape
      <4>2. i = 1 /\ recorded[k] /\ Silent(k)
        BY <2>7, <4>1 DEF Told
      <4> QED
        BY <1>2, <2>2, <4>2
    <3>2. CASE q = p
      <4>0. /\ Len(todo[p]) \in Nat
            /\ \A j \in 1..Len(more) : todo'[p][j] = more[j]
            /\ \A j \in 1..Len(todo'[p]) : j > Len(more) =>
                  /\ j - Len(more) + 1 \in 2..Len(todo[p])
                  /\ todo'[p][j] = todo[p][j - Len(more) + 1]
        BY <1>1, <2>3, ThenShape
      <4>1. /\ Len(todo[p]) \in Nat
            /\ todo'[p][1] = more[1]
            /\ \A j \in 1..Len(todo'[p]) : j > 1 =>
                  j \in 2..Len(todo[p]) /\ todo'[p][j] = todo[p][j]
        <5>1. \A j : j - Len(more) + 1 = j - 1 + 1
          BY <2>3
        <5>2. \A j \in 1..Len(todo'[p]) : j - 1 + 1 = j
          OBVIOUS
        <5> QED
          BY <2>3, <4>0, <5>1, <5>2
      <4>2. i = 1
        <5>1. SUFFICES ASSUME i > 1 PROVE FALSE
          OBVIOUS
        <5>2. i \in 1..Len(todo[p]) /\ todo[p][i] = <<"status", k>>
          BY <2>7, <3>2, <4>1, <5>1
        <5> QED
          BY <5>1, <5>2 DEF Told
      <4>3. k = l
        BY <2>3, <2>7, <3>2, <4>1, <4>2
      <4> QED
        BY <1>2, <2>2, <2>6, <4>2, <4>3
    <3> QED
      BY <3>1, <3>2
  <2>8. ASSUME NEW q \in Proc, NEW r \in Proc, NEW k \in Layer,
               Pending(q, <<"status", k>>)', Pending(r, <<"status", k>>)'
        PROVE  q = r
    <3>1. \A x \in Proc : Pending(x, <<"status", l>>) => recorded[l]
      BY DEF Pending, Told
    <3>2. /\ Pending(q, <<"status", k>>) \/ (q = p /\ k = l)
          /\ Pending(r, <<"status", k>>) \/ (r = p /\ k = l)
      <4>1. \A i \in 1..Len(more) : more[i] = <<"status", k>> => k = l
        BY <2>3
      <4> QED
        BY <1>1, <2>3, <2>8, <4>1, ThenPending
    <3> QED
      BY <2>1, <3>1, <3>2 DEF Told
  <2>9. \A k \in Layer : ~recorded'[k] => Silent(k)'
    BY <1>2, <2>2 DEF Told
  <2>10. Told'
    BY <2>7, <2>8, <2>9 DEF Told
  <2> QED
    BY <1>2, <2>4, <2>5, <2>10
<1> QED
  BY <1>4, <1>5

\* The empty list adds nothing.
LEMMA NothingMore ==
    /\ <<>> \in Seq(Op) /\ Len(<<>>) = 0
    /\ \A i \in 1..Len(<<>>) : <<>>[i][1] \notin {"status", "emit", "end"}
BY EmptySeq

\* The status event itself: the span was silent, and nobody else is about to add it.
LEMMA StatusKeeps ==
    ASSUME IInv, NEW p \in Proc, NEW l \in Layer, StatusEvent(p, l)
    PROVE  Told' /\ StatusOnce' /\ Written' /\ Nested'
<1>0. TypeOK /\ Told /\ StatusOnce /\ Written /\ Nested
  BY DEF IInv
<1> DEFINE none == <<>>
<1>a. none \in Seq(Op)
  BY NothingMore
<1>c. Len(none) = 0
  BY NothingMore
<1>d. \A i \in 1..Len(none) : none[i][1] \notin {"status", "emit", "end"}
  BY NothingMore
<1>1. At(p, "status", l) /\ Then(p, none) /\ UNCHANGED <<recorded, finished, ended, emitted>>
  BY DEF StatusEvent
<1>b. AddEvent(l, "status")
  BY DEF StatusEvent
<1> HIDE DEF none
<1>2. "status" \in Name
  BY DEF Name
<1>3. /\ events' \in [Layer -> Seq(Name)]
      /\ \A k \in Layer \ {l} : events'[k] = events[k]
      /\ \/ events'[l] = events[l]
         \/ /\ Len(events[l]) \in Nat
            /\ Len(events'[l]) = Len(events[l]) + 1
            /\ \A i \in 1..Len(events[l]) : events'[l][i] = events[l][i]
  BY <1>0, <1>b, <1>2, AddEventShape
<1>4. /\ Len(todo[p]) \in Nat \ {0} /\ todo[p][1] = <<"status", l>>
      /\ \A q \in Proc \ {p} : todo'[q] = todo[q]
      /\ \A j \in 1..Len(todo'[p]) : j > Len(none) =>
            /\ j - Len(none) + 1 \in 2..Len(todo[p])
            /\ todo'[p][j] = todo[p][j - Len(none) + 1]
  BY <1>0, <1>1, <1>a, ThenShape
<1>5. 1 \in 1..Len(todo[p])
  BY <1>4
<1>6. recorded[l] /\ Silent(l) /\ Pending(p, <<"status", l>>)
  BY <1>0, <1>4, <1>5 DEF Told, Pending
<1>7. \A k \in Layer \ {l} : Silent(k) => Silent(k)'
  BY <1>3 DEF Silent
<1>8. StatusOnce'
  <2>1. \A k \in Layer : /\ DOMAIN events[k] = 1..Len(events[k])
                          /\ DOMAIN events'[k] = 1..Len(events'[k])
    BY <1>0, <1>3, LenProperties DEF TypeOK
  <2>2. ASSUME NEW i \in 1..Len(events'[l]), NEW j \in 1..Len(events'[l]),
               events'[l][i] = "status", events'[l][j] = "status"
        PROVE  i = j
    <3>1. CASE events'[l] = events[l]
      BY <1>6, <2>2, <3>1 DEF Silent
    <3>2. CASE events'[l] # events[l]
      <4>1. \A m \in 1..Len(events[l]) : events'[l][m] # "status"
        BY <1>3, <1>6, <3>2 DEF Silent
      <4>2. \A m \in 1..Len(events'[l]) :
                m \in 1..Len(events[l]) \/ m = Len(events[l]) + 1
        BY <1>3, <3>2
      <4> QED
        BY <2>2, <4>1, <4>2
    <3> QED
      BY <3>1, <3>2
  <2> QED
    BY <1>0, <1>3, <2>1, <2>2 DEF StatusOnce
<1>9. Told'
  <2>1. ASSUME NEW q \in Proc, NEW i \in 1..Len(todo'[q]), NEW k \in Layer,
               todo'[q][i] = <<"status", k>>
        PROVE  i = 1 /\ recorded'[k] /\ Silent(k)'
    <3>1. CASE q # p
      <4>1. i \in 1..Len(todo[q]) /\ todo[q][i] = <<"status", k>>
        BY <1>4, <2>1, <3>1
      <4>2. i = 1 /\ recorded[k] /\ Silent(k) /\ Pending(q, <<"status", k>>)
        BY <1>0, <4>1 DEF Told, Pending
      <4>3. k # l
        BY <1>0, <1>6, <3>1, <4>2 DEF Told
      <4> QED
        BY <1>1, <1>7, <4>2, <4>3
    <3>2. CASE q = p
      <4> DEFINE j == i - Len(none) + 1
      <4>1. j \in 2..Len(todo[p]) /\ todo[p][j] = <<"status", k>>
        BY <1>4, <1>c, <2>1, <3>2
      <4> HIDE DEF j
      <4>2. j \in 1..Len(todo[p])
        BY <1>4, <4>1
      <4>3. j = 1
        BY <1>0, <4>1, <4>2 DEF Told
      <4> QED
        BY <4>1, <4>3
    <3> QED
      BY <3>1, <3>2
  <2>2. ASSUME NEW q \in Proc, NEW r \in Proc, NEW k \in Layer,
               Pending(q, <<"status", k>>)', Pending(r, <<"status", k>>)'
        PROVE  q = r
    <3>1. Pending(q, <<"status", k>>) /\ Pending(r, <<"status", k>>)
      BY <1>0, <1>1, <1>a, <1>d, <2>2, ThenPending
    <3> QED
      BY <1>0, <3>1 DEF Told
  <2>3. \A k \in Layer : ~recorded'[k] => Silent(k)'
    BY <1>0, <1>1, <1>6, <1>7 DEF Told
  <2> QED
    BY <2>1, <2>2, <2>3 DEF Told
<1>10. Written'
  BY <1>0, <1>1, <1>a, <1>d, ThenWritten
<1>11. Nested'
  BY <1>0, <1>1, <1>a, <1>d, ThenNested
<1> QED
  BY <1>8, <1>9, <1>10, <1>11

\* What the claim of a layer adds.
ClaimOps(l, more) ==
    /\ more \in Seq(Op)
    /\ l = "inner" => Len(more) = 1 /\ more[1] = <<"end", "inner">>
    /\ l = "outer" => /\ Len(more) = 3
                      /\ more[1] = <<"record", "inner">>
                      /\ more[2] = <<"claim", "inner">>
                      /\ more[3] = <<"end", "outer">>

\* The list of the code's claim is of that kind.
LEMMA ClaimList ==
    ASSUME NEW l \in Layer
    PROVE  ClaimOps(l, (IF l = "outer" THEN Finish("inner") ELSE <<>>) \o <<<<"end", l>>>>)
<1> DEFINE more == (IF l = "outer" THEN Finish("inner") ELSE <<>>) \o <<<<"end", l>>>>
<1> SUFFICES ClaimOps(l, more)
  OBVIOUS
<1>1. CASE l = "inner"
  <2> DEFINE b == <<<<"end", "inner">>>>
  <2>1. more = <<>> \o b
    BY <1>1
  <2>2. b \in Seq(Op) /\ Len(b) = 1 /\ b[1] = <<"end", "inner">>
    BY DEF Op, Layer
  <2> HIDE DEF b, more
  <2>3. more = b
    BY <2>1, <2>2, ConcatEmptySeq
  <2> QED
    BY <1>1, <2>2, <2>3 DEF ClaimOps
<1>2. CASE l = "outer"
  <2> DEFINE a == <<<<"record", "inner">>, <<"claim", "inner">>>>
             b == <<<<"end", "outer">>>>
  <2>1. more = a \o b
    BY <1>2 DEF Finish
  <2>2. a \in Seq(Op) /\ b \in Seq(Op) /\ Len(a) = 2 /\ Len(b) = 1
    BY DEF Op, Layer
  <2>3. /\ a[1] = <<"record", "inner">> /\ a[2] = <<"claim", "inner">>
        /\ b[1] = <<"end", "outer">>
    OBVIOUS
  <2> HIDE DEF a, b, more
  <2>4. /\ a \o b \in Seq(Op) /\ Len(a \o b) = Len(a) + Len(b)
        /\ \A i \in 1..(Len(a) + Len(b)) :
              (a \o b)[i] = IF i <= Len(a) THEN a[i] ELSE b[i - Len(a)]
    BY <2>2, ConcatProperties
  <2>5. more \in Seq(Op) /\ Len(more) = 3
    BY <2>1, <2>2, <2>4
  <2>6. more[1] = a[1] /\ more[2] = a[2] /\ more[3] = b[1]
    BY <2>1, <2>2, <2>4
  <2> QED
    BY <1>2, <2>3, <2>5, <2>6 DEF ClaimOps
<1> HIDE DEF more
<1> QED
  BY <1>1, <1>2 DEF Layer

\* The claim of a layer: whoever claims the inner one is about to end it, and whoever
\* claims the outer one claims the inner one before the end.
LEMMA ClaimKeeps ==
    ASSUME IInv, NEW p \in Proc, NEW l \in Layer, Claim(p, l)
    PROVE  Told' /\ StatusOnce' /\ Written' /\ Nested'
<1> USE DEF IInv
<1> DEFINE more == IF finished[l] THEN <<>>
                   ELSE (IF l = "outer" THEN Finish("inner") ELSE <<>>) \o <<<<"end", l>>>>
<1>1. /\ At(p, "claim", l) /\ Then(p, more)
      /\ finished' = [finished EXCEPT ![l] = TRUE]
      /\ UNCHANGED <<recorded, ended, events, emitted>>
  BY DEF Claim
<1>2. StatusOnce' /\ \A k \in Layer : Silent(k)' = Silent(k)
  BY <1>1 DEF StatusOnce, Silent
<1>3. CASE finished[l] /\ more = <<>>
  <2>1. finished' = finished
    BY <1>1, <1>3 DEF TypeOK
  <2>2. /\ more \in Seq(Op)
        /\ \A i \in 1..Len(more) : more[i][1] \notin {"status", "emit", "end"}
    BY <1>3, NothingMore
  <2> HIDE DEF more
  <2>3. Told' /\ Written'
    BY <1>1, <1>2, <2>2, ThenTold, ThenWritten
  <2>4. InnerClaimed'
    <3>1. CASE l = "inner"
      BY <1>3, <2>1, <3>1 DEF InnerClaimed
    <3>2. CASE l = "outer"
      <4>1. <<"claim", l>> # <<"claim", "inner">>
        BY <3>2
      <4>2. \A i \in 1..Len(more) : more[i] # <<"end", "outer">>
        BY <2>2
      <4> QED
        BY <1>1, <2>1, <2>2, <4>1, <4>2, ThenClaimed
    <3> QED
      BY <3>1, <3>2 DEF Layer
  <2>5. \A q \in Proc : Pending(q, <<"end", "inner">>) => Pending(q, <<"end", "inner">>)'
    <3>1. <<"end", "inner">> # <<"claim", l>>
      OBVIOUS
    <3> QED
      BY <1>1, <2>2, <3>1, ThenStays
  <2> QED
    BY <1>1, <1>2, <2>1, <2>3, <2>4, <2>5 DEF Nested
<1>4. CASE ~finished[l]
  <2>0. more = (IF l = "outer" THEN Finish("inner") ELSE <<>>) \o <<<<"end", l>>>>
    BY <1>4, Zenon
  <2> HIDE DEF more
  <2>1. /\ more \in Seq(Op)
        /\ l = "inner" => Len(more) = 1 /\ more[1] = <<"end", "inner">>
        /\ l = "outer" => /\ Len(more) = 3
                          /\ more[1] = <<"record", "inner">>
                          /\ more[2] = <<"claim", "inner">>
                          /\ more[3] = <<"end", "outer">>
    <3>1. ClaimOps(l, more)
      BY <2>0, ClaimList, Zenon
    <3> QED
      BY <3>1 DEF ClaimOps
  <2>2. \A i \in 1..Len(more) : more[i][1] \notin {"status", "emit"}
    <3>1. CASE l = "inner"
      <4>1. Len(more) = 1 /\ more[1] = <<"end", "inner">>
        BY <2>1, <3>1, Zenon
      <4>2. more[1][1] = "end"
        BY <4>1
      <4>3. \A i \in 1..Len(more) : i = 1
        BY <4>1
      <4> QED
        BY <4>2, <4>3
    <3>2. CASE l = "outer"
      <4>1. /\ more[1][1] \notin {"status", "emit"}
            /\ more[2][1] \notin {"status", "emit"}
            /\ more[3][1] \notin {"status", "emit"}
        BY <2>1, <3>2
      <4>2. ASSUME NEW i \in 1..Len(more) PROVE more[i][1] \notin {"status", "emit"}
        <5>0. Len(more) = 3
          BY <2>1, <3>2
        <5>1. i = 1 \/ i = 2 \/ i = 3
          BY <5>0
        <5> QED
          BY <4>1, <5>1
      <4> QED
        BY <4>2
    <3> QED
      BY <3>1, <3>2 DEF Layer
  <2>3. Told'
    BY <1>1, <1>2, <2>1, <2>2, ThenTold
  <2>4. Written'
    BY <1>1, <2>1, <2>2, ThenWritten
  <2>5. Nested'
    <3>1. CASE l = "inner"
      <4>1. finished'["inner"] = TRUE
        BY <1>1, <3>1 DEF TypeOK
      <4>2. Pending(p, <<"end", "inner">>)'
        <5>1. /\ Len(more) = 1 /\ more[1] = <<"end", "inner">>
              /\ Len(todo'[p]) = Len(more) + Len(todo[p]) - 1 /\ Len(todo[p]) \in Nat \ {0}
              /\ \A i \in 1..Len(more) : todo'[p][i] = more[i]
          BY <1>1, <2>1, <3>1, ThenShape
        <5>2. 1 \in 1..Len(todo'[p]) /\ todo'[p][1] = <<"end", "inner">>
          BY <5>1
        <5> QED
          BY <5>2 DEF Pending
      <4> QED
        BY <4>1, <4>2 DEF Nested, InnerClaimed
    <3>2. CASE l = "outer"
      <4>1. finished'["inner"] = finished["inner"]
        BY <1>1, <3>2 DEF TypeOK
      <4>2. \A i \in 1..Len(more) : more[i] = <<"end", "outer">> =>
                \E j \in 1..(i - 1) : more[j] = <<"claim", "inner">>
        <5>1. \A i \in 1..3 : i = 1 \/ i = 2 \/ i = 3
          OBVIOUS
        <5>2. 2 \in 1..(3 - 1)
          OBVIOUS
        <5> QED
          BY <2>1, <3>2, <5>1, <5>2
      <4>3. <<"claim", l>> # <<"claim", "inner">> /\ <<"end", "inner">> # <<"claim", l>>
        BY <3>2
      <4>4. InnerClaimed'
        BY <1>1, <2>1, <4>1, <4>2, <4>3, ThenClaimed
      <4>5. \A q \in Proc : Pending(q, <<"end", "inner">>) => Pending(q, <<"end", "inner">>)'
        BY <1>1, <2>1, <4>3, ThenStays
      <4> QED
        BY <1>1, <4>1, <4>4, <4>5 DEF Nested
    <3> QED
      BY <3>1, <3>2 DEF Layer
  <2> QED
    BY <1>2, <2>3, <2>4, <2>5
<1> QED
  BY <1>3, <1>4

\* What the end of a span adds: nothing the second time.
LEMMA EndList ==
    ASSUME NEW l \in Layer
    PROVE  LET more == <<<<"untrack", l>>, <<"emit", l>>>>
           IN  more \in Seq(Op) /\ Len(more) = 2
               /\ more[1] = <<"untrack", l>> /\ more[2] = <<"emit", l>>
BY DEF Op

\* Span.end: the outer span ends only when the inner layer has been claimed, and the
\* record of a span is left to the one thread that has ended it.
LEMMA EndKeeps ==
    ASSUME IInv, NEW p \in Proc, NEW l \in Layer, EndSpan(p, l)
    PROVE  Told' /\ StatusOnce' /\ Written' /\ Nested'
<1>0. TypeOK /\ Told /\ StatusOnce /\ Written /\ Nested
  BY DEF IInv
<1> DEFINE more == IF ended[l] THEN <<>> ELSE <<<<"untrack", l>>, <<"emit", l>>>>
<1>1. /\ At(p, "end", l) /\ Then(p, more)
      /\ ended' = [ended EXCEPT ![l] = TRUE]
      /\ UNCHANGED <<recorded, finished, events, emitted>>
  BY DEF EndSpan
<1>2. StatusOnce' /\ \A k \in Layer : Silent(k)' = Silent(k)
  BY <1>0, <1>1 DEF StatusOnce, Silent
<1>3. ended[l] => more = <<>>
  OBVIOUS
<1>4. ~ended[l] => /\ more \in Seq(Op) /\ Len(more) = 2
                   /\ more[1] = <<"untrack", l>> /\ more[2] = <<"emit", l>>
  BY EndList
<1> HIDE DEF more
<1>5. /\ more \in Seq(Op)
      /\ \A i \in 1..Len(more) : more[i][1] \notin {"status", "end"}
  <2>1. CASE ended[l]
    BY <1>3, <2>1, NothingMore
  <2>2. CASE ~ended[l]
    <3>1. Len(more) = 2
      BY <1>4, <2>2
    <3>2. ASSUME NEW i \in 1..Len(more) PROVE more[i][1] \notin {"status", "end"}
      <4>1. i = 1 \/ i = 2
        BY <3>1
      <4> QED
        BY <1>4, <2>2, <4>1
    <3> QED
      BY <1>4, <2>2, <3>2
  <2> QED
    BY <2>1, <2>2
<1>6. Told'
  BY <1>0, <1>1, <1>2, <1>5, ThenTold
<1>7. /\ ended'[l] = TRUE
      /\ \A k \in Layer \ {l} : ended'[k] = ended[k]
  BY <1>0, <1>1 DEF TypeOK
<1>8. Nested'
  <2>1. InnerClaimed'
    <3>1. <<"end", l>> # <<"claim", "inner">>
      OBVIOUS
    <3>2. \A i \in 1..Len(more) : more[i] # <<"end", "outer">>
      BY <1>5
    <3> QED
      BY <1>0, <1>1, <1>5, <3>1, <3>2, ThenClaimed
  <2>2. CASE l = "inner"
    <3>1. "outer" \in Layer \ {l}
      BY <2>2 DEF Layer
    <3> QED
      BY <1>0, <1>1, <1>7, <2>1, <2>2, <3>1 DEF Nested
  <2>3. CASE l = "outer"
    <3>1. "inner" \in Layer \ {l} /\ <<"end", "inner">> # <<"end", l>>
      BY <2>3 DEF Layer
    <3>2. \A q \in Proc : Pending(q, <<"end", "inner">>) => Pending(q, <<"end", "inner">>)'
      BY <1>0, <1>1, <1>5, <3>1, ThenStays
    <3>3. finished["inner"]
      <4>1. Len(todo[p]) \in Nat \ {0} /\ todo[p][1] = <<"end", "outer">>
        BY <1>0, <1>1, <1>5, <2>3, ThenShape
      <4>2. 1 \in 1..Len(todo[p]) /\ ~ \E j \in 1..(1 - 1) : todo[p][j] = <<"claim", "inner">>
        BY <4>1
      <4> QED
        BY <1>0, <4>1, <4>2 DEF Nested, InnerClaimed
    <3> QED
      BY <1>0, <1>1, <1>7, <2>1, <3>1, <3>2, <3>3 DEF Nested
  <2> QED
    BY <2>2, <2>3 DEF Layer
<1>9. Written'
  <2>1. CASE ended[l]
    <3>1. ended' = ended
      BY <1>0, <1>1, <2>1 DEF TypeOK
    <3>2. \A i \in 1..Len(more) : more[i][1] # "emit"
      BY <1>3, <2>1, NothingMore
    <3> QED
      BY <1>0, <1>1, <1>5, <3>1, <3>2, ThenWritten
  <2>2. CASE ~ended[l]
    <3>1. /\ Len(more) = 2 /\ more[1] = <<"untrack", l>> /\ more[2] = <<"emit", l>>
          /\ emitted[l] = 0
      BY <1>0, <1>4, <2>2 DEF Written
    <3>2. ASSUME NEW q \in Proc, NEW i \in 1..Len(todo'[q]), NEW k \in Layer,
                 todo'[q][i] = <<"emit", k>>
          PROVE  /\ ended'[k] /\ emitted'[k] = 0
                 /\ i = 1 \/ (i = 2 /\ todo'[q][1] = <<"untrack", k>>)
      <4>1. CASE q # p
        <5>1. todo'[q] = todo[q]
          BY <1>0, <1>1, <1>5, <4>1, ThenShape
        <5>2. /\ ended[k] /\ emitted[k] = 0
              /\ i = 1 \/ (i = 2 /\ todo[q][1] = <<"untrack", k>>)
          BY <1>0, <3>2, <5>1 DEF Written
        <5> QED
          BY <1>1, <1>7, <5>1, <5>2
      <4>2. CASE q = p
        <5>1. /\ Len(todo[p]) \in Nat /\ todo[p][1] = <<"end", l>>
              /\ \A j \in 1..Len(more) : todo'[p][j] = more[j]
              /\ \A j \in 1..Len(todo'[p]) : j > Len(more) =>
                    /\ j - Len(more) + 1 \in 2..Len(todo[p])
                    /\ todo'[p][j] = todo[p][j - Len(more) + 1]
          BY <1>0, <1>1, <1>5, ThenShape
        <5>2. todo'[p][1] = <<"untrack", l>> /\ todo'[p][2] = <<"emit", l>>
          BY <3>1, <5>1
        <5>3. CASE i = 1
          BY <3>2, <4>2, <5>2, <5>3
        <5>4. CASE i = 2
          <6>1. k = l
            BY <3>2, <4>2, <5>2, <5>4
          <6> QED
            BY <1>1, <1>7, <3>1, <4>2, <5>2, <5>4, <6>1
        <5>5. CASE i > 2
          <6> DEFINE j == i - Len(more) + 1
          <6>1. j \in 2..Len(todo[p]) /\ todo[p][j] = <<"emit", k>>
            BY <3>1, <3>2, <4>2, <5>1, <5>5
          <6> HIDE DEF j
          <6>2. j \in 1..Len(todo[p]) /\ j # 1
            BY <5>1, <6>1
          <6>3. todo[p][1] = <<"untrack", k>>
            BY <1>0, <6>1, <6>2 DEF Written
          <6> QED
            BY <5>1, <6>3
        <5> QED
          BY <5>3, <5>4, <5>5
      <4> QED
        BY <4>1, <4>2
    <3>3. ASSUME NEW q \in Proc, NEW r \in Proc, NEW k \in Layer,
                 Pending(q, <<"emit", k>>)', Pending(r, <<"emit", k>>)'
          PROVE  q = r
      <4>1. \A x \in Proc : Pending(x, <<"emit", l>>) => ended[l]
        BY <1>0 DEF Pending, Written
      <4>2. ASSUME NEW i \in 1..Len(more), more[i] = <<"emit", k>> PROVE k = l
        <5>1. i = 1 \/ i = 2
          BY <3>1
        <5> QED
          BY <3>1, <4>2, <5>1
      <4>3. /\ Pending(q, <<"emit", k>>) \/ (q = p /\ k = l)
            /\ Pending(r, <<"emit", k>>) \/ (r = p /\ k = l)
        BY <1>0, <1>1, <1>5, <3>3, <4>2, ThenPending
      <4> QED
        BY <1>0, <2>2, <4>1, <4>3 DEF Written
    <3>4. \A k \in Layer : ~ended'[k] => emitted'[k] = 0
      BY <1>0, <1>1, <1>7 DEF Written
    <3> QED
      BY <3>2, <3>3, <3>4 DEF Written
  <2> QED
    BY <2>1, <2>2
<1> QED
  BY <1>2, <1>6, <1>8, <1>9

\* The record is written: by the one thread that had it to do.
LEMMA EmitKeeps ==
    ASSUME IInv, NEW p \in Proc, NEW l \in Layer, Emit(p, l)
    PROVE  Told' /\ StatusOnce' /\ Written' /\ Nested'
<1>0. TypeOK /\ Told /\ StatusOnce /\ Written /\ Nested
  BY DEF IInv
<1> DEFINE none == <<>>
<1>1. /\ At(p, "emit", l) /\ Then(p, none)
      /\ emitted' = [emitted EXCEPT ![l] = emitted[l] + 1]
      /\ UNCHANGED <<recorded, finished, ended, events>>
  BY DEF Emit
<1>a. none \in Seq(Op)
  BY NothingMore
<1>c. Len(none) = 0
  BY NothingMore
<1>d. \A i \in 1..Len(none) : none[i][1] \notin {"status", "emit", "end"}
  BY NothingMore
<1> HIDE DEF none
<1>2. StatusOnce' /\ \A k \in Layer : Silent(k)' = Silent(k)
  BY <1>0, <1>1 DEF StatusOnce, Silent
<1>3. Told'
  BY <1>0, <1>1, <1>a, <1>d, <1>2, ThenTold
<1>4. Nested'
  BY <1>0, <1>1, <1>a, <1>d, ThenNested
<1>5. /\ Len(todo[p]) \in Nat \ {0} /\ todo[p][1] = <<"emit", l>>
      /\ \A q \in Proc \ {p} : todo'[q] = todo[q]
      /\ \A j \in 1..Len(todo'[p]) : j > Len(none) =>
            /\ j - Len(none) + 1 \in 2..Len(todo[p])
            /\ todo'[p][j] = todo[p][j - Len(none) + 1]
  BY <1>0, <1>1, <1>a, ThenShape, SMTT(30)
<1>6. 1 \in 1..Len(todo[p])
  BY <1>5
<1>7. ended[l] /\ Pending(p, <<"emit", l>>)
  BY <1>0, <1>5, <1>6 DEF Written, Pending
<1>8. \A k \in Layer \ {l} : emitted'[k] = emitted[k]
  BY <1>0, <1>1 DEF TypeOK
<1>9. Written'
  <2>1. ASSUME NEW q \in Proc, NEW i \in 1..Len(todo'[q]), NEW k \in Layer,
               todo'[q][i] = <<"emit", k>>
        PROVE  /\ ended'[k] /\ emitted'[k] = 0
               /\ i = 1 \/ (i = 2 /\ todo'[q][1] = <<"untrack", k>>)
    <3>1. CASE q # p
      <4>1. todo'[q] = todo[q] /\ i \in 1..Len(todo[q]) /\ todo[q][i] = <<"emit", k>>
        BY <1>5, <2>1, <3>1
      <4>2. /\ ended[k] /\ emitted[k] = 0 /\ Pending(q, <<"emit", k>>)
            /\ i = 1 \/ (i = 2 /\ todo[q][1] = <<"untrack", k>>)
        BY <1>0, <4>1 DEF Written, Pending
      <4>3. k # l
        BY <1>0, <1>7, <3>1, <4>2 DEF Written
      <4> QED
        BY <1>1, <1>8, <4>1, <4>2, <4>3
    <3>2. CASE q = p
      <4> DEFINE j == i - Len(none) + 1
      <4>1. j \in 2..Len(todo[p]) /\ todo[p][j] = <<"emit", k>>
        BY <1>5, <1>c, <2>1, <3>2
      <4> HIDE DEF j
      <4>2. j \in 1..Len(todo[p]) /\ j # 1
        BY <1>5, <4>1
      <4>3. todo[p][1] = <<"untrack", k>>
        BY <1>0, <4>1, <4>2 DEF Written
      <4> QED
        BY <1>5, <4>3
    <3> QED
      BY <3>1, <3>2
  <2>2. ASSUME NEW q \in Proc, NEW r \in Proc, NEW k \in Layer,
               Pending(q, <<"emit", k>>)', Pending(r, <<"emit", k>>)'
        PROVE  q = r
    <3>1. Pending(q, <<"emit", k>>) /\ Pending(r, <<"emit", k>>)
      BY <1>0, <1>1, <1>a, <1>d, <2>2, ThenPending
    <3> QED
      BY <1>0, <3>1 DEF Written
  <2>3. \A k \in Layer : ~ended'[k] => emitted'[k] = 0
    BY <1>0, <1>1, <1>7, <1>8 DEF Written
  <2> QED
    BY <2>1, <2>2, <2>3 DEF Written
<1> QED
  BY <1>2, <1>3, <1>4, <1>9

\* The other steps of the methods: the end of __init__, the stream handed over, a
\* message delivered, a span untracked.
LEMMA OtherKeeps ==
    ASSUME IInv, NEW p \in Proc, NEW l \in Layer,
           InitCall(p, l) \/ Built(p) \/ Delivered(p, l) \/ Untrack(p, l)
    PROVE  Told' /\ StatusOnce' /\ Written' /\ Nested'
<1>0. TypeOK /\ Told /\ StatusOnce /\ Written /\ Nested
  BY DEF IInv
<1>1. ASSUME NEW op, NEW k, NEW more \in Seq(Op), At(p, op, k), Then(p, more),
             \A i \in 1..Len(more) : more[i][1] \notin {"status", "emit", "end"},
             op \notin {"claim", "end"}, op = "untrack" => more = <<>>,
             UNCHANGED <<recorded, finished, ended, emitted>>,
             AddEvent(l, "first_response") \/ UNCHANGED events
      PROVE  Told' /\ StatusOnce' /\ Written' /\ Nested'
  <2>1. StatusOnce' /\ \A j \in Layer : Silent(j) => Silent(j)'
    BY <1>0, <1>1, OtherEvent
  <2>2. Told'
    BY <1>0, <1>1, <2>1, ThenTold
  <2>3. Written'
    BY <1>0, <1>1, ThenWritten
  <2>4. Nested'
    BY <1>0, <1>1, ThenNested
  <2> QED
    BY <2>1, <2>2, <2>3, <2>4
<1>2. CASE InitCall(p, l)
  <2> DEFINE more == IF over THEN <<<<"record", l>>>> ELSE <<>>
  <2>1. /\ At(p, "init", l) /\ Then(p, more)
        /\ UNCHANGED <<recorded, finished, ended, emitted>> /\ UNCHANGED events
    BY <1>2 DEF InitCall
  <2>2. /\ more \in Seq(Op)
        /\ \A i \in 1..Len(more) : more[i][1] \notin {"status", "emit", "end"}
    <3>1. CASE over
      BY <3>1 DEF Op
    <3>2. CASE ~over
      BY <3>2, NothingMore
    <3> QED
      BY <3>1, <3>2
  <2> HIDE DEF more
  <2> QED
    BY <1>1, <2>1, <2>2
<1> DEFINE none == <<>>
<1>3. CASE Built(p)
  <2>1. /\ At(p, "built", "outer") /\ Then(p, none)
        /\ UNCHANGED <<recorded, finished, ended, emitted>> /\ UNCHANGED events
    BY <1>3 DEF Built
  <2>2. /\ none \in Seq(Op)
        /\ \A i \in 1..Len(none) : none[i][1] \notin {"status", "emit", "end"}
    BY NothingMore
  <2> HIDE DEF none
  <2> QED
    BY <1>1, <2>1, <2>2
<1>4. CASE Delivered(p, l)
  <2>1. /\ At(p, "next", l) /\ Then(p, none)
        /\ UNCHANGED <<recorded, finished, ended, emitted>>
        /\ AddEvent(l, "first_response") \/ UNCHANGED events
    BY <1>4 DEF Delivered
  <2>2. /\ none \in Seq(Op)
        /\ \A i \in 1..Len(none) : none[i][1] \notin {"status", "emit", "end"}
    BY NothingMore
  <2> HIDE DEF none
  <2> QED
    BY <1>1, <2>1, <2>2
<1>5. CASE Untrack(p, l)
  <2>1. /\ At(p, "untrack", l) /\ Then(p, none)
        /\ UNCHANGED <<recorded, finished, ended, emitted>> /\ UNCHANGED events
    BY <1>5 DEF Untrack
  <2>2. /\ none \in Seq(Op)
        /\ \A i \in 1..Len(none) : none[i][1] \notin {"status", "emit", "end"}
    BY NothingMore
  <2>3. none = <<>>
    OBVIOUS
  <2> HIDE DEF none
  <2> QED
    BY <1>1, <2>1, <2>2, <2>3
<1> QED
  BY <1>2, <1>3, <1>4, <1>5

-----------------------------------------------------------------------------

\* A step of a method leaves the lists of the threads well formed.
LEMMA StepLists ==
    ASSUME TypeOK, NEW p \in Proc, Step(p)
    PROVE  todo' \in [Proc -> Seq(Op)]
<1>1. ASSUME NEW op, NEW l, NEW more \in Seq(Op), At(p, op, l), Then(p, more)
      PROVE  todo' \in [Proc -> Seq(Op)]
  BY <1>1, ThenShape
<1> DEFINE none == <<>>
<1>2. none \in Seq(Op)
  BY NothingMore
<1>3. CASE Built(p)
  <2>1. At(p, "built", "outer") /\ Then(p, none)
    BY <1>3 DEF Built
  <2> HIDE DEF none
  <2> QED
    BY <1>1, <1>2, <2>1
<1>4. ASSUME NEW l \in Layer, InitCall(p, l) PROVE todo' \in [Proc -> Seq(Op)]
  <2> DEFINE more == IF over THEN <<<<"record", l>>>> ELSE <<>>
  <2>1. At(p, "init", l) /\ Then(p, more)
    BY <1>4 DEF InitCall
  <2>2. <<<<"record", l>>>> \in Seq(Op)
    BY DEF Op
  <2>3. more \in Seq(Op)
    BY <2>2, NothingMore
  <2> HIDE DEF more
  <2> QED
    BY <1>1, <2>1, <2>3
<1>5. ASSUME NEW l \in Layer, Delivered(p, l) \/ StatusEvent(p, l) \/ Untrack(p, l) \/ Emit(p, l)
      PROVE  todo' \in [Proc -> Seq(Op)]
  <2>1. PICK op : At(p, op, l) /\ Then(p, none)
    BY <1>5 DEF Delivered, StatusEvent, Untrack, Emit
  <2> HIDE DEF none
  <2> QED
    BY <1>1, <1>2, <2>1
<1>6. ASSUME NEW l \in Layer, RecordStatus(p, l) PROVE todo' \in [Proc -> Seq(Op)]
  <2>1. PICK more \in {<<>>, <<<<"status", l>>>>} : At(p, "record", l) /\ Then(p, more)
    BY <1>6 DEF RecordStatus
  <2>2. <<<<"status", l>>>> \in Seq(Op)
    BY DEF Op
  <2>3. more \in Seq(Op)
    BY <2>2, NothingMore
  <2> QED
    BY <1>1, <2>1, <2>3
<1>7. ASSUME NEW l \in Layer, Claim(p, l) PROVE todo' \in [Proc -> Seq(Op)]
  <2> DEFINE list == (IF l = "outer" THEN Finish("inner") ELSE <<>>) \o <<<<"end", l>>>>
             more == IF finished[l] THEN <<>> ELSE list
  <2>1. At(p, "claim", l) /\ Then(p, more)
    BY <1>7 DEF Claim
  <2>2. list \in Seq(Op)
    <3>1. ClaimOps(l, list)
      BY ClaimList, Zenon
    <3> QED
      BY <3>1, Zenon DEF ClaimOps
  <2> HIDE DEF list
  <2>3. more \in Seq(Op)
    BY <2>2, NothingMore
  <2> HIDE DEF more
  <2> QED
    BY <1>1, <2>1, <2>3
<1>8. ASSUME NEW l \in Layer, EndSpan(p, l) PROVE todo' \in [Proc -> Seq(Op)]
  <2> DEFINE list == <<<<"untrack", l>>, <<"emit", l>>>>
             more == IF ended[l] THEN <<>> ELSE list
  <2>1. At(p, "end", l) /\ Then(p, more)
    BY <1>8 DEF EndSpan
  <2>2. list \in Seq(Op)
    BY EndList
  <2> HIDE DEF list
  <2>3. more \in Seq(Op)
    BY <2>2, NothingMore
  <2> HIDE DEF more
  <2> QED
    BY <1>1, <2>1, <2>3
<1> QED
  BY <1>3, <1>4, <1>5, <1>6, <1>7, <1>8 DEF Step

\* Every step keeps the types.
LEMMA TypeStep == TypeOK /\ [Next]_vars => TypeOK'
<1> SUFFICES ASSUME TypeOK, [Next]_vars PROVE TypeOK'
  OBVIOUS
<1>1. CASE \/ NextMessage \/ NextRaises \/ Drop \/ ServerEnds
           \/ \E p \in User : Cancel(p)
  <2>1. todo' \in [Proc -> Seq(Op)]
    BY <1>1, BeginStep
  <2>2. /\ UNCHANGED <<callbacks, finished, recorded, count, ended, events, inflight,
                       emitted, waiter>>
        /\ over' \in {over, TRUE} /\ dropped' \in {dropped, TRUE}
    BY <1>1 DEF NextMessage, NextRaises, Drop, ServerEnds, Cancel, Start, StatusArrives
  <2> QED
    BY <2>1, <2>2 DEF TypeOK
<1>2. ASSUME NEW p \in Proc, Step(p) PROVE TypeOK'
  <2>1. todo' \in [Proc -> Seq(Op)]
    BY <1>2, StepLists
  <2>2. CASE Built(p)
    BY <2>1, <2>2 DEF Built, TypeOK
  <2>3. ASSUME NEW l \in Layer, InitCall(p, l) PROVE TypeOK'
    BY <2>1, <2>3 DEF InitCall, TypeOK
  <2>4. ASSUME NEW l \in Layer, Delivered(p, l) PROVE TypeOK'
    <3>1. events' \in [Layer -> Seq(Name)]
      <4>1. AddEvent(l, "first_response") \/ events' = events
        BY <2>4 DEF Delivered
      <4>2. "first_response" \in Name
        BY DEF Name
      <4> QED
        BY <4>1, <4>2, AddEventShape DEF TypeOK
    <3>2. count' \in [Layer -> Nat]
      BY <2>4 DEF Delivered, TypeOK
    <3> QED
      BY <2>1, <2>4, <3>1, <3>2 DEF Delivered, TypeOK
  <2>5. ASSUME NEW l \in Layer, RecordStatus(p, l) PROVE TypeOK'
    <3>1. PICK b \in BOOLEAN : recorded' = [recorded EXCEPT ![l] = b]
      BY <2>5 DEF RecordStatus, TypeOK
    <3>2. recorded' \in [Layer -> BOOLEAN]
      BY <3>1 DEF TypeOK
    <3> QED
      BY <2>1, <2>5, <3>2 DEF RecordStatus, TypeOK
  <2>6. ASSUME NEW l \in Layer, StatusEvent(p, l) PROVE TypeOK'
    <3>1. events' \in [Layer -> Seq(Name)]
      <4>1. AddEvent(l, "status") /\ "status" \in Name
        BY <2>6 DEF StatusEvent, Name
      <4> QED
        BY <4>1, AddEventShape
    <3> QED
      BY <2>1, <2>6, <3>1 DEF StatusEvent, TypeOK
  <2>7. ASSUME NEW l \in Layer, Claim(p, l) PROVE TypeOK'
    BY <2>1, <2>7 DEF Claim, TypeOK
  <2>8. ASSUME NEW l \in Layer, EndSpan(p, l) PROVE TypeOK'
    BY <2>1, <2>8 DEF EndSpan, TypeOK
  <2>9. ASSUME NEW l \in Layer, Untrack(p, l) PROVE TypeOK'
    BY <2>1, <2>9 DEF Untrack, TypeOK
  <2>10. ASSUME NEW l \in Layer, Emit(p, l) PROVE TypeOK'
    BY <2>1, <2>10 DEF Emit, TypeOK
  <2> QED
    BY <1>2, <2>2, <2>3, <2>4, <2>5, <2>6, <2>7, <2>8, <2>9, <2>10 DEF Step
<1>3. CASE WaitIdle \/ CheckIdle \/ WaitTimesOut
  BY <1>3 DEF WaitIdle, CheckIdle, WaitTimesOut, Wait, TypeOK
<1>4. CASE UNCHANGED vars
  BY <1>4 DEF vars, TypeOK
<1> QED
  BY <1>1, <1>2, <1>3, <1>4 DEF Next

\* Every step keeps what the threads have to do in line with the flags.
LEMMA KeepStep == IInv /\ [Next]_vars => Told' /\ StatusOnce' /\ Written' /\ Nested'
<1> SUFFICES ASSUME IInv, [Next]_vars PROVE Told' /\ StatusOnce' /\ Written' /\ Nested'
  OBVIOUS
<1>0. TypeOK /\ Told /\ StatusOnce /\ Written /\ Nested
  BY DEF IInv
<1>1. CASE \/ NextMessage \/ NextRaises \/ Drop \/ ServerEnds
           \/ \E p \in User : Cancel(p)
  <2>1. Begins
    BY <1>0, <1>1, BeginStep
  <2>2. StatusOnce'
    BY <1>0, <2>1 DEF Begins, StatusOnce
  <2> QED
    BY <1>0, <2>1, <2>2, BeginsKeep
<1>2. ASSUME NEW p \in Proc, Step(p)
      PROVE  Told' /\ StatusOnce' /\ Written' /\ Nested'
  <2>1. CASE Built(p)
    <3>1. "outer" \in Layer
      BY DEF Layer
    <3> QED
      BY <2>1, <3>1, OtherKeeps
  <2>2. ASSUME NEW l \in Layer,
               InitCall(p, l) \/ Delivered(p, l) \/ Untrack(p, l)
        PROVE  Told' /\ StatusOnce' /\ Written' /\ Nested'
    BY <2>2, OtherKeeps
  <2> QED
    BY <1>2, <2>1, <2>2, RecordKeeps, StatusKeeps, ClaimKeeps, EndKeeps, EmitKeeps DEF Step
<1>3. CASE WaitIdle \/ CheckIdle \/ WaitTimesOut \/ UNCHANGED vars
  <2>1. UNCHANGED <<finished, recorded, ended, events, emitted, todo>>
    BY <1>3 DEF WaitIdle, CheckIdle, WaitTimesOut, Wait, vars
  <2>2. \A p \in Proc : Len(todo[p]) \in Nat
    BY <1>0, LenProperties DEF TypeOK
  <2>3. Begins
    BY <2>1, <2>2 DEF Begins
  <2>4. StatusOnce'
    BY <1>0, <2>1 DEF StatusOnce
  <2> QED
    BY <1>0, <2>3, <2>4, BeginsKeep
<1> QED
  BY <1>1, <1>2, <1>3 DEF Next

\* Nothing has happened when the stream is built.
LEMMA InitIInv == Init => IInv
<1> SUFFICES ASSUME Init PROVE IInv
  OBVIOUS
<1> DEFINE first == <<<<"init", "inner">>, <<"init", "outer">>, <<"built", "outer">>>>
           none == <<>>
<1>1. first \in Seq(Op) /\ Len(first) = 3
  BY DEF Op, Layer
<1>2. /\ first[1] = <<"init", "inner">> /\ first[2] = <<"init", "outer">>
      /\ first[3] = <<"built", "outer">>
  OBVIOUS
<1>3. none \in Seq(Op) /\ none \in Seq(Name) /\ Len(none) = 0
  BY EmptySeq
<1>4. \A p \in Proc : todo[p] = first \/ todo[p] = none
  BY DEF Init
<1>5. /\ todo = [p \in Proc |-> todo[p]]
      /\ \A l \in Layer : /\ events[l] = none /\ ended[l] = FALSE /\ emitted[l] = 0
                           /\ finished[l] = FALSE /\ recorded[l] = FALSE
  BY DEF Init
<1>6. events \in [Layer -> Seq(Name)]
  BY <1>3 DEF Init
<1> HIDE DEF first, none
<1>7. todo \in [Proc -> Seq(Op)]
  BY <1>1, <1>3, <1>4, <1>5
<1>8. TypeOK
  BY <1>6, <1>7 DEF Init, TypeOK
<1>9. ASSUME NEW p \in Proc, NEW i \in 1..Len(todo[p])
      PROVE  todo[p][i][1] \in {"init", "built"}
  <2>1. CASE todo[p] = first
    <3>1. Len(todo[p]) = 3
      BY <1>1, <2>1
    <3>2. i = 1 \/ i = 2 \/ i = 3
      BY <3>1
    <3> QED
      BY <1>2, <2>1, <3>2
  <2>2. CASE todo[p] = none
    <3>1. Len(todo[p]) = 0
      BY <1>3, <2>2
    <3> QED
      BY <3>1
  <2> QED
    BY <1>4, <2>1, <2>2
<1>10. \A l \in Layer : Silent(l)
  BY <1>3, <1>5 DEF Silent
<1>11. Told /\ Written
  BY <1>5, <1>9, <1>10 DEF Told, Written, Pending
<1>12. StatusOnce
  <2>1. \A l \in Layer : DOMAIN events[l] = {}
    BY <1>3, <1>5, LenProperties
  <2> QED
    BY <2>1 DEF StatusOnce
<1>13. Nested
  BY <1>5, <1>9 DEF Nested, InnerClaimed, Layer
<1> QED
  BY <1>8, <1>11, <1>12, <1>13 DEF IInv

\* The inductive invariant holds in every reachable state.
LEMMA Invariance == Spec => []IInv
<1>1. IInv /\ [Next]_vars => IInv'
  BY TypeStep, KeepStep DEF IInv
<1> QED
  BY <1>1, InitIInv, PTL DEF Spec

-----------------------------------------------------------------------------

\* Type correctness: every variable has its type, whatever the threads do.
THEOREM TypeCorrect == Spec => []TypeOK
<1>1. IInv => TypeOK
  BY DEF IInv
<1> QED
  BY <1>1, Invariance, PTL

\* "the status event is recorded exactly once" (instrumentation/_grpc.py,
\* _record_status): at most once, however many threads see the end of the RPC.
THEOREM OneStatus == Spec => []StatusOnce
<1>1. IInv => StatusOnce
  BY DEF IInv
<1> QED
  BY <1>1, Invariance, PTL

\* The inner span closes before the outer one, or is claimed by a thread that is about
\* to close it (instrumentation/_grpc.py, _finish).
THEOREM InnerEndsFirst == Spec => []InnerFirst
<1>1. IInv => InnerFirst
  <2> SUFFICES ASSUME Nested, ended["outer"], TypeOK PROVE
                   ended["inner"] \/ \E p \in Proc : <<"end", "inner">> \in ToSet(todo[p])
    BY DEF IInv, InnerFirst
  <2>1. ended["inner"] \/ \E p \in Proc : Pending(p, <<"end", "inner">>)
    BY DEF Nested
  <2>2. ASSUME NEW p \in Proc, Pending(p, <<"end", "inner">>)
        PROVE  <<"end", "inner">> \in ToSet(todo[p])
    <3>1. DOMAIN todo[p] = 1..Len(todo[p])
      BY LenProperties DEF TypeOK
    <3> QED
      BY <2>2, <3>1 DEF Pending, ToSet
  <2> QED
    BY <2>1, <2>2
<1> QED
  BY <1>1, Invariance, PTL

\* Late callbacks do not change a record that was written, nor write it again
\* (instrumentation/_core.py, Span.add_event and Span.end).
THEOREM RecordsAreFinal == Spec => RecordIsFinal
<1> DEFINE A == \A l \in Layer : emitted[l] > 0 =>
                    events'[l] = events[l] /\ emitted'[l] = emitted[l]
<1>1. IInv /\ [Next]_vars => [A]_vars
  <2> SUFFICES ASSUME IInv, [Next]_vars, NEW l \in Layer, emitted[l] > 0
               PROVE  events'[l] = events[l] /\ emitted'[l] = emitted[l]
    OBVIOUS
  <2>0. TypeOK /\ Told /\ StatusOnce /\ Written /\ Nested
    BY DEF IInv
  <2>1. emitted[l] # 0 /\ ended[l]
    BY <2>0 DEF Written, TypeOK
  <2>2. CASE \/ NextMessage \/ NextRaises \/ Drop \/ ServerEnds
             \/ \E p \in User : Cancel(p)
    BY <2>0, <2>2, BeginStep DEF Begins
  <2>3. ASSUME NEW p \in Proc, Step(p)
        PROVE  events'[l] = events[l] /\ emitted'[l] = emitted[l]
    <3>1. ASSUME NEW k \in Layer, NEW name, AddEvent(k, name)
          PROVE  events'[l] = events[l]
      BY <2>0, <2>1, <3>1 DEF AddEvent, TypeOK
    <3>2. ASSUME NEW k \in Layer, Emit(p, k)
          PROVE  emitted'[l] = emitted[l]
      <4>1. At(p, "emit", k) /\ emitted' = [emitted EXCEPT ![k] = emitted[k] + 1]
        BY <3>2 DEF Emit
      <4>2. Len(todo[p]) \in Nat \ {0} /\ todo[p][1] = <<"emit", k>>
        BY <2>0, <4>1, LenProperties, HeadTailProperties, EmptySeq DEF At, TypeOK
      <4>3. 1 \in 1..Len(todo[p])
        BY <4>2
      <4>4. k # l
        BY <2>0, <2>1, <4>2, <4>3 DEF Written
      <4> QED
        BY <2>0, <4>1, <4>4 DEF TypeOK
    <3>3. CASE Built(p)
      BY <3>3 DEF Built
    <3>4. ASSUME NEW k \in Layer,
                 \/ InitCall(p, k) \/ RecordStatus(p, k) \/ Claim(p, k) \/ EndSpan(p, k)
                 \/ Untrack(p, k)
          PROVE  events'[l] = events[l] /\ emitted'[l] = emitted[l]
      BY <3>4 DEF InitCall, RecordStatus, Claim, EndSpan, Untrack
    <3>5. ASSUME NEW k \in Layer, Delivered(p, k) \/ StatusEvent(p, k)
          PROVE  events'[l] = events[l] /\ emitted'[l] = emitted[l]
      BY <3>1, <3>5 DEF Delivered, StatusEvent
    <3>6. ASSUME NEW k \in Layer, Emit(p, k)
          PROVE  events'[l] = events[l] /\ emitted'[l] = emitted[l]
      BY <3>2, <3>6 DEF Emit
    <3> QED
      BY <2>3, <3>3, <3>4, <3>5, <3>6 DEF Step
  <2>4. CASE WaitIdle \/ CheckIdle \/ WaitTimesOut \/ UNCHANGED vars
    BY <2>4 DEF WaitIdle, CheckIdle, WaitTimesOut, Wait, vars
  <2> QED
    BY <2>2, <2>3, <2>4 DEF Next
<1> HIDE DEF A
<1>2. Spec => [][A]_vars
  BY <1>1, Invariance, PTL DEF Spec
<1> QED
  BY <1>2 DEF RecordIsFinal, A
=============================================================================
