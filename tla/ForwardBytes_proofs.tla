------------------------- MODULE ForwardBytes_proofs -------------------------
(***************************************************************************)
(* Proofs about ForwardBytes, for a stream and frames of any length, any   *)
(* number of send attempts and any clock: no byte is lost, repeated or     *)
(* reordered; a slow receiver is given up after exactly the attempts       *)
(* allowed; a silent connection is cut in time, and only a silent one is.  *)
(* The inductive invariant adds that nothing is held while the thread      *)
(* receives, and that the loop's counter counts the timeouts in a row.     *)
(* For the silence cut a second invariant relates the time stamps to the   *)
(* call of the pending recv(), and what was read to what is the case.      *)
(***************************************************************************)
EXTENDS ForwardBytes, SequenceTheorems, WellFoundedInduction, TLAPS

\* Nothing is held over a recv(), and recv() returns only what has arrived.
Held == pos <= arrived /\ (pc \in {"recv", "look", "judge"} => bs = <<>>)

\* attempt counts the timeouts in a row, and stays below the limit as long as the
\* connection is open.
Counted ==
    /\ attempt = stalls
    /\ pc # "closed" => why = "open" /\ attempt < Attempts

\* The inductive invariant.
IInv == TypeOK /\ Held /\ Counted /\ NoByteLost /\ GivesUpOnlyOnStall

\* No time stamp lies ahead of the clock, last_rx is at least as late as the last
\* byte once every byte has been received, and a recv() does not outlast its
\* timeout.
Past ==
    /\ arrivedAt <= now /\ lastRx <= now /\ recvAt <= now /\ idleAt <= now
    /\ \A k \in Consumer : waits[k] <= now
    /\ pos = arrived => arrivedAt <= lastRx
    /\ pc = "recv" => now <= recvAt + RecvTimeout

\* When the pending recv() was called the silence had not lasted the limit: the
\* timeout before it would have cut the connection.
Soon ==
    pc = "recv" /\ pos = arrived /\ Armed =>
        \/ recvAt - lastRx < Limit
        \/ recvAt - idleAt < Limit
        \/ \A k \in Waiting : recvAt - waits[k] < Limit

\* A thread that was not held up has read the oldest wait there is, unless one has
\* just begun.
Fresh ==
    pc = "judge" /\ idleAt # now =>
        \A k \in Waiting : waits[k] = now \/ (since # NoWait /\ since <= waits[k])

\* What was read is still the case, unless it was overtaken; and a decision to cut
\* was right when it was made.
Decided ==
    /\ Deciding => Watching /\ ("frame" \in raced \/ pos = arrived)
    /\ pc \in {"judge", "cut"} /\ since # NoWait =>
          "ended" \in raced \/ \E k \in Waiting : waits[k] = since
    /\ pc = "cut" => /\ since # NoWait
                     /\ now - lastRx >= Limit /\ now - since >= Limit

-----------------------------------------------------------------------------

\* A stretch of the stream is a sequence of its length, of the bytes in it.
LEMMA StretchType ==
    ASSUME NEW a \in Nat \ {0}, NEW n \in Nat, a + n - 1 <= Bytes
    PROVE  /\ Stretch(a, a + n - 1) \in Seq(1..Bytes)
           /\ Len(Stretch(a, a + n - 1)) = n
           /\ \A i \in 1..n : Stretch(a, a + n - 1)[i] = a + i - 1
<1> DEFINE s == Stretch(a, a + n - 1)
<1>1. s = [i \in 1..n |-> a + i - 1]
  BY DEF Stretch
<1>2. \A i \in 1..n : a + i - 1 \in 1..Bytes
  BY ForwardAssumption
<1>3. s \in [1..n -> 1..Bytes]
  BY <1>1, <1>2
<1>4. s \in Seq(1..Bytes)
  BY <1>3, SeqDef
<1>5. DOMAIN s = 1..Len(s) /\ Len(s) \in Nat
  BY <1>4
<1>6. Len(s) = n
  BY <1>1, <1>5
<1> QED
  BY <1>1, <1>4, <1>6

\* What was received before and what is received next make one longer stretch.
LEMMA StretchConcat ==
    ASSUME NEW p \in Nat, NEW n \in Nat, p + n <= Bytes
    PROVE  Stretch(1, p) \o Stretch(p + 1, p + n) = Stretch(1, p + n)
<1> DEFINE s == Stretch(1, p)
           t == Stretch(p + 1, p + n)
           u == Stretch(1, p + n)
<1>0. p <= Bytes /\ 1 + p - 1 = p
  BY ForwardAssumption
<1>1. s \in Seq(1..Bytes) /\ Len(s) = p /\ \A i \in 1..p : s[i] = i
  BY <1>0, StretchType
<1>2. t \in Seq(1..Bytes) /\ Len(t) = n /\ \A i \in 1..n : t[i] = p + i
  BY StretchType, (p + 1) + n - 1 = p + n
<1>3. u \in Seq(1..Bytes) /\ Len(u) = p + n /\ \A i \in 1..(p + n) : u[i] = i
  BY StretchType, 1 + (p + n) - 1 = p + n
<1> HIDE DEF s, t, u
<1>4. /\ s \o t \in Seq(1..Bytes) /\ Len(s \o t) = p + n
      /\ \A i \in 1..(p + n) : (s \o t)[i] = IF i <= p THEN s[i] ELSE t[i - p]
  BY <1>1, <1>2, ConcatProperties
<1>5. \A i \in 1..(p + n) : (s \o t)[i] = u[i]
  BY <1>1, <1>2, <1>3, <1>4
<1>6. s \o t = u
  BY <1>3, <1>4, <1>5, SeqEqual
<1> QED
  BY <1>6 DEF s, t, u

-----------------------------------------------------------------------------

\* Min of a set of numbers is one of them, and none is smaller.
LEMMA MinOfNats ==
    ASSUME NEW S, S \subseteq Nat, S # {}
    PROVE  Min(S) \in S /\ \A y \in S : Min(S) <= y
<1> DEFINE Less == {p \in Nat \X Nat : p[1] < p[2]}
<1>a. IsWellFoundedOn(Less, Nat)
  BY NatLessThanWellFounded, Zenon DEF OpToRel
<1>b. \A x, y \in Nat : y < x => <<y, x>> \in Less
  OBVIOUS
<1> HIDE DEF Less
<1>1. PICK x \in S : \A y \in S : ~ (<<y, x>> \in Less)
  BY <1>a, WFMin
<1>2. ASSUME NEW y \in S PROVE x <= y
  <2>1. x \in Nat /\ y \in Nat
    OBVIOUS
  <2>2. ~ (y < x)
    BY <1>1, <1>b, <2>1
  <2> QED
    BY <2>1, <2>2
<1>3. \E m \in S : \A y \in S : m =< y
  BY <1>2
<1> QED
  BY <1>3 DEF Min

\* Max of two or three numbers is one of them, and none is larger.
LEMMA MaxOfThree ==
    ASSUME NEW a \in Int, NEW b \in Int, NEW c \in Int
    PROVE  /\ Max({a, b, c}) \in {a, b, c} /\ Max({a, b, c}) \in Int
           /\ Max({a, b, c}) >= a /\ Max({a, b, c}) >= b /\ Max({a, b, c}) >= c
<1> DEFINE S == {a, b, c}
<1>1. \E x \in S : \A y \in S : x >= y
  <2>1. CASE a >= b /\ a >= c
    BY <2>1
  <2>2. CASE b >= a /\ b >= c
    BY <2>2
  <2>3. CASE c >= a /\ c >= b
    BY <2>3
  <2> QED
    BY <2>1, <2>2, <2>3
<1>2. Max(S) \in S /\ \A y \in S : Max(S) >= y
  BY <1>1 DEF Max
<1> QED
  BY <1>2

\* While somebody waits, WaitingSince is the start of a current wait and none is
\* earlier.
LEMMA OldestWait ==
    ASSUME TypeOK, Waiting # {}
    PROVE  /\ WaitingSince \in Nat
           /\ \E k \in Waiting : WaitingSince = waits[k]
           /\ \A k \in Waiting : WaitingSince <= waits[k]
<1> DEFINE W == {waits[k] : k \in Waiting}
<1>1. \A k \in Waiting : waits[k] \in Nat
  BY ForwardAssumption DEF TypeOK, Waiting
<1>2. W \subseteq Nat /\ W # {}
  BY <1>1
<1>3. Min(W) \in W /\ \A y \in W : Min(W) <= y
  <2> HIDE DEF W
  <2> QED
    BY <1>2, MinOfNats
<1> QED
  BY <1>2, <1>3 DEF WaitingSince

-----------------------------------------------------------------------------

\* Every initial state satisfies the inductive invariant.
LEMMA InitIInv == Init => IInv
<1> SUFFICES ASSUME Init PROVE IInv
  OBVIOUS
<1> USE ForwardAssumption DEF Init
<1>1. TypeOK
  <2>1. <<>> \in Seq(1..Bytes) /\ Len(<<>>) = 0
    BY EmptySeq
  <2>2. /\ waits \in [Consumer -> {NoWait} \cup 0..MaxNow]
        /\ since \in {NoWait} \cup 0..MaxNow /\ raced \subseteq {"frame", "ended"}
    BY DEF NoWait
  <2> QED
    BY <2>1, <2>2 DEF TypeOK, Why
<1>2. NoByteLost
  <2>1. Stretch(1, 0) = <<>>
    <3>1. Stretch(1, 0) \in Seq(1..Bytes) /\ Len(Stretch(1, 0)) = 0
      BY StretchType, 1 + 0 - 1 = 0, 1 \in Nat \ {0}, 0 \in Nat
    <3> QED
      BY <3>1, EmptySeq
  <2>2. <<>> \o <<>> = <<>>
    BY EmptySeq, ConcatEmptySeq
  <2> QED
    BY <2>1, <2>2 DEF NoByteLost
<1>3. Held /\ Counted /\ GivesUpOnlyOnStall
  BY DEF Held, Counted, GivesUpOnlyOnStall
<1> QED
  BY <1>1, <1>2, <1>3 DEF IInv

\* Every step keeps the types.
LEMMA TypeStep == TypeOK /\ Counted /\ [Next]_vars => TypeOK'
<1> SUFFICES ASSUME TypeOK, Counted, [Next]_vars PROVE TypeOK'
  OBVIOUS
<1>a. /\ arrived \in 0..Bytes /\ pos \in 0..Bytes /\ Bytes \in Nat
      /\ bs \in Seq(1..Bytes) /\ Len(bs) <= Buffer /\ Buffer \in Nat
      /\ out \in Seq(1..Bytes) /\ Len(bs) \in Nat
  BY ForwardAssumption, LenProperties DEF TypeOK
<1>b. ASSUME arrived' \in 0..Bytes, pos' \in 0..Bytes, bs' \in Seq(1..Bytes),
             Len(bs') <= Buffer, out' \in Seq(1..Bytes),
             pc' \in {"recv", "send", "look", "judge", "cut", "closed"},
             raced' \subseteq {"frame", "ended"}, since' = since, attempt' \in {0, attempt},
             stalls' \in {0, stalls}, {arrivedAt', lastRx', recvAt', idleAt'} \subseteq
                 {now, arrivedAt, lastRx, recvAt, idleAt},
             UNCHANGED <<now, waits, why>>
      PROVE  TypeOK'
  <2>1. attempt' \in 0..Attempts /\ stalls' \in 0..Attempts
    <3>1. Attempts \in Nat
      BY ForwardAssumption
    <3>2. attempt \in 0..Attempts /\ stalls \in 0..Attempts
      BY DEF TypeOK
    <3>3. 0 \in 0..Attempts
      BY <3>1
    <3> QED
      BY <1>b, <3>2, <3>3
  <2>2. {now', arrivedAt', lastRx', recvAt', idleAt'} \subseteq 0..MaxNow
    BY <1>b DEF TypeOK
  <2>3. /\ waits' \in [Consumer -> {NoWait} \cup 0..MaxNow] /\ why' \in Why
        /\ since' \in {NoWait} \cup 0..MaxNow
    BY <1>b DEF TypeOK
  <2> QED
    BY <1>b, <2>1, <2>2, <2>3 DEF TypeOK
<1>1. CASE Arrive
  <2>1. PICK n \in 1..Bytes : arrived + n <= Bytes /\ arrived' = arrived + n
    BY <1>1 DEF Arrive
  <2>2. arrived' \in 0..Bytes
    BY <1>a, <2>1
  <2>3. /\ UNCHANGED <<pc, why, pos, bs, attempt, stalls, out, now, lastRx, recvAt, idleAt,
                        since, waits>>
        /\ arrivedAt' = now /\ raced' \in {raced, raced \cup {"frame"}}
    BY <1>1 DEF Arrive
  <2> QED
    BY <1>a, <1>b, <2>2, <2>3 DEF TypeOK
<1>2. CASE Recv
  <2>1. PICK n \in 1..Buffer : /\ pos + n <= arrived
                               /\ bs' = Stretch(pos + 1, pos + n)
                               /\ pos' = pos + n
    BY <1>2 DEF Recv
  <2>2. /\ pos' \in 0..Bytes
        /\ pos + 1 \in Nat \ {0} /\ n \in Nat /\ n <= Buffer
        /\ (pos + 1) + n - 1 = pos + n /\ (pos + 1) + n - 1 <= Bytes
    BY <1>a, <2>1
  <2>3. bs' \in Seq(1..Bytes) /\ Len(bs') <= Buffer
    BY <2>1, <2>2, StretchType
  <2>4. /\ UNCHANGED <<why, arrived, arrivedAt, out, now, recvAt, idleAt, since, raced,
                        waits>>
        /\ lastRx' = now /\ attempt' = 0 /\ stalls' = 0 /\ pc' = "send"
    BY <1>2 DEF Recv, cutVars
  <2>5. raced' \subseteq {"frame", "ended"}
    BY <2>4 DEF TypeOK
  <2> QED
    BY <1>a, <1>b, <2>2, <2>3, <2>4, <2>5
<1>3. ASSUME NEW n \in 1..Buffer, Send(n) PROVE TypeOK'
  <2> DEFINE taken == SubSeq(bs, 1, n)
             rest == SubSeq(bs, n + 1, Len(bs))
  <2>1. n \in 1..Len(bs) /\ out' = out \o taken /\ bs' = rest
    BY <1>3 DEF Send
  <2>2. taken \in Seq(1..Bytes) /\ rest \in Seq(1..Bytes) /\ Len(rest) <= Buffer
    <3>1. \A i \in 1..Len(bs) : bs[i] \in 1..Bytes
      BY <1>a, ElementOfSeq
    <3>2. Len(rest) = IF n + 1 <= Len(bs) THEN Len(bs) - (n + 1) + 1 ELSE 0
      BY <1>a, <2>1, <3>1, SubSeqProperties
    <3> QED
      BY <1>a, <2>1, <3>1, <3>2, SubSeqProperties
  <2> HIDE DEF taken, rest
  <2>3. out' \in Seq(1..Bytes)
    BY <1>a, <2>1, <2>2, ConcatProperties
  <2>4. /\ UNCHANGED <<why, arrived, arrivedAt, pos, now, lastRx, since, raced, waits>>
        /\ attempt' = 0 /\ stalls' = 0 /\ pc' \in {pc, "recv"}
        /\ recvAt' \in {recvAt, now} /\ idleAt' \in {idleAt, now}
    BY <1>3 DEF Send, cutVars
  <2>5. /\ pc' \in {"recv", "send", "look", "judge", "cut", "closed"}
        /\ raced' \subseteq {"frame", "ended"}
    BY <2>4 DEF TypeOK
  <2> QED
    BY <1>a, <1>b, <2>1, <2>2, <2>3, <2>4, <2>5
<1> USE ForwardAssumption DEF TypeOK, Why, cutVars
<1>4. CASE RecvEof
  BY <1>4 DEF RecvEof, CloseBoth
<1>5. CASE Broken
  BY <1>5 DEF Broken, CloseBoth
<1>6. CASE SendTimesOut
  <2>1. /\ attempt' = attempt + 1 /\ stalls' = stalls + 1
        /\ attempt < Attempts /\ attempt = stalls
        /\ UNCHANGED <<arrived, arrivedAt, pos, bs, out, now, lastRx, recvAt, idleAt, since,
                       raced, waits>>
    BY <1>6 DEF SendTimesOut, Counted
  <2>2. attempt' \in 0..Attempts /\ stalls' \in 0..Attempts
    BY <2>1
  <2>3. pc' \in {"recv", "send", "look", "judge", "cut", "closed"} /\ why' \in Why
    BY <1>6 DEF SendTimesOut, CloseBoth
  <2> QED
    BY <2>1, <2>2, <2>3
<1>7. CASE RecvTimesOut \/ LookAtWaits \/ Judge \/ Cut
  <2>1. CASE RecvTimesOut
    BY <2>1 DEF RecvTimesOut
  <2>2. CASE LookAtWaits
    <3>1. ASSUME Waiting # {} PROVE WaitingSince \in 0..MaxNow
      <4>1. PICK k \in Waiting : WaitingSince = waits[k]
        BY <3>1, OldestWait
      <4> QED
        BY <4>1 DEF Waiting
    <3>2. since' \in {NoWait} \cup 0..MaxNow
      BY <2>2, <3>1 DEF LookAtWaits
    <3> QED
      BY <2>2, <3>2 DEF LookAtWaits
  <2>3. CASE Judge
    BY <2>3 DEF Judge, JudgeBy
  <2>4. CASE Cut
    BY <2>4 DEF Cut, CloseBoth
  <2> QED
    BY <1>7, <2>1, <2>2, <2>3, <2>4
<1>8. CASE Tick
  <2>1. now < MaxNow /\ now' = now + 1 /\ idleAt' \in {idleAt, now'}
        /\ UNCHANGED <<pc, why, arrived, arrivedAt, pos, bs, attempt, stalls, out, lastRx,
                       recvAt, since, raced, waits>>
    BY <1>8 DEF Tick
  <2>2. now \in 0..MaxNow /\ MaxNow \in Nat
    OBVIOUS
  <2>3. now' \in 0..MaxNow
    BY <2>1, <2>2
  <2> QED
    BY <2>1, <2>3
<1>9. ASSUME NEW k \in Consumer, BeginWait(k) \/ EndWait(k) PROVE TypeOK'
  <2>1. /\ UNCHANGED <<pc, why, arrived, arrivedAt, pos, bs, attempt, stalls, out, now,
                       lastRx, recvAt, idleAt, since>>
        /\ raced' \in {raced, raced \cup {"ended"}}
        /\ waits' \in {[waits EXCEPT ![k] = now], [waits EXCEPT ![k] = NoWait]}
    BY <1>9 DEF BeginWait, EndWait
  <2> QED
    BY <2>1
<1>10. CASE UNCHANGED vars
  BY <1>10 DEF vars
<1> QED
  BY <1>1, <1>2, <1>3, <1>4, <1>5, <1>6, <1>7, <1>8, <1>9, <1>10 DEF Next

\* Every step keeps what is held and how the attempts are counted.
LEMMA CountStep ==
    TypeOK /\ Held /\ Counted /\ GivesUpOnlyOnStall /\ [Next]_vars
        => Held' /\ Counted' /\ GivesUpOnlyOnStall'
<1> SUFFICES ASSUME TypeOK, Held, Counted, GivesUpOnlyOnStall, [Next]_vars
             PROVE  Held' /\ Counted' /\ GivesUpOnlyOnStall'
  OBVIOUS
<1>0. /\ pos \in Nat /\ arrived \in Nat /\ attempt \in Nat /\ Attempts \in Nat \ {0}
      /\ bs \in Seq(1..Bytes)
  BY ForwardAssumption DEF TypeOK
<1> USE <1>0 DEF Held, Counted, GivesUpOnlyOnStall
<1>1. CASE Arrive
  BY <1>1, ForwardAssumption DEF Arrive
<1>2. CASE Recv
  BY <1>2, ForwardAssumption DEF Recv
<1>3. CASE RecvEof
  BY <1>3 DEF RecvEof, CloseBoth
<1>4. CASE Broken
  BY <1>4 DEF Broken, CloseBoth
<1>5. ASSUME NEW n \in 1..Buffer, Send(n)
      PROVE  Held' /\ Counted' /\ GivesUpOnlyOnStall'
  <2>1. pc' = "recv" => bs' = <<>>
    <3>1. pc' = "recv" => n = Len(bs)
      BY <1>5, LenProperties DEF Send
    <3>2. n = Len(bs) => SubSeq(bs, n + 1, Len(bs)) = <<>>
      BY LenProperties, SubSeqEmpty
    <3> QED
      BY <1>5, <3>1, <3>2 DEF Send
  <2> QED
    BY <1>5, <2>1 DEF Send
<1>6. CASE SendTimesOut
  BY <1>6 DEF SendTimesOut, CloseBoth
<1>7. CASE RecvTimesOut \/ LookAtWaits \/ Judge \/ Cut
  BY <1>7 DEF RecvTimesOut, LookAtWaits, Judge, JudgeBy, Cut, CloseBoth
<1>8. CASE Tick
  BY <1>8 DEF Tick
<1>9. ASSUME NEW k \in Consumer, BeginWait(k) \/ EndWait(k)
      PROVE  Held' /\ Counted' /\ GivesUpOnlyOnStall'
  BY <1>9 DEF BeginWait, EndWait
<1>10. CASE UNCHANGED vars
  BY <1>10 DEF vars
<1> QED
  BY <1>1, <1>2, <1>3, <1>4, <1>5, <1>6, <1>7, <1>8, <1>9, <1>10 DEF Next

\* Every step keeps the bytes: recv() adds the next stretch, and send() moves the
\* first n bytes from what is held to what was taken.
LEMMA ByteStep == TypeOK /\ Held /\ NoByteLost /\ [Next]_vars => NoByteLost'
<1> SUFFICES ASSUME TypeOK, Held, NoByteLost, [Next]_vars PROVE NoByteLost'
  OBVIOUS
<1>0. /\ bs \in Seq(1..Bytes) /\ out \in Seq(1..Bytes) /\ Len(bs) \in Nat
      /\ pos \in Nat /\ arrived \in Nat /\ arrived <= Bytes
      /\ out \o bs = Stretch(1, pos)
  BY ForwardAssumption, LenProperties DEF TypeOK, NoByteLost
<1>1. CASE UNCHANGED <<bs, out, pos>>
  BY <1>0, <1>1 DEF NoByteLost, Stretch
<1>2. CASE Recv
  <2>1. PICK n \in 1..Buffer : /\ pos + n <= arrived
                               /\ bs' = Stretch(pos + 1, pos + n)
                               /\ pos' = pos + n
    BY <1>2 DEF Recv
  <2>2. out' = out /\ out \o bs = out
    BY <1>0, <1>2, ConcatEmptySeq DEF Recv, Held
  <2>3. n \in Nat /\ pos + n <= Bytes
    BY <1>0, <2>1, ForwardAssumption
  <2>4. Stretch(1, pos) \o Stretch(pos + 1, pos + n) = Stretch(1, pos + n)
    BY <1>0, <2>3, StretchConcat
  <2> QED
    BY <1>0, <2>1, <2>2, <2>4 DEF NoByteLost
<1>3. ASSUME NEW n \in 1..Buffer, Send(n) PROVE NoByteLost'
  <2> DEFINE taken == SubSeq(bs, 1, n)
             rest == SubSeq(bs, n + 1, Len(bs))
  <2>1. n \in 1..Len(bs) /\ out' = out \o taken /\ bs' = rest /\ pos' = pos
    BY <1>3 DEF Send
  <2>2. taken \in Seq(1..Bytes) /\ rest \in Seq(1..Bytes)
    <3>1. \A i \in 1..Len(bs) : bs[i] \in 1..Bytes
      BY <1>0, ElementOfSeq
    <3> QED
      BY <1>0, <2>1, <3>1, SubSeqProperties
  <2>3. taken \o rest = bs
    <3>1. taken \o rest = SubSeq(bs, 1, Len(bs))
      BY <1>0, <2>1, ConcatAdjacentSubSeq
    <3> QED
      BY <1>0, <3>1, SubSeqFull
  <2> HIDE DEF taken, rest
  <2>4. (out \o taken) \o rest = out \o (taken \o rest)
    <3> DEFINE B == 1..Bytes
    <3>1. out \in Seq(B) /\ taken \in Seq(B) /\ rest \in Seq(B)
      BY <1>0, <2>2
    <3> HIDE DEF B
    <3> QED
      BY <3>1, ConcatAssociative, SMTT(30)
  <2> QED
    BY <1>0, <2>1, <2>3, <2>4 DEF NoByteLost
<1> QED
  BY <1>1, <1>2, <1>3
     DEF Next, Arrive, RecvEof, Broken, SendTimesOut, RecvTimesOut, LookAtWaits, Judge,
         JudgeBy, Cut, Tick, BeginWait, EndWait, vars

\* The inductive invariant holds in every reachable state.
LEMMA Invariance == Spec => []IInv
<1>1. IInv /\ [Next]_vars => IInv'
  BY TypeStep, CountStep, ByteStep DEF IInv
<1> QED
  BY <1>1, InitIInv, PTL DEF Spec

-----------------------------------------------------------------------------

\* Type correctness: every variable has its type, a frame its maximal length.
THEOREM TypeCorrect == Spec => []TypeOK
<1>1. IInv => TypeOK
  BY DEF IInv
<1> QED
  BY <1>1, Invariance, PTL

\* Across partial sends, timeouts and retries to_sock takes every byte once and in
\* order (client/proxy.py, forward_bytes).
THEOREM EveryByteOnce == Spec => []NoByteLost
<1>1. IInv => NoByteLost
  BY DEF IInv
<1> QED
  BY <1>1, Invariance, PTL

\* A receiver is given up after exactly the allowed timeouts without progress.
THEOREM GivesUpOnStall == Spec => []GivesUpOnlyOnStall
<1>1. IInv => GivesUpOnlyOnStall
  BY DEF IInv
<1> QED
  BY <1>1, Invariance, PTL

-----------------------------------------------------------------------------

\* What the loop computes on a timeout of recv(): nothing was received for as long
\* as the wait that was read lasts, or for less.
LEMMA SilentOf ==
    ASSUME TypeOK, since # NoWait
    PROVE  /\ SilentS \in Int
           /\ SilentS <= now - lastRx /\ SilentS <= now - since
           /\ SilentS < Limit => now - lastRx < Limit \/ now - since < Limit
<1>1. now \in Int /\ lastRx \in Int /\ since \in Int /\ Limit \in Int
  BY ForwardAssumption DEF TypeOK, NoWait
<1>2. {lastRx, since} = {lastRx, since, since}
  OBVIOUS
<1>3. PICK m \in Int : /\ m = Max({lastRx, since})
                       /\ m \in {lastRx, since} /\ m >= lastRx /\ m >= since
  BY <1>1, <1>2, MaxOfThree
<1>4. SilentS = now - m
  BY <1>3 DEF SilentS
<1> QED
  BY <1>1, <1>3, <1>4

\* The second invariant.
Timed == Past /\ Soon /\ Fresh /\ Decided

\* The time stamps hold at first: everything happens at 0.
LEMMA InitTimed == Init => Timed
<1> SUFFICES ASSUME Init PROVE Timed
  OBVIOUS
<1>1. \A k \in Consumer : waits[k] <= 0
  BY DEF Init, NoWait
<1>2. Past
  BY <1>1, ForwardAssumption DEF Init, Past
<1>3. Soon
  BY ForwardAssumption DEF Init, Soon, Armed, Watching
<1>4. Fresh /\ Decided
  BY DEF Init, Fresh, Decided, Deciding
<1> QED
  BY <1>2, <1>3, <1>4 DEF Timed

\* Every step keeps the time stamps in order.
LEMMA PastStep == TypeOK /\ Held /\ Past /\ [Next]_vars => Past'
<1> SUFFICES ASSUME TypeOK, Held, Past, [Next]_vars PROVE Past'
  OBVIOUS
<1>0. /\ now \in Nat /\ lastRx \in Nat /\ recvAt \in Nat /\ idleAt \in Nat
      /\ arrivedAt \in Nat /\ pos \in Nat /\ arrived \in Nat
      /\ RecvTimeout \in Nat \ {0} /\ pos <= arrived
      /\ \A k \in Consumer : waits[k] \in Int
  BY ForwardAssumption DEF TypeOK, Held, NoWait
<1> USE <1>0 DEF Past
<1>1. CASE Arrive
  BY <1>1 DEF Arrive
<1>2. CASE Recv
  BY <1>2 DEF Recv
<1>3. CASE RecvEof
  BY <1>3 DEF RecvEof, CloseBoth
<1>4. CASE Broken
  BY <1>4 DEF Broken, CloseBoth
<1>5. ASSUME NEW n \in 1..Buffer, Send(n) PROVE Past'
  BY <1>5 DEF Send
<1>6. CASE SendTimesOut
  BY <1>6 DEF SendTimesOut, CloseBoth
<1>7. CASE RecvTimesOut \/ LookAtWaits \/ Judge \/ Cut
  BY <1>7 DEF RecvTimesOut, LookAtWaits, Judge, JudgeBy, Cut, CloseBoth
<1>8. CASE Tick
  BY <1>8 DEF Tick
<1>9. ASSUME NEW k \in Consumer, BeginWait(k) \/ EndWait(k) PROVE Past'
  <2>1. /\ UNCHANGED <<pc, arrived, arrivedAt, pos, now, lastRx, recvAt, idleAt>>
        /\ \A j \in Consumer : waits'[j] \in {waits[j], now, NoWait}
    BY <1>9 DEF BeginWait, EndWait, TypeOK
  <2>2. NoWait <= now
    BY DEF NoWait
  <2> QED
    BY <2>1, <2>2
<1>10. CASE UNCHANGED vars
  BY <1>10 DEF vars
<1> QED
  BY <1>1, <1>2, <1>3, <1>4, <1>5, <1>6, <1>7, <1>8, <1>9, <1>10 DEF Next

\* Every step keeps Soon: a wait that begins is not older than the pending recv(),
\* and a recv() is only called again when the silence was short enough, or by a
\* thread that was held up just now.
LEMMA SoonStep == TypeOK /\ Held /\ Past /\ Soon /\ Fresh /\ [Next]_vars => Soon'
<1> SUFFICES ASSUME TypeOK, Held, Past, Soon, Fresh, [Next]_vars,
                    (pc = "recv")', (pos = arrived)', Armed'
             PROVE  (\/ recvAt - lastRx < Limit
                     \/ recvAt - idleAt < Limit
                     \/ \A k \in Waiting : recvAt - waits[k] < Limit)'
  BY DEF Soon
<1>0. /\ now \in Nat /\ lastRx \in Nat /\ recvAt \in Nat /\ idleAt \in Nat
      /\ arrivedAt \in Nat /\ pos \in Nat /\ arrived \in Nat /\ Limit \in Nat
      /\ Limit > 0 /\ recvAt <= now /\ pos <= arrived
      /\ \A k \in Consumer : waits[k] \in Int
  BY ForwardAssumption DEF TypeOK, Held, NoWait, Past, Armed, Watching
<1>a. CASE UNCHANGED <<pc, pos, arrived, recvAt, lastRx, idleAt, waits>>
  BY <1>a DEF Soon, Armed, Waiting
<1>1. CASE Arrive
  BY <1>0, <1>1 DEF Arrive
<1>2. CASE Recv
  BY <1>2 DEF Recv
<1>3. CASE RecvEof \/ Broken
  BY <1>3 DEF RecvEof, Broken, CloseBoth
<1>5. ASSUME NEW n \in 1..Buffer, Send(n)
      PROVE  (recvAt - idleAt < Limit)'
  <2>1. recvAt' = now /\ idleAt' = now
    BY <1>5 DEF Send
  <2> QED
    BY <1>0, <2>1
<1>6. CASE SendTimesOut
  BY <1>6 DEF SendTimesOut, CloseBoth
<1>6a. CASE RecvTimesOut \/ LookAtWaits \/ Cut
  BY <1>6a DEF RecvTimesOut, LookAtWaits, Cut, CloseBoth, Armed
<1>7. CASE Judge
  <2>1. /\ pc = "judge" /\ ~ (since # NoWait /\ SilentS >= Limit) /\ recvAt' = now
        /\ UNCHANGED <<lastRx, idleAt, waits>>
    BY <1>7 DEF Judge, JudgeBy
  <2>2. Waiting' = Waiting
    BY <2>1 DEF Waiting
  <2>3. CASE idleAt = now
    BY <1>0, <2>1, <2>3
  <2>4. CASE now - lastRx < Limit
    BY <2>1, <2>4
  <2>5. CASE idleAt # now /\ ~ (now - lastRx < Limit)
    <3>1. ASSUME NEW k \in Waiting PROVE now - waits[k] < Limit
      <4>1. waits[k] \in Int /\ waits[k] <= now
        BY <1>0 DEF Waiting, Past
      <4>2. CASE waits[k] = now
        BY <1>0, <4>2
      <4>3. CASE since # NoWait /\ since <= waits[k]
        <5>1. SilentS < Limit
          BY <1>0, <2>1, <4>3, SilentOf
        <5>2. now - since < Limit /\ since \in Int
          BY <2>5, <4>3, <5>1, SilentOf DEF TypeOK, NoWait
        <5> QED
          BY <1>0, <4>1, <4>3, <5>2
      <4> QED
        BY <2>1, <2>5, <4>2, <4>3 DEF Fresh
    <3> QED
      BY <2>1, <2>2, <3>1
  <2> QED
    BY <2>3, <2>4, <2>5
<1>8. CASE Tick
  BY <1>a, <1>8 DEF Tick, Deciding
<1>9. ASSUME NEW k \in Consumer, BeginWait(k)
      PROVE  (\/ recvAt - lastRx < Limit
              \/ recvAt - idleAt < Limit
              \/ \A j \in Waiting : recvAt - waits[j] < Limit)'
  <2>1. /\ UNCHANGED <<pc, pos, arrived, recvAt, lastRx, idleAt>>
        /\ waits'[k] = now
        /\ \A j \in Consumer \ {k} : waits'[j] = waits[j]
    BY <1>9 DEF BeginWait, TypeOK
  <2>2. recvAt - waits'[k] < Limit
    BY <1>0, <2>1
  <2>3. \A j \in Waiting' : j = k \/ (j \in Waiting /\ waits'[j] = waits[j])
    BY <2>1 DEF Waiting
  <2>4. CASE Waiting = {}
    BY <2>1, <2>2, <2>3, <2>4
  <2>5. CASE Waiting # {}
    <3>1. Armed
      BY <2>5 DEF Armed
    <3>2. \/ recvAt - lastRx < Limit
          \/ recvAt - idleAt < Limit
          \/ \A j \in Waiting : recvAt - waits[j] < Limit
      BY <2>1, <3>1 DEF Soon
    <3> QED
      BY <2>1, <2>2, <2>3, <3>2
  <2> QED
    BY <2>4, <2>5
<1>10. ASSUME NEW k \in Consumer, EndWait(k)
       PROVE  (\/ recvAt - lastRx < Limit
               \/ recvAt - idleAt < Limit
               \/ \A j \in Waiting : recvAt - waits[j] < Limit)'
  <2>1. /\ UNCHANGED <<pc, pos, arrived, recvAt, lastRx, idleAt>>
        /\ waits'[k] = NoWait
        /\ \A j \in Consumer \ {k} : waits'[j] = waits[j]
    BY <1>10 DEF EndWait, TypeOK
  <2>2. \A j \in Waiting' : j \in Waiting /\ waits'[j] = waits[j]
    BY <2>1 DEF Waiting
  <2>3. Armed
    BY <2>2 DEF Armed
  <2>4. \/ recvAt - lastRx < Limit
        \/ recvAt - idleAt < Limit
        \/ \A j \in Waiting : recvAt - waits[j] < Limit
    BY <2>1, <2>3 DEF Soon
  <2> QED
    BY <2>1, <2>2, <2>4
<1>11. CASE UNCHANGED vars
  BY <1>a, <1>11 DEF vars
<1> QED
  BY <1>1, <1>2, <1>3, <1>5, <1>6, <1>6a, <1>7, <1>8, <1>9, <1>10, <1>11 DEF Next

\* Every step keeps Fresh: the oldest wait is read under the lock, and a wait that
\* begins afterwards begins now unless the clock moves, which holds the thread up.
LEMMA FreshStep == TypeOK /\ Fresh /\ [Next]_vars => Fresh'
<1> SUFFICES ASSUME TypeOK, Fresh, [Next]_vars, (pc = "judge" /\ idleAt # now)'
             PROVE  (\A k \in Waiting :
                        waits[k] = now \/ (since # NoWait /\ since <= waits[k]))'
  BY DEF Fresh
<1>1. CASE UNCHANGED <<pc, idleAt, now, waits, since>>
  BY <1>1 DEF Fresh, Waiting
<1>2. CASE LookAtWaits
  <2>1. UNCHANGED waits /\ since' = IF Waiting = {} THEN NoWait ELSE WaitingSince
    BY <1>2 DEF LookAtWaits
  <2>2. ASSUME Waiting # {}
        PROVE  since' # NoWait /\ \A k \in Waiting : since' <= waits[k]
    BY <2>1, <2>2, OldestWait DEF NoWait
  <2> QED
    BY <2>1, <2>2 DEF Waiting
<1>3. ASSUME NEW j \in Consumer, BeginWait(j) \/ EndWait(j)
      PROVE  (\A k \in Waiting :
                 waits[k] = now \/ (since # NoWait /\ since <= waits[k]))'
  <2>1. /\ UNCHANGED <<pc, idleAt, now, since>>
        /\ \A k \in Consumer : waits'[k] \in {waits[k], now, NoWait}
    BY <1>3 DEF BeginWait, EndWait, TypeOK, cutVars
  <2> QED
    BY <2>1 DEF Fresh, Waiting
<1>4. CASE Tick
  <2>1. pc = "judge" /\ idleAt' = now + 1 /\ now' = now + 1
    BY <1>4 DEF Tick, Deciding
  <2> QED
    BY <2>1
<1> QED
  BY <1>1, <1>2, <1>3, <1>4
     DEF Next, vars, Arrive, Recv, RecvEof, Broken, Send, SendTimesOut, RecvTimesOut,
         Judge, JudgeBy, Cut, CloseBoth, cutVars

\* Every step keeps what was read and decided.
LEMMA DecidedStep == TypeOK /\ Decided /\ [Next]_vars => Decided'
<1> SUFFICES ASSUME TypeOK, Decided, [Next]_vars PROVE Decided'
  OBVIOUS
<1>0. /\ now \in Nat /\ lastRx \in Nat /\ since \in Int /\ Limit \in Nat
      /\ raced \subseteq {"frame", "ended"}
  BY ForwardAssumption DEF TypeOK, NoWait
<1> USE DEF Decided, Deciding
<1>1. CASE UNCHANGED <<pc, pos, arrived, waits, since, raced, now, lastRx>>
  BY <1>1 DEF Waiting
<1>2. CASE pc' \in {"recv", "send", "closed"}
  BY <1>2
<1>3. CASE Arrive
  BY <1>3 DEF Arrive, Waiting
<1>4. CASE RecvTimesOut
  BY <1>4 DEF RecvTimesOut
<1>5. CASE LookAtWaits
  <2>1. /\ pc = "look" /\ pc' = "judge" /\ UNCHANGED <<waits, raced, pos, arrived>>
        /\ since' = IF Waiting = {} THEN NoWait ELSE WaitingSince
    BY <1>5 DEF LookAtWaits
  <2>2. since' # NoWait => \E k \in Waiting : waits[k] = since'
    BY <2>1, OldestWait
  <2> QED
    BY <2>1, <2>2 DEF Waiting
<1>6. CASE Judge
  <2>1. /\ pc = "judge" /\ UNCHANGED <<waits, raced, pos, arrived, since, now, lastRx>>
        /\ pc' = "recv" \/ (pc' = "cut" /\ since # NoWait /\ SilentS >= Limit)
    BY <1>6 DEF Judge, JudgeBy, cutVars
  <2>2. since # NoWait /\ SilentS >= Limit => now - lastRx >= Limit /\ now - since >= Limit
    BY <1>0, SilentOf
  <2> QED
    BY <2>1, <2>2 DEF Waiting
<1>7. CASE Tick
  <2>1. /\ UNCHANGED <<pc, pos, arrived, waits, since, raced, lastRx>>
        /\ now' = now + 1 /\ Waiting' = Waiting
    BY <1>7 DEF Tick, Waiting, cutVars
  <2>2. pc = "cut" => now' - lastRx >= Limit /\ now' - since >= Limit
    BY <1>0, <2>1
  <2> QED
    BY <2>1, <2>2
<1>8. ASSUME NEW j \in Consumer, BeginWait(j) PROVE Decided'
  <2>1. /\ UNCHANGED <<pc, pos, arrived, since, raced, now, lastRx>>
        /\ \A k \in Waiting : k \in Waiting' /\ waits'[k] = waits[k]
    BY <1>8 DEF BeginWait, TypeOK, Waiting, cutVars
  <2> QED
    BY <2>1
<1>9. ASSUME NEW j \in Consumer, EndWait(j) PROVE Decided'
  <2>1. /\ UNCHANGED <<pc, pos, arrived, since, now, lastRx>>
        /\ raced' = IF pc \in {"judge", "cut"} /\ waits[j] = since
                    THEN raced \cup {"ended"} ELSE raced
        /\ \A k \in Waiting \ {j} : k \in Waiting' /\ waits'[k] = waits[k]
    BY <1>9 DEF EndWait, TypeOK, Waiting
  <2> QED
    BY <2>1
<1> QED
  BY <1>1, <1>2, <1>3, <1>4, <1>5, <1>6, <1>7, <1>8, <1>9
     DEF Next, vars, Recv, RecvEof, Broken, Send, SendTimesOut, Cut, CloseBoth, cutVars

\* The second invariant holds in every reachable state.
LEMMA SilenceInvariance == Spec => [](IInv /\ Timed)
<1> DEFINE J == IInv /\ Timed
<1>1. Init => J
  BY InitIInv, InitTimed
<1>2. J /\ [Next]_vars => J'
  BY TypeStep, CountStep, ByteStep, PastStep, SoonStep, FreshStep, DecidedStep
     DEF IInv, Timed
<1> QED
  BY <1>1, <1>2, PTL DEF Spec

\* "the cut happens up to WS_RECV_TIMEOUT_S after the limit": with a consumer
\* waiting and a thread that receives, a silence does not get older than that
\* (client/proxy.py, forward_bytes), whatever the limit and the timeout.
THEOREM WedgeEnds == Spec => []WedgedIsCut
<1>1. IInv /\ Timed => WedgedIsCut
  <2> SUFFICES ASSUME TypeOK, Past, Soon, pc = "recv", pos = arrived, Armed
               PROVE  now - Max({lastRx, WaitingSince, idleAt}) < Limit + RecvTimeout
    BY DEF IInv, Timed, WedgedIsCut
  <2>1. /\ now \in Int /\ lastRx \in Int /\ idleAt \in Int /\ recvAt \in Int
        /\ Limit \in Int /\ RecvTimeout \in Int /\ now <= recvAt + RecvTimeout
    BY ForwardAssumption DEF TypeOK, Past
  <2>2. PICK k \in Waiting : WaitingSince = waits[k] /\ WaitingSince \in Nat
    BY OldestWait DEF Armed
  <2> DEFINE m == Max({lastRx, WaitingSince, idleAt})
  <2>3. m \in Int /\ m >= lastRx /\ m >= WaitingSince /\ m >= idleAt
    BY <2>1, <2>2, MaxOfThree, WaitingSince \in Int
  <2> HIDE DEF m
  <2>4. recvAt - lastRx < Limit \/ recvAt - idleAt < Limit \/ recvAt - WaitingSince < Limit
    BY <2>2 DEF Soon
  <2>5. now - m < Limit + RecvTimeout
    BY <2>1, <2>2, <2>3, <2>4
  <2> QED
    BY <2>5 DEF m
<1> QED
  BY <1>1, SilenceInvariance, PTL

\* Only a silent connection is cut for silence: when the sockets are closed nothing
\* has arrived for the limit, or a frame arrived since recv() gave up, and somebody
\* has been waiting for as long, or that wait ended since it was read
\* (client/proxy.py, forward_bytes).
THEOREM OnlySilenceIsCut == Spec => CutOnlyOnSilence
<1> DEFINE A == why' = "silence" /\ why # "silence" =>
                   /\ "frame" \in raced \/ now - arrivedAt >= Limit
                   /\ "ended" \in raced \/ \E k \in Consumer : /\ waits[k] # NoWait
                                                              /\ now - waits[k] >= Limit
<1>1. IInv /\ Timed /\ [Next]_vars => [A]_vars
  <2> SUFFICES ASSUME TypeOK, Past, Decided, [Next]_vars, why' = "silence",
                      why # "silence"
               PROVE  /\ "frame" \in raced \/ now - arrivedAt >= Limit
                      /\ \/ "ended" \in raced
                         \/ \E k \in Consumer : waits[k] # NoWait /\ now - waits[k] >= Limit
    BY DEF IInv, Timed
  <2>1. Cut
    BY DEF Next, vars, Arrive, Recv, RecvEof, Broken, Send, SendTimesOut, RecvTimesOut,
           LookAtWaits, Judge, JudgeBy, Tick, BeginWait, EndWait, CloseBoth
  <2>2. /\ now - lastRx >= Limit /\ now - since >= Limit
        /\ "frame" \in raced \/ pos = arrived
        /\ "ended" \in raced \/ \E k \in Waiting : waits[k] = since
    BY <2>1 DEF Cut, Decided, Deciding
  <2>3. /\ now \in Int /\ lastRx \in Int /\ arrivedAt \in Int /\ Limit \in Int
        /\ pos = arrived => arrivedAt <= lastRx
    BY ForwardAssumption DEF TypeOK, Past
  <2>4. "frame" \in raced \/ now - arrivedAt >= Limit
    BY <2>2, <2>3
  <2>5. "ended" \in raced \/ \E k \in Consumer : waits[k] # NoWait /\ now - waits[k] >= Limit
    <3>1. ASSUME NEW k \in Waiting, waits[k] = since
          PROVE  k \in Consumer /\ waits[k] # NoWait /\ now - waits[k] >= Limit
      BY <2>2, <3>1 DEF Waiting
    <3> QED
      BY <2>2, <3>1
  <2> QED
    BY <2>4, <2>5
<1> HIDE DEF A
<1>2. Spec => [][A]_vars
  BY <1>1, SilenceInvariance, PTL DEF Spec
<1> QED
  BY <1>2 DEF CutOnlyOnSilence, A
=============================================================================
