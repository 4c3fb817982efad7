---------------------------- MODULE ForwardBytes ----------------------------
(***************************************************************************)
(* client/proxy.py, forward_bytes: one direction of a proxied connection,  *)
(* and the consumers of result streams that arm its silence cut through    *)
(* begin_wait() and end_wait() of the proxy.                               *)
(*                                                                         *)
(* The bytes of the stream are numbered 1, 2, ... in the order the sender  *)
(* wrote them.  Time is a bounded counter; the receive timeout             *)
(* (WS_RECV_TIMEOUT_S) and the silence limit are constants of that clock.  *)
(* On a receive timeout forward_bytes reads the oldest wait (under a       *)
(* lock), then the clock, then closes: each is a step, and frames, waits   *)
(* and time may come between any two of them.                              *)
(***************************************************************************)
EXTENDS Integers, Sequences, FiniteSetsExt

CONSTANTS Consumer,      \* the threads that wait in next() on a result stream
          ServerToClient,\* the direction, a BOOLEAN
          Bytes,         \* bound: bytes in the stream
          Buffer,        \* bound: bytes in what one recv() returns
          Attempts,      \* send attempts without progress (10 in the code)
          Limit,         \* MANAGED_SPARK_CONNECT_WS_SILENCE_LIMIT_S, 0: off
          RecvTimeout,   \* WS_RECV_TIMEOUT_S
          MaxNow         \* bound: the clock

ASSUME ForwardAssumption ==
    /\ ServerToClient \in BOOLEAN
    /\ {Bytes, Limit, MaxNow} \subseteq Nat
    /\ {Buffer, Attempts, RecvTimeout} \subseteq Nat \ {0}

VARIABLES
    pc,       \* "recv" and "send"; after a timeout of recv() "look" at the waits,
              \* "judge" the silence, "cut"; "closed": sockets closed, thread ended
    why,      \* what closed them
    arrived,  \* bytes that have reached from_sock
    arrivedAt,\* when the latest one did
    pos,      \* bytes that recv() has returned
    bs,       \* the bytes being sent
    attempt,  \* send attempts since the last one that made progress
    stalls,   \* consecutive timeouts of send() (what attempt is for)
    out,      \* the bytes to_sock has taken
    now,      \* time.monotonic()
    lastRx,   \* last_rx
    recvAt,   \* when the pending recv() was called
    idleAt,   \* when the thread last came back from sending, or was held up
              \* between a receive timeout and the next recv()
    since,    \* since: the oldest wait as it was read, or NoWait
    raced,    \* what overtook the timeout being handled: "frame", a frame arrived
              \* after recv() gave up, "ended", the wait that was read is over
    waits     \* [Consumer -> start of the wait, or NoWait]: the proxy's _waits

cutVars == <<since, raced>>

vars == <<pc, why, arrived, arrivedAt, pos, bs, attempt, stalls, out, now, lastRx,
          recvAt, idleAt, since, raced, waits>>

NoWait == -1

Why == {"open", "eof", "error", "send_timeout", "silence"}

Init ==
    /\ pc = "recv" /\ why = "open"
    /\ arrived = 0 /\ pos = 0
    /\ bs = <<>> /\ out = <<>>
    /\ attempt = 0 /\ stalls = 0
    /\ now = 0 /\ arrivedAt = 0 /\ lastRx = 0 /\ recvAt = 0 /\ idleAt = 0
    /\ since = NoWait /\ raced = {}
    /\ waits \in [Consumer -> {NoWait, 0}]

\* Bytes first to last of the stream.
Stretch(first, last) == [i \in 1..(last - first + 1) |-> first + i - 1]

\* waiting_since(): the start of the longest current wait.
Waiting == {k \in Consumer : waits[k] # NoWait}

WaitingSince == Min({waits[k] : k \in Waiting})

-----------------------------------------------------------------------------

\* The thread has given up on recv() and has not called it again.
Deciding == pc \in {"look", "judge", "cut"}

\* The sender writes more bytes.
Arrive ==
    /\ \E n \in 1..Bytes :
          /\ arrived + n <= Bytes
          /\ arrived' = arrived + n
    /\ arrivedAt' = now
    /\ raced' = IF Deciding THEN raced \cup {"frame"} ELSE raced
    /\ UNCHANGED <<pc, why, pos, bs, attempt, stalls, out, now, lastRx, recvAt, idleAt,
                   since, waits>>

\* _GuardedStream's next() registers its wait and takes it back.
BeginWait(k) ==
    /\ waits[k] = NoWait
    /\ waits' = [waits EXCEPT ![k] = now]
    /\ UNCHANGED <<pc, why, arrived, arrivedAt, pos, bs, attempt, stalls, out, now,
                   lastRx, recvAt, idleAt, cutVars>>

EndWait(k) ==
    /\ waits[k] # NoWait
    /\ waits' = [waits EXCEPT ![k] = NoWait]
    /\ raced' = IF pc \in {"judge", "cut"} /\ waits[k] = since
                THEN raced \cup {"ended"} ELSE raced
    /\ UNCHANGED <<pc, why, arrived, arrivedAt, pos, bs, attempt, stalls, out, now,
                   lastRx, recvAt, idleAt, since>>

\* recv() returns some of the bytes that are there.
Recv ==
    /\ pc = "recv"
    /\ pos < arrived
    /\ \E n \in 1..Buffer :
          /\ pos + n <= arrived
          /\ bs' = Stretch(pos + 1, pos + n)
          /\ pos' = pos + n
    /\ lastRx' = now
    /\ attempt' = 0
    /\ stalls' = 0
    /\ pc' = "send"
    /\ UNCHANGED <<why, arrived, arrivedAt, out, now, recvAt, idleAt, cutVars, waits>>

\* Both sockets are closed and the thread ends.
CloseBoth(reason) ==
    /\ pc' = "closed"
    /\ why' = reason

\* recv() has nothing left and the sender has closed.
RecvEof ==
    /\ pc = "recv"
    /\ pos = arrived
    /\ CloseBoth("eof")
    /\ lastRx' = now
    /\ UNCHANGED <<arrived, arrivedAt, pos, bs, attempt, stalls, out, now, recvAt,
                   idleAt, cutVars, waits>>

\* recv() or send() raises, or send() returns 0.
Broken ==
    /\ pc \in {"recv", "send"}
    /\ CloseBoth("error")
    /\ UNCHANGED <<arrived, arrivedAt, pos, bs, attempt, stalls, out, now, lastRx,
                   recvAt, idleAt, cutVars, waits>>

\* Mutant: a partial send leaves the frame as it is.
SendWholeFrame(n) ==
    /\ pc = "send"
    /\ n \in 1..Len(bs)
    /\ out' = out \o SubSeq(bs, 1, n)
    /\ stalls' = 0
    /\ attempt' = 0
    /\ IF n < Len(bs)
       THEN UNCHANGED <<pc, bs, recvAt, idleAt>>
       ELSE pc' = "recv" /\ bs' = <<>> /\ recvAt' = now /\ idleAt' = now
    /\ UNCHANGED <<why, arrived, arrivedAt, pos, now, lastRx, cutVars, waits>>

\* Mutant: a partial send does not count as progress.
SendKeepsAttempts(n) ==
    /\ pc = "send"
    /\ n \in 1..Len(bs)
    /\ out' = out \o SubSeq(bs, 1, n)
    /\ bs' = SubSeq(bs, n + 1, Len(bs))
    /\ stalls' = 0
    /\ IF n < Len(bs)
       THEN UNCHANGED <<pc, attempt, recvAt, idleAt>>
       ELSE pc' = "recv" /\ attempt' = 0 /\ recvAt' = now /\ idleAt' = now
    /\ UNCHANGED <<why, arrived, arrivedAt, pos, now, lastRx, cutVars, waits>>

\* to_sock takes the first n bytes.
Send(n) ==
    /\ pc = "send"
    /\ n \in 1..Len(bs)
    /\ out' = out \o SubSeq(bs, 1, n)
    /\ bs' = SubSeq(bs, n + 1, Len(bs))
    /\ attempt' = 0
    /\ stalls' = 0
    /\ IF n < Len(bs)
       THEN UNCHANGED <<pc, recvAt, idleAt>>
       ELSE pc' = "recv" /\ recvAt' = now /\ idleAt' = now
    /\ UNCHANGED <<why, arrived, arrivedAt, pos, now, lastRx, cutVars, waits>>

\* send() times out: just the send is tried again; after the last attempt the
\* loop ends with bytes left and SendTimeout is raised.
SendTimesOut ==
    /\ pc = "send"
    /\ attempt' = attempt + 1
    /\ stalls' = stalls + 1
    /\ IF attempt' = Attempts THEN CloseBoth("send_timeout") ELSE UNCHANGED <<pc, why>>
    /\ UNCHANGED <<arrived, arrivedAt, pos, bs, out, now, lastRx, recvAt, idleAt,
                   cutVars, waits>>

\* _waiting_since is asked only in this direction, and with a limit.
Watching == ServerToClient /\ Limit > 0

Armed == Watching /\ Waiting # {}

\* recv() times out.
RecvTimesOut ==
    /\ pc = "recv"
    /\ pos = arrived
    /\ now >= recvAt + RecvTimeout
    /\ IF Watching
       THEN pc' = "look" /\ raced' = {} /\ UNCHANGED recvAt
       ELSE recvAt' = now /\ UNCHANGED <<pc, raced>>
    /\ UNCHANGED <<why, arrived, arrivedAt, pos, bs, attempt, stalls, out, now, lastRx,
                   idleAt, since, waits>>

\* waiting_since(), under the lock of the waits.
LookAtWaits ==
    /\ pc = "look"
    /\ since' = IF Waiting = {} THEN NoWait ELSE WaitingSince
    /\ pc' = "judge"
    /\ UNCHANGED <<why, arrived, arrivedAt, pos, bs, attempt, stalls, out, now, lastRx,
                   recvAt, idleAt, raced, waits>>

\* How long nothing was received while the wait that was read lasted.
SilentS == now - Max({lastRx, since})

\* A silence as long as the limit is the cut; otherwise recv() is called again.
JudgeBy(silent) ==
    /\ pc = "judge"
    /\ IF since # NoWait /\ silent >= Limit
       THEN pc' = "cut" /\ UNCHANGED recvAt
       ELSE pc' = "recv" /\ recvAt' = now
    /\ UNCHANGED <<why, arrived, arrivedAt, pos, bs, attempt, stalls, out, now, lastRx,
                   idleAt, cutVars, waits>>

\* Mutant: the silence before the wait counts too.
JudgeSinceRx == JudgeBy(now - lastRx)

\* Mutant: a timeout of recv() counts as something received.
JudgeSinceRecv == JudgeBy(now - Max({recvAt, since}))

\* The clock is read and the silence compared with the limit.
Judge == JudgeBy(SilentS)

\* _shutdown_and_close() for the silence.
Cut ==
    /\ pc = "cut"
    /\ CloseBoth("silence")
    /\ UNCHANGED <<arrived, arrivedAt, pos, bs, attempt, stalls, out, now, lastRx,
                   recvAt, idleAt, cutVars, waits>>

\* Time passes, but a recv() does not outlast its timeout, nor wait for bytes
\* that are there.  A thread that is handling a timeout may be held up.
Tick ==
    /\ now < MaxNow
    /\ pc # "closed"
    /\ pc = "recv" => pos = arrived /\ now < recvAt + RecvTimeout
    /\ now' = now + 1
    /\ idleAt' = IF Deciding THEN now + 1 ELSE idleAt
    /\ UNCHANGED <<pc, why, arrived, arrivedAt, pos, bs, attempt, stalls, out, lastRx,
                   recvAt, cutVars, waits>>

Next ==
    \/ Arrive \/ Recv \/ RecvEof \/ Broken \/ SendTimesOut \/ Tick
    \/ RecvTimesOut \/ LookAtWaits \/ Judge \/ Cut
    \/ \E n \in 1..Buffer : Send(n)
    \/ \E k \in Consumer : BeginWait(k) \/ EndWait(k)

Spec == Init /\ [][Next]_vars

-----------------------------------------------------------------------------

\* Every variable of the forwarding thread has its type; attempt stays within
\* the loop's bound.
TypeOK ==
    /\ pc \in {"recv", "send", "look", "judge", "cut", "closed"}
    /\ why \in Why
    /\ {arrived, pos} \subseteq 0..Bytes
    /\ bs \in Seq(1..Bytes) /\ Len(bs) <= Buffer
    /\ out \in Seq(1..Bytes)
    /\ attempt \in 0..Attempts
    /\ stalls \in 0..Attempts
    /\ {now, arrivedAt, lastRx, recvAt, idleAt} \subseteq 0..MaxNow
    /\ since \in {NoWait} \cup 0..MaxNow
    /\ raced \subseteq {"frame", "ended"}
    /\ waits \in [Consumer -> {NoWait} \cup 0..MaxNow]

\* "to make sure we don't lose any bytes": across partial sends, timeouts and
\* retries what to_sock has taken is the beginning of the stream, every byte
\* once and in order, and what it has not taken yet is still held.
NoByteLost ==
    out \o bs = Stretch(1, pos)

\* A connection is given up on a slow receiver after exactly Attempts timeouts
\* in a row without a byte taken, not earlier and not later.
GivesUpOnlyOnStall ==
    why = "send_timeout" <=> stalls = Attempts

\* The silence cut: nothing at all has arrived from the server for the limit, and
\* a consumer has been waiting as long, at the very moment the sockets are closed.
\* Two races are excepted, each by what did happen: a frame that arrived after
\* recv() had given up, and a wait that ended after it was read.  A wait that ended
\* before that, a later wait and a frame recv() could have returned never count.
CutOnlyOnSilence ==
    [][why' = "silence" /\ why # "silence" =>
          /\ "frame" \in raced \/ now - arrivedAt >= Limit
          /\ "ended" \in raced \/ \E k \in Consumer : /\ waits[k] # NoWait
                                                     /\ now - waits[k] >= Limit]_vars

\* "the cut happens up to WS_RECV_TIMEOUT_S after the limit": while the thread
\* is receiving, a silent connection with a waiting consumer does not last
\* longer than that, not counting what the thread itself is held up for.
WedgedIsCut ==
    pc = "recv" /\ pos = arrived /\ Armed =>
        now - Max({lastRx, WaitingSince, idleAt}) < Limit + RecvTimeout
=============================================================================
