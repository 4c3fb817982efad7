# managed-spark-connect: TLA+ models, model checking and proofs

The repository is a client library: it finds or creates a Dataproc session,
connects a Spark Connect client to it through a local TCP-to-WebSocket proxy,
guards every RPC with a check that the session is still there, patches parts of
pyspark's client, and adds magics and links to a notebook. Little of it is
computation; most of what can go wrong is a matter of order: threads of one
process, a server that changes between two RPCs, other clients that share a named
session, RPCs that fail without saying why, an editor that writes its files while
they are read. That is what the modules here are about.

Paths below are relative to `src/google/cloud/managed_spark_connect/`, and
`magics/` stands for `src/google/cloud/managed_spark_magics/`.

## 1. Inventory

| component | source | state | operations | interacts with |
|---|---|---|---|---|
| session lifecycle | `session.py` 595-2722 | class-level id, uuid, custom flag, default session, pyspark's instantiated and per-thread active sessions, active-session file, liveness verdicts | `getOrCreate`, reuse, create with retries, endpoint poll, delete of a named session, `stop`, termination | Dataproc (RPCs), the proxy (one per client), the guard (verdicts) |
| liveness cache and RPC guard | `session.py` 2724-3010, `client/core.py` 112-509 | one verdict and its time per session name | check before an RPC, check after a failed one, record, invalidate | Dataproc GetSession; every Spark Connect RPC |
| local proxy | `client/proxy.py` 602-824 | listening socket, `_killed`, registered connections, backends and threads, `_conn_failure_logged` | `start`, accept loop, connection handlers, `stop` | gRPC's TCP connections, WebSockets |
| byte forwarding | `client/proxy.py` 300-515, 648-663 | the frame being sent, attempts, `last_rx`, the consumers' waits | `forward_bytes`, `begin_wait`, `end_wait` | handlers (threads), guarded streams (waits) |
| release coalescing | `client/reattach_patch.py` 200-290 | `next_id`, `busy` per iterator; pyspark's thread pool | `_release_until`, `_drain_releases` | the consumers of result streams, ReleaseExecute |
| query replay | `client/reattach_patch.py` 61-197 | none of its own | one replay after a lost reattach position | progress bars, pyspark's fetch loop |
| progress bars | `session.py` 2128-2278 | open bars by operation | handler, `_close_progress_bar`, the hooks around a query | pyspark's progress callbacks, the replay, the session lock |
| instrumentation of RPCs | `instrumentation/_grpc.py`, `_core.py`, `client/core.py` 166-231 | two nested spans per stream, spans in flight | status callback, `next`, `cancel`, `__del__`, `wait_idle` | gRPC's thread, sinks |
| IPython extras | `_ipython.py`, `magics/__init__.py` | per shell: what the extras loaded, added and injected | load, unload, the trait's observer, the extensions' loaders | IPython's extension manager, magics and user namespace |
| `%%sparksql` | `magics/sparksql.py` | the options and statements of one cell | parse, split, bind, run, checkpoint, view, display, assign | sqlparse, Spark, the user namespace |
| IDE support (Data Agent Kit) | `ide.py` | the detected editor, cached | `detect_ide`, `dak_state`, `dak_links` | the editor's process tree and files |
| credentials cache | `client/proxy.py` 40-136 | cached credentials | get, refresh, clear | handlers, session |
| client hooks, sinks | `instrumentation/_client.py`, `_sinks.py` | hooked methods per client | install, uninstall, write | pyspark client |
| configuration, artifacts, environment, logging, `%dpip` | the rest | none that is shared | | |

What is hard, component by component, and what makes it correct:

* **session lifecycle**: every RPC is a point where the server session may end, be
  deleted or recreated by somebody else; every RPC can fail without meaning
  anything; a call can be interrupted. Correct means: the session object that is
  handed out is attached to the session it names, at most one client is open, a
  session somebody named is not terminated unasked, a generated one is not
  forgotten while it runs, and the lock is given back.
* **guard**: a verdict is recorded later than it was true. Correct means: a dead
  session surfaces, an outage is no verdict.
* **proxy**: `stop()` races with accepting, connecting, registering and failing
  connections. Correct means: no socket and no thread survives, and `stop()` comes
  back from threads that do not.
* **forwarding**: partial sends and timeouts. Correct means: the byte stream is the
  same on both sides, and the cut-offs fire when, and only when, their reason holds.
* **release coalescing**: consumers, drains and a pool that may vanish. Correct
  means: one drain at a time, no lost wake-up, the server never drops what was not
  returned, and what is pending is eventually sent.
* **query replay and progress bars**: the reattach position can be lost after the
  server has done the work; progress messages of two operations, cleared handlers
  and calls that hold the session lock come in between. Correct means: a side effect
  is never asked for twice, no bar is left over, and the query ends.
* **streaming spans**: three threads see the end of an RPC. Correct means: one
  record per span, complete in itself, without waiting for the RPC.
* **extras**: the same magic can come from the extras, from the user's own
  `%load_ext`, or from another package. Correct means: only what the extras put there
  is taken away.
* **`%%sparksql`**: the text goes through splitting, brace escaping, binding and
  `str.format`, and positions in error messages come back the other way. Correct
  means: Spark gets the user's text, nothing runs that cannot be bound as a whole,
  and errors point at what the user wrote.
* **Data Agent Kit**: six files are read one after the other while the editor writes
  them, and environment variables leak between programs. Correct means: a definite
  answer was true at some moment, and a leaked variable makes no link.

## 2. Plan

Done: release coalescing with its abstract protocol, session lifecycle, guard, proxy,
forwarding, streaming spans, query replay with progress bars and their abstract
promise, IPython extras, `%%sparksql`, Data Agent Kit; proofs of the safety of all of
these. Left:

* composition of `SessionLifecycle` with `LivenessGuard` (they share the cache: today
  each has the other as an environment), and of `Proxy` with `ForwardBytes` (in
  `Proxy` a forwarding thread ends whenever it likes);
* `_GuardedFuture`'s single deferred check (`client/core.py`);
* precedence of session settings as operators with a reference definition.

## 3. Modules

| module | models | composed of / used by |
|---|---|---|
| `ReleasePoint` | abstract: what a server sees of one execution's releases | instantiated by `ReleaseCoalescing` |
| `ReleaseCoalescing` | `_release_until`, `_drain_releases`, the pool | `MCReleaseCoalescing`, `ReleaseCoalescing_proofs` |
| `SessionLifecycle` | `getOrCreate()`, `stop()` and all they call | `MCSessionLifecycle`, `SessionLifecycle_proofs` |
| `LivenessGuard` | cache, guard before and after an RPC | `MCLivenessGuard`, `LivenessGuard_proofs` |
| `Proxy` | `ManagedSparkSessionProxy`, `forward_connection`, `connect_sockets` | `MCProxy`, `Proxy_proofs` |
| `ForwardBytes` | `forward_bytes` and the waits | `MCForwardBytes`, `ForwardBytes_proofs` |
| `StreamingCall` | `_StreamingCall`, `Span`, `Recorder.wait_idle` | `MCStreamingCall`, `StreamingCall_proofs` |
| `QueryOutcome` | abstract: what a query promises its caller | instantiated by `QueryReplay` |
| `QueryReplay` | `_execute_and_fetch` with its replay, progress bars | `MCQueryReplay`, `QueryReplay_proofs` |
| `Extras` | loading and unloading of the extras in a shell | `MCExtras`, `Notebook_proofs` |
| `SparkSqlCell` | one `%%sparksql` cell | `MCSparkSqlCell`, `Notebook_proofs` |
| `Dak` | `detect_ide`, `dak_state`, `dak_links` and the editor | `MCDak`, `Notebook_proofs` |

Definitions whose comment begins with "Mutant" are variants of the definition
below them with a plausible bug; no specification uses them. They document, for
every property, a change of the code that the property catches.

### ReleaseCoalescing

Each iterator has a consuming thread (`cons`) and shares the pool's workers.
`nextId` and `busy` are `_ReleaseState`; the unlocked look at `_result_complete` is
`CheckComplete`, the locked block of `_release_until` `ReleaseUntil`, the submission `Submit` (it may find the pool gone and make a new
one, or be refused, which `Refused` undoes), the locked block of the drain
`DrainTake`, the RPC `DrainSend`. pyspark's `send()`, `_release_all`, the pool and
its shutdown are modelled from how this code uses them. Response ids are numbered
in the order they are returned. `skipped` remembers that the pool refused the
latest release, the one case in which the code gives up on it. `ReleasePoint` has
only the point the server was told last and the release in flight: it moves on, and
never past what was returned.

### SessionLifecycle

`m` is the class-level state, `srv` Dataproc's resources with a uuid per
incarnation, `call` the call that holds `ManagedSparkSession._lock`. One action
per RPC or wait of a call: `Lookup`, `WaitForTermination`, `DeleteSession`,
`Reuse`, `CreateSession`, `WaitCreated`, `WaitEndpoint`, `Connect`,
`CheckNewSession`, `TerminateSession`, `TerminatePoll`; the local work between two
of them belongs to the action. Each has the outcomes the code distinguishes: an
answer, an error, an interrupt (`Interrupts`). `ServerStep` and `OtherClient` are
external. `GuardVerdict` is what the RPC guards of other threads write into the liveness
cache, at any moment and without the lock: `LivenessGuard` has the steps that lead to it,
here only their effect is left, a verdict that was true of some incarnation this process
was attached to. `m.live` says of a False verdict in which of three ways it came about
(`DeadVerdicts`); the code, like every guard of the model, does not tell them apart. `told` and `letGo` are history: generated sessions whose termination was
accepted, and ones the code deliberately leaves to their TTL.

### LivenessGuard

`entry` is the cache's entry for one session name; `inc` counts the incarnations
of that name. An RPC goes through `PreGuard` (twice, as in the code), possibly a
GetSession whose `Answer` and `Verdict` are separate steps, the `Call`, and, if it
failed, another GetSession. `TerminateBegin`/`TerminateEnd` are the early verdict of
`terminate_s8s_session` and its withdrawal, or its staying behind (`cut`). `Find` and
`MarkFound` let `getOrCreate()` mark the session active on a response that may be older
than the incarnation of now. An entry carries, as history, the incarnation it is about and
whether it is `terminate_s8s_session`'s own.

### Proxy

One record per connection, with the program counter of its handler, its two
sockets and its forwarding threads. The blocks under `_conn_lock` are single steps;
reads of `_killed` and `_conn_failure_logged` outside it are steps of their own
(`ConnectionFailed`, then `ReportFailure`).
`StartFails` lets `Thread.start()` raise. `Deadline` is the 5 s of `stop()`'s joins.

### ForwardBytes

Bytes are numbers in the order of the stream, so losing, repeating or reordering
one shows. Time is a counter; `Tick` does not pass the end of a pending `recv()`. A
receive timeout is four steps: `RecvTimesOut`, `LookAtWaits` (the locked read of the
oldest wait), `Judge` (the clock), `Cut` (the close), and frames, waits and time may come
between any two. `raced` records which of them did, and `idleAt` until when the thread
was held up.

### QueryReplay and QueryOutcome

Each query is a thread: it reads its stream, is notified of progress, passes the
hooks that close bars, and is replayed at most once under a second operation id.
`bars` is `_execution_progress_bar`; `lock` is `ManagedSparkSession._lock` as held by
`getOrCreate()` or `stop()` in another thread, which the handler and
`_close_progress_bar` wait for. `ClearBegin`/`ClearEnd` are `clearProgressHandlers()`,
between whose two halves a message reaches no handler. `plan` is the input: a read
or a command, with or without user code, through `_execute_and_fetch` or through the
iterator variant. What pyspark does (messages in the reading thread, `done=True` last)
is external. `QueryOutcome` knows only how often the server was asked and the outcome.

### Extras

`magics` and `name` are the shell's; `own` and `ownName` the shell as it would be
had the extras never been there, moved by the user's steps alone. `Import` and
`Toggle` call `_load_extras_for_shell` and `_unload_extras_for_shell`; the loaders and
unloaders of both extensions are operators of the magics they are called with. A shell
runs one cell at a time, so every action is whole.

### SparkSqlCell

A cell is a sequence of sqlparse's tokens. `SplitStatements`, `EscapeBraces`, `Bind`,
`Format` and `ScanOptions` are operators; `Start` parses and binds everything, then one
step each for the statements, materialising, the view, the display and the assignment.
Spark may refuse any statement and blame any stretch of what it parsed, or of the text of
one of `Views`, with the position of the statement or with a query context that carries its
fragment, as far as an error's contexts and its message say (`ContextsIn`, `LinePos`,
external). `Accepts` is `_sql_context`'s check of the fragment, `ParsePosition` the line and
column of a parse error, and `Reraise` and `Report` turn offsets into the line, column and
width of the caret (`LineStarts`, `LineBegin`, `LineEnd`). A loop that reads a text from its start is a `Gather`: what one
position gives, and where reading goes on (`EscapeAt` for escape_braces(), `FormatAt`
for str.format()). `Meant` is the reference: the user's text with only its references
replaced.

### Dak

`disk` is what the editor has written: lists of extensions of two profiles,
`.obsolete`, `storage.json`'s profile, and the enablement lists. A call reads one file
per step, each read may fail, and the editor may perform an operation between two
steps. `window` says whether the notebook's window has the folder open that the files
lead to; where it has not, or a `workspace.json` is skipped (`FindWorkspace`), what is read
may be that of anything, and `blurred` records it (`"elsewhere"`). `Truth` says what the editor itself would do with its files; `seen` collects it
during a call.

### StreamingCall

`todo` holds, per thread, the locked sections it still has to go through, innermost
first; `_finish` of the outer layer pushes the one of the inner layer. The guarded
stream between the two layers passes everything on and has no state of its own.
Attributes and clock values are left out.

## 4. Runs

| run | instance | shows |
|---|---|---|
| `release` | 2 iterators, 2 workers, 2 responses each; 127,416 states | `OneDrain`, `NoLostRelease`, `BusyHasOwner`, `Refinement` (of `ReleasePoint`), and under fairness `ReleaseReachesServer` |
| `session_named` | 2 threads, one named session, 3 objects, 3 incarnations; 517,572 states | `DefaultOwnsId`, `VerdictHonest`, `NamedIsCurrent`, `CallsReturn` |
| `session_switch` | one named, two generated sessions, interrupts; 7.1 million states | `OneOpenSession`, `NamedOnlyOnRequest`, `NoOrphan`, `VerdictHonest`, `CallsAdvance` |
| `guard` | 2 RPC threads, TTL 1, clock 2, 2 incarnations; 3.1 million states | `DeathSurfaces`, `OutageIsNoVerdict` |
| `proxy_stop` | 2 connections, one `stop()`, threads that cannot be started; 77,894 states | `StopClosesSockets`, `EndedHoldsNothing`, `StopEndsEverything`, `StopComesBack` |
| `forward` | 3 bytes, frames of up to 2, 2 attempts, 2 consumers, clock 5; 1.7 million states | `NoByteLost`, `GivesUpOnlyOnStall`, `WedgedIsCut`, `CutOnlyOnSilence` |
| `streaming` | consumer, canceller, gRPC's thread, 2 responses; 141,128 states | `StatusOnce`, `InnerFirst`, `RecordIsFinal`, `StreamIsRecorded`, `WaitIdleReturns` |
| `query` | one query, 3 progress messages, 2 session calls, 2 `clearProgressHandlers()`; 399,422 states | `NoBarLeft`, `QueriesEnd`, `RunsOnce` (refinement of `QueryOutcome`) |
| `extras` | one shell, no bound; 3,811 states | `ForeignSurvives`, `DisabledLeavesNothing` |
| `sparksql` | 10 option lines, all texts of up to 3 fragments, one view; 4.0 million states | `SparkRunsTheCell`, `BindBeforeRun`, `BlameIsRight`, `VariableOnlyOnSuccess` |
| `dak` | 19 kinds of kernel, 2 profiles, one editor operation per call; 7.5 million states | `AnswerWasTrue`, `LinkNeedsDak` |
| `extras_disable` | as `extras` | expected violation of `SqlStays` |

`extras_disable` shows where the code does not do what a comment says.
`magics/__init__.py` promises that a `%%sparksql` loaded as an extension in its own
right stays; `_unload_extras_for_shell` (`_ipython.py:439`) deletes every magic the
extras once added if its class is of the package, and so takes the user's own too.

### Bounds, and why they are enough

* release: a second response can arrive in every phase of the drain of the first,
  and a second iterator can take the pool's second worker; a third response meets
  the same states. The proofs remove the bound for the safety properties.
* session: three incarnations are one before, one during and one after a call that
  deletes and recreates; two generated ids allow the one retry and an orphan next
  to its successor. The polls (180 in the code) are 2: one that goes on, one that
  gives up. Termination polls and retries have no other use of their number.
* guard: two RPCs so that one can hold an answer while the other is issued, and the
  session be terminated, created again and found meanwhile; a clock of two ticks passes
  the TTL once.
* proxy: two connections, so that one can be accepted, opening or failing while the
  other forwards. Several concurrent `stop()` calls are covered by the proofs.
* forward: the ten attempts are 2, the 300 s limit is 2 and the receive timeout 1;
  only whether a count or a duration has been reached matters. The clock covers the
  limit twice, with a wait that begins after another one, and has room for a thread that
  is held up between reading the wait and closing.
* streaming: three threads are all that can meet on one layer; more cancelling
  threads do what the first does.
* query: bars and replays of different queries share nothing but the lock and the
  handlers, which the session calls and the clearing threads stand for. Three messages
  allow several for one operation and one for the other; two clearings can overlap.
* extras: none.
* sparksql: three fragments are two statements around a `;`, or a statement between
  two braces, or a block with a body; a reference `{name}` is one fragment, so a
  statement with one can follow or precede another. A line break is one of them, so a
  caret can be on a second line. The view's text is as long as a statement, so that its
  offsets fall inside one. A fault in splitting, escaping or positions shows at the first
  token it touches.
* dak: kernels of an editor's host with every kind of flag on an ancestor that is read,
  and on one beyond, reparented with `VSCODE_PID`, in a terminal, on a server, in a window
  of other folders, and with only a variable. One operation during a call,
  because two of them can make a torn answer (see Known limits).

No symmetry is used: most runs check liveness, where it is unsound.

### Fairness

* release: weak fairness of every started `_release_until`, of a pool worker that
  has a task or could take one: threads are scheduled and a ReleaseExecute ends. Not of
  the consumers: nothing says that another response is ever read.
* session (`session_named`): weak fairness of the call that holds the lock: every wait
  in it has a timeout. None of Dataproc or of other clients.
* proxy: of every thread, and of a forwarding thread when the socket it receives
  from is closed. Not of `connect_tcp_bridge`, of arriving connections, or of
  connections ending by themselves.
* streaming: of every thread and of `wait_idle()`'s look. Not of the RPC's end and
  not of the timeout.
* query: of the query's thread, of the end of its stream (pyspark's retries are
  bounded), of the second half of a `clearProgressHandlers()`, and of a session call
  giving the lock back, which is `CallsReturn` of the session module. Nobody has to
  make a call.
* session_switch, guard, forward, extras, sparksql, dak: none, they check safety only.

`CHECK_DEADLOCK FALSE` in all but `dak` and the two runs of `Extras`: those systems
may come to rest (all responses consumed, the clock's bound, a stopped proxy, a cell
or a query that is done). A notebook with the extras, and one with an editor, can
always take another step, and these runs check that.

## 5. Proofs

Eight modules prove safety for every value of the constants. Each has an inductive
invariant that was first checked by TLC, a lemma for the initial states, a step
per action, and the theorems `Spec => []P` that follow from it. The assumptions are
those named in the specifications (`...Assumption`): that bounds are natural numbers,
that limits the code divides work by are positive, that markers such as `NoIter`,
`NoId` and `Accepting` are no members of the sets they are used beside, and, for
sessions, that there is a thread and that named and generated ids are disjoint. No
theorem has a hypothesis besides these: every one is about the whole specification, with
interrupts, concurrent guards, flags out of reach and views. Where the code has a gap it
is the property that names it, in terms of what happened.

| module | theorems (property) | what the invariant adds |
|---|---|---|
| `ReleaseCoalescing_proofs` | `SingleDrain` (`OneDrain`), `LosesNoRelease` (`NoLostRelease`), `BusyIsOwned` (`BusyHasOwner`), `Advance`, `ImplementsReleasePoint` (`Refinement`) | `IdOrder`, `IdleWorker` |
| `SessionLifecycle_proofs` | `OneIsOpen` (`OneOpenSession`), `OwnsItsId` (`DefaultOwnsId`), `NamedIsSafe` (`NamedOnlyOnRequest`), `NamedAttachesCurrent` (`NamedIsCurrent`), `HonestVerdict` (`VerdictHonest`), `NothingOrphaned` (`NoOrphan`), `CallsGetNearer` (`CallsAdvance`) | `Coherent`, `Phase`; `Fresh`, `Present`; `Accounted` |
| `LivenessGuard_proofs` | `DeathIsTold` (`DeathSurfaces`), `DeadIsTrue` (`OutageIsNoVerdict`) | `Thread`, `Honest` |
| `Proxy_proofs` | `EndedIsClean` (`EndedHoldsNothing`), `StopSeesAll` (`StopClosesSockets`) | `Place`, `Accounted`, `Stopped` |
| `ForwardBytes_proofs` | `EveryByteOnce` (`NoByteLost`), `GivesUpOnStall` (`GivesUpOnlyOnStall`), `WedgeEnds` (`WedgedIsCut`), `OnlySilenceIsCut` (`CutOnlyOnSilence`) | `Held`, `Counted`; `Past`, `Soon`, `Fresh`, `Decided` |
| `QueryReplay_proofs` | `NoBarIsLeft` (`NoBarLeft`), `ReplayImplements` (`RunsOnce`) | `Course`, `HandlerBound` |
| `StreamingCall_proofs` | `OneStatus` (`StatusOnce`), `InnerEndsFirst` (`InnerFirst`), `RecordsAreFinal` (`RecordIsFinal`) | `Told`, `Written`, `Nested` |
| `Notebook_proofs` | `LinkIsEarned` (`LinkNeedsDak`), `AnswerIsTrue` (`AnswerWasTrue`) of `Dak`; `ForeignSafe` (`ForeignSurvives`), `NothingLeft` (`DisabledLeavesNothing`) of `Extras`; `BindsBeforeRun` (`BindBeforeRun`), `BlamesRight` (`BlameIsRight`), `SuccessAssigns` (`VariableOnlyOnSuccess`), `RunsTheCell` (`SparkRunsTheCell`) of `SparkSqlCell` | `Course`, `Saw`, `Current`, `Justified`; `MagicOrigin`, `NameOrigin`, `OffIsForgotten`; `BoundFirst`, `Progress`, `InTurn` |

Each also proves type correctness (`TypeCorrect`; `ExtrasTypeCorrect` for `Extras`,
`CellTypeCorrect` for `SparkSqlCell`). Why
the properties alone are not inductive:

* **release**: that a send goes beyond the last one rests on what was pending being
  newer than what was sent (`IdOrder`: released <= sent <= pending or being sent <=
  returned), which rests on there being one drain. `IdleWorker`: a worker without an
  iterator holds no id. The refinement goes through the actions once more.
* **session**: that one session is open rests on what the call in progress is doing
  (`Phase`): while it creates, the default session is gone already, and what it checks
  at the end is the default session. `Coherent` ties default, instantiated and open
  objects, ids and the custom flag together at every step, not only between calls; a
  named session is spared because the custom flag is right whenever a termination
  starts. What a call for a named session returns is right because `Phase` follows
  the uuid the call looked up through each wait (`NamedAttachesCurrent` is an action
  property, from the same invariant). A verdict is honest because what a guard records
  dead was over when Dataproc said so, and an incarnation that is over does not come back
  (`ServerMoves`): outside a termination, and whoever wrote it, a dead verdict is of an
  incarnation that is over, or is marked as one of the two known kinds (`Fresh`; `Present`
  bounds the uuids a call has seen). A termination either withdraws its own or is
  interrupted. No session is orphaned because the
  class-level id changes in four ways only (`Fate`: it stays, it is let go on purpose,
  its termination is next, or there was no live session behind it); `Accounted` adds
  that a call about to create one has none to lose, and that a poll follows an accepted
  request. That calls get nearer to their end (`CallsGetNearer`) is the part of
  `CallsReturn` that is safety: a pair of natural numbers, the attempts a call has left
  and the steps left in the attempt, falls in lexicographic order with every step, with
  any answer of Dataproc and any doing of other clients, so a call holds the lock for a
  bounded number of RPCs and waits. A lookup that leads on to a creation counts as an
  attempt of its own, since the session it finds may be terminated first. What is left
  of `CallsReturn` is that the next step of a call is always possible (ENABLED) and taken.
* **guard**: an RPC must already know, at each of its program points, what it will be
  able to say (`Thread`): a late RPC has an attempt number that fits the incarnation,
  and an answer on its way back was true of the incarnation it was about. What the cache
  holds is of an incarnation there was (`Honest`), and stays true of it.
* **proxy**: an open socket is in a registered set, in the hands of one step, or in the
  copy of a `stop()` (`Accounted`); which of these depends on where the handler is
  (`Place`); and no set is filled again once the proxy is killed (`Stopped`). Threads
  of several `stop()` calls need nothing more.
* **forwarding**: nothing is held over a `recv()` and no more is taken than has arrived
  (`Held`); the loop's counter is the number of timeouts in a row (`Counted`). That a
  silence ends in time needs both ends of it: no wait and no arrival is dated in the
  future (`Past`), and the `recv()` in progress was started before the limit passed and
  ends a timeout later at the latest (`Soon`), which in turn rests on the decision before it
  having read the oldest wait there was (`Fresh`). That only silence is cut rests on
  `Decided`: what was read is still so, or it is on record what overtook it, and a decision
  to cut was right when it was made. The code compares the clock with the
  later of the last arrival and the oldest wait, so lemmas about the minimum of a set of
  clock values carry both proofs.
* **query**: where a query is in its course says which executions it has asked for and
  which bars may be open (`Course`), in particular that the first operation's bar is
  gone before the second starts. The number of registered handlers stays bounded
  (`HandlerBound`).
* **streaming**: a status event is in the span's events, or in the hands of the one
  thread that took the flag, never both (`Told`); nothing is written of a span that has
  not ended, and then one thread at most is about to write (`Written`); and a thread that
  is going to end the outer span has to claim the inner one before, unless that has been
  claimed, in which case its claimer has ended it or is about to (`Nested`).
* **Data Agent Kit**: `Ahead` is what the call would answer if it read everything that is
  left from the disk as it is now. A read that succeeds does not change it. An operation of
  the editor does, but as long as it is the first, everything that was read is still so
  (`Current`), and what is then ahead was true before the operation or is true after it,
  or an update looks like a removal (`Justified`). That holds of a call until one of the known
  gaps decides (`Telling`). For the link it is enough that an entry
  which is not obsolete was seen in a list (`Saw`), since `.obsolete` only grows during a
  call; that needs no bound on the editor's operations and has none of the gaps.
* **extras**: a magic has one of three origins, and the extras remember theirs
  (`MagicOrigin`, `NameOrigin`); off means forgotten (`OffIsForgotten`).
* **`%%sparksql`**: what is bound is what the statements of the text give, from the moment
  anything is (`BoundFirst`), and how much of it has run follows from the step
  (`Progress`). The weight is in lemmas about the operators on texts of any length. A
  statement is a part of the text, token for token (`StatementIs`), so a position in it
  is one in the cell. Every stretch of code without a `;` lies in one statement
  (`SplitIs`), so a name the text needs is needed by a statement: that is why checking
  statement by statement checks the cell. And a scan of options ends in the line
  (`ScanIs`). A caret is right (`BlamesRight`) because an accepted context's offsets cut
  its own fragment out of the statement (`SliceIs`, `ReportPoints`, `ReraiseIsRight`), and
  the line and column it is turned into name the same token of the cell (`LineOf`). That Spark parses what the user wrote (`RunsTheCell`) has three parts.
  Formatting undoes escaping but for the references (`FormatUndoes`): position by
  position of the text, with the escaped text as what is left to format. The text means
  what its statements mean, one after the other (`StatementsMean`): what lies between
  two statements means nothing (`MeantSkips`), and no reference crosses the end of one,
  since all of it is code (`StatementMeans`, `MeantPart`). And the statements run in turn,
  each as it was bound (`InTurn`). Each of these is an induction from the end of a text
  or a list (`Backwards`), spelled out with a least counterexample because the library's
  theorems about recursive functions take an operator. `InOrder`, `CodeOf` and `Gather`
  are written out because the prover does not know the library's sorting, selection and
  concatenation; `MCSparkSqlCell` assumes that they are the same, so TLC evaluates that.

Every invariant, action property and refinement that a passing run checks is proved. Only model-checked: all liveness and
fairness (`ReleaseReachesServer`, `CallsReturn`, `StopEndsEverything`, `StopComesBack`,
`StreamIsRecorded`, `WaitIdleReturns`, `QueriesEnd`), which is beyond the prover used.

## 6. Known limits of the code

Things the models reach that no property excludes, because the code has no check that
would, or because a property is stated so that it leaves them out.

* `session.py:1950`: any error of the GetSession in `_get_session_by_id` gives None,
  although its docstring (1907) speaks of sessions not found or not usable. During an
  outage of the control plane `getOrCreate()` drops a named session that is up.
* `session.py:1941`: the state that justifies DeleteSession is read before a wait of up
  to 180 s; another client may have recreated the session by then, and it is deleted.
* `session.py:1444`, `1515`: without `sessionId()` the uuid is not compared, and an
  in-process session of an earlier incarnation is returned. With it `NamedIsCurrent`
  holds.
* `session.py:2880`: a verdict about the old incarnation is recorded over one about the
  new, since the cache is keyed by name: a live session may be held dead until the next
  verdict. `OutageIsNoVerdict` therefore asks that a dead verdict be true of the incarnation
  it was about, and `VerdictHonest` excepts those that are about an earlier one
  (`"overtaken"`).
* `session.py:2625`: a KeyboardInterrupt inside the termination skips the withdrawal of
  the early verdict: an entry of the cache is documented (`session.py:2731`) as the last
  definitive verdict, but this one nobody has given. `VerdictHonest` excepts the verdict of such a
  termination (`"interrupted"`) and no other, `OutageIsNoVerdict` likewise (`cut`).
* `session.py:1108`: a termination that fails in the clean-up of `__create` leaves its
  verdict as well. It is about a generated id that no client was attached to, so no RPC
  looks at it; `OutageIsNoVerdict` counts it with the interrupted ones.
* `client/proxy.py:414`-`430`: between the timeout of `recv()` and the close, a frame may
  arrive and the wait that was read may end, and the connection is cut all the same.
  `CutOnlyOnSilence` excepts these two, each only if it did happen. A thread that is held
  up between two steps cuts later than `WedgedIsCut` says by as long as it was held up.
* `client/proxy.py:734`: `start()` never returns when binding the port fails.
* `client/proxy.py:762`, `789`: a handler is registered before its thread is started;
  a `stop()` in between joins a thread that was never started, which raises after all
  sockets have been closed (`JoinRaises`).
* `client/proxy.py:714`: `_conn_failure_logged` is tested and set without the lock, so a
  failure may be warned of twice. Harmless; both steps are in the model.
* `instrumentation/_grpc.py:259`: the status event is added after the lock is released,
  so a span that ends in between has a record without it. `StatusOnce` says at most once.
* `instrumentation/_grpc.py:270`: a thread that finishes the outer layer while another one
  has claimed the inner layer does not wait for it, so the outer span can end a moment
  before the inner one. `InnerFirst` excepts that case.
* Queries through the iterator variant (`toLocalIterator`) have no clean-up and may
  leave a bar; `NoBarLeft` is about `_execute_and_fetch`. A query is replayed only when
  its plan runs no user code, as far as the plan shows it.
* A configuration of `SparkSqlMagics` that is invalid makes the extension raise after
  `%dpip` was registered. It is not remembered as loaded, so the user's own `%dpip`, if
  there was one, stays replaced (`HalfLoaded`).
* `magics/sparksql.py:669`: a query context without a fragment, and the line and column of
  a parse error (680), are taken to be about the statement without a check. If they are
  about the text of a view the caret is at an unrelated place. `BlameIsRight` is about
  positions that are of the statement, and about every context with a fragment.
* `ide.py`: an update of the extension can look like its removal; an unreadable
  `.obsolete` counts as an empty one; two operations of the editor during one call can
  combine into an answer that was never true; `DATA_CLOUD_CURR_IDE_NAME` keeps saying
  "enabled" after the user has disabled the extension.
* `ide.py:975`: a `workspace.json` that cannot be read is skipped, and the answer is that
  of another folder or of the global list, as definite as any.
* `ide.py:989` names gaps of its own: windows of several folders are not matched to their
  workspace, without a notebook path the default profile is assumed, and workspace trust,
  virtual workspaces and policies are not looked at. The same goes for a window that has an
  outer folder open. A flag of an editor's process that is not among those read is not
  seen (`FlagsRead`). `AnswerWasTrue` names these and the above; `Truth`, like the code, is
  what the user has enabled, not what the editor then lets run.

## 7. Not modelled

* `session.py`'s atexit hook (1142-1156, opt-in: one termination per created session at
  the end of the process, after every call) and the content of the active-session file;
  `STATE_UNSPECIFIED`, which Dataproc does not report of a session.
* Reauthentication, metadata and URLs of the WebSocket: data.
* The credentials cache: finding the default credentials and refreshing them are one
  critical section each under one process-wide lock, and the credentials object at hand
  stays usable when the cache is cleared in between.
* The deferred checks of guarded streams and futures: the same path as the checks of
  unary RPCs, which are modelled.
* Unary spans, attributes, sinks, client hooks: one step each, or output.
* Interrupts inside a query's clean-up; a reload of the `_ipython` module. The case of an
  extension that is being imported while the extras load (`_ipython.py:249`): no module of
  `managed_spark_magics` imports `managed_spark_connect` as it is imported.
* `%dpip`, rendering of results, notebook widgets: argument lists and output.
* Finding `product.json` for an executable, process tables, editors' directories and
  the format of links: inputs of `Dak`.
* Configuration, artifacts, environment detection, logging: pure functions of their
  input, or I/O.
