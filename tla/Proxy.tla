------------------------------- MODULE Proxy -------------------------------
(***************************************************************************)
(* client/proxy.py, ManagedSparkSessionProxy: a local TCP proxy that       *)
(* forwards every connection it accepts over a WebSocket of its own, and   *)
(* that stop() can take down at any moment.                                *)
(*                                                                         *)
(* Threads: the one that calls start(), the accept thread (_run), for      *)
(* every connection its handler (_handle_connection, forward_connection)   *)
(* and two forwarding threads (connect_sockets), and the callers of        *)
(* stop().  A step is what a thread does between two points at which       *)
(* another one can interfere: _conn_lock is taken and released within a    *)
(* step; a read of _killed or of _conn_failure_logged outside the lock is  *)
(* a step of its own.                                                      *)
(***************************************************************************)
EXTENDS Naturals

CONSTANTS Conn,       \* the connections gRPC makes to the local port
          Stopper,    \* the threads that call stop()
          StartFails, \* whether Thread.start() may raise RuntimeError
          Accepting   \* the accept thread, in a list of threads to join

ASSUME ProxyAssumption == StartFails \in BOOLEAN /\ Accepting \notin Conn

VARIABLES
    starter,   \* start(): "idle", "wait" (for the semaphore), "started"
    accept,    \* where the accept thread is
    frontend,  \* the listening socket
    killed,    \* _killed
    conn,      \* [Conn -> the connection, its sockets and its threads]
    reg,       \* the three sets that _conn_lock guards
    failLogged,\* _conn_failure_logged
    stopper    \* [Stopper -> a call of stop()]

vars == <<starter, accept, frontend, killed, conn, reg, failLogged, stopper>>

Sock == {"none", "open", "closed"}

Dir == {"client_to_server", "server_to_client"}

\* "check": at the loop's test of _killed; "got": accept() returned a connection
\* that is not registered yet; "start": registered, its thread not started.
AcceptPc == {"new", "bind", "check", "accept", "got", "start", "done"}

\* "unstarted": registered; "connecting": in connect_tcp_bridge; "connected":
\* the WebSocket is up, not registered; "registered": before connect_sockets;
\* "forward": joins the forwarding threads; "unregister", "close": the two
\* finally blocks; "failed", "report", "warn": in the except block, before it has
\* looked at _killed, before _conn_failure_logged, and after both.
ConnPc == {"new", "got", "unstarted", "connecting", "connected", "registered",
           "forward", "unregister", "failed", "report", "warn", "close",
           "ended"}

StopPc == {"idle", "frontend", "clients", "backends", "join", "done", "raised"}

\* Closing a socket twice, or one that was never opened, does nothing.
Close(sock) == IF sock = "open" THEN "closed" ELSE sock

ShutdownAndClose(c) == [c EXCEPT !.client = Close(@), !.backend = Close(@)]

Init ==
    /\ starter = "idle"
    /\ accept = "new"
    /\ frontend = "none"
    /\ killed = FALSE
    /\ conn = [c \in Conn |-> [pc |-> "new", client |-> "none", backend |-> "none",
                               run |-> {}, failed |-> FALSE]]
    /\ reg = [clients |-> {}, backends |-> {}, threads |-> {}]
    /\ failLogged = FALSE
    /\ stopper = [s \in Stopper |-> [pc |-> "idle", clients |-> {}, backends |-> {},
                                     threads |-> {}, late |-> FALSE]]

-----------------------------------------------------------------------------
(* start() and the accept thread. *)

\* start(): the accept thread runs; the caller waits for the semaphore.
Start ==
    /\ starter = "idle"
    /\ starter' = "wait"
    /\ accept' = "bind"
    /\ UNCHANGED <<frontend, killed, conn, reg, failLogged, stopper>>

\* create_server and s.release().
Bind ==
    /\ accept = "bind"
    /\ frontend' = "open"
    /\ starter' = "started"
    /\ accept' = "check"
    /\ UNCHANGED <<killed, conn, reg, failLogged, stopper>>

\* create_server raises (the port is taken): the thread ends and nobody
\* releases the semaphore.
BindFails ==
    /\ accept = "bind"
    /\ accept' = "done"
    /\ UNCHANGED <<starter, frontend, killed, conn, reg, failLogged, stopper>>

\* `while not self._killed`; the with statement closes the listening socket.
CheckKilled ==
    /\ accept = "check"
    /\ accept' = IF killed THEN "done" ELSE "accept"
    /\ frontend' = IF killed THEN Close(frontend) ELSE frontend
    /\ UNCHANGED <<starter, killed, conn, reg, failLogged, stopper>>

Accept(c) ==
    /\ accept = "accept"
    /\ frontend = "open"
    /\ conn[c].pc = "new"
    /\ conn' = [conn EXCEPT ![c].pc = "got", ![c].client = "open"]
    /\ accept' = "got"
    /\ UNCHANGED <<starter, frontend, killed, reg, failLogged, stopper>>

\* accept() raises OSError, because stop() closed the socket or by itself: break
\* and raise both end the thread.
AcceptRaises ==
    /\ accept = "accept"
    /\ accept' = "done"
    /\ frontend' = Close(frontend)
    /\ UNCHANGED <<starter, killed, conn, reg, failLogged, stopper>>

\* The locked block of the accept loop.
RegisterConnection(c) ==
    /\ accept = "got"
    /\ conn[c].pc = "got"
    /\ IF killed
       THEN /\ conn' = [conn EXCEPT ![c].pc = "ended", ![c].client = "closed"]
            /\ accept' = "done"
            /\ frontend' = Close(frontend)
            /\ UNCHANGED reg
       ELSE /\ reg' = [reg EXCEPT !.clients = @ \cup {c}, !.threads = @ \cup {c}]
            /\ conn' = [conn EXCEPT ![c].pc = "unstarted"]
            /\ accept' = "start"
            /\ UNCHANGED frontend
    /\ UNCHANGED <<starter, killed, failLogged, stopper>>

\* t.start(), after the lock is released.
StartThread(c) ==
    /\ accept = "start"
    /\ conn[c].pc = "unstarted"
    /\ conn' = [conn EXCEPT ![c].pc = "connecting"]
    /\ accept' = "check"
    /\ UNCHANGED <<starter, frontend, killed, reg, failLogged, stopper>>

\* t.start() raises ("can't start new thread"): the accept thread ends.
StartThreadFails ==
    /\ StartFails
    /\ accept = "start"
    /\ accept' = "done"
    /\ frontend' = Close(frontend)
    /\ UNCHANGED <<starter, killed, conn, reg, failLogged, stopper>>

-----------------------------------------------------------------------------
(* The handler of a connection. *)

\* connect_tcp_bridge returns; a stop() in the meantime does not interrupt it.
OpenBackend(c) ==
    /\ conn[c].pc = "connecting"
    /\ conn' = [conn EXCEPT ![c].pc = "connected", ![c].backend = "open"]
    /\ UNCHANGED <<starter, accept, frontend, killed, reg, failLogged, stopper>>

\* It raises: `with conn` closes the client's socket.
OpenBackendFails(c) ==
    /\ conn[c].pc = "connecting"
    /\ conn' = [conn EXCEPT ![c].pc = "failed", ![c].client = Close(@)]
    /\ UNCHANGED <<starter, accept, frontend, killed, reg, failLogged, stopper>>

\* Mutant: raises without closing, and forwarding starts nevertheless.
RegisterBackendIgnored(c) ==
    /\ conn[c].pc = "connected"
    /\ reg' = IF killed THEN reg ELSE [reg EXCEPT !.backends = @ \cup {c}]
    /\ failLogged' = FALSE
    /\ conn' = [conn EXCEPT ![c].pc = "registered"]
    /\ UNCHANGED <<starter, accept, frontend, killed, stopper>>

\* _register_backend_socket, the on_backend_open callback.  In a stopped proxy
\* it closes the socket and raises, which leaves both with blocks.
RegisterBackendSocket(c) ==
    /\ conn[c].pc = "connected"
    /\ IF killed
       THEN /\ conn' = [conn EXCEPT ![c] = [ShutdownAndClose(@) EXCEPT !.pc = "failed"]]
            /\ UNCHANGED <<reg, failLogged>>
       ELSE /\ reg' = [reg EXCEPT !.backends = @ \cup {c}]
            /\ failLogged' = FALSE
            /\ conn' = [conn EXCEPT ![c].pc = "registered"]
    /\ UNCHANGED <<starter, accept, frontend, killed, stopper>>

\* conn.settimeout() and connect_sockets(), which starts a thread per direction.
ConnectSockets(c) ==
    /\ conn[c].pc = "registered"
    /\ conn[c].client = "open"
    /\ conn' = [conn EXCEPT ![c].pc = "forward", ![c].run = Dir]
    /\ UNCHANGED <<starter, accept, frontend, killed, reg, failLogged, stopper>>

\* settimeout() raises on a socket that stop() has closed, or a forwarding
\* thread cannot be started (the first one may be running by then).
ConnectSocketsFails(c) ==
    /\ conn[c].pc = "registered"
    /\ StartFails \/ conn[c].client = "closed"
    /\ \E run \in IF StartFails /\ conn[c].client = "open"
                  THEN {{}, {"client_to_server"}} ELSE {{}} :
          conn' = [conn EXCEPT ![c].pc = "unregister", ![c].run = run,
                               ![c].failed = TRUE]
    /\ UNCHANGED <<starter, accept, frontend, killed, reg, failLogged, stopper>>

\* forward_bytes ends (end of file, an error, the silence cut): it closes both
\* sockets, which ends the other direction too.
ForwardBytesEnds(c, d) ==
    /\ d \in conn[c].run
    /\ conn' = [conn EXCEPT ![c] = [ShutdownAndClose(conn[c]) EXCEPT
                                      !.run = conn[c].run \ {d}]]
    /\ UNCHANGED <<starter, accept, frontend, killed, reg, failLogged, stopper>>

\* t1.join() and t2.join() return.
Forwarded(c) ==
    /\ conn[c].pc = "forward"
    /\ conn[c].run = {}
    /\ conn' = [conn EXCEPT ![c].pc = "unregister"]
    /\ UNCHANGED <<starter, accept, frontend, killed, reg, failLogged, stopper>>

\* Mutant: the backend stays in the set when its connection ends.
UnregisterBackendNever(c) ==
    /\ conn[c].pc = "unregister"
    /\ conn' = [conn EXCEPT ![c] =
                  [ShutdownAndClose(@) EXCEPT
                     !.pc = IF conn[c].failed THEN "failed" ELSE "close"]]
    /\ UNCHANGED <<starter, accept, frontend, killed, reg, failLogged, stopper>>

\* _unregister_backend_socket; then the with blocks close both sockets.
UnregisterBackendSocket(c) ==
    /\ conn[c].pc = "unregister"
    /\ reg' = [reg EXCEPT !.backends = @ \ {c}]
    /\ conn' = [conn EXCEPT ![c] =
                  [ShutdownAndClose(@) EXCEPT
                     !.pc = IF conn[c].failed THEN "failed" ELSE "close"]]
    /\ UNCHANGED <<starter, accept, frontend, killed, failLogged, stopper>>

\* The except block of _handle_connection reads _killed, then
\* _conn_failure_logged, both without the lock.
ConnectionFailed(c) ==
    /\ conn[c].pc = "failed"
    /\ conn' = [conn EXCEPT ![c].pc = IF killed THEN "close" ELSE "report"]
    /\ UNCHANGED <<starter, accept, frontend, killed, reg, failLogged, stopper>>

ReportFailure(c) ==
    /\ conn[c].pc = "report"
    /\ conn' = [conn EXCEPT ![c].pc = IF failLogged THEN "close" ELSE "warn"]
    /\ UNCHANGED <<starter, accept, frontend, killed, reg, failLogged, stopper>>

\* It sets _conn_failure_logged and logs the warning.
WarnConnectionFailed(c) ==
    /\ conn[c].pc = "warn"
    /\ failLogged' = TRUE
    /\ conn' = [conn EXCEPT ![c].pc = "close"]
    /\ UNCHANGED <<starter, accept, frontend, killed, reg, stopper>>

\* The finally block of _handle_connection.
HandlerEnds(c) ==
    /\ conn[c].pc = "close"
    /\ conn' = [conn EXCEPT ![c].pc = "ended", ![c].client = Close(@)]
    /\ reg' = [reg EXCEPT !.clients = @ \ {c}, !.threads = @ \ {c}]
    /\ UNCHANGED <<starter, accept, frontend, killed, failLogged, stopper>>

-----------------------------------------------------------------------------
(* stop(). *)

\* Its locked block: _killed is set, the sets are copied and the sockets' ones
\* cleared.  stop() may interrupt a start() that still waits.
Stop(s) ==
    /\ stopper[s].pc = "idle"
    /\ starter # "idle"
    /\ killed' = TRUE
    /\ stopper' = [stopper EXCEPT ![s].pc = "frontend",
                                  ![s].clients = reg.clients,
                                  ![s].backends = reg.backends,
                                  ![s].threads = reg.threads \cup {Accepting}]
    /\ reg' = [reg EXCEPT !.clients = {}, !.backends = {}]
    /\ UNCHANGED <<starter, accept, frontend, conn, failLogged>>

\* Mutant: the listening socket is left to the accept thread.
CloseFrontendSkipped(s) ==
    /\ stopper[s].pc = "frontend"
    /\ stopper' = [stopper EXCEPT ![s].pc = "clients"]
    /\ UNCHANGED <<starter, accept, frontend, killed, conn, reg, failLogged>>

\* What stop() saw is closed: the listening socket, which ends a pending
\* accept(), the clients' sockets, then the WebSockets.
CloseFrontend(s) ==
    /\ stopper[s].pc = "frontend"
    /\ frontend' = Close(frontend)
    /\ stopper' = [stopper EXCEPT ![s].pc = "clients"]
    /\ UNCHANGED <<starter, accept, killed, conn, reg, failLogged>>

CloseClients(s) ==
    /\ stopper[s].pc = "clients"
    /\ conn' = [c \in Conn |-> IF c \in stopper[s].clients
                               THEN [conn[c] EXCEPT !.client = Close(@)] ELSE conn[c]]
    /\ stopper' = [stopper EXCEPT ![s].pc = "backends"]
    /\ UNCHANGED <<starter, accept, frontend, killed, reg, failLogged>>

CloseBackends(s) ==
    /\ stopper[s].pc = "backends"
    /\ conn' = [c \in Conn |-> IF c \in stopper[s].backends
                               THEN [conn[c] EXCEPT !.backend = Close(@)] ELSE conn[c]]
    /\ stopper' = [stopper EXCEPT ![s].pc = "join"]
    /\ UNCHANGED <<starter, accept, frontend, killed, reg, failLogged>>

Started(t) == t \in Conn => conn[t].pc # "unstarted"

Ended(t) == IF t = Accepting THEN accept = "done" ELSE conn[t].pc = "ended"

\* The next thread is joined, the accept thread first: it has ended, or the
\* shared deadline is over and join() has no time left.
Join(s) ==
    /\ stopper[s].pc = "join"
    /\ \E t \in stopper[s].threads :
          /\ Accepting \in stopper[s].threads => t = Accepting
          /\ Started(t)
          /\ stopper[s].late \/ Ended(t)
          /\ stopper' = [stopper EXCEPT ![s].threads = @ \ {t}]
    /\ UNCHANGED <<starter, accept, frontend, killed, conn, reg, failLogged>>

\* join() of a thread that was never started raises RuntimeError.
JoinRaises(s) ==
    /\ stopper[s].pc = "join"
    /\ Accepting \notin stopper[s].threads
    /\ \E t \in stopper[s].threads : conn[t].pc = "unstarted"
    /\ stopper' = [stopper EXCEPT ![s].pc = "raised"]
    /\ UNCHANGED <<starter, accept, frontend, killed, conn, reg, failLogged>>

\* Mutant: no deadline; join() waits for as long as it takes.
DeadlineNever(s) == FALSE /\ UNCHANGED vars

\* _STOP_JOIN_TIMEOUT_S is over.
Deadline(s) ==
    /\ stopper[s].pc = "join"
    /\ ~stopper[s].late
    /\ stopper' = [stopper EXCEPT ![s].late = TRUE]
    /\ UNCHANGED <<starter, accept, frontend, killed, conn, reg, failLogged>>

StopReturns(s) ==
    /\ stopper[s].pc = "join"
    /\ stopper[s].threads = {}
    /\ stopper' = [stopper EXCEPT ![s].pc = "done"]
    /\ UNCHANGED <<starter, accept, frontend, killed, conn, reg, failLogged>>

-----------------------------------------------------------------------------

AcceptLoop ==
    \/ Bind \/ BindFails \/ CheckKilled \/ AcceptRaises \/ StartThreadFails
    \/ \E c \in Conn : Accept(c) \/ RegisterConnection(c) \/ StartThread(c)

\* The steps of a handler that nothing outside the process can hold up.
Handler(c) ==
    \/ RegisterBackendSocket(c) \/ ConnectSockets(c) \/ ConnectSocketsFails(c)
    \/ Forwarded(c) \/ UnregisterBackendSocket(c) \/ ConnectionFailed(c)
    \/ ReportFailure(c) \/ WarnConnectionFailed(c) \/ HandlerEnds(c)

Stopping(s) ==
    \/ CloseFrontend(s) \/ CloseClients(s) \/ CloseBackends(s)
    \/ Join(s) \/ JoinRaises(s) \/ StopReturns(s) \/ Deadline(s)

Next ==
    \/ Start
    \/ AcceptLoop
    \/ \E c \in Conn : \/ Handler(c) \/ OpenBackend(c) \/ OpenBackendFails(c)
                       \/ \E d \in Dir : ForwardBytesEnds(c, d)
    \/ \E s \in Stopper : Stop(s) \/ Stopping(s)

Spec == Init /\ [][Next]_vars

\* The socket a direction receives from.
FromClosed(c, d) ==
    IF d = "client_to_server" THEN conn[c].client = "closed"
                              ELSE conn[c].backend = "closed"

\* Threads are scheduled; a forwarding thread wakes up when the socket it
\* receives from is closed; a listening socket that is closed ends accept().
\* Nothing says that a client ever connects, that a connection ever ends by
\* itself, or that connect_tcp_bridge comes back (its handshake has a timeout,
\* a credential helper has none).
Fairness ==
    /\ WF_vars(AcceptLoop /\ (accept = "accept" => frontend = "closed"))
    /\ \A c \in Conn :
          /\ WF_vars(Handler(c))
          /\ \A d \in Dir : WF_vars(FromClosed(c, d) /\ ForwardBytesEnds(c, d))
    /\ \A s \in Stopper : WF_vars(Stopping(s))

FairSpec == Spec /\ Fairness

-----------------------------------------------------------------------------

\* Every variable of the proxy has its type.
TypeOK ==
    /\ starter \in {"idle", "wait", "started"}
    /\ accept \in AcceptPc
    /\ frontend \in Sock
    /\ killed \in BOOLEAN
    /\ conn \in [Conn -> [pc : ConnPc, client : Sock, backend : Sock,
                          run : SUBSET Dir, failed : BOOLEAN]]
    /\ reg \in [clients : SUBSET Conn, backends : SUBSET Conn, threads : SUBSET Conn]
    /\ failLogged \in BOOLEAN
    /\ stopper \in [Stopper -> [pc : StopPc, clients : SUBSET Conn,
                                backends : SUBSET Conn,
                                threads : SUBSET (Conn \cup {Accepting}),
                                late : BOOLEAN]]

\* Sockets that another stop() has copied and is about to close.
Closing(kind, c) ==
    \E s \in Stopper :
        \/ stopper[s].pc \in {"frontend", "clients"} /\ c \in stopper[s].clients
                                                   /\ kind = "client"
        \/ stopper[s].pc \in {"frontend", "clients", "backends"}
              /\ c \in stopper[s].backends /\ kind = "backend"

\* Whatever the handlers were doing when stop() came, once it has closed what it
\* saw the only sockets still open are a connection that was just accepted, a
\* WebSocket that has just connected (both are refused by their next step), or,
\* in a second stop(), what the first one is still closing.
StopClosesSockets ==
    \A s \in Stopper : stopper[s].pc \in {"join", "done", "raised"} =>
        \A c \in Conn :
            /\ conn[c].client = "open" => conn[c].pc = "got" \/ Closing("client", c)
            /\ conn[c].backend = "open" =>
                   conn[c].pc = "connected" \/ Closing("backend", c)

\* A handler that has ended leaves nothing behind: its sockets are closed, its
\* forwarding threads have been woken and none of the sets still hold it.
EndedHoldsNothing ==
    \A c \in Conn : conn[c].pc = "ended" =>
        /\ conn[c].client = "closed"
        /\ conn[c].backend # "open"
        /\ c \notin reg.clients \cup reg.backends \cup reg.threads

\* After stop() every thread of the proxy ends and every socket is closed, also
\* the ones stop() could not see: all but a handler for as long as it is opening
\* its WebSocket, and one whose thread could not be started (its socket is
\* closed).
StopEndsEverything ==
    killed ~> /\ frontend # "open"
              /\ accept = "done"
              /\ \A c \in Conn :
                    /\ conn[c].pc \in {"new", "unstarted", "connecting", "ended"}
                    /\ conn[c].client # "open"
                    /\ conn[c].backend # "open"
                    /\ conn[c].run = {}

\* stop() comes back, even when a handler is stuck opening its WebSocket.
StopComesBack ==
    \A s \in Stopper :
        stopper[s].pc = "frontend" ~> stopper[s].pc \in {"done", "raised"}
=============================================================================
