----------------------------- MODULE Proxy_proofs -----------------------------
(***************************************************************************)
(* Proofs about Proxy, for any number of connections and of callers of     *)
(* stop(), whether or not threads can be started: a handler that has ended *)
(* leaves nothing behind, and a stop() leaves no socket open that it could *)
(* have seen.  The inductive invariant accounts for every open socket: it  *)
(* is registered, or a stop() has it in its copy, or its handler has not   *)
(* come to the lock yet and will find the proxy stopped.                   *)
(***************************************************************************)
EXTENDS Proxy, TLAPS

ConnRec == [pc : ConnPc, client : Sock, backend : Sock, run : SUBSET Dir,
            failed : BOOLEAN]

RegRec == [clients : SUBSET Conn, backends : SUBSET Conn, threads : SUBSET Conn]

StopRec == [pc : StopPc, clients : SUBSET Conn, backends : SUBSET Conn,
            threads : SUBSET (Conn \cup {Accepting}), late : BOOLEAN]

\* Where the sockets of a connection may be open, and which sets hold it.
Place(c) ==
    /\ conn[c].pc = "new" <=> conn[c].client = "none"
    /\ conn[c].pc \in {"new", "got", "ended"} => c \notin reg.clients \cup reg.threads
    /\ conn[c].pc \notin {"registered", "forward", "unregister"} => c \notin reg.backends
    /\ conn[c].pc \notin {"connected", "registered", "forward", "unregister"} =>
           conn[c].backend # "open"
    /\ conn[c].pc = "ended" => conn[c].client = "closed"

\* Every open socket is accounted for.
Accounted(c) ==
    /\ conn[c].client = "open" =>
           conn[c].pc = "got" \/ c \in reg.clients \/ Closing("client", c)
    /\ conn[c].backend = "open" =>
           conn[c].pc = "connected" \/ c \in reg.backends \/ Closing("backend", c)

\* Nothing is registered once stop() has copied and cleared the sets.
Stopped ==
    /\ killed => reg.clients = {} /\ reg.backends = {}
    /\ \A s \in Stopper : stopper[s].pc # "idle" => killed

\* The inductive invariant.
IInv == TypeOK /\ Stopped /\ \A c \in Conn : Place(c) /\ Accounted(c)

-----------------------------------------------------------------------------

\* Every initial state satisfies the inductive invariant.
LEMMA InitIInv == Init => IInv
<1> SUFFICES ASSUME Init PROVE IInv
  OBVIOUS
<1>1. conn \in [Conn -> ConnRec]
      /\ \A c \in Conn : conn[c].pc = "new" /\ conn[c].client = "none"
                         /\ conn[c].backend = "none"
  <2> DEFINE r == [pc |-> "new", client |-> "none", backend |-> "none",
                   run |-> {}, failed |-> FALSE]
  <2>1. r \in ConnRec /\ r.pc = "new" /\ r.client = "none" /\ r.backend = "none"
    BY DEF ConnRec, ConnPc, Sock
  <2>2. conn = [c \in Conn |-> r]
    BY DEF Init
  <2> HIDE DEF r
  <2> QED
    BY <2>1, <2>2
<1>2. stopper \in [Stopper -> StopRec] /\ \A s \in Stopper : stopper[s].pc = "idle"
  <2> DEFINE r == [pc |-> "idle", clients |-> {}, backends |-> {}, threads |-> {},
                   late |-> FALSE]
  <2>1. r \in StopRec /\ r.pc = "idle"
    BY DEF StopRec, StopPc
  <2>2. stopper = [s \in Stopper |-> r]
    BY DEF Init
  <2> HIDE DEF r
  <2> QED
    BY <2>1, <2>2
<1>3. reg \in RegRec /\ reg.clients = {} /\ reg.backends = {} /\ reg.threads = {}
  BY DEF Init, RegRec
<1>4. /\ starter \in {"idle", "wait", "started"} /\ accept \in AcceptPc
      /\ frontend \in Sock /\ killed \in BOOLEAN /\ failLogged \in BOOLEAN
  BY Zenon DEF Init, AcceptPc, Sock
<1>5. TypeOK
  BY <1>1, <1>2, <1>3, <1>4, Zenon DEF TypeOK, ConnRec, RegRec, StopRec
<1>6. Stopped
  BY <1>2, <1>3 DEF Stopped
<1>7. \A c \in Conn : Place(c) /\ Accounted(c)
  BY <1>1, <1>3 DEF Place, Accounted
<1> QED
  BY <1>5, <1>6, <1>7 DEF IInv

-----------------------------------------------------------------------------
(* The steps of a connection. *)

\* The connection goes on at another place, with its sockets in a new state; the
\* other connections stay where they are.
Moves(c, pc, client, backend) ==
    /\ conn' \in [Conn -> ConnRec]
    /\ \A d \in Conn \ {c} : conn'[d] = conn[d]
    /\ conn'[c].pc = pc /\ conn'[c].client = client /\ conn'[c].backend = backend

\* Only the connection's own membership in the sets may change.
OwnSets(c) ==
    /\ reg' \in RegRec
    /\ \A d \in Conn \ {c} : /\ d \in reg'.clients <=> d \in reg.clients
                             /\ d \in reg'.backends <=> d \in reg.backends
                             /\ d \in reg'.threads <=> d \in reg.threads

\* What no step of a connection touches.
Aside ==
    /\ killed' = killed /\ stopper' = stopper
    /\ starter' \in {"idle", "wait", "started"} /\ accept' \in AcceptPc
    /\ frontend' \in Sock /\ failLogged' \in BOOLEAN

\* A step of one connection keeps the inductive invariant if it keeps that
\* connection's part of it.
LEMMA ConnStep ==
    ASSUME IInv, NEW c \in Conn, NEW pc, NEW client, NEW backend,
           Moves(c, pc, client, backend), OwnSets(c), Aside, Stopped',
           Place(c)', Accounted(c)'
    PROVE  IInv'
<1>1. TypeOK'
  <2>1. killed' \in BOOLEAN /\ stopper' \in [Stopper -> StopRec]
    BY Zenon DEF IInv, TypeOK, Aside, StopRec
  <2> QED
    BY <2>1, Zenon DEF TypeOK, Moves, OwnSets, Aside, ConnRec, RegRec, StopRec
<1>2. ASSUME NEW d \in Conn, d # c PROVE Place(d)' /\ Accounted(d)'
  <2>1. Place(d) /\ Accounted(d)
    BY DEF IInv
  <2>2. /\ conn'[d] = conn[d] /\ stopper' = stopper
        /\ d \in reg'.clients <=> d \in reg.clients
        /\ d \in reg'.backends <=> d \in reg.backends
        /\ d \in reg'.threads <=> d \in reg.threads
    BY <1>2 DEF Moves, OwnSets, Aside
  <2>3. \A kind : Closing(kind, d)' <=> Closing(kind, d)
    BY <2>2, Zenon DEF Closing
  <2> QED
    BY <2>1, <2>2, <2>3 DEF Place, Accounted
<1> QED
  BY <1>1, <1>2 DEF IInv

\* What is known of a connection and of the sets.
LEMMA Shape ==
    ASSUME IInv, NEW c \in Conn
    PROVE  /\ conn \in [Conn -> ConnRec] /\ conn[c] \in ConnRec /\ reg \in RegRec
           /\ conn[c].pc \in ConnPc /\ conn[c].client \in Sock /\ conn[c].backend \in Sock
           /\ conn[c].run \subseteq Dir /\ conn[c].failed \in BOOLEAN
           /\ reg.clients \subseteq Conn /\ reg.backends \subseteq Conn
           /\ reg.threads \subseteq Conn
           /\ Place(c) /\ Accounted(c) /\ Stopped
<1>1. conn \in [Conn -> ConnRec] /\ reg \in RegRec
  BY Zenon DEF IInv, TypeOK, ConnRec, RegRec
<1>2. conn[c] \in ConnRec
  BY <1>1
<1> QED
  BY <1>1, <1>2 DEF IInv, ConnRec, RegRec

\* A step that leaves the three sets and the other threads alone.
LEMMA QuietConnStep ==
    ASSUME IInv, NEW c \in Conn, NEW pc, NEW client, NEW backend,
           Moves(c, pc, client, backend), Aside, reg' = reg,
           Place(c)',
           client = "open" => pc = "got" \/ (conn[c].client = "open" /\ conn[c].pc # "got"),
           backend = "open" =>
               pc = "connected" \/ (conn[c].backend = "open" /\ conn[c].pc # "connected")
    PROVE  IInv'
<1>1. OwnSets(c) /\ Stopped'
  BY Shape DEF OwnSets, Stopped, Aside
<1>2. \A kind : Closing(kind, c)' <=> Closing(kind, c)
  BY Zenon DEF Closing, Aside
<1>3. Accounted(c)
  BY DEF IInv
<1>4. Accounted(c)'
  BY <1>2, <1>3 DEF Accounted, Moves
<1> QED
  BY <1>1, <1>4, ConnStep

\* A step that closes both sockets of a connection and goes on elsewhere.
LEMMA ShutMoves ==
    ASSUME conn \in [Conn -> ConnRec], NEW c \in Conn, NEW pc \in ConnPc,
           conn' = [conn EXCEPT ![c] = [ShutdownAndClose(@) EXCEPT !.pc = pc]]
    PROVE  Moves(c, pc, Close(conn[c].client), Close(conn[c].backend))
<1> DEFINE x == ShutdownAndClose(conn[c])
           y == [x EXCEPT !.pc = pc]
<1>1. conn[c] \in ConnRec /\ conn[c].client \in Sock /\ conn[c].backend \in Sock
  BY Zenon DEF ConnRec
<1>2. Close(conn[c].client) \in Sock /\ Close(conn[c].backend) \in Sock
  BY <1>1 DEF Close, Sock
<1>3. /\ x \in ConnRec /\ x.client = Close(conn[c].client)
      /\ x.backend = Close(conn[c].backend)
  BY <1>1, <1>2, ZenonT(60) DEF ShutdownAndClose, ConnRec
<1>4. conn' = [conn EXCEPT ![c] = y]
  OBVIOUS
<1> HIDE DEF x
<1>5. y \in ConnRec /\ y.pc = pc /\ y.client = x.client /\ y.backend = x.backend
  BY <1>3, ZenonT(60) DEF ConnRec
<1> HIDE DEF y
<1> QED
  BY <1>3, <1>4, <1>5, ZenonT(60) DEF Moves

\* The accept loop's steps with a connection.
LEMMA AcceptKeeps ==
    ASSUME IInv, NEW c \in Conn, Accept(c) \/ RegisterConnection(c) \/ StartThread(c)
    PROVE  IInv'
<1>0. /\ conn \in [Conn -> ConnRec] /\ conn[c] \in ConnRec /\ reg \in RegRec
      /\ conn[c].pc \in ConnPc /\ conn[c].client \in Sock /\ conn[c].backend \in Sock
      /\ reg.clients \subseteq Conn /\ reg.backends \subseteq Conn
      /\ reg.threads \subseteq Conn
      /\ Place(c) /\ Accounted(c) /\ Stopped
  BY Shape
<1>1. Aside
  <2>1. /\ starter \in {"idle", "wait", "started"} /\ frontend \in Sock
        /\ failLogged \in BOOLEAN /\ accept \in AcceptPc
    BY Zenon DEF IInv, TypeOK
  <2>2. {"got", "done", "start", "check"} \subseteq AcceptPc /\ Close(frontend) \in Sock
    BY <2>1 DEF AcceptPc, Close, Sock
  <2>3. /\ killed' = killed /\ stopper' = stopper /\ starter' = starter
        /\ failLogged' = failLogged /\ frontend' \in {frontend, Close(frontend)}
        /\ accept' \in {"got", "done", "start", "check"}
    BY Zenon DEF Accept, RegisterConnection, StartThread
  <2> QED
    BY <2>1, <2>2, <2>3, Zenon DEF Aside
<1>2. CASE Accept(c)
  <2>1. Moves(c, "got", "open", conn[c].backend)
    BY <1>0, <1>2, ZenonT(60) DEF Accept, Moves, ConnRec, ConnPc, Sock
  <2>2. conn[c].pc = "new" /\ reg' = reg
    BY <1>2 DEF Accept
  <2>3. Place(c)'
    BY <1>0, <2>1, <2>2 DEF Moves, Place
  <2>4. conn[c].backend # "open"
    BY <1>0, <2>2 DEF Place
  <2> QED
    BY <1>1, <2>1, <2>2, <2>3, <2>4, QuietConnStep
<1>3. CASE RegisterConnection(c) /\ killed
  <2>1. Moves(c, "ended", "closed", conn[c].backend)
    <3>1. conn' = [conn EXCEPT ![c].pc = "ended", ![c].client = "closed"]
      BY <1>3, Zenon DEF RegisterConnection
    <3> QED
      BY <1>0, <3>1, ZenonT(60) DEF Moves, ConnRec, ConnPc, Sock
  <2>2. conn[c].pc = "got" /\ reg' = reg
    BY <1>3, Zenon DEF RegisterConnection
  <2>3. Place(c)'
    BY <1>0, <2>1, <2>2 DEF Moves, Place
  <2>4. conn[c].backend # "open"
    BY <1>0, <2>2 DEF Place
  <2> QED
    BY <1>1, <2>1, <2>2, <2>3, <2>4, QuietConnStep
<1>4. CASE RegisterConnection(c) /\ ~killed
  <2>1. Moves(c, "unstarted", conn[c].client, conn[c].backend)
    <3>1. conn' = [conn EXCEPT ![c].pc = "unstarted"]
      BY <1>4, Zenon DEF RegisterConnection
    <3> QED
      BY <1>0, <3>1, ZenonT(60) DEF Moves, ConnRec, ConnPc
  <2>2. /\ conn[c].pc = "got" /\ reg' \in RegRec /\ reg'.clients = reg.clients \cup {c}
        /\ reg'.threads = reg.threads \cup {c} /\ reg'.backends = reg.backends
    <3>1. /\ conn[c].pc = "got"
          /\ reg' = [reg EXCEPT !.clients = @ \cup {c}, !.threads = @ \cup {c}]
      BY <1>4, Zenon DEF RegisterConnection
    <3>2. reg.clients \cup {c} \in SUBSET Conn /\ reg.threads \cup {c} \in SUBSET Conn
      BY <1>0
    <3> QED
      BY <1>0, <3>1, <3>2, ZenonT(60) DEF RegRec
  <2>3. OwnSets(c)
    BY <2>2 DEF OwnSets
  <2>4. Stopped'
    BY <1>0, <1>1, <1>4, Zenon DEF Stopped, Aside
  <2>5. Place(c)' /\ Accounted(c)'
    BY <1>0, <2>1, <2>2 DEF Moves, Place, Accounted
  <2> QED
    BY <1>1, <2>1, <2>3, <2>4, <2>5, ConnStep
<1>5. CASE StartThread(c)
  <2>1. Moves(c, "connecting", conn[c].client, conn[c].backend)
    BY <1>0, <1>5, ZenonT(60) DEF StartThread, Moves, ConnRec, ConnPc
  <2>2. conn[c].pc = "unstarted" /\ reg' = reg
    BY <1>5 DEF StartThread
  <2>3. Place(c)'
    BY <1>0, <2>1, <2>2 DEF Moves, Place
  <2> QED
    BY <1>1, <2>1, <2>2, <2>3, QuietConnStep
<1> QED
  BY <1>2, <1>3, <1>4, <1>5

\* The steps of a handler and of its forwarding threads.
HandlerStep(c) ==
    \/ Handler(c) \/ OpenBackend(c) \/ OpenBackendFails(c)
    \/ \E d \in Dir : ForwardBytesEnds(c, d)

\* They keep the inductive invariant.
LEMMA HandlerKeeps ==
    ASSUME IInv, NEW c \in Conn, HandlerStep(c)
    PROVE  IInv'
<1>0. /\ conn \in [Conn -> ConnRec] /\ conn[c] \in ConnRec /\ reg \in RegRec
      /\ conn[c].pc \in ConnPc /\ conn[c].client \in Sock /\ conn[c].backend \in Sock
      /\ conn[c].run \subseteq Dir /\ conn[c].failed \in BOOLEAN
      /\ reg.clients \subseteq Conn /\ reg.backends \subseteq Conn
      /\ reg.threads \subseteq Conn
      /\ Place(c) /\ Accounted(c) /\ Stopped
  BY Shape
<1>a. {Close(conn[c].client), Close(conn[c].backend)} \subseteq Sock \ {"open"}
      /\ (conn[c].client # "none" => Close(conn[c].client) = "closed")
      /\ Close("open") = "closed"
  BY <1>0 DEF Close, Sock
<1>1. Aside
  <2>1. /\ starter \in {"idle", "wait", "started"} /\ frontend \in Sock
        /\ failLogged \in BOOLEAN /\ accept \in AcceptPc
    BY Zenon DEF IInv, TypeOK
  <2>2. /\ killed' = killed /\ stopper' = stopper /\ starter' = starter
        /\ failLogged' \in {failLogged, TRUE, FALSE} /\ frontend' = frontend
        /\ accept' = accept
    BY ZenonT(60) DEF HandlerStep, Handler, RegisterBackendSocket, ConnectSockets,
         ConnectSocketsFails, Forwarded, UnregisterBackendSocket, ConnectionFailed,
         ReportFailure, WarnConnectionFailed, HandlerEnds, OpenBackend, OpenBackendFails,
         ForwardBytesEnds
  <2> QED
    BY <2>1, <2>2, Zenon DEF Aside
<1>2. CASE OpenBackend(c)
  <2>1. Moves(c, "connected", conn[c].client, "open")
    BY <1>0, <1>2, ZenonT(60) DEF OpenBackend, Moves, ConnRec, ConnPc, Sock
  <2>2. conn[c].pc = "connecting" /\ reg' = reg
    BY <1>2 DEF OpenBackend
  <2>3. Place(c)'
    BY <1>0, <2>1, <2>2 DEF Moves, Place
  <2> QED
    BY <1>1, <2>1, <2>2, <2>3, QuietConnStep
<1>3. CASE OpenBackendFails(c)
  <2>1. Moves(c, "failed", Close(conn[c].client), conn[c].backend)
    BY <1>0, <1>3, <1>a, ZenonT(60) DEF OpenBackendFails, Moves, ConnRec, ConnPc
  <2>2. conn[c].pc = "connecting" /\ reg' = reg
    BY <1>3 DEF OpenBackendFails
  <2>3. Place(c)'
    BY <1>0, <1>a, <2>1, <2>2 DEF Moves, Place, Sock
  <2> QED
    BY <1>0, <1>1, <1>a, <2>1, <2>2, <2>3, QuietConnStep DEF Place
<1>4. CASE RegisterBackendSocket(c) /\ killed
  <2>1. Moves(c, "failed", Close(conn[c].client), Close(conn[c].backend))
    <3>1. conn' = [conn EXCEPT ![c] = [ShutdownAndClose(@) EXCEPT !.pc = "failed"]]
      BY <1>4, Zenon DEF RegisterBackendSocket
    <3>2. "failed" \in ConnPc
      BY DEF ConnPc
    <3> QED
      BY <1>0, <3>1, <3>2, ShutMoves
  <2>2. conn[c].pc = "connected" /\ reg' = reg
    BY <1>4, Zenon DEF RegisterBackendSocket
  <2>3. Place(c)'
    BY <1>0, <1>a, <2>1, <2>2 DEF Moves, Place, Sock
  <2> QED
    BY <1>1, <1>a, <2>1, <2>2, <2>3, QuietConnStep
<1>5. CASE RegisterBackendSocket(c) /\ ~killed
  <2>1. Moves(c, "registered", conn[c].client, conn[c].backend)
    <3>1. conn' = [conn EXCEPT ![c].pc = "registered"]
      BY <1>5, Zenon DEF RegisterBackendSocket
    <3> QED
      BY <1>0, <3>1, ZenonT(60) DEF Moves, ConnRec, ConnPc
  <2>2. /\ conn[c].pc = "connected" /\ reg' \in RegRec /\ reg'.clients = reg.clients
        /\ reg'.threads = reg.threads /\ reg'.backends = reg.backends \cup {c}
    <3>1. conn[c].pc = "connected" /\ reg' = [reg EXCEPT !.backends = @ \cup {c}]
      BY <1>5, Zenon DEF RegisterBackendSocket
    <3>2. reg.backends \cup {c} \in SUBSET Conn
      BY <1>0
    <3> QED
      BY <1>0, <3>1, <3>2, ZenonT(60) DEF RegRec
  <2>3. OwnSets(c)
    BY <2>2 DEF OwnSets
  <2>4. Stopped'
    BY <1>0, <1>1, <1>5, Zenon DEF Stopped, Aside
  <2>5. \A kind : Closing(kind, c)' <=> Closing(kind, c)
    BY <1>1, Zenon DEF Closing, Aside
  <2>6. Place(c)' /\ Accounted(c)'
    BY <1>0, <2>1, <2>2, <2>5 DEF Moves, Place, Accounted
  <2> QED
    BY <1>1, <2>1, <2>3, <2>4, <2>6, ConnStep
<1>6. CASE ConnectSockets(c)
  <2>1. Moves(c, "forward", conn[c].client, conn[c].backend)
    BY <1>0, <1>6, ZenonT(60) DEF ConnectSockets, Moves, ConnRec, ConnPc
  <2>2. conn[c].pc = "registered" /\ reg' = reg
    BY <1>6 DEF ConnectSockets
  <2>3. Place(c)'
    BY <1>0, <2>1, <2>2 DEF Moves, Place
  <2> QED
    BY <1>1, <2>1, <2>2, <2>3, QuietConnStep
<1>7. CASE ConnectSocketsFails(c)
  <2>1. PICK run \in SUBSET Dir :
          conn' = [conn EXCEPT ![c].pc = "unregister", ![c].run = run,
                               ![c].failed = TRUE]
    <3>1. {} \subseteq Dir /\ {"client_to_server"} \subseteq Dir
      BY DEF Dir
    <3> QED
      BY <1>7, <3>1, Zenon DEF ConnectSocketsFails
  <2>2. Moves(c, "unregister", conn[c].client, conn[c].backend)
    BY <1>0, <2>1, ZenonT(60) DEF Moves, ConnRec, ConnPc
  <2>3. conn[c].pc = "registered" /\ reg' = reg
    BY <1>7 DEF ConnectSocketsFails
  <2>4. Place(c)'
    BY <1>0, <2>2, <2>3 DEF Moves, Place
  <2> QED
    BY <1>1, <2>2, <2>3, <2>4, QuietConnStep
<1>8. ASSUME NEW d \in Dir, ForwardBytesEnds(c, d) PROVE IInv'
  <2>1. Moves(c, conn[c].pc, Close(conn[c].client), Close(conn[c].backend))
    <3> DEFINE x == ShutdownAndClose(conn[c])
               y == [x EXCEPT !.run = conn[c].run \ {d}]
    <3>1. conn[c].run \ {d} \in SUBSET Dir
      BY <1>0
    <3>2. conn' = [conn EXCEPT ![c] = y]
      BY <1>8, Zenon DEF ForwardBytesEnds
    <3>3. /\ x \in ConnRec /\ x.pc = conn[c].pc /\ x.client = Close(conn[c].client)
          /\ x.backend = Close(conn[c].backend)
      BY <1>0, <1>a, ZenonT(60) DEF ShutdownAndClose, ConnRec
    <3> HIDE DEF x
    <3>4. /\ y \in ConnRec /\ y.pc = x.pc /\ y.client = x.client /\ y.backend = x.backend
      BY <3>1, <3>3, ZenonT(60) DEF ConnRec
    <3> HIDE DEF y
    <3> QED
      BY <1>0, <3>2, <3>3, <3>4, ZenonT(60) DEF Moves
  <2>2. reg' = reg
    BY <1>8 DEF ForwardBytesEnds
  <2>3. Close("none") = "none"
    BY DEF Close
  <2>4. Place(c)'
    BY <1>0, <1>a, <2>1, <2>2, <2>3 DEF Moves, Place, Sock
  <2> QED
    BY <1>1, <1>a, <2>1, <2>2, <2>4, QuietConnStep
<1>9. CASE Forwarded(c)
  <2>1. Moves(c, "unregister", conn[c].client, conn[c].backend)
    BY <1>0, <1>9, ZenonT(60) DEF Forwarded, Moves, ConnRec, ConnPc
  <2>2. conn[c].pc = "forward" /\ reg' = reg
    BY <1>9 DEF Forwarded
  <2>3. Place(c)'
    BY <1>0, <2>1, <2>2 DEF Moves, Place
  <2> QED
    BY <1>1, <2>1, <2>2, <2>3, QuietConnStep
<1>10. CASE UnregisterBackendSocket(c)
  <2>1. PICK pc \in {"failed", "close"} :
          conn' = [conn EXCEPT ![c] = [ShutdownAndClose(@) EXCEPT !.pc = pc]]
    BY <1>10, Zenon DEF UnregisterBackendSocket
  <2>2. Moves(c, pc, Close(conn[c].client), Close(conn[c].backend))
    <3>1. pc \in ConnPc
      BY DEF ConnPc
    <3> QED
      BY <1>0, <2>1, <3>1, ShutMoves
  <2>3. /\ conn[c].pc = "unregister" /\ reg' \in RegRec /\ reg'.clients = reg.clients
        /\ reg'.threads = reg.threads /\ reg'.backends = reg.backends \ {c}
    BY <1>0, <1>10, ZenonT(60) DEF UnregisterBackendSocket, RegRec
  <2>4. OwnSets(c)
    BY <2>3 DEF OwnSets
  <2>5. Stopped'
    BY <1>0, <1>1, <2>3 DEF Stopped, Aside
  <2>6. Place(c)' /\ Accounted(c)'
    BY <1>0, <1>a, <2>2, <2>3 DEF Moves, Place, Accounted, Sock
  <2> QED
    BY <1>1, <2>2, <2>4, <2>5, <2>6, ConnStep
<1>11. CASE ConnectionFailed(c) \/ ReportFailure(c)
  <2>1. PICK pc \in {"report", "warn", "close"} : conn' = [conn EXCEPT ![c].pc = pc]
    BY <1>11, Zenon DEF ConnectionFailed, ReportFailure
  <2>2. Moves(c, pc, conn[c].client, conn[c].backend)
    BY <1>0, <2>1, ZenonT(60) DEF Moves, ConnRec, ConnPc
  <2>3. conn[c].pc \in {"failed", "report"} /\ reg' = reg
    BY <1>11 DEF ConnectionFailed, ReportFailure
  <2>4. Place(c)'
    BY <1>0, <2>2, <2>3 DEF Moves, Place
  <2> QED
    BY <1>1, <2>2, <2>3, <2>4, QuietConnStep
<1>12. CASE WarnConnectionFailed(c)
  <2>1. Moves(c, "close", conn[c].client, conn[c].backend)
    BY <1>0, <1>12, ZenonT(60) DEF WarnConnectionFailed, Moves, ConnRec, ConnPc
  <2>2. conn[c].pc = "warn" /\ reg' = reg
    BY <1>12 DEF WarnConnectionFailed
  <2>3. Place(c)'
    BY <1>0, <2>1, <2>2 DEF Moves, Place
  <2> QED
    BY <1>1, <2>1, <2>2, <2>3, QuietConnStep
<1>13. CASE HandlerEnds(c)
  <2>1. Moves(c, "ended", Close(conn[c].client), conn[c].backend)
    BY <1>0, <1>13, <1>a, ZenonT(60) DEF HandlerEnds, Moves, ConnRec, ConnPc
  <2>2. /\ conn[c].pc = "close" /\ reg' \in RegRec
        /\ reg'.clients = reg.clients \ {c} /\ reg'.threads = reg.threads \ {c}
        /\ reg'.backends = reg.backends
    BY <1>0, <1>13, ZenonT(60) DEF HandlerEnds, RegRec
  <2>3. OwnSets(c)
    BY <2>2 DEF OwnSets
  <2>4. Stopped'
    BY <1>0, <1>1, <2>2 DEF Stopped, Aside
  <2>5. Place(c)' /\ Accounted(c)'
    BY <1>0, <1>a, <2>1, <2>2 DEF Moves, Place, Accounted, Sock
  <2> QED
    BY <1>1, <2>1, <2>3, <2>4, <2>5, ConnStep
<1> QED
  BY <1>2, <1>3, <1>4, <1>5, <1>6, <1>7, <1>8, <1>9, <1>10, <1>11, <1>12, <1>13
     DEF HandlerStep, Handler

-----------------------------------------------------------------------------
(* The steps of start(), of the accept loop without a connection, and of     *)
(* stop().                                                                   *)

\* A step that touches no connection, no set and no stop() keeps the invariant.
LEMMA LoopKeeps ==
    ASSUME IInv,
           \/ Start \/ Bind \/ BindFails \/ CheckKilled \/ AcceptRaises
           \/ StartThreadFails \/ UNCHANGED vars
    PROVE  IInv'
<1>1. /\ killed' = killed /\ conn' = conn /\ reg' = reg /\ stopper' = stopper
      /\ failLogged' = failLogged
      /\ starter' \in {starter, "wait", "started"}
      /\ accept' \in {accept, "bind", "check", "done", "accept"}
      /\ frontend' \in {frontend, "open", Close(frontend)}
  BY ZenonT(60) DEF Start, Bind, BindFails, CheckKilled, AcceptRaises,
     StartThreadFails, vars
<1>2. TypeOK
  BY DEF IInv
<1>3. starter' \in {"idle", "wait", "started"} /\ accept' \in AcceptPc /\ frontend' \in Sock
  <2>1. Close(frontend) \in Sock /\ "open" \in Sock
    BY <1>2, Zenon DEF TypeOK, Close, Sock
  <2>2. {"bind", "check", "done", "accept"} \subseteq AcceptPc
    BY DEF AcceptPc
  <2> QED
    BY <1>1, <1>2, <2>1, <2>2, Zenon DEF TypeOK
<1>4. TypeOK'
  BY <1>1, <1>2, <1>3, Zenon DEF TypeOK
<1>5. Stopped'
  BY <1>1 DEF IInv, Stopped
<1>6. \A c \in Conn : Place(c)' /\ Accounted(c)'
  BY <1>1 DEF IInv, Place, Accounted, Closing
<1> QED
  BY <1>4, <1>5, <1>6 DEF IInv

\* The copy of a stop() has a new place and content; the other copies stay.
StopMoves(s, pc) ==
    /\ stopper' \in [Stopper -> StopRec]
    /\ \A t \in Stopper \ {s} : stopper'[t] = stopper[t]
    /\ stopper'[s].pc = pc
    /\ starter' = starter /\ accept' = accept /\ failLogged' = failLogged
    /\ frontend' \in Sock

\* What is known of a stop().
LEMMA StopShape ==
    ASSUME IInv, NEW s \in Stopper
    PROVE  /\ stopper \in [Stopper -> StopRec] /\ stopper[s] \in StopRec
           /\ stopper[s].pc \in StopPc /\ stopper[s].clients \subseteq Conn
           /\ stopper[s].backends \subseteq Conn
           /\ stopper[s].threads \subseteq Conn \cup {Accepting}
           /\ frontend \in Sock /\ Close(frontend) \in Sock
<1>1. stopper \in [Stopper -> StopRec] /\ frontend \in Sock
  BY Zenon DEF IInv, TypeOK, StopRec
<1>2. stopper[s] \in StopRec
  BY <1>1
<1>3. Close(frontend) \in Sock
  BY <1>1, Zenon DEF Close, Sock
<1> QED
  BY <1>1, <1>2, <1>3 DEF StopRec

\* A stop() that closes nothing of a connection: it goes on at a place at which
\* its copy is as good as before.
LEMMA StopQuiet ==
    ASSUME IInv, NEW s \in Stopper, NEW pc, StopMoves(s, pc),
           stopper[s].pc # "idle", killed' = killed, conn' = conn, reg' = reg,
           \/ stopper[s].pc = "frontend" /\ pc = "clients"
                 /\ stopper'[s].clients = stopper[s].clients
                 /\ stopper'[s].backends = stopper[s].backends
           \/ stopper[s].pc = "join"
    PROVE  IInv'
<1>1. TypeOK'
  <2>1. TypeOK
    BY DEF IInv
  <2> QED
    BY <2>1, Zenon DEF TypeOK, StopMoves, StopRec
<1>2. Stopped'
  BY DEF IInv, Stopped, StopMoves
<1>3. ASSUME NEW c \in Conn PROVE Place(c)' /\ Accounted(c)'
  <2>1. Place(c) /\ Accounted(c)
    BY DEF IInv
  <2>2. \A kind : Closing(kind, c) => Closing(kind, c)'
    BY DEF Closing, StopMoves
  <2> QED
    BY <2>1, <2>2 DEF Place, Accounted
<1> QED
  BY <1>1, <1>2, <1>3 DEF IInv

\* Every step of a stop() keeps the inductive invariant.
LEMMA StopKeeps ==
    ASSUME IInv, NEW s \in Stopper, Stop(s) \/ Stopping(s)
    PROVE  IInv'
<1>0. /\ stopper \in [Stopper -> StopRec] /\ stopper[s] \in StopRec
      /\ stopper[s].pc \in StopPc /\ stopper[s].clients \subseteq Conn
      /\ stopper[s].backends \subseteq Conn
      /\ stopper[s].threads \subseteq Conn \cup {Accepting}
      /\ frontend \in Sock /\ Close(frontend) \in Sock
  BY StopShape
<1>a. TypeOK /\ Stopped /\ conn \in [Conn -> ConnRec] /\ reg \in RegRec
      /\ reg.clients \subseteq Conn /\ reg.backends \subseteq Conn
      /\ reg.threads \subseteq Conn
  <2>1. TypeOK /\ Stopped /\ conn \in [Conn -> ConnRec] /\ reg \in RegRec
    BY Zenon DEF IInv, TypeOK, ConnRec, RegRec
  <2> QED
    BY <2>1 DEF RegRec
<1>1. CASE Stop(s)
  <2> DEFINE all == reg.threads \cup {Accepting}
  <2>1. all \in SUBSET (Conn \cup {Accepting})
    BY <1>a
  <2>2. /\ stopper[s].pc = "idle" /\ killed' = TRUE /\ conn' = conn
        /\ stopper' = [stopper EXCEPT ![s].pc = "frontend", ![s].clients = reg.clients,
                                      ![s].backends = reg.backends, ![s].threads = all]
        /\ reg' = [reg EXCEPT !.clients = {}, !.backends = {}]
        /\ starter' = starter /\ accept' = accept /\ failLogged' = failLogged
        /\ frontend' = frontend
    BY <1>1, Zenon DEF Stop
  <2> HIDE DEF all
  <2>3. /\ StopMoves(s, "frontend") /\ stopper'[s].clients = reg.clients
        /\ stopper'[s].backends = reg.backends
    <3>1. "frontend" \in StopPc
      BY DEF StopPc
    <3> QED
      BY <1>0, <1>a, <2>1, <2>2, <3>1, ZenonT(60) DEF StopMoves, StopRec
  <2>4. /\ reg' \in RegRec /\ reg'.clients = {} /\ reg'.backends = {}
        /\ reg'.threads = reg.threads
    <3>1. {} \in SUBSET Conn
      OBVIOUS
    <3> QED
      BY <1>a, <2>2, <3>1, ZenonT(60) DEF RegRec
  <2>5. TypeOK'
    <3>1. killed' \in BOOLEAN
      BY <2>2
    <3> QED
      BY <1>a, <2>2, <2>3, <2>4, <3>1, Zenon
         DEF TypeOK, StopMoves, ConnRec, RegRec, StopRec
  <2>6. Stopped'
    BY <1>a, <2>2, <2>4, Zenon DEF Stopped
  <2>7. ASSUME NEW c \in Conn PROVE Place(c)' /\ Accounted(c)'
    <3>1. Place(c) /\ Accounted(c)
      BY DEF IInv
    <3>2. \A kind : Closing(kind, c) => Closing(kind, c)'
      BY <2>2, <2>3 DEF Closing, StopMoves
    <3>3. /\ c \in reg.clients => Closing("client", c)'
          /\ c \in reg.backends => Closing("backend", c)'
      BY <2>3 DEF Closing, StopMoves
    <3> QED
      BY <2>2, <2>4, <3>1, <3>2, <3>3 DEF Place, Accounted
  <2> QED
    BY <2>5, <2>6, <2>7 DEF IInv
<1>2. CASE CloseFrontend(s)
  <2>1. /\ stopper[s].pc = "frontend" /\ killed' = killed /\ conn' = conn /\ reg' = reg
        /\ stopper' = [stopper EXCEPT ![s].pc = "clients"]
        /\ starter' = starter /\ accept' = accept /\ failLogged' = failLogged
        /\ frontend' = Close(frontend)
    BY <1>2, Zenon DEF CloseFrontend
  <2>2. /\ StopMoves(s, "clients") /\ stopper'[s].clients = stopper[s].clients
        /\ stopper'[s].backends = stopper[s].backends
    BY <1>0, <2>1, ZenonT(60) DEF StopMoves, StopRec, StopPc
  <2> QED
    BY <2>1, <2>2, StopQuiet
<1>3. CASE CloseClients(s)
  <2>1. /\ stopper[s].pc = "clients" /\ killed' = killed /\ reg' = reg
        /\ stopper' = [stopper EXCEPT ![s].pc = "backends"]
        /\ starter' = starter /\ accept' = accept /\ failLogged' = failLogged
        /\ frontend' = frontend
        /\ conn' = [c \in Conn |-> IF c \in stopper[s].clients
                                   THEN [conn[c] EXCEPT !.client = Close(@)]
                                   ELSE conn[c]]
    BY <1>3, Zenon DEF CloseClients
  <2>2. /\ StopMoves(s, "backends") /\ stopper'[s].clients = stopper[s].clients
        /\ stopper'[s].backends = stopper[s].backends
    BY <1>0, <2>1, ZenonT(60) DEF StopMoves, StopRec, StopPc
  <2>3. ASSUME NEW c \in Conn
        PROVE  /\ conn'[c] \in ConnRec /\ conn'[c].pc = conn[c].pc
               /\ conn'[c].backend = conn[c].backend
               /\ conn'[c].client = IF c \in stopper[s].clients
                                    THEN Close(conn[c].client) ELSE conn[c].client
    <3>1. conn[c] \in ConnRec /\ conn[c].client \in Sock
      BY <1>a, Zenon DEF ConnRec
    <3>2. Close(conn[c].client) \in Sock
      BY <3>1, Zenon DEF Close, Sock
    <3> QED
      BY <2>1, <3>1, <3>2, ZenonT(60) DEF ConnRec
  <2>4. conn' \in [Conn -> ConnRec]
    BY <2>1, <2>3
  <2>5. TypeOK'
    BY <1>a, <2>1, <2>2, <2>4, Zenon DEF TypeOK, StopMoves, ConnRec, StopRec
  <2>6. Stopped'
    BY <1>a, <2>1, <2>2 DEF Stopped, StopMoves
  <2>7. ASSUME NEW c \in Conn PROVE Place(c)' /\ Accounted(c)'
    <3>1. Place(c) /\ Accounted(c) /\ conn[c].client \in Sock
      BY <1>a, Zenon DEF IInv, ConnRec
    <3>2. /\ c \notin stopper[s].clients /\ Closing("client", c) => Closing("client", c)'
          /\ Closing("backend", c) => Closing("backend", c)'
      BY <2>1, <2>2 DEF Closing, StopMoves
    <3> QED
      BY <2>1, <2>3, <3>1, <3>2 DEF Place, Accounted, Close, Sock
  <2> QED
    BY <2>5, <2>6, <2>7 DEF IInv
<1>4. CASE CloseBackends(s)
  <2>1. /\ stopper[s].pc = "backends" /\ killed' = killed /\ reg' = reg
        /\ stopper' = [stopper EXCEPT ![s].pc = "join"]
        /\ starter' = starter /\ accept' = accept /\ failLogged' = failLogged
        /\ frontend' = frontend
        /\ conn' = [c \in Conn |-> IF c \in stopper[s].backends
                                   THEN [conn[c] EXCEPT !.backend = Close(@)]
                                   ELSE conn[c]]
    BY <1>4, Zenon DEF CloseBackends
  <2>2. StopMoves(s, "join")
    BY <1>0, <2>1, ZenonT(60) DEF StopMoves, StopRec, StopPc
  <2>3. ASSUME NEW c \in Conn
        PROVE  /\ conn'[c] \in ConnRec /\ conn'[c].pc = conn[c].pc
               /\ conn'[c].client = conn[c].client
               /\ conn'[c].backend = IF c \in stopper[s].backends
                                     THEN Close(conn[c].backend) ELSE conn[c].backend
    <3>1. conn[c] \in ConnRec /\ conn[c].backend \in Sock
      BY <1>a, Zenon DEF ConnRec
    <3>2. Close(conn[c].backend) \in Sock
      BY <3>1, Zenon DEF Close, Sock
    <3> QED
      BY <2>1, <3>1, <3>2, ZenonT(60) DEF ConnRec
  <2>4. conn' \in [Conn -> ConnRec]
    BY <2>1, <2>3
  <2>5. TypeOK'
    BY <1>a, <2>1, <2>2, <2>4, Zenon DEF TypeOK, StopMoves, ConnRec, StopRec
  <2>6. Stopped'
    BY <1>a, <2>1, <2>2 DEF Stopped, StopMoves
  <2>7. ASSUME NEW c \in Conn PROVE Place(c)' /\ Accounted(c)'
    <3>1. Place(c) /\ Accounted(c) /\ conn[c].backend \in Sock
      BY <1>a, Zenon DEF IInv, ConnRec
    <3>2. /\ c \notin stopper[s].backends /\ Closing("backend", c) => Closing("backend", c)'
          /\ Closing("client", c) => Closing("client", c)'
      BY <2>1, <2>2 DEF Closing, StopMoves
    <3> QED
      BY <2>1, <2>3, <3>1, <3>2 DEF Place, Accounted, Close, Sock
  <2> QED
    BY <2>5, <2>6, <2>7 DEF IInv
<1>5. CASE Join(s)
  <2>1. /\ stopper[s].pc = "join" /\ killed' = killed /\ conn' = conn /\ reg' = reg
        /\ starter' = starter /\ accept' = accept /\ failLogged' = failLogged
        /\ frontend' = frontend
    BY <1>5, Zenon DEF Join
  <2>2. PICK left : left \in SUBSET (Conn \cup {Accepting})
                    /\ stopper' = [stopper EXCEPT ![s].threads = left]
    <3>1. \E t \in stopper[s].threads :
             stopper' = [stopper EXCEPT ![s].threads = stopper[s].threads \ {t}]
      BY <1>0, <1>5, Zenon DEF Join
    <3>2. \A t : stopper[s].threads \ {t} \in SUBSET (Conn \cup {Accepting})
      BY <1>0
    <3> QED
      BY <3>1, <3>2
  <2>3. StopMoves(s, "join")
    BY <1>0, <2>1, <2>2, ZenonT(60) DEF StopMoves, StopRec
  <2> QED
    BY <2>1, <2>3, StopQuiet
<1>6. CASE JoinRaises(s) \/ StopReturns(s)
  <2>1. PICK pc \in {"raised", "done"} : stopper' = [stopper EXCEPT ![s].pc = pc]
    BY <1>6, Zenon DEF JoinRaises, StopReturns
  <2>2. /\ stopper[s].pc = "join" /\ killed' = killed /\ conn' = conn /\ reg' = reg
        /\ starter' = starter /\ accept' = accept /\ failLogged' = failLogged
        /\ frontend' = frontend
    BY <1>6, Zenon DEF JoinRaises, StopReturns
  <2>3. StopMoves(s, pc)
    BY <1>0, <2>1, <2>2, ZenonT(60) DEF StopMoves, StopRec, StopPc
  <2> QED
    BY <2>2, <2>3, StopQuiet
<1>7. CASE Deadline(s)
  <2>1. /\ stopper[s].pc = "join" /\ killed' = killed /\ conn' = conn /\ reg' = reg
        /\ stopper' = [stopper EXCEPT ![s].late = TRUE]
        /\ starter' = starter /\ accept' = accept /\ failLogged' = failLogged
        /\ frontend' = frontend
    BY <1>7, Zenon DEF Deadline
  <2>2. StopMoves(s, "join")
    BY <1>0, <2>1, ZenonT(60) DEF StopMoves, StopRec
  <2> QED
    BY <2>1, <2>2, StopQuiet
<1> QED
  BY <1>1, <1>2, <1>3, <1>4, <1>5, <1>6, <1>7 DEF Stopping

-----------------------------------------------------------------------------

\* Every step keeps the inductive invariant.
LEMMA StepIInv == IInv /\ [Next]_vars => IInv'
<1> SUFFICES ASSUME IInv, [Next]_vars PROVE IInv'
  OBVIOUS
<1>1. ASSUME NEW c \in Conn, Accept(c) \/ RegisterConnection(c) \/ StartThread(c)
      PROVE  IInv'
  BY <1>1, AcceptKeeps
<1>2. ASSUME NEW c \in Conn, HandlerStep(c) PROVE IInv'
  BY <1>2, HandlerKeeps
<1>3. ASSUME NEW s \in Stopper, Stop(s) \/ Stopping(s) PROVE IInv'
  BY <1>3, StopKeeps
<1>4. CASE \/ Start \/ Bind \/ BindFails \/ CheckKilled \/ AcceptRaises
           \/ StartThreadFails \/ UNCHANGED vars
  BY <1>4, LoopKeeps
<1> QED
  BY <1>1, <1>2, <1>3, <1>4 DEF Next, AcceptLoop, HandlerStep

\* The inductive invariant holds in every reachable state.
LEMMA Inductive == Spec => []IInv
BY InitIInv, StepIInv, PTL DEF Spec

\* The proxy's variables keep their types: start(), the accept loop, the handlers
\* and stop() leave every record and set well formed, for any number of threads.
THEOREM TypeCorrect == Spec => []TypeOK
<1>1. IInv => TypeOK
  BY DEF IInv
<1> QED
  BY <1>1, Inductive, PTL

\* A handler that has ended has closed both its sockets and is in none of the
\* sets, whichever of its steps failed and whatever stop() did meanwhile.
THEOREM EndedIsClean == Spec => []EndedHoldsNothing
<1>1. IInv => EndedHoldsNothing
  BY DEF IInv, Place, EndedHoldsNothing
<1> QED
  BY <1>1, Inductive, PTL

\* After a stop() has closed what it saw, the only sockets still open are ones
\* that the next step of their own thread, or another stop(), closes.
THEOREM StopSeesAll == Spec => []StopClosesSockets
<1>1. IInv => StopClosesSockets
  <2> SUFFICES ASSUME IInv, NEW s \in Stopper, stopper[s].pc \in {"join", "done", "raised"},
                      NEW c \in Conn
               PROVE  /\ conn[c].client = "open" => conn[c].pc = "got" \/ Closing("client", c)
                      /\ conn[c].backend = "open" =>
                             conn[c].pc = "connected" \/ Closing("backend", c)
    BY DEF StopClosesSockets
  <2>1. reg.clients = {} /\ reg.backends = {}
    BY DEF IInv, Stopped
  <2> QED
    BY <2>1 DEF IInv, Accounted
<1> QED
  BY <1>1, Inductive, PTL
=============================================================================
