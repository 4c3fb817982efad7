------------------------ MODULE SessionLifecycle_proofs ------------------------
(***************************************************************************)
(* Proofs about SessionLifecycle, for any number of threads, session ids,  *)
(* objects, server incarnations, polls and retries, with or without        *)
(* interrupts: at most one session is open and everybody who refers to one *)
(* refers to it, its id and uuid are the class's, a named session is       *)
(* terminated only on request, a call for a named session returns its      *)
(* current incarnation, no generated session is orphaned, and every step   *)
(* of a call brings it nearer to its end; and no verdict of death that is  *)
(* not true of the default session outlives the call that recorded it.     *)
(* The inductive invariant says what a call in progress holds at each of   *)
(* its RPCs: a call that is about to create or attach has stopped the      *)
(* default session before, and one that checks or terminates a session     *)
(* works on the default session.  Fresh and Accounted, further down, add   *)
(* what the last two need.                                                 *)
(***************************************************************************)
EXTENDS SessionLifecycle, TLAPS

\* The default session is attached to the session the class-level state names,
\* also in the middle of a call.
Owns(s) ==
    s.default # NoObj =>
        s.id = s.obj[s.default].id /\ s.uuid = s.obj[s.default].uuid

\* The class-level state and its objects agree.
Coherent(s) ==
    /\ \A o \in Obj : s.obj[o].open => o = s.default
    /\ s.default # NoObj => s.obj[s.default].open
    /\ s.inst \in {NoObj, s.default}
    /\ Owns(s)
    /\ s.default # NoObj => s.id # NoId
    /\ ~s.custom => s.id \notin Custom

\* A call for a named session is in progress and has returned nothing yet.
Unanswered(c) == c.req \in Custom => c.ret = NoObj /\ c.pc # "idle"

\* What the call in progress knows at its next RPC.
Phase(s, c) ==
    /\ c.pc \in {"lookup", "waitterm", "delete"} => c.req \in Custom
    /\ c.pc \in {"create", "waitcreate", "waitep", "connect"} => s.default = NoObj
    /\ c.pc \in {"waitcreate", "waitep", "connect", "check"} => s.id # NoId
    /\ c.pc = "check" => c.target = s.default /\ s.default # NoObj
    /\ c.pc \in {"terminate", "poll"} =>
           IF c.cont = "cleanup" THEN s.default = NoObj
           ELSE c.target = s.default /\ s.default # NoObj /\ s.id = c.tid
    /\ c.pc \in {"waitcreate", "waitep", "connect", "check"} /\ c.creating /\ c.req = Gen =>
           s.id \in Generated
    /\ c.pc \in {"waitcreate", "waitep", "connect", "check"} /\ c.req \in Custom =>
           s.id = c.req
    /\ c.pc = "reuse" /\ c.req \in Custom => s.id \in {c.req, NoId}
    /\ c.pc = "reuse" /\ s.default # NoObj /\ c.resp # NoResource => s.uuid = c.resp.uuid
    /\ c.pc = "check" => s.uuid = c.resp.uuid
    /\ c.pc \in {"waitcreate", "check"} => c.creating
    /\ c.pc = "reuse" => ~c.creating
    /\ c.pc \in {"lookup", "waitterm", "delete"} => ~c.creating
    /\ Unanswered(c)

\* The inductive invariant.
IInv == TypeOK /\ Coherent(m) /\ Phase(m, call) /\ NamedOnlyOnRequest

-----------------------------------------------------------------------------

MRec == [id : Id \cup {NoId}, uuid : Uuid, custom : BOOLEAN,
         default : 0..MaxObj, inst : 0..MaxObj,
         active : [Thread -> 0..MaxObj], file : Id \cup {NoId},
         live : [Id -> Verdicts], made : 0..MaxObj,
         obj : [Obj -> [id : Id \cup {NoId}, uuid : Uuid, open : BOOLEAN]]]

CRec == [pc : Pc, t : Thread, req : Custom \cup {Gen}, creating : BOOLEAN,
         attempt : 1..(StartRetries + 1), resp : Resource, cont : Cont,
         target : 0..MaxObj, tid : Id \cup {NoId}, polls : 0..MaxPolls,
         ret : 0..MaxObj]

\* A named session is being terminated only because that was asked for.
Named(c) == c.pc \in {"terminate", "poll"} /\ c.tid \in Custom => c.cont = "asked"

\* The part of the invariant that is about the process.
Core(s, c) == s \in MRec /\ Coherent(s) /\ c \in CRec /\ Phase(s, c) /\ Named(c)

\* The rest of the types.
Aside ==
    /\ srv \in [Id -> Resource] /\ uuids \in Uuid
    /\ told \subseteq Generated /\ letGo \subseteq Generated

\* The two parts make up the inductive invariant.
LEMMA Parts == IInv <=> Core(m, call) /\ Aside
BY Zenon DEF IInv, Core, Aside, TypeOK, MRec, CRec, Named, NamedOnlyOnRequest

-----------------------------------------------------------------------------
(* The class-level state. *)

\* r differs from s in its active-session file and its verdicts at most.
Same(s, r) ==
    /\ r \in MRec
    /\ r.id = s.id /\ r.uuid = s.uuid /\ r.custom = s.custom /\ r.default = s.default
    /\ r.inst = s.inst /\ r.active = s.active /\ r.made = s.made /\ r.obj = s.obj

\* Then they are equally coherent.
LEMMA SameCoherent ==
    ASSUME NEW s \in MRec, Coherent(s), NEW r, Same(s, r)
    PROVE  Coherent(r)
BY DEF Same, Coherent, Owns

\* A verdict is all that these change.
LEMMA MarkSame ==
    ASSUME NEW s \in MRec, NEW i, NEW v \in Verdicts
    PROVE  Same(s, Mark(s, i, v)) /\ Mark(s, i, v).live = [s.live EXCEPT ![i] = v]
<1>1. s.live \in [Id -> Verdicts]
  BY Zenon DEF MRec
<1>2. [s.live EXCEPT ![i] = v] \in [Id -> Verdicts]
  BY <1>1, Zenon
<1> QED
  BY <1>2, ZenonT(60) DEF Same, Mark, MRec

\* An interrupted termination leaves its verdict, and nothing else.
LEMMA CutShortSame ==
    ASSUME NEW s \in MRec, TerminateCutShort(s)
    PROVE  Same(s, m') /\ Raise /\ Interrupts
<1> DEFINE v == IF s.live[call.tid] = "dead" THEN "interrupted" ELSE s.live[call.tid]
           l == [s.live EXCEPT ![call.tid] = v]
<1>1. s.live \in [Id -> Verdicts]
  BY Zenon DEF MRec
<1>2. l \in [Id -> Verdicts]
  <2>1. CASE call.tid \in Id
    <3>1. v \in Verdicts
      BY <1>1, <2>1 DEF Verdicts, DeadVerdicts
    <3> HIDE DEF v
    <3> QED
      BY <1>1, <3>1, Zenon
  <2>2. CASE call.tid \notin Id
    BY <1>1, <2>2
  <2> QED
    BY <2>1, <2>2
<1>3. m' = [s EXCEPT !.live = l]
  BY Zenon DEF TerminateCutShort
<1> HIDE DEF l, v
<1>4. Same(s, m')
  BY <1>2, <1>3, ZenonT(60) DEF Same, MRec
<1> QED
  BY <1>4 DEF TerminateCutShort, Interrupted

\* Verdicts and the file are all that these change.
LEMMA VerdictSame ==
    ASSUME NEW s \in MRec, NEW i
    PROVE  /\ Same(s, s) /\ Same(s, MarkActive(s, i)) /\ Same(s, MarkDead(s, i))
           /\ Same(s, Invalidate(s)) /\ Same(s, [s EXCEPT !.file = NoId])
<1>1. /\ s.live \in [Id -> Verdicts]
      /\ NoId \in Id \cup {NoId}
  BY Zenon DEF MRec
<1>2. /\ "active" \in Verdicts /\ "dead" \in Verdicts /\ "none" \in Verdicts
  BY DEF Verdicts, DeadVerdicts
<1>4. [j \in Id |-> "none"] \in [Id -> Verdicts]
  BY <1>2, Zenon
<1>5. Same(s, MarkActive(s, i))
  BY <1>2, MarkSame DEF MarkActive
<1>6. Same(s, MarkDead(s, i))
  BY <1>2, MarkSame DEF MarkDead
<1>7. Same(s, Invalidate(s))
  BY <1>4, ZenonT(60) DEF Same, Invalidate, MRec
<1>8. Same(s, [s EXCEPT !.file = NoId])
  BY <1>1, ZenonT(60) DEF Same, MRec
<1>9. Same(s, s)
  BY DEF Same
<1> QED
  BY <1>5, <1>6, <1>7, <1>8, <1>9

\* Clearing the id of a process without a default session.
LEMMA ClearIdCoherent ==
    ASSUME NEW s \in MRec, Coherent(s), s.default = NoObj
    PROVE  /\ ClearId(s) \in MRec /\ Coherent(ClearId(s))
           /\ ClearId(s).default = NoObj /\ ClearId(s).id = NoId
<1>1. /\ ClearId(s) \in MRec
      /\ ClearId(s).id = NoId /\ ClearId(s).custom = FALSE
      /\ ClearId(s).default = s.default /\ ClearId(s).inst = s.inst
      /\ ClearId(s).obj = s.obj
  BY ZenonT(60) DEF ClearId, MRec
<1> QED
  BY <1>1, SessionAssumption DEF Coherent, Owns

\* An in-process session is the default session.
LEMMA InProcessIsDefault ==
    ASSUME NEW s \in MRec, Coherent(s), NEW t \in Thread
    PROVE  InProcess(s, t) = s.default
<1>1. s.active[t] \in 0..MaxObj
  BY Zenon DEF MRec
<1>2. ASSUME s.active[t] # NoObj, s.obj[s.active[t]].open PROVE s.active[t] = s.default
  <2>1. s.active[t] \in Obj
    BY <1>1, <1>2 DEF Obj, NoObj
  <2> QED
    BY <1>2, <2>1 DEF Coherent
<1> QED
  BY <1>2, Zenon DEF InProcess, GetActiveSession

\* Forgetting the server session.
LEMMA ForgetEffect ==
    ASSUME NEW s \in MRec, NEW o
    PROVE  /\ Forget(s, o) \in MRec /\ Forget(s, o).id = NoId
           /\ Forget(s, o).custom = FALSE /\ Forget(s, o).default = s.default
           /\ Forget(s, o).inst \in {NoObj, s.inst}
           /\ s.inst = o => Forget(s, o).inst = NoObj
           /\ Forget(s, o).active = s.active /\ Forget(s, o).made = s.made
           /\ Forget(s, o).obj = s.obj
<1> DEFINE c == ClearId(s)
           f == [c EXCEPT !.uuid = 0, !.file = NoId, !.inst = IF @ = o THEN NoObj ELSE @]
           g == [c EXCEPT !.uuid = 0, !.file = NoId,
                          !.inst = IF c.inst = o THEN NoObj ELSE c.inst]
<1>1. /\ c \in MRec /\ c.id = NoId /\ c.custom = FALSE /\ c.default = s.default
      /\ c.inst = s.inst /\ c.active = s.active /\ c.made = s.made /\ c.obj = s.obj
  BY ZenonT(60) DEF ClearId, MRec
<1>2. Forget(s, o) = Invalidate(g)
  BY DEF Forget
<1> HIDE DEF c
<1>3. /\ c.inst \in 0..MaxObj /\ NoObj \in 0..MaxObj /\ 0 \in Uuid
      /\ (IF c.inst = o THEN NoObj ELSE c.inst) \in 0..MaxObj
  <2>1. c.inst \in 0..MaxObj
    BY <1>1, Zenon DEF MRec
  <2> QED
    BY <2>1, SessionAssumption DEF NoObj, Uuid
<1>4. /\ g \in MRec /\ g.id = c.id /\ g.custom = c.custom /\ g.default = c.default
      /\ g.active = c.active /\ g.made = c.made /\ g.obj = c.obj
      /\ g.inst = IF c.inst = o THEN NoObj ELSE c.inst
  BY <1>1, <1>3, ZenonT(60) DEF MRec
<1> HIDE DEF g
<1>5. Same(g, Invalidate(g))
  BY <1>4, VerdictSame
<1> QED
  BY <1>1, <1>2, <1>4, <1>5 DEF Same

ORec == [id : Id \cup {NoId}, uuid : Uuid, open : BOOLEAN]

\* Closing an object changes nothing else.
LEMMA CloseObject ==
    ASSUME NEW f \in [Obj -> ORec], NEW o \in Obj, NEW g,
           g = [f EXCEPT ![o].open = FALSE]
    PROVE  /\ g \in [Obj -> ORec] /\ ~g[o].open
           /\ \A p \in Obj : p # o => g[p] = f[p]
<1> DEFINE e == [f[o] EXCEPT !.open = FALSE]
<1>1. f[o] \in ORec
  OBVIOUS
<1>2. e \in ORec /\ e.open = FALSE
  BY <1>1, ZenonT(60) DEF ORec
<1>3. g = [f EXCEPT ![o] = e]
  BY Zenon
<1> HIDE DEF e
<1> QED
  BY <1>2, <1>3

\* Closing an object of the process, with the class-level state if it is the
\* default session.
LEMMA StopLocalCoherent ==
    ASSUME NEW s \in MRec, Coherent(s), NEW o \in Obj, NEW t \in Thread
    PROVE  /\ StopLocal(s, o, t) \in MRec /\ Coherent(StopLocal(s, o, t))
           /\ StopLocal(s, o, t).default = IF o = s.default THEN NoObj ELSE s.default
           /\ o = s.default => StopLocal(s, o, t).id = NoId
           /\ o # s.default => /\ StopLocal(s, o, t).id = s.id
                               /\ StopLocal(s, o, t).uuid = s.uuid
<1> DEFINE h == Forget(s, o)
           f == IF o = s.default THEN [h EXCEPT !.default = NoObj] ELSE s
           a == IF f.active[t] = o THEN NoObj ELSE f.active[t]
           r == [f EXCEPT !.obj[o].open = FALSE, !.active[t] = a]
<1>1. NoObj \in 0..MaxObj /\ NoObj \notin Obj
  BY SessionAssumption DEF NoObj, Obj
<1>2. /\ h \in MRec /\ h.id = NoId /\ h.custom = FALSE /\ h.default = s.default
      /\ h.inst \in {NoObj, s.inst} /\ (s.inst = o => h.inst = NoObj)
      /\ h.active = s.active /\ h.made = s.made /\ h.obj = s.obj
  BY ForgetEffect, Zenon
<1>3. StopLocal(s, o, t) = r
  BY DEF StopLocal
<1> HIDE DEF h
<1>4. CASE o = s.default
  <2>1. /\ f \in MRec /\ f.id = NoId /\ f.custom = FALSE /\ f.default = NoObj
        /\ f.inst \in {NoObj, s.inst} /\ (s.inst = o => f.inst = NoObj)
        /\ f.active = s.active /\ f.obj = s.obj
    BY <1>1, <1>2, <1>4, ZenonT(60) DEF MRec
  <2> HIDE DEF f
  <2>2. a \in 0..MaxObj
    <3>1. f.active[t] \in 0..MaxObj
      BY <2>1, Zenon DEF MRec
    <3> QED
      BY <1>1, <3>1
  <2> HIDE DEF a
  <2>3. f.obj \in [Obj -> ORec] /\ f.active \in [Thread -> 0..MaxObj]
    BY <2>1, Zenon DEF MRec, ORec
  <2>4. /\ [f.obj EXCEPT ![o].open = FALSE] \in [Obj -> ORec]
        /\ [f.active EXCEPT ![t] = a] \in [Thread -> 0..MaxObj]
    BY <2>2, <2>3, CloseObject
  <2>5. /\ r \in MRec /\ r.id = NoId /\ r.custom = FALSE /\ r.default = NoObj
        /\ r.inst = f.inst /\ r.obj = [f.obj EXCEPT ![o].open = FALSE]
    BY <2>1, <2>4, ZenonT(60) DEF MRec, ORec
  <2>6. \A p \in Obj : ~r.obj[p].open
    <3> TAKE p \in Obj
    <3>1. ~r.obj[o].open
      BY <2>3, <2>5, CloseObject
    <3>2. p # o => r.obj[p] = f.obj[p]
      BY <2>3, <2>5, CloseObject
    <3>3. p # o => ~s.obj[p].open
      BY <1>4 DEF Coherent
    <3> QED
      BY <2>1, <3>1, <3>2, <3>3
  <2>7. r.inst = NoObj
    BY <1>4, <2>1, <2>5 DEF Coherent
  <2> HIDE DEF r
  <2>8. Coherent(r)
    BY <2>5, <2>6, <2>7, SessionAssumption DEF Coherent, Owns
  <2> QED
    BY <1>3, <1>4, <2>5, <2>8
<1>5. CASE o # s.default
  <2>1. f = s
    BY <1>5
  <2> HIDE DEF f
  <2>2. a \in 0..MaxObj
    <3>1. s.active[t] \in 0..MaxObj
      BY Zenon DEF MRec
    <3> QED
      BY <1>1, <2>1, <3>1
  <2> HIDE DEF a
  <2>3. s.obj \in [Obj -> ORec] /\ s.active \in [Thread -> 0..MaxObj]
    BY Zenon DEF MRec, ORec
  <2>4. /\ [s.obj EXCEPT ![o].open = FALSE] \in [Obj -> ORec]
        /\ [s.active EXCEPT ![t] = a] \in [Thread -> 0..MaxObj]
    BY <2>2, <2>3, CloseObject
  <2>5. /\ r \in MRec /\ r.id = s.id /\ r.uuid = s.uuid /\ r.custom = s.custom
        /\ r.default = s.default /\ r.inst = s.inst
        /\ r.obj = [s.obj EXCEPT ![o].open = FALSE]
    BY <2>1, <2>4, ZenonT(60) DEF MRec, ORec
  <2>6. /\ \A p \in Obj : p # o => r.obj[p] = s.obj[p]
        /\ ~r.obj[o].open
    BY <2>3, <2>5, CloseObject
  <2>7. s.default # NoObj => s.default \in Obj
    <3>1. s.default \in 0..MaxObj
      BY Zenon DEF MRec
    <3> QED
      BY <3>1 DEF Obj, NoObj
  <2> HIDE DEF r
  <2>8. Coherent(r)
    BY <1>5, <2>5, <2>6, <2>7 DEF Coherent, Owns
  <2> QED
    BY <1>3, <1>5, <2>5, <2>8
<1> QED
  BY <1>4, <1>5

\* Attaching before there is an object.
LEMMA AttachCoherent ==
    ASSUME NEW s \in MRec, Coherent(s), s.default = NoObj, NEW r \in Resource, NEW i
    PROVE  /\ Attach(s, r, i) \in MRec /\ Coherent(Attach(s, r, i))
           /\ Attach(s, r, i).id = s.id /\ Attach(s, r, i).uuid = r.uuid
           /\ Attach(s, r, i).default = NoObj /\ Attach(s, r, i).custom = s.custom
           /\ Attach(s, r, i).inst = s.inst /\ Attach(s, r, i).made = s.made
           /\ Attach(s, r, i).active = s.active /\ Attach(s, r, i).obj = s.obj
<1> DEFINE u == [s EXCEPT !.uuid = r.uuid]
<1>1. r.uuid \in Uuid
  BY Zenon DEF Resource
<1>2. /\ u \in MRec /\ u.id = s.id /\ u.uuid = r.uuid /\ u.custom = s.custom
      /\ u.default = s.default /\ u.inst = s.inst /\ u.active = s.active
      /\ u.made = s.made /\ u.obj = s.obj
  BY <1>1, ZenonT(60) DEF MRec
<1>3. Attach(s, r, i) = MarkActive(u, i)
  BY DEF Attach
<1> HIDE DEF u
<1>4. Same(u, MarkActive(u, i))
  BY <1>2, VerdictSame
<1>5. Coherent(u)
  BY <1>2 DEF Coherent, Owns
<1> QED
  BY <1>2, <1>3, <1>4, <1>5, SameCoherent DEF Same

\* A new session object.
LEMMA ConnectedCoherent ==
    ASSUME NEW s \in MRec, Coherent(s), s.default = NoObj, s.id # NoId, s.made < MaxObj,
           NEW r \in Resource, NEW t \in Thread
    PROVE  /\ Connected(s, r, s.id, t) \in MRec /\ Coherent(Connected(s, r, s.id, t))
           /\ Connected(s, r, s.id, t).default = s.made + 1
           /\ Connected(s, r, s.id, t).made = s.made + 1
           /\ s.made + 1 \in Obj
           /\ Connected(s, r, s.id, t).id = s.id
           /\ Connected(s, r, s.id, t).uuid = r.uuid
           /\ Connected(s, r, s.id, t).custom = s.custom
<1> DEFINE o == s.made + 1
           a == Attach(s, r, s.id)
           n == [id |-> s.id, uuid |-> r.uuid, open |-> TRUE]
           v == IF a.active[t] = NoObj THEN o ELSE a.active[t]
           c == [a EXCEPT !.made = o, !.obj[o] = n, !.default = o, !.active[t] = v]
<1>1. o \in Obj /\ o \in 0..MaxObj /\ o # NoObj
  <2>1. s.made \in 0..MaxObj
    BY Zenon DEF MRec
  <2> QED
    BY <2>1, SessionAssumption DEF Obj, NoObj
<1>2. /\ a \in MRec /\ Coherent(a) /\ a.id = s.id /\ a.uuid = r.uuid /\ a.default = NoObj
      /\ a.custom = s.custom /\ a.inst = s.inst
  BY AttachCoherent
<1>3. Connected(s, r, s.id, t) = c
  BY DEF Connected
<1> HIDE DEF a, o
<1>4. v \in 0..MaxObj
  <2>1. a.active[t] \in 0..MaxObj
    BY <1>2, Zenon DEF MRec
  <2> QED
    BY <1>1, <2>1
<1>5. n \in [id : Id \cup {NoId}, uuid : Uuid, open : BOOLEAN]
      /\ n.id = s.id /\ n.uuid = r.uuid /\ n.open
  BY Zenon DEF MRec, Resource
<1> HIDE DEF n, v
<1>6. /\ a.obj \in [Obj -> [id : Id \cup {NoId}, uuid : Uuid, open : BOOLEAN]]
      /\ a.active \in [Thread -> 0..MaxObj]
  BY <1>2, Zenon DEF MRec
<1>7. /\ [a.obj EXCEPT ![o] = n] \in [Obj -> [id : Id \cup {NoId}, uuid : Uuid,
                                              open : BOOLEAN]]
      /\ [a.active EXCEPT ![t] = v] \in [Thread -> 0..MaxObj]
  BY <1>4, <1>5, <1>6, Zenon
<1>8. /\ c \in MRec /\ c.id = a.id /\ c.uuid = a.uuid /\ c.custom = a.custom
      /\ c.default = o /\ c.made = o /\ c.inst = a.inst
      /\ c.obj = [a.obj EXCEPT ![o] = n]
  BY <1>1, <1>2, <1>7, ZenonT(60) DEF MRec
<1>9. c.obj[o] = n /\ \A p \in Obj : p # o => c.obj[p] = a.obj[p]
  BY <1>1, <1>6, <1>8, Zenon
<1> HIDE DEF c
<1>10. Coherent(c)
  <2>1. \A p \in Obj : ~a.obj[p].open
    BY <1>1, <1>2 DEF Coherent, Obj, NoObj
  <2> QED
    BY <1>1, <1>2, <1>5, <1>8, <1>9, <2>1 DEF Coherent, Owns
<1> QED
  BY <1>1, <1>2, <1>3, <1>8, <1>10 DEF o

-----------------------------------------------------------------------------
(* The call in progress. *)

\* A call that is over holds nothing.
LEMMA IdleCore ==
    ASSUME NEW s \in MRec, Coherent(s), NEW o \in 0..MaxObj
    PROVE  /\ Idle(o) \in CRec /\ Idle(o).pc = "idle" /\ Idle(o).creating = FALSE
           /\ Idle(o).req = Gen /\ Idle(o).resp = NoResource /\ Idle(o).ret = o
           /\ Core(s, Idle(o))
<1>1. (CHOOSE t \in Thread : TRUE) \in Thread
  BY SessionAssumption, Zenon
<1>2. /\ Gen \in Custom \cup {Gen} /\ 1 \in 1..(StartRetries + 1) /\ NoObj \in 0..MaxObj
      /\ 0 \in 0..MaxPolls /\ NoId \in Id \cup {NoId} /\ "none" \in Cont /\ "idle" \in Pc
  BY SessionAssumption DEF NoObj, Cont, Pc
<1>3. NoResource \in Resource
  BY SessionAssumption DEF NoResource, Resource, States, Uuid
<1>4. Idle(o) \in CRec /\ Idle(o).pc = "idle" /\ Idle(o).creating = FALSE
  BY <1>1, <1>2, <1>3, Zenon DEF Idle, CRec
<1>5. /\ Idle(o).req = Gen /\ Idle(o).resp = NoResource /\ Idle(o).ret = o
  BY DEF Idle
<1> QED
  BY <1>4, <1>5, SessionAssumption DEF Core, Phase, Named, Unanswered

\* An error or an interrupt ends the call.
LEMMA RaiseCore ==
    ASSUME NEW s \in MRec, Coherent(s), m' = s, Raise
    PROVE  Core(m', call')
<1>1. NoObj \in 0..MaxObj
  BY SessionAssumption DEF NoObj
<1> QED
  BY <1>1, IdleCore DEF Raise

\* The call goes on at another place, for the same request and session.
CallAt(c, d, pc) ==
    /\ d \in CRec /\ d.pc = pc
    /\ d.t = c.t /\ d.req = c.req /\ d.creating = c.creating
    /\ d.target = c.target /\ d.cont = c.cont /\ d.tid = c.tid /\ d.ret = c.ret

LEMMA GotoAt ==
    ASSUME NEW c \in CRec, NEW pc \in Pc
    PROVE  CallAt(c, [c EXCEPT !.pc = pc], pc) /\ [c EXCEPT !.pc = pc].resp = c.resp
BY ZenonT(60) DEF CallAt, CRec

LEMMA GotoRespAt ==
    ASSUME NEW c \in CRec, NEW pc \in Pc, NEW r \in Resource
    PROVE  /\ CallAt(c, [c EXCEPT !.pc = pc, !.resp = r], pc)
           /\ [c EXCEPT !.pc = pc, !.resp = r].resp = r
BY ZenonT(60) DEF CallAt, CRec

\* getOrCreate() returns the default session.
LEMMA ReturnCore ==
    ASSUME NEW s \in MRec, Coherent(s), s.default # NoObj, Return(s, s.default)
    PROVE  Core(m', call')
<1>1. s.default \in 0..MaxObj
  BY Zenon DEF MRec
<1> DEFINE r == [s EXCEPT !.default = s.default, !.inst = s.default]
<1>2. /\ r \in MRec /\ r.id = s.id /\ r.uuid = s.uuid /\ r.custom = s.custom
      /\ r.default = s.default /\ r.inst = s.default /\ r.obj = s.obj
  BY <1>1, ZenonT(60) DEF MRec
<1>3. m' = r /\ call' = Idle(s.default)
  BY DEF Return
<1> HIDE DEF r
<1>4. Coherent(r)
  BY <1>2 DEF Coherent, Owns
<1> QED
  BY <1>1, <1>2, <1>3, <1>4, IdleCore

\* What follows a stop().
LEMMA ContinueCore ==
    ASSUME NEW s \in MRec, Coherent(s), NEW c \in CRec, Unanswered(c), NEW cont,
           cont = "create" => s.default = NoObj,
           m' = s, Continue(c, cont)
    PROVE  Core(m', call')
<1>1. CASE cont # "create"
  <2>1. call' = Idle(NoObj)
    BY <1>1 DEF Continue
  <2> QED
    BY <2>1, RaiseCore DEF Raise
<1>2. CASE cont = "create"
  <2> DEFINE d == [c EXCEPT !.pc = "create", !.cont = "none", !.target = NoObj,
                            !.tid = NoId, !.polls = 0]
  <2>1. call' = d
    BY <1>2 DEF Continue
  <2>2. /\ "create" \in Pc /\ "none" \in Cont /\ NoObj \in 0..MaxObj
        /\ NoId \in Id \cup {NoId} /\ 0 \in 0..MaxPolls
    BY SessionAssumption DEF Pc, Cont, NoObj
  <2>3. d \in CRec /\ d.pc = "create" /\ d.req = c.req /\ d.ret = c.ret
    BY <2>2, ZenonT(60) DEF CRec
  <2> HIDE DEF d
  <2> QED
    BY <1>2, <2>1, <2>3 DEF Core, Phase, Named, Unanswered
<1> QED
  BY <1>1, <1>2

\* stop() up to its first RPC.
LEMMA BeginStopCore ==
    ASSUME NEW s \in MRec, Coherent(s), NEW c \in CRec, Unanswered(c), NEW o \in Obj,
           NEW terminate \in {"auto", "yes", "no"},
           NEW cont \in {"done", "asked", "create", "raise"},
           cont = "create" => o = s.default,
           terminate = "yes" => cont = "asked" \/ s.id \notin Custom,
           BeginStop(s, c, o, terminate, cont)
    PROVE  Core(m', call')
<1>1. c.t \in Thread /\ s.id \in Id \cup {NoId}
  BY Zenon DEF CRec, MRec
<1>2. CASE ShouldTerminate(s, o, terminate)
  <2> DEFINE d == [c EXCEPT !.pc = "terminate", !.cont = cont, !.target = o,
                            !.tid = s.id, !.polls = 0]
  <2>1. m' = s /\ call' = d
    BY <1>2, Zenon DEF BeginStop
  <2>2. /\ "terminate" \in Pc /\ cont \in Cont /\ o \in 0..MaxObj /\ 0 \in 0..MaxPolls
    BY SessionAssumption DEF Pc, Cont, Obj
  <2>3. /\ d \in CRec /\ d.pc = "terminate" /\ d.cont = cont /\ d.target = o
        /\ d.tid = s.id /\ d.req = c.req /\ d.ret = c.ret
    BY <1>1, <2>2, ZenonT(60) DEF CRec
  <2> HIDE DEF d
  <2>4. o = s.default /\ (terminate = "yes" \/ ~s.custom) /\ o # NoObj
    BY <1>2 DEF ShouldTerminate, Obj, NoObj
  <2>5. Named(d)
    BY <2>3, <2>4 DEF Named, Coherent
  <2> QED
    BY <2>1, <2>3, <2>4, <2>5 DEF Core, Phase, Unanswered
<1>3. CASE ~ShouldTerminate(s, o, terminate)
  <2>1. m' = StopLocal(s, o, c.t) /\ Continue(c, cont)
    BY <1>3, Zenon DEF BeginStop
  <2>2. /\ StopLocal(s, o, c.t) \in MRec /\ Coherent(StopLocal(s, o, c.t))
        /\ StopLocal(s, o, c.t).default = IF o = s.default THEN NoObj ELSE s.default
    BY <1>1, StopLocalCoherent
  <2> QED
    BY <2>1, <2>2, ContinueCore
<1> QED
  BY <1>2, <1>3

\* A session that did not start: another attempt, or the error.
LEMMA RetryCore ==
    ASSUME NEW s \in MRec, Coherent(s), s.default = NoObj, call \in CRec,
           Unanswered(call), m' = s, Retry
    PROVE  Core(m', call')
<1>1. CASE Raise
  BY <1>1, RaiseCore
<1>2. CASE ~Raise
  <2> DEFINE k == call.attempt + 1
             d == [call EXCEPT !.pc = "create", !.attempt = k, !.resp = NoResource,
                               !.target = NoObj]
  <2>1. call.attempt \in 1..(StartRetries + 1)
    BY Zenon DEF CRec
  <2>2. call.attempt <= StartRetries \/ call.attempt <= 0
    BY <1>2, Zenon DEF Retry
  <2>3. k \in 1..(StartRetries + 1)
    BY <2>1, <2>2, SessionAssumption
  <2>4. call' = d
    BY <1>2, Zenon DEF Retry
  <2>5. "create" \in Pc /\ NoObj \in 0..MaxObj /\ NoResource \in Resource
    BY SessionAssumption DEF Pc, NoObj, NoResource, Resource, States, Uuid
  <2> HIDE DEF k
  <2>6. d \in CRec /\ d.pc = "create" /\ d.req = call.req /\ d.ret = call.ret
    BY <2>3, <2>5, ZenonT(60) DEF CRec
  <2> HIDE DEF d
  <2> QED
    BY <2>4, <2>6 DEF Core, Phase, Named, Unanswered
<1> QED
  BY <1>1, <1>2

-----------------------------------------------------------------------------
(* The actions. *)

\* What is known of the state and the call in every reachable state.
LEMMA Known ==
    ASSUME IInv
    PROVE  /\ m \in MRec /\ Coherent(m) /\ call \in CRec /\ Phase(m, call) /\ Named(call)
           /\ m.id \in Id \cup {NoId} /\ m.default \in 0..MaxObj
           /\ m.default # NoObj => m.default \in Obj
           /\ call.t \in Thread /\ call.req \in Custom \cup {Gen}
           /\ call.resp \in Resource /\ call.target \in 0..MaxObj
           /\ call.cont \in Cont /\ call.tid \in Id \cup {NoId}
           /\ call.creating \in BOOLEAN /\ Unanswered(call)
           /\ InProcess(m, call.t) = m.default
           /\ srv \in [Id -> Resource] /\ uuids \in Uuid
           /\ told \subseteq Generated /\ letGo \subseteq Generated
<1>1. /\ m \in MRec /\ Coherent(m) /\ call \in CRec /\ Phase(m, call) /\ Named(call)
      /\ Aside
  BY Parts, Zenon DEF Core
<1>2. /\ m.id \in Id \cup {NoId} /\ m.default \in 0..MaxObj
      /\ call.t \in Thread /\ call.req \in Custom \cup {Gen}
      /\ call.resp \in Resource /\ call.target \in 0..MaxObj
      /\ call.cont \in Cont /\ call.tid \in Id \cup {NoId} /\ call.creating \in BOOLEAN
  BY <1>1, Zenon DEF MRec, CRec
<1>3. m.default # NoObj => m.default \in Obj
  BY <1>2 DEF Obj, NoObj
<1>4. InProcess(m, call.t) = m.default
  BY <1>1, <1>2, InProcessIsDefault
<1> QED
  BY <1>1, <1>2, <1>3, <1>4 DEF Aside, Phase

\* The id of a session that was found or is about to be created is taken over.
LEMMA TakeId ==
    ASSUME NEW s \in MRec, Coherent(s), NEW i \in Id, NEW b \in BOOLEAN,
           s.default # NoObj => s.id = i, ~b => i \notin Custom
    PROVE  /\ [s EXCEPT !.id = i, !.custom = b] \in MRec
           /\ Coherent([s EXCEPT !.id = i, !.custom = b])
           /\ [s EXCEPT !.id = i, !.custom = b].default = s.default
           /\ [s EXCEPT !.id = i, !.custom = b].id = i
           /\ [s EXCEPT !.id = i, !.custom = b].uuid = s.uuid
<1> DEFINE r == [s EXCEPT !.id = i, !.custom = b]
<1>1. i \in Id \cup {NoId}
  OBVIOUS
<1>2. /\ r \in MRec /\ r.id = i /\ r.custom = b /\ r.uuid = s.uuid
      /\ r.default = s.default /\ r.inst = s.inst /\ r.obj = s.obj
  BY <1>1, ZenonT(60) DEF MRec
<1> HIDE DEF r
<1>3. Coherent(r)
  <2>1. b \/ ~b
    OBVIOUS
  <2>2. ~r.custom => r.id \notin Custom
    BY <1>2, Zenon
  <2>3. i # NoId
    BY SessionAssumption DEF Id
  <2> QED
    BY <1>2, <2>2, <2>3 DEF Coherent, Owns
<1> QED
  BY <1>2, <1>3 DEF r

\* The in-process session, if there is one, is stopped locally.
LEMMA StopInProcess ==
    ASSUME IInv, m.default # NoObj
    PROVE  LET s == StopLocal(m, m.default, call.t)
           IN s \in MRec /\ Coherent(s) /\ s.default = NoObj
BY Known, StopLocalCoherent

LEMMA HandleFoundCore ==
    ASSUME IInv, call.pc = "lookup", NEW r \in Resource, HandleFound(r)
    PROVE  Core(m', call')
<1> DEFINE other == m.default # NoObj /\ (m.id # call.req \/ m.uuid # r.uuid)
           s == IF other THEN StopLocal(m, m.default, call.t) ELSE m
           k == IF r.st = "ACTIVE" THEN MarkActive(s, call.req) ELSE s
           p == IF r.st = "ACTIVE" THEN r ELSE NoResource
<1>1. /\ m' = [k EXCEPT !.id = call.req, !.custom = TRUE]
      /\ call' = [call EXCEPT !.pc = "reuse", !.resp = p]
  BY Known DEF HandleFound
<1>2. call.req \in Custom /\ call.req \in Id /\ ~call.creating
  BY Known DEF Phase, Id
<1>3. /\ s \in MRec /\ Coherent(s)
      /\ s.default # NoObj => s.id = call.req /\ s.uuid = r.uuid
  <2>1. CASE other
    BY <2>1, StopInProcess
  <2>2. CASE ~other
    BY <2>2, Known
  <2> QED
    BY <2>1, <2>2
<1> HIDE DEF s
<1>4. /\ k \in MRec /\ Coherent(k)
      /\ k.default # NoObj => k.id = call.req /\ k.uuid = r.uuid
  <2>1. Same(s, MarkActive(s, call.req))
    BY <1>3, VerdictSame
  <2>2. MarkActive(s, call.req) \in MRec /\ Coherent(MarkActive(s, call.req))
        /\ MarkActive(s, call.req).default = s.default
        /\ MarkActive(s, call.req).id = s.id
        /\ MarkActive(s, call.req).uuid = s.uuid
    BY <1>3, <2>1, SameCoherent DEF Same
  <2> QED
    BY <1>3, <2>2
<1> HIDE DEF k
<1>5. /\ m' \in MRec /\ Coherent(m') /\ m'.id = call.req
      /\ m'.default # NoObj => m'.uuid = r.uuid
  BY <1>1, <1>2, <1>4, TakeId
<1>6. p \in Resource /\ "reuse" \in Pc /\ p \in {r, NoResource}
  BY SessionAssumption DEF NoResource, Resource, States, Uuid, Pc
<1> HIDE DEF p
<1>7. CallAt(call, call', "reuse") /\ call'.resp = p
  BY <1>1, <1>6, Known, GotoRespAt
<1>8. Unanswered(call)
  BY Known
<1> QED
  BY <1>2, <1>5, <1>6, <1>7, <1>8 DEF Core, Phase, Named, CallAt, Unanswered

LEMMA HandleAbsentCore ==
    ASSUME IInv, call.pc \in {"lookup", "waitterm", "delete"}, HandleAbsent
    PROVE  Core(m', call')
<1> DEFINE s == IF m.default # NoObj THEN StopLocal(m, m.default, call.t) ELSE m
<1>1. m' = ClearId(s) /\ call' = [call EXCEPT !.pc = "reuse"]
  BY Known DEF HandleAbsent, Goto
<1>2. s \in MRec /\ Coherent(s) /\ s.default = NoObj
  BY Known, StopInProcess
<1> HIDE DEF s
<1>3. m' \in MRec /\ Coherent(m') /\ m'.id = NoId /\ m'.default = NoObj
  BY <1>1, <1>2, ClearIdCoherent
<1>4. CallAt(call, call', "reuse")
  BY <1>1, Known, GotoAt DEF Pc
<1>5. ~call.creating /\ Unanswered(call)
  BY Known DEF Phase
<1> QED
  BY <1>3, <1>4, <1>5 DEF Core, Phase, Named, CallAt, Unanswered

\* An interrupt leaves the class-level state as it is.
LEMMA InterruptedCore ==
    ASSUME IInv, Interrupted, m' = m
    PROVE  Core(m', call')
BY Known, RaiseCore DEF Interrupted

\* The lookup of a named session, the wait for its termination and its deletion.
LEMMA LookupCore ==
    ASSUME IInv, Lookup \/ WaitForTermination \/ DeleteSession
    PROVE  Core(m', call')
<1>1. ASSUME NEW pc \in {"waitterm", "delete"}, Goto(pc), m' = m,
             call.pc \in {"lookup", "waitterm", "delete"}
      PROVE  Core(m', call')
  <2>1. CallAt(call, call', pc)
    BY <1>1, Known, GotoAt DEF Goto, Pc
  <2>2. call.req \in Custom /\ ~call.creating /\ Unanswered(call)
    BY <1>1, Known DEF Phase
  <2>3. Phase(m, call')
    BY <1>1, <2>1, <2>2 DEF Phase, CallAt, Unanswered
  <2> QED
    BY <1>1, <2>1, <2>3, Known DEF Core, Named, CallAt
<1>2. CASE Lookup
  <2>1. call.req \in Id
    BY <1>2, Known DEF Lookup, Phase, Id
  <2>2. srv[call.req] \in Resource
    BY <2>1, Known
  <2>3. \/ HandleFound(srv[call.req]) \/ HandleAbsent
        \/ \E pc \in {"waitterm", "delete"} : Goto(pc) /\ m' = m
        \/ Interrupted /\ m' = m
    BY <1>2, Zenon DEF Lookup
  <2>4. call.pc = "lookup"
    BY <1>2 DEF Lookup
  <2> QED
    BY <1>1, <2>2, <2>3, <2>4, HandleFoundCore, HandleAbsentCore, InterruptedCore
<1>3. CASE WaitForTermination
  <2>1. \/ Goto("delete") /\ m' = m
        \/ HandleAbsent
        \/ Interrupted /\ m' = m
    BY <1>3, Zenon DEF WaitForTermination
  <2>2. call.pc = "waitterm"
    BY <1>3 DEF WaitForTermination
  <2> QED
    BY <1>1, <2>1, <2>2, HandleAbsentCore, InterruptedCore
<1>4. CASE DeleteSession
  <2>1. call.pc = "delete"
    BY <1>4, Zenon DEF DeleteSession
  <2>2. HandleAbsent \/ (Interrupted /\ UNCHANGED <<srv, m, letGo>>)
    BY <1>4 DEF DeleteSession
  <2>3. HandleAbsent \/ (Interrupted /\ m' = m)
    BY <2>2
  <2> QED
    BY <2>1, <2>3, HandleAbsentCore, InterruptedCore
<1> QED
  BY <1>2, <1>3, <1>4

\* A session that is still there is returned, or there is none in this process
\* and a new client will be attached.
LEMMA FoundCore ==
    ASSUME IInv, call.pc = "reuse", NEW s, Same(m, s), m.id # NoId,
           NEW r \in Resource, Found(s, r)
    PROVE  Core(m', call')
<1>0. s \in MRec /\ Coherent(s) /\ s.default = m.default /\ s.id = m.id
  BY Known, SameCoherent DEF Same
<1>1. InProcess(s, call.t) = s.default
  BY <1>0, Known, InProcessIsDefault
<1>2. CASE s.default # NoObj
  <2>1. Return(s, s.default)
    BY <1>1, <1>2 DEF Found
  <2> QED
    BY <1>0, <1>2, <2>1, ReturnCore
<1>3. CASE s.default = NoObj
  <2> DEFINE pc == IF HasEndpoint(r) THEN "connect" ELSE "waitep"
  <2>1. m' = s /\ call' = [call EXCEPT !.pc = pc, !.resp = r]
    BY <1>1, <1>3 DEF Found
  <2>2. pc \in {"connect", "waitep"} /\ pc \in Pc
    BY DEF Pc
  <2> HIDE DEF pc
  <2>3. CallAt(call, call', pc)
    BY <2>1, <2>2, Known, GotoRespAt
  <2>4. /\ ~call.creating /\ Unanswered(call)
        /\ call.req \in Custom => m.id = call.req
    BY Known DEF Phase
  <2> QED
    BY <1>0, <1>3, <2>1, <2>2, <2>3, <2>4 DEF Core, Phase, Named, CallAt, Unanswered
<1> QED
  BY <1>2, <1>3

\* A session that is gone is stopped, and one is created.
LEMMA GoneCore ==
    ASSUME IInv, call.pc = "reuse", NEW s, Same(m, s), Gone(s, m.default)
    PROVE  Core(m', call')
<1>0. s \in MRec /\ Coherent(s) /\ s.default = m.default
  BY Known, SameCoherent DEF Same
<1>1. CASE m.default = NoObj
  <2>1. m' = s /\ Goto("create")
    BY <1>1, Zenon DEF Gone
  <2>2. CallAt(call, call', "create")
    BY <2>1, Known, GotoAt DEF Goto, Pc
  <2> QED
    BY <1>0, <1>1, <2>1, <2>2, Known DEF Core, Phase, Named, CallAt, Unanswered
<1>2. CASE m.default # NoObj
  <2>1. BeginStop(s, call, m.default, "auto", "create")
    BY <1>2, Zenon DEF Gone
  <2> QED
    BY <1>0, <1>2, <2>1, Known, BeginStopCore
<1> QED
  BY <1>1, <1>2

LEMMA ReuseCore ==
    ASSUME IInv, Reuse
    PROVE  Core(m', call')
<1>0. call.pc = "reuse"
  BY DEF Reuse
<1>1. Same(m, m) /\ Same(m, MarkActive(m, m.id)) /\ Same(m, MarkDead(m, m.id))
  BY Known, VerdictSame
<1>2. CASE m.id = NoId /\ Gone(m, m.default)
  BY <1>0, <1>1, <1>2, GoneCore
<1>3. CASE m.id # NoId /\ Found(m, call.resp)
  BY <1>0, <1>1, <1>3, Known, FoundCore
<1>4. CASE m.id # NoId /\ CheckedGetSession
  <2>1. srv[m.id] \in Resource
    BY <1>4, Known
  <2>2. \/ \E s \in {m, MarkActive(m, m.id)} : Found(s, srv[m.id])
        \/ Gone(MarkDead(m, m.id), m.default)
    BY <1>4, Known DEF CheckedGetSession
  <2> QED
    BY <1>0, <1>1, <1>4, <2>1, <2>2, FoundCore, GoneCore
<1>5. CASE FailOpen
  <2>1. CASE m.default # NoObj
    <3>1. Return(m, m.default)
      BY <1>5, <2>1, Known DEF FailOpen, Return
    <3> QED
      BY <2>1, <3>1, Known, ReturnCore
  <2>2. CASE m.default = NoObj
    BY <1>5, <2>2, Known, RaiseCore DEF FailOpen
  <2> QED
    BY <2>1, <2>2
<1>6. CASE Interrupted /\ m' = m
  BY <1>6, InterruptedCore
<1> QED
  BY <1>2, <1>3, <1>4, <1>5, <1>6 DEF Reuse

\* A call that is making a session, for the rest of its RPCs.
LEMMA CreateCore ==
    ASSUME IInv, CreateSession \/ CreateRefused
    PROVE  Core(m', call')
<1>1. CASE CreateRefused
  BY <1>1, Known, RaiseCore DEF CreateRefused
<1>2. CASE CreateSession
  <2>0. call.pc = "create" /\ m.default = NoObj
    BY <1>2, Known DEF CreateSession, Phase
  <2>1. PICK i \in NewIds :
          LET s == [m EXCEPT !.id = i, !.custom = call.req # Gen]
          IN \/ m' = s /\ call' = [call EXCEPT !.pc = "waitcreate", !.creating = TRUE]
             \/ m' = ClearId(s) /\ Raise
             \/ m' = s /\ Raise
    BY <1>2, ZenonT(60) DEF CreateSession, Interrupted
  <2> DEFINE b == call.req # Gen
             s == [m EXCEPT !.id = i, !.custom = b]
             d == [call EXCEPT !.pc = "waitcreate", !.creating = TRUE]
  <2>2. /\ b \in BOOLEAN /\ i \in Id /\ (~b => i \in Generated) /\ (~b => i \notin Custom)
        /\ call.req \in Custom => i = call.req
    BY Known, SessionAssumption DEF NewIds, Id
  <2>3. \/ m' = s /\ call' = d
        \/ m' = ClearId(s) /\ Raise
        \/ m' = s /\ Raise
    BY <2>1, Zenon
  <2>4. b <=> call.req # Gen
    OBVIOUS
  <2> HIDE DEF b
  <2>5. s \in MRec /\ Coherent(s) /\ s.default = NoObj /\ s.id = i
    <3>1. m \in MRec /\ Coherent(m) /\ (m.default # NoObj => m.id = i)
      BY <2>0, Known, Zenon
    <3> QED
      BY <3>1, <2>0, <2>2, TakeId, ZenonT(60)
  <2> HIDE DEF s
  <2>6. /\ d \in CRec /\ d.pc = "waitcreate" /\ d.creating = TRUE /\ d.req = call.req
        /\ d.ret = call.ret
    <3>1. "waitcreate" \in Pc
      BY DEF Pc
    <3> QED
      BY <3>1, Known, ZenonT(60) DEF CRec
  <2> HIDE DEF d
  <2>7. CASE m' = s /\ call' = d
    <3>1. i # NoId
      BY <2>2, SessionAssumption DEF Id
    <3>2. Phase(s, d)
      BY <2>2, <2>4, <2>5, <2>6, <3>1, Known DEF Phase, Unanswered
    <3> QED
      BY <2>5, <2>6, <2>7, <3>2 DEF Core, Named
  <2>8. CASE m' = ClearId(s) /\ Raise
    BY <2>5, <2>8, ClearIdCoherent, RaiseCore
  <2>9. CASE m' = s /\ Raise
    BY <2>5, <2>9, RaiseCore
  <2> QED
    BY <2>3, <2>7, <2>8, <2>9
<1> QED
  BY <1>1, <1>2

\* Without a default session, the id and the file can be cleared.
LEMMA ClearBoth ==
    ASSUME IInv, m.default = NoObj
    PROVE  LET c == ClearId([m EXCEPT !.file = NoId])
           IN c \in MRec /\ Coherent(c) /\ c.default = NoObj
<1> DEFINE f == [m EXCEPT !.file = NoId]
<1>1. Same(m, f)
  BY Known, VerdictSame
<1> HIDE DEF f
<1>2. f \in MRec /\ Coherent(f) /\ f.default = NoObj
  BY <1>1, Known, SameCoherent DEF Same
<1>3. ClearId(f) \in MRec /\ Coherent(ClearId(f)) /\ ClearId(f).default = NoObj
  BY <1>2, ClearIdCoherent
<1> QED
  BY <1>3 DEF f

\* The call goes on to wait for an endpoint, or to connect.
LEMMA OnwardCore ==
    ASSUME IInv, call.pc \in {"waitcreate", "waitep"}, NEW s, Same(m, s),
           NEW pc \in {"connect", "waitep"}, NEW r \in Resource,
           m' = s, call' = [call EXCEPT !.pc = pc, !.resp = r]
    PROVE  Core(m', call')
<1>1. s \in MRec /\ Coherent(s) /\ s.default = m.default /\ s.id = m.id
  BY Known, SameCoherent DEF Same
<1>2. CallAt(call, call', pc)
  <2>1. call \in CRec /\ pc \in Pc
    BY Known DEF Pc
  <2> QED
    BY <2>1, GotoRespAt, Zenon
<1>3. Phase(m, call)
  BY Known
<1>4. Phase(s, call')
  BY <1>1, <1>2, <1>3 DEF Phase, CallAt, Unanswered
<1> QED
  BY <1>1, <1>2, <1>4 DEF Core, Named, CallAt

LEMMA WaitCreatedCore ==
    ASSUME IInv, WaitCreated
    PROVE  Core(m', call')
<1>0. call.pc = "waitcreate" /\ m.default = NoObj /\ m.id \in Id /\ call \in CRec
  BY Known DEF WaitCreated, Phase
<1>a. srv[m.id] \in Resource
  BY <1>0, Known
<1> DEFINE c == ClearId([m EXCEPT !.file = NoId])
           f == [m EXCEPT !.file = m.id]
           pc == IF HasEndpoint(srv[m.id]) THEN "connect" ELSE "waitep"
<1>1. \/ m' = c /\ Retry
      \/ m' = f /\ call' = [call EXCEPT !.pc = pc, !.resp = srv[m.id]]
      \/ m' = ClearId(m) /\ Raise
      \/ Interrupted /\ m' = m
  BY Zenon DEF WaitCreated
<1>2. CASE m' = c /\ Retry
  BY <1>0, <1>2, Known, ClearBoth, RetryCore
<1>3. CASE m' = f /\ call' = [call EXCEPT !.pc = pc, !.resp = srv[m.id]]
  <2>1. Same(m, f)
    <3>1. m.id \in Id \cup {NoId}
      BY <1>0
    <3> QED
      BY <3>1, Known, ZenonT(60) DEF Same, MRec
  <2>2. pc \in {"connect", "waitep"}
    OBVIOUS
  <2> HIDE DEF f, pc
  <2> QED
    BY <1>0, <1>a, <1>3, <2>1, <2>2, OnwardCore
<1>4. CASE m' = ClearId(m) /\ Raise
  BY <1>0, <1>4, Known, ClearIdCoherent, RaiseCore
<1>5. CASE Interrupted /\ m' = m
  BY <1>5, InterruptedCore
<1> QED
  BY <1>1, <1>2, <1>3, <1>4, <1>5

LEMMA WaitEndpointCore ==
    ASSUME IInv, WaitEndpoint
    PROVE  Core(m', call')
<1>0. call.pc = "waitep" /\ m.default = NoObj /\ m.id \in Id /\ call \in CRec
  BY Known DEF WaitEndpoint, Phase
<1>a. srv[m.id] \in Resource
  BY <1>0, Known
<1> DEFINE c == ClearId([m EXCEPT !.file = NoId])
           d == [call EXCEPT !.pc = "terminate", !.cont = "cleanup",
                             !.tid = m.id, !.polls = 0]
<1>1. \/ m' = m /\ call' = [call EXCEPT !.pc = "connect", !.resp = srv[m.id]]
      \/ m' = c /\ Retry
      \/ m' = m /\ Raise
      \/ m' = c /\ Raise
      \/ call.creating /\ call.req = Gen /\ m' = c /\ call' = d
  BY ZenonT(60) DEF WaitEndpoint
<1>2. CASE m' = m /\ call' = [call EXCEPT !.pc = "connect", !.resp = srv[m.id]]
  <2>1. Same(m, m)
    BY Known, VerdictSame
  <2> QED
    BY <1>0, <1>a, <1>2, <2>1, OnwardCore
<1>3. CASE m' = c /\ Retry
  BY <1>0, <1>3, Known, ClearBoth, RetryCore
<1>4. CASE m' = m /\ Raise
  BY <1>4, Known, RaiseCore
<1>5. CASE m' = c /\ Raise
  BY <1>0, <1>5, ClearBoth, RaiseCore
<1>6. CASE call.creating /\ call.req = Gen /\ m' = c /\ call' = d
  <2>1. m.id \in Generated /\ m.id \notin Custom
    BY <1>0, <1>6, Known, SessionAssumption DEF Phase
  <2>2. /\ d \in CRec /\ d.pc = "terminate" /\ d.cont = "cleanup" /\ d.tid = m.id
        /\ d.req = call.req
    <3>1. /\ "terminate" \in Pc /\ "cleanup" \in Cont /\ m.id \in Id \cup {NoId}
          /\ 0 \in 0..MaxPolls
      BY <1>0, SessionAssumption DEF Pc, Cont
    <3> QED
      BY <1>0, <3>1, ZenonT(60) DEF CRec
  <2>3. c \in MRec /\ Coherent(c) /\ c.default = NoObj
    BY <1>0, ClearBoth
  <2> HIDE DEF c, d
  <2> QED
    BY <1>6, <2>1, <2>2, <2>3, SessionAssumption DEF Core, Phase, Named, Unanswered
<1> QED
  BY <1>1, <1>2, <1>3, <1>4, <1>5, <1>6

LEMMA ConnectCore ==
    ASSUME IInv, Connect
    PROVE  Core(m', call')
<1>0. call.pc = "connect" /\ m.default = NoObj /\ m.id # NoId
  BY Known DEF Connect, Phase
<1> DEFINE s == Connected(m, call.resp, m.id, call.t)
           d == [call EXCEPT !.pc = "check", !.target = s.made]
<1>1. \/ m.made < MaxObj /\ call.creating /\ m' = s /\ call' = d
      \/ m.made < MaxObj /\ Return(s, s.made)
      \/ m' = Attach(m, call.resp, m.id) /\ Raise
  BY Zenon DEF Connect
<1>2. ASSUME m.made < MaxObj
      PROVE  /\ s \in MRec /\ Coherent(s) /\ s.default = s.made /\ s.made \in Obj
             /\ s.id = m.id /\ s.uuid = call.resp.uuid
  BY <1>0, <1>2, Known, ConnectedCoherent
<1> HIDE DEF s
<1>3. CASE m.made < MaxObj /\ call.creating /\ m' = s /\ call' = d
  <2>1. s.made \in 0..MaxObj /\ s.made # NoObj
    BY <1>2, <1>3, SessionAssumption DEF Obj, NoObj
  <2>2. /\ d \in CRec /\ d.pc = "check" /\ d.target = s.made
        /\ d.creating = call.creating /\ d.req = call.req
        /\ d.resp = call.resp /\ d.ret = call.ret
    <3>1. "check" \in Pc
      BY DEF Pc
    <3> QED
      BY <2>1, <3>1, Known, ZenonT(60) DEF CRec
  <2>3. /\ call.creating /\ call.req = Gen => m.id \in Generated
        /\ call.req \in Custom => m.id = call.req
        /\ Unanswered(call)
    BY <1>0, Known DEF Phase
  <2> HIDE DEF d
  <2>4. Phase(s, d)
    BY <1>0, <1>2, <1>3, <2>1, <2>2, <2>3 DEF Phase, Unanswered
  <2> QED
    BY <1>2, <1>3, <2>2, <2>4 DEF Core, Named
<1>4. CASE m.made < MaxObj /\ Return(s, s.made)
  <2>1. s.default # NoObj /\ Return(s, s.default)
    BY <1>2, <1>4 DEF Obj, NoObj
  <2> QED
    BY <1>2, <1>4, <2>1, ReturnCore
<1>5. CASE m' = Attach(m, call.resp, m.id) /\ Raise
  BY <1>0, <1>5, Known, AttachCoherent, RaiseCore
<1> QED
  BY <1>1, <1>3, <1>4, <1>5

LEMMA CheckCore ==
    ASSUME IInv, CheckNewSession
    PROVE  Core(m', call')
<1>0. /\ call.pc = "check" /\ m.default # NoObj /\ m.default \in Obj
      /\ call.target = m.default /\ call.creating
      /\ call.req = Gen => m.id \in Generated
  BY Known DEF CheckNewSession, Phase
<1> DEFINE dead == MarkDead(m, m.id)
           term == IF call.req = Gen THEN "yes" ELSE "no"
<1>1. \/ m' = StopLocal(dead, m.default, call.t) /\ Retry
      \/ \E s \in {m, MarkActive(m, m.id)} : Return(s, m.default)
      \/ BeginStop(m, call, m.default, term, "raise")
  BY <1>0 DEF CheckNewSession
<1>2. /\ Same(m, m) /\ Same(m, dead) /\ Same(m, MarkActive(m, m.id))
  BY Known, VerdictSame
<1>3. CASE m' = StopLocal(dead, m.default, call.t) /\ Retry
  <2>1. dead \in MRec /\ Coherent(dead) /\ dead.default = m.default
    BY <1>2, Known, SameCoherent DEF Same
  <2> HIDE DEF dead
  <2>2. m' \in MRec /\ Coherent(m') /\ m'.default = NoObj
    BY <1>0, <1>3, <2>1, Known, StopLocalCoherent
  <2> QED
    BY <1>3, <2>2, Known, RetryCore
<1>4. ASSUME NEW s \in {m, MarkActive(m, m.id)}, Return(s, m.default) PROVE Core(m', call')
  <2>1. s \in MRec /\ Coherent(s) /\ s.default = m.default
    BY <1>2, Known, SameCoherent DEF Same
  <2> QED
    BY <1>0, <1>4, <2>1, ReturnCore
<1>5. CASE BeginStop(m, call, m.default, term, "raise")
  <2>1. term \in {"auto", "yes", "no"} /\ (term = "yes" => m.id \notin Custom)
    BY <1>0, SessionAssumption
  <2> HIDE DEF term
  <2> QED
    BY <1>0, <1>5, <2>1, Known, BeginStopCore
<1> QED
  BY <1>1, <1>3, <1>4, <1>5

\* The end of a termination, however it went.
LEMMA TerminatedCore ==
    ASSUME IInv, call.pc \in {"terminate", "poll"}, NEW s, Same(m, s),
           TerminateDone(s) \/ TerminateFailed(s) \/ TerminateCutShort(s)
    PROVE  Core(m', call')
<1>1. s \in MRec /\ Coherent(s) /\ s.default = m.default
  BY Known, SameCoherent DEF Same
<1>2. Invalidate(s) \in MRec /\ Coherent(Invalidate(s))
  BY <1>1, VerdictSame, SameCoherent DEF Same
<1>3. CASE TerminateDone(s) /\ call.cont # "cleanup"
  <2>1. m' = StopLocal(s, call.target, call.t) /\ Continue(call, call.cont)
    BY <1>3, Zenon DEF TerminateDone
  <2>2. call.target = s.default /\ s.default \in Obj
    BY <1>1, <1>3, Known DEF Phase
  <2>3. m' \in MRec /\ Coherent(m') /\ m'.default = NoObj
    BY <1>1, <2>1, <2>2, Known, StopLocalCoherent
  <2> QED
    BY <2>1, <2>3, Known, ContinueCore
<1>4. CASE (m' = s \/ m' = Invalidate(s)) /\ Raise
  BY <1>1, <1>2, <1>4, RaiseCore
<1>5. CASE TerminateCutShort(s)
  <2>1. Same(s, m') /\ Raise
    BY <1>1, <1>5, CutShortSame
  <2>2. m' \in MRec /\ Coherent(m')
    BY <1>1, <2>1, SameCoherent DEF Same
  <2> QED
    BY <2>1, <2>2, RaiseCore
<1> QED
  BY <1>3, <1>4, <1>5 DEF TerminateDone, TerminateFailed

LEMMA TerminateCore ==
    ASSUME IInv, TerminateSession \/ TerminatePoll
    PROVE  Core(m', call')
<1>1. CASE TerminateSession
  <2> DEFINE s == MarkDead(m, call.tid)
  <2>0. call.pc = "terminate" /\ Same(m, s)
    BY <1>1, Known, VerdictSame DEF TerminateSession
  <2>1. \/ m' = s /\ Goto("poll")
        \/ TerminateDone(s) \/ TerminateFailed(s) \/ TerminateCutShort(s)
    BY <1>1, ZenonT(60) DEF TerminateSession
  <2> HIDE DEF s
  <2>2. CASE m' = s /\ Goto("poll")
    <3>1. CallAt(call, call', "poll")
      BY <2>2, Known, GotoAt DEF Goto, Pc
    <3>2. s \in MRec /\ Coherent(s) /\ s.default = m.default /\ s.id = m.id
      BY <2>0, Known, SameCoherent DEF Same
    <3>3. Phase(m, call) /\ Named(call)
      BY Known
    <3> QED
      BY <2>0, <2>2, <3>1, <3>2, <3>3 DEF Core, Phase, Named, CallAt, Unanswered
  <2> QED
    BY <2>0, <2>1, <2>2, TerminatedCore
<1>2. CASE TerminatePoll
  <2>0. call.pc = "poll" /\ Same(m, m)
    BY <1>2, Known, VerdictSame DEF TerminatePoll
  <2> DEFINE k == call.polls + 1
             d == [call EXCEPT !.polls = k]
  <2>1. \/ k < MaxPolls /\ m' = m /\ call' = d
        \/ TerminateDone(m) \/ TerminateFailed(m) \/ TerminateCutShort(m)
    BY <1>2, ZenonT(60) DEF TerminatePoll
  <2>2. CASE k < MaxPolls /\ m' = m /\ call' = d
    <3>1. k \in 0..MaxPolls
      <4>1. call.polls \in 0..MaxPolls
        BY Known, Zenon DEF CRec
      <4> QED
        BY <2>2, <4>1, SessionAssumption
    <3> HIDE DEF k
    <3>2. CallAt(call, d, "poll")
      BY <2>0, <3>1, Known, ZenonT(60) DEF CallAt, CRec
    <3> HIDE DEF d
    <3>3. Phase(m, call) /\ Named(call) /\ m \in MRec /\ Coherent(m)
      BY Known
    <3> QED
      BY <2>0, <2>2, <3>2, <3>3 DEF Core, Phase, Named, CallAt, Unanswered
  <2> QED
    BY <2>0, <2>1, <2>2, TerminatedCore
<1> QED
  BY <1>1, <1>2

\* The entries: getOrCreate() and stop().
LEMMA EntryCore ==
    ASSUME IInv, NEW t \in Thread,
           \/ \E r \in Custom \cup {Gen} : GetOrCreate(t, r)
           \/ \E o \in Obj, a \in {"auto", "yes", "no"} : Stop(t, o, a)
    PROVE  Core(m', call')
<1>0. NoObj \in 0..MaxObj
  BY SessionAssumption DEF NoObj
<1>a. /\ Idle(NoObj) \in CRec /\ Idle(NoObj).creating = FALSE /\ Idle(NoObj).req = Gen
      /\ Idle(NoObj).resp = NoResource /\ Idle(NoObj).ret = NoObj
  BY <1>0, Known, IdleCore
<1>1. ASSUME NEW r \in Custom \cup {Gen}, GetOrCreate(t, r) PROVE Core(m', call')
  <2> DEFINE c == Idle(NoObj)
             pc == IF r = Gen THEN "reuse" ELSE "lookup"
             d == [c EXCEPT !.pc = pc, !.t = t, !.req = r]
  <2>1. m' = m /\ call' = d
    BY <1>1, Zenon DEF GetOrCreate
  <2>2. /\ pc \in {"reuse", "lookup"} /\ pc \in Pc /\ (pc = "lookup" => r \in Custom)
        /\ pc = "reuse" => r \notin Custom
    BY SessionAssumption DEF Pc
  <2> HIDE DEF pc, c
  <2>3. /\ d \in CRec /\ d.pc = pc /\ d.req = r /\ d.creating = FALSE
        /\ d.resp = NoResource /\ d.ret = NoObj
    BY <1>a, <2>2, ZenonT(60) DEF CRec, c
  <2> HIDE DEF d
  <2> QED
    BY <2>1, <2>2, <2>3, Known DEF Core, Phase, Named, Unanswered
<1>2. ASSUME NEW o \in Obj, NEW a \in {"auto", "yes", "no"}, Stop(t, o, a)
      PROVE  Core(m', call')
  <2> DEFINE i == Idle(NoObj)
             c == [i EXCEPT !.t = t]
             cont == IF a = "yes" THEN "asked" ELSE "done"
  <2>1. BeginStop(m, c, o, a, cont)
    BY <1>2, Zenon DEF Stop
  <2>2. cont \in {"done", "asked", "create", "raise"} /\ (a = "yes" => cont = "asked")
        /\ cont # "create"
    OBVIOUS
  <2> HIDE DEF i, cont
  <2>3. c \in CRec /\ Unanswered(c)
    <3>1. c \in CRec /\ c.req = i.req /\ c.ret = i.ret
      BY <1>a, ZenonT(60) DEF CRec, i
    <3> QED
      BY <1>a, <3>1, SessionAssumption DEF Unanswered, i
  <2> HIDE DEF c
  <2> QED
    BY <2>1, <2>2, <2>3, Known, BeginStopCore
<1> QED
  BY <1>1, <1>2

-----------------------------------------------------------------------------

\* Generated ids are added to the two sets, and never taken out.
LEMMA SetsGrow ==
    ASSUME [Next]_vars
    PROVE  /\ told' = told \/ told' = told \cup ({call.tid} \cap Generated)
           /\ letGo' = letGo \/ \E i : LetGo(i)
<1>1. \/ told' = told
      \/ told' = told \cup ({call.tid} \cap Generated)
  BY ZenonT(60) DEF Next, CallStep, vars, GetOrCreate, Stop, Lookup, WaitForTermination,
     DeleteSession, Reuse, CreateSession, CreateRefused, WaitCreated, WaitEndpoint,
     Connect, CheckNewSession, TerminateSession, TerminatePoll, ServerStep, OtherClient,
     GuardVerdict
<1>2. letGo' = letGo \/ \E i : LetGo(i)
  <2>1. CASE Lookup \/ WaitForTermination \/ DeleteSession
    BY <2>1, ZenonT(60) DEF Lookup, WaitForTermination, DeleteSession, HandleFound,
       HandleAbsent
  <2>2. CASE Reuse
    BY <2>2, ZenonT(60) DEF Reuse, CheckedGetSession, Gone, BeginStop
  <2>3. CASE CreateSession \/ CreateRefused \/ WaitCreated \/ WaitEndpoint
    BY <2>3, ZenonT(60) DEF CreateSession, CreateRefused, WaitCreated, WaitEndpoint
  <2>4. CASE Connect \/ CheckNewSession
    BY <2>4, ZenonT(60) DEF Connect, CheckNewSession, BeginStop
  <2>5. CASE TerminateSession \/ TerminatePoll
    BY <2>5, ZenonT(60) DEF TerminateSession, TerminatePoll
  <2>6. ASSUME NEW t \in Thread,
               \/ \E r \in Custom \cup {Gen} : GetOrCreate(t, r)
               \/ \E o \in Obj, a \in {"auto", "yes", "no"} : Stop(t, o, a)
        PROVE  letGo' = letGo \/ \E i : LetGo(i)
    BY <2>6, ZenonT(60) DEF GetOrCreate, Stop, BeginStop
  <2>7. ASSUME NEW i \in Id, ServerStep(i) \/ OtherClient(i) PROVE letGo' = letGo
    BY <2>7, Zenon DEF ServerStep, OtherClient
  <2>8. CASE UNCHANGED vars \/ GuardVerdict
    BY <2>8, Zenon DEF vars, GuardVerdict
  <2> QED
    BY <2>1, <2>2, <2>3, <2>4, <2>5, <2>6, <2>7, <2>8 DEF Next, CallStep
<1> QED
  BY <1>1, <1>2

\* Dataproc's resources and the two sets keep their types.
LEMMA AsideStep == IInv /\ [Next]_vars => Aside'
<1> SUFFICES ASSUME IInv, [Next]_vars PROVE Aside'
  OBVIOUS
<1>0. /\ srv \in [Id -> Resource] /\ uuids \in Uuid
      /\ told \subseteq Generated /\ letGo \subseteq Generated
  BY Known
<1>1. told' \subseteq Generated /\ letGo' \subseteq Generated
  BY <1>0, SetsGrow DEF LetGo
<1>3. /\ \A i \in Id : srv[i] \in Resource
      /\ "NONE" \in States /\ "CREATING" \in States /\ "ACTIVE" \in States
      /\ "TERMINATING" \in States /\ "TERMINATED" \in States /\ "FAILED" \in States
  BY <1>0 DEF States
<1>4. ASSUME uuids < MaxUuid
      PROVE  /\ uuids + 1 \in Uuid
             /\ [st |-> "CREATING", uuid |-> uuids + 1, ep |-> FALSE] \in Resource
  <2>1. uuids + 1 \in Uuid
    BY <1>0, <1>4, SessionAssumption DEF Uuid
  <2> QED
    BY <1>3, <2>1, Zenon DEF Resource
<1>5. CASE DeleteSession
  <2>1. uuids' = uuids
    BY <1>5, Zenon DEF DeleteSession
  <2>2. srv' = srv \/ srv' = [srv EXCEPT ![call.req].st = "NONE", ![call.req].ep = FALSE]
    BY <1>5, ZenonT(60) DEF DeleteSession
  <2>3. srv' \in [Id -> Resource]
    <3>1. CASE srv' = srv
      BY <1>0, <3>1
    <3>2. CASE srv' = [srv EXCEPT ![call.req].st = "NONE", ![call.req].ep = FALSE]
      BY <1>0, <1>3, <3>2, ZenonT(60) DEF Resource
    <3> QED
      BY <2>2, <3>1, <3>2
  <2> QED
    BY <1>0, <1>1, <2>1, <2>3 DEF Aside
<1>6. CASE CreateSession
  <2>1. \/ srv' = srv /\ uuids' = uuids
        \/ /\ uuids < MaxUuid /\ uuids' = uuids + 1
           /\ \E i : srv' = [srv EXCEPT ![i] = [st |-> "CREATING", uuid |-> uuids + 1,
                                                ep |-> FALSE]]
    BY <1>6, ZenonT(60) DEF CreateSession
  <2> QED
    BY <1>0, <1>1, <1>4, <2>1, ZenonT(60) DEF Aside
<1>7. ASSUME NEW i \in Id, ServerStep(i) PROVE Aside'
  <2>1. uuids' = uuids
    BY <1>7 DEF ServerStep
  <2>2. \/ \E e \in BOOLEAN : srv' = [srv EXCEPT ![i].st = "ACTIVE", ![i].ep = e]
        \/ srv' = [srv EXCEPT ![i].ep = TRUE]
        \/ \E s \in {"TERMINATING", "FAILED", "TERMINATED"} :
              srv' = [srv EXCEPT ![i].st = s]
    BY <1>7, Zenon DEF ServerStep
  <2>3. srv' \in [Id -> Resource]
    <3>1. CASE \E e \in BOOLEAN : srv' = [srv EXCEPT ![i].st = "ACTIVE", ![i].ep = e]
      BY <1>0, <1>3, <3>1, ZenonT(60) DEF Resource
    <3>2. CASE srv' = [srv EXCEPT ![i].ep = TRUE]
      BY <1>0, <1>3, <3>2, ZenonT(60) DEF Resource
    <3>3. CASE \E s \in {"TERMINATING", "FAILED", "TERMINATED"} :
                 srv' = [srv EXCEPT ![i].st = s]
      BY <1>0, <1>3, <3>3, ZenonT(60) DEF Resource
    <3> QED
      BY <2>2, <3>1, <3>2, <3>3
  <2> QED
    BY <1>0, <1>1, <2>1, <2>3 DEF Aside
<1>8. ASSUME NEW i \in Id, OtherClient(i) PROVE Aside'
  <2>1. uuids' \in Uuid
    BY <1>0, <1>4, <1>8 DEF OtherClient
  <2>2. \/ srv' = [srv EXCEPT ![i].st = "NONE", ![i].ep = FALSE]
        \/ /\ uuids < MaxUuid
           /\ srv' = [srv EXCEPT ![i] = [st |-> "CREATING", uuid |-> uuids + 1, ep |-> FALSE]]
    BY <1>8, Zenon DEF OtherClient
  <2>3. srv' \in [Id -> Resource]
    BY <1>0, <1>3, <1>4, <2>2, ZenonT(60) DEF Resource
  <2> QED
    BY <1>1, <2>1, <2>3 DEF Aside
<1>9. CASE srv' = srv /\ uuids' = uuids
  BY <1>0, <1>1, <1>9 DEF Aside
<1>10. \/ DeleteSession \/ CreateSession
       \/ \E i \in Id : ServerStep(i) \/ OtherClient(i)
       \/ srv' = srv /\ uuids' = uuids
  BY ZenonT(60) DEF Next, CallStep, vars, GetOrCreate, Stop, Lookup, WaitForTermination,
     Reuse, CreateRefused, WaitCreated, WaitEndpoint,
     Connect, CheckNewSession, TerminateSession, TerminatePoll, GuardVerdict
<1> QED
  BY <1>5, <1>6, <1>7, <1>8, <1>9, <1>10

\* A guard's verdict leaves the call, and all but the verdicts, as they are.
LEMMA GuardSame ==
    ASSUME m \in MRec, GuardVerdict
    PROVE  /\ Same(m, m') /\ UNCHANGED <<srv, uuids, call, told, letGo>>
           /\ m' = [m EXCEPT !.live = m'.live]
           /\ \/ m'.live = [m.live EXCEPT ![m.id] = "active"]
              \/ m'.live = [m.live EXCEPT ![m.id] = "dead"] /\ ~Runs(m)
              \/ m'.live = [m.live EXCEPT ![m.id] = "overtaken"]
<1>1. PICK v \in {"active", "dead", "overtaken"} :
         m' = Mark(m, m.id, v) /\ (v = "dead" => ~Runs(m))
  BY Zenon DEF GuardVerdict, MarkActive, MarkDead
<1>2. v \in Verdicts
  BY DEF Verdicts, DeadVerdicts
<1>3. Same(m, m') /\ m'.live = [m.live EXCEPT ![m.id] = v]
  BY <1>1, <1>2, MarkSame
<1>4. m' = [m EXCEPT !.live = [m.live EXCEPT ![m.id] = v]]
  BY <1>1 DEF Mark
<1>5. UNCHANGED <<srv, uuids, call, told, letGo>>
  BY Zenon DEF GuardVerdict
<1>6. m' = [m EXCEPT !.live = m'.live]
  BY <1>3, <1>4, Zenon
<1> QED
  BY <1>1, <1>3, <1>5, <1>6

LEMMA GuardCore ==
    ASSUME IInv, GuardVerdict
    PROVE  Core(m', call')
<1>1. m \in MRec /\ Coherent(m) /\ call \in CRec /\ Phase(m, call) /\ Named(call)
  BY Known
<1>2. Same(m, m') /\ call' = call
  BY <1>1, GuardSame
<1>3. m' \in MRec /\ Coherent(m')
  BY <1>1, <1>2, SameCoherent DEF Same
<1>4. Phase(m', call)
  BY <1>1, <1>2 DEF Same, Phase
<1> QED
  BY <1>1, <1>2, <1>3, <1>4 DEF Core

\* Every initial state satisfies the inductive invariant.
LEMMA InitIInv == Init => IInv
<1> SUFFICES ASSUME Init PROVE IInv
  OBVIOUS
<1>1. /\ NoId \in Id \cup {NoId} /\ 0 \in Uuid /\ NoObj \in 0..MaxObj
      /\ NoObj \notin Obj /\ 0 \in 0..MaxObj
  BY SessionAssumption DEF Uuid, NoObj, Obj
<1>2. MInit \in MRec
  <2>1. [i \in Id |-> "none"] \in [Id -> Verdicts]
    BY DEF Verdicts
  <2>2. [t \in Thread |-> NoObj] \in [Thread -> 0..MaxObj]
    BY <1>1
  <2>3. [id |-> NoId, uuid |-> 0, open |-> FALSE] \in ORec
    BY <1>1, Zenon DEF ORec
  <2>4. [o \in Obj |-> [id |-> NoId, uuid |-> 0, open |-> FALSE]] \in [Obj -> ORec]
    BY <2>3
  <2> QED
    BY <1>1, <2>1, <2>2, <2>4, Zenon DEF MInit, MRec, ORec
<1>3. Coherent(MInit)
  BY SessionAssumption DEF MInit, Coherent, Owns
<1>4. Core(m, call)
  BY <1>1, <1>2, <1>3, IdleCore DEF Init
<1>5. Aside
  <2>1. NoResource \in Resource
    BY <1>1, Zenon DEF NoResource, Resource, States
  <2> QED
    BY <1>1, <2>1 DEF Init, Aside
<1> QED
  BY <1>4, <1>5, Parts

\* Every step keeps the inductive invariant.
LEMMA StepIInv == IInv /\ [Next]_vars => IInv'
<1> SUFFICES ASSUME IInv, [Next]_vars PROVE Core(m', call')
  <2>1. IInv' <=> Core(m', call') /\ Aside'
    BY Zenon DEF IInv, Core, Aside, TypeOK, MRec, CRec, Named, NamedOnlyOnRequest
  <2> QED
    BY <2>1, AsideStep
<1>1. CASE CallStep
  BY <1>1, LookupCore, ReuseCore, CreateCore, WaitCreatedCore, WaitEndpointCore,
     ConnectCore, CheckCore, TerminateCore DEF CallStep
<1>2. ASSUME NEW t \in Thread,
             \/ \E r \in Custom \cup {Gen} : GetOrCreate(t, r)
             \/ \E o \in Obj, a \in {"auto", "yes", "no"} : Stop(t, o, a)
      PROVE  Core(m', call')
  BY <1>2, EntryCore
<1>3. CASE m' = m /\ call' = call
  BY <1>3, Known DEF Core
<1>4. ASSUME NEW i \in Id, ServerStep(i) \/ OtherClient(i) PROVE m' = m /\ call' = call
  BY <1>4, Zenon DEF ServerStep, OtherClient
<1>5. CASE GuardVerdict
  BY <1>5, GuardCore
<1>6. CASE UNCHANGED vars
  BY <1>3, <1>6 DEF vars
<1> QED
  BY <1>1, <1>2, <1>3, <1>4, <1>5, <1>6 DEF Next

\* The inductive invariant holds in every reachable state.
LEMMA Inductive == Spec => []IInv
BY InitIInv, StepIInv, PTL DEF Spec

\* The class-level state, the call in progress and Dataproc's resources keep their
\* types through every step of getOrCreate() and stop().
THEOREM TypeCorrect == Spec => []TypeOK
<1>1. IInv => TypeOK
  BY DEF IInv
<1> QED
  BY <1>1, Inductive, PTL

\* Whatever fails or is interrupted, the only session object that is open is the
\* default session, and every reference to a session is to that one.
THEOREM OneIsOpen == Spec => []OneOpenSession
<1>1. IInv => OneOpenSession
  BY DEF IInv, Coherent, OneOpenSession
<1> QED
  BY <1>1, Inductive, PTL

\* The id and uuid of the class are those of its default session whenever no call
\* is in progress: stop() terminates the session it is called for.
THEOREM OwnsItsId == Spec => []DefaultOwnsId
<1>1. IInv => DefaultOwnsId
  BY DEF IInv, Coherent, Owns, DefaultOwnsId
<1> QED
  BY <1>1, Inductive, PTL

\* A session somebody named is terminated by stop(terminate=True) only, on
\* whatever path a termination is reached.
THEOREM NamedIsSafe == Spec => []NamedOnlyOnRequest
<1>1. IInv => NamedOnlyOnRequest
  BY DEF IInv
<1> QED
  BY <1>1, Inductive, PTL

-----------------------------------------------------------------------------
(* What getOrCreate() returns for a named session. *)

\* The default session of an unchanged class-level state is returned.
Returned(s) == Same(m, s) /\ s.default # NoObj /\ Return(s, s.default)

\* A call for a named session goes on for the same name, or fails, or returns.
LEMMA AnswerCases ==
    ASSUME IInv, CallStep, call.req \in Custom
    PROVE  \/ call'.req = call.req
           \/ Raise
           \/ /\ call.pc = "reuse" /\ m.id # NoId
              /\ \E s : Returned(s)
           \/ /\ call.pc = "connect" /\ m.made < MaxObj
              /\ LET s == Connected(m, call.resp, m.id, call.t) IN Return(s, s.made)
           \/ call.pc = "check" /\ \E s : Returned(s)
<1>0. /\ call \in CRec /\ Same(m, m) /\ Same(m, MarkActive(m, m.id))
      /\ Same(m, MarkDead(m, m.id)) /\ InProcess(m, call.t) = m.default
      /\ call.t \in Thread
  BY Known, VerdictSame
<1>b. ASSUME NEW cont, Continue(call, cont) PROVE call'.req = call.req \/ Raise
  BY <1>0, <1>b, ZenonT(60) DEF CRec, Continue, Raise
<1>c. ASSUME NEW s, NEW o, NEW a, NEW cont, BeginStop(s, call, o, a, cont)
      PROVE  call'.req = call.req \/ Raise
  BY <1>0, <1>b, <1>c, ZenonT(60) DEF CRec, BeginStop
<1>d. Retry => call'.req = call.req \/ Raise
  <2>1. DEFINE k == call.attempt + 1
  <2>2. Retry => Raise \/ call' = [call EXCEPT !.pc = "create", !.attempt = k,
                                     !.resp = NoResource, !.target = NoObj]
    BY Zenon DEF Retry
  <2> QED
    BY <1>0, <2>2, ZenonT(60) DEF CRec
<1>1. CASE Lookup \/ WaitForTermination \/ DeleteSession
  BY <1>0, <1>1, ZenonT(60) DEF CRec, Lookup, WaitForTermination, DeleteSession, HandleFound,
     HandleAbsent, Goto, Interrupted
<1>2. CASE Reuse
  <2>1. ASSUME NEW s, Same(m, s), NEW res, m.id # NoId, Found(s, res)
        PROVE  call'.req = call.req \/ (m.id # NoId /\ \E q : Returned(q))
    <3>1. InProcess(s, call.t) = s.default
      BY <1>0, <2>1, Known, SameCoherent, InProcessIsDefault DEF Same
    <3> QED
      BY <1>0, <2>1, <3>1, ZenonT(60) DEF CRec, Found, Returned
  <2>2. ASSUME NEW s, NEW o, Gone(s, o) PROVE call'.req = call.req \/ Raise
    BY <1>0, <1>c, <2>2, ZenonT(60) DEF CRec, Gone, Goto
  <2>3. CASE m.id # NoId /\ FailOpen
    <3>1. FailOpen => Raise \/ (m.default # NoObj /\ Return(m, m.default))
      BY <1>0, Zenon DEF FailOpen, Return
    <3> QED
      BY <1>0, <1>2, <2>3, <3>1, Zenon DEF Reuse, Returned
  <2>4. CASE m.id # NoId /\ CheckedGetSession
    <3>1. \/ \E s \in {m, MarkActive(m, m.id)} : Found(s, srv[m.id])
          \/ Gone(MarkDead(m, m.id), m.default)
      BY <1>0, <2>4 DEF CheckedGetSession
    <3> QED
      BY <1>0, <1>2, <2>1, <2>2, <2>4, <3>1 DEF Reuse
  <2>5. \/ Gone(m, m.default)
        \/ m.id # NoId /\ Found(m, call.resp)
        \/ m.id # NoId /\ CheckedGetSession
        \/ m.id # NoId /\ FailOpen
        \/ Raise
    BY <1>2, Zenon DEF Reuse, Interrupted
  <2> QED
    <3>1. call.pc = "reuse"
      BY <1>2 DEF Reuse
    <3> QED
      BY <1>0, <2>1, <2>2, <2>3, <2>4, <2>5, <3>1
<1>3. CASE CreateSession \/ CreateRefused
  BY <1>0, <1>3, ZenonT(60) DEF CRec, CreateSession, CreateRefused, Interrupted
<1>4. CASE WaitCreated \/ WaitEndpoint
  BY <1>0, <1>4, <1>d, ZenonT(60) DEF CRec, WaitCreated, WaitEndpoint, Interrupted
<1>5. CASE Connect
  BY <1>0, <1>5, ZenonT(60) DEF CRec, Connect
<1>6. CASE CheckNewSession
  <2>1. m.default # NoObj /\ call.target = m.default /\ call.pc = "check"
    BY <1>6, Known DEF CheckNewSession, Phase
  <2>2. \/ Retry
        \/ \E s \in {m, MarkActive(m, m.id)} : Return(s, m.default)
        \/ \E a : BeginStop(m, call, m.default, a, "raise")
    BY <1>6, <2>1 DEF CheckNewSession
  <2> QED
    BY <1>0, <1>c, <1>d, <2>1, <2>2 DEF Returned, Same
<1>7. CASE TerminateSession \/ TerminatePoll
  BY <1>0, <1>7, <1>b, ZenonT(60) DEF CRec, TerminateSession, TerminatePoll, TerminateDone,
     TerminateFailed, TerminateCutShort, Interrupted, Goto
<1> QED
  BY <1>1, <1>2, <1>3, <1>4, <1>5, <1>6, <1>7 DEF CallStep

\* Whatever path a call for a named session takes, what it returns is attached to
\* that name and to the incarnation the lookup saw.
LEMMA CurrentStep ==
    ASSUME IInv, IInv', [Next]_vars, call.req \in Custom, call'.ret # NoObj
    PROVE  LET r == m'.obj[call'.ret]
           IN r.id = call.req /\ (call.resp # NoResource => r.uuid = call.resp.uuid)
<1>1. Unanswered(call) /\ call.pc # "idle" /\ call'.req # call.req
  <2>1. Unanswered(call)'
    BY DEF IInv, Phase, Unanswered
  <2> QED
    BY <2>1, Known DEF Unanswered
<1>2. ~Raise
  <2>1. NoObj \in 0..MaxObj
    BY SessionAssumption DEF NoObj
  <2> QED
    BY <2>1, Known, IdleCore DEF Raise
<1>3. CallStep
  <2>1. call' # call
    BY <1>1
  <2>2. ~GuardVerdict /\ \A i \in Id : ~ServerStep(i) /\ ~OtherClient(i)
    BY <2>1, Zenon DEF ServerStep, OtherClient, GuardVerdict
  <2>3. \A t \in Thread : /\ \A r \in Custom \cup {Gen} : ~GetOrCreate(t, r)
                          /\ \A o \in Obj, a \in {"auto", "yes", "no"} : ~Stop(t, o, a)
    BY <1>1, Zenon DEF GetOrCreate, Stop
  <2> QED
    BY <2>1, <2>2, <2>3 DEF Next, vars
<1>4. ASSUME NEW s, NEW o, Return(s, o) PROVE call'.ret = o /\ m'.obj = s.obj
  <2>1. call' = Idle(o) /\ m' = [s EXCEPT !.default = o, !.inst = o]
    BY <1>4 DEF Return
  <2> QED
    BY <2>1 DEF Idle
<1>5. ASSUME NEW s, Returned(s)
      PROVE  m'.obj[call'.ret].id = m.id /\ m'.obj[call'.ret].uuid = m.uuid
  BY <1>4, <1>5, Known DEF Returned, Same, Coherent, Owns
<1>6. CASE call.pc = "reuse" /\ m.id # NoId /\ \E s : Returned(s)
  BY <1>5, <1>6, Known DEF Phase, Returned, Same
<1>7. CASE call.pc = "check" /\ \E s : Returned(s)
  BY <1>5, <1>7, Known DEF Phase
<1>8. CASE /\ call.pc = "connect" /\ m.made < MaxObj
           /\ LET s == Connected(m, call.resp, m.id, call.t) IN Return(s, s.made)
  <2> DEFINE s == Connected(m, call.resp, m.id, call.t)
  <2>1. m.default = NoObj /\ m.id # NoId /\ m.id = call.req
    BY <1>8, Known DEF Phase
  <2>2. /\ Coherent(s) /\ s.default = s.made /\ s.made # NoObj
        /\ s.id = m.id /\ s.uuid = call.resp.uuid
    BY <1>8, <2>1, Known, ConnectedCoherent DEF Obj, NoObj
  <2> HIDE DEF s
  <2>3. call'.ret = s.made /\ m'.obj = s.obj
    BY <1>4, <1>8 DEF s
  <2> QED
    BY <2>1, <2>2, <2>3 DEF Coherent, Owns
<1> QED
  BY <1>1, <1>2, <1>3, <1>6, <1>7, <1>8, AnswerCases

\* getOrCreate() with sessionId() returns a session attached to that id, and not
\* to an earlier incarnation than it looked up: also after a wait, a deletion, a
\* retry, or the end of the session it had found.
THEOREM NamedAttachesCurrent == Spec => NamedIsCurrent
<1> DEFINE A == call.req \in Custom /\ call'.ret # NoObj
                  => LET r == m'.obj[call'.ret]
                     IN r.id = call.req /\ (call.resp # NoResource => r.uuid = call.resp.uuid)
<1>1. IInv /\ IInv' /\ [Next]_vars => [A]_vars
  BY CurrentStep
<1>2. Spec => [][A]_vars
  BY <1>1, Inductive, PTL DEF Spec
<1> QED
  BY <1>2 DEF NamedIsCurrent

-----------------------------------------------------------------------------
(* The verdict about the default session. *)

\* What the steps do to the verdicts.
LEMMA LiveEffect ==
    ASSUME NEW s \in MRec, NEW i \in Id
    PROVE  /\ MarkActive(s, i).live[i] = "active" /\ MarkActive(s, i).id = s.id
           /\ MarkActive(s, i).default = s.default
           /\ Invalidate(s).live[i] = "none" /\ Invalidate(s).id = s.id
<1>1. s.live \in [Id -> Verdicts]
  BY Zenon DEF MRec
<1>2. [s.live EXCEPT ![i] = "active"][i] = "active"
  BY <1>1, Zenon
<1>3. MarkActive(s, i).live = [s.live EXCEPT ![i] = "active"]
  <2>1. "active" \in Verdicts
    BY DEF Verdicts
  <2> QED
    BY <2>1, MarkSame DEF MarkActive
<1>4. Invalidate(s).live = [j \in Id |-> "none"]
  BY ZenonT(60) DEF Invalidate, MRec
<1>5. MarkActive(s, i).id = s.id /\ MarkActive(s, i).default = s.default
  <2>1. Same(s, MarkActive(s, i))
    BY VerdictSame
  <2> QED
    BY <2>1, Zenon DEF Same
<1>6. Invalidate(s).id = s.id
  <2>1. Same(s, Invalidate(s))
    BY VerdictSame
  <2> QED
    BY <2>1, Zenon DEF Same
<1> QED
  BY <1>2, <1>3, <1>4, <1>5, <1>6

\* A new client's session is alive.
LEMMA ConnectedLive ==
    ASSUME NEW s \in MRec, NEW r \in Resource, NEW i \in Id, NEW t \in Thread
    PROVE  Connected(s, r, i, t).live[i] = "active"
<1> DEFINE u == [s EXCEPT !.uuid = r.uuid]
           a == Attach(s, r, i)
           o == s.made + 1
           n == [id |-> i, uuid |-> r.uuid, open |-> TRUE]
           v == IF a.active[t] = NoObj THEN o ELSE a.active[t]
           c == [a EXCEPT !.made = o, !.obj[o] = n, !.default = o, !.active[t] = v]
<1>1. u \in MRec
  <2>1. r.uuid \in Uuid
    BY Zenon DEF Resource
  <2> QED
    BY <2>1, ZenonT(60) DEF MRec
<1>2. a = MarkActive(u, i)
  BY DEF Attach
<1>3. Connected(s, r, i, t) = c
  BY DEF Connected
<1> HIDE DEF u, a, o, n, v
<1>4. a.live[i] = "active" /\ a \in MRec
  <2>1. MarkActive(u, i).live[i] = "active"
    BY <1>1, LiveEffect
  <2>2. MarkActive(u, i) \in MRec
    BY <1>1, VerdictSame DEF Same
  <2> QED
    BY <1>2, <2>1, <2>2
<1>5. c.live = a.live
  BY <1>4, ZenonT(60) DEF MRec
<1> QED
  BY <1>3, <1>4, <1>5

\* Closing another object than the default session changes no verdict.
LEMMA StopLocalLive ==
    ASSUME NEW s \in MRec, NEW o, NEW t, o # s.default
    PROVE  StopLocal(s, o, t).live = s.live
<1>1. StopLocal(s, o, t) = [s EXCEPT !.obj[o].open = FALSE,
                                     !.active[t] = IF s.active[t] = o THEN NoObj
                                                   ELSE s.active[t]]
  BY DEF StopLocal
<1> QED
  BY <1>1, Zenon DEF MRec

\* The incarnation u of the server session i is not running.
Over(i, u) == ~(srv[i].uuid = u /\ Alive(srv[i]))

\* No incarnation is of the future; and outside a termination, what is recorded dead
\* of the default session is not running.
Fresh ==
    m.default # NoObj =>
        /\ m.uuid <= uuids
        /\ call.pc \notin {"terminate", "poll"} /\ m.live[m.id] = "dead" => Over(m.id, m.uuid)

Present == call.resp.uuid <= uuids /\ \A i \in Id : srv[i].uuid <= uuids

\* Dataproc's resources only end, or start as a new incarnation.
LEMMA ServerMoves ==
    ASSUME IInv, [Next]_vars, NEW j \in Id
    PROVE  \/ srv'[j].uuid = srv[j].uuid /\ (Alive(srv'[j]) => Alive(srv[j]))
           \/ srv'[j].uuid = uuids + 1 /\ uuids' = uuids + 1
<1>0. srv \in [Id -> Resource] /\ srv[j] \in Resource
  BY Known
<1>1. CASE srv' = srv
  BY <1>1
<1>2. ASSUME NEW i, srv' = [srv EXCEPT ![i].st = "NONE", ![i].ep = FALSE]
      PROVE  srv'[j].uuid = srv[j].uuid /\ (Alive(srv'[j]) => Alive(srv[j]))
  <2>1. CASE i = j
    <3>1. srv'[j].st = "NONE" /\ srv'[j].uuid = srv[j].uuid
      BY <1>0, <1>2, <2>1, ZenonT(60) DEF Resource
    <3> QED
      BY <3>1 DEF Alive
  <2>2. CASE i # j
    <3>1. srv'[j] = srv[j]
      BY <1>0, <1>2, <2>2, ZenonT(60)
    <3> QED
      BY <3>1
  <2> QED
    BY <2>1, <2>2
<1>3. ASSUME NEW i,
             uuids' = uuids + 1,
             srv' = [srv EXCEPT ![i] = [st |-> "CREATING", uuid |-> uuids + 1, ep |-> FALSE]]
      PROVE  \/ srv'[j].uuid = srv[j].uuid /\ (Alive(srv'[j]) => Alive(srv[j]))
             \/ srv'[j].uuid = uuids + 1 /\ uuids' = uuids + 1
  <2>1. CASE i = j
    <3>1. srv'[j] = [st |-> "CREATING", uuid |-> uuids + 1, ep |-> FALSE]
      BY <1>0, <1>3, <2>1, Zenon
    <3> QED
      BY <1>3, <3>1
  <2>2. CASE i # j
    <3>1. srv'[j] = srv[j]
      BY <1>0, <1>3, <2>2, ZenonT(60)
    <3> QED
      BY <3>1
  <2> QED
    BY <2>1, <2>2
<1>4. CASE DeleteSession
  <2>1. srv' = srv \/ srv' = [srv EXCEPT ![call.req].st = "NONE", ![call.req].ep = FALSE]
    BY <1>4, ZenonT(60) DEF DeleteSession
  <2> QED
    BY <1>1, <1>2, <2>1
<1>5. CASE CreateSession
  <2>1. \/ srv' = srv
        \/ /\ uuids' = uuids + 1
           /\ \E i : srv' = [srv EXCEPT ![i] = [st |-> "CREATING", uuid |-> uuids + 1,
                                                ep |-> FALSE]]
    BY <1>5, ZenonT(60) DEF CreateSession
  <2> QED
    BY <1>1, <1>3, <2>1
<1>6. ASSUME NEW i \in Id, ServerStep(i)
      PROVE  srv'[j].uuid = srv[j].uuid /\ (Alive(srv'[j]) => Alive(srv[j]))
  <2>1. CASE i # j
    <3>1. srv'[j] = srv[j]
      BY <1>0, <1>6, <2>1, ZenonT(60) DEF ServerStep
    <3> QED
      BY <3>1
  <2>2. CASE i = j
    <3>1. \/ \E e \in BOOLEAN : srv' = [srv EXCEPT ![j].st = "ACTIVE", ![j].ep = e]
          \/ srv' = [srv EXCEPT ![j].ep = TRUE]
          \/ \E s \in {"TERMINATING", "FAILED", "TERMINATED"} : srv' = [srv EXCEPT ![j].st = s]
      BY <1>6, <2>2, Zenon DEF ServerStep
    <3>2. srv'[j].uuid = srv[j].uuid
      <4>1. CASE \E e \in BOOLEAN : srv' = [srv EXCEPT ![j].st = "ACTIVE", ![j].ep = e]
        BY <1>0, <4>1, ZenonT(60) DEF Resource
      <4>2. CASE srv' = [srv EXCEPT ![j].ep = TRUE]
        BY <1>0, <4>2, ZenonT(60) DEF Resource
      <4>3. CASE \E s \in {"TERMINATING", "FAILED", "TERMINATED"} :
                   srv' = [srv EXCEPT ![j].st = s]
        BY <1>0, <4>3, ZenonT(60) DEF Resource
      <4> QED
        BY <3>1, <4>1, <4>2, <4>3
    <3>3. CASE Alive(srv[j])
      BY <3>2, <3>3
    <3>4. CASE ~Alive(srv[j])
      <4>1. srv[j].st \notin {"CREATING", "ACTIVE"}
        BY <3>4 DEF Alive
      <4>2. PICK s \in {"FAILED", "TERMINATED"} : srv' = [srv EXCEPT ![j].st = s]
        BY <1>6, <2>2, <4>1, Zenon DEF ServerStep
      <4>3. srv'[j].st = s
        BY <1>0, <4>2, ZenonT(60) DEF Resource
      <4> QED
        BY <3>2, <4>3 DEF Alive
    <3> QED
      BY <3>3, <3>4
  <2> QED
    BY <2>1, <2>2
<1>7. ASSUME NEW i \in Id, OtherClient(i)
      PROVE  \/ srv'[j].uuid = srv[j].uuid /\ (Alive(srv'[j]) => Alive(srv[j]))
             \/ srv'[j].uuid = uuids + 1 /\ uuids' = uuids + 1
  <2>1. \/ srv' = [srv EXCEPT ![i].st = "NONE", ![i].ep = FALSE]
        \/ /\ uuids' = uuids + 1
           /\ srv' = [srv EXCEPT ![i] = [st |-> "CREATING", uuid |-> uuids + 1, ep |-> FALSE]]
    BY <1>7, Zenon DEF OtherClient
  <2> QED
    BY <1>2, <1>3, <2>1
<1>8. \/ DeleteSession \/ CreateSession
      \/ \E i \in Id : ServerStep(i) \/ OtherClient(i)
      \/ srv' = srv
  BY ZenonT(60) DEF Next, CallStep, vars, GetOrCreate, Stop, Lookup, WaitForTermination,
     Reuse, CreateRefused, WaitCreated, WaitEndpoint,
     Connect, CheckNewSession, TerminateSession, TerminatePoll, GuardVerdict
<1> QED
  BY <1>1, <1>4, <1>5, <1>6, <1>7, <1>8

\* Incarnations are only ever added.
LEMMA UuidsGrow ==
    ASSUME IInv, [Next]_vars
    PROVE  uuids \in Nat /\ uuids' \in Nat /\ uuids <= uuids'
<1>1. uuids \in Nat
  BY Known DEF Uuid
<1>2. uuids' = uuids \/ uuids' = uuids + 1
  BY ZenonT(60) DEF Next, CallStep, vars, GetOrCreate, Stop, Lookup, WaitForTermination,
     DeleteSession, Reuse, CreateSession, CreateRefused, WaitCreated, WaitEndpoint,
     Connect, CheckNewSession, TerminateSession, TerminatePoll, ServerStep, OtherClient,
     GuardVerdict
<1> QED
  BY <1>1, <1>2

\* What is over stays over.
LEMMA StaysOver ==
    ASSUME IInv, [Next]_vars, Present, NEW i \in Id, NEW u \in Uuid, u <= uuids, Over(i, u)
    PROVE  ~(srv'[i].uuid = u /\ Alive(srv'[i]))
<1>1. u \in Nat /\ uuids \in Nat
  BY UuidsGrow DEF Uuid
<1> QED
  BY <1>1, ServerMoves DEF Over

\* The responses a call keeps are Dataproc's.
LEMMA RespMoves ==
    ASSUME IInv, [Next]_vars
    PROVE  \/ call'.resp \in {call.resp, NoResource}
           \/ \E i \in Id : call'.resp = srv[i]
<1>0. call \in CRec /\ call.resp \in Resource /\ m.id \in Id \cup {NoId}
  BY Known
<1>a. \A o : Idle(o).resp = NoResource
  BY DEF Idle
<1>b. Raise => call'.resp = NoResource
  BY <1>a DEF Raise
<1>c. \A pc : Goto(pc) => call'.resp = call.resp
  BY <1>0, ZenonT(60) DEF Goto, CRec
<1>d. \A c \in CRec : \A cont : Continue(c, cont) => call'.resp \in {c.resp, NoResource}
  BY <1>a, ZenonT(60) DEF Continue, CRec
<1>e. ASSUME NEW s, NEW c \in CRec, NEW o, NEW a, NEW cont, BeginStop(s, c, o, a, cont)
      PROVE  call'.resp \in {c.resp, NoResource}
  <2>1. CASE ShouldTerminate(s, o, a)
    <3>1. call' = [c EXCEPT !.pc = "terminate", !.cont = cont, !.target = o,
                            !.tid = s.id, !.polls = 0]
      BY <1>e, <2>1, Zenon DEF BeginStop
    <3> QED
      BY <3>1, ZenonT(60) DEF CRec
  <2>2. CASE ~ShouldTerminate(s, o, a)
    BY <1>d, <1>e, <2>2 DEF BeginStop
  <2> QED
    BY <2>1, <2>2
<1>f. Retry => call'.resp = NoResource
  <2> DEFINE k == call.attempt + 1
  <2>1. Retry => Raise \/ call' = [call EXCEPT !.pc = "create", !.attempt = k,
                                               !.resp = NoResource, !.target = NoObj]
    BY Zenon DEF Retry
  <2> QED
    BY <1>0, <1>b, <2>1, ZenonT(60) DEF CRec
<1>g. HandleAbsent => call'.resp = call.resp
  BY <1>c DEF HandleAbsent
<1>1. CASE Lookup \/ WaitForTermination \/ DeleteSession
  <2>1. \/ HandleAbsent \/ Goto("waitterm") \/ Goto("delete") \/ Raise
        \/ call.pc = "lookup" /\ HandleFound(srv[call.req])
    BY <1>1, ZenonT(60) DEF Lookup, WaitForTermination, DeleteSession, Interrupted
  <2>2. ASSUME call.pc = "lookup", HandleFound(srv[call.req])
        PROVE  call'.resp = NoResource \/ \E i \in Id : call'.resp = srv[i]
    <3> DEFINE r == IF srv[call.req].st = "ACTIVE" THEN srv[call.req] ELSE NoResource
    <3>1. call' = [call EXCEPT !.pc = "reuse", !.resp = r]
      BY <2>2, Zenon DEF HandleFound
    <3>2. call'.resp = r
      BY <1>0, <3>1, ZenonT(60) DEF CRec
    <3>3. call.req \in Id
      BY <2>2, Known DEF Phase, Id
    <3> QED
      BY <3>2, <3>3
  <2> QED
    BY <1>b, <1>c, <1>g, <2>1, <2>2
<1>2. CASE Reuse
  <2>1. ASSUME NEW s, NEW r, Found(s, r) PROVE call'.resp \in {NoResource, r}
    <3> DEFINE o == InProcess(s, call.t)
               pc == IF HasEndpoint(r) THEN "connect" ELSE "waitep"
    <3>1. CASE o # NoObj
      BY <1>a, <2>1, <3>1 DEF Found, Return
    <3>2. CASE o = NoObj
      <4>1. call' = [call EXCEPT !.pc = pc, !.resp = r]
        BY <2>1, <3>2, Zenon DEF Found
      <4> QED
        BY <1>0, <4>1, ZenonT(60) DEF CRec
    <3> QED
      BY <3>1, <3>2
  <2>2. ASSUME NEW s, NEW o, Gone(s, o) PROVE call'.resp \in {call.resp, NoResource}
    BY <1>0, <1>c, <1>e, <2>2 DEF Gone
  <2>3. FailOpen => call'.resp = NoResource
    BY <1>a, <1>b DEF FailOpen
  <2>4. \/ \E s, o : Gone(s, o)
        \/ \E s : Found(s, call.resp) \/ (m.id # NoId /\ Found(s, srv[m.id]))
        \/ FailOpen \/ Raise
    BY <1>2, ZenonT(60) DEF Reuse, CheckedGetSession, Interrupted
  <2> QED
    BY <1>0, <1>b, <2>1, <2>2, <2>3, <2>4
<1>3. CASE CreateSession \/ CreateRefused
  <2>1. Raise \/ call' = [call EXCEPT !.pc = "waitcreate", !.creating = TRUE]
    BY <1>3, ZenonT(60) DEF CreateSession, CreateRefused, Interrupted
  <2> QED
    BY <1>0, <1>b, <2>1, ZenonT(60) DEF CRec
<1>4. CASE WaitCreated \/ WaitEndpoint
  <2>1. \/ Retry \/ Raise
        \/ \E pc : call' = [call EXCEPT !.pc = pc, !.resp = srv[m.id]]
        \/ call' = [call EXCEPT !.pc = "terminate", !.cont = "cleanup",
                                !.tid = m.id, !.polls = 0]
    BY <1>4, ZenonT(60) DEF WaitCreated, WaitEndpoint, Interrupted
  <2>2. m.id \in Id
    BY <1>0, <1>4, Known DEF Phase, WaitCreated, WaitEndpoint
  <2> QED
    BY <1>0, <1>b, <1>f, <2>1, <2>2, ZenonT(60) DEF CRec
<1>5. CASE Connect
  <2>1. \/ Raise
        \/ \E o : call' = [call EXCEPT !.pc = "check", !.target = o]
        \/ \E o : call' = Idle(o)
    BY <1>5, ZenonT(60) DEF Connect, Return
  <2> QED
    BY <1>0, <1>a, <1>b, <2>1, ZenonT(60) DEF CRec
<1>6. CASE CheckNewSession
  <2>1. \/ Retry
        \/ \E o : call' = Idle(o)
        \/ \E s, o, a, cont : BeginStop(s, call, o, a, cont)
    BY <1>6, ZenonT(60) DEF CheckNewSession, Return
  <2> QED
    BY <1>0, <1>a, <1>e, <1>f, <2>1
<1>7. CASE TerminateSession \/ TerminatePoll
  <2> DEFINE k == call.polls + 1
  <2>1. \/ Raise \/ Goto("poll") \/ Continue(call, call.cont)
        \/ call' = [call EXCEPT !.polls = k]
    BY <1>7, ZenonT(60) DEF TerminateSession, TerminatePoll, TerminateDone, TerminateFailed,
       TerminateCutShort, Interrupted
  <2> QED
    BY <1>0, <1>b, <1>c, <1>d, <2>1, ZenonT(60) DEF CRec
<1>8. ASSUME NEW t \in Thread, NEW r \in Custom \cup {Gen}, GetOrCreate(t, r)
      PROVE  call'.resp = NoResource
  BY <1>8, Zenon DEF GetOrCreate, Idle
<1>9. ASSUME NEW t \in Thread, NEW o \in Obj, NEW a, Stop(t, o, a)
      PROVE  call'.resp = NoResource
  <2> DEFINE i == Idle(NoObj)
             c == [i EXCEPT !.t = t]
  <2>1. \E cont : BeginStop(m, c, o, a, cont)
    BY <1>9, Zenon DEF Stop
  <2>2. i \in CRec
    <3>1. NoObj \in 0..MaxObj
      BY SessionAssumption DEF NoObj
    <3> QED
      BY <3>1, Known, IdleCore
  <2>3. i.resp = NoResource
    BY <1>a
  <2> HIDE DEF i
  <2>4. c \in CRec /\ c.resp = NoResource
    BY <2>2, <2>3, ZenonT(60) DEF CRec
  <2> QED
    BY <1>e, <2>1, <2>4
<1>10. CASE call' = call
  BY <1>10
<1>11. (\E i \in Id : ServerStep(i) \/ OtherClient(i)) \/ GuardVerdict \/ UNCHANGED vars
           => call' = call
  BY Zenon DEF ServerStep, OtherClient, GuardVerdict, vars
<1> QED
  BY <1>1, <1>2, <1>3, <1>4, <1>5, <1>6, <1>7, <1>8, <1>9, <1>10, <1>11 DEF Next, CallStep

\* No incarnation is of the future.
LEMMA PresentStep == IInv /\ IInv' /\ Present /\ [Next]_vars => Present'
<1> SUFFICES ASSUME IInv, IInv', Present, [Next]_vars PROVE Present'
  OBVIOUS
<1>1. uuids \in Nat /\ uuids' \in Nat /\ uuids <= uuids' /\ NoResource.uuid = 0
  BY UuidsGrow DEF NoResource
<1>2. /\ call.resp.uuid \in Nat /\ \A i \in Id : srv[i].uuid \in Nat
  BY Known DEF Resource, Uuid
<1>3. call'.resp.uuid <= uuids'
  BY <1>1, <1>2, RespMoves DEF Present
<1>4. ASSUME NEW i \in Id PROVE srv'[i].uuid <= uuids'
  BY <1>1, <1>2, ServerMoves DEF Present
<1> QED
  BY <1>3, <1>4 DEF Present

\* A step that leaves the default session in place, and records nothing dead of it.
Kept ==
    m'.default # NoObj =>
        /\ m.default # NoObj /\ m'.id = m.id /\ m'.uuid = m.uuid
        /\ \/ call'.pc \in {"terminate", "poll"}
           \/ m'.live[m'.id] # "dead"
           \/ call.pc \notin {"terminate", "poll"} /\ m'.live[m.id] = m.live[m.id]

LEMMA KeptFresh ==
    ASSUME IInv, Present, Fresh, [Next]_vars, Kept
    PROVE  Fresh'
<1> SUFFICES ASSUME m'.default # NoObj
             PROVE  /\ m'.uuid <= uuids'
                    /\ call'.pc \notin {"terminate", "poll"} /\ m'.live[m'.id] = "dead"
                           => ~(srv'[m'.id].uuid = m'.uuid /\ Alive(srv'[m'.id]))
  BY DEF Fresh, Over
<1>1. /\ m.default # NoObj /\ m'.id = m.id /\ m'.uuid = m.uuid /\ m.uuid \in Uuid
      /\ m.uuid <= uuids /\ m.id \in Id
  BY Known DEF Kept, Fresh, Coherent, MRec
<1>2. m'.uuid <= uuids'
  BY <1>1, UuidsGrow DEF Uuid
<1>3. ASSUME call'.pc \notin {"terminate", "poll"}, m'.live[m'.id] = "dead"
      PROVE  ~(srv'[m.id].uuid = m.uuid /\ Alive(srv'[m.id]))
  <2>1. Over(m.id, m.uuid)
    BY <1>1, <1>3 DEF Kept, Fresh
  <2> QED
    BY <1>1, <2>1, StaysOver
<1> QED
  BY <1>1, <1>2, <1>3

\* The beginning of a stop(): it terminates the session, or closes it.
LEMMA BeginStopKept ==
    ASSUME IInv, NEW s, Same(m, s), NEW c \in CRec, c.t \in Thread, NEW o \in Obj, NEW a,
           NEW cont, BeginStop(s, c, o, a, cont),
           o # s.default => m.live = s.live /\ call.pc \notin {"terminate", "poll"}
    PROVE  Kept
<1>1. s \in MRec /\ Coherent(s) /\ s.default = m.default /\ s.id = m.id /\ s.uuid = m.uuid
  BY Known, SameCoherent DEF Same
<1>2. CASE ShouldTerminate(s, o, a)
  <2>1. call' = [c EXCEPT !.pc = "terminate", !.cont = cont, !.target = o,
                          !.tid = s.id, !.polls = 0]
    BY <1>2, Zenon DEF BeginStop
  <2>2. call'.pc = "terminate"
    BY <2>1, ZenonT(60) DEF CRec
  <2>3. m' = s
    BY <1>2, Zenon DEF BeginStop
  <2> QED
    BY <1>1, <2>2, <2>3 DEF Kept
<1>3. CASE ~ShouldTerminate(s, o, a)
  <2>1. m' = StopLocal(s, o, c.t)
    BY <1>3, Zenon DEF BeginStop
  <2> QED
    BY <1>1, <2>1, StopLocalCoherent, StopLocalLive DEF Kept
<1> QED
  BY <1>2, <1>3

\* Every step of a call but the one that attaches to a session is such a step.
LEMMA KeptStep ==
    ASSUME IInv, IInv', [Next]_vars, ~Connect, ~GuardVerdict
    PROVE  Kept
<1>0. /\ m \in MRec /\ call \in CRec /\ Same(m, m) /\ Same(m, MarkActive(m, m.id))
      /\ Same(m, MarkDead(m, m.id)) /\ InProcess(m, call.t) = m.default
      /\ call.t \in Thread /\ Coherent(m) /\ m.id \in Id \cup {NoId}
      /\ m.default # NoObj => m.id \in Id /\ m.default \in Obj
  BY Known, VerdictSame DEF Coherent
<1>b. ASSUME m' = m, call.pc \notin {"terminate", "poll"} PROVE Kept
  BY <1>b DEF Kept
<1>c. ASSUME NEW q \in {m, MarkActive(m, m.id)}, NEW o, Return(q, o),
             call.pc \notin {"terminate", "poll"}, m.id \in Id, m.default # NoObj
      PROVE  Kept
  <2>1. m'.id = q.id /\ m'.live = q.live /\ m'.uuid = q.uuid
    <3>1. m' = [q EXCEPT !.default = o, !.inst = o]
      BY <1>c DEF Return
    <3>2. q \in MRec
      BY <1>0, <1>c DEF Same
    <3> QED
      BY <3>1, <3>2, ZenonT(60) DEF MRec
  <2> QED
    BY <1>0, <1>c, <2>1, LiveEffect DEF Kept, Same
<1>1. ASSUME HandleAbsent, call.pc \in {"lookup", "waitterm", "delete"} PROVE Kept
  <2> DEFINE s == IF m.default # NoObj THEN StopLocal(m, m.default, call.t) ELSE m
  <2>1. m' = ClearId(s)
    BY <1>0, <1>1 DEF HandleAbsent
  <2>2. s \in MRec /\ Coherent(s) /\ s.default = NoObj
    BY Known, StopInProcess
  <2> HIDE DEF s
  <2> QED
    BY <2>1, <2>2, ClearIdCoherent DEF Kept
<1>2. ASSUME NEW r, HandleFound(r), call.pc = "lookup" PROVE Kept
  <2> DEFINE other == m.default # NoObj /\ (m.id # call.req \/ m.uuid # r.uuid)
             s == IF other THEN StopLocal(m, m.default, call.t) ELSE m
             k == IF r.st = "ACTIVE" THEN MarkActive(s, call.req) ELSE s
  <2>1. m' = [k EXCEPT !.id = call.req, !.custom = TRUE]
    BY <1>0, <1>2 DEF HandleFound
  <2>2. call.req \in Id
    BY <1>2, Known DEF Phase, Id
  <2>3. s \in MRec /\ (s.default # NoObj => s = m /\ m.id = call.req /\ m.default # NoObj)
    <3>1. CASE other
      BY <3>1, StopInProcess
    <3>2. CASE ~other
      BY <1>0, <3>2
    <3> QED
      BY <3>1, <3>2
  <2> HIDE DEF s
  <2>4. /\ k \in MRec /\ k.default = s.default /\ k.uuid = s.uuid
        /\ k.live = s.live \/ k.live[call.req] # "dead"
    <3>1. /\ MarkActive(s, call.req) \in MRec /\ MarkActive(s, call.req).default = s.default
          /\ MarkActive(s, call.req).live[call.req] = "active"
          /\ MarkActive(s, call.req).uuid = s.uuid
      <4>1. Same(s, MarkActive(s, call.req))
        BY <2>2, <2>3, VerdictSame
      <4>2. MarkActive(s, call.req).live[call.req] = "active"
        BY <2>2, <2>3, LiveEffect
      <4>3. MarkActive(s, call.req) \in MRec
        BY <2>3, <4>1, ZenonT(30) DEF Same
      <4> QED
        BY <4>1, <4>2, <4>3 DEF Same
    <3>2. CASE r.st = "ACTIVE"
      <4>1. k = MarkActive(s, call.req)
        BY <3>2
      <4> QED
        BY <3>1, <4>1
    <3>3. CASE r.st # "ACTIVE"
      BY <2>3, <3>3
    <3> QED
      BY <3>2, <3>3
  <2> HIDE DEF k
  <2>5. m'.id = call.req /\ m'.live = k.live /\ m'.default = k.default /\ m'.uuid = k.uuid
    BY <2>1, <2>4, ZenonT(60) DEF MRec
  <2> QED
    BY <1>2, <2>3, <2>4, <2>5 DEF Kept
<1>3. CASE Lookup \/ WaitForTermination \/ DeleteSession
  <2>1. /\ call.pc \in {"lookup", "waitterm", "delete"}
        /\ \/ HandleAbsent \/ m' = m
           \/ call.pc = "lookup" /\ HandleFound(srv[call.req])
    BY <1>3, ZenonT(60) DEF Lookup, WaitForTermination, DeleteSession
  <2> QED
    BY <1>1, <1>2, <1>b, <2>1
<1>4. CASE Reuse
  <2>0. call.pc = "reuse"
    BY <1>4 DEF Reuse
  <2>1. ASSUME NEW q \in {m, MarkActive(m, m.id)}, NEW r, Found(q, r), m.id # NoId
        PROVE  Kept
    <3>1. q \in MRec /\ Coherent(q) /\ q.default = m.default
      BY <1>0, <2>1, SameCoherent DEF Same
    <3>2. InProcess(q, call.t) = q.default
      BY <1>0, <3>1, InProcessIsDefault
    <3>3. CASE m.default # NoObj
      <4>1. Return(q, q.default)
        BY <2>1, <3>1, <3>2, <3>3 DEF Found
      <4> QED
        BY <1>0, <1>c, <2>0, <2>1, <3>3, <4>1
    <3>4. CASE m.default = NoObj
      <4>1. m' = q
        BY <2>1, <3>1, <3>2, <3>4 DEF Found
      <4> QED
        BY <3>1, <3>4, <4>1 DEF Kept
    <3> QED
      BY <3>3, <3>4
  <2>2. ASSUME NEW q \in {m, MarkDead(m, m.id)}, Gone(q, m.default) PROVE Kept
    <3>1. q \in MRec /\ q.default = m.default /\ Same(m, q)
      BY <1>0, <2>2 DEF Same
    <3>2. CASE m.default = NoObj
      BY <2>2, <3>1, <3>2 DEF Gone, Kept
    <3>3. CASE m.default # NoObj
      <4>1. BeginStop(q, call, m.default, "auto", "create")
        BY <2>2, <3>3, Zenon DEF Gone
      <4> QED
        BY <1>0, <3>1, <3>3, <4>1, BeginStopKept
    <3> QED
      BY <3>2, <3>3
  <2>3. CASE FailOpen
    <3>1. CASE m.default # NoObj
      <4>1. Return(m, m.default)
        BY <1>0, <2>3, <3>1 DEF FailOpen, Return
      <4> QED
        BY <1>0, <1>c, <2>0, <3>1, <4>1
    <3>2. CASE m.default = NoObj
      BY <1>0, <2>3, <3>2, <2>0, <1>b DEF FailOpen
    <3> QED
      BY <3>1, <3>2
  <2>4. CASE m.id # NoId /\ CheckedGetSession
    <3>1. \/ \E q \in {m, MarkActive(m, m.id)} : Found(q, srv[m.id])
          \/ Gone(MarkDead(m, m.id), m.default)
      BY <1>0, <2>4 DEF CheckedGetSession
    <3> QED
      BY <2>1, <2>2, <2>4, <3>1
  <2>5. \/ Gone(m, m.default)
        \/ m.id # NoId /\ Found(m, call.resp)
        \/ m.id # NoId /\ CheckedGetSession
        \/ m.id # NoId /\ FailOpen
        \/ m' = m
    BY <1>4, Zenon DEF Reuse
  <2> QED
    BY <1>b, <2>0, <2>1, <2>2, <2>3, <2>4, <2>5
<1>5. CASE CreateSession \/ CreateRefused \/ WaitCreated \/ WaitEndpoint
  <2>1. m.default = NoObj
    BY <1>5, Known DEF Phase, CreateSession, CreateRefused, WaitCreated, WaitEndpoint
  <2>2. m'.default = m.default
    <3>1. CASE CreateSession \/ CreateRefused
      BY <1>0, <3>1, ZenonT(60) DEF CreateSession, CreateRefused, ClearId, MRec
    <3>2. CASE WaitCreated
      BY <1>0, <3>2, ZenonT(60) DEF WaitCreated, ClearId, MRec
    <3>3. CASE WaitEndpoint
      BY <1>0, <3>3, ZenonT(60) DEF WaitEndpoint, ClearId, MRec
    <3> QED
      BY <1>5, <3>1, <3>2, <3>3
  <2> QED
    BY <2>1, <2>2 DEF Kept
<1>7. CASE CheckNewSession
  <2>1. /\ m.default # NoObj /\ call.target = m.default /\ call.pc = "check"
        /\ m.default \in Obj /\ m.id \in Id
    BY <1>0, <1>7, Known DEF CheckNewSession, Phase
  <2>2. \/ m' = StopLocal(MarkDead(m, m.id), m.default, call.t)
        \/ \E s \in {m, MarkActive(m, m.id)} : Return(s, m.default)
        \/ \E a, cont : BeginStop(m, call, m.default, a, cont)
    BY <1>7, <2>1 DEF CheckNewSession
  <2>3. StopLocal(MarkDead(m, m.id), m.default, call.t).default = NoObj
    <3>1. /\ MarkDead(m, m.id) \in MRec /\ Coherent(MarkDead(m, m.id))
          /\ MarkDead(m, m.id).default = m.default
      BY <1>0, SameCoherent DEF Same
    <3> QED
      BY <1>0, <2>1, <3>1, StopLocalCoherent
  <2> QED
    BY <1>0, <1>c, <2>1, <2>2, <2>3, BeginStopKept DEF Kept
<1>8. CASE TerminateSession \/ TerminatePoll
  <2> DEFINE q == MarkDead(m, call.tid)
  <2>0. call.pc \in {"terminate", "poll"} /\ Same(m, q)
    BY <1>0, <1>8, Known, VerdictSame DEF TerminateSession, TerminatePoll
  <2> HIDE DEF q
  <2>1. \/ call'.pc = "poll" /\ m' \in {m, q}
        \/ \E s \in {m, q} : TerminateDone(s) \/ TerminateFailed(s) \/ TerminateCutShort(s)
    <3>1. CASE TerminateSession
      BY <1>0, <3>1, ZenonT(60) DEF TerminateSession, Goto, CRec, q
    <3>2. CASE TerminatePoll
      <4>1. \/ call' = [call EXCEPT !.polls = @ + 1] /\ m' = m
            \/ TerminateDone(m) \/ TerminateFailed(m) \/ TerminateCutShort(m)
        BY <3>2, ZenonT(60) DEF TerminatePoll
      <4>2. call.pc = "poll"
        BY <3>2 DEF TerminatePoll
      <4>3. call' = [call EXCEPT !.polls = @ + 1] => call'.pc = "poll"
        BY <1>0, <4>2 DEF CRec
      <4> QED
        BY <4>1, <4>3
    <3> QED
      BY <1>8, <3>1, <3>2
  <2>2. ASSUME NEW s \in {m, q}, TerminateDone(s) \/ TerminateFailed(s) PROVE Kept
    <3>1. /\ s \in MRec /\ Coherent(s) /\ s.default = m.default /\ s.id = m.id
          /\ s.uuid = m.uuid
      BY <1>0, <2>0, <2>2, SameCoherent DEF Same
    <3>2. CASE call.cont = "cleanup"
      <4>1. m' = s /\ m.default = NoObj
        BY <2>0, <2>2, <3>2, Known DEF TerminateDone, TerminateFailed, Phase
      <4> QED
        BY <3>1, <4>1 DEF Kept
    <3>3. CASE call.cont # "cleanup" /\ TerminateDone(s)
      <4>1. m' = StopLocal(s, s.default, call.t) /\ s.default \in Obj
        BY <1>0, <2>0, <3>1, <3>3, Known DEF TerminateDone, Phase
      <4> QED
        BY <1>0, <3>1, <4>1, StopLocalCoherent DEF Kept
    <3>4. CASE call.cont # "cleanup" /\ TerminateFailed(s)
      <4>1. m' = Invalidate(s) /\ m.default # NoObj
        BY <2>0, <3>4, Known DEF TerminateFailed, Phase
      <4> QED
        <5>1. /\ m'.id = m.id /\ m'.uuid = m.uuid /\ m.id \in Id
          BY <1>0, <3>1, <4>1, VerdictSame DEF Same
        <5>2. m'.live[m.id] = "none"
          BY <3>1, <4>1, <5>1, LiveEffect
        <5> QED
          BY <4>1, <5>1, <5>2 DEF Kept
    <3> QED
      BY <2>2, <3>2, <3>3, <3>4
  <2>3. ASSUME NEW s \in {m, q}, TerminateCutShort(s) PROVE Kept
    <3>1. s \in MRec /\ Same(m, s)
      BY <1>0, <2>0, <2>3 DEF Same
    <3>2. Same(s, m')
      BY <2>3, <3>1, CutShortSame
    <3>3. m' = [s EXCEPT !.live[call.tid] = IF @ = "dead" THEN "interrupted" ELSE @]
      BY <2>3, Zenon DEF TerminateCutShort
    <3>4. m.default # NoObj => m.id = call.tid /\ m.id \in Id
      BY <1>0, <2>0, Known DEF Phase
    <3>5. call.tid \in Id => m'.live[call.tid] # "dead"
      BY <3>1, <3>3, ZenonT(60) DEF MRec
    <3> QED
      BY <3>1, <3>2, <3>4, <3>5 DEF Kept, Same
  <2>4. CASE call'.pc = "poll" /\ m' \in {m, q}
    BY <2>0, <2>4 DEF Kept, Same
  <2> QED
    BY <2>1, <2>2, <2>3, <2>4
<1>9. ASSUME NEW t \in Thread, NEW r, GetOrCreate(t, r) PROVE Kept
  BY <1>9, <1>b, Zenon DEF GetOrCreate
<1>10. ASSUME NEW t \in Thread, NEW o \in Obj, NEW a, Stop(t, o, a) PROVE Kept
  <2> DEFINE i == Idle(NoObj)
             c == [i EXCEPT !.t = t]
  <2>1. /\ call.pc = "idle"
        /\ \E cont : BeginStop(m, c, o, a, cont)
    BY <1>10, Zenon DEF Stop
  <2>2. i \in CRec
    <3>1. NoObj \in 0..MaxObj
      BY SessionAssumption DEF NoObj
    <3> QED
      BY <1>0, <3>1, IdleCore
  <2> HIDE DEF i
  <2>3. c \in CRec /\ c.t = t
    BY <2>2, ZenonT(60) DEF CRec
  <2> HIDE DEF c
  <2> QED
    BY <1>0, <2>1, <2>3, BeginStopKept
<1>11. ASSUME NEW i \in Id, ServerStep(i) \/ OtherClient(i) PROVE m' = m /\ call' = call
  BY <1>11, Zenon DEF ServerStep, OtherClient
<1>12. CASE m' = m /\ call' = call
  BY <1>12 DEF Kept
<1>13. CASE UNCHANGED vars
  BY <1>12, <1>13 DEF vars
<1> QED
  BY <1>3, <1>4, <1>5, <1>7, <1>8, <1>9, <1>10, <1>11, <1>12, <1>13 DEF Next, CallStep

\* A new client's session has just been marked active.
LEMMA ConnectFresh ==
    ASSUME IInv, Present, [Next]_vars, Connect
    PROVE  Fresh'
<1> DEFINE s == Connected(m, call.resp, m.id, call.t)
<1>0. call.pc = "connect" /\ m.default = NoObj /\ m.id \in Id /\ m.id # NoId
  BY Known, SessionAssumption DEF Connect, Phase, Id
<1>1. \/ m.made < MaxObj /\ (m' = s \/ Return(s, s.made))
      \/ m' = Attach(m, call.resp, m.id)
  BY Zenon DEF Connect
<1>2. s.live[m.id] = "active"
  BY <1>0, Known, ConnectedLive
<1>3. m.made < MaxObj => s \in MRec /\ s.id = m.id /\ s.uuid = call.resp.uuid
  BY <1>0, Known, ConnectedCoherent
<1>4. Attach(m, call.resp, m.id).default = NoObj
  BY <1>0, Known, AttachCoherent
<1>5. call.resp.uuid <= uuids'
  BY Known, UuidsGrow DEF Present, Resource, Uuid
<1> HIDE DEF s
<1>6. CASE m.made < MaxObj /\ Return(s, s.made)
  <2>1. m' = [s EXCEPT !.default = s.made, !.inst = s.made]
    BY <1>6 DEF Return
  <2>2. m'.id = s.id /\ m'.live = s.live /\ m'.uuid = s.uuid
    BY <1>3, <1>6, <2>1, ZenonT(60) DEF MRec
  <2> QED
    BY <1>2, <1>3, <1>5, <1>6, <2>2 DEF Fresh
<1> QED
  BY <1>1, <1>2, <1>3, <1>4, <1>5, <1>6 DEF Fresh

\* A guard records what is over, or nothing that counts.
LEMMA GuardFresh ==
    ASSUME IInv, Present, Fresh, [Next]_vars, GuardVerdict
    PROVE  Fresh'
<1>1. /\ m \in MRec /\ Same(m, m') /\ UNCHANGED <<srv, uuids, call>>
      /\ \/ m'.live = [m.live EXCEPT ![m.id] = "active"]
         \/ m'.live = [m.live EXCEPT ![m.id] = "dead"] /\ ~Runs(m)
         \/ m'.live = [m.live EXCEPT ![m.id] = "overtaken"]
  BY Known, GuardSame
<1>2. m.default # NoObj /\ m.id \in Id
  BY Known DEF GuardVerdict
<1>3. m.live \in [Id -> Verdicts]
  BY <1>1, Zenon DEF MRec
<1>4. m'.live[m.id] = "dead" => ~Runs(m)
  BY <1>1, <1>2, <1>3
<1> QED
  BY <1>1, <1>2, <1>4 DEF Fresh, Over, Runs, Same

\* Every step keeps the default session's verdict fresh.
LEMMA FreshStep == IInv /\ IInv' /\ Present /\ Fresh /\ [Next]_vars => Fresh'
BY KeptStep, KeptFresh, ConnectFresh, GuardFresh

\* The liveness cache does not hold the default session dead between calls while
\* Dataproc runs it, whatever calls fail or are interrupted, whoever recreates the
\* session, and whenever the guards of other threads record their verdicts: a stop()
\* that failed can be tried again.  (What an interrupted termination, and a late
\* verdict on an earlier incarnation, leave is kept apart in the model.)
THEOREM HonestVerdict == Spec => []VerdictHonest
<1>1. Init => Fresh /\ Present
  <2> SUFFICES ASSUME Init PROVE Fresh /\ Present
    OBVIOUS
  <2>1. m.default = NoObj /\ call.resp.uuid = 0 /\ uuids = 0
    BY DEF Init, MInit, Idle, NoResource
  <2>2. \A i \in Id : srv[i].uuid = 0
    BY DEF Init, NoResource
  <2> QED
    BY <2>1, <2>2 DEF Fresh, Present
<1>2. IInv /\ IInv' /\ Fresh /\ Present /\ [Next]_vars => Fresh' /\ Present'
  BY FreshStep, PresentStep
<1>3. Fresh => VerdictHonest
  BY DEF Fresh, VerdictHonest, Over, Runs
<1> QED
  BY <1>1, <1>2, <1>3, Inductive, PTL DEF Spec


-----------------------------------------------------------------------------
(* The sessions this process created and must not lose. *)

\* NoOrphan, with what makes it inductive: a call that is about to create a
\* session has no live one to lose, and one that polls had its request accepted.
Accounted ==
    /\ NoOrphan
    /\ call.pc = "create" /\ m.id \in Generated => ~Alive(srv[m.id])
    /\ call.pc = "poll" /\ call.tid \in Generated => call.tid \in told

\* What becomes of the class-level id in a step: it stays, it is let go, its
\* session is about to be terminated, or there was no live session behind it.
Fate ==
    \/ m'.id = m.id
    \/ LetGo(m.id)
    \/ call'.pc = "terminate" /\ call'.tid = m.id
    \/ m.id \in Generated => ~Alive(srv[m.id])

\* A call that will create a session has nothing left that lives.
Cleared ==
    call'.pc = "create" => m'.id = NoId \/ (m'.id = m.id /\ ~Alive(srv[m.id]))

\* A stop() terminates the session, or leaves it to its TTL.
LEMMA BeginStopFate ==
    ASSUME IInv, NEW s, Same(m, s), NEW c \in CRec, c.t \in Thread, NEW o \in Obj, NEW a,
           NEW cont, BeginStop(s, c, o, a, cont), cont = "create" => o = s.default
    PROVE  Fate /\ Cleared
<1>1. s \in MRec /\ Coherent(s) /\ s.default = m.default /\ s.id = m.id
  BY Known, SameCoherent DEF Same
<1>2. CASE ShouldTerminate(s, o, a)
  <2>1. call' = [c EXCEPT !.pc = "terminate", !.cont = cont, !.target = o,
                          !.tid = s.id, !.polls = 0]
    BY <1>2, Zenon DEF BeginStop
  <2>2. call'.pc = "terminate" /\ call'.tid = s.id
    BY <2>1, ZenonT(60) DEF CRec
  <2> QED
    BY <1>1, <2>2 DEF Fate, Cleared
<1>3. CASE ~ShouldTerminate(s, o, a)
  <2>1. /\ m' = StopLocal(s, o, c.t) /\ Continue(c, cont)
        /\ o = s.default => LetGo(s.id)
    BY <1>3, Zenon DEF BeginStop
  <2>2. /\ o = s.default => m'.id = NoId
        /\ o # s.default => m'.id = s.id
    BY <1>1, <2>1, StopLocalCoherent
  <2>3. cont # "create" => call'.pc # "create"
    BY <2>1 DEF Continue, Idle
  <2> QED
    BY <1>1, <2>1, <2>2, <2>3 DEF Fate, Cleared
<1> QED
  BY <1>2, <1>3

\* The fate of the id in the steps that neither create nor terminate a session.
LEMMA FateStep ==
    ASSUME IInv, [Next]_vars, call.pc \notin {"create", "terminate", "poll"},
           call' # call \/ m' # m, ~GuardVerdict
    PROVE  Fate /\ Cleared
<1>0. /\ m \in MRec /\ call \in CRec /\ Same(m, m) /\ Same(m, MarkActive(m, m.id))
      /\ Same(m, MarkDead(m, m.id)) /\ InProcess(m, call.t) = m.default
      /\ call.t \in Thread /\ Coherent(m) /\ m.id \in Id \cup {NoId}
      /\ m.default # NoObj => m.id \in Id /\ m.default \in Obj
  BY Known, VerdictSame DEF Coherent
<1>a. ASSUME Raise \/ \E o : call' = Idle(o) PROVE Cleared
  BY <1>a DEF Raise, Idle, Cleared
<1>b. ASSUME NEW q, Same(m, q), NEW o, Return(q, o) PROVE Fate /\ Cleared
  <2>1. m'.id = q.id
    <3>1. m' = [q EXCEPT !.default = o, !.inst = o]
      BY <1>b DEF Return
    <3>2. q \in MRec
      BY <1>b DEF Same
    <3> QED
      BY <3>1, <3>2, ZenonT(60) DEF MRec
  <2> QED
    BY <1>a, <1>b, <2>1 DEF Fate, Return, Same
<1>1. CASE Lookup \/ WaitForTermination \/ DeleteSession
  <2>1. ASSUME HandleAbsent PROVE Fate /\ Cleared
    <3>1. call' = [call EXCEPT !.pc = "reuse"] /\ LetGo(m.id)
      BY <2>1 DEF HandleAbsent, Goto
    <3>2. call'.pc = "reuse"
      BY <1>0, <3>1, GotoAt DEF CallAt, Pc
    <3> QED
      BY <3>1, <3>2 DEF Fate, Cleared
  <2>2. ASSUME NEW r, HandleFound(r) PROVE Fate /\ Cleared
    <3>1. /\ m'.id = call.req
          /\ m.id # call.req => LetGo(m.id)
      <4> DEFINE k == IF r.st = "ACTIVE"
                      THEN MarkActive(IF m.default # NoObj /\ (m.id # call.req \/ m.uuid # r.uuid)
                                      THEN StopLocal(m, m.default, call.t) ELSE m, call.req)
                      ELSE IF m.default # NoObj /\ (m.id # call.req \/ m.uuid # r.uuid)
                           THEN StopLocal(m, m.default, call.t) ELSE m
      <4>1. m' = [k EXCEPT !.id = call.req, !.custom = TRUE]
        BY <1>0, <2>2 DEF HandleFound
      <4>2. k \in MRec
        BY <1>0, StopInProcess, VerdictSame DEF Same
      <4> HIDE DEF k
      <4>3. m'.id = call.req
        BY <4>1, <4>2, ZenonT(60) DEF MRec
      <4> QED
        BY <2>2, <4>3 DEF HandleFound
    <3>2. call'.pc = "reuse"
      BY <1>0, <2>2, ZenonT(60) DEF HandleFound, CRec
    <3> QED
      BY <3>1, <3>2 DEF Fate, Cleared
  <2>3. ASSUME NEW pc \in {"waitterm", "delete"}, Goto(pc), m' = m PROVE Fate /\ Cleared
    <3>1. call'.pc = pc
      BY <1>0, <2>3, GotoAt DEF CallAt, Goto, Pc
    <3> QED
      BY <2>3, <3>1 DEF Fate, Cleared
  <2>4. ASSUME Raise, m' = m PROVE Fate /\ Cleared
    BY <1>a, <2>4 DEF Fate
  <2>5. \/ HandleAbsent
        \/ HandleFound(srv[call.req])
        \/ \E pc \in {"waitterm", "delete"} : Goto(pc) /\ m' = m
        \/ Raise /\ m' = m
    <3>1. CASE Lookup
      BY <3>1, ZenonT(60) DEF Lookup, Interrupted
    <3>2. CASE WaitForTermination
      BY <3>2, ZenonT(60) DEF WaitForTermination, Interrupted
    <3>3. CASE DeleteSession
      <4>1. HandleAbsent \/ (Interrupted /\ UNCHANGED <<srv, m, letGo>>)
        BY <3>3, Zenon DEF DeleteSession
      <4> QED
        BY <4>1 DEF Interrupted
    <3> QED
      BY <1>1, <3>1, <3>2, <3>3
  <2> QED
    BY <2>1, <2>2, <2>3, <2>4, <2>5
<1>2. CASE Reuse
  <2>1. ASSUME NEW q, Same(m, q), NEW res, Found(q, res) PROVE Fate /\ Cleared
    <3>1. CASE InProcess(q, call.t) # NoObj
      BY <1>b, <2>1, <3>1, Zenon DEF Found
    <3>2. CASE InProcess(q, call.t) = NoObj
      <4> DEFINE pc == IF HasEndpoint(res) THEN "connect" ELSE "waitep"
      <4>1. m' = q /\ call' = [call EXCEPT !.pc = pc, !.resp = res]
        BY <2>1, <3>2, Zenon DEF Found
      <4>2. pc # "create"
        OBVIOUS
      <4> HIDE DEF pc
      <4>3. call'.pc = pc
        BY <1>0, <4>1, ZenonT(60) DEF CRec
      <4> QED
        BY <2>1, <4>1, <4>2, <4>3 DEF Fate, Cleared, Same
    <3> QED
      BY <3>1, <3>2
  <2>2. ASSUME NEW q, Same(m, q), Gone(q, m.default), m.id = NoId \/ ~Alive(srv[m.id])
        PROVE  Fate /\ Cleared
    <3>1. CASE m.default = NoObj
      <4>1. m' = q
        BY <2>2, <3>1, Zenon DEF Gone
      <4> QED
        BY <2>2, <4>1 DEF Fate, Cleared, Same
    <3>2. CASE m.default # NoObj
      <4>1. BeginStop(q, call, m.default, "auto", "create")
        BY <2>2, <3>2, Zenon DEF Gone
      <4>2. q.default = m.default
        BY <2>2 DEF Same
      <4> QED
        BY <1>0, <2>2, <3>2, <4>1, <4>2, BeginStopFate
    <3> QED
      BY <3>1, <3>2
  <2>3. ASSUME FailOpen PROVE Fate /\ Cleared
    <3>1. FailOpen => (Raise /\ m' = m) \/ Return(m, m.default)
      BY <1>0, Zenon DEF FailOpen, Return
    <3>2. Raise /\ m' = m => Fate /\ Cleared
      BY <1>a DEF Fate
    <3> QED
      BY <1>0, <1>b, <2>3, <3>1, <3>2
  <2>4. ASSUME CheckedGetSession PROVE Fate /\ Cleared
    <3>1. \/ \E q \in {m, MarkActive(m, m.id)} : Found(q, srv[m.id])
          \/ ~Alive(srv[m.id]) /\ Gone(MarkDead(m, m.id), m.default)
      BY <1>0, <2>4 DEF CheckedGetSession
    <3> QED
      BY <1>0, <2>1, <2>2, <3>1
  <2>5. \/ m.id = NoId /\ Gone(m, m.default)
        \/ Found(m, call.resp)
        \/ CheckedGetSession
        \/ FailOpen
        \/ Raise /\ m' = m
    BY <1>2, Zenon DEF Reuse, Interrupted
  <2>6. Raise /\ m' = m => Fate /\ Cleared
    BY <1>a DEF Fate
  <2> QED
    BY <1>0, <2>1, <2>2, <2>3, <2>4, <2>5, <2>6
<1>3. CASE WaitCreated \/ WaitEndpoint
  <2> DEFINE c == ClearId([m EXCEPT !.file = NoId])
             f == [m EXCEPT !.file = m.id]
  <2>1. c.id = NoId /\ ClearId(m).id = NoId /\ f.id = m.id
    BY <1>0, ZenonT(60) DEF ClearId, MRec
  <2> HIDE DEF c, f
  <2>2. CASE WaitCreated
    <3>1. \/ srv[m.id].st \in DeadStates /\ m' = c
          \/ m' = f /\ \E pc \in {"connect", "waitep"} :
                         call' = [call EXCEPT !.pc = pc, !.resp = srv[m.id]]
          \/ m' = ClearId(m) /\ Raise /\ LetGo(m.id)
          \/ Raise /\ m' = m
      BY <2>2, ZenonT(60) DEF WaitCreated, Interrupted, c, f
    <3>2. ASSUME NEW pc \in {"connect", "waitep"},
                 call' = [call EXCEPT !.pc = pc, !.resp = srv[m.id]]
          PROVE  call'.pc # "create"
      <4>1. call'.pc = pc
        BY <1>0, <3>2, ZenonT(60) DEF CRec
      <4> QED
        BY <4>1
    <3>3. srv[m.id].st \in DeadStates => ~Alive(srv[m.id])
      BY DEF DeadStates, Alive
    <3> QED
      BY <1>a, <2>1, <3>1, <3>2, <3>3 DEF Fate, Cleared
  <2>3. CASE WaitEndpoint
    <3> DEFINE d == [call EXCEPT !.pc = "terminate", !.cont = "cleanup",
                                 !.tid = m.id, !.polls = 0]
    <3>1. \/ m' = m /\ call' = [call EXCEPT !.pc = "connect", !.resp = srv[m.id]]
          \/ ~Alive(srv[m.id]) /\ m' = c
          \/ m' = m /\ Raise
          \/ m' = c /\ Raise /\ LetGo(m.id)
          \/ m' = c /\ call' = d
      BY <2>3, ZenonT(60) DEF WaitEndpoint, c
    <3>2. call' = [call EXCEPT !.pc = "connect", !.resp = srv[m.id]] => call'.pc = "connect"
      BY <1>0, ZenonT(60) DEF CRec
    <3>3. d.pc = "terminate" /\ d.tid = m.id
      BY <1>0, ZenonT(60) DEF CRec
    <3> HIDE DEF d
    <3> QED
      BY <1>a, <2>1, <3>1, <3>2, <3>3 DEF Fate, Cleared
  <2> QED
    BY <1>3, <2>2, <2>3
<1>4. CASE Connect
  <2> DEFINE s == Connected(m, call.resp, m.id, call.t)
             d == [call EXCEPT !.pc = "check", !.target = s.made]
  <2>0. call.pc = "connect" /\ m.default = NoObj /\ m.id \in Id /\ m.id # NoId
    BY <1>0, <1>4, Known DEF Connect, Phase
  <2>1. \/ m.made < MaxObj /\ m' = s /\ call' = d
        \/ m.made < MaxObj /\ Return(s, s.made)
        \/ m' = Attach(m, call.resp, m.id) /\ Raise
    BY <1>4, Zenon DEF Connect
  <2>2. /\ m.made < MaxObj => s \in MRec /\ s.id = m.id
        /\ Attach(m, call.resp, m.id).id = m.id
    <3>1. call.resp \in Resource
      BY Known
    <3> QED
      BY <1>0, <2>0, <3>1, ConnectedCoherent, AttachCoherent
  <2> HIDE DEF s
  <2>3. d.pc = "check"
    BY <1>0, ZenonT(60) DEF CRec
  <2> HIDE DEF d
  <2>4. m.made < MaxObj /\ Return(s, s.made) => m'.id = s.id
    <3>1. Return(s, s.made) => m' = [s EXCEPT !.default = s.made, !.inst = s.made]
      BY DEF Return
    <3> QED
      BY <2>2, <3>1, ZenonT(60) DEF MRec
  <2> QED
    BY <1>a, <2>1, <2>2, <2>3, <2>4 DEF Fate, Cleared, Return
<1>5. CASE CheckNewSession
  <2>1. /\ m.default # NoObj /\ call.target = m.default /\ call.pc = "check"
        /\ m.default \in Obj /\ m.id \in Id
    BY <1>0, <1>5, Known DEF CheckNewSession, Phase
  <2>2. \/ m' = StopLocal(MarkDead(m, m.id), m.default, call.t) /\ LetGo(m.id)
        \/ \E s \in {m, MarkActive(m, m.id)} : Return(s, m.default)
        \/ \E a : BeginStop(m, call, m.default, a, "raise")
    BY <1>5, <2>1 DEF CheckNewSession
  <2>3. StopLocal(MarkDead(m, m.id), m.default, call.t).id = NoId
    <3>1. /\ MarkDead(m, m.id) \in MRec /\ Coherent(MarkDead(m, m.id))
          /\ MarkDead(m, m.id).default = m.default
      BY <1>0, SameCoherent DEF Same
    <3> QED
      BY <1>0, <2>1, <3>1, StopLocalCoherent
  <2>4. CASE m' = StopLocal(MarkDead(m, m.id), m.default, call.t) /\ LetGo(m.id)
    BY <2>3, <2>4 DEF Fate, Cleared
  <2>5. CASE \E s \in {m, MarkActive(m, m.id)} : Return(s, m.default)
    BY <1>0, <1>b, <2>5
  <2>6. CASE \E a : BeginStop(m, call, m.default, a, "raise")
    BY <1>0, <2>1, <2>6, BeginStopFate
  <2> QED
    BY <2>2, <2>4, <2>5, <2>6
<1>6. ASSUME NEW t \in Thread, NEW r, GetOrCreate(t, r) PROVE Fate /\ Cleared
  <2> DEFINE i == Idle(NoObj)
             pc == IF r = Gen THEN "reuse" ELSE "lookup"
  <2>1. m' = m /\ call' = [i EXCEPT !.pc = pc, !.t = t, !.req = r]
    BY <1>6, Zenon DEF GetOrCreate
  <2>2. i \in CRec
    <3>1. NoObj \in 0..MaxObj
      BY SessionAssumption DEF NoObj
    <3> QED
      BY <1>0, <3>1, IdleCore
  <2>3. pc # "create"
    OBVIOUS
  <2> HIDE DEF i, pc
  <2>4. call'.pc = pc
    BY <2>1, <2>2, ZenonT(60) DEF CRec
  <2> QED
    BY <2>1, <2>3, <2>4 DEF Fate, Cleared
<1>7. ASSUME NEW t \in Thread, NEW o \in Obj, NEW a, Stop(t, o, a) PROVE Fate /\ Cleared
  <2> DEFINE i == Idle(NoObj)
             c == [i EXCEPT !.t = t]
  <2>1. \E cont \in {"asked", "done"} : BeginStop(m, c, o, a, cont)
    BY <1>7, Zenon DEF Stop
  <2>2. i \in CRec
    <3>1. NoObj \in 0..MaxObj
      BY SessionAssumption DEF NoObj
    <3> QED
      BY <1>0, <3>1, IdleCore
  <2> HIDE DEF i
  <2>3. c \in CRec /\ c.t = t
    BY <2>2, ZenonT(60) DEF CRec
  <2> HIDE DEF c
  <2> QED
    BY <1>0, <2>1, <2>3, BeginStopFate
<1>8. ASSUME NEW i \in Id, ServerStep(i) \/ OtherClient(i) PROVE m' = m /\ call' = call
  BY <1>8, Zenon DEF ServerStep, OtherClient
<1>9. ~CreateSession /\ ~CreateRefused /\ ~TerminateSession /\ ~TerminatePoll
  BY Zenon DEF CreateSession, CreateRefused, TerminateSession, TerminatePoll
<1> QED
  BY <1>1, <1>2, <1>3, <1>4, <1>5, <1>6, <1>7, <1>8, <1>9 DEF Next, CallStep, vars

\* A termination: the id being terminated is accepted, let go or still known, and
\* another id is not touched.
LEMMA TerminateFate ==
    ASSUME IInv, Accounted, TerminateSession \/ TerminatePoll
    PROVE  /\ m'.id = m.id \/ m.id = call.tid
           /\ call.tid \in Generated => call.tid \in told' \cup letGo' \/ m'.id = call.tid
           /\ call'.pc = "create" => m'.id = NoId
           /\ call'.pc = "poll" => call'.tid = call.tid /\ ({call.tid} \cap Generated) \subseteq told'
<1>0. /\ call.pc \in {"terminate", "poll"} /\ call \in CRec /\ call.t \in Thread
      /\ call.cont # "cleanup" => m.id = call.tid /\ call.target = m.default
                                 /\ m.default \in Obj
  BY Known DEF Phase, TerminateSession, TerminatePoll
<1>1. ASSUME NEW s, Same(m, s), TerminateFailed(s) \/ TerminateCutShort(s)
      PROVE  m'.id = m.id /\ call'.pc = "idle"
  <2>1. s \in MRec /\ s.id = m.id /\ Invalidate(s).id = s.id
    BY <1>1, VerdictSame DEF Same
  <2>2. (m' \in {s, Invalidate(s)} \/ Same(s, m')) /\ call' = Idle(NoObj)
    BY <1>1, <2>1, CutShortSame DEF TerminateFailed, Raise
  <2> QED
    BY <2>1, <2>2 DEF Idle, Same
<1>2. ASSUME NEW s, Same(m, s), TerminateDone(s)
      PROVE  /\ m'.id = m.id \/ m.id = call.tid
             /\ call'.pc # "poll"
             /\ call'.pc = "create" => m'.id = NoId
  <2>0. s \in MRec /\ Coherent(s) /\ s.default = m.default /\ s.id = m.id
    BY <1>2, Known, SameCoherent DEF Same
  <2>1. CASE call.cont = "cleanup"
    BY <1>2, <2>0, <2>1 DEF TerminateDone, Raise, Idle
  <2>2. CASE call.cont # "cleanup"
    <3>1. m' = StopLocal(s, s.default, call.t) /\ Continue(call, call.cont)
      BY <1>0, <1>2, <2>0, <2>2 DEF TerminateDone
    <3>2. m'.id = NoId
      BY <1>0, <2>0, <2>2, <3>1, StopLocalCoherent
    <3>3. call'.pc # "poll"
      <4>1. [call EXCEPT !.pc = "create", !.cont = "none", !.target = NoObj,
                         !.tid = NoId, !.polls = 0].pc = "create"
        BY <1>0, ZenonT(60) DEF CRec
      <4> QED
        BY <3>1, <4>1 DEF Continue, Idle
    <3> QED
      BY <1>0, <2>2, <3>2, <3>3
  <2> QED
    BY <2>1, <2>2
<1>3. CASE TerminateSession
  <2> DEFINE s == MarkDead(m, call.tid)
             keep == IF call.cont = "cleanup" THEN LetGo(call.tid) ELSE UNCHANGED letGo
             tell == told' = told \cup ({call.tid} \cap Generated)
  <2>0. Same(m, s)
    BY Known, VerdictSame
  <2> HIDE DEF s
  <2>1. \/ tell /\ m' = s /\ Goto("poll")
        \/ tell /\ TerminateFailed(s)
        \/ TerminateDone(s) /\ LetGo(call.tid)
        \/ (TerminateFailed(s) \/ TerminateCutShort(s)) /\ keep
    BY <1>3, ZenonT(60) DEF TerminateSession, s
  <2>2. CASE tell /\ m' = s /\ Goto("poll")
    <3>1. call'.pc = "poll" /\ call'.tid = call.tid
      BY <1>0, <2>2, GotoAt DEF Goto, CallAt, Pc
    <3> QED
      BY <2>0, <2>2, <3>1 DEF Same
  <2>3. CASE tell /\ TerminateFailed(s)
    BY <1>1, <2>0, <2>3
  <2>4. CASE TerminateDone(s) /\ LetGo(call.tid)
    BY <1>2, <2>0, <2>4 DEF LetGo
  <2>5. CASE (TerminateFailed(s) \/ TerminateCutShort(s)) /\ keep
    <3>1. m'.id = m.id /\ call'.pc = "idle"
      BY <1>1, <2>0, <2>5
    <3>2. call.cont = "cleanup" => LetGo(call.tid)
      BY <2>5
    <3> QED
      BY <1>0, <3>1, <3>2 DEF LetGo
  <2> QED
    BY <2>1, <2>2, <2>3, <2>4, <2>5
<1>4. CASE TerminatePoll
  <2> DEFINE k == call.polls + 1
             d == [call EXCEPT !.polls = k]
  <2>0. /\ call.pc = "poll" /\ Same(m, m) /\ told' = told
        /\ call.tid \in Generated => call.tid \in told
    BY <1>4, Known, VerdictSame DEF TerminatePoll, Accounted
  <2>1. \/ m' = m /\ call' = d
        \/ TerminateDone(m) \/ TerminateFailed(m) \/ TerminateCutShort(m)
    BY <1>4, ZenonT(60) DEF TerminatePoll
  <2> HIDE DEF k
  <2>2. d.pc = "poll" /\ d.tid = call.tid
    BY <1>0, <2>0, ZenonT(60) DEF CRec
  <2> HIDE DEF d
  <2> QED
    BY <1>1, <1>2, <2>0, <2>1, <2>2
<1> QED
  BY <1>3, <1>4

\* A step of the server or of another client revives no generated session.
LEMMA WorldStep ==
    ASSUME IInv, NEW i \in Id, ServerStep(i) \/ OtherClient(i), NEW g \in Generated,
           Alive(srv'[g])
    PROVE  Alive(srv[g])
<1>0. /\ srv \in [Id -> Resource] /\ g \in Id /\ g \notin Custom
      /\ \A j \in Id : srv[j] \in Resource
  BY Known, SessionAssumption DEF Id
<1>1. CASE i # g
  <2>1. srv'[g] = srv[g]
    BY <1>0, <1>1, ZenonT(60) DEF ServerStep, OtherClient
  <2> QED
    BY <2>1
<1>2. CASE i = g
  <2>1. CASE srv[g].st \in {"CREATING", "ACTIVE"}
    BY <2>1 DEF Alive
  <2>2. CASE srv[g].st = "TERMINATING" /\ ServerStep(g)
    <3>1. PICK st \in {"FAILED", "TERMINATED"} : srv' = [srv EXCEPT ![g].st = st]
      BY <2>2, Zenon DEF ServerStep
    <3>2. srv'[g].st = st
      BY <1>0, <3>1, ZenonT(60) DEF Resource
    <3> QED
      BY <3>2 DEF Alive
  <2>3. CASE OtherClient(g)
    <3>1. srv' = [srv EXCEPT ![g].st = "NONE", ![g].ep = FALSE]
      BY <1>0, <2>3, Zenon DEF OtherClient
    <3>2. srv'[g].st = "NONE"
      BY <1>0, <3>1, ZenonT(60) DEF Resource
    <3> QED
      BY <3>2 DEF Alive
  <2> QED
    BY <1>2, <2>1, <2>2, <2>3 DEF ServerStep
<1> QED
  BY <1>1, <1>2

\* CreateSession takes the new session into account, whether the process hears of
\* it or not.
LEMMA CreateAccounted ==
    ASSUME IInv, Accounted, CreateSession, IInv'
    PROVE  NoOrphan' /\ call'.pc \in {"waitcreate", "idle"}
<1>0. /\ srv \in [Id -> Resource] /\ m \in MRec /\ call \in CRec /\ call.pc = "create"
      /\ NewIds \subseteq Id /\ told' = told
  BY Known DEF CreateSession, NewIds, Id
<1>1. PICK i \in NewIds :
        LET s == [m EXCEPT !.id = i, !.custom = call.req # Gen]
        IN /\ \/ \E new : srv' = [srv EXCEPT ![i] = new]
              \/ srv' = srv
           /\ \/ m' = s
              \/ m' = ClearId(s) /\ (srv' = srv \/ LetGo(i))
           /\ letGo' = letGo \/ LetGo(i)
           /\ \/ call' = [call EXCEPT !.pc = "waitcreate", !.creating = TRUE]
              \/ Raise
  BY ZenonT(60) DEF CreateSession, Interrupted
<1> DEFINE b == call.req # Gen
           s == [m EXCEPT !.id = i, !.custom = b]
<1>2. \/ m' = s
      \/ m' = ClearId(s) /\ (srv' = srv \/ LetGo(i))
  BY <1>1
<1>3. s.id = i
  BY <1>0, ZenonT(60) DEF MRec
<1> HIDE DEF s
<1>4. ASSUME NEW g \in Generated, Alive(srv'[g])
      PROVE  m'.id = g \/ g \in told' \cup letGo'
  <2>1. CASE g = i /\ srv' # srv
    BY <1>2, <1>3, <2>1 DEF LetGo
  <2>2. CASE ~(g = i /\ srv' # srv)
    <3>1. srv'[g] = srv[g]
      BY <1>0, <1>1, <2>2, SessionAssumption, ZenonT(60) DEF Id
    <3>2. m.id # g
      BY <1>0, <1>4, <3>1 DEF Accounted
    <3>3. g \in told \cup letGo
      BY <1>0, <1>4, <3>1, <3>2 DEF Accounted, NoOrphan
    <3> QED
      BY <1>0, <1>1, <3>3 DEF LetGo
  <2> QED
    BY <2>1, <2>2
<1>5. call'.pc \in {"waitcreate", "idle"}
  <2> DEFINE d == [call EXCEPT !.pc = "waitcreate", !.creating = TRUE]
  <2>1. d.pc = "waitcreate"
    BY <1>0, ZenonT(60) DEF CRec
  <2>2. call' = d \/ call' = Idle(NoObj)
    BY <1>1, Zenon DEF Raise
  <2> HIDE DEF d
  <2> QED
    BY <2>1, <2>2 DEF Idle
<1> QED
  BY <1>4, <1>5 DEF NoOrphan

\* A poll begins with a TerminateSession that was accepted.
LEMMA PollEntry ==
    ASSUME IInv, [Next]_vars, call.pc \notin {"terminate", "poll"}
    PROVE  call'.pc # "poll"
<1>0. call \in CRec
  BY Known
<1>i. \A o : Idle(o).pc = "idle"
  BY DEF Idle
<1>r. /\ Raise => call'.pc # "poll"
      /\ Interrupted => call'.pc # "poll"
      /\ \A s, o : Return(s, o) => call'.pc # "poll"
  BY <1>i, Zenon DEF Raise, Interrupted, Return
<1>g. \A pc : Goto(pc) => call'.pc = pc
  BY <1>0, Zenon DEF Goto, CRec
<1>c. ASSUME NEW c \in CRec, NEW cont, Continue(c, cont) PROVE call'.pc # "poll"
  <2> DEFINE d == [c EXCEPT !.pc = "create", !.cont = "none", !.target = NoObj,
                            !.tid = NoId, !.polls = 0]
  <2>1. d.pc = "create"
    BY ZenonT(60) DEF CRec
  <2>2. call' = d \/ call' = Idle(NoObj)
    BY <1>c, Zenon DEF Continue
  <2> HIDE DEF d
  <2> QED
    BY <1>i, <2>1, <2>2
<1>a. ASSUME NEW c \in CRec, NEW s, NEW o, NEW a, NEW cont, BeginStop(s, c, o, a, cont)
      PROVE  call'.pc # "poll"
  <2> DEFINE d == [c EXCEPT !.pc = "terminate", !.cont = cont, !.target = o,
                            !.tid = s.id, !.polls = 0]
  <2>1. d.pc = "terminate"
    BY ZenonT(60) DEF CRec
  <2>2. call' = d \/ Continue(c, cont)
    BY <1>a, Zenon DEF BeginStop
  <2> HIDE DEF d
  <2> QED
    BY <1>c, <2>1, <2>2
<1>b. ASSUME Retry PROVE call'.pc # "poll"
  <2> DEFINE k == call.attempt + 1
             d == [call EXCEPT !.pc = "create", !.attempt = k, !.resp = NoResource,
                               !.target = NoObj]
  <2>1. call' = d \/ Raise
    BY <1>b, Zenon DEF Retry
  <2> HIDE DEF k
  <2>2. d.pc = "create"
    BY <1>0, ZenonT(60) DEF CRec
  <2> HIDE DEF d
  <2> QED
    BY <1>r, <2>1, <2>2
<1>e. ASSUME NEW pc \in {"connect", "waitep", "reuse"}, NEW res,
             call' = [call EXCEPT !.pc = pc, !.resp = res]
      PROVE  call'.pc # "poll"
  <2>1. call'.pc = pc
    BY <1>0, <1>e, ZenonT(60) DEF CRec
  <2> QED
    BY <2>1
<1>1. CASE Lookup \/ WaitForTermination \/ DeleteSession
  <2>1. \/ \E pc \in {"waitterm", "delete", "reuse"} : Goto(pc)
        \/ \E res : call' = [call EXCEPT !.pc = "reuse", !.resp = res]
        \/ Interrupted
    <3>1. CASE Lookup
      BY <3>1, ZenonT(60) DEF Lookup, HandleFound, HandleAbsent
    <3>2. CASE WaitForTermination
      BY <3>2, ZenonT(60) DEF WaitForTermination, HandleAbsent
    <3>3. CASE DeleteSession
      BY <3>3, ZenonT(60) DEF DeleteSession, HandleAbsent
    <3> QED
      BY <1>1, <3>1, <3>2, <3>3
  <2> QED
    BY <1>e, <1>g, <1>r, <2>1
<1>2. CASE Reuse
  <2>1. ASSUME NEW s, NEW res, Found(s, res) PROVE call'.pc # "poll"
    <3> DEFINE pc == IF HasEndpoint(res) THEN "connect" ELSE "waitep"
    <3>1. \/ \E q, o : Return(q, o)
          \/ call' = [call EXCEPT !.pc = pc, !.resp = res]
      BY <2>1, Zenon DEF Found
    <3>2. pc \in {"connect", "waitep", "reuse"}
      OBVIOUS
    <3> HIDE DEF pc
    <3> QED
      BY <1>e, <1>r, <3>1, <3>2
  <2>2. ASSUME NEW s, NEW o, Gone(s, o) PROVE call'.pc # "poll"
    BY <1>0, <1>a, <1>g, <2>2 DEF Gone
  <2>3. FailOpen => call'.pc # "poll"
    BY <1>i, <1>r, Zenon DEF FailOpen
  <2>4. CheckedGetSession => call'.pc # "poll"
    BY <2>1, <2>2, Zenon DEF CheckedGetSession
  <2> QED
    BY <1>2, <1>r, <2>1, <2>2, <2>3, <2>4, Zenon DEF Reuse
<1>3. CASE CreateSession \/ CreateRefused
  <2> DEFINE d == [call EXCEPT !.pc = "waitcreate", !.creating = TRUE]
  <2>1. call' = d \/ Raise \/ Interrupted
    BY <1>3, ZenonT(60) DEF CreateSession, CreateRefused
  <2>2. d.pc = "waitcreate"
    BY <1>0, ZenonT(60) DEF CRec
  <2> HIDE DEF d
  <2> QED
    BY <1>r, <2>1, <2>2
<1>4. CASE WaitCreated
  <2>1. \/ Retry \/ Raise \/ Interrupted
        \/ \E pc \in {"connect", "waitep"} :
              call' = [call EXCEPT !.pc = pc, !.resp = srv[m.id]]
    BY <1>4, ZenonT(60) DEF WaitCreated
  <2> QED
    BY <1>b, <1>e, <1>r, <2>1
<1>5. CASE WaitEndpoint
  <2> DEFINE d == [call EXCEPT !.pc = "terminate", !.cont = "cleanup",
                               !.tid = m.id, !.polls = 0]
  <2>1. \/ Retry \/ Raise \/ call' = d
        \/ call' = [call EXCEPT !.pc = "connect", !.resp = srv[m.id]]
    BY <1>5, ZenonT(60) DEF WaitEndpoint
  <2>2. d.pc = "terminate"
    BY <1>0, ZenonT(60) DEF CRec
  <2> HIDE DEF d
  <2> QED
    BY <1>b, <1>e, <1>r, <2>1, <2>2
<1>6. CASE Connect
  <2>1. \/ Raise \/ \E s, o : Return(s, o)
        \/ \E o : call' = [call EXCEPT !.pc = "check", !.target = o]
    BY <1>6, ZenonT(60) DEF Connect
  <2>2. ASSUME NEW o, call' = [call EXCEPT !.pc = "check", !.target = o]
        PROVE  call'.pc = "check"
    BY <1>0, <2>2, ZenonT(60) DEF CRec
  <2> QED
    BY <1>r, <2>1, <2>2
<1>7. CASE CheckNewSession
  <2>1. \/ Retry \/ \E s, o : Return(s, o)
        \/ \E o, a : BeginStop(m, call, o, a, "raise")
    BY <1>7, ZenonT(60) DEF CheckNewSession
  <2> QED
    BY <1>0, <1>a, <1>b, <1>r, <2>1
<1>8. ASSUME NEW t \in Thread, NEW r, GetOrCreate(t, r) PROVE call'.pc # "poll"
  <2> DEFINE i == Idle(NoObj)
             pc == IF r = Gen THEN "reuse" ELSE "lookup"
  <2>1. call' = [i EXCEPT !.pc = pc, !.t = t, !.req = r]
    BY <1>8, Zenon DEF GetOrCreate
  <2>2. pc # "poll"
    OBVIOUS
  <2>3. i \in CRec
    <3>1. NoObj \in 0..MaxObj
      BY SessionAssumption DEF NoObj
    <3> QED
      BY <3>1, Known, IdleCore
  <2> HIDE DEF pc, i
  <2>4. call'.pc = pc
    BY <2>1, <2>3, ZenonT(60) DEF CRec
  <2> QED
    BY <2>2, <2>4
<1>9. ASSUME NEW t \in Thread, NEW o, NEW a, Stop(t, o, a) PROVE call'.pc # "poll"
  <2> DEFINE i == Idle(NoObj)
             c == [i EXCEPT !.t = t]
  <2>1. \E cont : BeginStop(m, c, o, a, cont)
    BY <1>9, Zenon DEF Stop
  <2>2. i \in CRec
    <3>1. NoObj \in 0..MaxObj
      BY SessionAssumption DEF NoObj
    <3> QED
      BY <3>1, Known, IdleCore
  <2> HIDE DEF i
  <2>3. c \in CRec
    BY <2>2, ZenonT(60) DEF CRec
  <2> HIDE DEF c
  <2> QED
    BY <1>a, <2>1, <2>3
<1>10. ASSUME NEW i \in Id, ServerStep(i) \/ OtherClient(i) PROVE call' = call
  BY <1>10, Zenon DEF ServerStep, OtherClient
<1>11. ~TerminateSession /\ ~TerminatePoll /\ (GuardVerdict => call' = call)
  BY DEF TerminateSession, TerminatePoll, GuardVerdict
<1> QED
  BY <1>1, <1>2, <1>3, <1>4, <1>5, <1>6, <1>7, <1>8, <1>9, <1>10, <1>11 DEF Next, CallStep, vars

\* Every step accounts for every session this process created.
LEMMA AccountedStep ==
    ASSUME IInv, IInv', Accounted, [Next]_vars
    PROVE  Accounted'
<1>a. /\ told \subseteq told' /\ letGo \subseteq letGo'
  BY SetsGrow DEF LetGo
<1>1. ASSUME NEW i \in Id, ServerStep(i) \/ OtherClient(i) PROVE Accounted'
  <2>1. UNCHANGED <<m, call, told, letGo>>
    BY <1>1, Zenon DEF ServerStep, OtherClient
  <2>2. \A g \in Generated : Alive(srv'[g]) => Alive(srv[g])
    BY <1>1, WorldStep
  <2> QED
    BY <2>1, <2>2 DEF Accounted, NoOrphan
<1>2. CASE CreateSession
  BY <1>2, CreateAccounted DEF Accounted
<1>3. CASE TerminateSession \/ TerminatePoll
  <2>1. srv' = srv /\ call.pc \in {"terminate", "poll"}
    BY <1>3 DEF TerminateSession, TerminatePoll
  <2>2. /\ m'.id = m.id \/ m.id = call.tid
        /\ call.tid \in Generated => call.tid \in told' \cup letGo' \/ m'.id = call.tid
        /\ call'.pc = "create" => m'.id = NoId
        /\ call'.pc = "poll" => call'.tid = call.tid /\ ({call.tid} \cap Generated) \subseteq told'
    BY <1>3, TerminateFate
  <2>3. NoOrphan'
    BY <1>a, <2>1, <2>2 DEF Accounted, NoOrphan
  <2> QED
    BY <2>2, <2>3, SessionAssumption DEF Accounted
<1>4. CASE CreateRefused
  BY <1>4 DEF CreateRefused, Raise, Idle, Accounted, NoOrphan
<1>5. CASE UNCHANGED vars \/ GuardVerdict
  <2>1. m'.id = m.id /\ UNCHANGED <<srv, call, told, letGo>>
    BY <1>5, Known, GuardSame DEF vars, Same
  <2> QED
    BY <2>1 DEF Accounted, NoOrphan
<1>6. ASSUME \A g \in Generated : srv'[g] = srv[g],
             call.pc \notin {"create", "terminate", "poll"},
             call' # call \/ m' # m, ~GuardVerdict
      PROVE  Accounted'
  <2>1. Fate /\ Cleared
    BY <1>6, FateStep
  <2>2. ASSUME NEW g \in Generated, Alive(srv'[g])
        PROVE  \/ m'.id = g
               \/ call'.pc = "terminate" /\ call'.tid = g
               \/ g \in told' \cup letGo'
    <3>1. Alive(srv[g])
      BY <1>6, <2>2
    <3>2. m.id = g \/ g \in told \cup letGo
      BY <1>6, <3>1 DEF Accounted, NoOrphan
    <3>3. CASE m.id = g
      BY <2>1, <3>1, <3>3 DEF Fate, LetGo
    <3> QED
      BY <1>a, <3>2, <3>3
  <2>3. call'.pc = "create" /\ m'.id \in Generated => ~Alive(srv'[m'.id])
    BY <1>6, <2>1, SessionAssumption DEF Cleared
  <2> QED
    BY <1>6, <2>2, <2>3, PollEntry DEF Accounted, NoOrphan
<1>7. ASSUME call.pc \notin {"create", "terminate", "poll"}, CallStep
             \/ (\E t \in Thread, r \in Custom \cup {Gen} : GetOrCreate(t, r))
             \/ (\E t \in Thread, o \in Obj, a \in {"auto", "yes", "no"} : Stop(t, o, a))
      PROVE  \A g \in Generated : srv'[g] = srv[g]
  <2>1. CASE DeleteSession
    <3>1. call.req \in Custom /\ srv \in [Id -> Resource]
      BY <2>1, Known DEF DeleteSession, Phase
    <3>2. \/ srv' = srv
          \/ srv' = [srv EXCEPT ![call.req].st = "NONE", ![call.req].ep = FALSE]
      BY <2>1, ZenonT(60) DEF DeleteSession
    <3>3. \A g \in Generated : g \in Id /\ g # call.req
      BY <3>1, SessionAssumption DEF Id
    <3> QED
      BY <3>1, <3>2, <3>3, ZenonT(60)
  <2>2. CASE ~DeleteSession
    <3>1. srv' = srv
      BY <1>7, <2>2, ZenonT(60) DEF CallStep, GetOrCreate, Stop, Lookup, WaitForTermination,
         Reuse, CreateSession, CreateRefused, WaitCreated, WaitEndpoint, Connect,
         CheckNewSession, TerminateSession, TerminatePoll
    <3> QED
      BY <3>1
  <2> QED
    BY <2>1, <2>2
<1>8. CASE (\A g \in Generated : srv'[g] = srv[g]) /\ call' = call /\ m' = m
  BY <1>8, <1>a DEF Accounted, NoOrphan
<1>9. \/ CallStep
      \/ (\E t \in Thread, r \in Custom \cup {Gen} : GetOrCreate(t, r))
      \/ (\E t \in Thread, o \in Obj, a \in {"auto", "yes", "no"} : Stop(t, o, a))
      \/ (\E i \in Id : ServerStep(i) \/ OtherClient(i))
      \/ UNCHANGED vars \/ GuardVerdict
  BY Zenon DEF Next
<1>10. CASE call.pc \in {"create", "terminate", "poll"}
  <2>1. CreateSession \/ CreateRefused \/ TerminateSession \/ TerminatePoll \/ ~CallStep
    BY <1>10 DEF CallStep, Lookup, WaitForTermination, DeleteSession, Reuse, WaitCreated,
       WaitEndpoint, Connect, CheckNewSession
  <2>2. \A t, r, o, a : ~GetOrCreate(t, r) /\ ~Stop(t, o, a)
    BY <1>10 DEF GetOrCreate, Stop
  <2> QED
    BY <1>1, <1>2, <1>3, <1>4, <1>5, <1>9, <2>1, <2>2
<1> QED
  BY <1>1, <1>5, <1>6, <1>7, <1>8, <1>9, <1>10

\* No stop(), failed start or interrupt orphans a session this process created: a
\* live one is the session it would terminate next, or its termination is on its
\* way or accepted, or it was left to its TTL on purpose.
THEOREM NothingOrphaned == Spec => []NoOrphan
<1>1. Init => Accounted
  BY DEF Init, Accounted, NoOrphan, Alive, NoResource, Idle, Id
<1>2. IInv /\ IInv' /\ Accounted /\ [Next]_vars => Accounted'
  BY AccountedStep
<1>3. Accounted => NoOrphan
  BY DEF Accounted
<1> QED
  BY <1>1, <1>2, <1>3, Inductive, PTL DEF Spec

-----------------------------------------------------------------------------
(* Every step of a call brings it nearer to its end. *)

\* What the measures are made of.
LEMMA LeftIs ==
    ASSUME NEW c, NEW d, c.attempt \in 1..(StartRetries + 1), c.polls \in 0..MaxPolls,
           d.attempt \in 1..(StartRetries + 1), d.polls \in 0..MaxPolls, d.pc \in Pc
    PROVE  /\ AttemptsLeft(d) \in Nat /\ StepsLeft(d) \in Nat
           /\ AttemptsLeft(d) < AttemptsLeft(c) => Nearer(d, c)
           /\ AttemptsLeft(d) = AttemptsLeft(c) /\ StepsLeft(d) < StepsLeft(c) => Nearer(d, c)
<1>1. AttemptsLeft(d) \in Nat
  <2> DEFINE more == IF \/ d.pc \in {"lookup", "waitterm", "delete", "reuse"}
                        \/ d.pc \in {"terminate", "poll"} /\ d.cont = "create"
                     THEN 1 ELSE 0
  <2>1. more \in {0, 1}
    OBVIOUS
  <2>2. AttemptsLeft(d) = (StartRetries + 1 - d.attempt) + more
    BY DEF AttemptsLeft
  <2> HIDE DEF more
  <2> QED
    BY <2>1, <2>2, SessionAssumption
<1>2. StepsLeft(d) \in Nat
  BY SessionAssumption DEF StepsLeft, Pc
<1> QED
  BY <1>1, <1>2 DEF Nearer

\* A call goes on within an attempt: the places in their order, and what a poll counts.
Place(pc) ==
    CASE pc \in {"lookup", "create"}       -> 6
      [] pc \in {"waitterm", "waitcreate"} -> 5
      [] pc \in {"delete", "waitep"}       -> 4
      [] pc \in {"reuse", "connect"}       -> 3
      [] pc = "check"                      -> 2
      [] pc = "terminate"                  -> 1
      [] OTHER                             -> 0

Finding == {"lookup", "waitterm", "delete", "reuse"}
Making == {"create", "waitcreate", "waitep", "connect", "check"}
Ending == {"terminate", "poll"}

LEMMA OnwardNearer ==
    ASSUME NEW c \in CRec, NEW d \in CRec, d.attempt = c.attempt, c.pc # "idle",
           \/ c.pc \in Finding /\ d.pc \in Finding /\ Place(d.pc) < Place(c.pc)
           \/ c.pc \in Finding /\ d.pc \in Making
           \/ c.pc \in Finding /\ d.pc = "terminate" /\ d.cont = "create"
           \/ c.pc \in Making /\ d.pc \in Making /\ Place(d.pc) < Place(c.pc)
           \/ c.pc \in Making /\ d.pc = "terminate" /\ d.cont # "create"
           \/ c.pc \in Ending /\ c.cont = "create" /\ d.pc \in Making
           \/ c.pc = "terminate" /\ d.pc = "poll" /\ d.cont = c.cont
           \/ c.pc = "poll" /\ d.pc = "poll" /\ d.cont = c.cont /\ c.polls < d.polls
    PROVE  Nearer(d, c)
<1>1. /\ c.attempt \in 1..(StartRetries + 1) /\ c.polls \in 0..MaxPolls
      /\ d.attempt \in 1..(StartRetries + 1) /\ d.polls \in 0..MaxPolls
      /\ d.pc \in Pc
  BY Zenon DEF CRec
<1>2. StartRetries \in Nat /\ MaxPolls \in Nat \ {0}
  BY SessionAssumption
<1>3. /\ AttemptsLeft(d) < AttemptsLeft(c) => Nearer(d, c)
      /\ AttemptsLeft(d) = AttemptsLeft(c) /\ StepsLeft(d) < StepsLeft(c) => Nearer(d, c)
  BY <1>1, LeftIs
<1>4. \A e \in {c, d} : AttemptsLeft(e) =
         (StartRetries + 1 - e.attempt)
             + IF e.pc \in Finding \/ (e.pc \in Ending /\ e.cont = "create") THEN 1 ELSE 0
  BY DEF AttemptsLeft, Finding, Ending
<1>5. \A e \in {c, d} : e.pc \in Finding \cup Making \cup {"terminate"} =>
         StepsLeft(e) = MaxPolls + Place(e.pc) /\ Place(e.pc) \in 1..6
  BY <1>2 DEF StepsLeft, Place, Finding, Making
<1>6. \A e \in {c, d} : e.pc = "poll" => StepsLeft(e) = MaxPolls - e.polls
  BY DEF StepsLeft
<1>7. CASE c.pc \in Finding
  <2>1. AttemptsLeft(c) = (StartRetries + 1 - c.attempt) + 1
    BY <1>4, <1>7
  <2>2. CASE d.pc \in Finding /\ Place(d.pc) < Place(c.pc)
    BY <1>1, <1>2, <1>3, <1>4, <1>5, <1>7, <2>1, <2>2
  <2>3. CASE d.pc \in Making
    <3>1. AttemptsLeft(d) = (StartRetries + 1 - d.attempt) + 0
      BY <1>4, <2>3 DEF Making, Finding, Ending
    <3> QED
      BY <1>1, <1>2, <1>3, <2>1, <3>1
  <2>4. CASE d.pc = "terminate" /\ d.cont = "create"
    <3>1. AttemptsLeft(d) = AttemptsLeft(c)
      BY <1>4, <2>1, <2>4 DEF Ending
    <3>2. /\ StepsLeft(d) = MaxPolls + 1 /\ StepsLeft(c) = MaxPolls + Place(c.pc)
          /\ Place(c.pc) \in 3..6
      <4>1. Place(c.pc) \in 3..6
        BY <1>7 DEF Place, Finding
      <4>2. StepsLeft(d) = MaxPolls + 1
        BY <2>4 DEF StepsLeft
      <4>3. c.pc \in Finding \cup Making \cup {"terminate"}
        BY <1>7
      <4> QED
        BY <1>5, <4>1, <4>2, <4>3
    <3> QED
      BY <1>2, <1>3, <3>1, <3>2
  <2> QED
    BY <1>7, <2>2, <2>3, <2>4 DEF Finding, Making, Ending
<1>8. CASE c.pc \in Making
  <2>1. AttemptsLeft(c) = (StartRetries + 1 - c.attempt) + 0
    BY <1>4, <1>8 DEF Making, Finding, Ending
  <2>2. AttemptsLeft(d) = (StartRetries + 1 - d.attempt) + 0
    BY <1>4, <1>8 DEF Making, Finding, Ending
  <2>3. CASE d.pc \in Making /\ Place(d.pc) < Place(c.pc)
    BY <1>2, <1>3, <1>5, <1>8, <2>1, <2>2, <2>3
  <2>4. CASE d.pc = "terminate"
    <3>1. /\ StepsLeft(d) = MaxPolls + 1 /\ StepsLeft(c) = MaxPolls + Place(c.pc)
          /\ Place(c.pc) \in 2..6
      <4>1. Place(c.pc) \in 2..6
        BY <1>8 DEF Place, Making
      <4>2. StepsLeft(d) = MaxPolls + 1
        BY <2>4 DEF StepsLeft
      <4>3. c.pc \in Finding \cup Making \cup {"terminate"}
        BY <1>8
      <4> QED
        BY <1>5, <4>1, <4>2, <4>3
    <3> QED
      BY <1>2, <1>3, <2>1, <2>2, <3>1
  <2> QED
    BY <1>8, <2>3, <2>4 DEF Finding, Making, Ending
<1>9. CASE c.pc \in Ending
  <2>1. CASE c.cont = "create" /\ d.pc \in Making
    <3>1. AttemptsLeft(c) = (StartRetries + 1 - c.attempt) + 1
      BY <1>4, <1>9, <2>1
    <3>2. AttemptsLeft(d) = (StartRetries + 1 - d.attempt) + 0
      BY <1>4, <2>1 DEF Making, Finding, Ending
    <3> QED
      BY <1>1, <1>2, <1>3, <3>1, <3>2
  <2>2. CASE d.pc = "poll" /\ d.cont = c.cont
    <3>1. AttemptsLeft(d) = AttemptsLeft(c)
      BY <1>4, <1>9, <2>2 DEF Finding, Ending
    <3>2. StepsLeft(d) = MaxPolls - d.polls
      BY <1>6, <2>2
    <3>3. CASE c.pc = "terminate"
      <4>1. StepsLeft(c) = MaxPolls + 1
        BY <3>3 DEF StepsLeft
      <4> QED
        BY <1>1, <1>2, <1>3, <3>1, <3>2, <4>1
    <3>4. CASE c.pc = "poll" /\ c.polls < d.polls
      <4>1. StepsLeft(c) = MaxPolls - c.polls
        BY <1>6, <3>4
      <4> QED
        BY <1>1, <1>2, <1>3, <3>1, <3>2, <3>4, <4>1
    <3> QED
      BY <1>9, <2>2, <3>3, <3>4 DEF Finding, Making, Ending
  <2> QED
    BY <1>9, <2>1, <2>2 DEF Finding, Making, Ending
<1> QED
  BY <1>7, <1>8, <1>9 DEF Finding, Making, Ending

\* The call goes on at pc.
Goes(pc) == call'.pc = pc /\ call'.attempt = call.attempt

\* Where the steps that many paths share lead.
LEMMA WhereItGoes ==
    ASSUME call \in CRec
    PROVE  /\ \A o : call' = Idle(o) => call'.pc = "idle"
           /\ Raise => call'.pc = "idle"
           /\ Interrupted => call'.pc = "idle"
           /\ \A s, o : Return(s, o) => call'.pc = "idle"
           /\ \A pc : Goto(pc) => /\ Goes(pc) /\ call'.cont = call.cont
                                  /\ call'.polls = call.polls
           /\ \A pc, r : call' = [call EXCEPT !.pc = pc, !.resp = r] => Goes(pc)
           /\ \A cont : Continue(call, cont) =>
                 \/ call'.pc = "idle"
                 \/ cont = "create" /\ Goes("create")
           /\ \A s, o, a, cont : BeginStop(s, call, o, a, cont) =>
                 \/ call'.pc = "idle"
                 \/ cont = "create" /\ Goes("create")
                 \/ Goes("terminate") /\ call'.cont = cont
<1>1. \A o : Idle(o).pc = "idle"
  BY DEF Idle
<1>2. /\ \A o : call' = Idle(o) => call'.pc = "idle"
      /\ Raise => call'.pc = "idle"
      /\ Interrupted => call'.pc = "idle"
      /\ \A s, o : Return(s, o) => call'.pc = "idle"
  BY <1>1, Zenon DEF Raise, Interrupted, Return
<1>3. \A pc : Goto(pc) => Goes(pc) /\ call'.cont = call.cont /\ call'.polls = call.polls
  BY ZenonT(60) DEF Goto, Goes, CRec
<1>4. \A pc, r : call' = [call EXCEPT !.pc = pc, !.resp = r] => Goes(pc)
  BY ZenonT(60) DEF Goes, CRec
<1>5. ASSUME NEW cont, Continue(call, cont)
      PROVE  call'.pc = "idle" \/ (cont = "create" /\ Goes("create"))
  <2>1. CASE cont # "create"
    BY <1>1, <1>5, <2>1, Zenon DEF Continue
  <2>2. CASE cont = "create"
    BY <1>5, <2>2, ZenonT(60) DEF Continue, Goes, CRec
  <2> QED
    BY <2>1, <2>2
<1>6. ASSUME NEW s, NEW o, NEW a, NEW cont, BeginStop(s, call, o, a, cont)
      PROVE  \/ call'.pc = "idle"
             \/ cont = "create" /\ Goes("create")
             \/ Goes("terminate") /\ call'.cont = cont
  <2>1. CASE ShouldTerminate(s, o, a)
    <3>1. call' = [call EXCEPT !.pc = "terminate", !.cont = cont, !.target = o,
                               !.tid = s.id, !.polls = 0]
      BY <1>6, <2>1, Zenon DEF BeginStop
    <3> QED
      BY <3>1, ZenonT(60) DEF Goes, CRec
  <2>2. CASE ~ShouldTerminate(s, o, a)
    BY <1>5, <1>6, <2>2, Zenon DEF BeginStop
  <2> QED
    BY <2>1, <2>2
<1> QED
  BY <1>2, <1>3, <1>4, <1>5, <1>6, Zenon

\* Another attempt is one attempt less.
LEMMA RetryNearer ==
    ASSUME call \in CRec, call' \in CRec, call.pc \in Making, Retry
    PROVE  call'.pc = "idle" \/ Nearer(call', call)
<1>1. CASE Raise
  BY <1>1, WhereItGoes, Zenon
<1>2. CASE ~Raise
  <2> DEFINE k == call.attempt + 1
  <2>1. call' = [call EXCEPT !.pc = "create", !.attempt = k, !.resp = NoResource,
                             !.target = NoObj]
    BY <1>2, Zenon DEF Retry
  <2> HIDE DEF k
  <2>2. call'.pc = "create" /\ call'.attempt = k
    BY <2>1, ZenonT(60) DEF CRec
  <2>3. /\ call.attempt \in 1..(StartRetries + 1) /\ call.polls \in 0..MaxPolls
        /\ call'.attempt \in 1..(StartRetries + 1) /\ call'.polls \in 0..MaxPolls
        /\ call'.pc \in Pc
    BY Zenon DEF CRec
  <2>4. /\ AttemptsLeft(call') = (StartRetries + 1 - k) + 0
        /\ AttemptsLeft(call) = (StartRetries + 1 - call.attempt) + 0
    BY <2>2 DEF AttemptsLeft, Making
  <2>5. AttemptsLeft(call') < AttemptsLeft(call)
    BY <2>3, <2>4, SessionAssumption DEF k
  <2> QED
    BY <2>3, <2>5, LeftIs
<1> QED
  BY <1>1, <1>2

\* Each RPC and each wait of a call, whatever its outcome.
LEMMA CallAdvances ==
    ASSUME IInv, IInv', CallStep
    PROVE  call'.pc = "idle" \/ Nearer(call', call)
<1> DEFINE On == call'.pc = "idle" \/ Nearer(call', call)
<1>0. call \in CRec /\ call' \in CRec
  <2>1. TypeOK /\ TypeOK'
    BY Zenon DEF IInv
  <2> QED
    BY <2>1, Zenon DEF TypeOK, CRec
<1>a. ASSUME NEW pc, Goes(pc), pc \in Finding \cup Making,
             call.pc \in Finding \cup Making \cup Ending,
             \/ call.pc \in Finding /\ pc \in Making
             \/ call.pc \in Finding /\ pc \in Finding /\ Place(pc) < Place(call.pc)
             \/ call.pc \in Making /\ pc \in Making /\ Place(pc) < Place(call.pc)
             \/ call.pc \in Ending /\ call.cont = "create" /\ pc \in Making
      PROVE  On
  <2>1. call'.pc = pc /\ call'.attempt = call.attempt
    BY <1>a DEF Goes
  <2>2. call.pc # "idle"
    BY <1>a DEF Finding, Making, Ending
  <2> QED
    BY <1>0, <1>a, <2>1, <2>2, OnwardNearer
<1>b. ASSUME Goes("terminate"),
             \/ call.pc \in Finding /\ call'.cont = "create"
             \/ call.pc \in Making /\ call'.cont # "create"
      PROVE  On
  <2>1. call'.pc = "terminate" /\ call'.attempt = call.attempt
    BY <1>b DEF Goes
  <2>2. call.pc # "idle"
    BY <1>b DEF Finding, Making
  <2> QED
    BY <1>0, <1>b, <2>1, <2>2, OnwardNearer
<1>1. CASE Lookup \/ WaitForTermination \/ DeleteSession
  <2>1. call.pc \in {"lookup", "waitterm", "delete"}
    BY <1>1 DEF Lookup, WaitForTermination, DeleteSession
  <2>2. \/ call'.pc = "idle" \/ Goes("reuse")
        \/ call.pc = "lookup" /\ (Goes("waitterm") \/ Goes("delete"))
        \/ call.pc = "waitterm" /\ Goes("delete")
    <3>1. ASSUME NEW r, HandleFound(r) PROVE Goes("reuse")
      BY <1>0, <3>1, WhereItGoes, Zenon DEF HandleFound
    <3>2. HandleAbsent => Goes("reuse")
      BY <1>0, WhereItGoes, Zenon DEF HandleAbsent
    <3>3. CASE Lookup
      BY <1>0, <3>1, <3>2, <3>3, WhereItGoes, Zenon DEF Lookup
    <3>4. CASE WaitForTermination
      BY <1>0, <3>2, <3>4, WhereItGoes, Zenon DEF WaitForTermination
    <3>5. CASE DeleteSession
      BY <1>0, <3>2, <3>5, WhereItGoes, Zenon DEF DeleteSession
    <3> QED
      BY <1>1, <3>3, <3>4, <3>5
  <2>3. /\ Place("lookup") = 6 /\ Place("waitterm") = 5 /\ Place("delete") = 4
        /\ Place("reuse") = 3
    BY DEF Place
  <2>4. "reuse" \in Finding /\ "waitterm" \in Finding /\ "delete" \in Finding
        /\ call.pc \in Finding
    BY <2>1 DEF Finding
  <2> HIDE DEF On
  <2> QED
    BY <1>a, <2>1, <2>2, <2>3, <2>4 DEF On
<1>2. CASE Reuse
  <2>1. call.pc = "reuse" /\ "reuse" \in Finding
    BY <1>2 DEF Reuse, Finding
  <2>2. \/ call'.pc = "idle"
        \/ \E pc \in {"connect", "waitep", "create"} : Goes(pc)
        \/ Goes("terminate") /\ call'.cont = "create"
    <3>1. ASSUME NEW s, NEW r, Found(s, r)
          PROVE  call'.pc = "idle" \/ Goes("connect") \/ Goes("waitep")
      <4>1. CASE InProcess(s, call.t) # NoObj
        BY <1>0, <3>1, <4>1, WhereItGoes, Zenon DEF Found
      <4>2. CASE InProcess(s, call.t) = NoObj
        <5>1. call' = [call EXCEPT !.pc = IF HasEndpoint(r) THEN "connect" ELSE "waitep",
                                   !.resp = r]
          BY <3>1, <4>2, Zenon DEF Found
        <5>2. Goes(IF HasEndpoint(r) THEN "connect" ELSE "waitep")
          BY <1>0, <5>1, WhereItGoes, Zenon
        <5> QED
          BY <5>2
      <4> QED
        BY <4>1, <4>2
    <3>2. ASSUME NEW s, NEW o, Gone(s, o)
          PROVE  \/ call'.pc = "idle" \/ Goes("create")
                 \/ Goes("terminate") /\ call'.cont = "create"
      <4>1. Goto("create") \/ BeginStop(s, call, o, "auto", "create")
        BY <3>2, Zenon DEF Gone
      <4> QED
        BY <1>0, <4>1, WhereItGoes, Zenon
    <3>3. FailOpen => call'.pc = "idle"
      BY <1>0, WhereItGoes, Zenon DEF FailOpen
    <3>4. CheckedGetSession =>
             \/ call'.pc = "idle" \/ Goes("connect") \/ Goes("waitep") \/ Goes("create")
             \/ Goes("terminate") /\ call'.cont = "create"
      BY <3>1, <3>2, Zenon DEF CheckedGetSession
    <3>5. \/ Gone(m, m.default) \/ Found(m, call.resp)
          \/ CheckedGetSession \/ FailOpen \/ Interrupted
      BY <1>2, Zenon DEF Reuse
    <3>6. Interrupted => call'.pc = "idle"
      BY <1>0, WhereItGoes, Zenon
    <3> QED
      BY <3>1, <3>2, <3>3, <3>4, <3>5, <3>6
  <2>3. {"connect", "waitep", "create"} \subseteq Making
    BY DEF Making
  <2> HIDE DEF On
  <2> QED
    BY <1>a, <1>b, <2>1, <2>2, <2>3 DEF On
<1>3. CASE CreateSession \/ CreateRefused
  <2>1. call.pc = "create" /\ call.pc \in Making
    <3>1. call.pc = "create"
      BY <1>3, Zenon DEF CreateSession, CreateRefused
    <3> QED
      BY <3>1 DEF Making
  <2>2. call'.pc = "idle" \/ Goes("waitcreate")
    <3>1. CASE CreateRefused
      BY <1>0, <3>1, WhereItGoes, Zenon DEF CreateRefused
    <3>2. CASE CreateSession
      <4>1. \/ call' = [call EXCEPT !.pc = "waitcreate", !.creating = TRUE]
            \/ Raise \/ Interrupted
        BY <3>2, Zenon DEF CreateSession
      <4>2. call' = [call EXCEPT !.pc = "waitcreate", !.creating = TRUE] =>
               Goes("waitcreate")
        BY <1>0, ZenonT(60) DEF Goes, CRec
      <4> QED
        BY <1>0, <4>1, <4>2, WhereItGoes, Zenon
    <3> QED
      BY <1>3, <3>1, <3>2
  <2>3. "waitcreate" \in Making /\ Place("create") = 6 /\ Place("waitcreate") = 5
    BY DEF Making, Place
  <2> HIDE DEF On
  <2> QED
    BY <1>a, <2>1, <2>2, <2>3 DEF On
<1>4. CASE WaitCreated \/ WaitEndpoint
  <2>1. call.pc \in {"waitcreate", "waitep"} /\ call.pc \in Making
    BY <1>4 DEF WaitCreated, WaitEndpoint, Making
  <2>2. \/ call'.pc = "idle" \/ Retry \/ Goes("connect")
        \/ call.pc = "waitcreate" /\ Goes("waitep")
        \/ Goes("terminate") /\ call'.cont = "cleanup"
    <3>1. CASE WaitCreated
      <4> DEFINE pc == IF HasEndpoint(srv[m.id]) THEN "connect" ELSE "waitep"
      <4>1. \/ Retry \/ Raise \/ Interrupted
            \/ call' = [call EXCEPT !.pc = pc, !.resp = srv[m.id]]
        BY <3>1, Zenon DEF WaitCreated
      <4>2. pc \in {"connect", "waitep"} /\ call.pc = "waitcreate"
        BY <3>1 DEF WaitCreated
      <4> HIDE DEF pc
      <4>3. Retry \/ call'.pc = "idle" \/ Goes(pc)
        BY <1>0, <4>1, WhereItGoes, Zenon
      <4> QED
        BY <4>2, <4>3
    <3>2. CASE WaitEndpoint
      <4>1. \/ Retry \/ Raise
            \/ call' = [call EXCEPT !.pc = "connect", !.resp = srv[m.id]]
            \/ call' = [call EXCEPT !.pc = "terminate", !.cont = "cleanup",
                                    !.tid = m.id, !.polls = 0]
        BY <3>2, Zenon DEF WaitEndpoint
      <4>2. call' = [call EXCEPT !.pc = "terminate", !.cont = "cleanup",
                                 !.tid = m.id, !.polls = 0]
               => Goes("terminate") /\ call'.cont = "cleanup"
        BY <1>0, ZenonT(60) DEF Goes, CRec
      <4> QED
        BY <1>0, <4>1, <4>2, WhereItGoes, Zenon
    <3> QED
      BY <1>4, <3>1, <3>2
  <2>3. /\ "waitep" \in Making /\ "connect" \in Making
        /\ Place("waitcreate") = 5 /\ Place("waitep") = 4 /\ Place("connect") = 3
    BY DEF Making, Place
  <2>4. Retry => On
    BY <1>0, <2>1, RetryNearer
  <2> HIDE DEF On
  <2> QED
    BY <1>a, <1>b, <2>1, <2>2, <2>3, <2>4 DEF On
<1>5. CASE Connect
  <2>1. call.pc = "connect" /\ call.pc \in Making
    BY <1>5 DEF Connect, Making
  <2>2. call'.pc = "idle" \/ Goes("check")
    <3> DEFINE s == Connected(m, call.resp, m.id, call.t)
    <3>1. \/ call' = [call EXCEPT !.pc = "check", !.target = s.made]
          \/ Return(s, s.made) \/ Raise
      BY <1>5, Zenon DEF Connect
    <3> HIDE DEF s
    <3>2. call' = [call EXCEPT !.pc = "check", !.target = s.made] => Goes("check")
      BY <1>0, ZenonT(60) DEF Goes, CRec
    <3> QED
      BY <1>0, <3>1, <3>2, WhereItGoes, Zenon
  <2>3. "check" \in Making /\ Place("connect") = 3 /\ Place("check") = 2
    BY DEF Making, Place
  <2> HIDE DEF On
  <2> QED
    BY <1>a, <2>1, <2>2, <2>3 DEF On
<1>6. CASE CheckNewSession
  <2>1. call.pc = "check" /\ call.pc \in Making
    BY <1>6 DEF CheckNewSession, Making
  <2>2. \/ Retry \/ \E s, o : Return(s, o)
        \/ \E a : BeginStop(m, call, call.target, a, "raise")
    BY <1>6, Zenon DEF CheckNewSession
  <2>3. Retry \/ call'.pc = "idle" \/ (Goes("terminate") /\ call'.cont = "raise")
    BY <1>0, <2>2, WhereItGoes, Zenon
  <2>4. Retry => On
    BY <1>0, <2>1, RetryNearer
  <2> HIDE DEF On
  <2> QED
    BY <1>b, <2>1, <2>3, <2>4 DEF On
<1>7. CASE TerminateSession \/ TerminatePoll
  <2>1. call.pc \in {"terminate", "poll"} /\ call.pc \in Ending
    BY <1>7 DEF TerminateSession, TerminatePoll, Ending
  <2>2. ASSUME NEW s, TerminateDone(s)
        PROVE  call'.pc = "idle" \/ (call.cont = "create" /\ Goes("create"))
    BY <1>0, <2>2, WhereItGoes, Zenon DEF TerminateDone
  <2>3. ASSUME NEW s, TerminateFailed(s) PROVE call'.pc = "idle"
    BY <1>0, <2>3, WhereItGoes, Zenon DEF TerminateFailed
  <2>4. CASE TerminateSession
    <3>1. call.pc = "terminate"
      BY <2>4 DEF TerminateSession
    <3>2. \/ Goto("poll") \/ Interrupted
          \/ \E s : TerminateDone(s) \/ TerminateFailed(s)
      BY <2>4, Zenon DEF TerminateSession, TerminateCutShort
    <3>3. \/ call'.pc = "idle" \/ (call.cont = "create" /\ Goes("create"))
          \/ Goes("poll") /\ call'.cont = call.cont
      BY <1>0, <2>2, <2>3, <3>2, WhereItGoes, Zenon
    <3>4. Goes("poll") /\ call'.cont = call.cont => On
      BY <1>0, <3>1, OnwardNearer DEF Goes
    <3>5. "create" \in Making
      BY DEF Making
    <3> HIDE DEF On
    <3> QED
      BY <1>a, <2>1, <3>3, <3>4, <3>5 DEF On
  <2>5. CASE TerminatePoll
    <3> DEFINE p == call.polls + 1
    <3>1. call.pc = "poll"
      BY <2>5 DEF TerminatePoll
    <3>2. \/ call' = [call EXCEPT !.polls = p] \/ Interrupted
          \/ \E s : TerminateDone(s) \/ TerminateFailed(s)
      BY <2>5, Zenon DEF TerminatePoll, TerminateCutShort
    <3>3. ASSUME call' = [call EXCEPT !.polls = p] PROVE On
      <4>1. /\ call'.pc = "poll" /\ call'.cont = call.cont /\ call'.polls = p
            /\ call'.attempt = call.attempt
        <5> HIDE DEF p
        <5> QED
          BY <1>0, <3>1, <3>3, ZenonT(60) DEF CRec
      <4>2. call.polls \in 0..MaxPolls
        BY <1>0, Zenon DEF CRec
      <4>3. call.polls < call'.polls
        BY <4>1, <4>2, SessionAssumption
      <4> QED
        BY <1>0, <3>1, <4>1, <4>3, OnwardNearer
    <3>4. \/ call'.pc = "idle" \/ (call.cont = "create" /\ Goes("create"))
          \/ call' = [call EXCEPT !.polls = p]
      <4> HIDE DEF p
      <4> QED
        BY <1>0, <2>2, <2>3, <3>2, WhereItGoes, Zenon
    <3>5. "create" \in Making
      BY DEF Making
    <3> HIDE DEF On, p
    <3> QED
      BY <1>a, <2>1, <3>3, <3>4, <3>5 DEF On
  <2> QED
    BY <1>7, <2>4, <2>5
<1> QED
  BY <1>1, <1>2, <1>3, <1>4, <1>5, <1>6, <1>7 DEF CallStep

\* Every step of getOrCreate() and stop() brings the call nearer to its end, and what
\* else happens leaves the process alone: however often it retries and polls, a call
\* holds the lock for a bounded number of RPCs and waits.
THEOREM CallsGetNearer == Spec => CallsAdvance
<1> DEFINE Alone == /\ UNCHANGED <<call, told, letGo>>
                    /\ m' = [m EXCEPT !.live = m'.live]
           A == call.pc # "idle" =>
                   \/ call'.pc = "idle"
                   \/ Nearer(call', call)
                   \/ /\ UNCHANGED <<call, told, letGo>>
                      /\ m' = [m EXCEPT !.live = m'.live]
<1>1. ASSUME IInv, [Next]_vars PROVE A
  <2> SUFFICES ASSUME call.pc # "idle"
               PROVE  call'.pc = "idle" \/ Nearer(call', call) \/ Alone
    OBVIOUS
  <2>0. UNCHANGED <<m, call, told, letGo>> => Alone
    <3>1. m \in MRec
      BY <1>1, Known
    <3>2. m = [m EXCEPT !.live = m.live]
      BY <3>1, ZenonT(60) DEF MRec
    <3> QED
      BY <3>2
  <2>1. CASE UNCHANGED vars
    BY <2>0, <2>1 DEF vars
  <2>2. CASE CallStep
    <3>1. IInv'
      BY <1>1, StepIInv
    <3> QED
      BY <1>1, <2>2, <3>1, CallAdvances
  <2>3. ASSUME NEW i \in Id, ServerStep(i) \/ OtherClient(i) PROVE Alone
    BY <2>0, <2>3, Zenon DEF ServerStep, OtherClient
  <2>5. CASE GuardVerdict
    BY <1>1, <2>5, Known, GuardSame
  <2>4. \A t \in Thread : /\ \A r \in Custom \cup {Gen} : ~GetOrCreate(t, r)
                          /\ \A o \in Obj, a \in {"auto", "yes", "no"} : ~Stop(t, o, a)
    BY Zenon DEF GetOrCreate, Stop
  <2> HIDE DEF Alone
  <2> QED
    BY <1>1, <2>1, <2>2, <2>3, <2>4, <2>5 DEF Next
<1> HIDE DEF A
<1>2. Spec => [][A]_vars
  <2>1. IInv /\ [Next]_vars => [A]_vars
    BY <1>1
  <2> QED
    BY <2>1, Inductive, PTL DEF Spec
<1> QED
  BY <1>2 DEF A, CallsAdvance
=============================================================================
