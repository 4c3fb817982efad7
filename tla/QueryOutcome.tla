---------------------------- MODULE QueryOutcome ----------------------------
(***************************************************************************)
(* What a read or command promises its caller, whatever the transport      *)
(* does: it has one outcome, and the server is asked to run it once, or    *)
(* twice if running it again cannot repeat a side effect.  QueryReplay     *)
(* (client/reattach_patch.py) implements it.                               *)
(***************************************************************************)
EXTENDS Naturals

CONSTANT Query

VARIABLES
    again,     \* [Query -> BOOLEAN]  the plan may be run a second time
    runs,      \* [Query -> Nat]      times the server was asked to run it
    outcome    \* [Query -> {"none", "rows", "raised"}]

qvars == <<again, runs, outcome>>

QInit ==
    /\ again \in [Query -> BOOLEAN]
    /\ runs = [q \in Query |-> 0]
    /\ outcome = [q \in Query |-> "none"]

\* The server is asked to run the query: for the first time, or again.
Ask(q) ==
    /\ outcome[q] = "none"
    /\ runs[q] = 0 \/ (runs[q] = 1 /\ again[q])
    /\ runs' = [runs EXCEPT ![q] = @ + 1]
    /\ UNCHANGED <<again, outcome>>

\* The caller gets the rows or an exception, once.
Conclude(q) ==
    /\ outcome[q] = "none"
    /\ runs[q] > 0
    /\ \E o \in {"rows", "raised"} : outcome' = [outcome EXCEPT ![q] = o]
    /\ UNCHANGED <<again, runs>>

QNext == \E q \in Query : Ask(q) \/ Conclude(q)

QSpec == QInit /\ [][QNext]_qvars
=============================================================================
