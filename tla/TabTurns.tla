------------------------------ MODULE TabTurns ------------------------------
(***************************************************************************)
(* What the mutation scheduler promises to a page, independently of queues, *)
(* agents and messages: every place (a tab of one browser connection) has   *)
(* at most one mutation running; a mutation whose caller gave up is         *)
(* draining until the browser has settled it, and while a place drains only *)
(* a navigation may start there.                                            *)
(***************************************************************************)
EXTENDS Integers, FiniteSets

CONSTANTS Work, Place, TakesOver(_)

VARIABLES running,     \* running[p]: the work whose turn it is at place p
          draining     \* draining[p]: canceled work the browser may still do

vars == <<running, draining>>

TypeOK ==
    /\ running \in [Place -> SUBSET Work]
    /\ draining \in [Place -> SUBSET Work]

Init ==
    /\ running = [p \in Place |-> {}]
    /\ draining = [p \in Place |-> {}]

\* Work w gets the turn at p.  What was running there has settled or started
\* to drain in the same step at the latest.
Start(p, w) ==
    /\ running'[p] = {w}
    /\ w \notin running[p] \cup draining[p]
    /\ draining'[p] = {} \/ TakesOver(w)

\* What runs at p either goes on or loses the turn.
NoStart(p) == running'[p] \subseteq running[p]

\* Only work that was running starts to drain, and work drains until it
\* settles: it never gets its turn back.
Drain(p) == draining'[p] \subseteq draining[p] \cup running[p]

PlaceStep(p) ==
    /\ NoStart(p) \/ \E w \in Work : Start(p, w)
    /\ Drain(p)
    /\ running'[p] \cap draining'[p] = {}
    /\ running'[p] \cap draining[p] = {}

\* One critical section of the daemon may move several places at once.
Next ==
    /\ running' \in [Place -> SUBSET Work]
    /\ draining' \in [Place -> SUBSET Work]
    /\ \A p \in Place : PlaceStep(p)

Spec == Init /\ [][Next]_vars
=============================================================================
