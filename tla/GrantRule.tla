----------------------------- MODULE GrantRule -----------------------------
(***************************************************************************)
(* The rule by which the daemon hands out turns on browser tabs            *)
(* (src/internal/bridge/scheduler.go, grantMutations).  The Go code is one  *)
(* pass over a destination's queue that marks tabs busy as it goes; this    *)
(* module says in closed form which entries that pass grants.  GrantScan    *)
(* is the pass itself, and CapabilitiesProofs proves that the two agree.    *)
(***************************************************************************)
EXTENDS Integers, Sequences

CONSTANTS NoTab,           \* the tab of a request that names none (tab 0)
          Preempts(_)      \* preemptsCanceledMutation of the entry's method

(***************************************************************************)
(* The operators take the queue and, as sets, the entries whose fields are  *)
(* set: ready (a tab has been reported), granted, canceled, live (still in  *)
(* d.pending); tab maps every entry to its tab.                             *)
(***************************************************************************)

\* Some running entry (canceled or not) holds tab b: the maps busy and
\* canceling the Go code fills before it walks the queue.
Held(queue, holders, tab, b) ==
    \E k \in 1..Len(queue) : queue[k] \in holders /\ tab[queue[k]] = b

\* Broken variants of Eligible (see PROJECT.json, mutants): one ignores who is
\* running, one starts any work beside a draining mutation, one lets work
\* overtake earlier preparations.
EligibleBesideRunning(queue, ready, granted, canceled, live, tab, i) ==
    queue[i] \in (ready \cap live) \ (granted \cup canceled)

EligibleWhileDraining(queue, ready, granted, canceled, live, tab, i) ==
    /\ queue[i] \in (ready \cap live) \ (granted \cup canceled)
    /\ ~Held(queue, granted \ canceled, tab, tab[queue[i]])

EligibleOutOfOrder(queue, ready, granted, canceled, live, tab, i) ==
    /\ queue[i] \in (ready \cap live) \ (granted \cup canceled)
    /\ ~Held(queue, granted \ canceled, tab, tab[queue[i]])
    /\ Held(queue, granted \cap canceled, tab, tab[queue[i]]) => Preempts(queue[i])

\* Entry number i may run: it is ready, nobody is running on its tab, a
\* canceled mutation still draining there is one it may take over from, and
\* no earlier preparation is either unidentified or bound for the same tab.
Eligible(queue, ready, granted, canceled, live, tab, i) ==
    /\ queue[i] \in (ready \cap live) \ (granted \cup canceled)
    /\ ~Held(queue, granted \ canceled, tab, tab[queue[i]])
    /\ Held(queue, granted \cap canceled, tab, tab[queue[i]]) => Preempts(queue[i])
    /\ \A j \in 1..(i - 1) :
          \/ queue[j] \in ready \cup granted \cup canceled
          \/ tab[queue[j]] \notin {NoTab, tab[queue[i]]}

\* The entries one pass grants: on every tab, the first eligible one.
Grants(queue, ready, granted, canceled, live, tab) ==
    LET May(i) == Eligible(queue, ready, granted, canceled, live, tab, i)
    IN  { queue[i] : i \in { k \in 1..Len(queue) :
            /\ May(k)
            /\ \A j \in 1..(k - 1) : May(j) => tab[queue[j]] # tab[queue[k]] } }
=============================================================================
