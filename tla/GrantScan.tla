----------------------------- MODULE GrantScan -----------------------------
(***************************************************************************)
(* The body of grantMutations (src/internal/bridge/scheduler.go) as it is   *)
(* written: one loop marks the tabs of granted entries, a second walks the  *)
(* queue, marking tabs as it goes, and stops at the first preparation whose *)
(* tab is unknown.  The inputs are a destination's queue and its flags.     *)
(***************************************************************************)
EXTENDS GrantRule, SequencesExt

CONSTANTS Entry, Tab, Queues

ASSUME GrantScanAssumption ==
    /\ Queues \subseteq Seq(Entry)
    /\ NoTab \notin Tab

VARIABLES
    queue, ready, canceled, live, tab,  \* the tables the pass only reads
    before,      \* the entries granted when the pass starts
    granted,     \* the entries granted so far
    busy,        \* tabs taken by running, earlier or unidentified work
    canceling,   \* tabs where canceled work drains
    at,          \* the position the walk has reached
    pc           \* "mark", "walk" or "done"

inputs == <<queue, ready, canceled, live, tab, before>>
vars == <<queue, ready, canceled, live, tab, before, granted, busy, canceling, at, pc>>

Init ==
    /\ queue \in Queues
    /\ ready \in SUBSET ToSet(queue)
    /\ before \in SUBSET ready
    /\ canceled \in SUBSET before
    /\ live \in SUBSET ToSet(queue)
    /\ tab \in [ToSet(queue) -> Tab \cup {NoTab}]
    /\ \A e \in ready : tab[e] \in Tab
    /\ granted = before
    /\ busy = {} /\ canceling = {}
    /\ at = 1
    /\ pc = "mark"

\* The first loop.
MarkHolders ==
    /\ pc = "mark"
    /\ canceling' = {tab[e] : e \in ToSet(queue) \cap granted \cap canceled}
    /\ busy' = {tab[e] : e \in (ToSet(queue) \cap granted) \ canceled}
    /\ pc' = "walk"
    /\ UNCHANGED <<inputs, granted, at>>

\* The walk is at an entry.
Here == queue[at]
Walking == pc = "walk" /\ at <= Len(queue)
Advance == at' = at + 1 /\ UNCHANGED <<inputs, canceling, pc>>

\* if !entry.granted.IsZero() || entry.canceled { continue }
SkipGranted ==
    /\ Walking
    /\ Here \in granted \cup canceled
    /\ Advance
    /\ UNCHANGED <<granted, busy>>

\* An unready entry with a tab reserves it, one without stops the walk.
Reserve ==
    /\ Walking
    /\ Here \notin granted \cup canceled \cup ready
    /\ tab[Here] # NoTab
    /\ busy' = busy \cup {tab[Here]}
    /\ Advance
    /\ UNCHANGED granted

StopAtUnknown ==
    /\ Walking
    /\ Here \notin granted \cup canceled \cup ready
    /\ tab[Here] = NoTab
    /\ pc' = "done"
    /\ UNCHANGED <<inputs, granted, busy, canceling, at>>

MustWait == tab[Here] \in busy \/ (tab[Here] \in canceling /\ ~Preempts(Here))

\* The tab is busy, or drains; or nobody waits for the entry any more.
PassOver ==
    /\ Walking
    /\ Here \in ready \ (granted \cup canceled)
    /\ MustWait \/ Here \notin live
    /\ Advance
    /\ UNCHANGED <<granted, busy>>

\* Broken variant of GrantHere: the tab it hands out is not marked.
GrantHereUnmarked ==
    /\ Walking
    /\ Here \in (ready \cap live) \ (granted \cup canceled)
    /\ ~MustWait
    /\ granted' = granted \cup {Here}
    /\ Advance
    /\ UNCHANGED busy

GrantHere ==
    /\ Walking
    /\ Here \in (ready \cap live) \ (granted \cup canceled)
    /\ ~MustWait
    /\ granted' = granted \cup {Here}
    /\ busy' = busy \cup {tab[Here]}
    /\ Advance

EndOfQueue ==
    /\ pc = "walk"
    /\ at > Len(queue)
    /\ pc' = "done"
    /\ UNCHANGED <<inputs, granted, busy, canceling, at>>

Next == MarkHolders \/ SkipGranted \/ Reserve \/ StopAtUnknown \/ PassOver
            \/ GrantHere \/ EndOfQueue

Spec == Init /\ [][Next]_vars

TypeOK ==
    /\ queue \in Seq(Entry)
    /\ tab \in [ToSet(queue) -> Tab \cup {NoTab}]
    /\ busy \subseteq Tab /\ canceling \subseteq Tab
    /\ at \in 1..(Len(queue) + 1)
    /\ pc \in {"mark", "walk", "done"}

\* The pass grants exactly the turns of the closed form, for every queue and
\* whatever its entries' flags are: the scan order, the early stop and the
\* marks made on the way never give a tab twice or miss one that is free.
ScanGrantsTheRule ==
    pc = "done" =>
        granted = before \cup Grants(queue, ready, before, canceled, live, tab)
=============================================================================
