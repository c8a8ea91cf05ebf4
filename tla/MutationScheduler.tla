------------------------- MODULE MutationScheduler -------------------------
(***************************************************************************)
(* The request router of the Browser Bridge daemon and its mutation         *)
(* scheduler (src/internal/bridge/daemon.go, scheduler.go).  Every handler  *)
(* runs under daemon.mu, so a handler is one action, with one exception:    *)
(* disconnect() and revokeMutations() walk a Go map, in an order that may    *)
(* matter, so their iterations are steps that exclude every other handler.  *)
(*                                                                          *)
(* A request of the model is one routed id together with what its agent     *)
(* put in it.  A routed id is fresh when no table of the daemon and no      *)
(* browser knows it any more, which is all that uniqueID() guarantees.      *)
(***************************************************************************)
EXTENDS Integers, FiniteSets, SequencesExt

CONSTANTS
    Agent,         \* agent connections (CLI or MCP clients)
    Extension,     \* extension connections
    Request,       \* routed request ids
    Tab,           \* browser tab ids
    NoTab,         \* tab_id absent; also an unusable tabId in mutation_ready
    NoPeer,        \* daemon.mu is free
    Owner,         \* Owner[r]: the agent that sends r
    Target,        \* Target[r]: the one candidate route() selects for r
    Method,        \* Method[r]: the kind of method r calls
    RequestTab,    \* RequestTab[r]: the tab_id r names, or NoTab
    MaxScheduled,  \* maxScheduledMutations (128)
    MaxQueue,      \* reservations per connection (32)
    MaxPending,    \* pending requests of the daemon (128)
    MaxPerPeer     \* pending requests of one peer (16)

\* "read" stands for every method outside catalog.MutationMethods, "export"
\* for session.export, the one mutation whose answer is an artifact.
Methods == {"read", "input", "navigation", "export"}

ASSUME ConstantsAssumption ==
    /\ Owner \in [Request -> Agent]
    /\ Target \in [Request -> Extension]
    /\ Method \in [Request -> Methods]
    /\ RequestTab \in [Request -> Tab \cup {NoTab}]
    /\ NoTab \notin Tab
    /\ NoPeer \notin Agent \cup Extension
    /\ Agent \cap Extension = {}
    /\ {MaxScheduled, MaxQueue, MaxPending, MaxPerPeer} \subseteq Nat

PreemptsCanceled(r) == Method[r] = "navigation"
Mutation(r) == Method[r] # "read"

INSTANCE GrantRule WITH Preempts <- PreemptsCanceled

VARIABLES
    peers,       \* d.peers: registered connections
    access,      \* p.access of every extension
    identified,  \* extensions whose identity says mutationScheduling
    pending,     \* keys of d.pending
    marked,      \* pending requests sent with meta.mutation_schedule
    count,       \* p.pending of every agent
    entries,     \* keys of d.scheduler.entries
    queue,       \* d.scheduler.queues
    tab,         \* entry.tab
    ready,       \* entries whose ready time is set
    granted,     \* entries whose granted time is set
    canceled,    \* entries with canceled set (their expiry timer is armed)
    storing,     \* artifact responses waiting in the storage executor
    unsettled,   \* requests the browser has received and not answered
    walking      \* the connection whose loop over its requests holds daemon.mu

scheduler == <<entries, queue, tab, ready, granted, canceled>>
vars == <<peers, access, identified, pending, marked, count, entries, queue, tab,
          ready, granted, canceled, storing, unsettled, walking>>

Init ==
    /\ peers = {}
    /\ access = [t \in Extension |-> FALSE]
    /\ identified = {}
    /\ pending = {} /\ marked = {}
    /\ count = [p \in Agent |-> 0]
    /\ entries = {}
    /\ queue = [t \in Extension |-> <<>>]
    /\ tab = [r \in Request |-> NoTab]
    /\ ready = {} /\ granted = {} /\ canceled = {}
    /\ storing = {}
    /\ unsettled = {}
    /\ walking = NoPeer

-----------------------------------------------------------------------------
(* Scheduler helpers.  They constrain the scheduler's variables and read the *)
(* primed peers, access and pending, which the handler sets first.           *)

\* grantMutations: the new turns on t's tabs, given the tables as the handler
\* leaves them.
NewGrants(t) ==
    IF t \in peers' /\ access'[t]
    THEN Grants(queue'[t], ready', granted, canceled', pending', tab')
    ELSE {}

GrantMutations(t) == granted' = (granted \cap entries') \cup NewGrants(t)

\* removeMutation: drop the entry, then see who can run.
RemoveMutation(r) ==
    LET t == Target[r]
    IN  /\ entries' = entries \ {r}
        /\ queue' = [queue EXCEPT ![t] =
              LET at == CHOOSE i \in DOMAIN queue[t] : queue[t][i] = r
              IN  RemoveAt(queue[t], at)]
        /\ tab' = [tab EXCEPT ![r] = NoTab]
        /\ ready' = ready \ {r}
        /\ canceled' = canceled \ {r}
        /\ GrantMutations(t)

\* Broken variant of CancelMutation: the caller's cancellation ends the turn.
CancelAndRelease(r) ==
    IF r \in entries THEN RemoveMutation(r) ELSE UNCHANGED scheduler

\* cancelMutation: queued work leaves the queue; a running slot is retained
\* and its expiry timer armed.
CancelMutation(r) ==
    \/ /\ r \notin entries
       /\ UNCHANGED scheduler
    \/ /\ r \in entries \ granted
       /\ RemoveMutation(r)
    \/ /\ r \in entries \cap granted
       /\ canceled' = canceled \cup {r}
       /\ UNCHANGED <<entries, queue, tab, ready, granted>>

\* Broken variant of Finish: the counter is forgotten.
FinishUncounted(r) ==
    /\ pending' = pending \ {r} /\ marked' = marked \ {r}
    /\ UNCHANGED count
    /\ CancelMutation(r)

\* The table updates of finish(), and of disconnect() for the leaver's own
\* requests: forget the request, then release or retain its place in line.
Finish(r) ==
    /\ pending' = pending \ {r} /\ marked' = marked \ {r}
    /\ count' = [count EXCEPT ![Owner[r]] = @ - 1]
    /\ CancelMutation(r)

\* No loop of disconnect() or revokeMutations() holds daemon.mu.
MutexFree == walking = NoPeer

-----------------------------------------------------------------------------
(* Handlers. *)

\* serve(): a connection registers.
Connect(p) ==
    /\ MutexFree
    /\ p \notin peers
    /\ peers' = peers \cup {p}
    /\ UNCHANGED <<access, identified, pending, marked, count, scheduler, storing,
                   unsettled, walking>>

\* extension.identity: it follows the registration, and even the first access
\* update, after the extension has read its profile label.
Identity(t) ==
    /\ MutexFree
    /\ t \in peers
    /\ identified' = identified \cup {t}
    /\ UNCHANGED <<peers, access, pending, marked, count, scheduler, storing, unsettled,
                   walking>>

\* Broken variant of AccessGranted: nobody looks at the queue again.
AccessGrantedQuietly(t) ==
    /\ MutexFree
    /\ t \in peers
    /\ access' = [access EXCEPT ![t] = TRUE]
    /\ UNCHANGED <<peers, identified, pending, marked, count, scheduler, storing,
                   unsettled, walking>>

\* extension.access_update with access on: work that became ready while it
\* was off waits for a grant.
AccessGranted(t) ==
    /\ MutexFree
    /\ t \in peers
    /\ access' = [access EXCEPT ![t] = TRUE]
    /\ UNCHANGED <<peers, identified, pending, marked, count, entries, queue, tab, ready,
                   canceled, storing, unsettled, walking>>
    /\ GrantMutations(t)

\* extension.access_update with access off starts revokeMutations.
AccessRevoked(t) ==
    /\ MutexFree
    /\ t \in peers
    /\ access' = [access EXCEPT ![t] = FALSE]
    /\ walking' = t
    /\ UNCHANGED <<peers, identified, pending, marked, count, scheduler, storing,
                   unsettled>>

\* One iteration of revokeMutations, in any order.
RevokeRequest(r) ==
    /\ r \in pending \cap entries
    /\ Target[r] = walking
    /\ walking \in peers
    /\ UNCHANGED <<peers, access, identified, storing, unsettled, walking>>
    /\ Finish(r)

RevokeDone ==
    /\ walking \in peers
    /\ \A r \in pending \cap entries : Target[r] # walking
    /\ walking' = NoPeer
    /\ UNCHANGED <<peers, access, identified, pending, marked, count, scheduler, storing,
                   unsettled>>

\* scheduleMutation: a mutation takes a place at the end of its destination's
\* queue, or is refused.
ScheduleMutation(r) ==
    LET t == Target[r]
    IN  \/ /\ ~(Mutation(r) /\ t \in identified)
           /\ marked' = marked \ {r}
           /\ UNCHANGED scheduler
        \/ /\ Mutation(r) /\ t \in identified
           /\ Cardinality(entries) < MaxScheduled
           /\ Len(queue[t]) < MaxQueue
           /\ marked' = marked \cup {r}
           /\ entries' = entries \cup {r}
           /\ queue' = [queue EXCEPT ![t] = Append(@, r)]
           /\ tab' = [tab EXCEPT ![r] = RequestTab[r]]
           /\ UNCHANGED <<ready, granted, canceled>>

\* route(): an agent's request is accepted and sent to the extension.  The
\* refusals answer locally and change nothing.
Route(r) ==
    /\ MutexFree
    /\ r \notin pending \cup entries \cup storing \cup unsettled
    /\ {Owner[r], Target[r]} \subseteq peers
    /\ Cardinality(pending) < MaxPending
    /\ count[Owner[r]] < MaxPerPeer
    /\ ScheduleMutation(r)
    /\ pending' = pending \cup {r}
    /\ count' = [count EXCEPT ![Owner[r]] = @ + 1]
    /\ unsettled' = unsettled \cup {r}
    /\ UNCHANGED <<peers, access, identified, storing, walking>>

\* agent.cancel from the owner.
Cancel(r) ==
    /\ MutexFree
    /\ r \in pending
    /\ UNCHANGED <<peers, access, identified, storing, unsettled, walking>>
    /\ Finish(r)

\* The timer of route() fires for a request that is still pending.
Timeout(r) ==
    /\ MutexFree
    /\ r \in pending
    /\ UNCHANGED <<peers, access, identified, storing, unsettled, walking>>
    /\ Finish(r)

\* extension.mutation_ready: the extension reports the tab it resolved.
MutationReady(r, b) ==
    /\ MutexFree
    /\ r \in unsettled
    /\ r \in entries \ ready
    /\ IF b \in Tab /\ tab[r] \in {NoTab, b}
       THEN /\ tab' = [tab EXCEPT ![r] = b]
            /\ ready' = ready \cup {r}
            /\ UNCHANGED <<peers, access, pending, marked, count, entries, queue, canceled>>
            /\ GrantMutations(Target[r])
       ELSE /\ r \in pending
            /\ UNCHANGED <<peers, access>>
            /\ Finish(r)
    /\ UNCHANGED <<identified, storing, unsettled, walking>>

\* extension.response for a request the daemon has given up: browser
\* completion releases the slot.
LateResponse(r) ==
    /\ MutexFree
    /\ r \in unsettled \ pending
    /\ unsettled' = unsettled \ {r}
    /\ UNCHANGED <<peers, access, identified, pending, marked, count, storing, walking>>
    /\ IF r \in entries THEN RemoveMutation(r) ELSE UNCHANGED scheduler

\* extension.response without a boolean ok: the caller is told, the slot is
\* treated as canceled.
MalformedResponse(r) ==
    /\ MutexFree
    /\ r \in unsettled \cap pending
    /\ unsettled' = unsettled \ {r}
    /\ UNCHANGED <<peers, access, identified, storing, walking>>
    /\ Finish(r)

\* extension.response: the slot is released, then the answer delivered, at
\* once or, for an artifact, when the storage executor has checked it.
Response(r, stored) ==
    /\ MutexFree
    /\ r \in unsettled \cap pending
    /\ stored => Method[r] = "export"
    /\ unsettled' = unsettled \ {r}
    /\ IF stored
       THEN storing' = storing \cup {r} /\ UNCHANGED <<pending, marked, count>>
       ELSE /\ pending' = pending \ {r} /\ marked' = marked \ {r}
            /\ count' = [count EXCEPT ![Owner[r]] = @ - 1]
            /\ UNCHANGED storing
    /\ UNCHANGED <<peers, access, identified, walking>>
    /\ IF r \in entries THEN RemoveMutation(r) ELSE UNCHANGED scheduler

\* The completion the storage executor runs under daemon.mu.
Stored(r) ==
    /\ MutexFree
    /\ r \in storing
    /\ storing' = storing \ {r}
    /\ UNCHANGED <<peers, access, identified, unsettled, walking>>
    /\ IF r \in pending
       THEN Finish(r)
       ELSE UNCHANGED <<pending, marked, count, scheduler>>

\* Broken variant of Expire: the timer looks for the pending request.
ExpirePending(r) ==
    /\ MutexFree
    /\ r \in entries \cap canceled \cap pending
    /\ UNCHANGED <<peers, access, identified, pending, marked, count, storing, unsettled,
                   walking>>
    /\ RemoveMutation(r)

\* The expiry timer of a canceled slot: deadline plus canceledMutationGrace.
Expire(r) ==
    /\ MutexFree
    /\ r \in entries \cap canceled
    /\ UNCHANGED <<peers, access, identified, pending, marked, count, storing, unsettled,
                   walking>>
    /\ RemoveMutation(r)

\* disconnect() starts: the peer has left d.peers.  A connection that comes
\* back under this name is a new one: it starts without access, and the
\* browser's open work went with the old one.
Disconnect(p) ==
    /\ MutexFree
    /\ p \in peers
    /\ peers' = peers \ {p}
    /\ access' = [t \in Extension |-> access[t] /\ t # p]
    /\ identified' = identified \ {p}
    /\ unsettled' = {r \in unsettled : Target[r] # p}
    /\ walking' = p
    /\ UNCHANGED <<pending, marked, count, scheduler, storing>>

\* One iteration of its loop over d.pending, in any order: the requests the
\* peer owned are forgotten, those it was to answer fail.
AbandonRequest(r) ==
    /\ r \in pending
    /\ walking \in {Owner[r], Target[r]} \ peers
    /\ UNCHANGED <<peers, access, identified, storing, unsettled, walking>>
    /\ Finish(r)

\* disconnect() ends; what is left in an extension's queue goes with it, and
\* removeMutation grants nothing for a peer that is gone.
DisconnectDone ==
    LET Kept(S) == {r \in S : Target[r] # walking}
    IN  /\ ~MutexFree
        /\ walking \notin peers
        /\ \A r \in pending : walking \notin {Owner[r], Target[r]}
        /\ walking' = NoPeer
        /\ entries' = Kept(entries)
        /\ queue' = [t \in Extension |-> IF t = walking THEN <<>> ELSE queue[t]]
        /\ tab' = [r \in Request |-> IF Target[r] = walking THEN NoTab ELSE tab[r]]
        /\ ready' = Kept(ready)
        /\ granted' = Kept(granted)
        /\ canceled' = Kept(canceled)
        /\ UNCHANGED <<peers, access, identified, pending, marked, count, storing,
                       unsettled>>

Next ==
    \/ \E p \in Agent \cup Extension : Connect(p)
    \/ \E t \in Extension : Identity(t)
    \/ \E t \in Extension : AccessGranted(t)
    \/ \E t \in Extension : AccessRevoked(t)
    \/ \E r \in Request : RevokeRequest(r)
    \/ RevokeDone
    \/ \E p \in Agent \cup Extension : Disconnect(p)
    \/ \E r \in Request : Route(r)
    \/ \E r \in Request : Cancel(r)
    \/ \E r \in Request : Timeout(r)
    \/ \E r \in Request, b \in Tab \cup {NoTab} : MutationReady(r, b)
    \/ \E r \in Request : LateResponse(r)
    \/ \E r \in Request : MalformedResponse(r)
    \/ \E r \in Request, stored \in BOOLEAN : Response(r, stored)
    \/ \E r \in Request : Stored(r)
    \/ \E r \in Request : Expire(r)
    \/ \E r \in Request : AbandonRequest(r)
    \/ DisconnectDone

Spec == Init /\ [][Next]_vars

\* The timers fire, the storage workers run and the loops end.
\* A fired timer and a finished storage job wait for daemon.mu, which other
\* handlers take in between: Go's mutex hands itself to a waiter that has
\* starved for a millisecond, so it is not passed over forever.
Fairness ==
    /\ \A r \in Request : SF_vars(Timeout(r)) /\ SF_vars(Expire(r)) /\ SF_vars(Stored(r))
    /\ \A r \in Request : WF_vars(AbandonRequest(r)) /\ WF_vars(RevokeRequest(r))
    /\ WF_vars(RevokeDone) /\ WF_vars(DisconnectDone)

FairSpec == Spec /\ Fairness

-----------------------------------------------------------------------------
(* Properties. *)

\* The type invariant.
TypeOK ==
    /\ peers \subseteq Agent \cup Extension
    /\ access \in [Extension -> BOOLEAN]
    /\ identified \subseteq Extension
    /\ pending \subseteq Request /\ marked \subseteq pending
    /\ count \in [Agent -> Int]
    /\ entries \subseteq Request
    /\ queue \in [Extension -> Seq(Request)]
    /\ tab \in [Request -> Tab \cup {NoTab}]
    /\ canceled \subseteq granted /\ granted \subseteq ready /\ ready \subseteq entries
    /\ storing \subseteq Request
    /\ unsettled \subseteq Request
    /\ walking \in Agent \cup Extension \cup {NoPeer}

\* Two mutations never run on one tab of one browser at a time, whatever the
\* cancellations, timeouts, revocations and reconnections in between
\* (docs/native-cli.md: "queues page-mutating operations per resolved tab").
OneRunningPerTab ==
    \A r, s \in granted \ canceled :
        Target[r] = Target[s] /\ tab[r] = tab[s] => r = s

\* The map of entries and the queues are two views of one set: nothing is in
\* line twice, lost from the line, or left in it after its entry is gone.
QueueHoldsEntries ==
    \A t \in Extension :
        /\ ToSet(queue[t]) = {r \in entries : Target[r] = t}
        /\ IsInjective(queue[t])

\* An entry either has a caller who still waits, or is a canceled slot whose
\* expiry timer will release it; and a pending mutation whose browser was told
\* to wait for its turn is in line, unless its answer is already in the storage
\* executor.  So grantMutations never meets an entry it must skip for want of a
\* pending request, and no browser waits for a turn nobody can give.
SlotAccountedFor ==
    /\ \A r \in entries : r \in canceled <=> r \notin pending
    /\ marked \subseteq entries \cup storing

\* The counter behind the limit of 16 requests per peer is the number of that
\* peer's requests in d.pending, through every path that finishes one.
PendingCounted ==
    \A p \in Agent : count[p] = Cardinality({r \in pending : Owner[r] = p})

\* Uncanceled work runs only in a window that still grants access.
RunningHasAccess ==
    \A r \in granted \ canceled : access[Target[r]] \/ walking = Target[r]

\* A reservation is the same thing in the map of entries, in its line, among the
\* pending requests and for its peer's counter, on each of the dozen paths that
\* end one (scheduler.go:124-180, daemon.go:891-1069), and what runs uncanceled
\* runs with access.
ReservationsKept ==
    /\ QueueHoldsEntries
    /\ SlotAccountedFor
    /\ PendingCounted
    /\ RunningHasAccess

\* The turns one more call of grantMutations would hand out on t's tabs now.
Overdue(t) ==
    IF t \in peers /\ access[t]
    THEN Grants(queue[t], ready, granted, canceled, pending, tab)
    ELSE {}

\* No event that frees a tab leaves a mutation waiting that could run: what
\* is left waiting is at most a navigation.
NoTurnWasted ==
    \A t \in Extension : \A r \in Overdue(t) : PreemptsCanceled(r)

\* "Browser completion, not the caller's timeout, releases a running slot":
\* a granted entry goes when its browser answers, when it is canceled and
\* expires, or when the browser is gone.
SlotKeptUntilSettled ==
    [][\A r \in granted \ granted' :
          r \in canceled \/ r \in unsettled \ unsettled' \/ Target[r] \notin peers']_vars

\* s was in line before r.
Before(s, r) ==
    \E j, i \in DOMAIN queue[Target[r]] :
        j < i /\ queue[Target[r]][j] = s /\ queue[Target[r]][i] = r

\* Turns follow the order of arrival: work that came earlier and could be
\* for the same tab has had its turn, except that a navigation may pass the
\* input that waits for a canceled mutation to drain.
TurnsInOrder ==
    [][\A r \in granted' \ granted, s \in entries' \ granted' :
          Before(s, r) =>
              /\ tab'[s] # NoTab
              /\ tab'[s] = tab'[r] =>
                    /\ s \in ready' /\ ~PreemptsCanceled(s) /\ PreemptsCanceled(r)
                    /\ \E c \in canceled' : Target[c] = Target[r] /\ tab'[c] = tab'[r]]_vars

\* The scheduler gives tabs their turns as TabTurns promises.
Place == Extension \X Tab
At(S) == [p \in Place |-> {r \in S : Target[r] = p[1] /\ tab[r] = p[2]}]
Turns == INSTANCE TabTurns WITH
    Work <- Request, TakesOver <- PreemptsCanceled,
    running <- At(granted \ canceled), draining <- At(canceled)
TurnsKept == Turns!Spec

\* Every accepted request is eventually answered or abandoned with its owner.
RequestsAnswered == \A r \in Request : r \in pending ~> r \notin pending

\* Every reservation is eventually given back, even when the browser hangs:
\* no tab is held forever.
SlotsReleased == \A r \in Request : r \in entries ~> r \notin entries

\* What was asked ends, for the agent and for the tab (scheduler.go:160-180,
\* daemon.go:848-863), whoever falls silent.
RequestsSettle == RequestsAnswered /\ SlotsReleased
=============================================================================
