----------------------------- MODULE DomBaselines -----------------------------
(* Semantic baselines of pages. The browser keeps the records                 *)
(* (background-dom-baselines.ts, background-dom-baseline-requests.ts); the    *)
(* daemon keeps which browser each of them is in (baseline.go), to route what *)
(* agents ask of it, and releases those no agent was told of. The two talk    *)
(* over a channel in each direction; agents ask, lose patience and leave.     *)
(* A baseline has the number of the call that made it. Its five minutes never *)
(* end here: what must not depend on them is what the properties speak of.    *)
EXTENDS Naturals, Sequences, FiniteSets, SequencesExt

CONSTANTS Agent, Tab,
    MaxCalls,
    MaxPerTab,      \* MAX_DOM_BASELINES_PER_TAB, 8 in the code
    MaxRecords,     \* MAX_DOM_BASELINES_GLOBAL, 32
    MaxAbandoned,   \* 128
    MaxOwners,      \* 128 for one connection
    MaxTurns        \* changes of the grant, navigations, connections that end

VARIABLES
    calls,      \* the requests agents made, by number
    agents,     \* each agent's connection: "on", "closing", "gone"
    outbox,     \* answers with a new baseline, queued for their agents
    owners,     \* baselineRegistry.owners, oldest first
    abandoned,  \* baselineRegistry.abandoned, oldest first
    seen,       \* the grant the daemon knows of, 0 for none
    link,       \* the connection: "on", "lost" by the browser only, "off"
    down, up,   \* what is under way on it
    records,    \* records of the controller, oldest first
    replaced,   \* invalidatedRecords
    tasks,      \* what the browser does for each call
    grant,      \* the enabled window's grant, 0 for none
    told,       \* the grant last announced on this connection
    closing,    \* the grant is revoked and its state not yet cleared
    grants, turns,
    handed,     \* baselines whose answer was written to an agent (history)
    lapsed,     \* baselines the daemon loses sight of, see below (history)
    spoiled     \* calls whose page or grant changed since they began (history)

daemonVars == <<calls, agents, outbox, owners, abandoned, seen, handed>>
browserVars == <<records, replaced, tasks, grant, told, closing, grants, spoiled>>
baselineVars == <<daemonVars, browserVars, link, down, up, turns, lapsed>>

Call == 1..MaxCalls
ASSUME BaselineAssumption ==
    /\ MaxCalls \in Nat /\ MaxTurns \in Nat /\ MaxAbandoned \in Nat
    /\ MaxPerTab \in Nat \ {0} /\ MaxRecords \in Nat \ {0} /\ MaxOwners \in Nat \ {0}

NoCall == [op |-> "none", agent |-> "none", tab |-> "none", of |-> 0, pending |-> FALSE]

BaselinesInit ==
    /\ calls = [c \in Call |-> NoCall] /\ agents = [a \in Agent |-> "on"]
    /\ outbox = {} /\ owners = <<>> /\ abandoned = <<>> /\ seen = 1
    /\ link = "on" /\ down = <<>> /\ up = <<>>
    /\ records = <<>> /\ replaced = {} /\ tasks = [c \in Call |-> "none"]
    /\ grant = 1 /\ told = 1 /\ closing = FALSE /\ grants = 1 /\ turns = 0
    /\ handed = {} /\ lapsed = {} /\ spoiled = {}

Turn == turns < MaxTurns /\ turns' = turns + 1

\* What a list has at these places, in its order.
Picked(list, places) ==
    [n \in 1..Cardinality(places) |->
        list[CHOOSE i \in places : Cardinality({j \in places : j <= i}) = n]]
Without(list, gone) == Picked(list, {i \in DOMAIN list : list[i] \notin gone})

Note(kind, c) == [kind |-> kind, call |-> c]

-----------------------------------------------------------------------------
(* The daemon *)

\* What is sent to a connection the browser has left is lost.
Down(notes) == down' = IF link = "on" THEN down \o notes ELSE down

Pending(c) == calls[c].pending
Ended(some) == calls' = [c \in Call |-> [calls[c] EXCEPT !.pending = @ /\ c \notin some]]

\* Broken variant of Abandons: only a timeout leaves a trace.
AbandonsNone(some) == abandoned' = abandoned /\ lapsed' = lapsed

\* baselineRegistry.abandon: the answer to a creation nobody waits for is still
\* to come. The oldest are forgotten.
Abandons(some) ==
    LET all == abandoned \o SetToSeq({c \in some : calls[c].op = "create"})
        over == IF Len(all) > MaxAbandoned THEN Len(all) - MaxAbandoned ELSE 0
    IN  /\ abandoned' = SubSeq(all, over + 1, Len(all))
        /\ lapsed' = lapsed \union ToSet(SubSeq(all, 1, over))

\* route. A baseline's request goes to the browser that has it; without one the
\* daemon answers.
Demand(a, op, t, of) ==
    \E c \in Call :
      /\ agents[a] = "on" /\ link # "off"
      /\ calls[c].op = "none" /\ \A b \in 1..(c - 1) : calls[b].op # "none"
      /\ LET routed == op = "create" \/ (of \in ToSet(owners) /\ seen # 0)
         IN  /\ calls' = [calls EXCEPT ![c] = [op |-> op, agent |-> a, tab |-> t,
                                               of |-> of, pending |-> routed]]
             /\ Down(IF routed THEN <<Note(op, c)>> ELSE <<>>)
      /\ UNCHANGED <<agents, outbox, owners, abandoned, seen, handed, browserVars,
                     link, up, turns, lapsed>>

Timeout(c) ==
    /\ Pending(c)
    /\ Ended({c}) /\ Abandons({c}) /\ Down(<<Note("cancel", c)>>)
    /\ UNCHANGED <<agents, outbox, owners, seen, handed, browserVars, link, up, turns>>

\* agent.cancel ends the call and abandons nothing: a baseline made for it
\* stays in the browser until it expires.
Cancel(c) ==
    /\ Pending(c) /\ agents[calls[c].agent] = "on"
    /\ Ended({c}) /\ Down(<<Note("cancel", c)>>)
    /\ lapsed' = lapsed \union {c}
    /\ UNCHANGED <<agents, outbox, owners, abandoned, seen, handed, browserVars,
                   link, up, turns>>

\* The writer's callback.
Written(c) ==
    /\ c \in outbox /\ agents[calls[c].agent] = "on"
    /\ outbox' = outbox \ {c} /\ handed' = handed \union {c}
    /\ UNCHANGED <<calls, agents, owners, abandoned, seen, browserVars, link, down,
                   up, turns, lapsed>>

WriteFails(c) ==
    /\ c \in outbox /\ agents[calls[c].agent] = "closing"
    /\ outbox' = outbox \ {c} /\ owners' = Without(owners, {c})
    /\ Down(<<Note("orphan", c)>>)
    /\ UNCHANGED <<calls, agents, abandoned, seen, handed, browserVars, link, up,
                   turns, lapsed>>

\* Its queue takes nothing more, is failed message by message, then the agent
\* is disconnected.
AgentCloses(a) ==
    /\ agents[a] = "on" /\ Turn /\ agents' = [agents EXCEPT ![a] = "closing"]
    /\ UNCHANGED <<calls, outbox, owners, abandoned, seen, handed, browserVars, link,
                   down, up, lapsed>>

AgentLeaves(a) ==
    /\ agents[a] = "closing" /\ \A c \in outbox : calls[c].agent # a
    /\ agents' = [agents EXCEPT ![a] = "gone"]
    /\ LET left == {c \in Call : Pending(c) /\ calls[c].agent = a}
       IN  /\ Ended(left) /\ Abandons(left)
           /\ Down(SetToSeq({Note("cancel", c) : c \in left}))
    /\ UNCHANGED <<outbox, owners, seen, handed, browserVars, link, up, turns>>

\* register: the oldest owner makes room, whether or not its record lives on.
Crowded(kept) == IF Len(kept) >= MaxOwners THEN {Head(kept)} ELSE {}

\* response, baselineResponse and finish. A creation is registered and its answer
\* queued with a callback, or released at once when the queue takes nothing more.
Answer(c, ok, evicted) ==
    /\ IF ~Pending(c)
       THEN /\ abandoned' = Without(abandoned, {c})
            /\ Down(IF c \in ToSet(abandoned) /\ ok = "ok" THEN <<Note("orphan", c)>> ELSE <<>>)
            /\ UNCHANGED <<calls, owners, outbox, lapsed>>
       ELSE /\ Ended({c}) /\ UNCHANGED abandoned
            /\ IF calls[c].op # "create"
               THEN /\ owners' = IF ok = "missing" \/ (ok = "ok" /\ calls[c].op = "release")
                                 THEN Without(owners, {calls[c].of}) ELSE owners
                    /\ UNCHANGED <<down, outbox, lapsed>>
               ELSE IF ok # "ok" THEN UNCHANGED <<owners, down, outbox, lapsed>>
               ELSE LET kept == Without(owners, evicted)
                        left == Without(kept, Crowded(kept))
                    IN  /\ lapsed' = lapsed \union Crowded(kept)
                        /\ IF agents[calls[c].agent] = "on"
                           THEN /\ owners' = Append(left, c) /\ outbox' = outbox \union {c}
                                /\ UNCHANGED down
                           ELSE /\ owners' = left /\ Down(<<Note("orphan", c)>>)
                                /\ UNCHANGED outbox
    /\ UNCHANGED <<seen, link>>

\* access_update: another grant than the one known clears the registry, the
\* abandoned calls that already run under this grant included.
Access(g) ==
    /\ seen' = g
    /\ IF g = 0 \/ g # seen
       THEN owners' = <<>> /\ abandoned' = <<>> /\ lapsed' = lapsed \union ToSet(abandoned)
       ELSE UNCHANGED <<owners, abandoned, lapsed>>
    /\ UNCHANGED <<calls, outbox, link, down>>

\* disconnect, of the browser.
Gone ==
    /\ link' = "off" /\ owners' = <<>> /\ abandoned' = <<>> /\ seen' = 0
    /\ Ended(Call)
    /\ UNCHANGED <<outbox, down, lapsed>>

DaemonTakes ==
    /\ up # <<>> /\ up' = Tail(up)
    /\ LET note == Head(up)
       IN  \/ note.kind = "answer" /\ Answer(note.call, note.ok, note.evicted)
           \/ note.kind = "access" /\ Access(note.grant)
           \/ note.kind = "gone" /\ Gone
    /\ UNCHANGED <<agents, handed, browserVars, turns>>

-----------------------------------------------------------------------------
(* The browser *)

Post(note) == up' = IF link = "on" THEN Append(up, note) ELSE up
Reply(c, ok, evicted) ==
    Post([kind |-> "answer", call |-> c, ok |-> ok, evicted |-> evicted])
Aborted(some) == tasks' = [c \in Call |-> IF c \in some /\ tasks[c] # "none"
                                          THEN "aborted" ELSE tasks[c]]
Drops(some) == records' = Without(records, some)

Lookup(id) == IF id \in replaced THEN "failed" ELSE IF id \in ToSet(records) THEN "ok" ELSE "missing"

\* getRecord, for compare and describe; release is idempotent. Without a grant
\* a record that is there is out of reach.
Lookups(note) ==
    LET call == calls[note.call]
        id == IF note.kind = "orphan" THEN note.call ELSE call.of
        denied == Lookup(id) = "ok" /\ grant = 0
    IN  /\ IF note.kind = "compare" \/ denied
           THEN UNCHANGED <<records, replaced>>
           ELSE Drops({id}) /\ replaced' = replaced \ {id}
        /\ IF note.kind = "orphan" THEN UNCHANGED up
           ELSE Reply(note.call, IF denied THEN "failed"
                                 ELSE IF note.kind = "release" THEN "ok" ELSE Lookup(id), {})
        /\ UNCHANGED tasks

\* A creation resolves its tab, then captures the page.
Begins(note) ==
    /\ IF grant = 0
       THEN Reply(note.call, "failed", {}) /\ UNCHANGED tasks
       ELSE tasks' = [tasks EXCEPT ![note.call] = "capturing"] /\ UNCHANGED up
    /\ UNCHANGED <<records, replaced>>

BrowserTakes ==
    /\ down # <<>> /\ down' = Tail(down)
    /\ LET note == Head(down)
       IN  \/ note.kind = "create" /\ Begins(note)
           \/ note.kind \in {"compare", "release", "orphan"} /\ Lookups(note)
           \/ /\ note.kind = "cancel" /\ Aborted({note.call})
              /\ UNCHANGED <<records, replaced, up>>
    /\ UNCHANGED <<daemonVars, grant, told, closing, grants, spoiled, link, turns, lapsed>>

\* The target resolves once more and getScopeGeneration is what it was.
Unchanged(c) == tasks[c] = "capturing" /\ grant # 0

\* evictForTab, evictGlobally: the oldest make room.
Evicted(t) ==
    LET own == Picked(records, {i \in DOMAIN records : calls[records[i]].tab = t})
        fromTab == IF Len(own) >= MaxPerTab THEN {Head(own)} ELSE {}
        rest == Without(records, fromTab)
    IN  fromTab \union (IF Len(rest) >= MaxRecords THEN {Head(rest)} ELSE {})

\* The page is captured. A record made while the grant is not announced yet is
\* wiped in the daemon by the announcement.
Captured(c) ==
    /\ tasks[c] # "none" /\ tasks' = [tasks EXCEPT ![c] = "none"]
    /\ IF Unchanged(c)
       THEN LET evicted == Evicted(calls[c].tab)
            IN  /\ records' = Append(Without(records, evicted), c)
                /\ Reply(c, "ok", evicted)
                /\ lapsed' = IF told = grant THEN lapsed ELSE lapsed \union {c}
       ELSE Reply(c, "failed", {}) /\ UNCHANGED <<records, lapsed>>
    /\ UNCHANGED <<daemonVars, replaced, grant, told, closing, grants, spoiled, link,
                   down, turns>>

CaptureFails(c) ==
    /\ tasks[c] # "none" /\ tasks' = [tasks EXCEPT ![c] = "none"]
    /\ Reply(c, "failed", {})
    /\ UNCHANGED <<daemonVars, records, replaced, grant, told, closing, grants, spoiled,
                   link, down, turns, lapsed>>

\* Tab t's page is replaced (invalidateNavigation).
Working(t) == {c \in Call : tasks[c] # "none" /\ calls[c].tab = t}
Navigates(t) ==
    /\ Turn
    /\ LET old == {c \in ToSet(records) : calls[c].tab = t}
       IN  /\ Drops(old) /\ replaced' = replaced \union old
           /\ spoiled' = spoiled \union old \union Working(t)
    /\ tasks' = [c \in Call |-> IF c \in Working(t) /\ tasks[c] = "capturing"
                                THEN "changed" ELSE tasks[c]]
    /\ UNCHANGED <<daemonVars, grant, told, closing, grants, link, down, up, lapsed>>

\* applyWindowEnabledState: the grant is there before it is announced.
Enables ==
    /\ grant = 0 /\ ~closing /\ Turn
    /\ grant' = grants + 1 /\ grants' = grants + 1
    /\ UNCHANGED <<daemonVars, records, replaced, tasks, told, closing, spoiled, link,
                   down, up, lapsed>>

\* sendAccessUpdate: by the enabling transition, on a stable connection, again
\* for a new title.
Announces ==
    /\ grant # 0 /\ link = "on" /\ (told # grant \/ turns < MaxTurns)
    /\ turns' = IF told = grant THEN turns + 1 ELSE turns
    /\ told' = grant /\ Post([kind |-> "access", grant |-> grant])
    /\ UNCHANGED <<daemonVars, records, replaced, tasks, grant, closing, grants, spoiled,
                   link, down, lapsed>>

Disables ==
    /\ grant # 0 /\ told = grant /\ Turn
    /\ grant' = 0 /\ closing' = TRUE
    /\ UNCHANGED <<daemonVars, records, replaced, tasks, told, grants, spoiled, link,
                   down, up, lapsed>>

\* It is announced and cleared (clearWindowBridgeState) at once.
Clears ==
    /\ closing /\ closing' = FALSE
    /\ Post([kind |-> "access", grant |-> 0]) /\ told' = 0
    /\ records' = <<>> /\ replaced' = {} /\ Aborted(Call)
    /\ spoiled' = spoiled \union ToSet(records) \union {c \in Call : tasks[c] # "none"}
    /\ UNCHANGED <<daemonVars, grant, grants, link, down, turns, lapsed>>

\* The connection is lost; the daemon learns it after what is under way to it.
\* A connection that was not stable yet takes nothing with it: its calls go on.
Loses ==
    /\ link = "on" /\ Turn /\ link' = "lost" /\ told' = 0
    /\ down' = <<>> /\ up' = Append(up, [kind |-> "gone"])
    /\ \/ records' = <<>> /\ replaced' = {} /\ Aborted(Call) /\ UNCHANGED lapsed
       \/ /\ told = 0 /\ UNCHANGED <<records, replaced, tasks>>
          /\ lapsed' = lapsed \union {c \in Call : tasks[c] # "none"}
    /\ UNCHANGED <<daemonVars, grant, closing, grants, spoiled>>

Reconnects ==
    /\ link = "off" /\ link' = "on"
    /\ UNCHANGED <<daemonVars, browserVars, down, up, turns, lapsed>>

BaselinesNext ==
    \/ \E a \in Agent :
         \/ \E t \in Tab : Demand(a, "create", t, 0)
         \/ \E op \in {"compare", "release"}, id \in handed : Demand(a, op, calls[id].tab, id)
         \/ AgentCloses(a) \/ AgentLeaves(a)
    \/ \E c \in Call : \/ Timeout(c) \/ Cancel(c) \/ Written(c) \/ WriteFails(c)
                       \/ Captured(c) \/ CaptureFails(c)
    \/ DaemonTakes \/ BrowserTakes
    \/ \E t \in Tab : Navigates(t)
    \/ Enables \/ Announces \/ Disables \/ Clears \/ Loses \/ Reconnects

BaselinesSpec == BaselinesInit /\ [][BaselinesNext]_baselineVars

-----------------------------------------------------------------------------
(* Properties. *)

Answering(id) == \E i \in DOMAIN up : up[i].kind = "answer" /\ up[i].call = id
Under(kind, id) == \E i \in DOMAIN down : down[i].kind = kind /\ down[i].call = id
Asked(id) == \E c \in Call : calls[c].op = "release" /\ calls[c].of = id
Held == ToSet(records) \ lapsed

\* A record the browser holds is one the daemon can route to, or is about to
\* learn of, or is about to have released, or all are about to be cleared: it
\* does not sit there until it expires because its agent went away (abandon,
\* releaseOrphan, finish).
Accounted == closing \/ \A id \in Held : id \in ToSet(owners) \/ Answering(id) \/ Under("orphan", id)

\* A baseline an agent was told of is reached as long as the browser holds it,
\* unless an agent asked for its release (register, baselineResponse, finish).
Reachable == \A id \in handed \intersect Held : id \in ToSet(owners) \/ Asked(id)

\* A record belongs to the document and the grant it was asked under (handle).
Scoped == ToSet(records) \intersect spoiled = {}

\* The records of the browser and the registry of the daemon agree. Excepted
\* are the baselines the daemon loses sight of: those of a call canceled by its
\* agent, abandoned ones it forgot, the oldest owner dropped at MaxOwners, and
\* those made before the grant, or the connection, they are made under was
\* announced.
BaselinesAgree == Accounted /\ Reachable /\ Scoped
=============================================================================
