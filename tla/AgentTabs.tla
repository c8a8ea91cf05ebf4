------------------------------ MODULE AgentTabs ------------------------------
(***************************************************************************)
(* Working tabs of agent sessions (background-agent-tabs.ts) and the        *)
(* routing of requests to them (resolveRequestTarget, background-page.ts):  *)
(* leases in memory, their copy in session storage, over stops of the       *)
(* worker, tabs the user closes, moves out and back, and the user's order    *)
(* to work on another tab; and the groups of those tabs.  Lists of recent     *)
(* tabs are left out.                                                        *)
(***************************************************************************)
EXTENDS Naturals, SequencesExt, FiniteSetsExt

CONSTANTS
    Session, DefaultSession,
    AgentTab, NoAgentTab,
    Route,            \* requests being routed at the same time
    MaxLeases,        \* MAX_AGENT_TAB_LEASES
    MaxTabUpsets      \* what the user does, stops of the worker, storage calls that fail,
                      \* idle times

ASSUME DefaultSession \in Session /\ NoAgentTab \notin AgentTab

VARIABLES
    leases,     \* the leases, from the least to the most recently used
    saved,      \* session storage, the write under way, whether memory is loaded
    routes,     \* requests being routed
    tabs,       \* the tabs of the enabled window, closed ones, events to deliver
    told,       \* history: the tab each session was last told it works on
    tabsPast,   \* history: leases overtaken by an event, expired sessions, lost writes
    tabUpsets

tabVars == <<leases, saved, routes, tabs, told, tabsPast, tabUpsets>>

Free == [at |-> "free"]
Untold == NoAgentTab

AgentTabsInit ==
    /\ leases = <<>>
    /\ saved = [disk |-> <<>>, loaded |-> FALSE, writing |-> FALSE, snapshot |-> <<>>, dirty |-> FALSE]
    /\ routes = [r \in Route |-> Free]
    /\ tabs = [here |-> AgentTab, gone |-> {}, news |-> <<>>]
    /\ told = [s \in Session |-> Untold]
    /\ tabsPast = [due |-> {}, crossed |-> {}, stale |-> {}, unsaved |-> FALSE]
    /\ tabUpsets = 0

TabUpset == tabUpsets < MaxTabUpsets /\ tabUpsets' = tabUpsets + 1

Holders(list) == {l.session : l \in ToSet(list)}
LeaseOf(list, s) == CHOOSE l \in ToSet(list) : l.session = s
Without(list, s) == SelectSeq(list, LAMBDA l : l.session # s)
Expired(s) == s \in tabsPast.stale

PersistIfIdle(list) ==
    saved' = IF saved.writing THEN saved ELSE [saved EXCEPT !.writing = TRUE, !.snapshot = list]

\* persist: one write at a time, of a snapshot; what changes meanwhile is written next.
Persist(list) ==
    saved' = IF saved.writing THEN [saved EXCEPT !.dirty = TRUE]
             ELSE [saved EXCEPT !.writing = TRUE, !.snapshot = list]

\* evictOverflow
EvictOverflow(list) ==
    IF Len(list) > MaxLeases THEN SubSeq(list, Len(list) - MaxLeases + 1, Len(list)) ELSE list

\* Requests of these sessions are not compared with what was told before.
Freed(sessions) ==
    [r \in Route |-> IF routes[r].at # "free" /\ routes[r].session \in sessions
                     THEN [routes[r] EXCEPT !.owed = Untold] ELSE routes[r]]

\* bind; the request goes on when the lease is stored.
Bind(r, s, t) ==
    LET list == EvictOverflow(Append(Without(leases, s),
                                     [session |-> s, tab |-> t, closed |-> FALSE]))
    IN  /\ leases' = list
        /\ Persist(list)
        /\ routes' = [Freed({s} \union (Session \ Holders(list)))
                        EXCEPT ![r] = [routes[r] EXCEPT !.at = "bound", !.tab = t]]
        /\ told' = [x \in Session |-> IF x = s \/ x \notin Holders(list) THEN Untold ELSE told[x]]
        /\ tabsPast' = [tabsPast EXCEPT
              !.due = @ \union {s}, !.stale = @ \ {s},
              !.crossed = IF t \in tabs.here \/ \E n \in ToSet(tabs.news) : n.tab = t
                          THEN @ \ {s} ELSE @ \union {s}]

-----------------------------------------------------------------------------
(* Requests                                                                 *)

\* resolveRequestTarget: the tab named, or the active one, is read with the window.
\* tabs.create and the like name the tab they have made.
Arrives(r, s, t, explicit) ==
    /\ routes[r].at = "free" /\ saved.loaded /\ t \in tabs.here
    /\ routes' = [routes EXCEPT ![r] = [at |-> IF explicit THEN "named" ELSE "asked", session |-> s,
                                        tab |-> t, owed |-> IF explicit THEN Untold ELSE told[s]]]
    /\ UNCHANGED <<leases, saved, tabs, told, tabsPast, tabUpsets>>

BindsNamed(r) ==
    /\ routes[r].at = "named"
    /\ Bind(r, routes[r].session, routes[r].tab)
    /\ UNCHANGED <<tabs, tabUpsets>>

\* What a request without a tab finds: an expired lease is deleted.
LooksUp(r) ==
    LET s == routes[r].session
        Goes(at, t) == routes' = [routes EXCEPT ![r].at = at, ![r].tab = t]
    IN  /\ routes[r].at = "asked"
        /\ IF s \notin Holders(leases)
           THEN Bind(r, s, routes[r].tab)
           ELSE IF Expired(s)
           THEN /\ leases' = Without(leases, s) /\ Persist(leases')
                /\ tabsPast' = [tabsPast EXCEPT !.stale = @ \ {s}]
                /\ Goes("expired", routes[r].tab) /\ UNCHANGED told
           ELSE /\ IF LeaseOf(leases, s).closed THEN routes' = [routes EXCEPT ![r] = Free]
                   ELSE Goes("checking", LeaseOf(leases, s).tab)
                /\ UNCHANGED <<leases, saved, told, tabsPast>>
        /\ UNCHANGED <<tabs, tabUpsets>>

\* The deletion is stored; the request follows the active tab it has read.
FollowsActive(r) ==
    /\ routes[r].at = "expired" /\ ~saved.writing
    /\ Bind(r, routes[r].session, routes[r].tab)
    /\ UNCHANGED <<tabs, tabUpsets>>

\* tabs.get of the working tab.
ChecksTab(r) ==
    /\ routes[r].at = "checking" /\ routes[r].tab \in tabs.here
    /\ Bind(r, routes[r].session, routes[r].tab)
    /\ UNCHANGED <<tabs, tabUpsets>>

\* It is not in the window: markClosed, of whatever lease the session has by now.
MissesTab(r) ==
    LET s == routes[r].session
        t == routes[r].tab
    IN  /\ routes[r].at = "checking" /\ t \notin tabs.here
        /\ leases' = [i \in DOMAIN leases |->
                        [leases[i] EXCEPT !.closed = @ \/ leases[i].session = s]]
        /\ IF leases' # leases THEN Persist(leases') ELSE UNCHANGED saved
        /\ tabsPast' = IF \E l \in ToSet(leases) : l.session = s /\ ~l.closed /\ l.tab # t
                       THEN [tabsPast EXCEPT !.crossed = @ \union {s}] ELSE tabsPast
        /\ routes' = [routes EXCEPT ![r] = Free]
        /\ UNCHANGED <<tabs, told, tabUpsets>>

-----------------------------------------------------------------------------
(* Session storage and the worker                                           *)

\* The write is done; what was waited for is answered when nothing is left to write.
WriteEnds(ok) ==
    LET over == ~saved.dirty
    IN  /\ saved.writing
        /\ IF ok THEN UNCHANGED tabUpsets ELSE TabUpset
        /\ saved' = [saved EXCEPT !.disk = IF ok THEN saved.snapshot ELSE @, !.writing = ~over,
                                  !.snapshot = IF over THEN <<>> ELSE leases, !.dirty = FALSE]
        /\ routes' = [r \in Route |-> IF over /\ routes[r].at = "bound" THEN Free ELSE routes[r]]
        /\ told' = [s \in Session |->
                      IF over /\ s \in tabsPast.due \intersect Holders(leases)
                      THEN LeaseOf(leases, s).tab ELSE told[s]]
        /\ tabsPast' = [tabsPast EXCEPT !.due = IF over THEN {} ELSE @, !.unsaved = ~ok]
        /\ UNCHANGED <<leases, tabs>>

\* The worker stops; a write under way has been done or not, requests are lost.
StopsWorker(written) ==
    /\ saved.loaded /\ TabUpset
    /\ saved' = [saved EXCEPT !.loaded = FALSE, !.writing = FALSE, !.dirty = FALSE, !.snapshot = <<>>,
                              !.disk = IF saved.writing /\ written THEN saved.snapshot ELSE @]
    /\ leases' = <<>> /\ routes' = [r \in Route |-> Free]
    /\ LET lost == saved.writing \/ tabsPast.unsaved
       IN  /\ told' = [s \in Session |-> IF lost THEN Untold ELSE told[s]]
           /\ tabsPast' = [tabsPast EXCEPT !.due = {}, !.unsaved = FALSE,
                                           !.crossed = IF lost THEN Session ELSE @]
    /\ UNCHANGED tabs

\* ensureLoaded, before the first use; a failed read leaves no lease.
Loads(ok) ==
    /\ ~saved.loaded
    /\ IF ok THEN leases' = saved.disk /\ UNCHANGED <<told, tabUpsets>>
       ELSE leases' = <<>> /\ told' = [s \in Session |-> Untold] /\ TabUpset
    /\ saved' = [saved EXCEPT !.loaded = TRUE]
    /\ tabsPast' = [tabsPast EXCEPT !.unsaved = ~ok]
    /\ UNCHANGED <<routes, tabs>>

\* AGENT_TAB_IDLE_MS without a request of the session.
GoesIdle(s) ==
    /\ TabUpset /\ s \in Holders(leases) /\ ~Expired(s) /\ ~saved.writing
    /\ \A r \in Route : routes[r].at # "free" => routes[r].session # s
    /\ tabsPast' = [tabsPast EXCEPT !.stale = @ \union {s}]
    /\ told' = [told EXCEPT ![s] = Untold]
    /\ UNCHANGED <<leases, saved, routes, tabs>>

-----------------------------------------------------------------------------
(* The user                                                                 *)

ClosesTab(t) ==
    /\ t \notin tabs.gone /\ TabUpset
    /\ tabs' = [here |-> tabs.here \ {t}, gone |-> tabs.gone \union {t},
                news |-> Append(tabs.news, [tab |-> t, to |-> "nowhere"])]
    /\ UNCHANGED <<leases, saved, routes, told, tabsPast>>

\* A tab is moved to another window, or back.
MovesTab(t) ==
    /\ t \notin tabs.gone /\ TabUpset
    /\ tabs' = [tabs EXCEPT !.here = (@ \ {t}) \union ({t} \ @),
                            !.news = Append(@, [tab |-> t, to |-> IF t \in tabs.here THEN "away" ELSE "here"])]
    /\ UNCHANGED <<leases, saved, routes, told, tabsPast>>

\* handleTabRemoved; handleTabMoved opens the lease of a tab that is back.
Follow(l, n) ==
    IF l.tab = n.tab THEN [l EXCEPT !.closed = n.to # "here"] ELSE l

TabNews ==
    LET n == Head(tabs.news)
    IN  /\ tabs.news # <<>> /\ saved.loaded
        /\ leases' = [i \in DOMAIN leases |-> Follow(leases[i], n)]
        /\ IF leases' # leases THEN Persist(leases') ELSE UNCHANGED saved
        /\ tabs' = [tabs EXCEPT !.news = Tail(@)]
        /\ UNCHANGED <<routes, told, tabsPast, tabUpsets>>

\* moveAgentToTab: every session of the window, or else the default one.
MovesAgents(t) ==
    LET live == {s \in Holders(leases) : ~Expired(s)}
        Moved(s) == [session |-> s, tab |-> t, closed |-> FALSE]
        list == IF live = {} THEN Append(Without(leases, DefaultSession), Moved(DefaultSession))
                ELSE [i \in DOMAIN leases |-> IF leases[i].session \in live
                                              THEN Moved(leases[i].session) ELSE leases[i]]
        changed == IF live = {} THEN {DefaultSession} ELSE live
    IN  /\ TabUpset /\ saved.loaded /\ t \in tabs.here
        /\ leases' = list /\ Persist(list)
        /\ routes' = Freed(changed)
        /\ told' = [s \in Session |-> IF s \in changed THEN Untold ELSE told[s]]
        /\ tabsPast' = [tabsPast EXCEPT !.due = @ \union changed, !.stale = @ \ changed,
                                        !.crossed = @ \ changed]
        /\ UNCHANGED tabs

\* The window is switched off: requests in flight fail, leases are cleared.
WindowOff ==
    /\ TabUpset /\ saved.loaded /\ leases # <<>>
    /\ leases' = <<>> /\ Persist(<<>>)
    /\ routes' = [r \in Route |-> Free]
    /\ told' = [s \in Session |-> Untold]
    /\ tabsPast' = [tabsPast EXCEPT !.due = {}, !.stale = {}, !.crossed = {}]
    /\ UNCHANGED tabs

AgentTabsNext ==
    \/ \E r \in Route :
         \/ \E s \in Session, t \in AgentTab, explicit \in BOOLEAN : Arrives(r, s, t, explicit)
         \/ BindsNamed(r) \/ LooksUp(r) \/ FollowsActive(r) \/ ChecksTab(r) \/ MissesTab(r)
    \/ \E ok \in BOOLEAN : WriteEnds(ok) \/ StopsWorker(ok) \/ Loads(ok)
    \/ \E s \in Session : GoesIdle(s)
    \/ \E t \in AgentTab : ClosesTab(t) \/ MovesTab(t) \/ MovesAgents(t)
    \/ TabNews \/ WindowOff

-----------------------------------------------------------------------------
\* Agents stay on their tab (background-agent-tabs.ts 1-6, background-page.ts 328).
\* A request that names no tab and has found a tab to work on works on the one its
\* session was last told of, even over a stop of the worker and when that tab was
\* closed or moved out, unless the lease expired, was evicted, cleared or lost with
\* storage.  With the events delivered a lease is closed exactly when its tab is not
\* in the window, unless a request and an event crossed; with nothing being written
\* the stored leases are the ones in memory.
SessionsStay ==
    /\ \A r \in Route :
         routes[r].at = "bound" /\ routes[r].owed # Untold => routes[r].tab = routes[r].owed
    /\ saved.loaded /\ tabs.news = <<>> =>
         \A l \in ToSet(leases) :
            l.session \notin tabsPast.crossed => (l.closed <=> l.tab \notin tabs.here)
    /\ saved.loaded /\ ~saved.writing /\ ~tabsPast.unsaved => saved.disk = leases

-----------------------------------------------------------------------------
(* Tab groups that show where agents work (background-agent-groups.ts) in   *)
(* the strip of one window, with a user who moves tabs and edits groups      *)
(* between any two steps of a synchronisation.  Pinned tabs, shared and      *)
(* recoloured groups and other windows are left out.                         *)

CONSTANTS
    StripTab,          \* tabs of the window
    Group, NoGroup,    \* ids of tab groups; none is used again
    MaxGroupUpsets     \* what the user does, changes of activity, stops of the worker

ASSUME NoGroup \notin Group

VARIABLES
    strip,      \* the order of the tabs
    groups,     \* the group of each tab, the groups titled AI, ids used
    work,       \* recent tabs of the agents; whether the window is enabled
    records,    \* owned groups with their tabs, in memory and in session storage
    pass,       \* reconcile: how far it has come
    groupsPast, \* history: edits since the pass and its last step looked; unasked changes
    groupUpsets

groupVars == <<strip, groups, work, records, pass, groupsPast, groupUpsets>>

NoRecords == [g \in {} |-> {}]
NoPass == [at |-> "idle", todo |-> {}, runs |-> {}, group |-> NoGroup, tabs |-> <<>>]

GroupsInit ==
    /\ strip \in SetToSeqs(StripTab)
    /\ groups = [of |-> [t \in StripTab |-> NoGroup], ai |-> {}, used |-> {}]
    /\ work = [tabs |-> {}, enabled |-> TRUE, dirty |-> FALSE, clear |-> FALSE]
    /\ records = [memory |-> NoRecords, stored |-> NoRecords]
    /\ pass = NoPass
    /\ groupsPast = [edited |-> FALSE, raced |-> FALSE, harm |-> FALSE,
                    failed |-> FALSE, leftover |-> FALSE]
    /\ groupUpsets = 0

\* The id Chrome gives the next group: one at most.
NewGroup == IF Group \subseteq groups.used THEN {}
            ELSE {CHOOSE g \in Group : g \notin groups.used}

Members(g) == {t \in StripTab : g # NoGroup /\ groups.of[t] = g}
Owned == DOMAIN records.memory
Agents == IF work.enabled THEN work.tabs ELSE {}

\* The longest stretches of consecutive tabs of a set.
Stretches(order, set) ==
    {SubSeq(order, i, j) : <<i, j>> \in
        {p \in (1..Len(order)) \X (1..Len(order)) :
            /\ p[1] <= p[2] /\ \A k \in p[1]..p[2] : order[k] \in set
            /\ p[1] = 1 \/ order[p[1] - 1] \notin set
            /\ p[2] = Len(order) \/ order[p[2] + 1] \notin set}}

Adjoining(order, set) == set = {} \/ \E r \in Stretches(order, set) : ToSet(r) = set

StillTitled(g) == g \in groups.ai

\* isUnchanged: still titled AI, and of recorded tabs alone.
Unchanged(g) == g \in groups.ai /\ Members(g) \subseteq records.memory[g]

Forget(mem, g) == [h \in DOMAIN mem \ {g} |-> mem[h]]
Save(mem) == records' = [memory |-> mem, stored |-> mem]

\* sync; an edit of groups or a move of a tab also ends here.
Sync(w) == work' = [w EXCEPT !.dirty = TRUE]
            /\ pass' = IF pass.at = "idle" THEN [NoPass EXCEPT !.at = "start"] ELSE pass

-----------------------------------------------------------------------------
(* reconcile                                                                *)

StartsPass ==
    /\ pass.at = "start"
    /\ work' = [work EXCEPT !.dirty = FALSE]
    /\ pass' = [NoPass EXCEPT !.at = IF work.clear THEN "clearing" ELSE "looking",
                            !.todo = IF work.clear THEN {groups.of[t] : t \in StripTab} \ {NoGroup}
                                     ELSE {}]
    /\ groupsPast' = [groupsPast EXCEPT !.edited = FALSE, !.raced = FALSE, !.failed = FALSE]
    /\ UNCHANGED <<strip, groups, records, groupUpsets>>

\* clearAiGroups looks at a group of the window, and ungroups it if it is titled AI.
ClearLooks(g) ==
    /\ pass.at = "clearing" /\ g \in pass.todo
    /\ pass' = [pass EXCEPT !.todo = @ \ {g},
                            !.at = IF g \in groups.ai /\ Members(g) # {} THEN "ungroupAll" ELSE @,
                            !.group = g, !.tabs = SetToSeq(Members(g))]
    /\ groupsPast' = [groupsPast EXCEPT !.raced = FALSE]
    /\ UNCHANGED <<strip, groups, work, records, groupUpsets>>

\* Every record of the window is released; nothing is grouped in this pass.
Cleared ==
    /\ pass.at = "clearing" /\ pass.todo = {}
    /\ work' = [work EXCEPT !.clear = FALSE]
    /\ pass' = [NoPass EXCEPT !.at = "releasing", !.todo = Owned]
    /\ UNCHANGED <<strip, groups, records, groupsPast, groupUpsets>>

\* The activity, the tabs and the owned groups are looked at.  A record whose group
\* the user has changed is dropped; a group that lies in one block of agent tabs
\* without another group is kept, the others are released.
Looks ==
    LET mine == {g \in Owned : Members(g) # {} /\ Unchanged(g)}
        eligible == {t \in Agents : groups.of[t] \in mine \union {NoGroup}}
        kept == {g \in mine : \E b \in Stretches(strip, eligible) :
                    /\ Members(g) \subseteq ToSet(b)
                    /\ \A t \in ToSet(b) : groups.of[t] \in {g, NoGroup}}
    IN  /\ pass.at = "looking"
        /\ IF mine = Owned THEN UNCHANGED records
           ELSE Save([g \in mine |-> records.memory[g]])
        /\ pass' = [NoPass EXCEPT !.at = "releasing", !.todo = mine \ kept,
                                !.runs = Stretches(strip, {t \in eligible : groups.of[t] \notin kept})]
        /\ groupsPast' = [groupsPast EXCEPT !.edited = FALSE, !.raced = FALSE]
        /\ UNCHANGED <<strip, groups, work, groupUpsets>>

\* release looks again at the group and its tabs.
ReleaseLooks(g) ==
    /\ pass.at = "releasing" /\ g \in pass.todo
    /\ IF Members(g) # {} /\ Unchanged(g)
       THEN /\ pass' = [pass EXCEPT !.at = "ungroup", !.todo = @ \ {g}, !.group = g,
                                    !.tabs = SetToSeq(Members(g))]
            /\ UNCHANGED records
       ELSE /\ pass' = [pass EXCEPT !.todo = @ \ {g}]
            /\ Save(Forget(records.memory, g))
    /\ groupsPast' = [groupsPast EXCEPT !.raced = FALSE]
    /\ UNCHANGED <<strip, groups, work, groupUpsets>>

\* chrome.tabs.ungroup.  Chrome moves a tab out of the middle of a group that stays.
Ungroups ==
    LET gone == ToSet(pass.tabs)
        left == Members(pass.group) \ gone
    IN  /\ pass.at \in {"ungroup", "ungroupAll"}
        /\ groups' = [groups EXCEPT !.of = [t \in StripTab |-> IF t \in gone THEN NoGroup ELSE @[t]]]
        /\ Save(Forget(records.memory, pass.group))
        /\ work' = [work EXCEPT !.dirty = TRUE]
        /\ pass' = [pass EXCEPT !.at = IF @ = "ungroup" THEN "releasing" ELSE "clearing",
                                !.group = NoGroup, !.tabs = <<>>]
        /\ groupsPast' = [groupsPast EXCEPT !.harm = \/ @
              \/ /\ ~groupsPast.raced
                 /\ \/ left # {} \/ pass.group \notin groups.ai
                    \/ \E t \in gone : groups.of[t] # pass.group
                    \/ pass.at = "ungroup" /\ ~(gone \subseteq records.memory[pass.group])]
        /\ UNCHANGED <<strip, groupUpsets>>

\* The run is still in one piece, and nobody's.
StillOne(run) ==
    /\ Adjoining(strip, ToSet(run)) /\ ToSet(run) \subseteq Agents
    /\ \A t \in ToSet(run) : groups.of[t] = NoGroup

Beside(run) ==
    LET i == Min({k \in DOMAIN strip : strip[k] \in ToSet(run)})
    IN  {groups.of[strip[k]] : k \in {i - 1, i + Len(run)} \intersect DOMAIN strip} \ {NoGroup}

\* attach: the run joins an owned group beside it, or one that looks like an AI group.
AttachLooks(run) ==
    LET joinable == IF Beside(run) \intersect Owned # {} THEN Beside(run) \intersect Owned
                    ELSE Beside(run) \intersect groups.ai
    IN  /\ pass.at = "releasing" /\ pass.todo = {} /\ run \in pass.runs
        /\ IF ~StillOne(run)
           THEN pass' = [pass EXCEPT !.runs = @ \ {run}]
           ELSE \E g \in IF joinable = {} THEN {NoGroup} ELSE joinable :
                  pass' = [pass EXCEPT !.at = "group", !.runs = @ \ {run}, !.group = g, !.tabs = run]
        /\ groupsPast' = [groupsPast EXCEPT !.raced = FALSE]
        /\ UNCHANGED <<strip, groups, work, records, groupUpsets>>

\* chrome.tabs.group.  Chrome moves tabs that do not adjoin the group.
Grouped(g) ==
    LET new == ToSet(pass.tabs)
    IN  /\ groups' = [groups EXCEPT !.of = [t \in StripTab |-> IF t \in new THEN g ELSE @[t]],
                                    !.used = @ \union {g}]
        /\ work' = [work EXCEPT !.dirty = TRUE]
        /\ LET order == IF Adjoining(strip, Members(g) \union new) THEN strip
                        ELSE SelectSeq(strip, LAMBDA t : t \notin Members(g) \union new)
                             \o SelectSeq(strip, LAMBDA t : t \in Members(g) \union new)
           IN  /\ strip' = order
               /\ groupsPast' = [groupsPast EXCEPT
                     !.harm = \/ @
                              \/ /\ ~groupsPast.raced
                                 /\ order # strip \/ \E t \in new : groups.of[t] # NoGroup
                              \/ ~groupsPast.edited /\ Members(g) # {} /\ g \notin groups.ai]

Joins ==
    LET g == pass.group
    IN  /\ pass.at = "group" /\ g # NoGroup /\ Members(g) # {}
        /\ Grouped(g)
        /\ IF g \in Owned THEN Save([records.memory EXCEPT ![g] = @ \union ToSet(pass.tabs)])
           ELSE UNCHANGED records
        /\ pass' = [pass EXCEPT !.at = "releasing", !.group = NoGroup, !.tabs = <<>>]
        /\ UNCHANGED groupUpsets

\* The group is gone: the pass fails, what it was asked to do meanwhile too.
CannotJoin ==
    /\ pass.at = "group" /\ pass.group # NoGroup /\ Members(pass.group) = {}
    /\ pass' = NoPass
    /\ groupsPast' = [groupsPast EXCEPT !.failed = TRUE]
    /\ UNCHANGED <<strip, groups, work, records, groupUpsets>>

\* A group of its own: owned at once, named and stored in the next step.
Begins(g) ==
    /\ pass.at = "group" /\ pass.group = NoGroup /\ g \in NewGroup
    /\ Grouped(g)
    /\ records' = [records EXCEPT !.memory = [h \in Owned \union {g} |->
                      IF h = g THEN ToSet(pass.tabs) ELSE records.memory[h]]]
    /\ pass' = [pass EXCEPT !.at = "name", !.group = g, !.tabs = <<>>]
    /\ UNCHANGED groupUpsets

Names ==
    LET g == pass.group
    IN  /\ pass.at = "name"
        /\ IF Members(g) # {}
           THEN /\ groups' = [groups EXCEPT !.ai = @ \union {g}]
                /\ Save(records.memory)
                /\ pass' = [pass EXCEPT !.at = "releasing", !.group = NoGroup]
                /\ UNCHANGED groupsPast
           ELSE /\ Save(Forget(records.memory, g))
                /\ pass' = NoPass
                /\ groupsPast' = [groupsPast EXCEPT !.failed = TRUE]
                /\ UNCHANGED groups
        /\ UNCHANGED <<strip, work, groupUpsets>>

EndsPass ==
    /\ pass.at = "releasing" /\ pass.todo = {} /\ pass.runs = {}
    /\ pass' = IF work.dirty THEN [NoPass EXCEPT !.at = "start"] ELSE NoPass
    /\ UNCHANGED <<strip, groups, work, records, groupsPast, groupUpsets>>

-----------------------------------------------------------------------------
(* The user, the agents, the worker                                         *)

GroupUpset == groupUpsets < MaxGroupUpsets /\ groupUpsets' = groupUpsets + 1
Edited == [groupsPast EXCEPT !.edited = TRUE, !.raced = TRUE,
                            !.leftover = @ \/ pass.at \in {"clearing", "ungroupAll"}]

Whole(order, of) == \A g \in {of[t] : t \in StripTab} \ {NoGroup} :
                        Adjoining(order, {t \in StripTab : of[t] = g})

\* A tab is dragged: anywhere, out of its group, into another or a new one.
Drags(t, order, g) ==
    LET of == [groups.of EXCEPT ![t] = g]
    IN  /\ GroupUpset
        /\ Remove(order, t) = Remove(strip, t) /\ Whole(order, of)
        /\ <<order, of>> # <<strip, groups.of>>
        /\ g = NoGroup \/ Members(g) # {} \/ g \in NewGroup
        /\ strip' = order
        /\ groups' = [groups EXCEPT !.of = of, !.used = @ \union ({g} \ {NoGroup})]
        /\ groupsPast' = Edited
        /\ Sync(work)
        /\ UNCHANGED records

\* A group is renamed; no event is listened to.
TakesOver(g) ==
    /\ GroupUpset /\ g \in groups.ai /\ Members(g) # {}
    /\ groups' = [groups EXCEPT !.ai = @ \ {g}]
    /\ groupsPast' = [Edited EXCEPT !.failed = @ \/ pass.at # "idle"]
    /\ UNCHANGED <<strip, work, records, pass>>

\* An agent is routed to a tab, or its lease lapses.
Activity(t) ==
    /\ GroupUpset /\ work.enabled
    /\ Sync([work EXCEPT !.tabs = (@ \ {t}) \union ({t} \ @)])
    /\ UNCHANGED <<strip, groups, records, groupsPast>>

\* clearWindow, when the window is switched off, then the leases are cleared.
SwitchesOff ==
    /\ GroupUpset /\ work.enabled
    /\ Sync([work EXCEPT !.enabled = FALSE, !.tabs = {}, !.clear = TRUE])
    /\ groupsPast' = [groupsPast EXCEPT !.leftover = FALSE]
    /\ UNCHANGED <<strip, groups, records>>

SwitchesOn ==
    /\ GroupUpset /\ ~work.enabled /\ ~work.clear
    /\ Sync([work EXCEPT !.enabled = TRUE])
    /\ UNCHANGED <<strip, groups, records, groupsPast>>

\* The worker stops and starts: restore, then a synchronisation.
WorkerReturns ==
    /\ GroupUpset
    /\ records' = [records EXCEPT !.memory = records.stored]
    /\ work' = [work EXCEPT !.dirty = TRUE, !.clear = FALSE]
    /\ pass' = [NoPass EXCEPT !.at = "start"]
    /\ groupsPast' = [groupsPast EXCEPT !.leftover = TRUE]
    /\ UNCHANGED <<strip, groups>>

GroupsNext ==
    \/ StartsPass \/ Cleared \/ Looks \/ Ungroups \/ Joins \/ CannotJoin \/ Names \/ EndsPass
    \/ \E g \in Group : ClearLooks(g) \/ ReleaseLooks(g) \/ Begins(g) \/ TakesOver(g)
    \/ \E run \in pass.runs : AttachLooks(run)
    \/ \E t \in StripTab :
         Activity(t) \/ \E order \in SetToSeqs(StripTab), g \in Group \union {NoGroup} : Drags(t, order, g)
    \/ SwitchesOff \/ SwitchesOn \/ WorkerReturns

-----------------------------------------------------------------------------
\* What the user has arranged stays (background-agent-groups.ts 8-11, 72-73, 145-146,
\* 238-239).  The synchronisation moves no tab and changes no group the user has
\* renamed or put a tab in, unless the user did so after the call's last look at
\* the strip (for the group of a record it joins: after the pass looked).  At rest
\* every tab agents work on is in a group, every owned AI group holds only those,
\* and once the window is off no AI group is left, unless a call failed, a group
\* was renamed during the pass, or the worker stopped or groups were edited while they
\* were cleared.
ArrangementKept ==
    /\ ~groupsPast.harm
    /\ pass.at = "idle" /\ ~groupsPast.failed =>
         /\ \A t \in Agents : groups.of[t] # NoGroup
         /\ \A g \in Owned \intersect groups.ai : Members(g) \subseteq Agents
         /\ ~work.enabled /\ ~groupsPast.leftover => \A t \in StripTab : groups.of[t] \notin groups.ai
=============================================================================
