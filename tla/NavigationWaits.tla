--------------------------- MODULE NavigationWaits ---------------------------
(***************************************************************************)
(* Waiting for a URL (src/packages/extension/src/navigation-wait.ts): the   *)
(* waits of one tab, the reads they have under way, the events that start   *)
(* more of them, and the lease on the hooks that report history changes     *)
(* (background-content-script.ts).                                          *)
(***************************************************************************)
EXTENDS Naturals, FiniteSets, Sequences

CONSTANTS
    Waiter,          \* calls, once each
    NeedsLoad,       \* those with waitForLoad
    MaxReadsOpen,    \* reads of the tab that are under way
    MaxTabTurns,     \* what the tab does by itself
    MaxHookFaults    \* scripts that Chrome fails to run

VARIABLES
    waits,      \* waitersByTab, signalsByTab and signalCleanupByTab of the tab
    reads,      \* the calls of _start, _check and _timeout that wait for something
    webTab,     \* the tab: whether it matches, loads, is home, is open; its hooks
    tabEvents,  \* Chrome's events on their way
    windowOpen, \* hasWindowAccess
    leaked,     \* history: hooks could not be removed
    tabTurns, hookFaults

navigationVars == <<waits, reads, webTab, tabEvents, windowOpen, leaked, tabTurns, hookFaults>>

NoLease == [on |-> "none", channel |-> 0, refs |-> 0, ops |-> <<>>, half |-> FALSE,
            ready |-> FALSE, failed |-> FALSE]

NavigationInit ==
    /\ waits = [is |-> [w \in Waiter |-> "none"],
                holds |-> {}, timed |-> {}, lease |-> NoLease, channels |-> 0]
    /\ reads = {} /\ tabEvents = {} /\ windowOpen = TRUE /\ leaked = FALSE
    /\ webTab \in [match : BOOLEAN, loading : BOOLEAN, home : {TRUE}, open : {TRUE},
                   main : {{}}, isolated : {{}}]
    /\ tabTurns = 0 /\ hookFaults = 0

Waiting(n) == {w \in Waiter : n.is[w] = "waiting"}

\* isSatisfied
Satisfied(w, tab) == tab.match /\ (w \in NeedsLoad => ~tab.loading)

-----------------------------------------------------------------------------
(* Ends of waits, and of the lease with the last of them                    *)

\* Broken variant of LastHold: the first wait that ends gives up the lease.
AnyHold(n, ends) == TRUE
LastHold(n, ends) == n.lease.refs = Cardinality(ends)

\* _releaseSignals, for the waits that end in one turn: the uninstall follows what
\* the lease still has to do, unless that fails.
Release(n, ws) ==
    LET ends == ws \intersect n.holds
        rest == [n EXCEPT !.holds = @ \ ws]
    IN  IF ends = {} \/ n.lease.on # "lease" THEN rest
        ELSE IF ~LastHold(n, ends) THEN [rest EXCEPT !.lease.refs = @ - Cardinality(ends)]
        ELSE IF n.lease.failed THEN [rest EXCEPT !.lease = NoLease]
        ELSE [rest EXCEPT !.lease.on = "cleanup", !.lease.refs = 0,
                          !.lease.ops = Append(@, "uninstall")]

\* _resolve, _reject
Settle(n, ws, how) ==
    LET ends == ws \intersect Waiting(n)
    IN  Release([n EXCEPT !.is = [w \in Waiter |-> IF w \in ends THEN how ELSE n.is[w]]], ends)

RejectAll(n) == Settle(n, Waiter, "rejected")

\* Every call looks at waiter.settled when it goes on.
Becomes(n, calls) == waits' = n /\ reads' = {r \in calls : r.w \in Waiting(n)}

Ask(w, use) == [w |-> w, at |-> "asks", use |-> use, tab |-> {}]
Checks(ws) == {Ask(w, "check") : w \in ws}

-----------------------------------------------------------------------------
(* Calls                                                                    *)

\* wait registers the waiter before its first read.
WaitsForUrl(w) ==
    /\ waits.is[w] = "none" /\ windowOpen /\ webTab.home /\ webTab.open
    /\ waits' = [waits EXCEPT !.is[w] = "waiting"]
    /\ reads' = reads \union Checks({w})
    /\ UNCHANGED <<webTab, tabEvents, windowOpen, leaked, tabTurns, hookFaults>>

\* chrome.tabs.get
TabIsRead(r) ==
    /\ r.at = "asks"
    /\ reads' = (reads \ {r}) \union {[r EXCEPT !.at = "has", !.tab = {webTab}]}
    /\ UNCHANGED <<waits, webTab, tabEvents, windowOpen, leaked, tabTurns, hookFaults>>

\* _readScopedTab goes on, then _start, _check, _acquireSignals or _timeout.
Continues(r) ==
    LET tab == CHOOSE t \in r.tab : TRUE
        others == reads \ {r}
    IN  /\ r.at = "has"
        /\ IF ~windowOpen \/ ~tab.open \/ ~tab.home
           THEN Becomes(Settle(waits, {r.w}, "rejected"), others)
           ELSE IF r.use = "again" THEN Becomes(waits, others \union Checks({r.w}))
           ELSE IF Satisfied(r.w, tab)
           THEN Becomes(Settle(waits, {r.w}, "matched"), others)
           ELSE IF r.use = "timeout" THEN Becomes(Settle(waits, {r.w}, "rejected"), others)
           ELSE IF r.w \in waits.holds THEN Becomes(waits, others)
           ELSE Becomes(waits, others \union {[r EXCEPT !.at = "acquires", !.tab = {}]})
        /\ UNCHANGED <<webTab, tabEvents, windowOpen, leaked, tabTurns, hookFaults>>

\* _acquireSignals, once no cleanup of the tab's hooks is under way.
Acquires(r) ==
    LET n == waits
        fresh == [NoLease EXCEPT !.on = "lease", !.channel = n.channels + 1,
                                 !.refs = 1, !.ops = <<"install">>]
        others == reads \ {r}
    IN  /\ r.at = "acquires" /\ n.lease.on # "cleanup"
        /\ IF r.w \in n.holds THEN Becomes(n, others \union Checks({r.w}))
           ELSE IF ~windowOpen THEN Becomes(Settle(n, {r.w}, "rejected"), others)
           ELSE Becomes(IF n.lease.on = "lease"
                        THEN [n EXCEPT !.holds = @ \union {r.w}, !.lease.refs = @ + 1]
                        ELSE [n EXCEPT !.holds = @ \union {r.w}, !.lease = fresh,
                                       !.channels = @ + 1],
                        others \union {[r EXCEPT !.at = "installs"]})
        /\ UNCHANGED <<webTab, tabEvents, windowOpen, leaked, tabTurns, hookFaults>>

\* await lease.installPromise
SeesInstall(r) ==
    LET others == reads \ {r}
    IN  /\ r.at = "installs" /\ (waits.lease.ready \/ waits.lease.failed)
        /\ IF ~waits.lease.ready \/ ~windowOpen
           THEN Becomes(Settle(waits, {r.w}, "rejected"), others)
           ELSE Becomes(waits, others \union {Ask(r.w, "again")})
        /\ UNCHANGED <<webTab, tabEvents, windowOpen, leaked, tabTurns, hookFaults>>

TimesOut(w) ==
    /\ waits.is[w] = "waiting" /\ w \notin waits.timed
    /\ waits' = [waits EXCEPT !.timed = @ \union {w}]
    /\ reads' = reads \union {Ask(w, "timeout")}
    /\ UNCHANGED <<webTab, tabEvents, windowOpen, leaked, tabTurns, hookFaults>>

-----------------------------------------------------------------------------
(* The hooks: installs and refreshes run one after another                  *)

Op == Head(waits.lease.ops)
HookRuns == waits.lease.on # "none" /\ waits.lease.ops # <<>> /\ ~waits.lease.failed
Done(n) == [n EXCEPT !.lease.ops = Tail(@), !.lease.half = FALSE, !.lease.ready = TRUE]

Installs ==
    /\ HookRuns /\ Op # "uninstall" /\ webTab.open
    /\ IF waits.lease.half
       THEN Becomes(Done(waits), reads)
            /\ webTab' = [webTab EXCEPT !.main = @ \union {waits.lease.channel}]
       ELSE waits' = [waits EXCEPT !.lease.half = TRUE] /\ UNCHANGED reads
            /\ webTab' = [webTab EXCEPT !.isolated = @ \union {waits.lease.channel}]
    /\ UNCHANGED <<tabEvents, windowOpen, leaked, tabTurns, hookFaults>>

Unhooked == [webTab EXCEPT !.main = @ \ {waits.lease.channel},
                           !.isolated = @ \ {waits.lease.channel}]

\* A failed first half leaves what is there, a failed second half undoes both.
\* A failed refresh ends every wait, and with the last one the lease; what was
\* to follow on it, the uninstall too, is skipped.
InstallFails ==
    LET failed == [waits EXCEPT !.lease.failed = TRUE, !.lease.ops = <<>>, !.lease.half = FALSE]
        page == IF waits.lease.half THEN Unhooked ELSE webTab
    IN  /\ HookRuns /\ Op # "uninstall"
        /\ webTab.open => hookFaults < MaxHookFaults
        /\ hookFaults' = (IF webTab.open THEN hookFaults + 1 ELSE hookFaults)
        /\ webTab' = page
        /\ leaked' = (leaked \/ page.main \union page.isolated # {})
        /\ IF waits.lease.on = "cleanup" THEN Becomes([waits EXCEPT !.lease = NoLease], reads)
           ELSE IF Op = "refresh" THEN Becomes(RejectAll(failed), reads)
           ELSE Becomes(failed, reads)
        /\ UNCHANGED <<tabEvents, windowOpen, tabTurns>>

Uninstalls ==
    /\ HookRuns /\ Op = "uninstall"
    /\ \/ webTab' = Unhooked /\ UNCHANGED <<leaked, hookFaults>>
       \/ /\ webTab.open /\ hookFaults < MaxHookFaults /\ hookFaults' = hookFaults + 1
          /\ leaked' = TRUE /\ UNCHANGED webTab
    /\ waits' = [waits EXCEPT !.lease = NoLease]
    /\ UNCHANGED <<reads, tabEvents, windowOpen, tabTurns>>

-----------------------------------------------------------------------------
(* Events                                                                   *)

On(kind, channel) == [kind |-> kind, channel |-> channel]
Plain(kind) == {On(kind, 0)}

\* handleTabUpdated: it checks every wait, and a load that ends refreshes the hooks.
HearsUpdate(event) ==
    /\ event.kind \in {"updated", "complete"} /\ tabEvents' = tabEvents \ {event}
    /\ LET n == IF webTab.home THEN waits ELSE RejectAll(waits)
           refreshed == IF event.kind = "complete" /\ n.lease.on = "lease" /\ ~n.lease.failed
                        THEN [n EXCEPT !.lease.ops = Append(@, "refresh")] ELSE n
       IN  Becomes(refreshed, reads \union Checks(Waiting(n)))
    /\ UNCHANGED <<webTab, windowOpen, leaked, tabTurns, hookFaults>>

\* handleSpaSignal
HearsSignal(event) ==
    /\ event.kind = "signal" /\ tabEvents' = tabEvents \ {event}
    /\ Becomes(waits, IF waits.lease.on = "lease" /\ waits.lease.channel = event.channel
                      THEN reads \union Checks(Waiting(waits)) ELSE reads)
    /\ UNCHANGED <<webTab, windowOpen, leaked, tabTurns, hookFaults>>

\* handleTabMoved, handleTabRemoved
HearsLeave(event) ==
    /\ event.kind = "left" /\ tabEvents' = tabEvents \ {event}
    /\ Becomes(RejectAll(waits), reads)
    /\ UNCHANGED <<webTab, windowOpen, leaked, tabTurns, hookFaults>>

\* cancelWindow
WindowCloses ==
    /\ windowOpen /\ windowOpen' = FALSE
    /\ Becomes(RejectAll(waits), reads)
    /\ UNCHANGED <<webTab, tabEvents, leaked, tabTurns, hookFaults>>

WindowReopens ==
    /\ ~windowOpen /\ windowOpen' = TRUE /\ tabTurns < MaxTabTurns /\ tabTurns' = tabTurns + 1
    /\ UNCHANGED <<waits, reads, webTab, tabEvents, leaked, hookFaults>>

TabTurn(tab, events) ==
    /\ webTab.open /\ tabTurns < MaxTabTurns /\ tabTurns' = tabTurns + 1
    /\ webTab' = tab /\ tabEvents' = tabEvents \union events
    /\ UNCHANGED <<waits, reads, windowOpen, leaked, hookFaults>>

Hooked == webTab.main \cap webTab.isolated

TabActs ==
    \/ \E match \in BOOLEAN :
         \/ TabTurn([webTab EXCEPT !.match = match, !.loading = TRUE, !.main = {},
                                   !.isolated = {}], Plain("updated"))
         \/ TabTurn([webTab EXCEPT !.match = match], Plain("updated") \union {On("signal", c) : c \in Hooked})
    \/ webTab.loading /\ TabTurn([webTab EXCEPT !.loading = FALSE], Plain("complete"))
    \/ webTab.home /\ TabTurn([webTab EXCEPT !.home = FALSE], Plain("left"))
    \/ TabTurn([webTab EXCEPT !.open = FALSE, !.main = {}, !.isolated = {}], Plain("left"))

NavigationNext ==
    \/ /\ Cardinality(reads) < MaxReadsOpen
       /\ \/ \E w \in Waiter : WaitsForUrl(w) \/ TimesOut(w)
          \/ \E event \in tabEvents : HearsUpdate(event) \/ HearsSignal(event)
    \/ \E r \in reads : TabIsRead(r) \/ Continues(r) \/ Acquires(r) \/ SeesInstall(r)
    \/ Installs \/ InstallFails \/ Uninstalls
    \/ (\E event \in tabEvents : HearsLeave(event)) \/ WindowCloses \/ WindowReopens \/ TabActs

NavigationSpec == NavigationInit /\ [][NavigationNext]_navigationVars

-----------------------------------------------------------------------------
\* No change of the tab goes unnoticed: when nothing is under way, a wait that
\* still waits is not satisfied.  The lease counts the waits that hold it, no
\* wait outlives the grant, and once all have ended and the lease's work is done
\* no hook is left in the page, unless Chrome failed to remove it.
NavigationWaitsKept ==
    /\ reads = {} /\ tabEvents = {} /\ webTab.open =>
         \A w \in Waiting(waits) : ~Satisfied(w, webTab)
    /\ waits.holds \subseteq Waiting(waits)
    /\ waits.lease.on = "lease" => waits.lease.refs = Cardinality(waits.holds)
    /\ waits.holds # {} => waits.lease.on = "lease"
    /\ ~windowOpen => Waiting(waits) = {}
    /\ waits.lease.on = "none" /\ ~leaked => webTab.main \union webTab.isolated = {}
=============================================================================
