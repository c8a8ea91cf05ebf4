------------------------------ MODULE ActionLog ------------------------------
(***************************************************************************)
(* The activity history of the service worker                              *)
(* (src/packages/extension/src/background-action-log.ts): a list in memory *)
(* and its copies in local and session storage, over suspensions of the     *)
(* worker, updates of the extension and restarts of the browser.            *)
(***************************************************************************)
EXTENDS Naturals, FiniteSets, SequencesExt

CONSTANTS
    LogTab,         \* tabs
    NoLogTab,       \* an entry of no tab
    LogEntry,       \* ids of entries
    PingEntry,      \* those of health.ping
    MaxHistory,     \* MAX_ACTION_LOG_ENTRIES: entries kept of a tab
    MaxLogUpsets    \* stops of the worker and storage calls that fail

VARIABLES
    log,         \* state.actionLog, historyRestored, restoration
    mutations,   \* the queue of mutate; its head runs
    callers,     \* calls waiting for the restoration
    logStep,     \* how far the head has come
    stored,      \* storage.local, storage.session, and what a restoration has read
    tabsNow,     \* open tabs, and closed ones whose event is not delivered
    logPast,     \* history: what must be kept, what must not come back
    logUpsets

logVars == <<log, mutations, callers, logStep, stored, tabsNow, logPast, logUpsets>>

Nothing == <<[id |-> "nothing"]>>      \* the key is not there
Asleep == [live |-> FALSE, list |-> <<>>, restored |-> FALSE, restoring |-> "none"]
Ids(list) == {e.id : e \in ToSet(list)}
Held(list) == IF list = Nothing THEN <<>> ELSE list

LogInit ==
    /\ log = [Asleep EXCEPT !.live = TRUE]
    /\ mutations = <<>> /\ callers = <<>> /\ logStep = "start"
    /\ stored = [local |-> Nothing, session |-> Nothing, read |-> <<>>]
    /\ tabsNow = [open |-> LogTab, leaving |-> {}]
    /\ logPast = [safe |-> {}, gone |-> {}, used |-> {}, unfiltered |-> FALSE, behind |-> FALSE]
    /\ logUpsets = 0

Gone(e) == e.tab \in LogTab \ tabsNow.open
Upset == logUpsets < MaxLogUpsets /\ logUpsets' = logUpsets + 1

\* What a list has at these places, in its order.
Picked(list, places) ==
    [n \in 1..Cardinality(places) |->
        list[CHOOSE i \in places : Cardinality({j \in places : j <= i}) = n]]

\* boundHistory: of every tab the last entries, of every id the last one.
KeptPlaces(list) ==
    {i \in DOMAIN list :
        /\ \A j \in i + 1 .. Len(list) : list[j].id # list[i].id
        /\ Cardinality({list[j].id : j \in {k \in i + 1 .. Len(list) : list[k].tab = list[i].tab}})
             < MaxHistory}
BoundHistory(list) == Picked(list, KeptPlaces(list))

\* A worker that writes its own list over the stored one.
AlwaysSaves == TRUE

\* persistHistory: nothing is written before the stored history was read.
MaySave == log.restored
Saved(list) == Picked(list, {i \in DOMAIN list : list[i].id \notin PingEntry})

\* await restoreActionLog(), then mutate(operation).
Enters(l, ops, waiting, op) ==
    CASE l.restoring = "done"   -> [log |-> l, ops |-> Append(ops, op), waiting |-> waiting]
      [] l.restoring = "queued" -> [log |-> l, ops |-> ops, waiting |-> Append(waiting, op)]
      [] OTHER -> [log |-> [l EXCEPT !.restoring = "queued"],
                   ops |-> Append(ops, [kind |-> "restore"]), waiting |-> Append(waiting, op)]

Request(op) ==
    LET next == Enters(log, mutations, callers, op)
    IN  log' = next.log /\ mutations' = next.ops /\ callers' = next.waiting

-----------------------------------------------------------------------------
(* Calls                                                                    *)

\* appendActionLogEntry, by logBridgeAction and others; the tab may be closed.
Log(id, t) ==
    /\ log.live /\ id \notin logPast.used
    /\ Request([kind |-> "append", entry |-> [id |-> id, tab |-> t]])
    /\ logPast' = [logPast EXCEPT !.used = @ \union {id}]
    /\ UNCHANGED <<logStep, stored, tabsNow, logUpsets>>

TabCloses(t) ==
    /\ t \in tabsNow.open
    /\ tabsNow' = [open |-> tabsNow.open \ {t}, leaving |-> tabsNow.leaving \union {t}]
    /\ logPast' = [logPast EXCEPT !.safe = {e \in @ : e.tab # t}]
    /\ UNCHANGED <<log, mutations, callers, logStep, stored, logUpsets>>

\* chrome.tabs.onRemoved: clearActionLogForTab.
TabRemoved(t) ==
    /\ log.live /\ t \in tabsNow.leaving
    /\ Request([kind |-> "clearTab", tab |-> t])
    /\ tabsNow' = [tabsNow EXCEPT !.leaving = @ \ {t}]
    /\ UNCHANGED <<logStep, stored, logPast, logUpsets>>

\* The worker is stopped, whatever it was at; an update of the extension also
\* empties session storage and drops the events not delivered.
WorkerStops(update) ==
    /\ log.live /\ Upset
    /\ log' = Asleep /\ mutations' = <<>> /\ callers' = <<>> /\ logStep' = "start"
    /\ stored' = [stored EXCEPT !.read = <<>>,
                                !.session = IF update THEN Nothing ELSE @]
    /\ tabsNow' = IF update THEN [tabsNow EXCEPT !.leaving = {}] ELSE tabsNow
    /\ UNCHANGED logPast

\* initializeState; when the browser has been started again, onStartup calls
\* clearActionLog.  Tabs the browser restores may have ids that were used.
WorkerStarts(startup) ==
    LET l == [Asleep EXCEPT !.live = TRUE, !.restoring = "queued"]
    IN  /\ ~log.live
        /\ log' = l /\ mutations' = <<[kind |-> "restore"]>> /\ logStep' = "start"
        /\ callers' = IF startup THEN <<[kind |-> "clear"]>> ELSE <<>>
        /\ IF startup THEN /\ stored' = [stored EXCEPT !.session = Nothing]
                           /\ tabsNow' = [open |-> LogTab, leaving |-> {}]
                           /\ logPast' = [logPast EXCEPT !.safe = {}]
                      ELSE UNCHANGED <<stored, tabsNow, logPast>>
        /\ UNCHANGED logUpsets

-----------------------------------------------------------------------------
(* The operation that runs                                                  *)

Runs(kind, step) ==
    log.live /\ mutations # <<>> /\ Head(mutations).kind = kind /\ logStep = step

Finish == mutations' = Tail(mutations) /\ logStep' = "start"

\* A restoration is over: what waited for it is queued.
Settled(l, outcome) ==
    /\ log' = [l EXCEPT !.restoring = outcome]
    /\ mutations' = Tail(mutations) \o callers /\ callers' = <<>> /\ logStep' = "start"

RestoreReads ==
    /\ Runs("restore", "start")
    /\ stored' = [stored EXCEPT !.read = IF stored.local # Nothing THEN stored.local
                                         ELSE stored.session]
    /\ logStep' = "tabs"
    /\ UNCHANGED <<log, mutations, callers, tabsNow, logPast, logUpsets>>

RestoreCannotRead ==
    /\ Runs("restore", "start") /\ Upset
    /\ Settled(log, "none")
    /\ UNCHANGED <<stored, tabsNow, logPast>>

\* What leaves a list that was bounded need not be kept.
Bounded(list) == [logPast EXCEPT !.safe = @ \ (ToSet(list) \ ToSet(BoundHistory(list)))]

\* chrome.tabs.query({}) answers or fails; the lists are merged.
RestoreMerges(known) ==
    LET read == Saved(Held(stored.read))
        bounded == BoundHistory(read \o log.list)
        merged == Picked(bounded, {i \in DOMAIN bounded : ~known \/ ~Gone(bounded[i])})
        l == [log EXCEPT !.list = merged, !.restored = TRUE]
    IN  /\ Runs("restore", "tabs")
        /\ IF known THEN UNCHANGED logUpsets ELSE Upset
        /\ logPast' = [Bounded(read \o log.list) EXCEPT !.unfiltered = @ \/ ~known]
        /\ IF stored.read # Nothing \/ merged # <<>>
           THEN log' = l /\ logStep' = "local" /\ UNCHANGED <<mutations, callers>>
           ELSE Settled(l, "done")
        /\ stored' = [stored EXCEPT !.read = <<>>]
        /\ UNCHANGED tabsNow

\* The operations of the three callers change the list, then write it.
Change(list, past, restored) ==
    /\ log' = [log EXCEPT !.list = list, !.restored = restored]
    /\ logPast' = past
    /\ IF MaySave \/ restored THEN logStep' = "local" /\ UNCHANGED mutations ELSE Finish
    /\ UNCHANGED <<callers, stored, tabsNow, logUpsets>>

Appends ==
    LET e == Head(mutations).entry
        list == Append(log.list, e)
    IN  /\ Runs("append", "start")
        /\ IF Gone(e)
           THEN Finish /\ UNCHANGED <<log, callers, stored, tabsNow, logPast, logUpsets>>
           ELSE Change(BoundHistory(list), Bounded(list), log.restored)

ClearsTab ==
    /\ Runs("clearTab", "start")
    /\ Change(Picked(log.list, {i \in DOMAIN log.list : log.list[i].tab # Head(mutations).tab}),
              logPast, log.restored)

Clears ==
    /\ Runs("clear", "start")
    /\ Change(<<>>, [logPast EXCEPT !.safe = {}], TRUE)

\* persistHistory's two writes; a failed one ends the operation.
Writes(kind) ==
    /\ Runs(kind, "local")
    /\ stored' = [stored EXCEPT !.local = Saved(log.list)]
    /\ logPast' = [logPast EXCEPT !.safe = @ \union {e \in ToSet(Saved(log.list)) : ~Gone(e)},
                                  !.behind = TRUE,
                                  !.gone = IF kind = "clear" THEN @ \union Ids(Held(stored.local)) ELSE @]
    /\ logStep' = "session"
    /\ UNCHANGED <<log, mutations, callers, tabsNow, logUpsets>>

OpEnds(kind) == IF kind = "restore" THEN Settled(log, "done")
                ELSE Finish /\ UNCHANGED <<log, callers>>

WritesSession(kind) ==
    /\ Runs(kind, "session")
    /\ stored' = [stored EXCEPT !.session = Saved(log.list)]
    /\ logPast' = [logPast EXCEPT !.behind = FALSE]
    /\ OpEnds(kind)
    /\ UNCHANGED <<tabsNow, logUpsets>>

WriteFails(kind) ==
    /\ Runs(kind, "local") \/ Runs(kind, "session")
    /\ Upset
    /\ logPast' = [logPast EXCEPT !.behind = TRUE]
    /\ OpEnds(kind)
    /\ UNCHANGED <<stored, tabsNow>>

LogNext ==
    \/ \E id \in LogEntry, t \in LogTab \union {NoLogTab} : Log(id, t)
    \/ \E t \in LogTab : TabCloses(t) \/ TabRemoved(t)
    \/ \E update \in BOOLEAN : WorkerStops(update)
    \/ \E startup \in BOOLEAN : WorkerStarts(startup)
    \/ RestoreReads \/ RestoreCannotRead
    \/ \E known \in BOOLEAN : RestoreMerges(known)
    \/ Appends \/ ClearsTab \/ Clears
    \/ \E kind \in {"restore", "append", "clearTab", "clear"} :
         Writes(kind) \/ WritesSession(kind) \/ WriteFails(kind)

LogSpec == LogInit /\ [][LogNext]_logVars

-----------------------------------------------------------------------------
\* The history survives and nothing in it comes back (background-action-log.ts
\* 205-307).  An entry once written to local storage stays there, over updates and
\* unreadable storage, until its tab is closed, the browser is restarted or newer
\* entries push it out; what clearActionLog has erased never returns; with nothing
\* under way both copies are the list without its connection checks, and no entry
\* is of a closed tab whose event has been handled, unless Chrome could not
\* enumerate the tabs.
HistoryKept ==
    LET idle == log.live /\ log.restored /\ mutations = <<>>
    IN  /\ logPast.safe \subseteq ToSet(Held(stored.local))
        /\ logPast.gone \intersect (Ids(log.list) \union Ids(Held(stored.local))) = {}
        /\ idle /\ ~logPast.behind => /\ Held(stored.local) = Saved(log.list)
                                      /\ Held(stored.session) = Saved(log.list)
        /\ idle /\ ~logPast.unfiltered =>
             \A e \in ToSet(log.list) : Gone(e) => e.tab \in tabsNow.leaving
=============================================================================
