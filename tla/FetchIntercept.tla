---------------------------- MODULE FetchIntercept ----------------------------
(***************************************************************************)
(* Interception rules of one tab                                            *)
(* (src/packages/extension/src/background-fetch-intercept.ts): additions,   *)
(* removals, clears and the expiry take turns in a queue and wait in the    *)
(* middle of a turn for Chrome, which may take the debugger away.           *)
(***************************************************************************)
EXTENDS Naturals, FiniteSets, SequencesExt

CONSTANTS
    Rule,           \* rules, each with a pattern of its own
    MaxRules,       \* MAX_INTERCEPT_RULES_PER_TAB
    MaxPendingJobs, \* MAX_PENDING_PER_TAB
    MaxFetchFaults  \* commands that fail and sessions that are lost

ASSUME FetchAssumption == MaxRules \in Nat

VARIABLES
    fetch,       \* TabInterceptState, and whether the tab's events are listened to
    jobs,        \* lifecycleQueues: the first job runs
    chromeFetch, \* the session, the hold for it, the patterns Chrome pauses,
                 \* and a loss whose onDetach is not delivered
    strayHold,   \* history: the coordinator counts a hold nobody owns
    fetchFaults

fetchVars == <<fetch, jobs, chromeFetch, strayHold, fetchFaults>>

NoFetch == [has |-> FALSE, rules |-> {}, owns |-> FALSE, timer |-> "off", filter |-> FALSE]
NoSession == [session |-> FALSE, held |-> FALSE, patterns |-> {}, told |-> TRUE]

FetchInit ==
    /\ fetch = NoFetch /\ jobs = <<>> /\ chromeFetch = NoSession
    /\ strayHold = FALSE /\ fetchFaults = 0

FetchFault == fetchFaults < MaxFetchFaults /\ fetchFaults' = fetchFaults + 1

-----------------------------------------------------------------------------
(* runLifecycle                                                              *)

Cleanup(kind) == kind \in {"clear", "expire"}
CleanupPending == \E i \in DOMAIN jobs : Cleanup(jobs[i].kind)
Additions == {i \in DOMAIN jobs : jobs[i].kind = "add" /\ jobs[i].at \in {"wait", "disable", "release", "add"}}

\* One cleanup, outside the limit of ordinary work; nothing is admitted after it.
Admitted(kind) ==
    /\ ~CleanupPending
    /\ Cleanup(kind) \/ Len(jobs) < MaxPendingJobs
    /\ kind = "add" => Cardinality(fetch.rules) + Cardinality(Additions) < MaxRules

Job(kind, rule) == [kind |-> kind, rule |-> rule, at |-> "wait", lost |-> FALSE, stale |-> FALSE]

CallFetch(kind, rule) ==
    /\ Admitted(kind)
    /\ jobs' = Append(jobs, Job(kind, rule))
    /\ UNCHANGED <<fetch, chromeFetch, strayHold, fetchFaults>>

CallAdd(r) == r \notin fetch.rules /\ (\A i \in DOMAIN jobs : jobs[i].rule # {r}) /\ CallFetch("add", {r})
CallRemove(r) == r \in fetch.rules /\ CallFetch("remove", {r})
CallClear == (fetch.has \/ jobs # <<>>) /\ CallFetch("clear", {})

Running(kind, at) == jobs # <<>> /\ Head(jobs).kind = kind /\ Head(jobs).at = at
Mine == Head(jobs).rule
Lost == Head(jobs).lost
\* An expiry of a timer that was renewed, or of a state that is gone.
Outdated(q) == [i \in DOMAIN q |-> [q[i] EXCEPT !.stale = q[i].kind = "expire"]]
GoesTo(q, at) == [q EXCEPT ![1].at = at]
Over == jobs' = Tail(jobs)

\* resetTtl
Timed(f) == [f EXCEPT !.timer = "set"]

\* Broken variant: a state whose Fetch.disable failed is dropped with its filter.
Dropped(f) == NoFetch

\* releaseTab's catch: paused requests are still answered, and it is tried again.
Unconfirmed(f) == Timed(f)

\* The timer fires; with a cleanup pending, what it asks for is refused.  A renewed
\* timer (5 s at least) does not fire while the expiry of the one before is queued:
\* what may run until then stops it or ends at once.
FetchTimerFires ==
    /\ fetch.timer = "set" /\ ~\E i \in DOMAIN jobs : jobs[i].stale
    /\ fetch' = [fetch EXCEPT !.timer = "spent"]
    /\ jobs' = IF Admitted("expire") THEN Append(jobs, Job("expire", {})) ELSE jobs
    /\ UNCHANGED <<chromeFetch, strayHold, fetchFaults>>

-----------------------------------------------------------------------------
(* releaseTab, for the job that runs                                         *)

\* A stopping state is released before a rule is added.
MustRelease ==
    \/ Running("add", "wait") /\ fetch.has /\ fetch.rules = {}
    \/ Running("clear", "wait") /\ fetch.has
    \/ Running("expire", "wait") /\ fetch.has /\ ~Head(jobs).stale
    \/ Running("remove", "wait") /\ fetch.rules # {} /\ fetch.rules \subseteq Mine

\* What comes after the release: for an addition, that has only begun.
AfterRelease == IF Head(jobs).kind = "add" /\ Head(jobs).at \in {"wait", "disable", "release"}
                THEN jobs' = GoesTo(Outdated(jobs), "add")
                ELSE jobs' = Outdated(Tail(jobs))

GivesUp ==
    /\ MustRelease
    /\ IF fetch.owns
       THEN fetch' = [fetch EXCEPT !.rules = {}, !.timer = "off"] /\ jobs' = GoesTo(jobs, "disable")
       ELSE fetch' = NoFetch /\ AfterRelease
    /\ UNCHANGED <<chromeFetch, strayHold, fetchFaults>>

FetchAt(where) == jobs # <<>> /\ Head(jobs).at \in where

\* Fetch.disable succeeds; then the coordinator is asked to release.
StopsPausing ==
    /\ FetchAt({"disable", "undo"}) /\ chromeFetch.session
    /\ chromeFetch' = [chromeFetch EXCEPT !.patterns = {}]
    /\ IF Lost THEN AfterRelease
       ELSE jobs' = GoesTo(jobs, IF Head(jobs).at = "undo" THEN "undone" ELSE "release")
    /\ UNCHANGED <<fetch, strayHold, fetchFaults>>

\* It fails as the session is gone (handleDetach), or otherwise.
DisableFails ==
    /\ FetchAt({"disable", "undo"})
    /\ \/ /\ ~chromeFetch.session /\ fetch' = NoFetch /\ UNCHANGED fetchFaults
          /\ AfterRelease
       \/ /\ chromeFetch.session /\ FetchFault
          /\ fetch' = IF Lost THEN fetch ELSE Unconfirmed(fetch)
          /\ IF Lost THEN AfterRelease ELSE jobs' = Outdated(Tail(jobs))
    /\ UNCHANGED <<chromeFetch, strayHold>>

\* deps.releaseDebugger, whose failure is ignored: the session ends with the hold.
Releases ==
    /\ FetchAt({"release", "undone"})
    /\ chromeFetch' = IF Lost \/ ~chromeFetch.told \/ strayHold THEN chromeFetch ELSE NoSession
    /\ fetch' = IF Lost THEN fetch ELSE NoFetch
    /\ AfterRelease
    /\ UNCHANGED <<strayHold, fetchFaults>>

-----------------------------------------------------------------------------
(* addRule, removeRule                                                       *)

\* The rule is there before Chrome is asked.
Adds ==
    /\ \/ Running("add", "wait") /\ ~MustRelease
       \/ Running("add", "add")
    /\ fetch' = [fetch EXCEPT !.has = TRUE, !.rules = @ \union Mine, !.filter = TRUE]
    /\ jobs' = [GoesTo(jobs, IF fetch.rules = {} THEN "acquire" ELSE "enable") EXCEPT ![1].lost = FALSE]
    /\ UNCHANGED <<chromeFetch, strayHold, fetchFaults>>

\* The first rule's acquire succeeds: on the session the coordinator believes in,
\* or on a new one.  A tab forgotten meanwhile does not give the hold back.
TakesSession ==
    /\ Running("add", "acquire")
    /\ chromeFetch' = [chromeFetch EXCEPT !.held = TRUE, !.session = @ \/ chromeFetch.told]
    /\ IF Lost THEN strayHold' = TRUE /\ jobs' = Tail(jobs) /\ UNCHANGED fetch
       ELSE /\ fetch' = [fetch EXCEPT !.owns = TRUE]
            /\ jobs' = GoesTo(jobs, "enable") /\ UNCHANGED strayHold
    /\ UNCHANGED fetchFaults

\* syncPatterns: Fetch.enable replaces what was registered.
SendsPatterns ==
    /\ FetchAt({"enable", "narrow"}) /\ chromeFetch.session
    /\ chromeFetch' = [chromeFetch EXCEPT !.patterns = Head(jobs).rule \union fetch.rules]
    /\ IF Lost \/ Head(jobs).kind = "remove" THEN Over /\ UNCHANGED fetch
       ELSE fetch' = Timed(fetch) /\ jobs' = Outdated(Tail(jobs))
    /\ UNCHANGED <<strayHold, fetchFaults>>

\* An addition that fails takes its rule back, and releases if it was the only one.
AddFails ==
    LET left == fetch.rules \ Mine
    IN  /\ Running("add", "acquire") \/ Running("add", "enable")
        /\ IF Head(jobs).at = "enable" /\ ~chromeFetch.session THEN UNCHANGED fetchFaults ELSE FetchFault
        /\ CASE Lost -> Over /\ UNCHANGED fetch
             [] ~Lost /\ left # {} -> fetch' = [fetch EXCEPT !.rules = left] /\ Over
             [] ~Lost /\ left = {} /\ fetch.owns ->
                  fetch' = [fetch EXCEPT !.rules = {}, !.timer = "off"] /\ jobs' = GoesTo(jobs, "undo")
             [] OTHER -> fetch' = NoFetch /\ jobs' = Outdated(Tail(jobs))
        /\ UNCHANGED <<chromeFetch, strayHold>>

\* Not the last rule: the patterns are narrowed.  Its failure is the caller's.
Removes ==
    /\ Running("remove", "wait") /\ ~MustRelease
    /\ fetch' = [fetch EXCEPT !.rules = @ \ Mine]
    /\ jobs' = IF Mine \intersect fetch.rules = {} THEN Tail(jobs)
               ELSE [GoesTo(jobs, "narrow") EXCEPT ![1].rule = {}]
    /\ UNCHANGED <<chromeFetch, strayHold, fetchFaults>>

NarrowFails ==
    /\ Running("remove", "narrow")
    /\ IF chromeFetch.session THEN FetchFault ELSE UNCHANGED fetchFaults
    /\ Over
    /\ UNCHANGED <<fetch, chromeFetch, strayHold>>

\* A cleanup that finds nothing to do.
CleanupIdle ==
    /\ Running("clear", "wait") \/ Running("expire", "wait")
    /\ ~MustRelease /\ Over
    /\ UNCHANGED <<fetch, chromeFetch, strayHold, fetchFaults>>

-----------------------------------------------------------------------------
(* Chrome takes the session away, paused requests going on; then handleDetach *)

SessionLost ==
    /\ chromeFetch.session /\ FetchFault
    /\ chromeFetch' = [NoSession EXCEPT !.told = FALSE, !.held = chromeFetch.held]
    /\ UNCHANGED <<fetch, jobs, strayHold>>

HandleDetach ==
    /\ ~chromeFetch.told
    /\ chromeFetch' = NoSession /\ strayHold' = FALSE
    /\ fetch' = NoFetch
    /\ jobs' = Outdated(IF jobs = <<>> \/ Head(jobs).at = "wait" THEN jobs
                        ELSE [jobs EXCEPT ![1].lost = TRUE])
    /\ UNCHANGED fetchFaults

FetchNext ==
    \/ \E r \in Rule : CallAdd(r) \/ CallRemove(r)
    \/ CallClear \/ FetchTimerFires
    \/ GivesUp \/ StopsPausing \/ DisableFails \/ Releases
    \/ Adds \/ TakesSession \/ SendsPatterns \/ AddFails
    \/ Removes \/ NarrowFails \/ CleanupIdle
    \/ SessionLost \/ HandleDetach

FetchSpec == FetchInit /\ [][FetchNext]_fetchVars

-----------------------------------------------------------------------------
\* Interception never hangs a page and never outlives its rules
\* (background-fetch-intercept.ts:15-37, 327-363).  While Chrome pauses requests,
\* somebody listens to them; the rules and the additions under way are within the
\* limit; and with no job left and no loss to be told of, every rule has its
\* pattern in Chrome and the tab's hold, a state has a timer that will end it, and
\* without a state Chrome pauses nothing and no hold is kept, but one whose acquire
\* a loss overtook.
InterceptionEnds ==
    /\ chromeFetch.patterns # {} => fetch.filter
    /\ Cardinality(fetch.rules) + Cardinality(Additions) <= MaxRules
    /\ jobs = <<>> /\ chromeFetch.told =>
         /\ fetch.rules \subseteq chromeFetch.patterns
         /\ fetch.has => fetch.owns /\ chromeFetch.held /\ fetch.timer = "set"
         /\ ~fetch.has => chromeFetch.patterns = {} /\ (chromeFetch.held => strayHold)
=============================================================================
