------------------------------- MODULE WebTools -------------------------------
(***************************************************************************)
(* Tools a website offers through document.modelContext, as the extension  *)
(* lists and executes them in one tab: references kept in the document     *)
(* (src/packages/extension/src/webmcp-document.ts), one-shot approval and  *)
(* the scope of an execution (background-webmcp.ts).                        *)
(***************************************************************************)
EXTENDS Naturals, FiniteSets, SequencesExt

CONSTANTS
    WebCall, NoWebCall,
    MaxWebRefs,    \* references made
    MaxSiteTurns   \* what the page, the user and the browser do

ASSUME WebAssumption == NoWebCall \notin WebCall

VARIABLES
    webCalls,   \* handle and runWebMcpInDocument, of every call
    webWorker,  \* the worker's run, executing, touched
    popups,     \* approval windows: calls whose window is opening, or open
    site,       \* the tab: document, address, tool offered, state of the document
    scripts,    \* executeScript calls on their way to the document, in order
    scope,      \* the grant and the connection; a cleanup of the tab to come
    webPast,    \* history: approvals, dispatches, calls canceled in time
    webRefs, siteTurns

webVars == <<webCalls, webWorker, popups, site, scripts, scope, webPast, webRefs, siteTurns>>

NoTool == 0
Unused == [at |-> "new", op |-> "none", ref |-> 0, key |-> <<>>, url |-> 0, doc |-> 0,
           tool |-> NoTool, rev |-> 0, read |-> FALSE, seen |-> NoTool, answer |-> "none"]
Document(n, url, tool) ==
    [doc |-> n, url |-> url, tool |-> tool, told |-> TRUE, rev |-> 0, refs |-> {},
     active |-> NoWebCall, aborted |-> FALSE]

WebInit ==
    /\ webCalls = [q \in WebCall |-> Unused]
    /\ webWorker = [run |-> 1, executing |-> FALSE, touched |-> FALSE]
    /\ popups = [opening |-> {}, open |-> {}]
    /\ site = Document(1, 1, 1) /\ scripts = <<>>
    /\ scope = [on |-> TRUE, grant |-> 1, connection |-> 1, cleanup |-> FALSE]
    /\ webPast = [approved |-> {}, dispatched |-> <<>>, canceled |-> {}, dropped |-> {}]
    /\ webRefs = 0 /\ siteTurns = 0

\* The owner of references: worker, grant, connection.
SessionKey == <<webWorker.run, scope.grant, scope.connection>>
Of(q) == webCalls[q].key # <<>> /\ webCalls[q].key[1] = webWorker.run
At(q, where) == webCalls[q].at = where
SiteTurn == siteTurns < MaxSiteTurns /\ siteTurns' = siteTurns + 1

Ended(c, answer) == [c EXCEPT !.at = "done", !.answer = answer]

\* The call is over; an execution gives the tab back (finally).
CallEnds(q, answer) ==
    /\ webCalls' = [webCalls EXCEPT ![q] = Ended(@, answer)]
    /\ webWorker' = IF webCalls[q].op = "execute" /\ Of(q)
                    THEN [webWorker EXCEPT !.executing = FALSE] ELSE webWorker

\* finish(false) of every call in qs that waits for its approval.
Denied(qs) ==
    LET asked == {q \in qs : At(q, "approving") /\ Of(q)}
    IN  /\ webCalls' = [q \in WebCall |-> IF q \in asked THEN Ended(webCalls[q], "denied")
                                          ELSE webCalls[q]]
        /\ webWorker' = IF asked = {} THEN webWorker ELSE [webWorker EXCEPT !.executing = FALSE]
        /\ popups' = [popups EXCEPT !.open = @ \ asked]

-----------------------------------------------------------------------------
(* handle                                                                   *)

Calls(q, op, ref) ==
    /\ At(q, "new") /\ (op = "execute" => ref \in 1..webRefs)
    /\ webCalls' = [webCalls EXCEPT ![q] = [Unused EXCEPT !.at = "resolving", !.op = op, !.ref = ref,
                                            !.key = <<webWorker.run>>]]
    /\ UNCHANGED <<webWorker, popups, site, scripts, scope, webPast, webRefs, siteTurns>>

Sends(q, part, pin) == scripts' = Append(scripts, [part |-> part, call |-> q, pin |-> pin])

Admits(q) == scope.on /\ q \notin webPast.canceled

\* resolveRequestTarget is through; the tab is taken for an execution.
Resolved(q) ==
    /\ At(q, "resolving") /\ Of(q)
    /\ IF ~Admits(q)
       THEN /\ webCalls' = [webCalls EXCEPT ![q] = Ended(@, "refused")]
            /\ UNCHANGED <<webWorker, scripts>>
       ELSE IF webCalls[q].op = "execute" /\ webWorker.executing
            THEN /\ webCalls' = [webCalls EXCEPT ![q] = Ended(@, "busy")]
                 /\ webWorker' = [webWorker EXCEPT !.touched = TRUE] /\ UNCHANGED scripts
            ELSE /\ webCalls' = [webCalls EXCEPT ![q].at = "sent", ![q].key = SessionKey, ![q].url = site.url]
                 /\ webWorker' = [webWorker EXCEPT !.touched = TRUE,
                                                   !.executing = @ \/ webCalls[q].op = "execute"]
                 /\ Sends(q, IF webCalls[q].op = "list" THEN "list" ELSE "get", 0)
    /\ UNCHANGED <<popups, site, scope, webPast, webRefs, siteTurns>>

\* approve: a request that was canceled meanwhile opens no window.
AsksUser(q) ==
    /\ At(q, "got") /\ Of(q)
    /\ IF q \in webPast.canceled
       THEN CallEnds(q, "denied") /\ UNCHANGED popups
       ELSE /\ webCalls' = [webCalls EXCEPT ![q].at = "approving"]
            /\ popups' = [popups EXCEPT !.opening = @ \union {q}] /\ UNCHANGED webWorker
    /\ UNCHANGED <<site, scripts, scope, webPast, webRefs, siteTurns>>

\* windows.create; a window that comes too late is removed.
PopupOpens(q) ==
    /\ q \in popups.opening
    /\ popups' = [opening |-> popups.opening \ {q},
                  open |-> IF At(q, "approving") THEN popups.open \union {q} ELSE popups.open]
    /\ UNCHANGED <<webCalls, webWorker, site, scripts, scope, webPast, webRefs, siteTurns>>

Approves(q) ==
    /\ q \in popups.open /\ At(q, "approving") /\ Of(q)
    /\ webCalls' = [webCalls EXCEPT ![q].at = "rechecking"]
    /\ popups' = [popups EXCEPT !.open = @ \ {q}]
    /\ webPast' = [webPast EXCEPT !.approved = @ \union {<<q, webCalls[q].tool, webCalls[q].doc>>}]
    /\ UNCHANGED <<webWorker, site, scripts, scope, webRefs, siteTurns>>

\* The user declines or closes the window, the time is up, or there is no window.
Declines(q) ==
    /\ At(q, "approving") /\ Of(q) /\ Denied({q})
    /\ UNCHANGED <<site, scripts, scope, webPast, webRefs, siteTurns>>

\* The approval is good for the session, tab and address it was asked for.
Rechecks(q) ==
    /\ At(q, "rechecking") /\ Of(q)
    /\ IF Admits(q) /\ webCalls[q].key = SessionKey /\ webCalls[q].url = site.url
       THEN /\ webCalls' = [webCalls EXCEPT ![q].at = "sent"]
            /\ Sends(q, "execute", webCalls[q].doc) /\ UNCHANGED webWorker
       ELSE CallEnds(q, "denied") /\ UNCHANGED scripts
    /\ UNCHANGED <<popups, site, scope, webPast, webRefs, siteTurns>>

-----------------------------------------------------------------------------
(* runWebMcpInDocument                                                      *)

Invalidated(s) == [s EXCEPT !.refs = {}, !.rev = @ + 1]

\* "clear": references go, the callback is asked to stop, its call ends.
ClearRuns ==
    /\ scripts # <<>> /\ Head(scripts).part = "clear" /\ scripts' = Tail(scripts)
    /\ site' = [Invalidated(site) EXCEPT !.aborted = site.active # NoWebCall]
    /\ IF site.active # NoWebCall /\ ~site.aborted THEN CallEnds(site.active, "cancelled")
       ELSE UNCHANGED <<webCalls, webWorker>>
    /\ UNCHANGED <<popups, scope, webPast, webRefs, siteTurns>>

\* The others ask the page for its tools; a document that is gone is not found.
ScriptRuns ==
    LET q == Head(scripts).call
    IN  /\ scripts # <<>> /\ Head(scripts).part # "clear" /\ scripts' = Tail(scripts)
        /\ IF Head(scripts).pin \in {0, site.doc}
           THEN /\ webCalls' = [webCalls EXCEPT ![q].at = Head(scripts).part, ![q].doc = site.doc,
                                                ![q].rev = site.rev, ![q].read = FALSE]
                /\ UNCHANGED webWorker
           ELSE CallEnds(q, "uncertain")
        /\ UNCHANGED <<popups, site, scope, webPast, webRefs, siteTurns>>

\* getTools answers with what there is, or is too late.
InDocument == {"list", "get", "execute"}
GetsTools(q, answers) ==
    /\ webCalls[q].at \in InDocument /\ ~webCalls[q].read
    /\ IF answers THEN /\ webCalls' = [webCalls EXCEPT ![q].read = TRUE, ![q].seen = site.tool]
                       /\ UNCHANGED webWorker
                  ELSE CallEnds(q, "unavailable")
    /\ UNCHANGED <<popups, site, scripts, scope, webPast, webRefs, siteTurns>>

Has(q, part) == At(q, part) /\ webCalls[q].read
ToolSeen(q) == webCalls[q].seen
CatalogStands(q) == webCalls[q].rev = site.rev

Lists(q) ==
    LET r == [id |-> webRefs + 1, tool |-> ToolSeen(q), key |-> webCalls[q].key]
        known == \E s \in site.refs : s.tool = r.tool /\ s.key = r.key
    IN  /\ Has(q, "list")
        /\ CallEnds(q, IF CatalogStands(q) THEN "listed" ELSE "stale")
        /\ IF CatalogStands(q) /\ r.tool # NoTool /\ ~known
           THEN /\ webRefs < MaxWebRefs /\ webRefs' = webRefs + 1
                /\ site' = [site EXCEPT !.refs = @ \union {r}]
           ELSE UNCHANGED <<site, webRefs>>
        /\ UNCHANGED <<popups, scripts, scope, webPast, siteTurns>>

\* Broken variant of Entry: a tool is told by its name.
EntryByName(q) == {r \in site.refs : /\ r.id = webCalls[q].ref /\ r.key = webCalls[q].key
                                     /\ ToolSeen(q) # NoTool}
\* The entry of the call's reference, if it is its own and still fits.
Entry(q) == {r \in site.refs : /\ r.id = webCalls[q].ref /\ r.key = webCalls[q].key
                               /\ r.tool = ToolSeen(q)}

GetsTool(q) ==
    /\ Has(q, "get") /\ CatalogStands(q) /\ Entry(q) # {}
    /\ webCalls' = [webCalls EXCEPT ![q].at = "got", ![q].tool = ToolSeen(q)]
    /\ UNCHANGED <<webWorker, popups, site, scripts, scope, webPast, webRefs, siteTurns>>

\* A reference that is refused is forgotten, whosever it was.
IsStale(q) ==
    /\ Has(q, "get") \/ Has(q, "execute")
    /\ ~CatalogStands(q) \/ Entry(q) = {}
    /\ CallEnds(q, "stale")
    /\ site' = IF CatalogStands(q) THEN [site EXCEPT !.refs = {r \in @ : r.id # webCalls[q].ref}]
               ELSE site
    /\ UNCHANGED <<popups, scripts, scope, webPast, webRefs, siteTurns>>

\* executeTool, unless an earlier callback has not settled.
Executes(q) ==
    /\ Has(q, "execute") /\ CatalogStands(q) /\ Entry(q) # {}
    /\ IF site.active # NoWebCall
       THEN CallEnds(q, "busy") /\ UNCHANGED <<site, webPast>>
       ELSE /\ webCalls' = [webCalls EXCEPT ![q].at = "running"]
            /\ site' = [site EXCEPT !.active = q, !.aborted = FALSE]
            /\ webPast' = [webPast EXCEPT !.dispatched = Append(@, <<q, ToolSeen(q), site.doc>>)]
            /\ UNCHANGED webWorker
    /\ UNCHANGED <<popups, scripts, scope, webRefs, siteTurns>>

\* The callback settles, in time or after it was asked to stop.
CallbackSettles(answer) ==
    /\ site.active # NoWebCall
    /\ site' = [site EXCEPT !.active = NoWebCall, !.aborted = FALSE]
    /\ IF site.aborted THEN UNCHANGED <<webCalls, webWorker>> ELSE CallEnds(site.active, answer)
    /\ UNCHANGED <<popups, scripts, scope, webPast, webRefs, siteTurns>>

TimesOut ==
    /\ site.active # NoWebCall /\ ~site.aborted
    /\ site' = [site EXCEPT !.aborted = TRUE] /\ CallEnds(site.active, "timeout")
    /\ UNCHANGED <<popups, scripts, scope, webPast, webRefs, siteTurns>>

-----------------------------------------------------------------------------
(* The page, the browser, the user                                          *)

ToolChanges ==
    /\ SiteTurn /\ \E tool \in {NoTool, 1, 2} \ {site.tool} :
                     site' = [site EXCEPT !.tool = tool, !.told = FALSE]
    /\ UNCHANGED <<webCalls, webWorker, popups, scripts, scope, webPast, webRefs>>

\* toolchange
ToolTold ==
    /\ ~site.told /\ site' = [Invalidated(site) EXCEPT !.told = TRUE]
    /\ UNCHANGED <<webCalls, webWorker, popups, scripts, scope, webPast, webRefs, siteTurns>>

\* A new document, or a new address of the same: the tab's event is to come.
\* Scripts in the old document end without an answer.
Navigates(moves, loads) ==
    LET left == {q \in WebCall : loads /\ (At(q, "running") \/ At(q, "execute"))}
        lost == {q \in WebCall : loads /\ (At(q, "list") \/ At(q, "get"))}
        url == IF moves THEN 3 - site.url ELSE site.url
    IN  /\ (moves \/ loads) /\ SiteTurn /\ scope' = [scope EXCEPT !.cleanup = TRUE]
        /\ site' = IF loads THEN Document(site.doc + 1, url, 1) ELSE [site EXCEPT !.url = url]
        /\ webCalls' = [q \in WebCall |-> CASE q \in left -> Ended(webCalls[q], "uncertain")
                                            [] q \in lost -> Ended(webCalls[q], "unavailable")
                                            [] OTHER -> webCalls[q]]
        /\ webWorker' = [webWorker EXCEPT !.executing =
               @ /\ ~\E q \in left \union lost : Of(q) /\ webCalls[q].op = "execute"]
        /\ UNCHANGED <<popups, scripts, webPast, webRefs>>

\* A request is canceled before its execution has been sent, or later.
Cancelable(q) == \/ webCalls[q].at \in {"resolving", "get", "got", "approving", "rechecking"}
                 \/ \E i \in DOMAIN scripts : scripts[i].call = q /\ scripts[i].part = "get"
CanceledNow(qs) == [webPast EXCEPT !.canceled = @ \union {q \in qs : Cancelable(q)}]

Cancels(q) ==
    /\ SiteTurn /\ ~At(q, "new") /\ ~At(q, "done")
    /\ webPast' = CanceledNow({q}) /\ Denied({q})
    /\ UNCHANGED <<site, scripts, scope, webRefs>>

\* The window is switched off; the cleanup of its tabs is to come.
EndsAccess ==
    /\ scope.on /\ SiteTurn
    /\ scope' = [scope EXCEPT !.on = FALSE, !.cleanup = TRUE]
    /\ webPast' = CanceledNow(WebCall) /\ Denied(WebCall)
    /\ UNCHANGED <<site, scripts, webRefs>>

GrantsAccess ==
    /\ ~scope.on /\ SiteTurn
    /\ scope' = [scope EXCEPT !.on = TRUE, !.grant = @ + 1]
    /\ UNCHANGED <<webCalls, webWorker, popups, site, scripts, webPast, webRefs>>

Reconnects ==
    /\ SiteTurn /\ scope' = [scope EXCEPT !.connection = @ + 1]
    /\ webPast' = CanceledNow(WebCall) /\ Denied(WebCall)
    /\ UNCHANGED <<site, scripts, webRefs>>

\* clearTab: of a tab the worker has not used nothing is cleared.
ClearsTab ==
    /\ scope.cleanup /\ scope' = [scope EXCEPT !.cleanup = FALSE]
    /\ LET asked == {q \in WebCall : At(q, "approving") /\ Of(q)}
       IN  /\ webCalls' = [q \in WebCall |-> IF q \in asked THEN Ended(webCalls[q], "denied")
                                             ELSE webCalls[q]]
           /\ webWorker' = [webWorker EXCEPT !.executing = @ /\ asked = {}, !.touched = FALSE]
           /\ popups' = [popups EXCEPT !.open = @ \ asked]
    /\ IF webWorker.touched THEN Sends(NoWebCall, "clear", 0) ELSE UNCHANGED scripts
    /\ UNCHANGED <<site, webPast, webRefs, siteTurns>>

\* Scripts that were sent still run; nobody waits for them.
WorkerStops ==
    /\ SiteTurn
    /\ webWorker' = [run |-> webWorker.run + 1, executing |-> FALSE, touched |-> FALSE]
    /\ webCalls' = [q \in WebCall |->
           IF webCalls[q].at \in {"resolving", "got", "approving", "rechecking"}
           THEN Ended(webCalls[q], "none") ELSE webCalls[q]]
    /\ webPast' = [webPast EXCEPT !.dropped = @ \union {q \in WebCall : ~At(q, "new")}]
    /\ popups' = [popups EXCEPT !.opening = {}] /\ scope' = [scope EXCEPT !.cleanup = FALSE]
    /\ UNCHANGED <<site, scripts, webRefs>>

WebNext ==
    \/ \E q \in WebCall :
         \/ Calls(q, "list", 0) \/ \E ref \in 1..MaxWebRefs : Calls(q, "execute", ref)
         \/ Resolved(q) \/ AsksUser(q) \/ PopupOpens(q) \/ Approves(q) \/ Declines(q) \/ Rechecks(q)
         \/ \E answers \in BOOLEAN : GetsTools(q, answers)
         \/ Lists(q) \/ GetsTool(q) \/ IsStale(q) \/ Executes(q) \/ Cancels(q)
    \/ ClearRuns \/ ScriptRuns \/ TimesOut \/ \E answer \in {"completed", "uncertain"} : CallbackSettles(answer)
    \/ ToolChanges \/ ToolTold \/ \E moves, loads \in BOOLEAN : Navigates(moves, loads)
    \/ EndsAccess \/ GrantsAccess \/ Reconnects \/ ClearsTab \/ WorkerStops

WebSpec == WebInit /\ [][WebNext]_webVars

-----------------------------------------------------------------------------
\* A website's tool runs as it was approved, and its fate is told truthfully
\* (background-webmcp.ts:191-270, webmcp-document.ts:20-300).  Every dispatch is the
\* only one of its call, of the tool and document the user saw; a call that was
\* refused, found stale or busy has dispatched nothing, nor has one canceled before its
\* execution was sent; one prompt is up at a time, none outlives its call, and the tab
\* is given back; and once access has ended and the tab is cleared, no callback runs
\* that has not been asked to stop, except one of a worker that was stopped.
WebToolsKept ==
    LET dispatched == {webPast.dispatched[i][1] : i \in DOMAIN webPast.dispatched}
        mine == {q \in WebCall : Of(q) /\ webCalls[q].op = "execute" /\ ~At(q, "done")}
    IN  /\ Len(webPast.dispatched) = Cardinality(dispatched)
        /\ ToSet(webPast.dispatched) \subseteq webPast.approved
        /\ \A q \in dispatched : webCalls[q].answer \in {"none", "completed", "uncertain", "timeout", "cancelled"}
        /\ \A q \in WebCall : webCalls[q].answer \in {"completed", "timeout", "cancelled"} => q \in dispatched
        /\ dispatched \cap webPast.canceled = {}
        /\ popups.open \ webPast.dropped \subseteq {q \in mine : At(q, "approving")}
        /\ webWorker.executing <=> \E q \in mine : ~At(q, "resolving")
        /\ Cardinality({q \in mine : ~At(q, "resolving")}) <= 1
        /\ LET q == site.active
           IN  /\ q # NoWebCall /\ q \notin webPast.dropped /\ ~scope.cleanup
               /\ ~\E i \in DOMAIN scripts : scripts[i].part = "clear"
               /\ (webCalls[q].key[2] # scope.grant \/ ~scope.on)
               => site.aborted
=============================================================================
