---------------------------- MODULE MutationGate ----------------------------
(***************************************************************************)
(* The extension's side of mutation scheduling: the request lifetimes, the  *)
(* gate a mutation passes before it touches a page, the window grant and    *)
(* the native port (packages/extension/src/background-mutation-gate.ts,     *)
(* background-request-lifetime.ts, handleBridgeRequest of background.ts,    *)
(* background-window-session.ts, background-native.ts).  The service worker *)
(* is single-threaded, so what runs between two awaits is one action.       *)
(* BridgeSystem connects this module to the daemon.                         *)
(***************************************************************************)
EXTENDS Integers, FiniteSets, Sequences

CONSTANTS
    Request, Tab, NoTab,
    RequestTab,      \* the tab_id a request names, or NoTab
    TabScope(_),     \* mutationSnapshotScope: navigation is checked at tab level
    Url,
    MaxActive        \* maxPending of createRequestLifetimes (128)

VARIABLES
    page,        \* the document and URL each tab shows
    loads,       \* pages loaded so far; documents are numbered as they load
    heard,       \* the last document of each tab that tabs.onUpdated told of
    window,      \* state.enabledWindow: the grant (enabledAt), 0 if none
    grants,      \* grants given so far
    switching,   \* the window transition in progress: "off", "on" or "none"
    link,        \* the native port: "down", "pending" or "up" (stable)
    told,        \* host.identity was posted on the port
    work,        \* the requests the worker has not answered yet
    outbox       \* posted on the port, not yet handled by the daemon

vars == <<page, loads, heard, window, grants, switching, link, told, work, outbox>>

NoRead == [document |-> 0, url |-> "none"]

\* A request the worker does not know.  gated: meta.mutation_schedule is set;
\* grant: what captureAccess saw; turn: how the promise of the waiting entry
\* settled; first, read: the two snapshots; queuedOn: the page's document at
\* mutation_ready, turnOn: heard[tab] at the grant, both kept for the
\* properties only.
Idle == [stage |-> "none", gated |-> FALSE, tab |-> NoTab, grant |-> 0,
         turn |-> "none", first |-> NoRead, read |-> NoRead, aborted |-> FALSE,
         queuedOn |-> 0, turnOn |-> 0]

Active == {r \in Request : work[r].stage # "none"}

\* The worker has restored a grant from session storage and has no port yet.
Init ==
    /\ \E u \in Url : page = [b \in Tab |-> [document |-> 1, url |-> u]]
    /\ loads = 1
    /\ heard = [b \in Tab |-> 1]
    /\ window = 1 /\ grants = 1
    /\ switching = "none"
    /\ link = "down" /\ told = FALSE
    /\ work = [r \in Request |-> Idle]
    /\ outbox = <<>>

Message(kind, r, arg) == [kind |-> kind, id |-> r, arg |-> arg]

\* reply() uses the port even before it is stable, everything else after.
PostOn(links, m) == outbox' = IF link \in links THEN Append(outbox, m) ELSE outbox
Reply(r) == PostOn({"pending", "up"}, Message("response", r, NoTab))

\* abort() of the given lifetimes.
Aborted(rs) == [r \in Request |->
    IF r \in rs \cap Active THEN [work[r] EXCEPT !.aborted = TRUE] ELSE work[r]]

-----------------------------------------------------------------------------
(* Requests. *)

\* A request arrives: begin() and the first lines of prepare(), or a refusal.
Begin(r, gated) ==
    /\ work[r].stage = "none"
    /\ IF Cardinality(Active) >= MaxActive
       THEN Reply(r) /\ UNCHANGED work
       ELSE /\ work' = [work EXCEPT ![r] =
                  [Idle EXCEPT !.stage = "resolve", !.gated = gated, !.grant = window]]
            /\ UNCHANGED outbox
    /\ UNCHANGED <<page, loads, heard, window, grants, switching, link, told>>

\* assertAccess and assertActive.
Allowed(r) == work[r].grant # 0 /\ work[r].grant = window /\ ~work[r].aborted

\* resolveTarget returns: a gated mutation joins `waiting` and reports its tab;
\* anything else runs at once.
Resolve(r, b) ==
    /\ work[r].stage = "resolve"
    /\ RequestTab[r] \in {NoTab, b}
    /\ IF work[r].gated
       THEN /\ Allowed(r)
            /\ link = "up"
            /\ work' = [work EXCEPT ![r].stage = "wait", ![r].tab = b,
                                    ![r].queuedOn = page[b].document]
            /\ PostOn({"up"}, Message("ready", r, b))
       ELSE /\ window # 0 /\ ~work[r].aborted
            /\ work' = [work EXCEPT ![r].stage = "run", ![r].tab = b]
            /\ UNCHANGED outbox
    /\ UNCHANGED <<page, loads, heard, window, grants, switching, link, told>>

\* The page read of a snapshot completes.  A hung page never gets here.
ReadPage(r) ==
    LET p == page[work[r].tab]
    IN  /\ work[r].stage \in {"wait", "recheck"}
        /\ work[r].read = NoRead
        /\ work' = [work EXCEPT ![r].read =
              IF TabScope(r) THEN [document |-> 0, url |-> p.url] ELSE p]
        /\ UNCHANGED <<page, loads, heard, window, grants, switching, link, told, outbox>>

\* host.mutation_granted: resolves the promise of an entry still waiting,
\* unless it is settled already.
Granted(r) ==
    /\ work' = IF work[r].stage = "wait" /\ work[r].turn = "none"
               THEN [work EXCEPT ![r].turn = "granted",
                                 ![r].turnOn = heard[work[r].tab]]
               ELSE work
    /\ UNCHANGED <<page, loads, heard, window, grants, switching, link, told, outbox>>

\* Broken variant of Recheck: it waits for the page only.
RecheckOnRead(r) ==
    /\ work[r].stage = "wait" /\ work[r].turn # "rejected"
    /\ work[r].read # NoRead
    /\ Allowed(r)
    /\ work' = [work EXCEPT ![r].stage = "recheck", ![r].first = work[r].read,
                            ![r].read = NoRead]
    /\ UNCHANGED <<page, loads, heard, window, grants, switching, link, told, outbox>>

\* Both the first snapshot and the grant are in: read the page again.
Recheck(r) ==
    /\ work[r].stage = "wait"
    /\ work[r].turn = "granted"
    /\ work[r].read # NoRead
    /\ Allowed(r)
    /\ work' = [work EXCEPT ![r].stage = "recheck", ![r].first = work[r].read,
                            ![r].read = NoRead]
    /\ UNCHANGED <<page, loads, heard, window, grants, switching, link, told, outbox>>

\* The second snapshot agrees: the mutation is dispatched to the page.
Dispatch(r) ==
    /\ work[r].stage = "recheck"
    /\ work[r].read # NoRead /\ work[r].read = work[r].first
    /\ Allowed(r)
    /\ work' = [work EXCEPT ![r].stage = "run"]
    /\ UNCHANGED <<page, loads, heard, window, grants, switching, link, told, outbox>>

\* prepare() throws: an unroutable tab, a failed page read, a dialog, a changed
\* document, a changed grant, a lost port, or a lifetime that was aborted.
Fail(r) ==
    /\ work[r].stage \in {"resolve", "wait", "recheck"}
    /\ work' = [work EXCEPT ![r] = Idle]
    /\ Reply(r)
    /\ UNCHANGED <<page, loads, heard, window, grants, switching, link, told>>

\* The command has settled, however it ended.
Settle(r) ==
    /\ work[r].stage = "run"
    /\ work' = [work EXCEPT ![r] = Idle]
    /\ Reply(r)
    /\ UNCHANGED <<page, loads, heard, window, grants, switching, link, told>>

\* host.request_cancelled, host.owner_disconnected, or the lifetime's timer.
Abort(rs) ==
    /\ work' = Aborted(rs)
    /\ UNCHANGED <<page, loads, heard, window, grants, switching, link, told, outbox>>

-----------------------------------------------------------------------------
(* The browser around them. *)

\* A tab commits a new document.
Navigate(b, u) ==
    /\ loads' = loads + 1
    /\ page' = [page EXCEPT ![b] = [document |-> loads + 1, url |-> u]]
    /\ UNCHANGED <<heard, window, grants, switching, link, told, work, outbox>>

\* tabs.onUpdated arrives, on its own channel, and invalidate() rejects the
\* promises of the entries waiting for that tab, unless they have settled.
PageLoaded(b) ==
    /\ heard[b] # page[b].document
    /\ heard' = [heard EXCEPT ![b] = page[b].document]
    /\ work' = [r \in Request |->
          IF work[r].stage = "wait" /\ work[r].tab = b /\ work[r].turn = "none"
          THEN [work[r] EXCEPT !.turn = "rejected"]
          ELSE work[r]]
    /\ UNCHANGED <<page, loads, window, grants, switching, link, told, outbox>>

\* The user turns the window off; the daemon hears of it after the grant has
\* been removed from storage, and then every lifetime is aborted.
WindowOff ==
    /\ switching = "none" /\ window # 0
    /\ window' = 0
    /\ switching' = "off"
    /\ UNCHANGED <<page, loads, heard, grants, link, told, work, outbox>>

AnnounceOff ==
    /\ switching = "off"
    /\ switching' = "none"
    /\ PostOn({"up"}, Message("access", NoTab, FALSE))
    /\ work' = Aborted(Request)
    /\ UNCHANGED <<page, loads, heard, window, grants, link, told>>

\* Turning it on gives a new grant; it is stored before the daemon hears of it.
WindowOn ==
    /\ switching = "none" /\ window = 0
    /\ grants' = grants + 1
    /\ window' = grants + 1
    /\ switching' = "on"
    /\ UNCHANGED <<page, loads, heard, link, told, work, outbox>>

AnnounceOn ==
    /\ switching = "on"
    /\ switching' = "none"
    /\ PostOn({"up"}, Message("access", NoTab, TRUE))
    /\ UNCHANGED <<page, loads, heard, window, grants, link, told, work>>

\* connectNative().
Open ==
    /\ link = "down"
    /\ link' = "pending"
    /\ UNCHANGED <<page, loads, heard, window, grants, switching, told, work, outbox>>

\* The port has survived the stability window.
Stable ==
    /\ link = "pending"
    /\ link' = "up"
    /\ outbox' = IF window # 0
                 THEN Append(outbox, Message("access", NoTab, TRUE))
                 ELSE outbox
    /\ UNCHANGED <<page, loads, heard, window, grants, switching, told, work>>

\* The profile label has been read.
TellIdentity ==
    /\ link = "up" /\ ~told
    /\ told' = TRUE
    /\ PostOn({"up"}, Message("identity", NoTab, NoTab))
    /\ UNCHANGED <<page, loads, heard, window, grants, switching, link, work>>

\* onDisconnect: work is aborted if the port had become stable.
Close ==
    /\ link # "down"
    /\ link' = "down" /\ told' = FALSE
    /\ outbox' = <<>>
    /\ work' = IF link = "up" THEN Aborted(Request) ELSE work
    /\ UNCHANGED <<page, loads, heard, window, grants, switching>>
=============================================================================
