# TLA+ models of Browser Bridge

Browser Bridge lets a coding agent inspect and drive a Chrome tab.  This
directory holds TLA+ specifications of its concurrent parts, the configurations
under which TLC checks them, and proofs checked by TLAPS.  `PROJECT.json` lists
every component, run, mutant, mapped definition, hazard, finding and theorem in
machine-readable form; this file explains them.

    tlc -workers 2 -config SchedulerSafety.cfg MutationSchedulerMC.tla
    tlapm MutationSchedulerProofs.tla

## 1. The system

```
 agent (CLI, MCP server) --socket--> daemon (Go, one process, one daemon.mu)
                                        |  socket
                                     native host (Go: copies two byte streams)
                                        |  stdio
                                     extension service worker (TypeScript)
                                        |  chrome.* APIs
                                     tabs: content scripts, debugger sessions
```

The daemon accepts two kinds of peers, agents and extension connections, and
routes each request of an agent to one extension connection.  Most state is
kept in memory: a restart of the daemon starts from nothing.  A mutation (a
request that changes a page) is scheduled: the daemon sends it at once, the
extension resolves its tab and reports it (`host.mutation_ready`), and waits;
the daemon gives turns per tab (`host.mutation_granted`).

### Inventory: daemon, client and installation (Go, npm)

| component | state | operations | what makes it correct |
|---|---|---|---|
| mutation scheduler (`scheduler.go`) | `entries`, `queues` per connection, flags `ready granted canceled`, expiry timers | scheduleMutation, mutationReady, grantMutations, revokeMutations, removeMutation, cancelMutation | one running mutation per tab; order of arrival; a slot is kept until the browser settles it and never leaked; no turn is wasted |
| request router (`daemon.go`) | `peers`, `targets`, `pending`, counters per peer, deadline timers | register, identity and access envelopes, route, cancel, timeout, response, disconnect | each accepted request answered once; counters equal what they count; a stale answer changes nothing but its own slot |
| native host relay (`native.go`) | two copy loops | forward, close both at the end of either | order is kept, nothing is delivered after the end |
| storage executor, artifacts, journals (`storage_executor.go`, `artifact.go`, `recording.go`) | FIFO of jobs with two limits, transfers, files, quotas | submit, begin, chunk, commit, abandon, append, cleanup | order per owner; quotas; nothing delivered that cleanup deletes; what was acknowledged is kept once and in order |
| baseline registries (`baseline.go`, `visual_baseline.go`) | owners, abandoned requests, pixels, comparisons under way | create, compare, release, orphan release | daemon and browser agree; pixels are shown only in their scope |
| window actions (`window.go`) | routed actions with a 5 s timer | route, result, timeout, disconnect | the source is answered once |
| setup tasks (`daemon_setup.go`) | bounded queue | admit, run, answer | bounded, serial, answered only to a live peer |
| bridge client (`client.go`) | pending calls | call, cancel, receive, fail | each call returns once |
| daemon lifecycle, admission (`lifecycle.go`, `daemon.go` serve) | socket, PID file, handshakes | start, admit, evict, stop, restart | one daemon; eviction leaves nothing behind |
| native updater (`update*.go`) | `state.json`, staged payloads, a file lock | check, apply, install, repair, roll back | every crash point leaves a usable release selected |
| skill installation (`agents_skills.go`) | bundle, sentinel, owners and backups on disk | install, remove, roll back a batch | the user's edits survive |
| npm launcher (`packages/npm/src/runtime.js`) | lock directory, cache, temporaries | lock, download, verify, rename | what runs is the pinned binary |

### Inventory: the extension

| component | state | operations | what makes it correct |
|---|---|---|---|
| mutation gate, request lifetimes, access (`background-mutation-gate.ts`, `background-request-lifetime.ts`, `background-access.ts`) | `waiting` promises, live `AbortController`s, captured grants | prepare, handle, invalidate, begin, cancel, abortAll, assert access | a mutation runs only in its turn, in the window grant and on the document it was queued for |
| window grant (`background-window-session.ts`) | `state.enabledWindow`, storage, transition queue | enable, disable, restore, clear when the window is gone | memory, storage and daemon agree; nothing of an old grant starts in a new one |
| native port (`background-native.ts`, `background-reconnect.ts`) | port, stability timer, backoff, retry timer or alarm | connect, message, disconnect, retry | one port; a retry is always due; requests of a lost port are aborted |
| service worker dispatch (`background.ts`) | none of its own | handle a request, reply, tab and window listeners | every request gets one reply |
| agent tabs, agent groups (`background-agent-tabs.ts`, `background-agent-groups.ts`) | leases and their stored copy; group records | bind, move, close, restore; one synchronisation pass at a time | agents stay on their tab; the user's arrangement stays |
| debugger coordinator (`debugger-coordinator.ts`, `background-tab-cleanup.ts`) | queue per tab, dialog lane, owners, generations | run, runDialog, hold, release, detach, discard | commands of a tab are serialized; a discarded session is not revived; nobody keeps a session for nothing |
| DOM and visual baselines (`background-dom-baselines*.ts`, `background-visual-baselines.ts`) | records per tab, captures | create, evict, invalidate | see the registries above |
| network capture, fetch intercept, emulation (`background-cdp-network.ts`, `background-fetch-intercept.ts`) | buffers, rules, TTL timers | start, stop, renew, clear, lose the session | armed exactly while somebody captures; interception never outlives its rules |
| native input, page input (`background-input.ts`, `content-input.ts`, `content-element-registry.ts`) | pressed buttons and keys, element references | press, move, release, resolve | what was pressed is let go; input meets the element it named |
| page patches (`content-patch.ts`) | patches and what they replaced | apply, roll back, commit | rolling back restores the page |
| navigation waits (`navigation-wait.ts`) | waits, a leased page hook | wait, hear, read, release | no change goes unnoticed; no hook is left |
| perform outcomes (`background-perform.ts`, `background-outcomes.ts`) | steps, network observations | run steps, watch, decide | "verified" means it happened |
| console capture (`background-console.ts`) | a record in the page, wrappers | start, read, clear, end | everything is heard once; the page is let go |
| web tools (`background-webmcp.ts`, `webmcp-document.ts`) | references, approvals, callbacks | list, approve, execute, abort | a tool runs once, as it was approved |
| page recording (`background-recording.ts`, `page-recorder.ts`) | session, segments, body reads, journal writer | start, poll, append, stop | what is journalled is in order; ends release what they took |
| action log (`background-action-log.ts`) | list, two stored copies | restore, append, clear, tab removal | history survives and the erased never returns |
| access prompts (`background-access-request.ts`, `background-ui.ts`) | requested window, prompt | ask, show, answer, close | one prompt, for a window that can still be enabled |

CLI and MCP translation, the text of agent configurations, protocol tables and
types, and telemetry have no model: they are translation or formatting around
single requests.  `PROJECT.json` gives the reason for each, and for each
component that is modelled in part what is left out.

### Interactions and hard behaviours

* All handlers of the daemon run under `daemon.mu`, but `disconnect` and
  `revokeMutations` loop over Go maps in an unspecified order and grant turns in
  the middle of the loop.
* Timers (deadline, expiry), the storage executor and reader goroutines contend
  for the mutex with everything else, so each may come before or after any other
  event.
* The extension is single-threaded, with gaps at each `await`.  Grants,
  cancellations, page loads, window transitions, detached debuggers and port
  losses fall into the gaps.
* The service worker stops when it is idle and starts again with empty memory;
  updates and browser restarts lose more.
* Commands, updaters, launchers and daemons are separate processes that meet on
  files, and may be killed between any two of their steps.
* A page can hang, an agent can vanish, the native host can die; the daemon
  never waits for any of them, so its view of the browser can be stale.

`PROJECT.json` lists 40 hazards with their lines and the properties that would
show them going wrong.

## 2. Modules

| module | models |
|---|---|
| `GrantRule` | which turns one grant pass hands out, as a closed predicate on queue positions (`scheduler.go:82-122`) |
| `GrantScan` | `grantMutations` entry by entry, with its `continue`, its `break` and its local set `active` |
| `TabTurns` | abstract specification: what the scheduler promises a page |
| `MutationScheduler` (`MC`) | scheduler and router of the daemon against an arbitrary browser |
| `MutationGate` | one extension: port, window grant, request lifetimes, gate, page |
| `BridgeSystem` (`MC`) | daemon and extension over two ordered channels |
| `DaemonStorage` (`MC`) | executor, artifact store and journals as functions from a table to the next one; the handlers under `daemon.mu` that queue jobs, the disk worker, the uploading extension |
| `DebuggerOwners` | one tab's debugger coordinator with everybody who uses it: requests, a dialog, interception, capture, emulation, the tab's cleanup |
| `WindowSession` | window grant and native port of one browser over restarts |
| `AgentTabs` | leases and routing of agent sessions; the tab groups of a window against a user who edits them |
| `WindowSessionMC` | window session, agent tabs or tab groups per behaviour |
| `NativeUpdate` | updater processes on one state directory |
| `DomBaselines` | the daemon's registry and the browser's records of DOM baselines |
| `WindowActions` | actions on another browser's window |
| `DaemonPeers` | admission, eviction and end of connections; setup tasks |
| `BridgeClient` | callers, reader and failure of one client |
| `DaemonLifecycle` | daemons, restarts and native hosts on one home directory |
| `AccessPrompts` | requests for access and their prompt |
| `ServicesMC` | one of the seven above per behaviour |
| `PageRecording` | a recording of a tab and of a tab it opens |
| `NetworkCapture` | one tab's network capture with its TTL |
| `NativeInput` | gestures through the debugger |
| `PagePatches` | reversible patches in the frames of a page |
| `PageInput` | input with DOM events, and element references |
| `CapabilitiesMC` | `GrantScan` or one of the five above per behaviour |
| `NavigationWaits` | waits for a URL and the leased page hook |
| `PerformOutcomes` | `input.perform` and its network outcome |
| `ActionLog` | the activity history and its two stored copies |
| `FetchIntercept` | interception rules, their jobs and timer |
| `VisualBaselines` | captures, the daemon's pixels and comparisons outside the lock |
| `WorkerMC` | one of the five above per behaviour |
| `WebTools` | tools a page offers: reference, approval, execution, abort |
| `ConsoleCapture` | the console record in a page that wraps the console too |
| `SkillInstall` | commands that install and remove skill bundles, and may be killed |
| `NativeLauncher` | launchers that share a lock and a cache |
| `LocalMC` | one of the four above per behaviour |
| `MutationSchedulerProofs`, `BridgeSystemProofs`, `ServicesProofs`, `SessionProofs`, `DebuggerProofs` (the coordinator, interception rules, waits for a URL, the activity history), `CapabilitiesProofs` (the grant pass, recordings, network capture, input through the debugger, patches), `LocalProofs` (tools of a page, launcher, input.perform, visual baselines) | proofs |

The composite MC modules put components that share no state side by side: a
behaviour picks one, starts it in its own first state and takes its steps only,
so a run explores the sum of the components, not their product.

### MutationScheduler and the code

| variable | code |
|---|---|
| `peers`, `access`, `identified` | `d.peers`, `accessEnabled`, identity with `mutationScheduling` of a connection |
| `pending`, `marked` | keys of `d.pending`; those whose envelope carried `mutation_schedule` |
| `count` | `peer.pending` |
| `entries`, `queue` | `s.entries`, `s.queues[target]` |
| `tab`, `ready`, `granted`, `canceled` | fields of `scheduledMutation` |
| `storing` | artifact answers handed to the storage executor, not completed |
| `unsettled` | what the browser has been asked and has not answered: environment, not code |
| `walking` | the peer whose loop (`disconnect`, `revokeMutations`) is between two iterations |

Each handler is one action, with every call it makes: `Finish` is the whole
`finish` closure, `RemoveMutation` includes the grant pass that follows it,
`CancelMutation` is `cancelMutation`.  The two loops over maps are split into
iterations (`RevokeRequest` / `AbandonRequest`, then `RevokeDone` /
`DisconnectDone`), since a choice of order is exactly what matters in them; while
one is open the mutex is taken (`MutexFree`) and no other handler runs.  Requests
are model values with constant owner, target, method and requested tab; a request
with no tab (`NoTab`) learns it in `MutationReady`.  Timers may fire at any time
after they are armed: the model is correct for any lengths.

### MutationGate and the code

A request goes through `stage`: `resolve` (waiting for `resolveTarget`), `wait`
(in `waiting`, the page read and the grant in either order), `recheck` (the
second read), `run` (dispatched, until it settles).  Every step between two
awaits is one action.  `captureAccess` is the value of `window` at the start;
window grants are numbered because `enabledAt` tells them apart.  A page load is
two steps, `Navigate` (the document is committed) and `PageLoaded` (the worker
hears of it), since `tabs.onUpdated` is delivered on its own channel.  The
window is turned off and on through the transition queue, in the order of the
code: the state changes, then the daemon is told.  A port is `pending` until its
stability timer fires, then `up`; a lost stable port aborts every lifetime, one
lost before that does not.

### BridgeSystem and the code

`BridgeSystem` EXTENDS `MutationScheduler` and takes `MutationGate` as an
instance.  The daemon's messages go into `inbox`, the extension's into `outbox`,
both FIFO, as the native host copies them.  A step of the daemon is an action of
`MutationScheduler` and the messages it sends, in the order of the code;
`unsettled` becomes what this extension was really asked.  The messages of one
grant pass are in queue order: `Turnovers` is the set of the sequences of the
newly granted that keep it, which has one element.

### The other modules

Each names at its head the files it models.  The common pattern: shared tables
are records (`access`, `log`, `fetch`), functions from a table to the next one
translate a method that touches nothing else, one action is a handler or the part
of it between two awaits, another process's or the user's moves are actions of
the environment.  Histories, variables that no guard of the code's actions reads,
end in `Past` or are marked `history`; they let an invariant speak of earlier
states.

### Abstractions

* A request has one candidate connection.  The choice among several (`route`,
  candidate scoring) is not modelled.
* Request ids are unique, as `uniqueID` makes them.
* The byte limits of a peer's outgoing queue are left out; a peer closed by them
  is a `Disconnect` like any other, taken between handlers.
* The scheduler's daemon sees a restart of the service worker as the loss of its
  port.  The worker's own fresh start is in `WindowSession`, `AgentTabs`,
  `ActionLog`, not in the composition.
* A lifetime's place in the limit of the extension is free when the reply is
  posted; the code frees it a little later, after the action log entry.
* Snapshots of tab-scoped work (navigation) compare the tab's URL only, like the
  code; others the document and the URL.
* `DaemonStorage` handles a message when it is sent: what it may be late for has
  happened when its sender takes the step.  File contents are what was promised
  or not.
* `WindowSession` lets a write to storage or to an alarm take effect when it is
  issued and never fail, runs one gone check at a time, and abstracts delays to
  which of the two clocks counts them.  The keepalive alarm is left out: one that
  wakes a stopped worker fires before the asynchronous restore and clears itself
  (`background.ts:1057-1062`).  The display of instability is left out.
* `AgentTabs` leaves out leases of other windows and the lists of recent tabs, and
  of groups pinned tabs and those that are shared or recoloured.
* `NativeUpdate` leaves out the throttle of automatic checks, `state.backup.json`,
  signatures and digests; `DaemonLifecycle` the change of address by
  `bbx proxy`, registrations of MCP processes, and reuse of PIDs.
* `PageRecording` leaves out frames, the replay screencast and what an event
  says; `PageInput` new documents, steps without an element and nested controls;
  `WebTools` the back/forward cache, size limits and the five-minute expiry.
* `NativeInput` assumes that a failed command has done nothing.  `FetchIntercept`
  assumes that a renewed timer, at least five seconds, does not fire while the
  job of its predecessor is queued.

## 3. Runs

Every bound is a constant in the `.cfg` and a guard in the module.  `MaxUpsets`
and its like bound what happens *to* the code (failures, losses, user moves), the
code's own limits (`MaxScheduled`, `MaxQueue`, `MaxRules`, ...) keep their meaning
with smaller values.

| run | what it asks | states |
|---|---|---|
| `scheduler_safety` | Does the daemon keep its promises whatever browsers and agents do?  Two agents, two browsers with the same two tab ids, two inputs and a navigation in one, an input in the other; limits low enough (3, 3, 3, 2) to be met | 239 k |
| `scheduler_liveness` | Do the tables agree, is every request answered and every slot given back?  An export whose answer passes through the storage executor, a read, an input; one per peer, two in all | 2.7 k |
| `bridge` | Does the extension run work only in its turn?  An input with no tab and a navigation for one tab, cancellations and timeouts at any moment, one upset | 360 k |
| `storage` | Do screenshots and a journal pass the one disk queue within its limits?  Two extensions, one of an older version that sends no acknowledged chunks; the queue's limits (2 transfers, 3 with cleanups, one chunk of bytes) and the owner's quota of bytes are reached, the other quotas are not | 216 k |
| `debugger` | Is a tab's debugger given back and never used by what was canceled?  A request that retries, a dialog answer, interception and capture, one detach by Chrome, one cleanup | 70 k |
| `session` | Do memory, storage and daemon agree on the grant, are sessions and the user's arrangement kept?  Two windows, two inputs, one restart of each kind; one lease, two upsets; three tabs, three edits | 1.35 M |
| `services` | seven parts of the daemon, its clients and its processes, below; a second baseline of one connection meets the limit of owners | 1.19 M |
| `capabilities` | the grant pass over every queue of up to four entries, and five parts of the extension | 2.0 M |
| `worker` | five parts of the service worker | 1.72 M |
| `local` | a page's tools, console capture, two commands on skill bundles (one failure or kill, and one write of the user's before them), two launchers | 1.21 M |
| `daemon_unlink` | finding 1, violated | |
| `recording_capture` | finding 2, violated | |

### Properties

Scheduler and bridge:

* `OneRunningPerTab`: two uncanceled mutations never hold one tab.
* `NoTurnWasted`: after every event nothing but a navigation could be granted by
  one more pass.
* `SlotKeptUntilSettled`: a slot ends only by its answer, by the expiry of a
  canceled one, or with its browser.
* `TurnsInOrder`: turns follow arrival, but for a navigation past a draining
  mutation.
* `TurnsKept`: the scheduler implements `TabTurns` at each tab of a connection.
* `ReservationsKept`: map, line, pending requests and counters agree, and what
  runs uncanceled has access.
* `RequestsSettle`: every request is answered and every slot given back.
* `PageInTurn`: what runs in a page holds the daemon's turn, unless the daemon
  itself gave the slot up; two never run in one page, except a navigation beside
  a canceled one; a page load escapes the gate only when both of its checks come
  too late.

Storage, debugger, session:

* `StoresKept`: limits hold, content is as recorded, nobody's leftovers await a
  cleanup.  `StorageServes`: cleanups have their reserve, callers are answered,
  leftovers go.
* `CanceledWorkOut`: neither a stale command nor a domain is left with the tab
  after a cleanup.  `TabFreed`: neither a dialog nor a forgotten session keeps it.
* `GrantAgrees`: memory, storage and daemon agree on the one grant.
  `OldGrantNeverReturns`: no transition brings back a grant of an earlier run of
  the browser.  `RetryDue`: without a port a retry is due.
* `SessionsStay`: an agent works on the tab it was last told of.
  `ArrangementKept`: the synchronisation undoes nothing the user has arranged.

Services:

* `SelectionRuns`: whatever `state.json` selects, and what it can be rolled back
  to, was staged to the end and has its proof.  `SelectionMoves`: a write never
  goes to an older feed or a blocked release, to an older version only by a
  rollback, and an activation that failed puts back what it replaced.
* `BaselinesAgree`: every baseline of the browser is in the daemon's registry, and
  the other way round.  Excepted are what the daemon loses sight of: calls their
  agent canceled (`daemon.go:545-554` finishes without abandoning; the record
  stays until its five-minute TTL), abandoned calls beyond the 128 it remembers,
  the oldest of 128 owners of a connection that a new one pushes out,
  those made before their grant or connection was announced, and calls that
  survive the loss of an unstable port.
* `ActionsAnswered`: an action is answered once, and does something only under the
  grant its user saw.
* `PeersAccounted`: limits of connections and setup tasks, and their counters.
* `ClientSettles`: no call gets a second result, none waits for nothing.
* `LifecycleKept`: unless finding 1 has happened, one daemon listens, the PID file
  names it (but for a PID written between an earlier daemon's look and removal),
  what it keeps is in the directory (but for what it stored beside one that
  drains), and a restart that succeeds has replaced every daemon it found.
* `PromptsKept`: one prompt, and nothing waits for a window that is closed.

Capabilities:

* `ScanGrantsTheRule`: the loop of `grantMutations` grants the turns of
  `GrantRule`.
* `RecordingKept`: a recording's journal is in order and its ends release what it
  took, but for what a poll failed to stop in a tab it let go.  `CaptureAgrees`: state, timer, hold and Chrome's domain agree.
* `InputLetsGo`: what a gesture pressed is released.  `InputExact`: input meets
  the element its caller named.  `PatchesUndone`: rolling back restores the page.

Worker:

* `NavigationWaitsKept`, `OutcomesTrue`, `HistoryKept`, `InterceptionEnds`,
  `PixelsInScope`: as in the inventory's last column, with the exceptions their
  comments name.

Local:

* `WebToolsKept`, `ConsoleHeardOnce`, `SkillsKept`, `LaunchesPinned`: likewise;
  `SkillsKept` for two commands at a time (section 5 has what three can do).
  `ConsoleHeardOnce` counts what a resetting prime throws away beside what was read.

Each property has a mutant in `PROJECT.json`: a plausible bug in the mapped
definition under which TLC finds the property violated.  The mutated forms stand
in the modules, marked as broken variants of the definition below them.

### Why the bounds are enough to be interesting

The hazards of the scheduler need at most: a running mutation, a canceled one
draining beside a navigation, one waiting behind, and one whose tab is unknown.
Three requests on one connection give every pair of these together and most
triples; the fourth, in another browser with the same tab ids, shows that
connections do not mix.  Limits equal to the number of requests less one are met.
In the composition one tab is the worst case, since gates of different tabs
share nothing but the port and the window.  The scheduler's and the bridge's
safety does not rest on the bounds: it is proved for all (section 4).

The other runs are bounded by the number of actors that can meet and of things
that go wrong: two processes, two calls or two windows, a third where a property
is about an innocent one, one or two upsets.  Larger instances were checked by
hand and met no violation: the updater with three stages and two upsets (7.3 M
states), DOM baselines with two agents (1.0 M) and, with one turn, three calls (2.8 M), window
actions with two grants per browser (0.56 M), four connections (4.7 M), four
daemons (0.55 M), three askers (1.5 M); navigation waits with a hook fault (0.63 M),
with 2/2/1 and 2/3/0 waits, turns and faults (2.0 M, 7.3 M); perform outcomes with
three calls (6.8 M) or two surprises (2.2 M); the action log with two tabs (1.9 M);
page input with three page moves (0.57 M); agent tabs with two leases and three
upsets (0.41 M); web tools with three page turns (0.76 M) or three calls (1.0 M); console
capture with six turns, four entries and a buffer of two (0.6 M); skill bundles with
two upsets (2.4 M); three launchers (3.5 k).

Symmetry is declared over interchangeable callers, processes, windows and tabs,
in safety runs only.

### Deadlock

The scheduler's runs and `session` check for deadlock: there the system never
stops.  `CHECK_DEADLOCK FALSE` stands where a bounded instance ends: requests of
the composition are asked once, upsets and inputs are used up, a grant pass or a
command is over.

### Fairness

Liveness is claimed in three runs, each under the fairness its module states.

* `MutationScheduler!FairSpec`: strong fairness of `Timeout`, `Expire` and
  `Stored`: timers and storage jobs run, then wait for `daemon.mu`, which other
  handlers take in between.  Go's mutex goes to a waiter that has starved for a
  millisecond, so none is passed over forever.  Weak fairness of the loop
  iterations of `disconnect` and `revokeMutations`, which run to their end with
  the mutex held.  Nothing is assumed of agents and browsers.
* `DaemonStorage`: the disk worker, the clock of acknowledgements and the
  daemon's ticker run.  Nothing is assumed of extensions and agents.
* `DebuggerOwners`: Chrome answers a command unless an open dialog holds it, and
  timers fire.  Nothing is assumed of users and dialogs.

## 4. Proofs

Seven modules hold the theorems.  A statement is for every value of the constants
under the module's named assumptions:

| assumption | what it says | why the code justifies it |
|---|---|---|
| `ConstantsAssumption` | requests have an agent, an extension, a method and a tab or `NoTab`; agents and extensions are disjoint; limits are naturals | a peer registers in one role; the limits are constants of the code |
| `BridgeAssumption` | one extension connection | the composition follows one connection |
| `CallerAssumption` | callers are not named like the reader's states | naming |
| `PeerAssumption`, `ActionAssumption`, `BaselineAssumption` | limits are naturals, where the code admits one at least positive | constants of the code |
| `DaemonAssumption` | there is a daemon; `NoDaemon` is none | naming |
| `PromptAssumption` | window ids are unique, `NoTarget` is none | Chrome's ids |
| `SessionAssumption` | window ids, and grants, are none of the marks for none; bounds are naturals | naming; Chrome's ids |
| `OwnersAssumption` | the holding domains are emulation, interception and capture, or some of them, and no request is named like one; bounds are naturals | the three acquire callers; naming |
| `ReadsAssumption` | at least one body read at a time | a constant of the code |
| `UpdateAssumption` | releases are positive numbers with a newest; a feed has been published; limits are naturals | semantic versions are compared totally; feeds are numbered |
| `VisualAssumption`, `FetchAssumption` | the limits of pixels, and of rules, are naturals | constants of the code |
| `PatchFrames` | the top frame is a frame; no request is named like the cleanup or its listing | every tab has a main frame; naming |
| `WebAssumption`, `LauncherAssumption` | `NoWebCall` is no call, `NoLauncher` no process | naming |

### The scheduler

`CapabilitiesProofs!ScanCorrect`: the loop of `grantMutations` grants exactly
`Grants(...)` of `GrantRule`.  The invariant says, for the position of the scan,
which entries before it were granted and what the set `active` stands for;
`HeadDecision` shows that the decision at the head agrees with the rule.

`MutationSchedulerProofs` rests on `IInv == TypeOK /\ LineOK /\ TurnsOK /\ CallersOK`.
`LineOK` says that queues and entries agree, that the elements of a queue are
distinct (without which removing an entry could leave a second copy) and that
ready entries know their tab.  `TurnsOK` is mutual exclusion with
`canceled \subseteq granted \subseteq ready`.  `CallersOK` says that exactly the
canceled entries have no caller, and that uncanceled work runs only with access;
without it a pass could grant an entry whose caller is gone.  `OneRunningPerTab`
alone is not inductive: a pass marks the tabs of granted entries it meets in the
queue, so every granted entry must be in the queue.  `PassStep` proves that a grant
pass preserves `IInv`, `RemoveStep` and `FinishStep` lift that to the helpers, and
one step per action follows.

| theorem | states |
|---|---|
| `TypeCorrect`, `QueuesConsistent`, `NoSlotLeaks`, `AccessRespected` | parts of `IInv` |
| `MutualExclusion` | `Spec => []OneRunningPerTab` |
| `ReservationsAgree` | `Spec => []ReservationsKept`; counts of requests are compared through finite sets |
| `SlotsKept` | `Spec => SlotKeptUntilSettled` |
| `TurnsUsed` | `Spec => []NoTurnWasted`: strengthened to `NothingFree`; `PassExhausts` shows that a pass leaves nothing the next one could grant, which needs the least position of a queue with a property |
| `ArrivalOrder` | `Spec => TurnsInOrder` |
| `Refinement` | `Spec => TurnsKept`: every step moves each place as `TabTurns` allows (`EveryTurnStep`), and `TurnsNext` makes that a step or a stutter of the abstract specification |

Every safety property of `scheduler_safety` and `scheduler_liveness` is proved.

### Daemon and extension

`DaemonFollowsScheduler`: `BridgeSpec => Spec`, so the channels and the concrete
browser add nothing the arbitrary browser of `MutationScheduler` could not do;
`BridgeMutualExclusion` carries over.

`PagesInTurn`: `BridgeSpec => []PageInTurn`, for any numbers of requests, tabs,
pages, grants and upsets.  What the extension knows is older than what the daemon
knows, so the invariant is about the messages in flight:

    BridgeInv == IInv /\ Takeovers /\ StreamsOK /\ GateOK /\ TurnsTold /\ PagesSeen

* `Takeovers`: two slots of one tab are a canceled one and a navigation.  `IInv`
  alone would allow a third.
* `StreamsOK`: a request is asked once, and before that neither channel nor the
  extension knows it; a cancellation or a turn follows the request it is about.
* `GateOK`: shapes of the extension's tables, and which stage may hold what.
* `TurnsTold`: a turn on the wire, or known to the extension, is one the daemon
  still holds or gave up early (`forgone`), and is for the tab the extension
  reported.
* `PagesSeen`: what was read of a page is no older than what the request was
  queued on, and no load was heard between them.

A step of the daemon preserves it because its messages are the turns it gained and
the callers it lost, in order (`Told`, `TurnsFollow`, `DaemonKeeps`); a step of
the extension changes one request's work or, in a loop, ends several
(`Quiet`, `Frame`, `OneWorks`, `AllSame`, `ExtensionKeeps`).  TLC checked
`BridgeInv` on the instance of `bridge` before it was proved.

### Services

`ServicesProofs` proves each property of the `services` run, as theorems of the
components' own specifications, with one inductive invariant each.

| theorem | property | what the invariant adds |
|---|---|---|
| `ClientsSettle` | `ClientSettles` | a call that waits is pending, answered or in the reader's hand; entries have distinct ids; the closed client has none |
| `DaemonsKept` | `LifecycleKept` | the socket file is the listener's; a starter that goes on has seen the end of every daemon it found; while nobody is between the look at its PID file and the removal, the file names who serves |
| `PeersCounted` | `PeersAccounted` | a connection not yet made has left no trace; a task is known by its connection and id |
| `PromptsStayKept` | `PromptsKept` | a prompt on the screen was asked for by a request that is over; one request is in hand |
| `ActionsEnd` | `ActionsAnswered` | a letter under way belongs to an action that was asked, and a request to one not yet routed |
| `SelectionKept` | `SelectionRuns` | who holds the lock knows a state whose releases are staged (`Stood`, `Knows`) and well formed (`WellState`) |
| `SelectionsMove` | `SelectionMoves` | the same; what `Restore` writes is what the activation read; `NeverOlder` for `EffectiveVersion` |
| `RegistriesAgree` | `BaselinesAgree` | see below |

Minima are found by `LeastElement`, from well-foundedness of the naturals: the
library's induction theorems take an operator as parameter, which the installed
provers cannot instantiate.

`RegistriesAgree`: `BaselinesSpec => []BaselinesAgree`, for any number of agents, tabs
and calls and any limit of the caches.  Browser and daemon learn of each other over two
lists of notes, so the invariant (`BaselineInv`; TLC checked it with two agents and two
calls, and by simulation with three calls, before it was proved) is about what is on them:

* `HeardOf` (`Announced`): the daemon knows the grant announced last, or the
  announcement is still on its way with the answers of all that was made under it behind
  it.  So a registry that an announcement clears loses only what an answer will register
  again.
* `GrantFits`: without an announced grant the browser has only records the daemon has
  lost sight of; a connection that is lost has nothing on its way to the browser, and its
  end is the last note to the daemon.
* `WaitedFor`: a creation that is sent, captured or answered is one the daemon waits for
  or remembers as abandoned, which is what turns its late answer into a release.
* `CallsFit`, `AnswersFit`, `YoungFit`: a call goes from its note to its task to its one
  answer to its agent, and nothing knows of a baseline before it is made; an answer that
  says a record is gone or evicted says so truly as long as it is on its way.
* `AccountedFor`, `ReachedStill`: the property, with the answers still queued for agents.

Every answer the daemon takes has one of a few effects on its registry, so `AnswerKeeps`
shows that each way has such an effect and then, once, that the effect keeps the invariant;
`CallsEnd` does the same for timeouts, cancellations and agents that leave.

### Window grant and native port

`SessionProofs` proves three properties of the `session` run for every number of
windows, clicks, failures and restarts: `RetriesDue` (`RetryDue`), `GrantsAgree`
(`GrantAgrees`) and `GrantsStayGone` (`OldGrantNeverReturns`).  They rest on one
invariant, which TLC checked on the instance of `session` first:

    SessionInv == PortInv /\ StateTypeOK /\ PlacesOK /\ StorageOK /\ ToldOK

* `PortInv`: an alarm is set exactly while `idleReconnectScheduled` says so (a
  worker that starts presumes one, so the equality holds between actions only); a
  port that is not stable has nothing on the wire and a daemon that knows nothing.
* `PlacesOK`: a transition waits only where its kind can; the one that grants
  carries a grant of this browser run.
* `StorageOK`: while there is a grant both copies equal it.  `RestartKeepsGrant`
  speaks of settled states only; the invariant says who will deal with a copy that
  outlives its grant: the restore of a fresh worker (always first in its queue),
  the transition that adopts the backup, or the browser's start.  While a
  transition reads what it may bring back there is no grant, and if the browser's
  start was noticed the transition that revokes is still to come.
* `ToldOK`: the last update on the wire tells of the grant there is, or the one
  who changed the grant is still to send its own, unless a check crossed.

`GrantsStayGone` then needs one fact: with the flag up, only `Granted` changes the
grant to another.

### The debugger of a tab

`DebuggerProofs!CanceledWorkStaysOut`: `Spec => CanceledWorkOut`, types, the promise
that a stale command has no session, and the sweep of a cleanup, for any number of
callers, dialogs, holds and cleanups.  None of the three is inductive: what a cleanup
may leave depends on calls that still wait behind the one in turn.  The invariant,
checked by TLC on the instance of `debugger` first, is

    DebuggerInv == OwnersTypeOK /\ QueueInv(tab) /\ StaleInv(tab) /\ CallsKnown
                   /\ HoldsInv /\ SessionInv /\ BarrierInv

* `Sealed`: nothing of this generation is left in the tab.  A cleanup seals the
  tab at once (every queued call becomes stale), and while its barrier is up
  (`BarrierInv`), or a stale command runs (`StaleInv`), the tab stays sealed, since
  `CanStart` refuses new calls and a stale call takes nothing when its turn comes.
* `QueueInv`: the burst timer has at most one turn in the queue, of this generation,
  and only while it says `"fired"`; without it a turn that was spent could let a
  session go twice.
* `SessionInv`: who will give Chrome's session back where the coordinator has
  already forgotten it: the discard, or the detach of a failed attach.
* `CallsKnown` and `HoldsInv`: an owner has one call at most, and holds are bounded
  by the owners that will not take another.

Every turn of the queue is one of two shapes, the call goes on (`GoesOn`) or it ends
(`Finishes`), so a lemma per function shows which (`BegunTurn`, `AttachTurn`, ...) and
`TurnKeeps` is proved once; steps beside the queue share `SideStep`, those that queue
a call `TakesStep`.

`RequestsGoOn`: `FetchSpec => []InterceptionEnds`, for the interception rules that hold
the debugger.  The property speaks of a tab with no job left; the invariant

    InterceptInv == FetchTypeOK /\ JobsFit /\ StateFits /\ ChromeFits
                    /\ DuringTurn(first job) /\ RulesLimited

says what the first of the queued jobs has done so far and what it will do next.

* `DuringTurn`: a job whose tab was forgotten stands before a clean slate (no session,
  no state, no stray hold), so what it does late must not be taken for the tab's; a
  state whose patterns are being withdrawn has no rules and no timer; while an addition
  waits for Chrome every rule but its own is in Chrome.
* `ChromeFits`: a hold without its state is a stray one, a session Chrome took away
  pauses nothing, and who owns a hold has a session until the loss is told.
* `StateFits`: a timer that has fired left a cleanup that will run (`WillClean`).  A
  refused expiry is the delicate case: it is refused because of a cleanup, and that one
  must not be an outdated expiry.

`TurnGoesOnKeeps`, `OverKeeps` and `JobAdmitted` are the three shapes of a step.

### Network capture and recordings

`CapturesAgree`: `CaptureSpec => []CaptureAgrees`.  The property speaks of moments
when no call is under way; the invariant `CaptureInv` says who will repair what is
wrong in between.  Only the first call in the queue is past its start, and where
it is says what the capture is (`TurnsOrdered`); an enabled capture is fed by
Chrome or its loss is queued (`CapturesHear`); one without its timer has a stop
queued (`StopsComing`); without a capture only a start under way holds a session
(`NothingHeld`); the stop called last is still queued after every start, or has
done its work (`StopsWin`).  `EndKeeps` and `GoKeeps` cover the two ways a turn
can go on, `TurnCalled` a call that joins the queue, so that a step only has to
show what it makes of the capture (`Sound`).

`RecordingsKept`: `RecordingSpec => []RecordingKept`.  The invariant is
`Core(rec) /\ Places(rec) /\ PagesInv`:

* `Core` relates journal, reads and stop of the recording: a body or an update
  follows its event because each read, under way or waiting, is of an event the
  journal has; reads and those that wait are in order and apart, and nothing waits
  while a slot is free (so that no read ends the wait too early); the end is in
  the journal only after everything else.
* `Places` says which positions of start, poll and stop exclude each other: past
  its wait a stop is alone, so nothing takes a capture, a recorder or an event
  behind its back.
* `PagesInv`: the recorders that are on are those the stop will visit, has
  visited, or failed to reach, in which case a gap was recorded, and those of a tab
  that was let go while stopping it failed (`left`).

The helpers return records, so most of the proof is about what they keep:
`Recorded` is transitive and `RecordsCore`, `PersistCore`, `IngestsCore` show that
helpers preserve `Core` whether or not they end the recording on the way.

Of the limits (`MaxMemory`, `MaxWaiting`, `MaxQueued`, ...) only `MaxReads` is
assumed anything of.  TLC checked both invariants on the instances of
`capabilities` before they were proved.

### Tools of a page, and the launcher

`ToolsRunAsApproved`: `WebSpec => []WebToolsKept`, for any number of calls, tools,
references, documents, grants and workers.  TLC checked the invariant on the
instance of `local` first:

    WebToolsInv == WebTypeOK /\ CallsAgree /\ ScriptsAgree /\ ReferencesAgree
                   /\ DispatchesAgree /\ RunningAgrees /\ TabAgrees
                   /\ PromptsAgree /\ LeftoversCleared

* `CallsAgree` says what a call has by the place it has reached: operation, key,
  document, tool and answer.
* `ScriptsAgree`: an injected script on its way belongs to one call that waits for
  it, and is pinned to the document the call read.
* `ReferencesAgree`: a reference is one tool's for good, and a call that has read a
  reference knows its tool, so the tool read again after the approval is the one
  the user saw.
* `DispatchesAgree`: who is past the prompt was approved with this tool and
  document, and who was canceled before has not been sent.
* `TabAgrees`: `executing` stands for one busy call.
* `LeftoversCleared`: a callback, a list about to be built, a script that will build
  one, or a reference of a session that has ended waits for a clearing that is behind
  it.  Without it the last promise of `WebToolsKept` is not inductive: the clearing
  must reach the page after whatever could still start there.

Every step of a call is one of a few shapes (`EndsKeeps`, `DenialKeeps`, `GoesKeeps`,
`StillKeeps`, `SendsKeeps`, `FirstGoneKeeps`), proved once.

`PinnedBinaryRuns`: `Launches => []LaunchesPinned`.  The lock belongs to a process
within or dead; as long as no lock was taken from a live owner, everybody within owns
it, so one process downloads at a time.

A composite run starts one component per behaviour and takes its steps only, so
the theorem about the component's specification covers what the run shows of it.

### Input through the debugger, and its outcomes

`GesturesLetGo`: `InputSpec => []InputLetsGo`.  `InputInv` says of the rest of every
gesture's script that whoever ends it early still lets go: each press is followed by
its release with nothing between that may fail (`Released`), an observation begins
first and ends last (`Framed`), what is down is released next (`NextUp`), what is
observed ends so (`EndsObserved`).  The scripts are shown to be such sequences once
(`ScriptParts`), their tails stay so (`TailReleased`, `TailFramed`, `TailUp`), and
what a failure leaves is one of four short ones (`LeftOver`).

`OutcomesProved`: `PerformSpec => []OutcomesTrue`.  The invariant relates the watch to
the page: while the page's record is the one of the baseline and in the same
generation, every matching request that is over has an entry the watch has not read,
or was pushed out, and then the record's `evicted` says so (`WatchFollows`).  A read
that finds neither gap nor entry has therefore missed nothing.

### Pixels

`PixelsKept`: `VisualSpec => []PixelsInScope`, for any number of pages, calls, loads,
scrolls, grants and lost connections, and any limits.  A comparison runs outside the
daemon's lock, and what the browser tells of a load or a revocation arrives behind the
frames it sent before.  So the invariant, checked by TLC first, lets pixels be stale
only while a note that ends them is still on the wire:

* `Fresh`, `FreshBehind`: pixels kept, or about to be compared, are of the document
  their tab shows, or such a note is under way, behind them.
* `SpoiltFail`: a call that was overtaken and still waits can only fail: the access it
  was made under has ended, or the baseline it refers to is no longer kept.
* `PixelsAgree`, `LinkAgrees`: nothing is kept without access, without an agent that was
  told of it, or once the daemon knows that the connection is lost.

### Patches

`PatchesGone`: `PatchSpec => []PatchesUndone`, for any number of frames, requests and
patches.  The cleanup of a tab talks to its frames one message at a time while requests
sent before are still on their way, so the invariant (`PatchInv`, checked by TLC first)
follows the messages of each frame:

* `MailAgrees`: a request has at most one message under way, and one that brings a patch
  goes to a frame that is tracked; so a frame the cleanup does not visit has no patch and
  gets none.
* `Asks`: the cleanup's first message to a frame is behind all that was sent before; what
  it lists is therefore all there will be.
* `Lists`: from then on nothing else is under way to the frame, and what is left to undo
  is what the frame has, latest first.
* `DocFits` and `Chained`: undone in that order, the records lead back to the page's own
  value, each to what the one before it had set; a patch that did not act found what it
  would have set.  A rollback out of order, and a write of the page, break the chain and
  are remembered (`clean`, `alone`).

A patch sent again after an injection looks at no access any more; once one came after
the end of the access (`undo.late`), nothing is promised, as in the property itself.

### Waits for a URL, and the activity history

`WaitsNotice`: `NavigationSpec => []NavigationWaitsKept`.  A satisfied wait need not have
been answered yet, but whoever will answer it is known: `WaitsInv` has for each an event
on its way, or a read that is still to be asked or has seen the tab as it should be
(`Noticed`).  `WaitsRight` makes the lease count its holders, so that the last release,
and it alone, queues the uninstall; `HooksRight` allows the page no hook but the lease's.
One lemma, `SettleKeeps`, is about every way a set of waits ends.

`HistoryStays`: `LogSpec => []HistoryKept`.  The list, its two copies and the queue agree
only when nothing is under way, so `LogInv` (checked by TLC first) says how they may
differ while something is:

* `QueueInv` is about the queue of operations with the calls behind the restoration:
  entries that wait are apart, in no list and never erased; tabs whose history is to go
  are closed.  `Requested` and `RunKeepsQueue` show it of every call and every turn.
* `StepInv` says how far the first operation is: what a restoration has read has all that
  must be kept and nothing that was erased; between the two writes the local copy is the
  list already.
* `TabsInv`: an entry of a closed tab has its event on the way or its clearing queued.
* `RestoreDue`: a restoration that calls wait for is the last of the queue, so with an
  empty queue nobody waits.

The lemma about lists both this and the bound of the history rest on is `PickedHas`: what
is picked from a list is what it has at the picked places.

### What stays with TLC

* `RequestsSettle`, `StorageServes`, `TabFreed`: liveness under fairness, and
  `ENABLED`, are out of the prover's reach.
* `ConsoleHeardOnce`: the console module folds over a RECURSIVE library operator.
* `SkillsKept`, `StoresKept`, `SessionsStay`, `InputExact` and `ArrangementKept`: not
  proved.  `StoresKept` is about a module that folds over what it keeps; `SkillsKept`
  holds of two commands at a time but not of three, so of any number there is no theorem.
* What recursive definitions compute for every input (induction over data); no
  module that is proved about declares a RECURSIVE operator.

## 5. Findings

1. `daemon_unlink` / `NeverUnlinksLive` (`daemon.go:174`): `listen` dials the
   socket file it finds and removes it when the dial is refused; nothing holds the
   address in between.  Two daemons that start over a crashed one's file both find
   the dial refused, and the second removes the file of the first, which listens by
   then.  `daemon.go:159-160` says "Never unlink a live listener".
2. `recording_capture` / `OwnsCapture` (`background-cdp-network.ts:6`, `:359`): a
   network recording starts the tab's capture once and nothing renews its
   ten-minute timer, although a recording may last 30 minutes (`recording.md:35`)
   and "owns the tab's existing CDP network capture" (`recording.md:54`).

### Observations

Met while modelling, with no run of their own.

Scheduler, bridge, storage:

* While `disconnect` cancels the requests of a departed agent one by one, the
  removal of one may grant the next, which nobody wants any more
  (`daemon.go:1047`, `scheduler.go:157`, `:166`).
* `cancelMutation` makes no grant pass: a navigation already queued takes over a
  canceled mutation's tab only at the next event of its connection
  (`scheduler.go:160-180` against the comment at `:29-30`).
* A page load between `mutation_ready` and the gate's first read, heard of after
  the grant, escapes both checks (`background-mutation-gate.ts:84`,
  `docs/native-cli.md:84`).
* After a connection comes up its access update precedes its identity; a mutation
  routed in between is not scheduled (`scheduler.go:41-44`,
  `background-native.ts:545-590`).
* A draining daemon wipes the artifacts of its successor (`daemon.go:270`), and one
  that looked at the PID file before its successor wrote it (`:219`) removes the
  successor's (`:223-224`), so that `bbx restart` no longer finds that daemon.
* The 129th baseline of a connection drops the oldest owner (`baseline.go:57-69`)
  while the browser keeps the record: its agent is told it does not exist.
* A peer with a full outgoing queue is closed in the middle of a loop that sends
  (`daemon.go:119`); slots of a connection vanish with its native host while the
  browser may still execute (`native.go:147`).

Debugger and session:

* Emulation stays "owned" after a tab's cleanup (`background-tab-cleanup.ts:183-192`,
  `background-emulation.ts:154-192`).  An `acquire` queued before an external
  detach leaves a hold nobody owns (`background-emulation.ts:51-58`,
  `background-fetch-intercept.ts:222-235`, `background-cdp-network.ts:137-157`).
* A closed window's session record may outlive it (`background-window-session.ts:410-415`,
  `PRIVACY.md:84`).
* More than 16 sessions evict the oldest lease; `markClosed` after an await closes
  whatever lease the session has by then; a bind in flight may overwrite
  `moveAgentToTab`, and re-open the lease of a removed tab; `touch` is never called.
* `attach` joins an owned group without looking whether the user renamed it; a
  clear is lost when the worker stops; a call that fails drops a synchronisation
  asked for meanwhile.
* A denied request shows its prompt although the window was enabled meanwhile
  (`background-access-request.ts:197`, `:263` against `background-ui.ts:328-330`);
  a window closed between check and queue leaves a stale request; a stopped
  worker's prompt stays; closing the prompt leaves its request pending.

Page capabilities:

* Network capture: a start queued before a detach arms a fresh session, then the
  detach drops the state; an evicted pending request is counted as dropped and as
  abandoned; a TTL that fires while a renewing start is queued stops the renewed
  capture.  Recordings do not mark every gap (`recording.md:52`); a child tab that
  is let go loses its mark although stopping it failed, and keeps recorder or capture
  with no gap reported (`background-recording.ts:181-182`).
* Input: a click after a hold goes to whatever is under the pointer by then
  (`content-input.ts:853-863` against the comment at `:263-264`); the second press
  of a double click may meet a detached element.
* Patches: one resent after an injection checks only its request's lifetime; one
  whose effect the page has reverted counts as clean (`content-patch.ts:267-341`).
* Waits: a refresh that fails leaves hooks; a wait is not canceled with its
  request; a page that wraps `pushState` keeps the wrapper.
* Action log: a worker stopped between `onStartup` and the write that clears
  brings the previous history back (`docs/development.md:82`).
* Web tools: a foreign reference that was refused is deleted; after a restart of
  the worker a clear does not abort a callback that runs, nor does a replaced
  connection.
* Console: after an update of the extension an old record's wrapper stays enabled
  in open pages, and both records count into one `__bb_console_dropped`.  Every start
  of the worker (`background.ts:1115`) and every enabling of a window, the one
  enabled included (`background-window-session.ts:323-326`), throws away what is
  buffered, uncounted (`background-console.ts:371-373`).

Installation:

* Commands on skill bundles take no lock: two of them may lose an owner
  (against the comment at `agents_skills.go:345-346`), leave a managed bundle
  without its file or an unmanaged one that refuses to be reinstalled; a crash
  between two renames leaves the bundle in its backup; edits made while a command
  runs are lost.
* Three commands can lose a file of the user's, which two cannot: while one stages the
  bundle with that file, a second installs in the gap and a third stages a copy of what
  the second put there; the second fails and rolls back, the first places its bundle, and
  the third replaces it by its copy without the file and drops the backup
  (`agents_skills.go:270`, `:340`, against `manual-setup.md:164`, "User-edited and
  unmanaged files remain protected").

## 6. Not modelled, and plan

Not modelled: CLI and MCP translation, the text of agent configurations and their
detection, protocol tables and types, summaries, rendering of panels, badge and
popup, telemetry; the choice among several connections for one request and requests
the daemon answers itself; byte limits of outgoing queues; queries and reads of the
DOM, screenshots, files and downloads, which are single commands.  Of modelled parts:
a cleanup's message that times out (`background-tab-cleanup.ts:155-164`), some cancel
paths of a web tools session, more than one network condition of an outcome, the
paused-request handler and the global limits of interception, a refused enqueue and the
byte limit of visual baselines, a worker killed (not idle) while it primes a page.

To be proved next, in this order:

1. `StoresKept`, from an invariant over jobs in the queue and the tables their
   predecessors leave.
2. `SessionsStay` and `ArrangementKept`.
3. `SkillsKept`, of two commands at a time.
