----------------------------- MODULE WindowSession -----------------------------
(* The one window a user lets agents into (background-window-session.ts,      *)
(* background-access.ts) and what the daemon hears of it. Changes of the      *)
(* grant are transitions, run one at a time in the order they were asked for; *)
(* each action below is the part of a transition between two awaits. The      *)
(* check for a window that is gone, made for a request, runs beside the       *)
(* queue. A worker that stops loses its memory, an update also the session    *)
(* storage, a new browser run both and its windows.                           *)
(* A write to storage or to an alarm takes effect when it is issued.          *)
EXTENDS Naturals, Sequences

-----------------------------------------------------------------------------
(* The extension's connection to the native host (background-native.ts,       *)
(* background-reconnect.ts): a candidate port that becomes the port after its *)
(* stability window, the retry after it dies, by a timer or, while the host   *)
(* is not installed and nobody looks, by an alarm that outlives the worker,   *)
(* and the access updates the port carries to the daemon.                     *)
(* Delays are abstracted to which of the two clocks counts them.              *)

CONSTANTS NoGrant, MaxUpsets

VARIABLES
    native,     \* the connection controller, see NativeStart
    ui,         \* some popup or side panel is open (state.uiPorts)
    wire,       \* access updates posted and not yet handled by the daemon
    seen,       \* the daemon's entry for this browser: access and window
    upsets      \* failures so far

nativeVars == <<native, ui, wire, seen, upsets>>

Silent == [on |-> FALSE, grant |-> NoGrant]
NoPort == native.port = "none"

-----------------------------------------------------------------------------
(* Helpers on the controller's state *)

\* Broken variant of ClearIdle: the flag stays up.
ClearAlarmOnly(n) == [n EXCEPT !.alarm = FALSE]

\* idleReconnectScheduled may be TRUE without an alarm: a worker that starts
\* presumes one of its predecessor.
ClearIdle(n) == [n EXCEPT !.alarm = @ /\ ~n.idle, !.idle = FALSE]

QueueIdle(n) == [n EXCEPT !.timer = FALSE, !.alarm = @ \/ ~n.idle, !.idle = TRUE]
QueueTimer(n) == [ClearIdle(n) EXCEPT !.timer = TRUE]

\* The host's absence is polled slowly while no surface is open.
ScheduleReconnect(n, missing) ==
    LET lost == [n EXCEPT !.missing = missing, !.port = "none"]
    IN  IF missing /\ ~ui THEN QueueIdle(lost) ELSE QueueTimer(lost)

\* A retry may find an attempt under way: it keeps it.
ConnectNative(n) ==
    LET m == ClearIdle(n)
    IN  IF m.port # "none" THEN m ELSE [m EXCEPT !.timer = FALSE, !.port = "pending"]

\* A worker's controller before its first attempt, made in the same turn.
NativeStart(alarm) ==
    [port |-> "none", timer |-> FALSE, idle |-> TRUE, alarm |-> alarm, missing |-> FALSE]

\* Access updates go to the stable port only.
Post(w, on, grant) ==
    IF native.port = "stable" THEN Append(w, [on |-> on, grant |-> IF on THEN grant ELSE NoGrant])
    ELSE w

Upset == upsets < MaxUpsets /\ upsets' = upsets + 1

-----------------------------------------------------------------------------
(* What happens to the port *)

\* Broken variant of Stable: the grant is not announced again.
StableSilently(grant) ==
    /\ native.port = "pending"
    /\ native' = [native EXCEPT !.port = "stable", !.missing = FALSE]
    /\ UNCHANGED <<ui, wire, seen, upsets>>

\* The connection lived through its stability window; the daemon learns of a
\* grant that was made or restored before.
Stable(grant) ==
    /\ native.port = "pending"
    /\ native' = [native EXCEPT !.port = "stable", !.missing = FALSE]
    /\ wire' = IF grant = NoGrant THEN wire ELSE Append(wire, [on |-> TRUE, grant |-> grant])
    /\ UNCHANGED <<ui, seen, upsets>>

\* The host is gone, or answers that it could not start the daemon; the
\* disconnect that follows such an answer is ignored. The daemon forgets the
\* browser with its connection.
PortLost(missing) ==
    /\ ~NoPort /\ Upset
    /\ missing => native.port = "pending"
    /\ native' = ScheduleReconnect(native, missing)
    /\ wire' = <<>> /\ seen' = Silent
    /\ UNCHANGED ui

\* setTimeout of the retry: with the host missing and the last surface closed
\* the next attempt is left to the alarm.
RetryTimer ==
    /\ native.timer
    /\ LET fired == [native EXCEPT !.timer = FALSE]
       IN  native' = IF fired.missing /\ ~ui THEN QueueIdle(fired) ELSE ConnectNative(fired)
    /\ UNCHANGED <<ui, wire, seen, upsets>>

SetupAlarm ==
    /\ native.alarm
    /\ native' = ConnectNative([native EXCEPT !.alarm = FALSE])
    /\ UNCHANGED <<ui, wire, seen, upsets>>

OpenUi ==
    /\ ~ui /\ ui' = TRUE
    /\ native' = ConnectNative(native)
    /\ UNCHANGED <<wire, seen, upsets>>

\* The last surface closes.
CloseUi ==
    /\ ui /\ ui' = FALSE
    /\ native' = IF native.missing /\ NoPort THEN QueueIdle(native) ELSE native
    /\ UNCHANGED <<wire, seen, upsets>>

\* connectNative throws at once.
ConnectThrows ==
    /\ NoPort /\ native.timer /\ ~(native.missing /\ ~ui) /\ Upset
    /\ native' = ScheduleReconnect([ClearIdle(native) EXCEPT !.timer = FALSE], FALSE)
    /\ UNCHANGED <<ui, wire, seen>>

DaemonHears ==
    /\ wire # <<>>
    /\ seen' = Head(wire) /\ wire' = Tail(wire)
    /\ UNCHANGED <<native, ui, upsets>>

NativeInit ==
    /\ native = ConnectNative(NativeStart(FALSE))
    /\ ui = FALSE /\ wire = <<>> /\ seen = Silent /\ upsets = 0

NativeTypeOK ==
    /\ native.port \in {"none", "pending", "stable"}
    /\ {native.timer, native.idle, native.alarm, native.missing, ui} \subseteq BOOLEAN
    /\ upsets \in 0..MaxUpsets

-----------------------------------------------------------------------------
(* The window and its grant *)

CONSTANTS Window, NoWindow,
    MaxInputs,      \* clicks, title changes and closed windows
    MaxRestarts     \* worker and browser restarts and extension updates

VARIABLES
    enabled,    \* state.enabledWindow: [win, at, run] or NoGrant
    stored,     \* the grant's copies: [session, local]
    queue,      \* transitions not yet started
    step,       \* the transition under way, where it waits
    check,      \* the check for a window that is gone
    starting,   \* browserStarting
    windows,    \* open windows
    closing,    \* closed windows whose onRemoved is still to come
    events,     \* onStartup and onInstalled still to come
    run,        \* browser runs so far (history)
    clock,      \* grants made so far: the next enabledAt
    inputs, restarts,
    crossed     \* a check took a grant while a transition made or told one (history)

sessionVars == <<enabled, stored, queue, step, check, starting, windows,
                 closing, events, run, clock, inputs, restarts, crossed>>
vars == <<nativeVars, sessionVars>>

ASSUME SessionAssumption ==
    /\ NoWindow \notin Window
    /\ NoGrant \notin [win : Window, at : Nat, run : Nat]
    /\ MaxInputs \in Nat /\ MaxRestarts \in Nat /\ MaxUpsets \in Nat

Nothing == [session |-> NoGrant, local |-> NoGrant]
Idle == [at |-> "idle", op |-> "none", grant |-> NoGrant, held |-> FALSE]
NoCheck == [at |-> "idle", win |-> NoWindow, gone |-> FALSE]

WindowOf(grant) == IF grant = NoGrant THEN NoWindow ELSE grant.win
Copies(grant) == [session |-> grant, local |-> grant]

\* sendAccessUpdate carries the grant as it is when it is called.
SendAccess(on) == wire' = Post(wire, on, enabled')

Ask(op, w, g) == queue' = Append(queue, [op |-> op, win |-> w, grant |-> g])
At(pc) == step' = [step EXCEPT !.at = pc]
Begin(pc, grant, held) ==
    step' = [at |-> pc, op |-> Head(queue).op, grant |-> grant, held |-> held]
Done == step' = Idle

Input == inputs < MaxInputs /\ inputs' = inputs + 1
Restart == restarts < MaxRestarts /\ restarts' = restarts + 1

-----------------------------------------------------------------------------
(* What asks for a transition *)

\* setWindowEnabled, from a surface's switch.
Toggle(w, on) ==
    /\ w \in windows /\ Input
    /\ Ask(IF on THEN "enable" ELSE "disable", w, NoGrant)
    /\ UNCHANGED <<nativeVars, enabled, stored, step, check, starting, windows,
                   closing, events, run, clock, restarts, crossed>>

\* disableWindowAccess: another browser revokes the grant its user saw.
RevokeSeen ==
    /\ enabled # NoGrant /\ Input
    /\ Ask("revoke", enabled.win, enabled)
    /\ UNCHANGED <<nativeVars, enabled, stored, step, check, starting, windows,
                   closing, events, run, clock, restarts, crossed>>

\* handleTabUpdated, a title in the enabled window.
TitleChanges ==
    /\ enabled # NoGrant /\ enabled.win \in windows /\ Input
    /\ Ask("title", enabled.win, NoGrant)
    /\ UNCHANGED <<nativeVars, enabled, stored, step, check, starting, windows,
                   closing, events, run, clock, restarts, crossed>>

CloseWindow(w) ==
    /\ w \in windows /\ Input
    /\ windows' = windows \ {w} /\ closing' = closing \union {w}
    /\ UNCHANGED <<nativeVars, enabled, stored, queue, step, check, starting,
                   events, run, clock, restarts, crossed>>

\* handleTabRemoved: only the window that is enabled now is of interest.
WindowRemoved(w) ==
    /\ w \in closing /\ closing' = closing \ {w}
    /\ IF WindowOf(enabled) = w THEN Ask("removed", w, NoGrant) ELSE queue' = queue
    /\ UNCHANGED <<nativeVars, enabled, stored, step, check, starting, windows,
                   events, run, clock, inputs, restarts, crossed>>

\* clearEnabledWindowOnBrowserStartup: the flag is up before the transition runs.
OnStartup ==
    /\ "startup" \in events /\ events' = events \ {"startup"}
    /\ starting' = TRUE
    /\ Ask("startup", NoWindow, NoGrant)
    /\ UNCHANGED <<nativeVars, enabled, stored, step, check, windows, closing,
                   run, clock, inputs, restarts, crossed>>

Restoring == step.op = "restore" \/ \E i \in DOMAIN queue : queue[i].op = "restore"

\* onInstalled after an update waits for the restore of the session's grant.
OnInstalled ==
    /\ "update" \in events /\ events' = events \ {"update"} /\ ~Restoring
    /\ Ask("update", NoWindow, NoGrant)
    /\ UNCHANGED <<nativeVars, enabled, stored, step, check, starting, windows,
                   closing, run, clock, inputs, restarts, crossed>>

-----------------------------------------------------------------------------
(* Transitions: the first part of each *)

Starts(op) ==
    /\ step = Idle /\ queue # <<>> /\ Head(queue).op = op
    /\ queue' = Tail(queue)
    /\ crossed' = (crossed \/ (check.at \in {"clearing", "releasing"}
                               /\ op \in {"enable", "title", "restore", "update"}))
    /\ UNCHANGED <<nativeVars, check, starting, windows, closing, events, run,
                   inputs, restarts>>

\* enabledAt: the time tells a grant from any other.
Stamp == clock' = clock + 1

\* applyWindowEnabledState(enable). Leaving another window comes first.
StartEnable ==
    /\ Starts("enable")
    /\ LET w == Head(queue).win
           fresh == [win |-> w, at |-> clock + 1, run |-> run]
           switch == enabled # NoGrant /\ enabled.win # w
       IN  /\ Stamp
           /\ Begin(IF switch THEN "clearing" ELSE "injecting", fresh, FALSE)
           /\ enabled' = IF switch THEN NoGrant ELSE enabled
           /\ stored' = IF switch THEN Nothing ELSE stored

\* applyWindowEnabledState(disable), asked by the user or by another browser:
\* the latter only for the grant it saw.
StartDisable ==
    /\ Starts("disable") \/ Starts("revoke")
    /\ LET ends == /\ WindowOf(enabled) = Head(queue).win
                   /\ Head(queue).op = "revoke" => enabled = Head(queue).grant
       IN  IF ends
           THEN /\ enabled' = NoGrant /\ stored' = Nothing
                /\ Begin("clearing", NoGrant, FALSE)
           ELSE UNCHANGED <<enabled, stored, step>>
    /\ UNCHANGED clock

StartTitle ==
    /\ Starts("title")
    /\ IF WindowOf(enabled) = Head(queue).win
       THEN stored' = Copies(enabled) /\ Begin("telling", NoGrant, FALSE)
       ELSE UNCHANGED <<stored, step>>
    /\ UNCHANGED <<enabled, clock>>

StartRemoved ==
    /\ Starts("removed")
    /\ IF WindowOf(enabled) = Head(queue).win
       THEN /\ enabled' = NoGrant /\ stored' = Nothing
            /\ Begin("clearing", NoGrant, FALSE)
       ELSE UNCHANGED <<enabled, stored, step>>
    /\ UNCHANGED clock

StartRestore ==
    /\ Starts("restore")
    /\ IF starting THEN step' = step ELSE Begin("reading", stored.session, FALSE)
    /\ UNCHANGED <<enabled, stored, clock>>

StartUpdate ==
    /\ Starts("update")
    /\ IF starting \/ enabled # NoGrant THEN step' = step
       ELSE Begin("reading", stored.local, FALSE)
    /\ UNCHANGED <<enabled, stored, clock>>

\* A browser that starts revokes what an earlier run left.
StartStartup ==
    /\ step = Idle /\ queue # <<>> /\ Head(queue).op = "startup"
    /\ queue' = Tail(queue)
    /\ enabled' = NoGrant /\ stored' = Nothing
    /\ Begin("sweeping", NoGrant, enabled # NoGrant)
    /\ SendAccess(FALSE)
    /\ UNCHANGED <<native, ui, seen, upsets, check, starting, windows, closing,
                   events, run, clock, inputs, restarts, crossed>>

-----------------------------------------------------------------------------
(* Transitions: the parts after an await *)

Continues(pc) ==
    /\ step.at = pc
    /\ UNCHANGED <<native, ui, seen, queue, check, starting, windows, closing, events, run,
                   clock, inputs, restarts, crossed>>

\* The stored copies are gone: the daemon is told before the window is cleaned.
\* A window that closed has nothing to clean.
TellCleared ==
    /\ Continues("clearing")
    /\ IF step.op = "removed" THEN Done ELSE At("releasing")
    /\ UNCHANGED <<enabled, stored, upsets>> /\ SendAccess(FALSE)

\* clearWindowBridgeState has returned: the switch goes on, the others end.
Released ==
    /\ Continues("releasing")
    /\ IF step.op = "enable" THEN At("injecting")
       ELSE Done
    /\ UNCHANGED <<enabled, stored, upsets, wire>>

\* It failed: the replacement is not granted, the rest of the revocation is.
ReleaseFails ==
    /\ Continues("releasing") /\ Upset
    /\ Done
    /\ UNCHANGED <<enabled, stored, wire>>

\* Content scripts are in, or could not be put in: the window is granted.
Granted ==
    /\ Continues("injecting")
    /\ enabled' = step.grant /\ stored' = Copies(step.grant) /\ At("announcing")
    /\ UNCHANGED <<upsets, wire>>

Announce ==
    /\ Continues("announcing")
    /\ Done
    /\ UNCHANGED <<enabled, stored, upsets>> /\ SendAccess(TRUE)

\* The title is stored; the daemon's list of windows shows it.
TellTitle ==
    /\ Continues("telling") /\ Done
    /\ UNCHANGED <<enabled, stored, upsets>> /\ SendAccess(TRUE)

\* A worker restores its predecessor's grant, unless the browser is starting.
Restore ==
    /\ Continues("reading") /\ step.op = "restore"
    /\ enabled' = IF starting THEN NoGrant ELSE step.grant
    /\ stored' = IF enabled' = NoGrant THEN stored ELSE Copies(enabled')
    /\ At("restored")
    /\ UNCHANGED upsets
    /\ IF enabled' = NoGrant THEN wire' = wire ELSE SendAccess(TRUE)

\* initializeState tells it once more, for a port that became stable meanwhile.
Restored ==
    /\ Continues("restored") /\ Done
    /\ UNCHANGED <<enabled, stored, upsets>>
    /\ IF enabled = NoGrant THEN wire' = wire ELSE SendAccess(TRUE)

\* The backup names a window: is it still open?
ReadBackup ==
    /\ Continues("reading") /\ step.op = "update"
    /\ IF step.grant = NoGrant \/ starting THEN Done
       ELSE At(IF step.grant.win \in windows THEN "found" ELSE "lost")
    /\ UNCHANGED <<enabled, stored, upsets, wire>>

BackupLost ==
    /\ Continues("lost")
    /\ stored' = Nothing /\ Done
    /\ UNCHANGED <<enabled, upsets, wire>>

BackupFound ==
    /\ Continues("found")
    /\ IF starting THEN Done /\ stored' = stored
       ELSE At("adopting") /\ stored' = [stored EXCEPT !.session = step.grant]
    /\ UNCHANGED <<enabled, upsets, wire>>

\* Broken variant of AdoptBackup: the startup event is not looked at again.
AdoptBackupAnyway ==
    /\ Continues("adopting")
    /\ At("priming") /\ enabled' = step.grant /\ SendAccess(TRUE)
    /\ UNCHANGED <<stored, upsets>>

AdoptBackup ==
    /\ Continues("adopting")
    /\ IF starting THEN Done /\ UNCHANGED <<enabled, wire>>
       ELSE At("priming") /\ enabled' = step.grant /\ SendAccess(TRUE)
    /\ UNCHANGED <<stored, upsets>>

Primed ==
    /\ Continues("priming")
    /\ Done
    /\ UNCHANGED <<enabled, stored, upsets, wire>>

\* The browser's start: the old window is cleaned, whatever comes of it.
Swept ==
    /\ Continues("sweeping")
    /\ IF ~step.held THEN Done
       ELSE At("releasing")
    /\ UNCHANGED <<enabled, stored, upsets, wire>>

-----------------------------------------------------------------------------
(* The check for a window that is gone *)

Checks(pc) ==
    /\ check.at = pc
    /\ UNCHANGED <<native, ui, seen, queue, step, starting, windows, closing, events, run,
                   clock, inputs, restarts>>

\* A request, a status read: Chrome is asked for the enabled window.
BeginCheck ==
    /\ Checks("idle") /\ enabled # NoGrant
    /\ check' = [at |-> "asking", win |-> enabled.win, gone |-> enabled.win \notin windows]
    /\ UNCHANGED <<enabled, stored, wire, upsets, crossed>>

\* An error that does not say so: ask again, about the window enabled by then.
AskAgain ==
    /\ Checks("asking") /\ Upset
    /\ check' = IF enabled = NoGrant THEN NoCheck
                ELSE [at |-> "asking", win |-> enabled.win, gone |-> enabled.win \notin windows]
    /\ UNCHANGED <<enabled, stored, wire, crossed>>

\* The answer. It ends the grant of the window enabled by now, whichever was
\* asked about; with none left the check throws.
Answered ==
    /\ Checks("asking")
    /\ IF check.gone /\ enabled # NoGrant
       THEN /\ enabled' = NoGrant /\ stored' = Nothing
            /\ check' = [NoCheck EXCEPT !.at = "clearing"]
            /\ crossed' = (crossed \/ enabled.win # check.win
                           \/ step.op \in {"enable", "title", "restore", "update"})
       ELSE check' = NoCheck /\ UNCHANGED <<enabled, stored, crossed>>
    /\ UNCHANGED <<wire, upsets>>

TellGone ==
    /\ Checks("clearing")
    /\ check' = [check EXCEPT !.at = "releasing"]
    /\ UNCHANGED <<enabled, stored, upsets, crossed>> /\ SendAccess(FALSE)

GoneReleased ==
    /\ Checks("releasing")
    /\ check' = NoCheck
    /\ UNCHANGED <<enabled, stored, wire, upsets, crossed>>

-----------------------------------------------------------------------------
(* Ends of the worker: its memory goes, with its port *)

NewWorker ==
    /\ Restart
    /\ enabled' = NoGrant /\ step' = Idle /\ check' = NoCheck /\ starting' = FALSE
    /\ queue' = <<[op |-> "restore", win |-> NoWindow, grant |-> NoGrant]>>
    /\ native' = ConnectNative(NativeStart(native.alarm))
    /\ ui' = FALSE /\ wire' = <<>> /\ seen' = Silent /\ crossed' = FALSE
    /\ UNCHANGED <<upsets, clock, inputs>>

WorkerRestarts ==
    NewWorker /\ UNCHANGED <<stored, windows, closing, events, run>>

ExtensionUpdates ==
    /\ NewWorker
    /\ stored' = [stored EXCEPT !.session = NoGrant]
    /\ events' = events \union {"update"}
    /\ UNCHANGED <<windows, closing, run>>

\* A new run gives its windows the ids of the old ones; an update that waited
\* for it is installed then.
BrowserRestarts ==
    /\ NewWorker
    /\ stored' = [stored EXCEPT !.session = NoGrant]
    /\ \E installs \in BOOLEAN : events' = {"startup"} \union (IF installs THEN {"update"} ELSE {})
    /\ windows' = Window /\ closing' = {} /\ run' = run + 1

-----------------------------------------------------------------------------
\* A worker starts, in a profile with or without a grant of this browser run.
Init ==
    /\ NativeInit
    /\ \E g \in [win : Window, at : {1}, run : {0}] \union {NoGrant} :
          stored = Copies(g)
    /\ enabled = NoGrant
    /\ queue = <<[op |-> "restore", win |-> NoWindow, grant |-> NoGrant]>>
    /\ step = Idle /\ check = NoCheck /\ starting = FALSE
    /\ windows = Window /\ closing = {} /\ events = {} /\ run = 0 /\ clock = 1
    /\ inputs = 0 /\ restarts = 0 /\ crossed = FALSE

Transition ==
    \/ StartEnable \/ StartDisable \/ StartTitle \/ StartRemoved \/ StartRestore
    \/ StartUpdate \/ StartStartup \/ TellCleared \/ Released \/ ReleaseFails \/ Granted
    \/ Announce \/ TellTitle \/ Restore \/ Restored \/ ReadBackup \/ BackupLost \/ BackupFound
    \/ AdoptBackup \/ Primed \/ Swept

Check == BeginCheck \/ AskAgain \/ Answered \/ TellGone \/ GoneReleased

Connection ==
    /\ \/ Stable(enabled) \/ (\E missing \in BOOLEAN : PortLost(missing)) \/ RetryTimer
       \/ SetupAlarm \/ OpenUi \/ CloseUi \/ ConnectThrows \/ DaemonHears
    /\ UNCHANGED sessionVars

Next ==
    \/ \E w \in Window : (\E on \in BOOLEAN : Toggle(w, on)) \/ CloseWindow(w) \/ WindowRemoved(w)
    \/ RevokeSeen \/ TitleChanges \/ OnStartup \/ OnInstalled \/ Transition \/ Check
    \/ WorkerRestarts \/ ExtensionUpdates \/ BrowserRestarts \/ Connection

Spec == Init /\ [][Next]_vars

-----------------------------------------------------------------------------
(* Properties *)

Grant == [win : Window, at : 1..clock, run : 0..run]
Settled == queue = <<>> /\ step = Idle

\* Types of the state of the controller and of the connection; a transition's
\* wait is one of those its kind can be in, and grants carry distinct times.
SessionTypeOK ==
    /\ NativeTypeOK
    /\ {enabled, stored.session, stored.local} \subseteq Grant \union {NoGrant}
    /\ windows \subseteq Window /\ closing \subseteq Window \ windows
    /\ events \subseteq {"startup", "update"}
    /\ step.at \in {"releasing"} => step.op \in {"enable", "disable", "revoke", "startup"}
    /\ step.at \in {"injecting", "announcing"} => step.op = "enable" /\ step.grant.at <= clock

\* What the next worker would restore is the grant there is: both copies equal
\* it while there is one, and once the transitions have run the session's copy
\* is empty when there is none (PRIVACY.md:84). A revoked grant kept in
\* storage, or one lost by a restart, would break it.
RestartKeepsGrant ==
    /\ enabled # NoGrant => stored = Copies(enabled)
    /\ Settled => stored.session = enabled

\* After the browser's start was noticed no transition, whenever it began to
\* read, brings back a grant of an earlier run (background-window-session.ts:156).
OldGrantNeverReturns ==
    [][starting /\ enabled' \notin {enabled, NoGrant} => enabled'.run = run]_vars

\* A browser without a connection to its host has a retry due: the timer, or
\* the alarm while the host is missing and no surface is open.
RetryDue == NoPort => native.timer \/ native.alarm

\* With the port up and nothing under way the daemon knows the grant there is,
\* whatever was lost with earlier ports and however far a transition was when
\* the port became stable - unless a check for a window that is gone crossed a
\* transition that grants or tells a grant, or took another window's grant.
AccessAgrees ==
    Settled /\ check = NoCheck /\ native.port = "stable" /\ wire = <<>> /\ ~crossed
        => seen = [on |-> enabled # NoGrant, grant |-> enabled]

\* The worker's memory, its storage and the daemon agree on the one grant
\* (background-window-session.ts:111-417, background-native.ts:545-635).
GrantAgrees == SessionTypeOK /\ RestartKeepsGrant /\ AccessAgrees
=============================================================================
