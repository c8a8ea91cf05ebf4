---------------------------- MODULE AccessPrompts ----------------------------
(***************************************************************************)
(* Requests for access that the user has to confirm                        *)
(* (background-access-request.ts, the prompt window of background-ui.ts,    *)
(* the places of background-window-session.ts and background-state.ts that  *)
(* withdraw a request), with a user who opens, closes, enables and leaves   *)
(* windows at any time.                                                     *)
(***************************************************************************)
EXTENDS Naturals, FiniteSets

CONSTANTS
    BrowserWindow,   \* ids of browser windows; none is used again
    NoTarget,
    Asker,           \* requests of agents, and the ids of the prompts they open
    MaxPromptUpsets  \* stops of the worker

ASSUME PromptAssumption ==
    /\ NoTarget \notin BrowserWindow \union Asker
    /\ BrowserWindow \intersect Asker = {}

VARIABLES
    access,    \* enabledWindow, the window being enabled, requestedAccessWindowId,
               \* requestedAccessPopupWindowId
    accessAsks,      \* how far each request has come, and its target
    prompts,   \* prompt windows on the screen
    desk,      \* open windows, those with a side panel, the focus; events to deliver
    asksPast,  \* history: prompts of an earlier worker; checks that were overtaken
    promptUpsets

promptVars == <<access, accessAsks, prompts, desk, asksPast, promptUpsets>>

NoPrompt == NoTarget
FreshAccess == [on |-> NoTarget, enabling |-> NoTarget, pending |-> NoTarget, popup |-> NoPrompt]

PromptInit ==
    /\ access = FreshAccess
    /\ accessAsks = [a \in Asker |-> [at |-> "unused", target |-> NoTarget]]
    /\ prompts = {}
    /\ desk = [open |-> BrowserWindow, panels |-> {}, foreground |-> TRUE, events |-> {}]
    /\ asksPast = [orphans |-> {}, overlapped |-> FALSE, late |-> FALSE]
    /\ promptUpsets = 0

Step(a, at) == accessAsks' = [accessAsks EXCEPT ![a].at = at]

\* A request that has found no other one pending and is not finished with the prompt.
InHand(a) == accessAsks[a].at \in {"looking", "queued", "reusing", "creating"}

-----------------------------------------------------------------------------
(* Requests                                                                 *)

\* access.request, or a request that was denied because no window is enabled.
Asks(a, explicit) ==
    /\ accessAsks[a].at = "unused"
    /\ explicit \/ access.on = NoTarget
    /\ Step(a, IF explicit THEN "asked" ELSE "denied")
    /\ UNCHANGED <<access, prompts, desk, asksPast, promptUpsets>>

\* checkAccessRequestAvailability
Available == access.pending = NoTarget

\* handleAccessRequest goes on to ask the user; one in another window, or while a
\* window is enabled, is answered.
ExplicitGoesOn(w) == access.on = NoTarget /\ w # NoTarget /\ Available

\* requestEnableFromAgentSide does not look at the enabled window again.
DeniedGoesOn(w) == w # NoTarget /\ Available

\* The target is the tab named or the active one of the last focused window; w is
\* NoTarget when there is no such tab or it cannot be scripted.
Resolves(a, w) ==
    /\ accessAsks[a].at \in {"asked", "denied"} /\ w \in desk.open \union {NoTarget}
    /\ LET goesOn == IF accessAsks[a].at = "asked" THEN ExplicitGoesOn(w) ELSE DeniedGoesOn(w)
       IN  /\ accessAsks' =
                 [accessAsks EXCEPT ![a] = [at |-> IF goesOn THEN "looking" ELSE "done", target |-> w]]
           /\ asksPast' = [asksPast EXCEPT
                 !.overlapped = @ \/ (goesOn /\ \E b \in Asker \ {a} : InHand(b))]
    /\ UNCHANGED <<access, prompts, desk, promptUpsets>>

\* isBrowserForeground is false.
FindsBackground(a) ==
    /\ accessAsks[a].at = "looking" /\ ~desk.foreground
    /\ Step(a, "done")
    /\ UNCHANGED <<access, prompts, desk, asksPast, promptUpsets>>

\* queueAccessRequest; nothing is checked again.
Queues(a) ==
    LET w == accessAsks[a].target
    IN  /\ accessAsks[a].at = "looking" /\ desk.foreground
        /\ access' = [access EXCEPT !.pending = w]
        /\ asksPast' = [asksPast EXCEPT
              !.late = @ \/ w \notin desk.open \/ {access.on, access.enabling} # {NoTarget}]
        /\ Step(a, "queued")
        /\ UNCHANGED <<prompts, desk, promptUpsets>>

\* openRequestedAccessUi: an open side panel of the window is enough.
ShowsPanel(a) ==
    /\ accessAsks[a].at = "queued" /\ accessAsks[a].target \in desk.panels
    /\ Step(a, "done")
    /\ UNCHANGED <<access, prompts, desk, asksPast, promptUpsets>>

\* openRequestedAccessPopupWindow, once the placement is known.
ChoosesPrompt(a) ==
    /\ accessAsks[a].at = "queued" /\ accessAsks[a].target \notin desk.panels
    /\ Step(a, IF access.popup # NoPrompt THEN "reusing" ELSE "creating")
    /\ UNCHANGED <<access, prompts, desk, asksPast, promptUpsets>>

\* windows.get, tabs.update and windows.update of the prompt there is.
Reuses(a) ==
    /\ accessAsks[a].at = "reusing" /\ access.popup \in prompts
    /\ Step(a, "done")
    /\ UNCHANGED <<access, prompts, desk, asksPast, promptUpsets>>

\* One of the three fails: the prompt was closed.
CannotReuse(a) ==
    /\ accessAsks[a].at = "reusing" /\ access.popup \notin prompts
    /\ access' = [access EXCEPT !.popup = NoPrompt]
    /\ Step(a, "creating")
    /\ UNCHANGED <<prompts, desk, asksPast, promptUpsets>>

Creates(a) ==
    /\ accessAsks[a].at = "creating"
    /\ prompts' = prompts \union {a}
    /\ access' = [access EXCEPT !.popup = a]
    /\ Step(a, "done")
    /\ UNCHANGED <<desk, asksPast, promptUpsets>>

\* windows.create fails: the error is logged.
CannotCreate(a) ==
    /\ accessAsks[a].at = "creating"
    /\ Step(a, "done")
    /\ UNCHANGED <<access, prompts, desk, asksPast, promptUpsets>>

-----------------------------------------------------------------------------
(* The user and the events of the browser                                   *)

\* applyWindowEnabledState begins: any request is withdrawn, the scripts are injected.
SwitchedOn(w) ==
    /\ w \in desk.open /\ access.enabling = NoTarget /\ access.on # w
    /\ access' = [access EXCEPT !.enabling = w, !.on = NoTarget, !.pending = NoTarget]
    /\ UNCHANGED <<accessAsks, prompts, desk, asksPast, promptUpsets>>

GrantStored ==
    /\ access.enabling # NoTarget
    /\ access' = [access EXCEPT !.enabling = NoTarget, !.on = access.enabling]
    /\ UNCHANGED <<accessAsks, prompts, desk, asksPast, promptUpsets>>

StillPending(w) == access.pending
Withdrawn(w) == IF access.pending = w THEN NoTarget ELSE access.pending

\* The window is switched off; a window that only waits is refused this way.
SwitchedOff(w) ==
    /\ access.enabling = NoTarget /\ w \in {access.on, access.pending} \ {NoTarget}
    /\ access' = [access EXCEPT !.on = IF @ = w THEN NoTarget ELSE @, !.pending = Withdrawn(w)]
    /\ UNCHANGED <<accessAsks, prompts, desk, asksPast, promptUpsets>>

ClosesPrompt(p) ==
    /\ p \in prompts
    /\ prompts' = prompts \ {p}
    /\ desk' = [desk EXCEPT !.events = @ \union {p}]
    /\ UNCHANGED <<access, accessAsks, asksPast, promptUpsets>>

\* chrome.windows.onRemoved: clearRequestedAccessPopupWindow.
PromptGone(p) ==
    /\ p \in desk.events \intersect Asker
    /\ desk' = [desk EXCEPT !.events = @ \ {p}]
    /\ access' = [access EXCEPT !.popup = IF @ = p THEN NoPrompt ELSE @]
    /\ UNCHANGED <<accessAsks, prompts, asksPast, promptUpsets>>

ClosesWindow(w) ==
    /\ w \in desk.open
    /\ desk' = [desk EXCEPT !.open = @ \ {w}, !.panels = @ \ {w}, !.events = @ \union {w}]
    /\ UNCHANGED <<access, accessAsks, prompts, asksPast, promptUpsets>>

\* chrome.tabs.onRemoved with isWindowClosing; one being enabled is granted later.
WindowGone(w) ==
    /\ w \in desk.events \intersect BrowserWindow
    /\ desk' = [desk EXCEPT !.events = @ \ {w}]
    /\ access' = [access EXCEPT !.on = IF @ = w THEN NoTarget ELSE @, !.pending = Withdrawn(w)]
    /\ UNCHANGED <<accessAsks, prompts, asksPast, promptUpsets>>

TogglesPanel(w) ==
    /\ w \in desk.open
    /\ desk' = [desk EXCEPT !.panels = (@ \ {w}) \union ({w} \ @)]
    /\ UNCHANGED <<access, accessAsks, prompts, asksPast, promptUpsets>>

LeavesBrowser ==
    /\ desk' = [desk EXCEPT !.foreground = ~@]
    /\ UNCHANGED <<access, accessAsks, prompts, asksPast, promptUpsets>>

\* The worker stops and starts: only the grant is stored, the prompts stay.
StartsAgain ==
    /\ promptUpsets < MaxPromptUpsets /\ promptUpsets' = promptUpsets + 1
    /\ access' = [FreshAccess EXCEPT !.on = access.on]
    /\ accessAsks' = [a \in Asker |-> [accessAsks[a] EXCEPT !.at = IF @ = "unused" THEN @ ELSE "done"]]
    /\ asksPast' = [asksPast EXCEPT !.orphans = @ \union prompts]
    /\ UNCHANGED <<prompts, desk>>

PromptNext ==
    \/ \E a \in Asker :
         \/ \E explicit \in BOOLEAN : Asks(a, explicit)
         \/ \E w \in BrowserWindow \union {NoTarget} : Resolves(a, w)
         \/ FindsBackground(a) \/ Queues(a) \/ ShowsPanel(a) \/ ChoosesPrompt(a)
         \/ Reuses(a) \/ CannotReuse(a) \/ Creates(a) \/ CannotCreate(a)
         \/ ClosesPrompt(a) \/ PromptGone(a)
    \/ \E w \in BrowserWindow :
         SwitchedOn(w) \/ SwitchedOff(w) \/ ClosesWindow(w) \/ WindowGone(w) \/ TogglesPanel(w)
    \/ GrantStored \/ LeavesBrowser \/ StartsAgain

PromptSpec == PromptInit /\ [][PromptNext]_promptVars

-----------------------------------------------------------------------------
\* One prompt (background-ui.ts 304-307, 328-330), whatever the user does with it
\* and with the windows: unless a request passes its check while another one is in
\* hand, no two prompts of this worker are on the screen and it knows the one there
\* is.  Nothing waits for a window that is closed or while one is enabled (background-
\* window-session.ts 298-299, 422-424), unless that happened after the check.
PromptsKept ==
    /\ ~asksPast.overlapped =>
         \A p \in prompts \ asksPast.orphans : p = access.popup
    /\ ~asksPast.late /\ access.pending # NoTarget =>
         /\ access.pending \in desk.open \union desk.events
         /\ access.on = NoTarget /\ access.enabling = NoTarget

=============================================================================
