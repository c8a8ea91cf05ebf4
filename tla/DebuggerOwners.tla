--------------------------- MODULE DebuggerOwners ---------------------------
(***************************************************************************)
(* Who uses one tab's debugger: requests that run one command, the answer   *)
(* to a dialog, the domains that hold the session (emulation, interception, *)
(* network capture), Chrome taking the session away, and the cleanup of a   *)
(* tab that leaves the enabled window.                                      *)
(*                                                                         *)
(* The service worker has one thread: what follows from one event runs to   *)
(* its end (Drained) before the next event is looked at.                    *)
(***************************************************************************)
EXTENDS Integers, FiniteSets, Sequences

-----------------------------------------------------------------------------
(***************************************************************************)
(* TabDebuggerCoordinator (extension/src/debugger-coordinator.ts) for one    *)
(* tab, as functions from its state to the next one.  Calls take turns on    *)
(* the queue; page.handle_dialog has a lane of its own, for which the queue  *)
(* waits between the stages of a call.                                       *)
(*                                                                         *)
(* A function returns the new state and what the call in turn was told:      *)
(* "pending" while it goes on.                                               *)
(***************************************************************************)

CONSTANT Retrying   \* callers of run() that pass retryDetached

Call(kind, who, generation) == [kind |-> kind, who |-> who, generation |-> generation]

\* session: Chrome has our debugger attached to the tab.
\* timer: the burst timer, "set", or "fired" when its turn is queued.
\* stage, again: how far the call in turn is, and whether it is retried.
\* dialog: an open dialog has been observed.
\* dialogStage, burst: the same for the dialog call in turn, and its hadBurst.
Unused == [session |-> FALSE, attached |-> FALSE, holds |-> 0, timer |-> "none",
           generation |-> 0, dialog |-> FALSE,
           queue |-> <<>>, stage |-> "waiting", again |-> FALSE,
           lane |-> <<>>, dialogStage |-> "waiting", burst |-> FALSE]

First(t) == Head(t.queue)
Current(t, call) == call.generation = t.generation
Retries(t) == First(t).who \in Retrying /\ ~t.again

Goes(t) == [tab |-> t, told |-> "pending"]
Ends(t, told) ==
    [tab |-> [t EXCEPT !.queue = Tail(@), !.stage = "waiting", !.again = FALSE], told |-> told]

\* _consumeBurstTimer, or clearTimeout: a turn the timer has queued is spent.
Consumed(t) ==
    [t EXCEPT !.timer = "none",
              !.queue = [i \in DOMAIN @ |-> IF @[i].kind = "idle" THEN [@[i] EXCEPT !.kind = "spent"]
                                            ELSE @[i]]]

\* _resetBurstTimer; how long it runs is left out.
Rearmed(t) == [Consumed(t) EXCEPT !.timer = "set"]

\* markDetached
MarkedDetached(t) == [Consumed(t) EXCEPT !.holds = 0, !.attached = FALSE, !.dialog = FALSE]

\* _runTrackedTask: the generations with a task under way.
InFlight(t) ==
    {g \in 0..t.generation :
        \/ t.queue # <<>> /\ t.stage \in {"initializing", "working"} /\ First(t).generation = g
        \/ t.lane # <<>> /\ t.dialogStage = "working" /\ Head(t.lane).generation = g}

\* _assertCanStartWork
CanStart(t, barred) == ~barred /\ InFlight(t) \subseteq {t.generation}

-----------------------------------------------------------------------------
(* A call's turn: run, acquire, release and the callback of the timer.        *)

\* run, up to the first thing it waits for.
RunBegun(t) ==
    Goes([Consumed(t) EXCEPT !.stage = IF t.holds = 0 /\ ~t.attached THEN "attaching" ELSE "working"])

\* acquire; the initialize it is given does nothing.
AcquireBegun(t) ==
    CASE t.holds > 0 -> Ends([t EXCEPT !.holds = @ + 1], "ok")
      [] t.holds = 0 /\ t.attached -> Ends([Consumed(t) EXCEPT !.holds = 1], "ok")
      [] OTHER -> Goes([t EXCEPT !.stage = "attaching"])

\* release; the cleanup it is given does nothing.
ReleaseBegun(t) ==
    CASE t.holds = 0 -> Ends(t, "ok")
      [] t.holds = 1 -> Goes([t EXCEPT !.holds = 0, !.stage = "detaching"])
      [] OTHER -> Ends([t EXCEPT !.holds = @ - 1], "ok")

\* The burst timer's callback.
IdleBegun(t) ==
    CASE t.holds > 0 -> Ends([t EXCEPT !.timer = "none"], "ok")
      [] t.holds = 0 /\ t.dialog -> Ends(Rearmed(t), "ok")
      [] OTHER -> Goes([t EXCEPT !.timer = "none", !.stage = "detaching"])

\* runExclusive: the call's turn has come, and the dialog lane is free.
Begun(t) ==
    LET kind == First(t).kind
    IN  CASE kind = "spent" -> Ends(t, "ok")
          [] kind = "idle" -> IdleBegun(t)
          [] kind \in {"run", "acquire", "release"} /\ ~Current(t, First(t)) -> Ends(t, "canceled")
          [] kind = "run" /\ Current(t, First(t)) -> RunBegun(t)
          [] kind = "acquire" /\ Current(t, First(t)) -> AcquireBegun(t)
          [] OTHER -> ReleaseBegun(t)

\* Broken variant of AttachSettled: the generation is not looked at again.
AttachAnyway(t, ok) ==
    IF ok THEN Goes([t EXCEPT !.session = TRUE, !.attached = TRUE, !.stage = "initializing"])
    ELSE Ends(t, "failed")

\* _attach: chrome.debugger.attach settles.  A discard that waits for it takes
\* the session back at once.
AttachSettled(t, ok) ==
    CASE ~Current(t, First(t)) -> Ends(t, "canceled")
      [] ok /\ Current(t, First(t)) ->
             Goes([t EXCEPT !.session = TRUE, !.attached = TRUE, !.stage = "initializing"])
      [] OTHER -> Ends(t, "failed")

\* _attach: Page.enable settles.
InitSettled(t, outcome) ==
    CASE ~Current(t, First(t)) -> Ends([t EXCEPT !.attached = FALSE], "canceled")
      [] outcome = "ok" /\ Current(t, First(t)) -> Goes([t EXCEPT !.stage = "initialized"])
      [] OTHER -> Goes([MarkedDetached(t) EXCEPT
                           !.stage = IF outcome = "detached" THEN "undoing lost" ELSE "undoing"])

\* _attach: the detach after a failed Page.enable settles.
Undone(t) ==
    LET off == [t EXCEPT !.session = FALSE]
    IN  IF Current(t, First(t)) /\ t.stage = "undoing lost" /\ Retries(t)
        THEN Goes([off EXCEPT !.stage = "attaching", !.again = TRUE])
        ELSE Ends(off, "failed")

\* _attach has returned; the lane is free.
Initialized(t) ==
    CASE ~Current(t, First(t)) -> Ends([t EXCEPT !.attached = FALSE], "canceled")
      [] Current(t, First(t)) /\ First(t).kind = "run" -> Goes([t EXCEPT !.stage = "working"])
      [] OTHER -> Ends([t EXCEPT !.holds = 1], "ok")

\* The end of run: nobody holds the session, so the timer does.
Retained(t) == IF t.holds = 0 /\ t.attached THEN Rearmed(t) ELSE t

\* run: the task settles.
WorkSettled(t, outcome) ==
    CASE ~Current(t, First(t)) -> Ends(t, "canceled")
      [] Current(t, First(t)) /\ outcome = "ok" -> Goes([t EXCEPT !.stage = "worked"])
      [] Current(t, First(t)) /\ outcome = "detached" /\ Retries(t) ->
             Goes([MarkedDetached(t) EXCEPT !.stage = "attaching", !.again = TRUE])
      [] Current(t, First(t)) /\ outcome = "detached" /\ ~t.again /\ ~Retries(t) ->
             Ends(MarkedDetached(t), "failed")
      [] OTHER -> Ends(Retained(t), "failed")

\* run: the task has settled and the lane is free.
Worked(t) ==
    IF Current(t, First(t)) THEN Ends(Retained(t), "ok") ELSE Ends(t, "canceled")

\* release, and the timer's callback: chrome.debugger.detach settles.
DetachSettled(t) ==
    Ends([MarkedDetached(t) EXCEPT !.session = FALSE], IF t.session THEN "ok" ELSE "failed")

-----------------------------------------------------------------------------
(* runForDialog in its lane. *)

TakesLane(t) == t.attached /\ (t.dialog \/ t.queue # <<>>)

DialogOver(t) == [t EXCEPT !.lane = Tail(@), !.dialogStage = "waiting", !.burst = FALSE]

DialogBegun(t) ==
    IF Current(t, Head(t.lane)) /\ t.attached
    THEN [Consumed(t) EXCEPT !.burst = t.timer # "none", !.dialogStage = "working"]
    ELSE DialogOver(t)

\* Broken variant of DialogSettled: the timer it consumed is not set again.
DialogSettledForGood(t, outcome) ==
    DialogOver(IF Current(t, Head(t.lane)) /\ outcome = "detached" THEN MarkedDetached(t) ELSE t)

DialogSettled(t, outcome) ==
    LET mine == Current(t, Head(t.lane))
        left == IF mine /\ outcome = "detached" THEN MarkedDetached(t) ELSE t
        again == t.burst /\ mine /\ left.attached /\ left.holds = 0 /\ left.queue = <<>>
    IN  DialogOver(IF again THEN Rearmed(left) ELSE left)

-----------------------------------------------------------------------------
\* discard, up to the detach it issues or waits to issue.
Discarded(t) == [MarkedDetached(t) EXCEPT !.generation = @ + 1]
MustDetach(t) == t.attached \/ (t.queue # <<>> /\ t.stage = "attaching")

-----------------------------------------------------------------------------
(* The tab, its users and Chrome *)

CONSTANTS
    Callers,      \* requests that call run(), once each
    Answerers,    \* page.handle_dialog requests, once each
    Owners,       \* the holding domains
    MaxDetaches,  \* bound: how often Chrome takes the session away
    MaxCleanups,  \* bound: how often the tab is cleaned up
    MaxDialogs,   \* bound: how often a dialog opens
    MaxHolds      \* bound: holds beyond which no domain starts

\* The owners in the order a cleanup comes to them.
ClearingOrder ==
    LET Kept(o) == IF o \in Owners THEN <<o>> ELSE <<>>
    IN  Kept("emulation") \o Kept("intercept") \o Kept("capture")

ASSUME OwnersAssumption ==
    /\ Owners \subseteq {"emulation", "intercept", "capture"}
    /\ (Callers \union Answerers) \cap Owners = {}
    /\ MaxCleanups \in Nat /\ MaxHolds \in Nat

VARIABLES
    tab,       \* the coordinator, for this tab
    barrier,   \* cleanup: "off", "discarding" the session, "clearing" the owners
    toClear,   \* owners a cleanup has not come to
    own,       \* the owner's record of itself: "none", "starting" or "owned"
    op,        \* what its lifecycle queue waits for: "none", "acquire" or "release"
    called,    \* requests made so far
    prompt,    \* the page shows a dialog, known to the coordinator or not
    detaches, cleanups, dialogs

vars == <<tab, barrier, toClear, own, op, called, prompt, detaches, cleanups, dialogs>>

Init ==
    /\ tab = Unused
    /\ barrier = "off" /\ toClear = <<>>
    /\ own = [o \in Owners |-> "none"] /\ op = [o \in Owners |-> "none"]
    /\ called = {} /\ prompt = FALSE
    /\ detaches = 0 /\ cleanups = 0 /\ dialogs = 0

\* Nothing is left to do before the next event.
Drained ==
    /\ tab.lane = <<>> => tab.queue = <<>> \/ tab.stage \notin {"waiting", "initialized", "worked"}
    /\ tab.lane # <<>> => tab.dialogStage = "working"

\* The owner whose acquire or release has settled.  A domain that was told of a
\* detach meanwhile has forgotten itself, and throws without a release.
Heard(o, told) ==
    CASE op[o] = "acquire" /\ own[o] = "starting" -> IF told = "ok" THEN "owned" ELSE "none"
      [] op[o] = "release" /\ (told = "ok" \/ o = "intercept") -> "none"
      [] OTHER -> own[o]

\* The call in turn comes to r.
Turn(r) ==
    LET who == First(tab).who
    IN  /\ tab' = r.tab
        /\ IF r.told # "pending" /\ who \in Owners
           THEN own' = [own EXCEPT ![who] = Heard(who, r.told)] /\ op' = [op EXCEPT ![who] = "none"]
           ELSE UNCHANGED <<own, op>>
        /\ UNCHANGED <<barrier, toClear, called, prompt, detaches, cleanups, dialogs>>

Queued(kind, who) == [tab EXCEPT !.queue = Append(@, Call(kind, who, tab.generation))]

-----------------------------------------------------------------------------
(* Calls. *)

CallRun(c) ==
    /\ Drained /\ c \in Callers \ called /\ CanStart(tab, barrier # "off")
    /\ called' = called \union {c}
    /\ tab' = Queued("run", c)
    /\ UNCHANGED <<barrier, toClear, own, op, prompt, detaches, cleanups, dialogs>>

CallDialog(c) ==
    /\ Drained /\ c \in Answerers \ called /\ CanStart(tab, barrier # "off")
    /\ called' = called \union {c}
    /\ tab' = IF TakesLane(tab)
              THEN [tab EXCEPT !.lane = Append(@, Call("dialog", c, tab.generation))]
              ELSE Queued("run", c)
    /\ UNCHANGED <<barrier, toClear, own, op, prompt, detaches, cleanups, dialogs>>

\* apply, addRule or start of a domain that is not in use, up to its acquire.
\* A command that fails after the acquire is followed by what Stop does.
Start(o) ==
    /\ Drained /\ own[o] = "none" /\ op[o] = "none" /\ CanStart(tab, barrier # "off")
    /\ tab.holds < MaxHolds
    /\ own' = [own EXCEPT ![o] = "starting"] /\ op' = [op EXCEPT ![o] = "acquire"]
    /\ tab' = Queued("acquire", o)
    /\ UNCHANGED <<barrier, toClear, called, prompt, detaches, cleanups, dialogs>>

\* reset, the last rule's removal, or stop: the domain's own command, then release.
\* Without a session the command fails: interception forgets its rules, the
\* others stay as they are.
Stop(o) ==
    /\ Drained /\ own[o] = "owned" /\ op[o] = "none"
    /\ \/ /\ tab.session /\ (tab.holds > 0 \/ tab.attached)
          /\ tab' = Queued("release", o)
          /\ op' = [op EXCEPT ![o] = "release"]
          /\ UNCHANGED own
       \/ /\ IF tab.session THEN tab.holds = 0 /\ ~tab.attached ELSE o = "intercept"
          /\ own' = [own EXCEPT ![o] = "none"]
          /\ UNCHANGED <<tab, op>>
    /\ UNCHANGED <<barrier, toClear, called, prompt, detaches, cleanups, dialogs>>

-----------------------------------------------------------------------------
(* What follows an event before the next one. *)

Begin ==
    /\ tab.queue # <<>> /\ tab.stage = "waiting" /\ tab.lane = <<>>
    /\ Turn(Begun(tab))

GoOn ==
    /\ tab.queue # <<>> /\ tab.lane = <<>>
    /\ \/ tab.stage = "initialized" /\ Turn(Initialized(tab))
       \/ tab.stage = "worked" /\ Turn(Worked(tab))

BeginDialog ==
    /\ tab.lane # <<>> /\ tab.dialogStage = "waiting"
    /\ tab' = DialogBegun(tab)
    /\ UNCHANGED <<barrier, toClear, own, op, called, prompt, detaches, cleanups, dialogs>>

-----------------------------------------------------------------------------
(* Chrome's answers. *)

At(stage) == Drained /\ tab.queue # <<>> /\ tab.stage = stage

AttachSettles == At("attaching") /\ \E ok \in BOOLEAN : Turn(AttachSettled(tab, ok))

InitSettles ==
    /\ At("initializing")
    /\ \E outcome \in IF tab.session THEN {"ok", "failed"} ELSE {"detached"} :
          Turn(InitSettled(tab, outcome))

Undo == (At("undoing") \/ At("undoing lost")) /\ Turn(Undone(tab))

WorkSettles ==
    /\ At("working")
    /\ \E outcome \in IF tab.session THEN {"ok", "failed"} ELSE {"detached"} :
          Turn(WorkSettled(tab, outcome))

DetachSettles == At("detaching") /\ Turn(DetachSettled(tab))

DialogSettles ==
    /\ Drained /\ tab.lane # <<>> /\ tab.dialogStage = "working"
    /\ \E outcome \in IF tab.session THEN {"ok", "failed"} ELSE {"detached"} :
          tab' = DialogSettled(tab, outcome)
    /\ UNCHANGED <<barrier, toClear, own, op, called, prompt, detaches, cleanups, dialogs>>

\* The burst timer runs out: its callback queues for its turn.
TimerFires ==
    /\ Drained /\ tab.timer = "set"
    /\ tab' = [Queued("idle", "timer") EXCEPT !.timer = "fired"]
    /\ UNCHANGED <<barrier, toClear, own, op, called, prompt, detaches, cleanups, dialogs>>

DialogOpens ==
    /\ Drained /\ ~prompt /\ dialogs < MaxDialogs
    /\ prompt' = TRUE /\ dialogs' = dialogs + 1
    /\ UNCHANGED <<tab, barrier, toClear, own, op, called, detaches, cleanups>>

\* Page.javascriptDialogOpening, as it happens or after Page.enable.
DialogSeen ==
    /\ Drained /\ prompt /\ tab.session /\ tab.attached /\ ~tab.dialog
    /\ tab' = [tab EXCEPT !.dialog = TRUE]
    /\ UNCHANGED <<barrier, toClear, own, op, called, prompt, detaches, cleanups, dialogs>>

\* Page.javascriptDialogClosed, if there is a session to hear it.
DialogCloses ==
    /\ Drained /\ prompt
    /\ prompt' = FALSE /\ tab' = [tab EXCEPT !.dialog = FALSE]
    /\ UNCHANGED <<barrier, toClear, own, op, called, detaches, cleanups, dialogs>>

\* onDetach: the user dismisses the bar, or another debugger takes the tab.
ExternalDetach ==
    /\ Drained /\ tab.session /\ detaches < MaxDetaches
    /\ detaches' = detaches + 1
    /\ tab' = [MarkedDetached(tab) EXCEPT !.session = FALSE]
    /\ own' = [o \in Owners |-> "none"]
    /\ UNCHANGED <<barrier, toClear, op, called, prompt, cleanups, dialogs>>

-----------------------------------------------------------------------------
(* Cleanup of the tab: clearTabBridgeState. *)

Cleared(t, s) == IF MustDetach(t) THEN "discarding" ELSE s

BeginCleanup ==
    /\ Drained /\ barrier = "off" /\ cleanups < MaxCleanups
    /\ cleanups' = cleanups + 1
    /\ tab' = Discarded(tab)
    /\ barrier' = Cleared(tab, "clearing")
    /\ toClear' = ClearingOrder
    /\ UNCHANGED <<own, op, called, prompt, detaches, dialogs>>

\* The detach of discard settles.
DiscardSettles ==
    /\ Drained /\ barrier = "discarding"
    /\ tab.queue # <<>> => tab.stage # "attaching"
    /\ tab' = [tab EXCEPT !.session = FALSE]
    /\ barrier' = "clearing"
    /\ UNCHANGED <<toClear, own, op, called, prompt, detaches, cleanups, dialogs>>

\* The next domain's clear, when its lifecycle queue is free.  Its command finds
\* no session: interception and capture forget, emulation keeps its overrides.
ClearOwner ==
    /\ Drained /\ barrier = "clearing" /\ toClear # <<>>
    /\ op[Head(toClear)] = "none"
    /\ own' = [own EXCEPT ![Head(toClear)] = IF Head(toClear) = "emulation" THEN @ ELSE "none"]
    /\ toClear' = Tail(toClear)
    /\ UNCHANGED <<tab, barrier, op, called, prompt, detaches, cleanups, dialogs>>

EndCleanup ==
    /\ Drained /\ barrier = "clearing" /\ toClear = <<>>
    /\ barrier' = "off"
    /\ UNCHANGED <<tab, toClear, own, op, called, prompt, detaches, cleanups, dialogs>>

-----------------------------------------------------------------------------
Next ==
    \/ \E c \in Callers : CallRun(c)
    \/ \E c \in Answerers : CallDialog(c)
    \/ \E o \in Owners : Start(o) \/ Stop(o)
    \/ Begin \/ GoOn \/ BeginDialog
    \/ AttachSettles \/ InitSettles \/ Undo \/ WorkSettles \/ DetachSettles \/ DialogSettles
    \/ TimerFires \/ DialogOpens \/ DialogSeen \/ DialogCloses \/ ExternalDetach
    \/ BeginCleanup \/ DiscardSettles \/ ClearOwner \/ EndCleanup

Spec == Init /\ [][Next]_vars

\* Chrome answers, except a command that an open dialog holds up.
LiveSpec ==
    /\ Spec
    /\ WF_vars(Begin) /\ WF_vars(GoOn) /\ WF_vars(BeginDialog)
    /\ WF_vars(AttachSettles) /\ WF_vars(InitSettles) /\ WF_vars(Undo)
    /\ WF_vars(WorkSettles /\ ~(prompt /\ tab.session))
    /\ WF_vars(DetachSettles) /\ WF_vars(DialogSettles)
    /\ WF_vars(TimerFires)
    /\ WF_vars(DiscardSettles) /\ WF_vars(ClearOwner) /\ WF_vars(EndCleanup)

-----------------------------------------------------------------------------
(* Types and correctness. *)

CallType ==
    [kind : {"run", "acquire", "release", "idle", "spent", "dialog"},
     who : Callers \union Answerers \union Owners \union {"timer"}, generation : 0..MaxCleanups]

\* The coordinator's state and the owners' have their types.
DebuggerTypeOK ==
    /\ tab.session \in BOOLEAN /\ tab.attached \in BOOLEAN /\ tab.dialog \in BOOLEAN
    /\ tab.holds \in 0..MaxHolds + Cardinality(Owners) /\ tab.timer \in {"none", "set", "fired"}
    /\ tab.generation \in 0..MaxCleanups
    /\ tab.queue \in Seq(CallType) /\ tab.lane \in Seq(CallType)
    /\ tab.stage \in {"waiting", "attaching", "initializing", "initialized", "undoing",
                      "undoing lost", "working", "worked", "detaching"}
    /\ barrier \in {"off", "discarding", "clearing"}
    /\ own \in [Owners -> {"none", "starting", "owned"}]
    /\ op \in [Owners -> {"none", "acquire", "release"}]

\* A command of a canceled generation that still runs has no new session to act
\* on (the promise of _runTrackedTask's comment).
StaleTaskHasNoSession == (\E g \in InFlight(tab) : g # tab.generation) => ~tab.attached

\* When a cleanup ends nothing of it is left: no session (the detach that undoes
\* a failed attach may still be under way), no hold, no call that could take one.
CleanSweep ==
    [][barrier # "off" /\ barrier' = "off" =>
          /\ tab.session => At("undoing") \/ At("undoing lost")
          /\ ~tab.attached /\ tab.holds = 0
          /\ \A i \in DOMAIN tab.queue : tab.queue[i].generation # tab.generation
          /\ \A o \in Owners \ {"emulation"} : own[o] = "none"]_vars

\* A cleanup ends, whatever dialog holds up a command.
CleanupEnds == barrier # "off" ~> barrier = "off"

\* If Chrome leaves the session to us, no domain wants it any more and no dialog
\* is open, it is given back.
LetGo ==
    [](detaches = 0)
    /\ <>[]((\A o \in Owners : own[o] = "none" /\ op[o] = "none") /\ ~prompt)
    => <>[]~tab.session

\* The tab is never left to what was canceled: not to a stale command while it
\* runs, not to a domain after a cleanup (debugger-coordinator.ts:522-745).
CanceledWorkOut == [](DebuggerTypeOK /\ StaleTaskHasNoSession) /\ CleanSweep

\* Neither a dialog nor a forgotten session keeps the tab (debugger-coordinator.ts:
\* 296-362, 522-546, 650-683).
TabFreed == CleanupEnds /\ LetGo
=============================================================================
