---------------------------- MODULE NetworkCapture ----------------------------
(* The network capture of one tab (background-cdp-network.ts): start, clear,  *)
(* read, stop and the debugger's loss take turns in a queue, and wait in the  *)
(* middle of a turn for Chrome. Stops and losses also leave a mark at once,   *)
(* in a counter that a start compares after each wait.                        *)
EXTENDS Naturals, Sequences

CONSTANTS
    MaxTurnsQueued,  \* turns in the queue
    MaxRequests,     \* pending requests and finished ones that are kept: 400, 200
    MaxSeen,         \* requests pages make
    MaxTroubles      \* failed commands and lost sessions

VARIABLES
    cap,        \* TabCaptureState: states.get(tabId)
    turns,      \* lifecycleQueues: calls, the first of which runs
    chromeSide, \* the session: held for the capture, Network enabled in it
    told,       \* history: the last of start and stop that was called, and losses
    seen, troubles

captureVars == <<cap, turns, chromeSide, told, seen, troubles>>

NoCapture == [has |-> FALSE, armed |-> FALSE, enabled |-> FALSE, timer |-> FALSE,
              entries |-> 0, inflight |-> 0, dropped |-> 0, abandoned |-> 0]
\* createState and resetTtl.
NewCapture == [NoCapture EXCEPT !.has = TRUE, !.armed = TRUE, !.enabled = TRUE,
                                !.timer = TRUE]

CaptureInit ==
    /\ cap = NoCapture /\ turns = <<>>
    /\ chromeSide = [held |-> FALSE, enabled |-> FALSE]
    /\ told = [last |-> "none", lost |-> FALSE] /\ seen = 0 /\ troubles = 0

-----------------------------------------------------------------------------
(* runLifecycle                                                               *)

\* stopped and lost say whether stopEpochs and detachEpochs have moved since a
\* turn was called, and since it began.
Calls(kind, queued) ==
    /\ Len(turns) < MaxTurnsQueued
    /\ turns' = Append(queued, [kind |-> kind, at |-> "wait", stopped |-> FALSE, lost |-> FALSE])

Turn == Head(turns)
Runs(kind, at) == turns # <<>> /\ Turn.kind = kind /\ Turn.at = at
Goes(at) == turns' = [turns EXCEPT ![1].at = at]
Ends(left) == turns' = Tail(turns) /\ cap' = left

Trouble == troubles < MaxTroubles /\ troubles' = troubles + 1
Still == UNCHANGED <<told, seen, troubles>>

\* clearState; what it forgets is not counted any longer.
Cleared(c) == [c EXCEPT !.entries = 0, !.dropped = 0, !.abandoned = c.inflight, !.inflight = 0]

\* Broken variant: a capture that could not be stopped is not tried again.
Untimed(c) == c

\* resetTtl
Timed(c) == [c EXCEPT !.timer = TRUE]

-----------------------------------------------------------------------------
(* Calls                                                                      *)

StartCalled ==
    /\ Calls("start", turns) /\ told' = [told EXCEPT !.last = "start"]
    /\ UNCHANGED <<cap, chromeSide, seen, troubles>>

ClearCalled(kind) == Calls(kind, turns) /\ UNCHANGED <<cap, chromeSide, told, seen, troubles>>

\* stopEpochs
Stopped == [n \in DOMAIN turns |-> [turns[n] EXCEPT !.stopped = TRUE]]

StopCalled ==
    /\ Calls("stop", Stopped) /\ told' = [told EXCEPT !.last = "stop"]
    /\ UNCHANGED <<cap, chromeSide, seen, troubles>>

\* Its timer stops a capture, and tries again after a stop that failed.
TimerStops ==
    /\ cap.timer /\ Calls("stop", Stopped) /\ cap' = [cap EXCEPT !.timer = FALSE]
    /\ told' = [told EXCEPT !.last = "stop"] /\ UNCHANGED <<chromeSide, seen, troubles>>

\* handleDetach: Chrome has ended the session.
SessionLost ==
    /\ Calls("lost", [n \in DOMAIN turns |-> [turns[n] EXCEPT !.lost = turns[n].at # "wait"]])
    /\ Trouble /\ chromeSide' = [held |-> FALSE, enabled |-> FALSE]
    /\ told' = [told EXCEPT !.lost = TRUE] /\ UNCHANGED <<cap, seen>>

-----------------------------------------------------------------------------
(* Turns                                                                      *)

StartTurn ==
    /\ Runs("start", "wait")
    /\ \/ cap.armed /\ Ends(Timed(Cleared(cap))) /\ seen' = cap.inflight
       \/ /\ ~cap.armed
          /\ Goes(IF cap.has THEN "reenable" ELSE "acquire") /\ UNCHANGED <<cap, seen>>
    /\ UNCHANGED <<chromeSide, told, troubles>>

Unharmed == ~Turn.lost

\* acquireDebugger
Acquires ==
    /\ Runs("start", "acquire")
    /\ \/ /\ chromeSide' = [chromeSide EXCEPT !.held = TRUE]
          /\ IF Unharmed THEN Goes("enable") /\ UNCHANGED cap ELSE Ends(cap)
          /\ UNCHANGED troubles
       \/ Trouble /\ Ends(cap) /\ UNCHANGED chromeSide
    /\ UNCHANGED <<told, seen>>

\* A stop that was called since the start wins over it.
Armed(c) ==
    IF Turn.stopped THEN Goes("disable") /\ cap' = c ELSE Ends(c)

\* Network.enable, of a new capture
Enables ==
    /\ Runs("start", "enable")
    /\ \/ /\ chromeSide.held /\ chromeSide' = [chromeSide EXCEPT !.enabled = TRUE]
          /\ IF Unharmed THEN Armed(NewCapture) /\ seen' = 0 ELSE Ends(cap) /\ UNCHANGED seen
          /\ UNCHANGED troubles
       \/ /\ IF chromeSide.held THEN Trouble ELSE UNCHANGED troubles
          /\ IF Unharmed THEN Goes("undo") /\ UNCHANGED cap ELSE Ends(cap)
          /\ UNCHANGED <<chromeSide, seen>>
    /\ UNCHANGED told

\* The catch of start: what was acquired is released, or kept to try again.
Undoes ==
    /\ Runs("start", "undo")
    /\ \/ /\ chromeSide' = [chromeSide EXCEPT !.held = FALSE] /\ Ends(cap)
          /\ UNCHANGED <<troubles, seen>>
       \/ /\ Trouble /\ seen' = 0 /\ UNCHANGED chromeSide
          /\ Ends([NewCapture EXCEPT !.armed = FALSE, !.enabled = FALSE])
    /\ UNCHANGED told

\* enableOwnedState, of one whose stop has failed
Reenables ==
    /\ Runs("start", "reenable")
    /\ \/ /\ chromeSide.held /\ chromeSide' = [chromeSide EXCEPT !.enabled = TRUE]
          /\ IF Unharmed
             THEN /\ Armed(Timed([Cleared(cap) EXCEPT !.armed = TRUE, !.enabled = TRUE]))
                  /\ seen' = cap.inflight
             ELSE Ends(Timed(cap)) /\ UNCHANGED seen
          /\ UNCHANGED troubles
       \/ /\ IF chromeSide.held THEN Trouble ELSE UNCHANGED troubles
          /\ Ends(Timed(cap)) /\ UNCHANGED <<chromeSide, seen>>
    /\ UNCHANGED told

\* clear, and a read that clears
ClearTurn(kind) ==
    /\ Runs(kind, "wait")
    /\ IF cap.has
       THEN /\ Ends(IF kind = "clear" /\ cap.armed THEN Timed(Cleared(cap)) ELSE Cleared(cap))
            /\ seen' = cap.inflight
       ELSE Ends(cap) /\ UNCHANGED seen
    /\ UNCHANGED <<chromeSide, told, troubles>>

StopTurn ==
    /\ Runs("stop", "wait")
    /\ IF ~cap.has THEN Ends(cap) ELSE Goes(IF cap.enabled THEN "disable" ELSE "release") /\ UNCHANGED cap
    /\ UNCHANGED chromeSide /\ Still

\* stopState: Network.disable, then the debugger is released.
Stopping(at) == \E kind \in {"start", "stop"} : Runs(kind, at)

Disables ==
    /\ Stopping("disable")
    /\ \/ /\ chromeSide.held /\ chromeSide' = [chromeSide EXCEPT !.enabled = FALSE]
          /\ cap' = [cap EXCEPT !.enabled = FALSE, !.armed = FALSE, !.inflight = 0,
                                !.abandoned = @ + cap.inflight]
          /\ Goes("release") /\ UNCHANGED troubles
       \/ /\ IF chromeSide.held THEN Trouble ELSE UNCHANGED troubles
          /\ Ends(Timed([cap EXCEPT !.armed = TRUE])) /\ UNCHANGED chromeSide
    /\ UNCHANGED <<told, seen>>

Releases ==
    /\ Stopping("release")
    /\ \/ chromeSide' = [held |-> FALSE, enabled |-> FALSE] /\ Ends(NoCapture) /\ UNCHANGED troubles
       \/ Trouble /\ Ends(Timed(cap)) /\ UNCHANGED chromeSide
    /\ UNCHANGED <<told, seen>>

LostTurn == Runs("lost", "wait") /\ Ends(NoCapture) /\ UNCHANGED chromeSide /\ Still

-----------------------------------------------------------------------------
(* handleEvent                                                                *)

Listening == cap.armed /\ cap.enabled /\ chromeSide.enabled

\* addPending: when too many wait, the oldest goes.
RequestSent ==
    /\ Listening /\ seen < MaxSeen /\ seen' = seen + 1
    /\ cap' = IF cap.inflight < MaxRequests THEN [cap EXCEPT !.inflight = @ + 1]
              ELSE [cap EXCEPT !.dropped = @ + 1, !.abandoned = @ + 1]
    /\ UNCHANGED <<turns, chromeSide, told, troubles>>

\* finishRequest
RequestFinished ==
    /\ Listening /\ cap.inflight > 0
    /\ cap' = IF cap.entries < MaxRequests
              THEN [cap EXCEPT !.inflight = @ - 1, !.entries = @ + 1]
              ELSE [cap EXCEPT !.inflight = @ - 1, !.dropped = @ + 1]
    /\ UNCHANGED <<turns, chromeSide, told, seen, troubles>>

CaptureNext ==
    \/ StartCalled \/ ClearCalled("clear") \/ ClearCalled("read") \/ StopCalled \/ TimerStops
    \/ SessionLost \/ StartTurn \/ Acquires \/ Enables \/ Undoes \/ Reenables
    \/ ClearTurn("clear") \/ ClearTurn("read") \/ StopTurn \/ Disables \/ Releases \/ LostTurn
    \/ RequestSent \/ RequestFinished

CaptureSpec == CaptureInit /\ [][CaptureNext]_captureVars

-----------------------------------------------------------------------------
(* What holds when no call is under way, however the calls, the timer and the *)
(* loss of the session were ordered: an armed capture listens; a capture that *)
(* still holds anything has a timer that will stop it; without a capture      *)
(* nothing is held, unless a session was lost (DebuggerOwners shows that      *)
(* leak); and a stop wins over every start called before it, unless a command *)
(* has failed. And at any time each request seen since the last clear is      *)
(* listed, pending or counted as lost (background-cdp-network.ts).            *)
CaptureAgrees ==
    /\ turns = <<>> =>
         /\ cap.armed => Listening /\ chromeSide.held
         /\ cap.has => cap.timer
         /\ ~cap.has /\ ~told.lost => chromeSide = [held |-> FALSE, enabled |-> FALSE]
         /\ told.last = "stop" /\ troubles = 0 => ~cap.has
    /\ cap.has => seen <= cap.entries + cap.inflight + cap.dropped + cap.abandoned
=============================================================================
