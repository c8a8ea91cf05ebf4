------------------------------ MODULE NativeInput ------------------------------
(* Input through the debugger (background-input.ts): each method is a script   *)
(* of messages to the page and of commands to Chrome, run in the tab's         *)
(* debugger queue while the caller may be canceled, access taken away, a       *)
(* dialog opened or the session lost. What was pressed has to be let go.       *)
EXTENDS Naturals, SequencesExt

CONSTANTS
    Gesture,      \* the calls, once each
    MaxMishaps    \* failed messages and commands, dialogs and lost sessions

VARIABLES
    gesture,      \* handleNativeInput, one per call
    inputQueue,   \* the debugger's queue
    alert,        \* a dialog is open
    inputSession, \* the debugger's session
    mishaps

inputVars == <<gesture, inputQueue, alert, inputSession, mishaps>>

Press(between) == <<"down">> \o between \o <<"up">>
Typing == {<<"look", "check">> \o Press(<<>>) \o Press(<<>>) \o <<"check", "insert", "check">>
             \o Press(<<>>) \o <<"read">>,
           <<"look", "check", "insert", "read">>}

\* click once and twice, hover, drag, touch, press_key, and type and fill
Scripts ==
    {<<"look", "move">> \o Press(<<"hold">>),
     <<"look", "move">> \o Press(<<"hold">>) \o Press(<<"hold">>),
     <<"look", "move", "hold">>,
     <<"look", "move">> \o Press(<<"look", "move">>),
     <<"look">> \o Press(<<"hold", "move">>),
     Press(<<"hold">>)} \union Typing

\* Messages are answered by the page, commands by Chrome.
Message == {"observe", "look", "check", "read", "unobserve"}
Command == {"move", "down", "up", "insert"}

NoGesture == [stage |-> "none", todo |-> <<>>, sent |-> "none", down |-> FALSE,
              observed |-> FALSE, typed |-> FALSE, barred |-> FALSE, interrupted |-> FALSE,
              unreleased |-> FALSE, excess |-> FALSE]

InputInit ==
    /\ gesture = [g \in Gesture |-> NoGesture] /\ inputQueue = <<>> /\ alert = FALSE
    /\ inputSession = FALSE /\ mishaps = 0

-----------------------------------------------------------------------------
Acting(g) == gesture[g].stage = "running" /\ gesture[g].sent = "none"
Step(g) == Head(gesture[g].todo)
Mishap == mishaps < MaxMishaps /\ mishaps' = mishaps + 1

\* What is left after an error: the release of what is down, in a finally, and
\* the end of the observation. A release is not tried twice.
Failed(r) ==
    [r EXCEPT !.sent = "none",
              !.todo = (IF r.down /\ Head(r.todo) # "up" THEN <<"up">> ELSE <<>>)
                       \o (IF r.observed THEN <<"unobserve">> ELSE <<>>)]

Becomes(g, r) == gesture' = [gesture EXCEPT ![g] = r]

\* Broken variant: releases stop at the guards like every command.
NoRelease(step) == FALSE

\* isNativeInputRelease
IsRelease(step) == step = "up"

\* assertAccess, and assertTaskActive of the debugger's queue
Barred(r) == r.barred \/ r.interrupted \/ alert

-----------------------------------------------------------------------------
(* handleNativeInput and runGuarded                                           *)

InputCalled(g) ==
    /\ gesture[g].stage = "none" /\ ~alert
    /\ \E script \in Scripts, observe \in BOOLEAN :
         Becomes(g, [NoGesture EXCEPT
           !.stage = "queued",
           !.todo = IF observe THEN <<"observe">> \o script \o <<"unobserve">> ELSE script])
    /\ inputQueue' = Append(inputQueue, g) /\ UNCHANGED <<alert, inputSession, mishaps>>

\* The queue comes to it, and has a session for it or fails. What happened while
\* it waited ends it before it starts.
GestureBegins(g) ==
    /\ gesture[g].stage = "queued" /\ Head(inputQueue) = g
    /\ \/ /\ inputSession' = TRUE /\ UNCHANGED mishaps
          /\ Becomes(g, [(IF Barred(gesture[g]) THEN Failed(gesture[g]) ELSE gesture[g])
                           EXCEPT !.stage = "running"])
       \/ /\ ~inputSession /\ Mishap /\ UNCHANGED inputSession
          /\ Becomes(g, [Failed(gesture[g]) EXCEPT !.stage = "running"])
    /\ UNCHANGED <<inputQueue, alert>>

\* sendTabMessage: not guarded. The observation only looks at the access.
SendsMessage(g) ==
    /\ Acting(g) /\ gesture[g].todo # <<>> /\ Step(g) \in Message
    /\ Becomes(g, IF Step(g) = "observe" /\ gesture[g].barred THEN Failed(gesture[g])
                  ELSE [gesture[g] EXCEPT !.sent = Step(g)])
    /\ UNCHANGED <<inputQueue, alert, inputSession, mishaps>>

\* sendCommand: behind the guards, but for releases.
SendsCommand(g) ==
    /\ Acting(g) /\ gesture[g].todo # <<>> /\ Step(g) \in Command
    /\ Becomes(g, IF Barred(gesture[g]) /\ ~IsRelease(Step(g)) THEN Failed(gesture[g])
                  ELSE [gesture[g] EXCEPT
                          !.sent = Step(g),
                          !.excess = @ \/ (Step(g) # "up" /\ (gesture[g].interrupted \/ gesture[g].barred))])
    /\ UNCHANGED <<inputQueue, alert, inputSession, mishaps>>

Holds(g) ==
    /\ Acting(g) /\ gesture[g].todo # <<>> /\ Step(g) = "hold"
    /\ Becomes(g, [gesture[g] EXCEPT !.todo = Tail(@)])
    /\ UNCHANGED <<inputQueue, alert, inputSession, mishaps>>

\* An open dialog holds back what the page and Chrome answer.
Answered(g, step) == gesture[g].stage = "running" /\ gesture[g].sent = step /\ ~alert

Done(r) == [r EXCEPT !.sent = "none", !.todo = Tail(@)]

\* Without an observation, its end, the last step of all, falls away. A field that
\* changed after something was typed ends the typing, not the call.
MessageAnswered(g, step) ==
    /\ Answered(g, step)
    /\ LET r == gesture[g] IN
       \/ /\ UNCHANGED mishaps
          /\ Becomes(g, CASE step = "observe" -> IF r.barred THEN Failed([r EXCEPT !.observed = TRUE])
                                                 ELSE [Done(r) EXCEPT !.observed = TRUE]
                          [] step = "unobserve" -> [Done(r) EXCEPT !.observed = FALSE]
                          [] OTHER -> Done(r))
       \/ /\ Mishap
          /\ Becomes(g, CASE step = "observe" -> [Done(r) EXCEPT !.todo = Front(@)]
                          [] step = "unobserve" -> [Done(r) EXCEPT !.observed = FALSE]
                          [] step \in {"check", "read"} /\ r.typed ->
                               [r EXCEPT !.sent = "none",
                                         !.todo = IF r.observed THEN <<"unobserve">> ELSE <<>>]
                          [] OTHER -> Failed(r))
    /\ UNCHANGED <<inputQueue, alert, inputSession>>

\* A command that fails has done nothing. Without a session commands fail.
CommandAnswered(g, step) ==
    /\ Answered(g, step)
    /\ LET r == gesture[g] IN
       \/ /\ inputSession /\ UNCHANGED mishaps
          /\ Becomes(g, CASE step = "down" -> [Done(r) EXCEPT !.down = TRUE]
                          [] step = "up" -> [Done(r) EXCEPT !.down = FALSE, !.typed = TRUE]
                          [] step = "insert" -> [Done(r) EXCEPT !.typed = TRUE]
                          [] OTHER -> Done(r))
       \/ /\ IF inputSession THEN Mishap ELSE UNCHANGED mishaps
          /\ Becomes(g, IF step = "up" THEN Failed([r EXCEPT !.unreleased = TRUE])
                        ELSE Failed(r))
    /\ UNCHANGED <<inputQueue, alert, inputSession>>

GestureEnds(g) ==
    /\ Acting(g) /\ gesture[g].todo = <<>>
    /\ Becomes(g, [gesture[g] EXCEPT !.stage = "over"])
    /\ inputQueue' = Tail(inputQueue) /\ UNCHANGED <<alert, inputSession, mishaps>>

-----------------------------------------------------------------------------
(* What happens meanwhile                                                     *)

Pending(g) == gesture[g].stage \in {"queued", "running"}

\* requestLifetimes' cancel and deadline, and the window's grant replaced
CallerLost(g) ==
    /\ Pending(g) /\ ~gesture[g].barred /\ Becomes(g, [gesture[g] EXCEPT !.barred = TRUE])
    /\ UNCHANGED <<inputQueue, alert, inputSession, mishaps>>

\* The guards of runGuarded: every caller is answered, its task goes on.
DialogOpens ==
    /\ ~alert /\ inputSession /\ Mishap /\ alert' = TRUE
    /\ gesture' = [g \in Gesture |->
         [gesture[g] EXCEPT !.interrupted = @ \/ Pending(g)]]
    /\ UNCHANGED <<inputQueue, inputSession>>

DialogCloses == alert /\ alert' = FALSE /\ UNCHANGED <<gesture, inputQueue, inputSession, mishaps>>

\* Chrome ends the session, a dialog with it.
InputSessionLost ==
    /\ inputSession /\ Mishap /\ inputSession' = FALSE /\ alert' = FALSE
    /\ UNCHANGED <<gesture, inputQueue>>

InputNext ==
    \/ \E g \in Gesture :
         \/ InputCalled(g) \/ GestureBegins(g) \/ SendsMessage(g) \/ SendsCommand(g) \/ Holds(g)
         \/ \E step \in Message : MessageAnswered(g, step)
         \/ \E step \in Command : CommandAnswered(g, step)
         \/ GestureEnds(g) \/ CallerLost(g)
    \/ DialogOpens \/ DialogCloses \/ InputSessionLost

InputSpec == InputInit /\ [][InputNext]_inputVars

-----------------------------------------------------------------------------
(* Whatever cuts a gesture off - a cancel, a revoked grant, a dialog, a failed *)
(* message - it ends with nothing pressed, unless the release itself failed,   *)
(* and with its observation ended; once it was cut off nothing but releases is *)
(* sent; and no two gestures press at once (background-input.ts).              *)
InputLetsGo ==
    \A g \in Gesture :
        /\ gesture[g].stage = "over" =>
               (gesture[g].down => gesture[g].unreleased) /\ ~gesture[g].observed
        /\ ~gesture[g].excess
        /\ gesture[g].down /\ ~gesture[g].unreleased => Head(inputQueue) = g
=============================================================================
