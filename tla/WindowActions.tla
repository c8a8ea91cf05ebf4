----------------------------- MODULE WindowActions -----------------------------
(* A browser's user focuses or revokes another browser's window: the asking   *)
(* worker (background-window-actions.ts, request) waits with a timer of its   *)
(* own; the daemon (window.go) checks the request, routes it under a fresh    *)
(* number with a timer; the other worker (apply) acts on the grant the user   *)
(* saw, if it is still the grant. Messages are a set, they may arrive in any  *)
(* order, and of access updates the last counts. What an answer says is left  *)
(* out: only that there is one.                                               *)
EXTENDS Naturals, FiniteSets, FiniteSetsExt

CONSTANTS Browser, Action,
    MaxAsking,      \* waiting in one worker, and routed for one source: 16
    MaxRouted,      \* in the daemon: 64
    MaxGrants,      \* grants made in all, the first ones included
    MaxBreaks       \* connections lost

VARIABLES
    present,    \* browsers the daemon has a connection of
    window,     \* each browser's grant, 0 for none
    granted,    \* grants it has made
    shown,      \* the grant the daemon knows of (peer.access, peer.window)
    asks,       \* pending of the asking worker, by action, and what became of it
    routed,     \* daemon.windowActions
    mail,       \* messages about actions, and access updates
    applying,   \* what the target does
    breaks,
    answers,    \* how often the daemon answered (history)
    hits        \* <<action, the grant it met>> (history)

actionVars == <<present, window, granted, shown, asks, routed, mail, applying, breaks,
                answers, hits>>

ASSUME ActionAssumption ==
    /\ MaxAsking \in Nat \ {0} /\ MaxRouted \in Nat \ {0}
    /\ MaxGrants \in Nat /\ MaxBreaks \in Nat

Unasked == [by |-> "none", target |-> "none", disable |-> FALSE, of |-> 0, at |-> "none"]

ActionsInit ==
    /\ present = Browser /\ window = [b \in Browser |-> 1]
    /\ granted = [b \in Browser |-> 1] /\ shown = [b \in Browser |-> 1]
    /\ asks = [a \in Action |-> Unasked] /\ routed = {} /\ mail = {}
    /\ applying = [a \in Action |-> "no"] /\ breaks = 0
    /\ answers = [a \in Action |-> 0] /\ hits = {}

Letter(kind, a) == [kind |-> kind, act |-> a]
Tell(b, w) == [kind |-> "access", act |-> b, grant |-> w]
Waiting(b) == {a \in Action : asks[a].by = b /\ asks[a].at = "waiting"}
Settled(some) == [a \in Action |-> IF a \in some /\ asks[a].at = "waiting"
                                   THEN [asks[a] EXCEPT !.at = "settled"] ELSE asks[a]]

-----------------------------------------------------------------------------
(* The asking worker *)

\* request: the list the user looks at may be old.
Press(a, b, t, disable) ==
    /\ asks[a].at = "none" /\ b # t
    /\ b \in present /\ Cardinality(Waiting(b)) < MaxAsking
    /\ \E of \in 1..granted[t] :
         asks' = [asks EXCEPT ![a] = [by |-> b, target |-> t, disable |-> disable,
                                      of |-> of, at |-> "waiting"]]
    /\ mail' = mail \union {Letter("request", a)}
    /\ UNCHANGED <<present, window, granted, shown, routed, applying, breaks, answers, hits>>

\* Six seconds, without an answer.
GivesUp(a) ==
    /\ asks[a].at = "waiting" /\ asks' = Settled({a})
    /\ UNCHANGED <<present, window, granted, shown, routed, mail, applying, breaks,
                   answers, hits>>

Hears(letter) ==
    /\ letter \in mail /\ letter.kind = "response" /\ mail' = mail \ {letter}
    /\ asks' = Settled({letter.act})
    /\ UNCHANGED <<present, window, granted, shown, routed, applying, breaks, answers, hits>>

-----------------------------------------------------------------------------
(* The daemon *)

\* finishWindowAction: the first to finish an action answers its source.
Finishes(some, rest) ==
    LET told == {a \in some \intersect routed : asks[a].by \in present'}
    IN  /\ routed' = routed \ some
        /\ answers' = [a \in Action |-> answers[a] + IF a \in told THEN 1 ELSE 0]
        /\ mail' = rest \union {Letter("response", a) : a \in told}

\* windowAction, a request: refused with an answer, or routed.
Admissible(a) ==
    /\ asks[a].target \in present
    /\ shown[asks[a].target] = asks[a].of
    /\ Cardinality(routed) < MaxRouted
    /\ Cardinality({r \in routed : asks[r].by = asks[a].by}) < MaxAsking

Route(letter) ==
    /\ letter \in mail /\ letter.kind = "request"
    /\ LET a == letter.act
       IN  IF Admissible(a)
           THEN /\ routed' = routed \union {a}
                /\ mail' = (mail \ {letter}) \union {Letter("command", a)}
                /\ UNCHANGED answers
           ELSE /\ mail' = (mail \ {letter}) \union {Letter("response", a)}
                /\ answers' = [answers EXCEPT ![a] = @ + 1]
                /\ UNCHANGED routed
    /\ UNCHANGED <<present, window, granted, shown, asks, applying, breaks, hits>>

\* A result counts while its action is routed; the connection it comes on is the
\* target's.
Result(letter) ==
    /\ letter \in mail /\ letter.kind = "result"
    /\ UNCHANGED present
    /\ Finishes({letter.act}, mail \ {letter})
    /\ UNCHANGED <<window, granted, shown, asks, applying, breaks, hits>>

\* Five seconds, without a result.
Expires(a) ==
    /\ a \in routed /\ UNCHANGED present /\ Finishes({a}, mail)
    /\ UNCHANGED <<window, granted, shown, asks, applying, breaks, hits>>

Update(letter) ==
    /\ letter \in mail /\ letter.kind = "access" /\ mail' = mail \ {letter}
    /\ shown' = [shown EXCEPT ![letter.act] = letter.grant]
    /\ UNCHANGED <<present, window, granted, asks, routed, applying, breaks, answers, hits>>

Touches(a, b) == asks[a].by = b \/ asks[a].target = b

\* disconnect ends the actions from and to the browser; what is under way to and
\* from it is lost. Its worker rejects what it waits for.
Breaks(b) ==
    /\ b \in present /\ breaks < MaxBreaks /\ breaks' = breaks + 1
    /\ present' = present \ {b} /\ shown' = [shown EXCEPT ![b] = 0]
    /\ Finishes({a \in Action : Touches(a, b)},
                {l \in mail : IF l.kind = "access" THEN l.act # b
                              ELSE IF l.kind \in {"request", "response"}
                              THEN asks[l.act].by # b ELSE asks[l.act].target # b})
    /\ asks' = Settled(Waiting(b))
    /\ applying' = [a \in Action |-> IF applying[a] = "yes" /\ asks[a].target = b
                                     THEN "unheard" ELSE applying[a]]
    /\ UNCHANGED <<window, granted, hits>>

-----------------------------------------------------------------------------
(* The target's worker *)

\* handleMessage, apply: the grant is compared when the command comes.
Command(letter) ==
    /\ letter \in mail /\ letter.kind = "command"
    /\ LET a == letter.act
       IN  IF window[asks[a].target] = asks[a].of
           THEN /\ applying' = [applying EXCEPT ![a] = "yes"]
                /\ mail' = mail \ {letter}
           ELSE /\ mail' = (mail \ {letter}) \union {Letter("result", a)}
                /\ UNCHANGED applying
    /\ UNCHANGED <<present, window, granted, shown, asks, routed, breaks, answers, hits>>

\* Broken variant of StillGranted: it is not compared again.
OnceGranted(a) == window[asks[a].target] # 0

StillGranted(a) == window[asks[a].target] = asks[a].of

\* It is compared once more after the waits: before the window is brought to the
\* front, and by the transition that revokes it (disableWindowAccess). The
\* result goes out on the port the command came by.
Applies(a) ==
    /\ applying[a] # "no" /\ applying' = [applying EXCEPT ![a] = "no"]
    /\ LET t == asks[a].target
           acts == StillGranted(a)
           revokes == acts /\ asks[a].disable
       IN  /\ hits' = IF acts THEN hits \union {<<a, window[t]>>} ELSE hits
           /\ window' = IF revokes THEN [window EXCEPT ![t] = 0] ELSE window
           /\ mail' = mail
                \union (IF revokes /\ t \in present THEN {Tell(t, 0)} ELSE {})
                \union (IF applying[a] = "yes" THEN {Letter("result", a)} ELSE {})
    /\ UNCHANGED <<present, granted, shown, asks, routed, breaks, answers>>

\* The target's own user.
Changes(b) ==
    /\ b \in present
    /\ \/ window[b] # 0 /\ window' = [window EXCEPT ![b] = 0] /\ UNCHANGED granted
       \/ /\ MapThenSumSet(LAMBDA t : granted[t], Browser) < MaxGrants
          /\ granted' = [granted EXCEPT ![b] = @ + 1]
          /\ window' = [window EXCEPT ![b] = granted[b] + 1]
    /\ mail' = {l \in mail : l.kind # "access" \/ l.act # b} \union {Tell(b, window'[b])}
    /\ UNCHANGED <<present, shown, asks, routed, applying, breaks, answers, hits>>

ActionsNext ==
    \/ \E a \in Action :
         \/ \E b, t \in Browser, disable \in BOOLEAN : Press(a, b, t, disable)
         \/ GivesUp(a) \/ Expires(a) \/ Applies(a)
    \/ \E letter \in mail :
         \/ Hears(letter) \/ Route(letter) \/ Result(letter) \/ Update(letter)
         \/ Command(letter)
    \/ \E b \in Browser : Breaks(b) \/ Changes(b)

ActionsSpec == ActionsInit /\ [][ActionsNext]_actionVars

-----------------------------------------------------------------------------
(* Properties. *)

UnderWay(a) == \E l \in mail : l.kind \in {"request", "response"} /\ l.act = a

\* Whichever comes first of a result, the timer and the end of a connection, the
\* daemon answers an action once, and none that waits is forgotten: it is on its
\* way in, routed, or its answer is on its way out (finishWindowAction,
\* disconnect). An action that does something meets the grant its user saw,
\* whatever was granted since (apply). What is routed has a target.
ActionsAnswered ==
    /\ \A a \in Action : answers[a] <= 1
    /\ \A a \in Action : asks[a].at = "waiting" => a \in routed \/ UnderWay(a)
    /\ \A a \in routed : {asks[a].by, asks[a].target} \subseteq present
    /\ \A hit \in hits : hit[2] = asks[hit[1]].of
=============================================================================
