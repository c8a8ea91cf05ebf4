---------------------------- MODULE SessionProofs ----------------------------
(* What holds of the window grant and of the native port for every number of  *)
(* windows, clicks, failures and restarts: a lost connection has its retry    *)
(* due, memory, storage and daemon agree on the grant, and a grant of an      *)
(* earlier browser run stays gone.                                            *)
EXTENDS WindowSession, SequenceTheorems, TLAPS

-----------------------------------------------------------------------------
(* The invariant, in five parts. *)

AnyGrant == [win : Window, at : Nat, run : Nat] \union {NoGrant}
Update == [on : BOOLEAN, grant : AnyGrant]
Asked == [op : {"enable", "disable", "revoke", "title", "removed", "restore", "update", "startup"},
          win : Window \union {NoWindow}, grant : AnyGrant]

\* The connection controller; between two actions the alarm is set exactly
\* while idleReconnectScheduled says so.
Controllers == [port : {"none", "pending", "stable"}, timer : BOOLEAN, idle : BOOLEAN,
                alarm : BOOLEAN, missing : BOOLEAN]
Sound(n) == n \in Controllers /\ n.alarm = n.idle

PortTypeOK ==
    /\ ui \in BOOLEAN /\ upsets \in 0..MaxUpsets
    /\ wire \in Seq(Update) /\ seen \in Update

\* The port: a retry is due, and nothing is on its way through a port that is
\* not stable.
PortInv ==
    /\ PortTypeOK
    /\ Sound(native)
    /\ RetryDue
    /\ native.port # "stable" => wire = <<>> /\ seen = Silent

\* Types of the grant, its copies, the transitions and the check.
StateTypeOK ==
    /\ enabled \in Grant \union {NoGrant}
    /\ stored \in [session : Grant \union {NoGrant}, local : Grant \union {NoGrant}]
    /\ queue \in Seq(Asked)
    /\ check \in [at : {"idle", "asking", "clearing", "releasing"},
                  win : Window \union {NoWindow}, gone : BOOLEAN]
    /\ step \in [at : {"idle", "clearing", "releasing", "injecting", "announcing", "telling",
                       "reading", "restored", "found", "lost", "adopting", "priming", "sweeping"},
                 op : {"none", "enable", "disable", "revoke", "title", "removed", "restore",
                       "update", "startup"},
                 grant : Grant \union {NoGrant}, held : BOOLEAN]
    /\ windows \subseteq Window /\ closing \subseteq Window \ windows
    /\ events \subseteq {"startup", "update"}
    /\ starting \in BOOLEAN /\ crossed \in BOOLEAN
    /\ run \in Nat /\ clock \in Nat \ {0}

\* The transitions that can wait at a place.
Kinds(at) ==
    CASE at = "idle" -> {"none"}
      [] at = "clearing" -> {"enable", "disable", "revoke", "removed"}
      [] at = "releasing" -> {"enable", "disable", "revoke", "startup"}
      [] at \in {"injecting", "announcing"} -> {"enable"}
      [] at = "telling" -> {"title"}
      [] at = "reading" -> {"restore", "update"}
      [] at = "restored" -> {"restore"}
      [] at \in {"found", "lost", "adopting", "priming"} -> {"update"}
      [] OTHER -> {"startup"}

\* A transition waits where its kind can, the one that grants carries a grant
\* of this browser run, and those of a window name one.
PlacesOK ==
    /\ step.op \in Kinds(step.at)
    /\ step.at = "idle" => step = Idle
    /\ step.op = "enable" => step.grant \in Grant /\ step.grant.run = run
    /\ \A i \in DOMAIN queue :
         queue[i].op \in {"enable", "disable", "revoke", "title", "removed"} => queue[i].win \in Window

\* A transition of this kind is still to start; one reads what it may adopt.
Awaited(op) == \E i \in DOMAIN queue : queue[i].op = op
Returning == step.at \in {"reading", "found", "lost", "adopting"}

\* The copies: they equal the grant there is; with none, a copy in the session
\* storage has somebody left to deal with it, the restore of a fresh worker,
\* the transition that adopts the backup, or the browser's start. A transition
\* that may bring a grant back still holds what it read, and once the browser's
\* start was noticed the transition that revokes follows it.
StorageOK ==
    /\ enabled # NoGrant => stored = Copies(enabled)
    /\ Returning => enabled = NoGrant
    /\ starting /\ (Returning \/ Awaited("restore")) => Awaited("startup")
    /\ \A i \in DOMAIN queue : queue[i].op = "restore" => i = 1
    /\ Awaited("restore") => step = Idle /\ enabled = NoGrant
    /\ step.at = "reading" /\ step.op = "restore" => step.grant = stored.session
    /\ Returning /\ step.op = "update" => step.grant = stored.local
    /\ step.at = "adopting" => step.grant = stored.session
    /\ step.at \in {"found", "lost", "adopting"} => step.grant # NoGrant
    /\ enabled = NoGrant /\ stored.session # NoGrant =>
         \/ Awaited("startup") \/ Awaited("restore") \/ step.at = "adopting"
         \/ step.at = "reading" /\ step.op = "restore"

\* What the daemon knows once it has handled the updates on their way.
Last == IF wire = <<>> THEN seen ELSE wire[Len(wire)]
Present(grant) == [on |-> grant # NoGrant, grant |-> grant]
Granting == step.op \in {"enable", "title", "restore", "update"}

\* Unless a check crossed a transition, the last update is the grant there is,
\* or the one who changed the grant is still to send its own.
ToldOK ==
    /\ step.at = "clearing" => enabled = NoGrant
    /\ ~crossed =>
         /\ step.at \in {"announcing", "telling"} => enabled # NoGrant
         /\ check.at \in {"clearing", "releasing"} => enabled = NoGrant /\ ~Granting
         /\ native.port = "stable" =>
              \/ Last = Present(enabled)
              \/ step.at = "clearing" \/ step.at = "announcing" \/ check.at = "clearing"

\* The inductive invariant.
SessionInv == PortInv /\ StateTypeOK /\ PlacesOK /\ StorageOK /\ ToldOK

-----------------------------------------------------------------------------
-----------------------------------------------------------------------------
(* Grants. *)

\* The update that tells of a grant, with its flag evaluated.
LEMMA Presents ==
    /\ Present(NoGrant) = [on |-> FALSE, grant |-> NoGrant]
    /\ \A grant : grant # NoGrant => Present(grant) = [on |-> TRUE, grant |-> grant]
<1>1. Present(NoGrant) = [on |-> FALSE, grant |-> NoGrant]
  BY DEF Present
<1>2. ASSUME NEW grant, grant # NoGrant PROVE Present(grant) = [on |-> TRUE, grant |-> grant]
  BY <1>2 DEF Present
<1> QED
  BY <1>1, <1>2

\* Grants stay grants while time and browser runs go on.
LEMMA GrantGrows ==
    ASSUME run \in Nat, clock \in Nat, run' \in Nat, clock' \in Nat, run <= run', clock <= clock'
    PROVE  Grant \subseteq Grant'
  BY DEF Grant

\* A grant is a record, never the mark for none.
LEMMA GrantsKnown ==
    ASSUME run \in Nat, clock \in Nat
    PROVE  Grant \subseteq AnyGrant /\ NoGrant \notin Grant
  BY SessionAssumption DEF Grant, AnyGrant


-----------------------------------------------------------------------------
(* The port. *)

\* QueueIdle leaves the alarm set; QueueTimer leaves the timer running.
LEMMA Idles ==
    ASSUME NEW n, Sound(n)
    PROVE  Sound(QueueIdle(n)) /\ QueueIdle(n).alarm /\ QueueIdle(n).port = n.port
  BY DEF Sound, Controllers, QueueIdle

LEMMA Waits ==
    ASSUME NEW n, Sound(n)
    PROVE  Sound(QueueTimer(n)) /\ QueueTimer(n).timer /\ QueueTimer(n).port = n.port
  BY DEF Sound, Controllers, QueueTimer, ClearIdle

\* ConnectNative leaves an attempt under way, or the port there was.
LEMMA Connects ==
    ASSUME NEW n \in Controllers, n.alarm => n.idle
    PROVE  Sound(ConnectNative(n)) /\ ConnectNative(n).port = (IF n.port = "none" THEN "pending" ELSE n.port)
<1> DEFINE m == ClearIdle(n)
<1>1. m \in Controllers /\ m.port = n.port /\ m.idle = FALSE /\ m.alarm = FALSE
  BY DEF Controllers, ClearIdle
<1>2. ConnectNative(n) = IF m.port # "none" THEN m ELSE [m EXCEPT !.timer = FALSE, !.port = "pending"]
  BY DEF ConnectNative
<1> HIDE DEF m
<1> QED
  BY <1>1, <1>2 DEF Sound, Controllers

\* ScheduleReconnect leaves one of the two retries due.
LEMMA Reschedules ==
    ASSUME NEW n, Sound(n), NEW missing \in BOOLEAN
    PROVE  LET m == ScheduleReconnect(n, missing) IN Sound(m) /\ m.port = "none" /\ (m.timer \/ m.alarm)
<1> DEFINE lost == [n EXCEPT !.missing = missing, !.port = "none"]
<1>1. Sound(lost) /\ lost.port = "none"
  BY DEF Sound, Controllers
<1> QED
  BY <1>1, Idles, Waits DEF ScheduleReconnect

\* What a transition or a check does to the port: it at most tells the daemon.
Says == wire' = wire \/ \E on \in BOOLEAN : SendAccess(on)
PortRests == UNCHANGED <<native, ui, seen>> /\ (upsets' = upsets \/ Upset) /\ Says

\* Such a step keeps the port's part: an update goes to the stable port only.
LEMMA PortKept ==
    ASSUME PortInv, PortRests, enabled' \in AnyGrant PROVE PortInv'
<1> DEFINE Fine == wire' \in Seq(Update) /\ (native.port # "stable" => wire' = wire)
<1>1. Fine
  <2>1. CASE wire' = wire
    BY <2>1 DEF PortInv, PortTypeOK
  <2>2. ASSUME NEW on \in BOOLEAN, SendAccess(on) PROVE Fine
    <3> DEFINE news == [on |-> on, grant |-> IF on THEN enabled' ELSE NoGrant]
    <3>1. news \in Update
      BY DEF Update, AnyGrant
    <3>2. wire' = IF native.port = "stable" THEN Append(wire, news) ELSE wire
      BY <2>2 DEF SendAccess, Post
    <3> HIDE DEF news
    <3> QED
      BY <3>1, <3>2 DEF PortInv, PortTypeOK
  <2> QED
    BY <2>1, <2>2 DEF PortRests, Says
<1>2. upsets' \in 0..MaxUpsets
  BY SessionAssumption DEF PortInv, PortTypeOK, PortRests, Upset
<1> QED
  BY <1>1, <1>2 DEF PortInv, PortTypeOK, PortRests, RetryDue, NoPort

\* So does every event of the connection.
LEMMA PortMoves ==
    ASSUME PortInv, Connection, enabled \in AnyGrant PROVE PortInv'
<1> USE SessionAssumption DEF PortInv, PortTypeOK, RetryDue, NoPort, Silent
<1>a. <<>> \in Seq(Update) /\ Silent \in Update /\ [on |-> TRUE, grant |-> enabled] \in Update
  BY DEF Update, AnyGrant
<1>1. CASE Stable(enabled)
  <2>1. Sound(native') /\ native'.port = "stable"
    BY <1>1 DEF Stable, Sound, Controllers
  <2> QED
    BY <1>1, <1>a, <2>1 DEF Stable
<1>2. ASSUME NEW missing \in BOOLEAN, PortLost(missing) PROVE PortInv'
  BY <1>2, <1>a, Reschedules DEF PortLost, Upset
<1>3. CASE RetryTimer
  <2> DEFINE fired == [native EXCEPT !.timer = FALSE]
  <2>1. Sound(fired) /\ fired.port = native.port
    BY DEF Sound, Controllers
  <2>2. fired \in Controllers /\ (fired.alarm => fired.idle)
    BY <2>1 DEF Sound
  <2>3. native' = IF fired.missing /\ ~ui THEN QueueIdle(fired) ELSE ConnectNative(fired)
    BY <1>3 DEF RetryTimer
  <2> HIDE DEF fired
  <2> QED
    BY <1>3, <2>1, <2>2, <2>3, Idles, Connects DEF RetryTimer
<1>4. CASE SetupAlarm
  <2> DEFINE fired == [native EXCEPT !.alarm = FALSE]
  <2>1. fired \in Controllers /\ (fired.alarm => fired.idle) /\ fired.port = native.port
    BY DEF Sound, Controllers
  <2> HIDE DEF fired
  <2> QED
    BY <1>4, <2>1, Connects DEF SetupAlarm, fired
<1>5. CASE OpenUi
  BY <1>5, Connects DEF OpenUi, Sound
<1>6. CASE CloseUi
  BY <1>6, Idles DEF CloseUi
<1>7. CASE ConnectThrows
  <2> DEFINE tried == [ClearIdle(native) EXCEPT !.timer = FALSE]
  <2>1. Sound(tried)
    <3> DEFINE m == ClearIdle(native)
    <3>1. m \in Controllers /\ m.idle = FALSE /\ m.alarm = FALSE
      BY DEF Sound, Controllers, ClearIdle
    <3> HIDE DEF m
    <3> QED
      BY <3>1 DEF Sound, Controllers, m
  <2>2. native' = ScheduleReconnect(tried, FALSE) /\ UNCHANGED <<ui, wire, seen>> /\ Upset
    BY <1>7 DEF ConnectThrows
  <2>3. native.port = "none"
    BY <1>7 DEF ConnectThrows
  <2>4. upsets' \in 0..MaxUpsets
    BY <2>2 DEF Upset
  <2> HIDE DEF tried
  <2>5. Sound(native') /\ native'.port = "none" /\ (native'.timer \/ native'.alarm)
    BY <2>1, <2>2, Reschedules
  <2> QED
    BY <2>2, <2>3, <2>4, <2>5
<1>8. CASE DaemonHears
  BY <1>8 DEF DaemonHears
<1> QED
  BY <1>1, <1>2, <1>3, <1>4, <1>5, <1>6, <1>7, <1>8 DEF Connection

-----------------------------------------------------------------------------
(* The queue. *)

\* The places of a queue with one more transition, and with one less.
LEMMA Appended ==
    ASSUME NEW q \in Seq(Asked), NEW e \in Asked
    PROVE  /\ Append(q, e) \in Seq(Asked)
           /\ \A i \in DOMAIN Append(q, e) :
                \/ i \in DOMAIN q /\ Append(q, e)[i] = q[i]
                \/ i = Len(q) + 1 /\ Append(q, e)[i] = e
           /\ \A i \in DOMAIN q : i \in DOMAIN Append(q, e) /\ Append(q, e)[i] = q[i]
           /\ Len(q) + 1 \in DOMAIN Append(q, e) /\ Append(q, e)[Len(q) + 1] = e
  OBVIOUS

LEMMA Taken ==
    ASSUME NEW q \in Seq(Asked), q # <<>>
    PROVE  /\ Tail(q) \in Seq(Asked) /\ Head(q) \in Asked /\ 1 \in DOMAIN q /\ q[1] = Head(q)
           /\ \A i \in DOMAIN Tail(q) : i + 1 \in DOMAIN q /\ Tail(q)[i] = q[i + 1]
           /\ \A i \in DOMAIN q : i = 1 \/ (i - 1 \in DOMAIN Tail(q) /\ Tail(q)[i - 1] = q[i])
           /\ \A i \in DOMAIN Tail(q) : i \in Nat /\ i + 1 # 1
  OBVIOUS

\* The parts that speak of the transitions.
OthersOK == PlacesOK /\ StorageOK /\ ToldOK

\* A transition is asked for; the browser's start also raises its flag.
Calls(e) ==
    /\ e \in Asked /\ e.op # "restore" /\ queue' = Append(queue, e)
    /\ e.op \in {"enable", "disable", "revoke", "title", "removed"} => e.win \in Window
    /\ starting' = starting \/ (e.op = "startup" /\ starting' = TRUE)
    /\ UNCHANGED <<nativeVars, enabled, stored, step, check, run, clock, crossed>>

\* Asking for one that is not a restore keeps these parts.
LEMMA CallsKeep ==
    ASSUME StateTypeOK, OthersOK, NEW e, Calls(e)
    PROVE  queue' \in Seq(Asked) /\ OthersOK'
<1>1. /\ queue' \in Seq(Asked)
      /\ \A i \in DOMAIN queue' : \/ i \in DOMAIN queue /\ queue'[i] = queue[i]
                                  \/ i = Len(queue) + 1 /\ queue'[i] = e
      /\ \A i \in DOMAIN queue : i \in DOMAIN queue' /\ queue'[i] = queue[i]
      /\ Len(queue) + 1 \in DOMAIN queue' /\ queue'[Len(queue) + 1] = e
  <2>1. queue \in Seq(Asked) /\ e \in Asked /\ queue' = Append(queue, e)
    BY DEF Calls, StateTypeOK
  <2> QED
    BY <2>1, Appended
<1>2. \A op : Awaited(op)' <=> Awaited(op) \/ op = e.op
  <2> TAKE op
  <2>1. Awaited(op)' <=> \E i \in DOMAIN queue' : queue'[i].op = op
    BY DEF Awaited
  <2>2. Awaited(op) <=> \E i \in DOMAIN queue : queue[i].op = op
    BY DEF Awaited
  <2> QED
    BY <1>1, <2>1, <2>2
<1>3. PlacesOK'
  BY <1>1 DEF Calls, PlacesOK, OthersOK, Grant
<1>4. StorageOK'
  BY <1>1, <1>2 DEF Calls, StorageOK, OthersOK, Returning
<1>5. ToldOK'
  BY DEF Calls, ToldOK, OthersOK, Granting, Last, nativeVars
<1> QED
  BY <1>1, <1>3, <1>4, <1>5 DEF OthersOK

-----------------------------------------------------------------------------
(* Transitions begin. *)

OpOf == Head(queue).op

\* The first transition is taken: the only restore there can be is the first,
\* and what else is awaited stays awaited.
LEMMA NextInLine ==
    ASSUME StateTypeOK, OthersOK, queue # <<>>, queue' = Tail(queue)
    PROVE  /\ queue' \in Seq(Asked) /\ Head(queue) \in Asked
           /\ ~Awaited("restore")' /\ Awaited(OpOf)
           /\ \A op : Awaited(op)' => Awaited(op)
           /\ \A op : Awaited(op) => Awaited(op)' \/ op = OpOf
           /\ \A i \in DOMAIN queue' : queue'[i].op # "restore"
           /\ \A i \in DOMAIN queue' :
                queue'[i].op \in {"enable", "disable", "revoke", "title", "removed"} => queue'[i].win \in Window
           /\ OpOf \in {"enable", "disable", "revoke", "title", "removed"} => Head(queue).win \in Window
<1>1. /\ queue' \in Seq(Asked) /\ Head(queue) \in Asked /\ 1 \in DOMAIN queue /\ queue[1] = Head(queue)
      /\ \A i \in DOMAIN queue' : i + 1 \in DOMAIN queue /\ queue'[i] = queue[i + 1]
      /\ \A i \in DOMAIN queue : i = 1 \/ (i - 1 \in DOMAIN queue' /\ queue'[i - 1] = queue[i])
      /\ \A i \in DOMAIN queue' : i \in Nat /\ i + 1 # 1
  <2>1. queue \in Seq(Asked)
    BY DEF StateTypeOK
  <2> QED
    BY <2>1, Taken
<1>2. \A op : Awaited(op)' <=> \E i \in DOMAIN queue' : queue'[i].op = op
  BY DEF Awaited
<1>3. \A op : Awaited(op) <=> \E i \in DOMAIN queue : queue[i].op = op
  BY DEF Awaited
<1>4. \A i \in DOMAIN queue : queue[i].op = "restore" => i = 1
  BY DEF OthersOK, StorageOK
<1>5. \A i \in DOMAIN queue :
         queue[i].op \in {"enable", "disable", "revoke", "title", "removed"} => queue[i].win \in Window
  BY DEF OthersOK, PlacesOK
<1>6. \A i \in DOMAIN queue' : queue'[i].op # "restore"
  <2> TAKE i \in DOMAIN queue'
  <2>1. i + 1 \in DOMAIN queue /\ queue'[i] = queue[i + 1] /\ i + 1 # 1
    BY <1>1
  <2> QED
    BY <1>4, <2>1
<1>7. Awaited(OpOf)
  <2>1. 1 \in DOMAIN queue /\ queue[1].op = OpOf
    BY <1>1 DEF OpOf
  <2> QED
    BY <1>3, <2>1
<1>8. ASSUME NEW op, Awaited(op) PROVE Awaited(op)' \/ op = OpOf
  <2>1. PICK i \in DOMAIN queue : queue[i].op = op
    BY <1>3, <1>8
  <2>2. CASE i = 1
    BY <1>1, <2>1, <2>2 DEF OpOf
  <2>3. CASE i # 1
    <3>1. i - 1 \in DOMAIN queue' /\ queue'[i - 1] = queue[i]
      BY <1>1, <2>3
    <3> QED
      BY <1>2, <2>1, <3>1
  <2> QED
    BY <2>2, <2>3
<1>9. ASSUME NEW op, Awaited(op)' PROVE Awaited(op)
  <2>1. PICK i \in DOMAIN queue' : queue'[i].op = op
    BY <1>2, <1>9
  <2>2. i + 1 \in DOMAIN queue /\ queue'[i] = queue[i + 1]
    BY <1>1
  <2> QED
    BY <1>3, <2>1, <2>2
<1>10. ~Awaited("restore")'
  BY <1>2, <1>6
<1>11. \A i \in DOMAIN queue' :
         queue'[i].op \in {"enable", "disable", "revoke", "title", "removed"} => queue'[i].win \in Window
  BY <1>1, <1>5
<1> QED
  BY <1>1, <1>5, <1>6, <1>7, <1>8, <1>9, <1>10, <1>11 DEF OpOf

\* GrantGrows, with the types the invariant gives.
LEMMA GrantsStay ==
    ASSUME StateTypeOK, run' \in Nat, clock' \in Nat, run <= run', clock <= clock'
    PROVE  Grant \subseteq Grant'
  BY GrantGrows DEF StateTypeOK

\* The first part of some transition.
Begins ==
    \/ StartEnable \/ StartDisable \/ StartTitle \/ StartRemoved \/ StartRestore
    \/ StartUpdate \/ StartStartup

\* Types after the first part of a transition.
LEMMA BeginsTypes ==
    ASSUME StateTypeOK, OthersOK, Begins PROVE StateTypeOK'
<1>1. queue # <<>> /\ queue' = Tail(queue)
  BY DEF Begins, StartEnable, StartDisable, StartTitle, StartRemoved, StartRestore, StartUpdate,
         StartStartup, Starts
<1>2. queue' \in Seq(Asked) /\ Head(queue) \in Asked
      /\ (OpOf \in {"enable", "disable", "revoke", "title", "removed"} => Head(queue).win \in Window)
  BY <1>1, NextInLine
<1> USE DEF StateTypeOK, OpOf, nativeVars
<1>3. CASE StartEnable
  <2>1. Grant \subseteq Grant'
    BY <1>3, GrantsStay DEF StartEnable, Starts, Stamp
  <2>2. [win |-> Head(queue).win, at |-> clock + 1, run |-> run] \in Grant'
    BY <1>2, <1>3 DEF StartEnable, Starts, Stamp, Grant
  <2> QED
    BY <1>2, <1>3, <2>1, <2>2 DEF StartEnable, Starts, Stamp, Begin, Nothing
<1>4. CASE Begins /\ UNCHANGED clock
  <2> USE DEF Begins, StartDisable, StartTitle, StartRemoved, StartRestore, StartUpdate, StartStartup, Starts
  <2>1. UNCHANGED <<check, starting, windows, closing, events, run>> /\ crossed' \in BOOLEAN
    BY <1>3, <1>4 DEF StartEnable
  <2>2. Grant \subseteq Grant'
    BY <1>4, <2>1, GrantsStay
  <2>3. \/ UNCHANGED <<enabled, stored>>
        \/ (enabled' = NoGrant /\ stored' = Nothing)
        \/ (UNCHANGED enabled /\ stored' = Copies(enabled))
    <3>1. clock + 1 # clock
      OBVIOUS
    <3> QED
      BY <1>4, <3>1 DEF StartEnable, Stamp
  <2>4. enabled' \in Grant' \union {NoGrant}
        /\ stored' \in [session : Grant' \union {NoGrant}, local : Grant' \union {NoGrant}]
    BY <2>2, <2>3 DEF Nothing, Copies
  <2>5. \/ step' = step
        \/ \E pc \in {"clearing", "telling", "reading", "sweeping"}, held \in BOOLEAN,
              grant \in {NoGrant, stored.session, stored.local} : Begin(pc, grant, held)
    <3>1. clock + 1 # clock
      OBVIOUS
    <3>2. CASE StartDisable \/ StartRemoved \/ StartTitle
      BY <3>2
    <3>3. CASE StartRestore \/ StartUpdate
      BY <3>3
    <3>4. CASE StartStartup
      BY <3>4
    <3> QED
      BY <1>4, <3>1, <3>2, <3>3, <3>4 DEF StartEnable, Stamp
  <2>6. OpOf \in {"enable", "disable", "revoke", "title", "removed", "restore", "update", "startup"}
    BY <1>2 DEF Asked
  <2> HIDE DEF Begins, StartDisable, StartTitle, StartRemoved, StartRestore, StartUpdate, StartStartup, Starts
  <2>7. step' \in [at : {"idle", "clearing", "releasing", "injecting", "announcing", "telling",
                         "reading", "restored", "found", "lost", "adopting", "priming", "sweeping"},
                   op : {"none", "enable", "disable", "revoke", "title", "removed", "restore",
                         "update", "startup"},
                   grant : Grant' \union {NoGrant}, held : BOOLEAN]
    BY <2>2, <2>5, <2>6 DEF Begin
  <2> QED
    BY <1>2, <1>4, <2>1, <2>4, <2>7
<1> QED
  BY <1>3, <1>4 DEF Begins, StartDisable, StartTitle, StartRemoved, StartRestore, StartUpdate, StartStartup

\* The first part of a transition keeps the other parts: one that reads finds
\* no grant, one that revokes or grants marks its place.
LEMMA BeginsKeep ==
    ASSUME PortInv, StateTypeOK, OthersOK, Begins PROVE OthersOK'
<1>1. queue # <<>> /\ queue' = Tail(queue) /\ step = Idle
  BY DEF Begins, StartEnable, StartDisable, StartTitle, StartRemoved, StartRestore, StartUpdate,
         StartStartup, Starts
<1>2. /\ ~Awaited("restore")' /\ Awaited(OpOf)
      /\ \A op : Awaited(op)' => Awaited(op)
      /\ \A op : Awaited(op) => Awaited(op)' \/ op = OpOf
      /\ \A i \in DOMAIN queue' : queue'[i].op # "restore"
      /\ \A i \in DOMAIN queue' :
           queue'[i].op \in {"enable", "disable", "revoke", "title", "removed"} => queue'[i].win \in Window
      /\ OpOf \in {"enable", "disable", "revoke", "title", "removed"} => Head(queue).win \in Window
  BY <1>1, NextInLine
<1>3. NoWindow \notin Window /\ \A w \in Window : WindowOf(enabled) = w => enabled # NoGrant
  BY SessionAssumption DEF WindowOf
<1>4. PlacesOK'
  <2> USE <1>1, <1>2 DEF PlacesOK, OthersOK, OpOf, Kinds, Idle
  <2>1. CASE StartEnable
    <3>1. [win |-> Head(queue).win, at |-> clock + 1, run |-> run] \in Grant'
      BY <2>1 DEF StartEnable, Starts, Stamp, Grant, StateTypeOK
    <3> QED
      BY <2>1, <3>1 DEF StartEnable, Starts, Begin
  <2>2. CASE StartDisable
    BY <2>2 DEF StartDisable, Starts, Begin
  <2>3. CASE StartTitle
    BY <2>3 DEF StartTitle, Starts, Begin
  <2>4. CASE StartRemoved
    BY <2>4 DEF StartRemoved, Starts, Begin
  <2>5. CASE StartRestore
    BY <2>5 DEF StartRestore, Starts, Begin
  <2>6. CASE StartUpdate
    BY <2>6 DEF StartUpdate, Starts, Begin
  <2>7. CASE StartStartup
    BY <2>7 DEF StartStartup, Begin
  <2> QED
    BY <2>1, <2>2, <2>3, <2>4, <2>5, <2>6, <2>7 DEF Begins
<1>5. StorageOK'
  <2> USE <1>1, <1>2, <1>3 DEF StorageOK, OthersOK, OpOf, Returning, Idle
  <2>1. CASE StartEnable
    BY <2>1 DEF StartEnable, Starts, Begin, Nothing, Copies
  <2>2. CASE StartDisable
    BY <2>2 DEF StartDisable, Starts, Begin, Nothing
  <2>3. CASE StartTitle
    BY <2>3 DEF StartTitle, Starts, Begin
  <2>4. CASE StartRemoved
    BY <2>4 DEF StartRemoved, Starts, Begin, Nothing
  <2>5. CASE StartRestore
    BY <2>5 DEF StartRestore, Starts, Begin
  <2>6. CASE StartUpdate
    BY <2>6 DEF StartUpdate, Starts, Begin
  <2>7. CASE StartStartup
    BY <2>7 DEF StartStartup, Begin, Nothing
  <2> QED
    BY <2>1, <2>2, <2>3, <2>4, <2>5, <2>6, <2>7 DEF Begins
<1>6. ToldOK'
  <2>1. crossed \in BOOLEAN
    BY DEF StateTypeOK
  <2>2. /\ ~crossed => (check.at \in {"clearing", "releasing"} => enabled = NoGrant)
        /\ ~crossed /\ native.port = "stable" =>
             \/ Last = Present(enabled)
             \/ check.at = "clearing"
    BY <1>1 DEF OthersOK, ToldOK, Idle
  <2>3. CASE StartStartup
    <3>1. Last' = [on |-> FALSE, grant |-> NoGrant] \/ native.port # "stable"
      BY <2>3 DEF StartStartup, SendAccess, Post, PortInv, PortTypeOK, Last
    <3> QED
      BY <1>1, <2>2, <2>3, <3>1, Presents DEF StartStartup, Begin, ToldOK, Granting
  <2>4. CASE \E op : Starts(op)
    <3>1. Last' = Last /\ native' = native /\ check' = check
      BY <2>4 DEF Starts, nativeVars, Last
    <3>2. ~crossed' => ~crossed /\ (check.at \in {"clearing", "releasing"} =>
                                       OpOf \notin {"enable", "title", "restore", "update"})
      BY <2>1, <2>4 DEF Starts, OpOf
    <3> USE <1>1, <1>2, <1>3, <2>2, <3>1, <3>2 DEF ToldOK, OpOf, Granting, Idle
    <3>3. CASE StartEnable
      BY <3>3 DEF StartEnable, Starts, Begin
    <3>4. CASE StartDisable
      BY <3>4 DEF StartDisable, Starts, Begin
    <3>5. CASE StartTitle
      BY <3>5 DEF StartTitle, Starts, Begin
    <3>6. CASE StartRemoved
      BY <3>6 DEF StartRemoved, Starts, Begin
    <3>7. CASE StartRestore
      BY <3>7 DEF StartRestore, Starts, Begin
    <3>8. CASE StartUpdate
      BY <3>8 DEF StartUpdate, Starts, Begin
    <3> QED
      BY <2>3, <3>3, <3>4, <3>5, <3>6, <3>7, <3>8 DEF Begins
  <2> QED
    BY <2>3, <2>4 DEF Begins, StartEnable, StartDisable, StartTitle, StartRemoved, StartRestore, StartUpdate
<1> QED
  BY <1>4, <1>5, <1>6 DEF OthersOK

-----------------------------------------------------------------------------
(* What asks for transitions. *)

\* Nothing the invariant speaks of changes, windows and events aside.
Rests ==
    UNCHANGED <<nativeVars, enabled, stored, queue, step, check, starting, run, clock, crossed>>

\* Such a step keeps everything.
LEMMA RestsKeep ==
    ASSUME OthersOK, Rests PROVE OthersOK'
<1>1. \A op : Awaited(op)' <=> Awaited(op)
  BY DEF Awaited, Rests
<1>2. PlacesOK'
  BY DEF Rests, PlacesOK, OthersOK, Grant
<1>3. StorageOK'
  BY <1>1 DEF Rests, StorageOK, OthersOK, Returning
<1>4. ToldOK'
  BY DEF Rests, ToldOK, OthersOK, Granting, Last, nativeVars
<1> QED
  BY <1>2, <1>3, <1>4 DEF OthersOK

\* Clicks, windows that close and browser events.
Asks ==
    \/ \E w \in Window : (\E on \in BOOLEAN : Toggle(w, on)) \/ CloseWindow(w) \/ WindowRemoved(w)
    \/ RevokeSeen \/ TitleChanges \/ OnStartup \/ OnInstalled

\* Each is such a step or asks for one transition.
LEMMA AsksKeep ==
    ASSUME StateTypeOK, OthersOK, Asks PROVE StateTypeOK' /\ OthersOK'
<1>1. enabled \in AnyGrant /\ (enabled # NoGrant => enabled.win \in Window)
  BY SessionAssumption DEF StateTypeOK, Grant, AnyGrant
<1>2. Rests \/ \E e : Calls(e)
  <2> USE <1>1 DEF Asked, AnyGrant, Calls, Ask, StateTypeOK, nativeVars
  <2>1. ASSUME NEW w \in Window, NEW on \in BOOLEAN, Toggle(w, on) PROVE \E e : Calls(e)
    <3> DEFINE e == [op |-> IF on THEN "enable" ELSE "disable", win |-> w, grant |-> NoGrant]
    <3>1. Calls(e)
      BY <2>1 DEF Toggle
    <3> QED
      BY <3>1
  <2>2. ASSUME NEW w \in Window, CloseWindow(w) PROVE Rests
    BY <2>2 DEF CloseWindow, Rests
  <2>3. ASSUME NEW w \in Window, WindowRemoved(w) PROVE Rests \/ \E e : Calls(e)
    <3> DEFINE e == [op |-> "removed", win |-> w, grant |-> NoGrant]
    <3>1. CASE WindowOf(enabled) = w
      <4>1. Calls(e)
        BY <2>3, <3>1 DEF WindowRemoved
      <4> QED
        BY <4>1
    <3>2. CASE WindowOf(enabled) # w
      BY <2>3, <3>2 DEF WindowRemoved, Rests
    <3> QED
      BY <3>1, <3>2
  <2>4. ASSUME RevokeSeen PROVE \E e : Calls(e)
    <3> DEFINE e == [op |-> "revoke", win |-> enabled.win, grant |-> enabled]
    <3>1. Calls(e)
      BY <2>4 DEF RevokeSeen
    <3> QED
      BY <3>1
  <2>5. ASSUME TitleChanges PROVE \E e : Calls(e)
    <3> DEFINE e == [op |-> "title", win |-> enabled.win, grant |-> NoGrant]
    <3>1. Calls(e)
      BY <2>5 DEF TitleChanges
    <3> QED
      BY <3>1
  <2>6. ASSUME OnStartup PROVE \E e : Calls(e)
    <3> DEFINE e == [op |-> "startup", win |-> NoWindow, grant |-> NoGrant]
    <3>1. Calls(e)
      BY <2>6 DEF OnStartup
    <3> QED
      BY <3>1
  <2>7. ASSUME OnInstalled PROVE \E e : Calls(e)
    <3> DEFINE e == [op |-> "update", win |-> NoWindow, grant |-> NoGrant]
    <3>1. Calls(e)
      BY <2>7 DEF OnInstalled
    <3> QED
      BY <3>1
  <2> HIDE <1>1 DEF Asked, AnyGrant, Calls, Ask, StateTypeOK, nativeVars
  <2> QED
    BY <2>1, <2>2, <2>3, <2>4, <2>5, <2>6, <2>7 DEF Asks
<1>3. queue' \in Seq(Asked) /\ OthersOK'
  BY <1>2, CallsKeep, RestsKeep DEF Rests, StateTypeOK
<1>4. UNCHANGED <<enabled, stored, step, check, run, clock, crossed>>
  BY <1>2 DEF Rests, Calls
<1>5. starting' \in BOOLEAN
  <2>1. starting' = starting \/ starting' = TRUE
    BY <1>2 DEF Rests, Calls
  <2> QED
    BY <2>1 DEF StateTypeOK
<1>6. windows' \subseteq Window /\ closing' \subseteq Window \ windows' /\ events' \subseteq {"startup", "update"}
  BY DEF Asks, StateTypeOK, Toggle, CloseWindow, WindowRemoved, RevokeSeen, TitleChanges, OnStartup, OnInstalled
<1> QED
  BY <1>3, <1>4, <1>5, <1>6 DEF StateTypeOK, Grant

-----------------------------------------------------------------------------
(* Transitions go on. *)

\* The parts of transitions after an await.
Onward ==
    \/ TellCleared \/ Released \/ ReleaseFails \/ Granted \/ Announce \/ TellTitle \/ Restore
    \/ Restored \/ ReadBackup \/ BackupLost \/ BackupFound \/ AdoptBackup \/ Primed \/ Swept

\* An update to the stable port is the last the daemon will hear.
LEMMA Told ==
    ASSUME PortInv, NEW on, SendAccess(on), native' = native, native.port = "stable"
    PROVE  Last' = [on |-> on, grant |-> IF on THEN enabled' ELSE NoGrant]
  BY DEF PortInv, PortTypeOK, SendAccess, Post, Last

\* Types after such a part.
LEMMA OnwardTypes ==
    ASSUME StateTypeOK, OthersOK, Onward PROVE StateTypeOK'
<1> DEFINE Ats == {"idle", "clearing", "releasing", "injecting", "announcing", "telling",
                   "reading", "restored", "found", "lost", "adopting", "priming", "sweeping"}
           Ops == {"none", "enable", "disable", "revoke", "title", "removed", "restore",
                   "update", "startup"}
           Some == Grant \union {NoGrant}
<1> USE DEF Onward, TellCleared, Released, ReleaseFails, Granted, Announce, TellTitle, Restore, Restored,
            ReadBackup, BackupLost, BackupFound, AdoptBackup, Primed, Swept, Continues
<1>1. UNCHANGED <<queue, check, starting, windows, closing, events, run, clock, crossed>>
  OBVIOUS
<1>2. enabled' \in {enabled, NoGrant, step.grant}
  OBVIOUS
<1>3. stored' \in {stored, Nothing, Copies(step.grant), [stored EXCEPT !.session = step.grant]}
  BY DEF Copies
<1>4. step' = Idle \/ \E pc \in Ats : step' = [step EXCEPT !.at = pc]
  <2> USE DEF Done, At
  <2>1. CASE TellCleared \/ Released \/ ReleaseFails \/ Granted \/ Announce
    BY <2>1
  <2>2. CASE TellTitle \/ Restore \/ Restored \/ ReadBackup \/ BackupLost
    BY <2>2
  <2>3. CASE BackupFound \/ AdoptBackup \/ Primed \/ Swept
    BY <2>3
  <2> QED
    BY <2>1, <2>2, <2>3
<1> HIDE DEF Onward, TellCleared, Released, ReleaseFails, Granted, Announce, TellTitle, Restore, Restored,
            ReadBackup, BackupLost, BackupFound, AdoptBackup, Primed, Swept, Continues
<1>5. Grant' = Grant
  BY <1>1 DEF Grant
<1>6. step \in [at : Ats, op : Ops, grant : Some, held : BOOLEAN]
  BY DEF StateTypeOK
<1>7. step' \in [at : Ats, op : Ops, grant : Some, held : BOOLEAN]
  <2>1. CASE step' = Idle
    BY <2>1 DEF Idle
  <2>2. ASSUME NEW pc \in Ats, step' = [step EXCEPT !.at = pc]
        PROVE  step' \in [at : Ats, op : Ops, grant : Some, held : BOOLEAN]
    <3> HIDE DEF Ats, Ops, Some
    <3> QED
      BY <1>6, <2>2
  <2> QED
    BY <1>4, <2>1, <2>2
<1>8. enabled' \in Some /\ stored' \in [session : Some, local : Some]
  BY <1>2, <1>3, <1>6 DEF StateTypeOK, Nothing, Copies
<1> QED
  BY <1>1, <1>5, <1>7, <1>8 DEF StateTypeOK

\* Kinds, place by place.
LEMMA KindsAre ==
    /\ Kinds("idle") = {"none"} /\ Kinds("clearing") = {"enable", "disable", "revoke", "removed"}
    /\ Kinds("releasing") = {"enable", "disable", "revoke", "startup"}
    /\ Kinds("injecting") = {"enable"} /\ Kinds("announcing") = {"enable"}
    /\ Kinds("telling") = {"title"} /\ Kinds("reading") = {"restore", "update"}
    /\ Kinds("restored") = {"restore"} /\ Kinds("found") = {"update"} /\ Kinds("lost") = {"update"}
    /\ Kinds("adopting") = {"update"} /\ Kinds("priming") = {"update"} /\ Kinds("sweeping") = {"startup"}
  BY DEF Kinds

\* A transition goes to its next place as it is, or ends.
LEMMA StepMoves ==
    ASSUME StateTypeOK
    PROVE  /\ \A pc : At(pc) => step'.at = pc /\ step'.op = step.op /\ step'.grant = step.grant
           /\ Done => step' = Idle /\ step'.at = "idle" /\ step'.op = "none" /\ step'.grant = NoGrant
<1>1. step \in [at : {"idle", "clearing", "releasing", "injecting", "announcing", "telling",
                       "reading", "restored", "found", "lost", "adopting", "priming", "sweeping"},
                 op : {"none", "enable", "disable", "revoke", "title", "removed", "restore",
                       "update", "startup"},
                 grant : Grant \union {NoGrant}, held : BOOLEAN]
  BY DEF StateTypeOK
<1> QED
  BY <1>1 DEF At, Done, Idle

\* The later parts keep the other parts of the invariant: a grant is restored
\* or adopted only while no browser start was noticed and nothing was granted
\* meanwhile, and every change of the grant is followed by its update.
LEMMA OnwardKeep ==
    ASSUME PortInv, StateTypeOK, OthersOK, Onward PROVE OthersOK'
<1>1. UNCHANGED <<native, seen, queue, check, starting, windows, run, clock, crossed>>
  BY DEF Onward, TellCleared, Released, ReleaseFails, Granted, Announce, TellTitle, Restore, Restored,
            ReadBackup, BackupLost, BackupFound, AdoptBackup, Primed, Swept, Continues
<1>2. step # Idle
  <2>1. step.at # "idle"
    BY DEF Onward, TellCleared, Released, ReleaseFails, Granted, Announce, TellTitle, Restore, Restored,
           ReadBackup, BackupLost, BackupFound, AdoptBackup, Primed, Swept, Continues
  <2> QED
    BY <2>1 DEF Idle
<1>3. ~Awaited("restore") /\ \A op : Awaited(op)' <=> Awaited(op)
  BY <1>1, <1>2 DEF Awaited, OthersOK, StorageOK
<1>4. /\ step.op \in Kinds(step.at)
      /\ step.op = "enable" => step.grant \in Grant /\ step.grant # NoGrant /\ step.grant.run = run
      /\ \A i \in DOMAIN queue : queue[i].op \in {"enable", "disable", "revoke", "title", "removed"} =>
           queue[i].win \in Window
  BY SessionAssumption DEF OthersOK, PlacesOK, Grant, StateTypeOK
<1>5. step \in [at : {"idle", "clearing", "releasing", "injecting", "announcing", "telling",
                       "reading", "restored", "found", "lost", "adopting", "priming", "sweeping"},
                 op : {"none", "enable", "disable", "revoke", "title", "removed", "restore",
                       "update", "startup"},
                 grant : Grant \union {NoGrant}, held : BOOLEAN]
      /\ stored \in [session : Grant \union {NoGrant}, local : Grant \union {NoGrant}]
  BY DEF StateTypeOK
<1>6. Grant' = Grant
  BY <1>1 DEF Grant
<1>b. /\ \A pc : At(pc) => step'.at = pc /\ step'.op = step.op /\ step'.grant = step.grant
      /\ Done => step' = Idle /\ step'.at = "idle" /\ step'.op = "none" /\ step'.grant = NoGrant
  BY StepMoves
<1>7. PlacesOK'
  <2> USE <1>1, <1>4, <1>6, <1>b, KindsAre DEF PlacesOK, Continues
  <2>1. CASE TellCleared
    BY <2>1 DEF TellCleared
  <2>2. CASE Released \/ ReleaseFails
    BY <2>2 DEF Released, ReleaseFails
  <2>3. CASE Granted
    BY <2>3 DEF Granted
  <2>9. CASE Announce
    BY <2>9 DEF Announce
  <2>4. CASE TellTitle \/ Restored
    BY <2>4 DEF TellTitle, Restored
  <2>5. CASE Restore
    BY <2>5 DEF Restore
  <2>6. CASE ReadBackup
    BY <2>6 DEF ReadBackup
  <2>7. CASE BackupLost \/ Primed \/ Swept
    BY <2>7 DEF BackupLost, Primed, Swept
  <2>8. CASE BackupFound
    BY <2>8 DEF BackupFound
  <2>10. CASE AdoptBackup
    <3>1. CASE starting
      BY <2>10, <3>1 DEF AdoptBackup
    <3>2. CASE ~starting
      BY <2>10, <3>2 DEF AdoptBackup
    <3> QED
      BY <3>1, <3>2
  <2> QED
    BY <2>1, <2>2, <2>3, <2>4, <2>5, <2>6, <2>7, <2>8, <2>9, <2>10 DEF Onward
<1>8. StorageOK'
  <2>1. StorageOK
    BY DEF OthersOK
  <2> USE <1>1, <1>3, <1>4, <1>5, <1>b, <2>1, KindsAre DEF StorageOK, Returning, Continues
  <2>2. CASE TellCleared \/ Released \/ ReleaseFails
    BY <2>2 DEF TellCleared, Released, ReleaseFails
  <2>3. CASE Granted
    BY <2>3 DEF Granted, Copies
  <2>10. CASE Announce
    BY <2>10 DEF Announce
  <2>4. CASE TellTitle \/ Restored
    BY <2>4 DEF TellTitle, Restored
  <2>5. CASE Restore
    BY <2>5 DEF Restore, Copies
  <2>6. CASE ReadBackup
    BY <2>6 DEF ReadBackup
  <2>7. CASE BackupLost \/ Primed \/ Swept
    BY <2>7 DEF BackupLost, Primed, Swept, Nothing
  <2>8. CASE BackupFound
    BY <2>8 DEF BackupFound
  <2>9. CASE AdoptBackup
    <3>1. stored = Copies(step.grant)
      BY <2>9 DEF AdoptBackup, Copies
    <3>2. CASE starting
      BY <2>9, <3>2 DEF AdoptBackup
    <3>3. CASE ~starting
      BY <2>9, <3>1, <3>3 DEF AdoptBackup, Copies
    <3> QED
      BY <3>2, <3>3
  <2> QED
    BY <2>2, <2>3, <2>4, <2>5, <2>6, <2>7, <2>8, <2>9, <2>10 DEF Onward
<1>9. ToldOK'
  <2>1. ToldOK /\ (Returning => enabled = NoGrant)
    BY DEF OthersOK, StorageOK
  <2>2. native.port = "stable" =>
           /\ SendAccess(TRUE) => Last' = [on |-> TRUE, grant |-> enabled']
           /\ SendAccess(FALSE) => Last' = [on |-> FALSE, grant |-> NoGrant]
    BY <1>1, Told
  <2>3. wire' = wire => Last' = Last
    BY <1>1 DEF Last
  <2> USE <1>1, <1>4, <1>b, <2>1, <2>2, <2>3, KindsAre, Presents DEF ToldOK, Returning, Granting, Continues
  <2>4. CASE TellCleared
    <3>1. native.port = "stable" => Last' = Present(enabled')
      BY <2>4 DEF TellCleared
    <3> QED
      BY <2>4, <3>1 DEF TellCleared
  <2>5. CASE Released \/ ReleaseFails
    BY <2>5 DEF Released, ReleaseFails
  <2>6. CASE Granted
    BY <2>6 DEF Granted
  <2>7. CASE Announce \/ TellTitle
    BY <2>7 DEF Announce, TellTitle
  <2>8. CASE Restored
    <3>1. Last' = Last \/ (native.port = "stable" => Last' = Present(enabled'))
      BY <2>8 DEF Restored
    <3> QED
      BY <2>8, <3>1 DEF Restored
  <2>9. CASE Restore
    <3>1. IF enabled' = NoGrant THEN Last' = Last
          ELSE native.port = "stable" => Last' = Present(enabled')
      BY <2>9 DEF Restore
    <3>2. enabled = NoGrant
      BY <2>9 DEF Restore
    <3> QED
      BY <2>9, <3>1, <3>2 DEF Restore
  <2>10. CASE ReadBackup
    BY <2>10 DEF ReadBackup
  <2>11. CASE BackupLost \/ Primed \/ Swept \/ BackupFound
    BY <2>11 DEF BackupLost, Primed, Swept, BackupFound
  <2>12. CASE AdoptBackup
    <3>1. CASE starting
      BY <2>12, <3>1 DEF AdoptBackup
    <3>2. CASE ~starting
      <4>1. step.grant # NoGrant /\ enabled' = step.grant
        BY <2>1, <2>12, <3>2 DEF AdoptBackup, OthersOK, StorageOK
      <4>2. native.port = "stable" => Last' = Present(enabled')
        BY <2>12, <3>2, <4>1 DEF AdoptBackup
      <4> QED
        BY <2>12, <3>2, <4>1, <4>2 DEF AdoptBackup
    <3> QED
      BY <3>1, <3>2
  <2> QED
    BY <2>4, <2>5, <2>6, <2>7, <2>8, <2>9, <2>10, <2>11, <2>12 DEF Onward
<1> QED
  BY <1>7, <1>8, <1>9 DEF OthersOK

-----------------------------------------------------------------------------
(* The check for a window that is gone. *)

\* The check ends a grant, its copies and what the daemon knows of it; when a
\* transition was granting or telling, crossed says so.
LEMMA ChecksKeep ==
    ASSUME PortInv, StateTypeOK, OthersOK, Check PROVE StateTypeOK' /\ OthersOK'
<1> DEFINE Found == [at : {"idle", "asking", "clearing", "releasing"},
                     win : Window \union {NoWindow}, gone : BOOLEAN]
<1> USE DEF Check, BeginCheck, AskAgain, Answered, TellGone, GoneReleased, Checks
<1>1. UNCHANGED <<native, queue, step, starting, windows, closing, events, run, clock>>
  OBVIOUS
<1>2. UNCHANGED <<enabled, stored>> \/ (enabled # NoGrant /\ enabled' = NoGrant /\ stored' = Nothing)
  OBVIOUS
<1>3. crossed' \in BOOLEAN
  BY DEF StateTypeOK
<1>4. check' \in Found
  <2>1. check \in Found /\ (enabled # NoGrant => enabled.win \in Window)
    BY SessionAssumption DEF StateTypeOK, Grant
  <2>2. CASE BeginCheck \/ AskAgain
    <3> DEFINE asked == [at |-> "asking", win |-> enabled.win, gone |-> enabled.win \notin windows]
    <3>1. (enabled.win \notin windows) \in BOOLEAN
      OBVIOUS
    <3>2. enabled # NoGrant => asked \in Found
      BY <2>1, <3>1
    <3>3. check' = NoCheck \/ (enabled # NoGrant /\ check' = asked)
      BY <2>2
    <3>4. NoCheck \in Found
      BY DEF NoCheck
    <3> QED
      BY <3>2, <3>3, <3>4
  <2>3. CASE Answered
    <3>1. check' \in {NoCheck, [NoCheck EXCEPT !.at = "clearing"]}
      BY <2>3
    <3>2. NoCheck \in Found /\ [NoCheck EXCEPT !.at = "clearing"] \in Found
      BY DEF NoCheck
    <3> QED
      BY <3>1, <3>2
  <2>4. CASE TellGone
    BY <2>1, <2>4
  <2>5. CASE GoneReleased
    BY <2>5 DEF NoCheck
  <2> QED
    BY <2>2, <2>3, <2>4, <2>5
<1> HIDE DEF Check, BeginCheck, AskAgain, Answered, TellGone, GoneReleased, Checks
<1>5. Grant' = Grant /\ \A op : Awaited(op)' <=> Awaited(op)
  BY <1>1 DEF Grant, Awaited
<1>6. StateTypeOK'
  BY <1>1, <1>2, <1>3, <1>4, <1>5 DEF StateTypeOK, Nothing
<1>7. PlacesOK'
  BY <1>1, <1>5 DEF PlacesOK, OthersOK
<1>8. StorageOK'
  <2>1. StorageOK
    BY DEF OthersOK
  <2>2. CASE UNCHANGED <<enabled, stored>>
    BY <1>1, <1>5, <2>1, <2>2 DEF StorageOK, Returning
  <2>3. CASE enabled # NoGrant /\ enabled' = NoGrant /\ stored' = Nothing
    BY <1>1, <1>5, <2>1, <2>3 DEF StorageOK, Returning, Nothing
  <2> QED
    BY <1>2, <2>2, <2>3
<1>9. ToldOK'
  <2>1. ToldOK /\ step.op \in Kinds(step.at)
    BY DEF OthersOK, PlacesOK
  <2>2. native.port = "stable" /\ SendAccess(FALSE) => Last' = [on |-> FALSE, grant |-> NoGrant]
    BY <1>1, Told
  <2>3. wire' = wire => Last' = Last
    BY DEF Last, Check, BeginCheck, AskAgain, Answered, TellGone, GoneReleased, Checks
  <2> USE <1>1, <2>1, <2>2, <2>3, KindsAre, Presents DEF ToldOK, Granting, Checks, NoCheck
  <2>4. CASE BeginCheck
    BY <2>4 DEF BeginCheck
  <2>5. CASE AskAgain
    BY <2>5 DEF AskAgain
  <2>6. CASE Answered
    <3>1. CASE check.gone /\ enabled # NoGrant
      <4>1. enabled' = NoGrant /\ check'.at = "clearing"
        BY <2>6, <3>1 DEF Answered
      <4>2. ~crossed' => ~crossed /\ ~Granting
        BY <2>6, <3>1 DEF Answered
      <4>3. ~Granting => step.at \notin {"announcing", "telling"}
        OBVIOUS
      <4> QED
        BY <2>6, <4>1, <4>2, <4>3
    <3>2. CASE ~(check.gone /\ enabled # NoGrant)
      BY <2>6, <3>2 DEF Answered
    <3> QED
      BY <3>1, <3>2
  <2>7. CASE TellGone
    <3>1. native.port = "stable" => Last' = Present(NoGrant)
      BY <2>7 DEF TellGone
    <3>2. check' = [check EXCEPT !.at = "releasing"] /\ UNCHANGED <<enabled, crossed>>
      BY <2>7 DEF TellGone
    <3>3. check'.at = "releasing" /\ check.at = "clearing"
      BY <2>7, <3>2 DEF TellGone, StateTypeOK
    <3> QED
      BY <3>1, <3>2, <3>3
  <2>8. CASE GoneReleased
    BY <2>8 DEF GoneReleased
  <2> QED
    BY <2>4, <2>5, <2>6, <2>7, <2>8 DEF Check
<1> QED
  BY <1>6, <1>7, <1>8, <1>9 DEF OthersOK

-----------------------------------------------------------------------------
(* The worker ends. *)

\* The worker ends, alone or with its extension or browser.
Ends == WorkerRestarts \/ ExtensionUpdates \/ BrowserRestarts

\* The one transition of a fresh worker.
LEMMA Restarted ==
    /\ <<[op |-> "restore", win |-> NoWindow, grant |-> NoGrant]>> \in Seq(Asked)
    /\ \A i \in DOMAIN <<[op |-> "restore", win |-> NoWindow, grant |-> NoGrant]>> : i = 1
    /\ 1 \in DOMAIN <<[op |-> "restore", win |-> NoWindow, grant |-> NoGrant]>>
    /\ <<[op |-> "restore", win |-> NoWindow, grant |-> NoGrant]>>[1].op = "restore"
<1>1. [op |-> "restore", win |-> NoWindow, grant |-> NoGrant] \in Asked
  BY DEF Asked, AnyGrant
<1> QED
  BY <1>1

\* The first attempt of a fresh worker, whether or not an alarm survived.
LEMMA PortStarts ==
    ASSUME NEW alarm \in BOOLEAN
    PROVE  Sound(ConnectNative(NativeStart(alarm))) /\ ConnectNative(NativeStart(alarm)).port = "pending"
<1>1. NativeStart(alarm) \in Controllers /\ NativeStart(alarm).idle /\ NativeStart(alarm).port = "none"
  BY DEF NativeStart, Controllers
<1> QED
  BY <1>1, Connects

\* A fresh worker satisfies the invariant whatever its predecessor was doing.
LEMMA EndsKeep ==
    ASSUME PortInv, StateTypeOK, OthersOK, Ends PROVE PortInv' /\ StateTypeOK' /\ OthersOK'
<1> USE DEF Ends, WorkerRestarts, ExtensionUpdates, BrowserRestarts, NewWorker
<1>1. /\ enabled' = NoGrant /\ step' = Idle /\ check' = NoCheck /\ starting' = FALSE
      /\ queue' = <<[op |-> "restore", win |-> NoWindow, grant |-> NoGrant]>>
      /\ native' = ConnectNative(NativeStart(native.alarm))
      /\ ui' = FALSE /\ wire' = <<>> /\ seen' = Silent /\ crossed' = FALSE
      /\ UNCHANGED <<upsets, clock>>
  OBVIOUS
<1>2. stored' = stored \/ stored' = [stored EXCEPT !.session = NoGrant]
  OBVIOUS
<1>3. run' = run \/ run' = run + 1
  OBVIOUS
<1>4. windows' \subseteq Window /\ closing' \subseteq Window \ windows' /\ events' \subseteq {"startup", "update"}
  <2>1. windows \subseteq Window /\ closing \subseteq Window \ windows /\ events \subseteq {"startup", "update"}
    BY DEF StateTypeOK
  <2>2. CASE WorkerRestarts
    BY <2>1, <2>2
  <2>3. CASE ExtensionUpdates
    BY <2>1, <2>3
  <2>4. CASE BrowserRestarts
    BY <2>4
  <2> QED
    BY <2>2, <2>3, <2>4
<1> HIDE DEF Ends, WorkerRestarts, ExtensionUpdates, BrowserRestarts, NewWorker
<1>5. PortInv'
  <2>1. native.alarm \in BOOLEAN
    BY DEF PortInv, Sound, Controllers
  <2>2. Sound(native') /\ native'.port = "pending"
    BY <1>1, <2>1, PortStarts
  <2>3. Silent \in Update
    BY DEF Silent, Update, AnyGrant
  <2>4. PortTypeOK'
    <3>1. <<>> \in Seq(Update) /\ FALSE \in BOOLEAN
      OBVIOUS
    <3>2. upsets \in 0..MaxUpsets
      BY DEF PortInv, PortTypeOK
    <3> QED
      BY <1>1, <2>3, <3>1, <3>2 DEF PortTypeOK
  <2> QED
    BY <1>1, <2>2, <2>4 DEF PortInv, RetryDue, NoPort
<1>6. native'.port # "stable"
  BY <1>1, PortStarts DEF PortInv, Sound, Controllers
<1>7. Grant \subseteq Grant'
  BY <1>1, <1>3, GrantsStay DEF StateTypeOK
<1>8. stored' \in [session : Grant' \union {NoGrant}, local : Grant' \union {NoGrant}]
  BY <1>2, <1>7 DEF StateTypeOK
<1>9. queue' \in Seq(Asked) /\ (\A i \in DOMAIN queue' : i = 1) /\ 1 \in DOMAIN queue' /\ queue'[1].op = "restore"
  BY <1>1, Restarted
<1>10. StateTypeOK'
  <2>1. run' \in Nat /\ clock' \in Nat \ {0}
    BY <1>1, <1>3 DEF StateTypeOK
  <2>2. step' \in [at : {"idle", "clearing", "releasing", "injecting", "announcing", "telling",
                       "reading", "restored", "found", "lost", "adopting", "priming", "sweeping"},
                   op : {"none", "enable", "disable", "revoke", "title", "removed", "restore",
                         "update", "startup"},
                   grant : Grant' \union {NoGrant}, held : BOOLEAN]
    BY <1>1 DEF Idle
  <2>3. check' \in [at : {"idle", "asking", "clearing", "releasing"},
                     win : Window \union {NoWindow}, gone : BOOLEAN]
    BY <1>1 DEF NoCheck
  <2> QED
    BY <1>1, <1>4, <1>8, <1>9, <2>1, <2>2, <2>3 DEF StateTypeOK
<1>11. Awaited("restore")'
  BY <1>9 DEF Awaited
<1>12. PlacesOK'
  BY <1>1, <1>9, KindsAre DEF PlacesOK, Idle
<1>13. StorageOK'
  BY <1>1, <1>9, <1>11 DEF StorageOK, Returning, Idle
<1>14. ToldOK'
  BY <1>1, <1>6 DEF ToldOK, Idle, NoCheck
<1> QED
  BY <1>5, <1>10, <1>12, <1>13, <1>14 DEF OthersOK

-----------------------------------------------------------------------------
(* The connection moves. *)

\* Taking the first of the updates leaves the last one what it was.
LEMMA LastStays ==
    ASSUME NEW q \in Seq(Update), q # <<>>
    PROVE  IF Len(q) = 1 THEN Tail(q) = <<>> /\ Head(q) = q[Len(q)]
           ELSE Tail(q) # <<>> /\ Tail(q)[Len(Tail(q))] = q[Len(q)]
<1>1. Len(q) \in Nat /\ Len(q) # 0 /\ Head(q) = q[1]
  OBVIOUS
<1>2. /\ Tail(q) \in Seq(Update) /\ Len(Tail(q)) = Len(q) - 1
      /\ \A i \in 1..Len(Tail(q)) : Tail(q)[i] = q[i + 1]
  BY HeadTailProperties
<1>3. CASE Len(q) = 1
  <2>1. Tail(q) = <<>>
    <3>1. Len(Tail(q)) = 0
      BY <1>2, <1>3
    <3>2. \A s \in Seq(Update) : s # <<>> => Len(s) # 0
      BY EmptySeq
    <3> QED
      BY <1>2, <3>1, <3>2
  <2> QED
    BY <1>1, <1>3, <2>1
<1>4. CASE Len(q) # 1
  <2>1. Len(q) - 1 \in 1..Len(Tail(q)) /\ (Len(q) - 1) + 1 = Len(q) /\ Len(Tail(q)) # 0
    BY <1>1, <1>2, <1>4
  <2>2. Tail(q) # <<>>
    BY <1>2, <2>1, EmptySeq
  <2> QED
    BY <1>2, <1>4, <2>1, <2>2
<1> QED
  BY <1>3, <1>4

\* A port becomes stable in Stable only; nothing else changes the last update.
LEMMA PortLater ==
    ASSUME PortInv, Connection
    PROVE  \/ Stable(enabled)
           \/ (native'.port = "stable" => native.port = "stable" /\ Last' = Last)
<1> USE DEF PortInv, PortTypeOK, Last
<1>1. ASSUME NEW missing \in BOOLEAN, PortLost(missing) PROVE native'.port # "stable"
  BY <1>1, Reschedules DEF PortLost
<1>2. CASE RetryTimer
  <2> DEFINE fired == [native EXCEPT !.timer = FALSE]
  <2>1. Sound(fired) /\ fired.port = native.port /\ fired \in Controllers /\ (fired.alarm => fired.idle)
    BY DEF Sound, Controllers
  <2>2. native' = IF fired.missing /\ ~ui THEN QueueIdle(fired) ELSE ConnectNative(fired)
    BY <1>2 DEF RetryTimer
  <2> HIDE DEF fired
  <2> QED
    BY <1>2, <2>1, <2>2, Idles, Connects DEF RetryTimer
<1>3. CASE SetupAlarm
  <2> DEFINE fired == [native EXCEPT !.alarm = FALSE]
  <2>1. fired.port = native.port /\ fired \in Controllers /\ (fired.alarm => fired.idle)
    BY DEF Sound, Controllers
  <2>2. native' = ConnectNative(fired)
    BY <1>3 DEF SetupAlarm
  <2> HIDE DEF fired
  <2> QED
    BY <1>3, <2>1, <2>2, Connects DEF SetupAlarm
<1>4. CASE OpenUi
  BY <1>4, Connects DEF OpenUi, Sound
<1>5. CASE CloseUi
  BY <1>5, Idles DEF CloseUi
<1>6. CASE ConnectThrows
  <2> DEFINE tried == [ClearIdle(native) EXCEPT !.timer = FALSE]
  <2>1. Sound(tried)
    <3> DEFINE m == ClearIdle(native)
    <3>1. m \in Controllers /\ m.idle = FALSE /\ m.alarm = FALSE
      BY DEF Sound, Controllers, ClearIdle
    <3> HIDE DEF m
    <3> QED
      BY <3>1 DEF Sound, Controllers, m
  <2>2. native' = ScheduleReconnect(tried, FALSE)
    BY <1>6 DEF ConnectThrows
  <2> HIDE DEF tried
  <2> QED
    BY <2>1, <2>2, Reschedules
<1>7. CASE DaemonHears
  <2>1. wire \in Seq(Update) /\ wire # <<>> /\ seen' = Head(wire) /\ wire' = Tail(wire) /\ native' = native
    BY <1>7 DEF DaemonHears
  <2> QED
    BY <2>1, LastStays
<1> QED
  BY <1>1, <1>2, <1>3, <1>4, <1>5, <1>6, <1>7 DEF Connection

\* The connection's events keep the invariant: a stable port hears the grant.
LEMMA ConnectionKeeps ==
    ASSUME PortInv, StateTypeOK, OthersOK, Connection PROVE PortInv' /\ StateTypeOK' /\ OthersOK'
<1>1. UNCHANGED <<enabled, stored, queue, step, check, starting, windows, closing, events, run, clock,
                  inputs, restarts, crossed>>
  BY DEF Connection, sessionVars
<1>2. Grant' = Grant /\ \A op : Awaited(op)' <=> Awaited(op)
  BY <1>1 DEF Grant, Awaited
<1>3. PortInv'
  <2>1. enabled \in AnyGrant
    BY GrantsKnown DEF StateTypeOK, AnyGrant
  <2> QED
    BY <2>1, PortMoves
<1>4. StateTypeOK' /\ PlacesOK' /\ StorageOK'
  BY <1>1, <1>2 DEF StateTypeOK, PlacesOK, StorageOK, OthersOK, Returning
<1>5. ToldOK'
  <2>1. ToldOK
    BY DEF OthersOK
  <2>2. CASE Stable(enabled)
    <3>1. wire = <<>> /\ seen = Silent
      BY <2>2 DEF Stable, PortInv
    <3>2. Last' = Present(enabled)
      <4>1. CASE enabled = NoGrant
        BY <2>2, <3>1, <4>1, Presents DEF Stable, Last, Silent
      <4>2. CASE enabled # NoGrant
        BY <2>2, <3>1, <4>2, Presents DEF Stable, Last
      <4> QED
        BY <4>1, <4>2
    <3> QED
      BY <1>1, <2>1, <3>2 DEF ToldOK, Granting
  <2>3. CASE native'.port = "stable" => native.port = "stable" /\ Last' = Last
    BY <1>1, <2>1, <2>3 DEF ToldOK, Granting
  <2> QED
    BY <2>2, <2>3, PortLater
<1> QED
  BY <1>3, <1>4, <1>5 DEF OthersOK

-----------------------------------------------------------------------------
(* The invariant. *)

\* It holds of the first worker.
LEMMA SessionInvInit == Init => SessionInv
<1> SUFFICES ASSUME Init PROVE SessionInv
  OBVIOUS
<1> USE SessionAssumption DEF Init, NativeInit
<1>1. PortInv
  <2>1. Sound(native) /\ native.port = "pending"
    BY PortStarts
  <2>2. Silent \in Update
    BY DEF Silent, Update, AnyGrant
  <2>3. <<>> \in Seq(Update) /\ FALSE \in BOOLEAN
    OBVIOUS
  <2>4. PortTypeOK
    <3>1. 0 \in 0..MaxUpsets
      OBVIOUS
    <3> QED
      BY <2>2, <2>3, <3>1 DEF PortTypeOK
  <2> QED
    BY <2>1, <2>4 DEF PortInv, RetryDue, NoPort
<1>2. StateTypeOK
  <2>1. queue \in Seq(Asked)
    BY Restarted
  <2>2. step \in [at : {"idle", "clearing", "releasing", "injecting", "announcing", "telling",
                       "reading", "restored", "found", "lost", "adopting", "priming", "sweeping"},
                   op : {"none", "enable", "disable", "revoke", "title", "removed", "restore",
                         "update", "startup"},
                   grant : Grant \union {NoGrant}, held : BOOLEAN]
    BY DEF Idle
  <2>3. check \in [at : {"idle", "asking", "clearing", "releasing"},
                    win : Window \union {NoWindow}, gone : BOOLEAN]
    BY DEF NoCheck
  <2>4. stored \in [session : Grant \union {NoGrant}, local : Grant \union {NoGrant}]
    <3>1. PICK g \in [win : Window, at : {1}, run : {0}] \union {NoGrant} : stored = Copies(g)
      OBVIOUS
    <3>2. g \in Grant \union {NoGrant}
      BY DEF Grant
    <3> QED
      BY <3>1, <3>2 DEF Copies
  <2>5. starting \in BOOLEAN /\ crossed \in BOOLEAN
    OBVIOUS
  <2>6. run \in Nat /\ clock \in Nat \ {0} /\ enabled \in Grant \union {NoGrant}
    OBVIOUS
  <2>7. windows \subseteq Window /\ closing \subseteq Window \ windows /\ events \subseteq {"startup", "update"}
    OBVIOUS
  <2> HIDE DEF Init, NativeInit
  <2> QED
    BY <2>1, <2>2, <2>3, <2>4, <2>5, <2>6, <2>7 DEF StateTypeOK
<1>3. Awaited("restore") /\ \A i \in DOMAIN queue : i = 1 /\ queue[i].op = "restore"
  BY Restarted DEF Awaited
<1>4. PlacesOK
  BY <1>3, KindsAre DEF PlacesOK, Idle
<1>5. StorageOK
  BY <1>3 DEF StorageOK, Returning, Idle
<1>6. ToldOK
  BY PortStarts DEF ToldOK, Idle, NoCheck
<1> QED
  BY <1>1, <1>2, <1>4, <1>5, <1>6 DEF SessionInv

\* Every step keeps it.
LEMMA SessionInvNext == SessionInv /\ [Next]_vars => SessionInv'
<1> SUFFICES ASSUME PortInv, StateTypeOK, OthersOK, [Next]_vars PROVE PortInv' /\ StateTypeOK' /\ OthersOK'
  BY DEF SessionInv, OthersOK
<1>1. ASSUME StateTypeOK', PortRests PROVE PortInv'
  <2>1. enabled' \in AnyGrant
    <3>1. Grant' \subseteq AnyGrant
      <4>1. run' \in Nat /\ clock' \in Nat
        BY <1>1 DEF StateTypeOK
      <4> QED
        BY <4>1 DEF Grant, AnyGrant
    <3> QED
      BY <1>1, <3>1 DEF StateTypeOK, AnyGrant
  <2> QED
    BY <1>1, <2>1, PortKept
<1>2. CASE Asks
  <2>1. UNCHANGED nativeVars
    BY <1>2 DEF Asks, Toggle, CloseWindow, WindowRemoved, RevokeSeen, TitleChanges, OnStartup, OnInstalled
  <2>2. PortRests
    BY <2>1 DEF PortRests, Says, nativeVars
  <2> QED
    BY <1>1, <1>2, <2>2, AsksKeep
<1>3. CASE Begins
  <2>1. PortRests
    <3>1. CASE StartStartup
      BY <3>1 DEF StartStartup, PortRests, Says
    <3>2. CASE \E op : Starts(op)
      BY <3>2 DEF Starts, PortRests, Says, nativeVars
    <3> QED
      BY <1>3, <3>1, <3>2 DEF Begins, StartEnable, StartDisable, StartTitle, StartRemoved, StartRestore, StartUpdate
  <2> QED
    BY <1>1, <1>3, <2>1, BeginsTypes, BeginsKeep
<1>4. CASE Onward
  <2>1. UNCHANGED <<native, ui, seen>> /\ (upsets' = upsets \/ Upset)
    BY <1>4 DEF Onward, TellCleared, Released, ReleaseFails, Granted, Announce, TellTitle, Restore, Restored,
       ReadBackup, BackupLost, BackupFound, AdoptBackup, Primed, Swept, Continues
  <2>2. wire' = wire \/ SendAccess(TRUE) \/ SendAccess(FALSE)
    BY <1>4 DEF Onward, TellCleared, Released, ReleaseFails, Granted, Announce, TellTitle, Restore, Restored,
       ReadBackup, BackupLost, BackupFound, AdoptBackup, Primed, Swept, Continues
  <2>3. PortRests
    BY <2>1, <2>2 DEF PortRests, Says
  <2> QED
    BY <1>1, <1>4, <2>3, OnwardTypes, OnwardKeep
<1>5. CASE Check
  <2>1. UNCHANGED <<native, ui, seen>> /\ (upsets' = upsets \/ Upset) /\ (wire' = wire \/ SendAccess(FALSE))
    BY <1>5 DEF Check, BeginCheck, AskAgain, Answered, TellGone, GoneReleased, Checks
  <2>2. PortRests
    BY <2>1 DEF PortRests, Says
  <2> QED
    BY <1>1, <1>5, <2>2, ChecksKeep
<1>6. CASE UNCHANGED vars
  <2>1. UNCHANGED <<nativeVars, enabled, stored, queue, step, check, starting, windows, closing, events,
                    run, clock, crossed>>
    BY <1>6 DEF vars, sessionVars
  <2>2. Rests
    BY <2>1 DEF Rests
  <2>3. StateTypeOK'
    BY <2>1 DEF StateTypeOK, Grant
  <2>4. PortInv'
    BY <2>1 DEF nativeVars, PortInv, PortTypeOK, RetryDue, NoPort
  <2> QED
    BY <2>2, <2>3, <2>4, RestsKeep
<1>7. Asks \/ Begins \/ Onward \/ Check \/ Ends \/ Connection \/ UNCHANGED vars
  BY DEF Next, Transition, Asks, Begins, Onward, Ends
<1> QED
  BY <1>2, <1>3, <1>4, <1>5, <1>6, <1>7, EndsKeep, ConnectionKeeps

\* The invariant holds in every reachable state.
LEMMA Invariant == Spec => []SessionInv
  BY SessionInvInit, SessionInvNext, PTL DEF Spec

-----------------------------------------------------------------------------
(* The results. *)

\* A browser that lost its host has the next attempt due, by the timer or by
\* the alarm, after any failures and restarts (background-reconnect.ts).
THEOREM RetriesDue == Spec => []RetryDue
<1>1. SessionInv => RetryDue
  BY DEF SessionInv, PortInv
<1> QED
  BY <1>1, Invariant, PTL

\* The worker's memory, both stored copies and, no check having crossed a
\* transition, the daemon agree on the grant whenever nothing is under way
\* (background-window-session.ts, background-native.ts).
THEOREM GrantsAgree == Spec => []GrantAgrees
<1>1. ASSUME SessionInv PROVE GrantAgrees
  <2> USE <1>1 DEF SessionInv
  <2>1. NativeTypeOK
    BY DEF NativeTypeOK, PortInv, PortTypeOK, Sound, Controllers
  <2>2. SessionTypeOK
    <3>1. {enabled, stored.session, stored.local} \subseteq Grant \union {NoGrant}
      BY DEF StateTypeOK
    <3>2. step.at = "releasing" => step.op \in {"enable", "disable", "revoke", "startup"}
      BY KindsAre DEF PlacesOK
    <3>3. step.at \in {"injecting", "announcing"} => step.op = "enable" /\ step.grant.at <= clock
      BY KindsAre DEF PlacesOK, Grant, StateTypeOK
    <3> QED
      BY <2>1, <3>1, <3>2, <3>3 DEF SessionTypeOK, StateTypeOK
  <2>3. RestartKeepsGrant
    <3>1. Settled => ~Awaited("startup") /\ ~Awaited("restore") /\ step.at = "idle"
      BY DEF Settled, Awaited, Idle
    <3> QED
      BY <3>1 DEF RestartKeepsGrant, StorageOK, Copies
  <2>4. AccessAgrees
    <3> SUFFICES ASSUME Settled, check = NoCheck, native.port = "stable", wire = <<>>, ~crossed
                 PROVE  seen = Present(enabled)
      BY DEF AccessAgrees, Present
    <3>1. step.at = "idle" /\ check.at = "idle" /\ Last = seen
      BY DEF Settled, Idle, NoCheck, Last
    <3> QED
      BY <3>1 DEF ToldOK
  <2> QED
    BY <2>2, <2>3, <2>4 DEF GrantAgrees
<1> QED
  BY <1>1, Invariant, PTL

\* Once the browser's start was noticed, the only grants made are new ones of
\* this run: no read begun earlier brings an old one back.
THEOREM GrantsStayGone == Spec => OldGrantNeverReturns
<1> DEFINE Renewed == starting /\ enabled' \notin {enabled, NoGrant} => enabled'.run = run
<1>1. ASSUME SessionInv, [Next]_vars PROVE Renewed
  <2> SUFFICES ASSUME starting, enabled' # enabled, enabled' # NoGrant PROVE enabled'.run = run
    OBVIOUS
  <2>1. Granted
    <3>1. ~Asks
      BY DEF Asks, Toggle, CloseWindow, WindowRemoved, RevokeSeen, TitleChanges, OnStartup, OnInstalled
    <3>2. ~Begins
      BY DEF Begins, StartEnable, StartDisable, StartTitle, StartRemoved, StartRestore, StartUpdate, StartStartup
    <3>3. Onward => Granted
      BY DEF Onward, TellCleared, Released, ReleaseFails, Granted, Announce, TellTitle, Restore, Restored,
         ReadBackup, BackupLost, BackupFound, AdoptBackup, Primed, Swept, Continues
    <3>4. ~Check
      BY DEF Check, BeginCheck, AskAgain, Answered, TellGone, GoneReleased, Checks
    <3>5. ~Ends
      BY DEF Ends, WorkerRestarts, ExtensionUpdates, BrowserRestarts, NewWorker
    <3>6. ~Connection /\ vars' # vars
      BY DEF Connection, vars, sessionVars
    <3> QED
      BY <1>1, <3>1, <3>2, <3>3, <3>4, <3>5, <3>6 DEF Next, Transition, Asks, Begins, Onward, Ends
  <2>2. step.op = "enable"
    BY <1>1, <2>1, KindsAre DEF Granted, Continues, SessionInv, PlacesOK
  <2> QED
    BY <1>1, <2>1, <2>2 DEF Granted, SessionInv, PlacesOK
<1> QED
  BY <1>1, Invariant, PTL DEF Spec, OldGrantNeverReturns
=============================================================================
