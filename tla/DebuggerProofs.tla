---------------------------- MODULE DebuggerProofs ----------------------------
(* Whatever Chrome, dialogs, callers and cleanups do in which order, a tab's  *)
(* debugger is never left to what was canceled: the invariant is about the    *)
(* calls in the coordinator's queue and in its dialog lane, of which those of *)
(* an earlier generation are stale.                                           *)
(*                                                                            *)
(* Interception, one of its owners, is proved about after it: the invariant   *)
(* says what the first of the queued jobs has done so far.  Then come the     *)
(* waits for a URL, which hold the hooks they share by a lease, and the       *)
(* activity history, which its worker may leave at any step.                  *)
EXTENDS DebuggerOwners, FetchIntercept, NavigationWaits, ActionLog, FiniteSetTheorems,
        SequenceTheorems, TLAPS

-----------------------------------------------------------------------------
(* The invariant. *)

Stages == {"waiting", "attaching", "initializing", "initialized", "undoing", "undoing lost",
           "working", "worked", "detaching"}
Tabs == [session : BOOLEAN, attached : BOOLEAN, holds : Nat, timer : {"none", "set", "fired"},
         generation : 0..MaxCleanups, dialog : BOOLEAN,
         queue : Seq(CallType), stage : Stages, again : BOOLEAN,
         lane : Seq(CallType), dialogStage : {"waiting", "working"}, burst : BOOLEAN]

InTurn(t) == t.queue # <<>> /\ t.stage # "waiting"

\* Nothing of the tab's generation is left.
Sealed(t) ==
    /\ ~t.attached /\ t.holds = 0 /\ t.timer = "none"
    /\ \A i \in DOMAIN t.queue : t.queue[i].generation # t.generation
    /\ \A i \in DOMAIN t.lane : t.lane[i].generation # t.generation

\* Calls are of no later generation, the timer's turn is there once and only
\* while the timer has fired, and only run and acquire have stages of their own.
QueueInv(t) ==
    /\ \A i \in DOMAIN t.queue :
         /\ t.queue[i].generation <= t.generation /\ t.queue[i].kind # "dialog"
         /\ t.queue[i].kind = "idle" =>
              /\ t.queue[i].generation = t.generation
              /\ t.timer = "fired" \/ (i = 1 /\ t.stage = "detaching" /\ t.timer = "none")
    /\ \A i, j \in DOMAIN t.queue : t.queue[i].kind = "idle" /\ t.queue[j].kind = "idle" => i = j
    /\ \A i \in DOMAIN t.lane : t.lane[i].generation <= t.generation
    /\ t.queue = <<>> => t.stage = "waiting"
    /\ t.lane = <<>> => t.dialogStage = "waiting"
    /\ t.stage \notin {"waiting", "detaching"} => Head(t.queue).kind \in {"run", "acquire"}

\* A command of an earlier generation is under way.
StaleWork(t) ==
    \/ t.queue # <<>> /\ t.stage \in {"initializing", "working"} /\ ~Current(t, First(t))
    \/ t.lane # <<>> /\ t.dialogStage = "working" /\ ~Current(t, Head(t.lane))

StaleInv(t) ==
    /\ InTurn(t) /\ ~Current(t, First(t)) => ~t.attached
    /\ StaleWork(t) => Sealed(t)

\* An owner has at most one call in the queue, the one its record waits for.
CallsKnown ==
    /\ \A i \in DOMAIN tab.queue :
         /\ tab.queue[i].kind \in {"acquire", "release"} =>
              tab.queue[i].who \in Owners /\ op[tab.queue[i].who] = tab.queue[i].kind
         /\ tab.queue[i].kind \in {"run", "idle", "spent"} => tab.queue[i].who \notin Owners
    /\ \A i, j \in DOMAIN tab.queue :
         i # j /\ tab.queue[i].who \in Owners => tab.queue[j].who # tab.queue[i].who
HoldsInv ==
    tab.holds + Cardinality({o \in Owners : op[o] = "acquire"}) <= MaxHolds + Cardinality(Owners)

\* A session the coordinator has forgotten will be given back.
SessionInv ==
    tab.session => \/ tab.attached
                   \/ barrier = "discarding"
                   \/ tab.queue # <<>> /\ tab.stage \in {"undoing", "undoing lost"}

\* While a tab is cleaned up it stays sealed, and an owner that still has a
\* record will be cleared.
BarrierInv ==
    /\ barrier # "off" =>
         /\ Sealed(tab)
         /\ \A o \in Owners \ {"emulation"} :
               own[o] = "none" \/ \E i \in DOMAIN toClear : toClear[i] = o
    /\ barrier = "off" => toClear = <<>>

OwnersTypeOK ==
    /\ tab \in Tabs /\ cleanups \in Nat /\ cleanups <= MaxCleanups /\ tab.generation <= cleanups
    /\ barrier \in {"off", "discarding", "clearing"} /\ toClear \in Seq(Owners)
    /\ own \in [Owners -> {"none", "starting", "owned"}]
    /\ op \in [Owners -> {"none", "acquire", "release"}]

DebuggerInv ==
    /\ OwnersTypeOK /\ QueueInv(tab) /\ StaleInv(tab) /\ CallsKnown /\ HoldsInv
    /\ SessionInv /\ BarrierInv

-----------------------------------------------------------------------------
(* One turn of the queue *)

SameLane(t, s) == s.generation = t.generation /\ s.lane = t.lane /\ s.dialogStage = t.dialogStage

\* The same calls, of which the timer's may be spent.
Like(p, q) ==
    /\ p \in Seq(CallType) /\ q \in Seq(CallType) /\ DOMAIN q = DOMAIN p
    /\ \A i \in DOMAIN p : /\ q[i].who = p[i].who /\ q[i].generation = p[i].generation
                           /\ q[i].kind = p[i].kind \/ (p[i].kind = "idle" /\ q[i].kind = "spent")
NoIdle(q) == \A i \in DOMAIN q : q[i].kind # "idle"

\* The call in turn goes on, or ends.
GoesOn(t, s) ==
    /\ s \in Tabs /\ SameLane(t, s) /\ Like(t.queue, s.queue) /\ Current(t, First(t))
    /\ s.stage # "waiting" /\ (s.stage # "detaching" => First(t).kind \in {"run", "acquire"})
    /\ \/ NoIdle(s.queue)
       \/ s.queue = t.queue /\ s.timer = t.timer /\ t.stage # "detaching"
       \/ s.queue = t.queue /\ First(t).kind = "idle" /\ s.timer = "none" /\ s.stage = "detaching"
Finishes(t, s) ==
    /\ s \in Tabs /\ SameLane(t, s) /\ s.stage = "waiting"
    /\ \E q : /\ Like(t.queue, q) /\ s.queue = Tail(q)
             /\ \/ NoIdle(q)
                \/ q = t.queue /\ s.timer = t.timer /\ t.stage # "detaching"
                \/ q = t.queue /\ First(t).kind = "idle"

Cold(t) == ~t.attached /\ t.holds = 0 /\ t.timer = "none"

\* What a turn may make of the tab, and tell its caller.
TurnsTo(t, s, told) ==
    /\ told = "pending" => GoesOn(t, s)
    /\ told # "pending" => Finishes(t, s) /\ (Sealed(t) => Cold(s))
    /\ s.holds <= t.holds \/ (s.holds = t.holds + 1 /\ told = "ok" /\ First(t).kind = "acquire")
    /\ s.session => \/ s.attached
                    \/ told = "pending" /\ s.stage \in {"undoing", "undoing lost"}
                    \/ t.session /\ ~t.attached /\ t.stage \notin {"undoing", "undoing lost"}

Ready(t) == t \in Tabs /\ QueueInv(t) /\ StaleInv(t) /\ t.queue # <<>>

-----------------------------------------------------------------------------
(* What the coordinator's helpers return *)

LEMMA HeadIs ==
    ASSUME NEW q \in Seq(CallType), q # <<>>
    PROVE  /\ 1 \in DOMAIN q /\ Head(q) = q[1] /\ q[1] \in CallType /\ Tail(q) \in Seq(CallType)
           /\ DOMAIN q = 1..Len(q) /\ Len(q) \in Nat
           /\ \A i \in DOMAIN Tail(q) : i \in Nat \ {0} /\ i + 1 \in DOMAIN q /\ Tail(q)[i] = q[i + 1]
<1> HIDE DEF CallType
<1> QED
  OBVIOUS

LEMMA ConsumedIs ==
    ASSUME NEW t \in Tabs, NEW c, c = Consumed(t)
    PROVE  /\ c \in Tabs /\ Like(t.queue, c.queue) /\ NoIdle(c.queue) /\ SameLane(t, c)
           /\ c.session = t.session /\ c.attached = t.attached /\ c.holds = t.holds
           /\ c.timer = "none" /\ c.stage = t.stage /\ c.again = t.again /\ c.dialog = t.dialog
           /\ c.burst = t.burst
<1>1. PICK q : q = [i \in DOMAIN t.queue |-> IF t.queue[i].kind = "idle"
                                            THEN [t.queue[i] EXCEPT !.kind = "spent"]
                                            ELSE t.queue[i]]
  OBVIOUS
<1>2. c = [t EXCEPT !.timer = "none", !.queue = q]
  BY <1>1 DEF Consumed
<1>3. t.queue \in Seq(CallType)
  BY DEF Tabs
<1>4. \A i \in DOMAIN t.queue : t.queue[i] \in CallType
  BY <1>3
<1>5. ASSUME NEW i \in DOMAIN t.queue
      PROVE  /\ q[i] \in CallType /\ q[i].who = t.queue[i].who
             /\ q[i].generation = t.queue[i].generation
             /\ q[i].kind = t.queue[i].kind \/ (t.queue[i].kind = "idle" /\ q[i].kind = "spent")
             /\ q[i].kind # "idle"
  BY <1>1, <1>4 DEF CallType
<1>6. DOMAIN q = DOMAIN t.queue /\ q \in Seq(CallType)
  <2>1. DOMAIN t.queue = 1..Len(t.queue) /\ Len(t.queue) \in Nat
    BY <1>3
  <2>2. q \in [1..Len(t.queue) -> CallType]
    BY <1>1, <1>5, <2>1
  <2> QED
    BY <1>1, <2>1, <2>2
<1>7. Like(t.queue, q) /\ NoIdle(q)
  BY <1>3, <1>5, <1>6 DEF Like, NoIdle
<1>8. c \in Tabs
  BY <1>2, <1>6 DEF Tabs
<1>9. c.queue = q /\ SameLane(t, c)
  BY <1>2 DEF Tabs, SameLane
<1>10. c.session = t.session /\ c.attached = t.attached /\ c.holds = t.holds /\ c.timer = "none"
  BY <1>2 DEF Tabs
<1>11. c.stage = t.stage /\ c.again = t.again /\ c.dialog = t.dialog /\ c.burst = t.burst
  BY <1>2 DEF Tabs
<1> QED
  BY <1>7, <1>8, <1>9, <1>10, <1>11

LEMMA RearmedIs ==
    ASSUME NEW t \in Tabs, NEW c, c = Rearmed(t)
    PROVE  /\ c \in Tabs /\ Like(t.queue, c.queue) /\ NoIdle(c.queue) /\ SameLane(t, c)
           /\ c.session = t.session /\ c.attached = t.attached /\ c.holds = t.holds
           /\ c.stage = t.stage /\ c.again = t.again
<1>1. PICK d : d = Consumed(t)
  OBVIOUS
<1>2. c = [d EXCEPT !.timer = "set"]
  BY <1>1 DEF Rearmed
<1>3. /\ d \in Tabs /\ Like(t.queue, d.queue) /\ NoIdle(d.queue) /\ SameLane(t, d)
      /\ d.session = t.session /\ d.attached = t.attached /\ d.holds = t.holds
      /\ d.stage = t.stage /\ d.again = t.again
  BY <1>1, ConsumedIs
<1>4. c \in Tabs
  BY <1>2, <1>3, ZenonT(30) DEF Tabs
<1>5. c.queue = d.queue /\ SameLane(d, c) /\ c.session = d.session /\ c.attached = d.attached
  BY <1>2, <1>3 DEF Tabs, SameLane
<1>6. c.holds = d.holds /\ c.stage = d.stage /\ c.again = d.again
  BY <1>2, <1>3 DEF Tabs
<1> QED
  BY <1>3, <1>4, <1>5, <1>6 DEF SameLane

LEMMA MarkedIs ==
    ASSUME NEW t \in Tabs, NEW c, c = MarkedDetached(t)
    PROVE  /\ c \in Tabs /\ Like(t.queue, c.queue) /\ NoIdle(c.queue) /\ SameLane(t, c)
           /\ c.session = t.session /\ Cold(c) /\ c.stage = t.stage /\ c.again = t.again
           /\ c.burst = t.burst
<1>1. PICK d : d = Consumed(t)
  OBVIOUS
<1>2. c = [d EXCEPT !.holds = 0, !.attached = FALSE, !.dialog = FALSE]
  BY <1>1 DEF MarkedDetached
<1>3. /\ d \in Tabs /\ Like(t.queue, d.queue) /\ NoIdle(d.queue) /\ SameLane(t, d)
      /\ d.session = t.session /\ d.timer = "none" /\ d.stage = t.stage /\ d.again = t.again
      /\ d.burst = t.burst
  BY <1>1, ConsumedIs
<1>4. c \in Tabs
  <2>1. 0 \in Nat
    OBVIOUS
  <2> QED
    BY <1>2, <1>3, <2>1, ZenonT(30) DEF Tabs
<1>5. c.queue = d.queue /\ SameLane(d, c) /\ c.session = d.session
  BY <1>2, <1>3 DEF Tabs, SameLane
<1>6. Cold(c) /\ c.stage = d.stage /\ c.again = d.again /\ c.burst = d.burst
  BY <1>2, <1>3 DEF Tabs, Cold
<1> QED
  BY <1>3, <1>4, <1>5, <1>6 DEF SameLane

LEMMA EndsIs ==
    ASSUME NEW u \in Tabs, u.queue # <<>>, NEW told, NEW r, r = Ends(u, told)
    PROVE  /\ r.told = told /\ r.tab \in Tabs /\ r.tab.queue = Tail(u.queue) /\ r.tab.stage = "waiting"
           /\ SameLane(u, r.tab) /\ r.tab.session = u.session /\ r.tab.attached = u.attached
           /\ r.tab.holds = u.holds /\ r.tab.timer = u.timer
<1>1. PICK s : s = [u EXCEPT !.queue = Tail(u.queue), !.stage = "waiting", !.again = FALSE]
  OBVIOUS
<1>2. r.told = told /\ r.tab = s
  BY <1>1 DEF Ends
<1>3. u.queue \in Seq(CallType) /\ Tail(u.queue) \in Seq(CallType)
  BY HeadIs DEF Tabs
<1>4. s \in Tabs
  BY <1>1, <1>3 DEF Tabs, Stages
<1>5. s.queue = Tail(u.queue) /\ s.stage = "waiting" /\ SameLane(u, s)
  BY <1>1 DEF Tabs, SameLane
<1>6. s.session = u.session /\ s.attached = u.attached /\ s.holds = u.holds /\ s.timer = u.timer
  BY <1>1 DEF Tabs
<1> QED
  BY <1>2, <1>4, <1>5, <1>6

-----------------------------------------------------------------------------
(* Every turn goes on or ends *)

\* A call that ends, with u for what became of the tab.
LEMMA ByEnds ==
    ASSUME NEW t, Ready(t), NEW u \in Tabs, Like(t.queue, u.queue), SameLane(t, u),
           NEW told, told # "pending", NEW r, r = Ends(u, told),
           \/ NoIdle(u.queue)
           \/ u.queue = t.queue /\ u.timer = t.timer /\ t.stage # "detaching"
           \/ u.queue = t.queue /\ First(t).kind = "idle",
           Sealed(t) => Cold(u),
           u.holds <= t.holds \/ (u.holds = t.holds + 1 /\ told = "ok" /\ First(t).kind = "acquire"),
           u.session => u.attached \/ (t.session /\ ~t.attached /\ t.stage \notin {"undoing", "undoing lost"})
    PROVE  TurnsTo(t, r.tab, r.told)
<1>1. u.queue # <<>>
  <2>1. t.queue # <<>> /\ t.queue \in Seq(CallType) /\ u.queue \in Seq(CallType) /\ DOMAIN u.queue = DOMAIN t.queue
    BY DEF Ready, Like
  <2>2. 1 \in DOMAIN u.queue
    BY <2>1, HeadIs
  <2> QED
    BY ONLY <2>2
<1>2. /\ r.told = told /\ r.tab \in Tabs /\ r.tab.queue = Tail(u.queue) /\ r.tab.stage = "waiting"
      /\ SameLane(u, r.tab) /\ r.tab.session = u.session /\ r.tab.attached = u.attached
      /\ r.tab.holds = u.holds /\ r.tab.timer = u.timer
  <2>1. u \in Tabs /\ r = Ends(u, told)
    OBVIOUS
  <2> QED
    BY ONLY <1>1, <2>1, EndsIs
<1>3. Finishes(t, r.tab)
  BY <1>2 DEF Finishes, SameLane
<1>4. Sealed(t) => Cold(r.tab)
  BY <1>2 DEF Cold
<1> QED
  BY <1>2, <1>3, <1>4 DEF TurnsTo

LEMMA ByGoes ==
    ASSUME NEW t, NEW s, GoesOn(t, s), NEW r, r = Goes(s), s.holds <= t.holds,
           s.session => \/ s.attached \/ s.stage \in {"undoing", "undoing lost"}
                        \/ t.session /\ ~t.attached /\ t.stage \notin {"undoing", "undoing lost"}
    PROVE  TurnsTo(t, r.tab, r.told)
<1>1. r.tab = s /\ r.told = "pending"
  BY DEF Goes
<1> QED
  BY <1>1 DEF TurnsTo

LEMMA ReadyFacts ==
    ASSUME NEW t, Ready(t)
    PROVE  /\ t \in Tabs /\ t.queue \in Seq(CallType) /\ Like(t.queue, t.queue) /\ SameLane(t, t)
           /\ 1 \in DOMAIN t.queue /\ First(t) = t.queue[1] /\ First(t) \in CallType
           /\ t.holds \in Nat /\ t.stage \in Stages
           /\ (Sealed(t) => Cold(t)) /\ (Current(t, First(t)) => ~Sealed(t))
           /\ (t.stage # "waiting" /\ ~Current(t, First(t)) => ~t.attached)
           /\ (First(t).kind = "idle" => Current(t, First(t)))
           /\ (t.stage \notin {"waiting", "detaching"} => First(t).kind \in {"run", "acquire"})
           /\ First(t).kind # "dialog"
<1>1. t \in Tabs /\ t.queue # <<>> /\ QueueInv(t) /\ StaleInv(t)
  BY DEF Ready
<1>2. t.queue \in Seq(CallType) /\ t.holds \in Nat /\ t.stage \in Stages
  BY <1>1 DEF Tabs
<1>3. 1 \in DOMAIN t.queue /\ First(t) = t.queue[1] /\ First(t) \in CallType
  BY <1>1, <1>2, HeadIs DEF First
<1>4. Like(t.queue, t.queue) /\ SameLane(t, t)
  BY <1>2 DEF Like, SameLane
<1>5. (Sealed(t) => Cold(t)) /\ (Current(t, First(t)) => ~Sealed(t))
  BY <1>3 DEF Sealed, Cold, Current
<1>6. t.stage # "waiting" /\ ~Current(t, First(t)) => ~t.attached
  BY <1>1 DEF StaleInv, InTurn
<1>7. First(t).kind = "idle" => Current(t, First(t))
  BY <1>1, <1>3 DEF QueueInv, Current
<1>8. (t.stage \notin {"waiting", "detaching"} => First(t).kind \in {"run", "acquire"}) /\ First(t).kind # "dialog"
  BY <1>1, <1>3 DEF QueueInv, First
<1> QED
  BY <1>1, <1>2, <1>3, <1>4, <1>5, <1>6, <1>7, <1>8

\* An end without a change.
LEMMA EndsAsIs ==
    ASSUME NEW t, Ready(t), t.stage \notin {"detaching", "undoing", "undoing lost"},
           NEW told, told # "pending", NEW r, r = Ends(t, told)
    PROVE  TurnsTo(t, r.tab, r.told)
<1>1. /\ t \in Tabs /\ Like(t.queue, t.queue) /\ SameLane(t, t) /\ t.holds \in Nat /\ (Sealed(t) => Cold(t))
  BY ReadyFacts
<1>2. t.holds <= t.holds
  <2>1. t.holds \in Nat
    BY <1>1
  <2> QED
    BY ONLY <2>1
<1> QED
  BY <1>1, <1>2, ByEnds

LEMMA AttachTurn ==
    ASSUME NEW t, Ready(t), t.stage = "attaching", NEW ok \in BOOLEAN, NEW r, r = AttachSettled(t, ok)
    PROVE  TurnsTo(t, r.tab, r.told)
<1>1. CASE ~Current(t, First(t))
  <2>1. r = Ends(t, "canceled")
    BY <1>1 DEF AttachSettled
  <2> QED
    BY <2>1, EndsAsIs
<1>2. CASE Current(t, First(t)) /\ ~ok
  <2>1. r = Ends(t, "failed")
    BY <1>2 DEF AttachSettled
  <2> QED
    BY <2>1, EndsAsIs
<1>3. CASE Current(t, First(t)) /\ ok
  <2>1. PICK s : s = [t EXCEPT !.session = TRUE, !.attached = TRUE, !.stage = "initializing"]
    OBVIOUS
  <2>2. r = Goes(s)
    BY <1>3, <2>1 DEF AttachSettled
  <2>3. t \in Tabs /\ Like(t.queue, t.queue) /\ First(t).kind \in {"run", "acquire"}
    BY ReadyFacts
  <2>4. s \in Tabs
    BY <2>1, <2>3 DEF Tabs, Stages
  <2>5. s.queue = t.queue /\ s.timer = t.timer /\ SameLane(t, s) /\ s.stage = "initializing" /\ s.attached
        /\ s.holds = t.holds
    BY <2>1, <2>3 DEF Tabs, SameLane
  <2>6. GoesOn(t, s)
    BY <1>3, <2>3, <2>4, <2>5 DEF GoesOn
  <2>7. s.holds <= t.holds
    BY <2>3, <2>5 DEF Tabs
  <2> QED
    BY <2>2, <2>5, <2>6, <2>7, ByGoes
<1> QED
  BY <1>1, <1>2, <1>3

\* The burst timer's callback in its turn.
LEMMA IdleTurn ==
    ASSUME NEW t, Ready(t), t.stage = "waiting", First(t).kind = "idle", NEW r, r = IdleBegun(t)
    PROVE  TurnsTo(t, r.tab, r.told)
<1>1. /\ t \in Tabs /\ t.queue \in Seq(CallType) /\ Like(t.queue, t.queue) /\ t.holds \in Nat
      /\ Current(t, First(t)) /\ ~Sealed(t)
  BY ReadyFacts
<1>2. CASE t.holds > 0
  <2>1. PICK u : u = [t EXCEPT !.timer = "none"]
    OBVIOUS
  <2>2. r = Ends(u, "ok")
    BY <1>1, <1>2, <2>1 DEF IdleBegun
  <2>3. u \in Tabs
    BY <1>1, <2>1 DEF Tabs
  <2>4. u.queue = t.queue /\ u.session = t.session /\ u.attached = t.attached /\ u.holds = t.holds /\ SameLane(t, u)
    BY <1>1, <2>1 DEF Tabs, SameLane
  <2>5. u.holds <= t.holds
    BY <1>1, <2>4
  <2> QED
    BY <1>1, <2>2, <2>3, <2>4, <2>5, ByEnds
<1>3. CASE t.holds = 0 /\ t.dialog
  <2>1. PICK u : u = Rearmed(t)
    OBVIOUS
  <2>2. r = Ends(u, "ok")
    BY <1>3, <2>1 DEF IdleBegun
  <2>3. /\ u \in Tabs /\ Like(t.queue, u.queue) /\ NoIdle(u.queue) /\ SameLane(t, u)
        /\ u.session = t.session /\ u.attached = t.attached /\ u.holds = t.holds
    BY <1>1, <2>1, RearmedIs
  <2>4. u.holds <= t.holds
    BY <1>1, <2>3
  <2> QED
    BY <1>1, <2>2, <2>3, <2>4, ByEnds
<1>4. CASE t.holds = 0 /\ ~t.dialog
  <2>1. PICK s : s = [t EXCEPT !.timer = "none", !.stage = "detaching"]
    OBVIOUS
  <2>2. r = Goes(s)
    BY <1>4, <2>1 DEF IdleBegun
  <2>3. s \in Tabs
    BY <1>1, <2>1 DEF Tabs, Stages
  <2>4. s.queue = t.queue /\ s.timer = "none" /\ s.stage = "detaching" /\ SameLane(t, s)
    BY <1>1, <2>1 DEF Tabs, SameLane
  <2>5. s.session = t.session /\ s.attached = t.attached /\ s.holds = t.holds
    BY <1>1, <2>1 DEF Tabs
  <2>6. GoesOn(t, s)
    BY <1>1, <2>3, <2>4 DEF GoesOn
  <2>7. s.holds <= t.holds
    BY <1>1, <2>5
  <2> QED
    BY <2>2, <2>5, <2>6, <2>7, ByGoes
<1>5. t.holds > 0 \/ t.holds = 0
  BY <1>1
<1>6. t.dialog \in BOOLEAN
  BY <1>1 DEF Tabs
<1> QED
  BY <1>2, <1>3, <1>4, <1>5, <1>6

LEMMA RunTurn ==
    ASSUME NEW t, Ready(t), t.stage = "waiting", First(t).kind = "run", Current(t, First(t)),
           NEW r, r = RunBegun(t)
    PROVE  TurnsTo(t, r.tab, r.told)
<1>1. t \in Tabs /\ t.holds \in Nat
  BY ReadyFacts
<1>2. PICK c : c = Consumed(t)
  OBVIOUS
<1>3. /\ c \in Tabs /\ Like(t.queue, c.queue) /\ NoIdle(c.queue) /\ SameLane(t, c)
      /\ c.session = t.session /\ c.attached = t.attached /\ c.holds = t.holds
  BY <1>1, <1>2, ConsumedIs
<1>4. PICK st \in {"attaching", "working"} : r = Goes([c EXCEPT !.stage = st])
  BY <1>2 DEF RunBegun
<1>5. PICK s : s = [c EXCEPT !.stage = st]
  OBVIOUS
<1>6. s \in Tabs
  BY <1>3, <1>5 DEF Tabs, Stages
<1>7. s.queue = c.queue /\ s.stage = st /\ SameLane(c, s)
  BY <1>3, <1>5 DEF Tabs, SameLane
<1>8. s.session = c.session /\ s.attached = c.attached /\ s.holds = c.holds
  BY <1>3, <1>5 DEF Tabs
<1>9. GoesOn(t, s)
  BY <1>3, <1>6, <1>7 DEF GoesOn, SameLane
<1>10. s.holds <= t.holds
  BY <1>1, <1>3, <1>8
<1> QED
  BY <1>3, <1>4, <1>5, <1>8, <1>9, <1>10, ByGoes

LEMMA AcquireTurn ==
    ASSUME NEW t, Ready(t), t.stage = "waiting", First(t).kind = "acquire", Current(t, First(t)),
           NEW r, r = AcquireBegun(t)
    PROVE  TurnsTo(t, r.tab, r.told)
<1>1. /\ t \in Tabs /\ t.queue \in Seq(CallType) /\ Like(t.queue, t.queue) /\ t.holds \in Nat
      /\ ~Sealed(t) /\ t.attached \in BOOLEAN
  BY ReadyFacts DEF Tabs
<1>2. CASE t.holds > 0
  <2>1. PICK n \in Nat : n = t.holds + 1
    BY <1>1
  <2>2. PICK u : u = [t EXCEPT !.holds = n]
    OBVIOUS
  <2>3. r = Ends(u, "ok")
    BY <1>1, <1>2, <2>1, <2>2 DEF AcquireBegun
  <2>4. u \in Tabs
    BY <1>1, <2>2 DEF Tabs
  <2>5. u.queue = t.queue /\ u.timer = t.timer /\ SameLane(t, u)
    BY <1>1, <2>2 DEF Tabs, SameLane
  <2>6. u.session = t.session /\ u.attached = t.attached /\ u.holds = t.holds + 1
    BY <1>1, <2>1, <2>2 DEF Tabs
  <2> QED
    BY <1>1, <2>3, <2>4, <2>5, <2>6, ByEnds
<1>3. CASE t.holds = 0 /\ t.attached
  <2>1. PICK c : c = Consumed(t)
    OBVIOUS
  <2>2. /\ c \in Tabs /\ Like(t.queue, c.queue) /\ NoIdle(c.queue) /\ SameLane(t, c)
        /\ c.session = t.session /\ c.attached = t.attached
    BY <1>1, <2>1, ConsumedIs
  <2>3. PICK u : u = [c EXCEPT !.holds = 1]
    OBVIOUS
  <2>4. r = Ends(u, "ok")
    BY <1>3, <2>1, <2>3 DEF AcquireBegun
  <2>5. u \in Tabs
    <3>1. 1 \in Nat
      OBVIOUS
    <3> QED
      BY <2>2, <2>3, <3>1 DEF Tabs
  <2>6. u.queue = c.queue /\ SameLane(c, u)
    BY <2>2, <2>3 DEF Tabs, SameLane
  <2>7. u.session = c.session /\ u.attached = c.attached /\ u.holds = 1
    BY <2>2, <2>3 DEF Tabs
  <2>8. u.holds = t.holds + 1 /\ SameLane(t, u)
    BY <1>3, <2>2, <2>6, <2>7 DEF SameLane
  <2> QED
    BY <1>1, <1>3, <2>2, <2>4, <2>5, <2>6, <2>7, <2>8, ByEnds
<1>4. CASE t.holds = 0 /\ ~t.attached
  <2>1. PICK s : s = [t EXCEPT !.stage = "attaching"]
    OBVIOUS
  <2>2. r = Goes(s)
    BY <1>4, <2>1 DEF AcquireBegun
  <2>3. s \in Tabs
    BY <1>1, <2>1 DEF Tabs, Stages
  <2>4. s.queue = t.queue /\ s.timer = t.timer /\ s.stage = "attaching" /\ SameLane(t, s)
    BY <1>1, <2>1 DEF Tabs, SameLane
  <2>5. s.session = t.session /\ s.attached = t.attached /\ s.holds = t.holds
    BY <1>1, <2>1 DEF Tabs
  <2>6. GoesOn(t, s)
    BY <1>1, <2>3, <2>4 DEF GoesOn
  <2>7. s.holds <= t.holds
    BY <1>1, <2>5
  <2> QED
    BY <1>4, <2>2, <2>5, <2>6, <2>7, ByGoes
<1>5. t.holds > 0 \/ t.holds = 0
  BY <1>1
<1> QED
  BY <1>1, <1>2, <1>3, <1>4, <1>5

LEMMA ReleaseTurn ==
    ASSUME NEW t, Ready(t), t.stage = "waiting", First(t).kind = "release", Current(t, First(t)),
           NEW r, r = ReleaseBegun(t)
    PROVE  TurnsTo(t, r.tab, r.told)
<1>1. /\ t \in Tabs /\ t.queue \in Seq(CallType) /\ Like(t.queue, t.queue) /\ t.holds \in Nat
      /\ ~Sealed(t) /\ t.attached \in BOOLEAN
  BY ReadyFacts DEF Tabs
<1>2. CASE t.holds = 0
  <2>1. r = Ends(t, "ok")
    BY <1>2 DEF ReleaseBegun
  <2> QED
    BY <2>1, EndsAsIs
<1>3. CASE t.holds = 1
  <2>1. PICK s : s = [t EXCEPT !.holds = 0, !.stage = "detaching"]
    OBVIOUS
  <2>2. r = Goes(s)
    BY <1>3, <2>1 DEF ReleaseBegun
  <2>3. s \in Tabs
    <3>1. 0 \in Nat
      OBVIOUS
    <3> QED
      BY <1>1, <2>1, <3>1 DEF Tabs, Stages
  <2>4. s.queue = t.queue /\ s.timer = t.timer /\ s.stage = "detaching" /\ SameLane(t, s)
    BY <1>1, <2>1 DEF Tabs, SameLane
  <2>5. s.session = t.session /\ s.attached = t.attached /\ s.holds = 0
    BY <1>1, <2>1 DEF Tabs
  <2>6. GoesOn(t, s)
    BY <1>1, <2>3, <2>4 DEF GoesOn
  <2>7. s.holds <= t.holds
    BY <1>1, <2>5
  <2> QED
    BY <1>1, <2>2, <2>5, <2>6, <2>7, ByGoes
<1>4. CASE t.holds > 1
  <2>1. PICK n \in Nat : n = t.holds - 1
    BY <1>1, <1>4
  <2>2. PICK u : u = [t EXCEPT !.holds = n]
    OBVIOUS
  <2>3. r = Ends(u, "ok")
    BY <1>1, <1>4, <2>1, <2>2 DEF ReleaseBegun
  <2>4. u \in Tabs
    BY <1>1, <2>2 DEF Tabs
  <2>5. u.queue = t.queue /\ u.timer = t.timer /\ SameLane(t, u)
    BY <1>1, <2>2 DEF Tabs, SameLane
  <2>6. u.session = t.session /\ u.attached = t.attached /\ u.holds = n
    BY <1>1, <2>2 DEF Tabs
  <2>7. u.holds <= t.holds
    BY <1>1, <2>1, <2>6
  <2> QED
    BY <1>1, <2>3, <2>4, <2>5, <2>6, <2>7, ByEnds
<1>5. t.holds = 0 \/ t.holds = 1 \/ t.holds > 1
  BY <1>1
<1> QED
  BY <1>2, <1>3, <1>4, <1>5

LEMMA BegunTurn ==
    ASSUME NEW t, Ready(t), t.stage = "waiting", NEW r, r = Begun(t)
    PROVE  TurnsTo(t, r.tab, r.told)
<1>1. /\ First(t) \in CallType /\ First(t).kind # "dialog"
      /\ (First(t).kind = "idle" => Current(t, First(t)))
  BY ReadyFacts
<1>2. First(t).kind \in {"run", "acquire", "release", "idle", "spent"}
  BY <1>1 DEF CallType
<1>3. CASE First(t).kind = "spent"
  <2>1. r = Ends(t, "ok")
    BY <1>3 DEF Begun
  <2> QED
    BY <2>1, EndsAsIs
<1>4. CASE First(t).kind = "idle"
  <2>1. r = IdleBegun(t)
    BY <1>4 DEF Begun
  <2> QED
    BY <1>4, <2>1, IdleTurn
<1>5. CASE First(t).kind \in {"run", "acquire", "release"} /\ ~Current(t, First(t))
  <2>1. r = Ends(t, "canceled")
    BY <1>5 DEF Begun
  <2> QED
    BY <2>1, EndsAsIs
<1>6. CASE First(t).kind = "run" /\ Current(t, First(t))
  <2>1. r = RunBegun(t)
    BY <1>6 DEF Begun
  <2> QED
    BY <1>6, <2>1, RunTurn
<1>7. CASE First(t).kind = "acquire" /\ Current(t, First(t))
  <2>1. r = AcquireBegun(t)
    BY <1>7 DEF Begun
  <2> QED
    BY <1>7, <2>1, AcquireTurn
<1>8. CASE First(t).kind = "release" /\ Current(t, First(t))
  <2>1. r = ReleaseBegun(t)
    BY <1>8 DEF Begun
  <2> QED
    BY <1>8, <2>1, ReleaseTurn
<1> QED
  BY <1>2, <1>3, <1>4, <1>5, <1>6, <1>7, <1>8

\* A call that was canceled while it attached.
LEMMA DroppedTurn ==
    ASSUME NEW t, Ready(t), t.stage \in {"initializing", "initialized"}, ~Current(t, First(t)),
           NEW r, r = Ends([t EXCEPT !.attached = FALSE], "canceled")
    PROVE  TurnsTo(t, r.tab, r.told)
<1>1. /\ t \in Tabs /\ t.queue \in Seq(CallType) /\ Like(t.queue, t.queue) /\ t.holds \in Nat
      /\ ~t.attached /\ (Sealed(t) => Cold(t))
  BY ReadyFacts
<1>2. PICK u : u = [t EXCEPT !.attached = FALSE]
  OBVIOUS
<1>3. u \in Tabs
  BY <1>1, <1>2 DEF Tabs
<1>4. u.queue = t.queue /\ u.timer = t.timer /\ SameLane(t, u)
  BY <1>1, <1>2 DEF Tabs, SameLane
<1>5. u.session = t.session /\ ~u.attached /\ u.holds = t.holds
  BY <1>1, <1>2 DEF Tabs
<1>6. u.holds <= t.holds
  BY <1>1, <1>5
<1>7. Sealed(t) => Cold(u)
  BY <1>1, <1>4, <1>5 DEF Cold
<1> QED
  BY <1>1, <1>2, <1>3, <1>4, <1>5, <1>6, <1>7, ByEnds

\* A call that goes on as it is, one stage further.
LEMMA NextStage ==
    ASSUME NEW t, Ready(t), t.stage \notin {"waiting", "detaching", "undoing", "undoing lost"},
           Current(t, First(t)), NEW st \in {"initialized", "working", "worked"},
           NEW r, r = Goes([t EXCEPT !.stage = st])
    PROVE  TurnsTo(t, r.tab, r.told)
<1>1. /\ t \in Tabs /\ t.queue \in Seq(CallType) /\ Like(t.queue, t.queue) /\ t.holds \in Nat
      /\ First(t).kind \in {"run", "acquire"} /\ t.attached \in BOOLEAN
  <2>1. /\ t \in Tabs /\ t.queue \in Seq(CallType) /\ Like(t.queue, t.queue) /\ t.holds \in Nat
        /\ First(t).kind \in {"run", "acquire"}
    BY ReadyFacts
  <2>2. t.attached \in BOOLEAN
    BY <2>1 DEF Tabs
  <2> QED
    BY <2>1, <2>2
<1>2. PICK s : s = [t EXCEPT !.stage = st]
  OBVIOUS
<1>3. s \in Tabs
  BY <1>1, <1>2 DEF Tabs, Stages
<1>4. s.queue = t.queue /\ s.timer = t.timer /\ s.stage = st /\ SameLane(t, s)
  BY <1>1, <1>2 DEF Tabs, SameLane
<1>5. s.session = t.session /\ s.attached = t.attached /\ s.holds = t.holds
  BY <1>1, <1>2 DEF Tabs
<1>6. GoesOn(t, s)
  BY <1>1, <1>3, <1>4 DEF GoesOn
<1>7. s.holds <= t.holds
  <2>1. t.holds \in Nat /\ s.holds = t.holds
    BY <1>1, <1>5
  <2> QED
    BY ONLY <2>1
<1> QED
  BY <1>1, <1>2, <1>5, <1>6, <1>7, ByGoes

\* A call that goes on with the session forgotten.
LEMMA MarkedOn ==
    ASSUME NEW t, Ready(t), t.stage \in {"initializing", "working"}, Current(t, First(t)),
           NEW m, m = MarkedDetached(t), NEW s, s \in Tabs, s.queue = m.queue, SameLane(m, s),
           s.stage \in {"attaching", "undoing", "undoing lost"}, s.holds = 0,
           s.session => s.stage # "attaching", NEW r, r = Goes(s)
    PROVE  TurnsTo(t, r.tab, r.told)
<1>1. t \in Tabs /\ t.holds \in Nat /\ First(t).kind \in {"run", "acquire"}
  BY ReadyFacts
<1>2. /\ m \in Tabs /\ Like(t.queue, m.queue) /\ NoIdle(m.queue) /\ SameLane(t, m)
  BY <1>1, MarkedIs
<1>3. GoesOn(t, s)
  BY <1>1, <1>2 DEF GoesOn, SameLane
<1>4. s.holds <= t.holds
  <2>1. t.holds \in Nat /\ s.holds = 0
    BY <1>1
  <2> QED
    BY ONLY <2>1
<1> QED
  BY <1>3, <1>4, ByGoes

LEMMA InitTurn ==
    ASSUME NEW t, Ready(t), t.stage = "initializing", NEW outcome, NEW r, r = InitSettled(t, outcome)
    PROVE  TurnsTo(t, r.tab, r.told)
<1>1. CASE ~Current(t, First(t))
  <2>1. r = Ends([t EXCEPT !.attached = FALSE], "canceled")
    BY <1>1 DEF InitSettled
  <2> QED
    BY <1>1, <2>1, DroppedTurn
<1>2. CASE Current(t, First(t)) /\ outcome = "ok"
  <2>1. r = Goes([t EXCEPT !.stage = "initialized"])
    BY <1>2 DEF InitSettled
  <2> QED
    BY <1>2, <2>1, NextStage
<1>3. CASE Current(t, First(t)) /\ outcome # "ok"
  <2>1. PICK m : m = MarkedDetached(t)
    OBVIOUS
  <2>2. t \in Tabs
    BY ReadyFacts
  <2>3. m \in Tabs /\ m.session = t.session /\ Cold(m)
    BY <2>1, <2>2, MarkedIs
  <2>4. PICK st \in {"undoing", "undoing lost"} : r = Goes([m EXCEPT !.stage = st])
    BY <1>3, <2>1 DEF InitSettled
  <2>5. PICK s : s = [m EXCEPT !.stage = st]
    OBVIOUS
  <2>6. s \in Tabs
    BY <2>3, <2>5 DEF Tabs, Stages
  <2>7. s.queue = m.queue /\ SameLane(m, s) /\ s.stage = st /\ s.holds = 0
    BY <2>3, <2>5 DEF Tabs, SameLane, Cold
  <2> QED
    BY <1>3, <2>1, <2>4, <2>5, <2>6, <2>7, MarkedOn
<1> QED
  BY <1>1, <1>2, <1>3

LEMMA UndoneTurn ==
    ASSUME NEW t, Ready(t), t.stage \in {"undoing", "undoing lost"}, NEW r, r = Undone(t)
    PROVE  TurnsTo(t, r.tab, r.told)
<1>1. /\ t \in Tabs /\ t.queue \in Seq(CallType) /\ Like(t.queue, t.queue) /\ t.holds \in Nat
      /\ First(t).kind \in {"run", "acquire"} /\ (Sealed(t) => Cold(t))
  BY ReadyFacts
<1>2. PICK u : u = [t EXCEPT !.session = FALSE]
  OBVIOUS
<1>3. u \in Tabs
  BY <1>1, <1>2 DEF Tabs
<1>4. u.queue = t.queue /\ u.timer = t.timer /\ SameLane(t, u)
  BY <1>1, <1>2 DEF Tabs, SameLane
<1>5. ~u.session /\ u.attached = t.attached /\ u.holds = t.holds
  BY <1>1, <1>2 DEF Tabs
<1>6. u.holds <= t.holds
  <2>1. t.holds \in Nat /\ u.holds = t.holds
    BY <1>1, <1>5
  <2> QED
    BY ONLY <2>1
<1>7. CASE r = Ends(u, "failed")
  <2>1. Sealed(t) => Cold(u)
    BY <1>1, <1>4, <1>5 DEF Cold
  <2> QED
    BY <1>1, <1>3, <1>4, <1>5, <1>6, <1>7, <2>1, ByEnds
<1>8. CASE Current(t, First(t)) /\ r = Goes([u EXCEPT !.stage = "attaching", !.again = TRUE])
  <2>1. PICK s : s = [u EXCEPT !.stage = "attaching", !.again = TRUE]
    OBVIOUS
  <2>2. s \in Tabs
    BY <1>3, <2>1 DEF Tabs, Stages
  <2>3. s.queue = u.queue /\ s.timer = u.timer /\ SameLane(u, s) /\ s.stage = "attaching"
    BY <1>3, <2>1 DEF Tabs, SameLane
  <2>4. ~s.session /\ s.holds = u.holds
    BY <1>3, <1>5, <2>1 DEF Tabs
  <2>5. GoesOn(t, s)
    BY <1>1, <1>4, <1>8, <2>2, <2>3 DEF GoesOn, SameLane
  <2>6. s.holds <= t.holds
    BY <1>6, <2>4
  <2> QED
    BY <1>8, <2>1, <2>4, <2>5, <2>6, ByGoes
<1> QED
  BY <1>2, <1>7, <1>8 DEF Undone

LEMMA InitializedTurn ==
    ASSUME NEW t, Ready(t), t.stage = "initialized", NEW r, r = Initialized(t)
    PROVE  TurnsTo(t, r.tab, r.told)
<1>1. CASE ~Current(t, First(t))
  <2>1. r = Ends([t EXCEPT !.attached = FALSE], "canceled")
    BY <1>1 DEF Initialized
  <2> QED
    BY <1>1, <2>1, DroppedTurn
<1>2. CASE Current(t, First(t)) /\ First(t).kind = "run"
  <2>1. r = Goes([t EXCEPT !.stage = "working"])
    BY <1>2 DEF Initialized
  <2> QED
    BY <1>2, <2>1, NextStage
<1>3. CASE Current(t, First(t)) /\ First(t).kind # "run"
  <2>1. PICK u : u = [t EXCEPT !.holds = 1]
    OBVIOUS
  <2>2. r = Ends(u, "ok")
    BY <1>3, <2>1 DEF Initialized
  <2>3. /\ t \in Tabs /\ t.queue \in Seq(CallType) /\ Like(t.queue, t.queue) /\ t.holds \in Nat
        /\ First(t).kind \in {"run", "acquire"} /\ ~Sealed(t) /\ t.attached \in BOOLEAN
    BY <1>3, ReadyFacts DEF Tabs
  <2>4. u \in Tabs
    <3>1. 1 \in Nat
      OBVIOUS
    <3> QED
      BY <2>1, <2>3, <3>1 DEF Tabs
  <2>5. u.queue = t.queue /\ u.timer = t.timer /\ SameLane(t, u)
    BY <2>1, <2>3 DEF Tabs, SameLane
  <2>6. u.session = t.session /\ u.attached = t.attached /\ u.holds = 1
    BY <2>1, <2>3 DEF Tabs
  <2>7. u.holds <= t.holds \/ u.holds = t.holds + 1
    BY <2>3, <2>6
  <2> QED
    BY <1>3, <2>2, <2>3, <2>4, <2>5, <2>6, <2>7, ByEnds
<1> QED
  BY <1>1, <1>2, <1>3

\* A call that ends and leaves the session to the burst timer.
LEMMA RetainedTurn ==
    ASSUME NEW t, Ready(t), t.stage \in {"working", "worked"}, Current(t, First(t)),
           NEW told, told # "pending", NEW r, r = Ends(Retained(t), told)
    PROVE  TurnsTo(t, r.tab, r.told)
<1>1. CASE t.holds = 0 /\ t.attached
  <2>1. PICK u : u = Rearmed(t)
    OBVIOUS
  <2>2. r = Ends(u, told)
    BY <1>1, <2>1 DEF Retained
  <2>3. t \in Tabs /\ t.holds \in Nat /\ ~Sealed(t)
    BY ReadyFacts
  <2>4. /\ u \in Tabs /\ Like(t.queue, u.queue) /\ NoIdle(u.queue) /\ SameLane(t, u)
        /\ u.session = t.session /\ u.attached = t.attached /\ u.holds = t.holds
    BY <2>1, <2>3, RearmedIs
  <2>5. u.holds <= t.holds
    BY <2>3, <2>4
  <2> QED
    BY <1>1, <2>2, <2>3, <2>4, <2>5, ByEnds
<1>2. CASE ~(t.holds = 0 /\ t.attached)
  <2>1. r = Ends(t, told)
    BY <1>2 DEF Retained
  <2> QED
    BY <2>1, EndsAsIs
<1> QED
  BY <1>1, <1>2

LEMMA WorkTurn ==
    ASSUME NEW t, Ready(t), t.stage = "working", NEW outcome, outcome = "detached" => ~t.session,
           NEW r, r = WorkSettled(t, outcome)
    PROVE  TurnsTo(t, r.tab, r.told)
<1>1. t \in Tabs /\ t.holds \in Nat /\ (Current(t, First(t)) => ~Sealed(t))
  BY ReadyFacts
<1>2. PICK m : m = MarkedDetached(t)
  OBVIOUS
<1>3. /\ m \in Tabs /\ Like(t.queue, m.queue) /\ NoIdle(m.queue) /\ SameLane(t, m)
      /\ m.session = t.session /\ Cold(m)
  BY <1>1, <1>2, MarkedIs
<1>4. CASE ~Current(t, First(t))
  <2>1. r = Ends(t, "canceled")
    BY <1>4 DEF WorkSettled
  <2> QED
    BY <2>1, EndsAsIs
<1>5. CASE Current(t, First(t)) /\ outcome = "ok"
  <2>1. r = Goes([t EXCEPT !.stage = "worked"])
    BY <1>5 DEF WorkSettled
  <2> QED
    BY <1>5, <2>1, NextStage
<1>6. CASE Current(t, First(t)) /\ outcome = "detached" /\ Retries(t)
  <2>1. PICK s : s = [m EXCEPT !.stage = "attaching", !.again = TRUE]
    OBVIOUS
  <2>2. r = Goes(s)
    BY <1>2, <1>6, <2>1 DEF WorkSettled
  <2>3. s \in Tabs
    BY <1>3, <2>1 DEF Tabs, Stages
  <2>4. s.queue = m.queue /\ SameLane(m, s) /\ s.stage = "attaching"
    BY <1>3, <2>1 DEF Tabs, SameLane
  <2>5. s.holds = 0 /\ s.session = m.session
    BY <1>3, <2>1 DEF Tabs, Cold
  <2> QED
    BY <1>2, <1>3, <1>6, <2>2, <2>3, <2>4, <2>5, MarkedOn
<1>7. CASE Current(t, First(t)) /\ outcome = "detached" /\ ~t.again /\ ~Retries(t)
  <2>1. r = Ends(m, "failed")
    BY <1>2, <1>7 DEF WorkSettled
  <2>2. m.holds <= t.holds
    BY <1>1, <1>3 DEF Cold
  <2> QED
    BY <1>1, <1>3, <1>7, <2>1, <2>2, ByEnds
<1>8. CASE /\ Current(t, First(t)) /\ outcome # "ok" /\ ~(outcome = "detached" /\ Retries(t))
           /\ ~(outcome = "detached" /\ ~t.again /\ ~Retries(t))
  <2>1. r = Ends(Retained(t), "failed")
    BY <1>8 DEF WorkSettled
  <2> QED
    BY <1>8, <2>1, RetainedTurn
<1> QED
  BY <1>4, <1>5, <1>6, <1>7, <1>8

LEMMA WorkedTurn ==
    ASSUME NEW t, Ready(t), t.stage = "worked", NEW r, r = Worked(t)
    PROVE  TurnsTo(t, r.tab, r.told)
<1>1. CASE Current(t, First(t))
  <2>1. r = Ends(Retained(t), "ok")
    BY <1>1 DEF Worked
  <2> QED
    BY <1>1, <2>1, RetainedTurn
<1>2. CASE ~Current(t, First(t))
  <2>1. r = Ends(t, "canceled")
    BY <1>2 DEF Worked
  <2> QED
    BY <2>1, EndsAsIs
<1> QED
  BY <1>1, <1>2

LEMMA DetachTurn ==
    ASSUME NEW t, Ready(t), t.stage = "detaching", NEW r, r = DetachSettled(t)
    PROVE  TurnsTo(t, r.tab, r.told)
<1>1. t \in Tabs /\ t.holds \in Nat
  BY ReadyFacts
<1>2. PICK m : m = MarkedDetached(t)
  OBVIOUS
<1>3. m \in Tabs /\ Like(t.queue, m.queue) /\ NoIdle(m.queue) /\ SameLane(t, m) /\ Cold(m)
  BY <1>1, <1>2, MarkedIs
<1>4. PICK told : told # "pending" /\ r = Ends([m EXCEPT !.session = FALSE], told)
  BY <1>2 DEF DetachSettled
<1>5. PICK u : u = [m EXCEPT !.session = FALSE]
  OBVIOUS
<1>6. u \in Tabs
  BY <1>3, <1>5 DEF Tabs
<1>7. u.queue = m.queue /\ SameLane(m, u) /\ Cold(u) /\ ~u.session
  BY <1>3, <1>5 DEF Tabs, SameLane, Cold
<1>8. SameLane(t, u) /\ u.holds <= t.holds
  BY <1>1, <1>3, <1>7 DEF SameLane, Cold
<1> QED
  BY <1>3, <1>4, <1>5, <1>6, <1>7, <1>8, ByEnds

-----------------------------------------------------------------------------
(* What a turn keeps *)

LEMMA GoesOnKeeps ==
    ASSUME NEW t, Ready(t), NEW s, GoesOn(t, s)
    PROVE  QueueInv(s) /\ StaleInv(s) /\ ~Sealed(t) /\ s.queue # <<>>
<1>1. /\ t \in Tabs /\ t.queue \in Seq(CallType) /\ 1 \in DOMAIN t.queue /\ First(t) = t.queue[1]
      /\ ~Sealed(t) /\ QueueInv(t) /\ StaleInv(t)
  BY ReadyFacts DEF GoesOn, Ready
<1>2. /\ s \in Tabs /\ SameLane(t, s) /\ Like(t.queue, s.queue) /\ Current(t, First(t))
      /\ s.stage # "waiting" /\ (s.stage # "detaching" => First(t).kind \in {"run", "acquire"})
  BY DEF GoesOn
<1>3. DOMAIN s.queue = DOMAIN t.queue /\ s.queue \in Seq(CallType)
  BY <1>2 DEF Like
<1>4. s.queue # <<>>
  <2>1. 1 \in DOMAIN s.queue
    BY <1>1, <1>3
  <2> QED
    BY ONLY <2>1
<1>5. Head(s.queue) = s.queue[1] /\ First(s) = s.queue[1]
  BY <1>3, <1>4, HeadIs DEF First
<1>6. ASSUME NEW i \in DOMAIN s.queue
      PROVE  /\ i \in DOMAIN t.queue /\ s.queue[i].generation = t.queue[i].generation
             /\ s.queue[i].kind = t.queue[i].kind \/ (t.queue[i].kind = "idle" /\ s.queue[i].kind = "spent")
  BY <1>2, <1>3 DEF Like
<1>7. ASSUME NEW i \in DOMAIN s.queue
      PROVE  /\ s.queue[i].generation <= s.generation /\ s.queue[i].kind # "dialog"
             /\ s.queue[i].kind = "idle" => s.queue[i].generation = s.generation
  BY <1>1, <1>2, <1>6 DEF QueueInv, SameLane
<1>8. ASSUME NEW i \in DOMAIN s.queue, s.queue[i].kind = "idle"
      PROVE  s.timer = "fired" \/ (i = 1 /\ s.stage = "detaching" /\ s.timer = "none")
  <2>1. t.queue[i].kind = "idle" /\ i \in DOMAIN t.queue
    BY <1>6, <1>8
  <2>2. CASE s.queue = t.queue /\ s.timer = t.timer /\ t.stage # "detaching"
    BY <1>1, <2>1, <2>2 DEF QueueInv
  <2>3. CASE First(t).kind = "idle" /\ s.timer = "none" /\ s.stage = "detaching"
    BY <1>1, <2>1, <2>3 DEF QueueInv
  <2> QED
    BY <1>8, <2>2, <2>3 DEF GoesOn, NoIdle
<1>9. \A i, j \in DOMAIN s.queue : s.queue[i].kind = "idle" /\ s.queue[j].kind = "idle" => i = j
  BY <1>1, <1>6 DEF QueueInv
<1>10. /\ \A i \in DOMAIN s.lane : s.lane[i].generation <= s.generation
       /\ s.lane = <<>> => s.dialogStage = "waiting"
  BY <1>1, <1>2 DEF QueueInv, SameLane
<1>11. s.stage \notin {"waiting", "detaching"} => Head(s.queue).kind \in {"run", "acquire"}
  BY <1>1, <1>2, <1>3, <1>5, <1>6
<1>12. QueueInv(s)
  BY <1>4, <1>7, <1>8, <1>9, <1>10, <1>11 DEF QueueInv
<1>13. Current(s, First(s))
  BY <1>1, <1>2, <1>3, <1>5, <1>6 DEF Current, SameLane
<1>14. ~StaleWork(s)
  BY <1>1, <1>2, <1>13 DEF StaleWork, StaleInv, SameLane, Current
<1> QED
  BY <1>1, <1>4, <1>12, <1>13, <1>14 DEF StaleInv

\* What is left of the calls when the call in turn ends.
LEMMA RestIs ==
    ASSUME NEW t, Ready(t), NEW q, Like(t.queue, q), NEW i \in DOMAIN Tail(q)
    PROVE  /\ i \in Nat \ {0} /\ i + 1 \in DOMAIN t.queue /\ Tail(q)[i] = q[i + 1]
           /\ Tail(q)[i].who = t.queue[i + 1].who /\ Tail(q)[i].generation = t.queue[i + 1].generation
           /\ \/ Tail(q)[i].kind = t.queue[i + 1].kind
              \/ t.queue[i + 1].kind = "idle" /\ Tail(q)[i].kind = "spent"
<1>1. 1 \in DOMAIN t.queue /\ q \in Seq(CallType) /\ DOMAIN q = DOMAIN t.queue
  BY ReadyFacts DEF Like
<1>2. q # <<>>
  <2>1. 1 \in DOMAIN q
    BY <1>1
  <2> QED
    BY ONLY <2>1
<1>3. i \in Nat \ {0} /\ i + 1 \in DOMAIN q /\ Tail(q)[i] = q[i + 1]
  BY <1>1, <1>2, HeadIs
<1>4. PICK j \in DOMAIN t.queue : j = i + 1
  BY <1>1, <1>3
<1>5. /\ q[j].who = t.queue[j].who /\ q[j].generation = t.queue[j].generation
      /\ q[j].kind = t.queue[j].kind \/ (t.queue[j].kind = "idle" /\ q[j].kind = "spent")
  BY <1>4 DEF Like
<1> QED
  BY <1>3, <1>4, <1>5

LEMMA FinishesKeeps ==
    ASSUME NEW t, Ready(t), NEW s, Finishes(t, s), Sealed(t) => Cold(s)
    PROVE  QueueInv(s) /\ StaleInv(s) /\ (Sealed(t) => Sealed(s))
<1>1. /\ t \in Tabs /\ t.queue \in Seq(CallType) /\ 1 \in DOMAIN t.queue /\ First(t) = t.queue[1]
      /\ QueueInv(t) /\ StaleInv(t)
  BY ReadyFacts DEF Ready
<1>2. s \in Tabs /\ SameLane(t, s) /\ s.stage = "waiting"
  BY DEF Finishes
<1>3. PICK q : /\ Like(t.queue, q) /\ s.queue = Tail(q)
               /\ \/ NoIdle(q)
                  \/ q = t.queue /\ s.timer = t.timer /\ t.stage # "detaching"
                  \/ q = t.queue /\ First(t).kind = "idle"
  BY DEF Finishes
<1>4. ASSUME NEW i \in DOMAIN s.queue
      PROVE  /\ i \in Nat \ {0} /\ i + 1 \in DOMAIN t.queue /\ s.queue[i] = q[i + 1]
             /\ s.queue[i].generation = t.queue[i + 1].generation
             /\ \/ s.queue[i].kind = t.queue[i + 1].kind
                \/ t.queue[i + 1].kind = "idle" /\ s.queue[i].kind = "spent"
  BY <1>3, RestIs
<1>5. ASSUME NEW i \in DOMAIN s.queue
      PROVE  /\ s.queue[i].generation <= s.generation /\ s.queue[i].kind # "dialog"
             /\ s.queue[i].kind = "idle" => s.queue[i].generation = s.generation
  BY <1>1, <1>2, <1>4 DEF QueueInv, SameLane
<1>6. ASSUME NEW i \in DOMAIN s.queue, s.queue[i].kind = "idle"
      PROVE  s.timer = "fired"
  <2>1. PICK j \in DOMAIN t.queue : j = i + 1
    BY <1>4
  <2>2. t.queue[j].kind = "idle" /\ q[j].kind = "idle" /\ j # 1 /\ j \in DOMAIN q
    BY <1>3, <1>4, <1>6, <2>1 DEF Like
  <2>3. First(t).kind # "idle"
    BY <1>1, <2>2 DEF QueueInv
  <2>4. s.timer = t.timer /\ t.stage # "detaching"
    BY <1>3, <2>2, <2>3 DEF NoIdle
  <2> QED
    BY <1>1, <2>2, <2>4 DEF QueueInv
<1>7. ASSUME NEW i \in DOMAIN s.queue, NEW j \in DOMAIN s.queue,
             s.queue[i].kind = "idle", s.queue[j].kind = "idle"
      PROVE  i = j
  <2>1. PICK k \in DOMAIN t.queue : k = i + 1
    BY <1>4
  <2>2. PICK l \in DOMAIN t.queue : l = j + 1
    BY <1>4
  <2>3. t.queue[k].kind = "idle" /\ t.queue[l].kind = "idle"
    BY <1>4, <1>7, <2>1, <2>2
  <2>4. k = l
    BY <1>1, <2>3 DEF QueueInv
  <2> QED
    BY <1>4, <2>1, <2>2, <2>4
<1>8. /\ \A i \in DOMAIN s.lane : s.lane[i].generation <= s.generation
      /\ s.lane = <<>> => s.dialogStage = "waiting"
  BY <1>1, <1>2 DEF QueueInv, SameLane
<1>9. QueueInv(s)
  BY <1>2, <1>5, <1>6, <1>7, <1>8 DEF QueueInv
<1>10. ASSUME Sealed(t)
       PROVE  Sealed(s)
  <2>1. \A i \in DOMAIN s.queue : s.queue[i].generation # s.generation
    BY <1>2, <1>4, <1>10 DEF Sealed, SameLane
  <2>2. \A i \in DOMAIN s.lane : s.lane[i].generation # s.generation
    BY <1>2, <1>10 DEF Sealed, SameLane
  <2> QED
    BY <1>10, <2>1, <2>2 DEF Sealed, Cold
<1>11. StaleWork(s) => StaleWork(t)
  BY <1>2 DEF StaleWork, SameLane, Current
<1> QED
  BY <1>1, <1>2, <1>9, <1>10, <1>11 DEF StaleInv, InTurn

LEMMA FiniteOwners == IsFiniteSet(Owners) /\ "timer" \notin Owners
<1>1. IsFiniteSet({"emulation", "intercept", "capture"})
  <2>1. IsFiniteSet({"emulation"} \union {"intercept"})
    BY FS_Singleton, FS_Union
  <2>2. IsFiniteSet(({"emulation"} \union {"intercept"}) \union {"capture"})
    BY <2>1, FS_Singleton, FS_Union
  <2>3. ({"emulation"} \union {"intercept"}) \union {"capture"} = {"emulation", "intercept", "capture"}
    OBVIOUS
  <2> QED
    BY <2>2, <2>3
<1>2. Owners \subseteq {"emulation", "intercept", "capture"}
  BY OwnersAssumption
<1> QED
  BY <1>1, <1>2, FS_Subset

\* What the invariant says of the call in turn.
LEMMA TabReady ==
    ASSUME DebuggerInv, tab.queue # <<>>
    PROVE  /\ Ready(tab) /\ First(tab) \in CallType
           /\ First(tab).kind \in {"acquire", "release"} =>
                First(tab).who \in Owners /\ op[First(tab).who] = First(tab).kind
           /\ First(tab).who \in Owners => First(tab).kind \in {"acquire", "release"}
<1>1. Ready(tab)
  BY DEF DebuggerInv, OwnersTypeOK, Ready
<1>2. PICK t : t = tab
  OBVIOUS
<1>3. /\ 1 \in DOMAIN t.queue /\ First(t) = t.queue[1] /\ First(t) \in CallType
      /\ First(t).kind # "dialog"
  BY <1>1, <1>2, ReadyFacts
<1>4. First(tab).kind \in {"run", "acquire", "release", "idle", "spent"}
  BY <1>2, <1>3 DEF CallType
<1>5. CallsKnown
  BY DEF DebuggerInv
<1> QED
  BY <1>1, <1>2, <1>3, <1>4, <1>5 DEF CallsKnown

\* The records of the owner whose call has ended.
LEMMA RecordsAfterTurn ==
    ASSUME DebuggerInv, tab.queue # <<>>, NEW r, Turn(r), r.told # "pending"
    PROVE  /\ own' \in [Owners -> {"none", "starting", "owned"}]
           /\ op' \in [Owners -> {"none", "acquire", "release"}]
           /\ \A o \in Owners : o # First(tab).who => own'[o] = own[o] /\ op'[o] = op[o]
           /\ \A o \in Owners : own[o] = "none" => own'[o] = "none"
           /\ First(tab).who \in Owners => op'[First(tab).who] = "none"
<1>1. /\ own \in [Owners -> {"none", "starting", "owned"}]
      /\ op \in [Owners -> {"none", "acquire", "release"}]
  BY DEF DebuggerInv, OwnersTypeOK
<1>2. CASE First(tab).who \notin Owners
  <2>1. own' = own /\ op' = op
    BY <1>2 DEF Turn
  <2> QED
    BY <1>1, <1>2, <2>1
<1>3. CASE First(tab).who \in Owners
  <2>1. PICK o \in Owners : o = First(tab).who
    BY <1>3
  <2>2. own' = [own EXCEPT ![o] = Heard(o, r.told)] /\ op' = [op EXCEPT ![o] = "none"]
    BY <2>1 DEF Turn
  <2>3. Heard(o, r.told) \in {"none", "starting", "owned"} /\ (own[o] = "none" => Heard(o, r.told) = "none")
    BY <1>1, <2>1 DEF Heard
  <2> QED
    BY <1>1, <2>1, <2>2, <2>3
<1> QED
  BY <1>2, <1>3

LEMMA HoldsAfterTurn ==
    ASSUME DebuggerInv, tab.queue # <<>>, NEW r, Turn(r), TurnsTo(tab, r.tab, r.told), tab' \in Tabs
    PROVE  HoldsInv'
<1>1. PICK s \in Tabs : s = tab'
  OBVIOUS
<1>2. s.holds \in Nat /\ tab.holds \in Nat /\ MaxHolds \in Nat
  BY <1>1, OwnersAssumption DEF Tabs, DebuggerInv, OwnersTypeOK
<1>3. PICK A : A = {o \in Owners : op[o] = "acquire"}
  OBVIOUS
<1>4. PICK B : B = {o \in Owners : op'[o] = "acquire"}
  OBVIOUS
<1>5. IsFiniteSet(A) /\ IsFiniteSet(B) /\ IsFiniteSet(Owners)
  BY <1>3, <1>4, FiniteOwners, FS_Subset
<1>6. Cardinality(A) \in Nat /\ Cardinality(B) \in Nat /\ Cardinality(Owners) \in Nat
  BY <1>5, FS_CardinalityType
<1>7. tab.holds + Cardinality(A) <= MaxHolds + Cardinality(Owners)
  BY <1>3 DEF DebuggerInv, HoldsInv
<1>8. s.holds + Cardinality(B) <= tab.holds + Cardinality(A)
  <2>1. s = r.tab /\ (s.holds <= tab.holds
           \/ (s.holds = tab.holds + 1 /\ r.told = "ok" /\ First(tab).kind = "acquire"))
    BY <1>1 DEF Turn, TurnsTo
  <2>2. CASE r.told = "pending"
    <3>1. op' = op
      BY <2>2 DEF Turn
    <3>2. A = B
      BY <1>3, <1>4, <3>1
    <3>3. s.holds <= tab.holds
      BY <2>1, <2>2
    <3> QED
      BY <1>2, <1>6, <3>2, <3>3
  <2>3. CASE r.told # "pending" /\ First(tab).kind = "acquire"
    <3>1. First(tab).who \in Owners /\ op[First(tab).who] = "acquire"
      BY <2>3, TabReady
    <3>2. PICK o \in A : o = First(tab).who
      BY <1>3, <3>1
    <3>3. B = A \ {o}
      BY <1>3, <1>4, <2>3, <3>1, <3>2, RecordsAfterTurn
    <3>4. Cardinality(B) = Cardinality(A) - 1
      BY <1>5, <3>2, <3>3, FS_RemoveElement
    <3>5. s.holds <= tab.holds + 1
      BY <1>2, <2>1
    <3> QED
      BY <1>2, <1>6, <3>4, <3>5
  <2>4. CASE r.told # "pending" /\ First(tab).kind # "acquire"
    <3>1. B \subseteq A
      BY <1>3, <1>4, <2>4, RecordsAfterTurn
    <3>2. Cardinality(B) <= Cardinality(A)
      BY <1>5, <3>1, FS_Subset
    <3>3. s.holds <= tab.holds
      BY <2>1, <2>4
    <3> QED
      BY <1>2, <1>6, <3>2, <3>3
  <2> QED
    BY <2>2, <2>3, <2>4
<1>9. s.holds + Cardinality(B) <= MaxHolds + Cardinality(Owners)
  BY <1>2, <1>6, <1>7, <1>8
<1> QED
  BY <1>1, <1>4, <1>9 DEF HoldsInv

LEMMA CallsAfterTurn ==
    ASSUME DebuggerInv, tab.queue # <<>>, NEW r, Turn(r), TurnsTo(tab, r.tab, r.told)
    PROVE  CallsKnown'
<1>1. PICK t : t = tab
  OBVIOUS
<1>2. PICK s : s = tab' /\ s = r.tab
  BY DEF Turn
<1>3. Ready(t) /\ CallsKnown
  BY <1>1, TabReady DEF DebuggerInv
<1>4. CASE r.told = "pending"
  <2>1. Like(t.queue, s.queue)
    BY <1>1, <1>2, <1>4 DEF TurnsTo, GoesOn
  <2>2. own' = own /\ op' = op
    BY <1>4 DEF Turn
  <2>3. ASSUME NEW i \in DOMAIN s.queue
        PROVE  /\ i \in DOMAIN t.queue /\ s.queue[i].who = t.queue[i].who
               /\ s.queue[i].kind = t.queue[i].kind \/ (t.queue[i].kind = "idle" /\ s.queue[i].kind = "spent")
    BY <2>1 DEF Like
  <2> QED
    BY <1>1, <1>2, <1>3, <2>2, <2>3 DEF CallsKnown
<1>5. CASE r.told # "pending"
  <2>1. PICK q : Like(t.queue, q) /\ s.queue = Tail(q)
    BY <1>1, <1>2, <1>5 DEF TurnsTo, Finishes
  <2>2. ASSUME NEW i \in DOMAIN s.queue
        PROVE  /\ i \in Nat \ {0} /\ i + 1 \in DOMAIN t.queue
               /\ s.queue[i].who = t.queue[i + 1].who
               /\ \/ s.queue[i].kind = t.queue[i + 1].kind
                  \/ t.queue[i + 1].kind = "idle" /\ s.queue[i].kind = "spent"
    BY <1>3, <2>1, <2>2, RestIs
  <2>3. 1 \in DOMAIN t.queue /\ First(t) = t.queue[1]
    BY <1>3, ReadyFacts
  <2>4. ASSUME NEW i \in DOMAIN s.queue
        PROVE  /\ s.queue[i].kind \in {"acquire", "release"} =>
                    s.queue[i].who \in Owners /\ op'[s.queue[i].who] = s.queue[i].kind
               /\ s.queue[i].kind \in {"run", "idle", "spent"} => s.queue[i].who \notin Owners
    <3>1. PICK j \in DOMAIN t.queue : j = i + 1
      BY <2>2
    <3>2. /\ s.queue[i].who = t.queue[j].who /\ j # 1
          /\ s.queue[i].kind = t.queue[j].kind \/ (t.queue[j].kind = "idle" /\ s.queue[i].kind = "spent")
      BY <2>2, <3>1
    <3>3. /\ t.queue[j].kind \in {"acquire", "release"} =>
               t.queue[j].who \in Owners /\ op[t.queue[j].who] = t.queue[j].kind
          /\ t.queue[j].kind \in {"run", "idle", "spent"} => t.queue[j].who \notin Owners
      BY <1>1, <1>3 DEF CallsKnown
    <3>4. t.queue[j].who \in Owners => t.queue[1].who # t.queue[j].who
      BY <1>1, <1>3, <2>3, <3>2 DEF CallsKnown
    <3>5. t.queue[j].who \in Owners => op'[t.queue[j].who] = op[t.queue[j].who]
      BY <1>1, <1>5, <2>3, <3>4, RecordsAfterTurn
    <3> QED
      BY <3>2, <3>3, <3>5
  <2>5. ASSUME NEW i \in DOMAIN s.queue, NEW j \in DOMAIN s.queue, i # j, s.queue[i].who \in Owners
        PROVE  s.queue[j].who # s.queue[i].who
    <3>1. PICK k \in DOMAIN t.queue : k = i + 1
      BY <2>2
    <3>2. PICK l \in DOMAIN t.queue : l = j + 1
      BY <2>2
    <3>3. k # l
      BY <2>2, <2>5, <3>1, <3>2
    <3>4. s.queue[i].who = t.queue[k].who /\ s.queue[j].who = t.queue[l].who
      BY <2>2, <3>1, <3>2
    <3> QED
      BY <1>1, <1>3, <2>5, <3>3, <3>4 DEF CallsKnown
  <2> QED
    BY <1>2, <2>4, <2>5 DEF CallsKnown
<1> QED
  BY <1>4, <1>5

LEMMA TurnKeeps ==
    ASSUME DebuggerInv, tab.queue # <<>>, NEW r, Turn(r), TurnsTo(tab, r.tab, r.told)
    PROVE  DebuggerInv'
<1>1. PICK t : t = tab
  OBVIOUS
<1>2. PICK s : s = tab' /\ s = r.tab
  BY DEF Turn
<1>3. Ready(t) /\ TurnsTo(t, s, r.told)
  BY <1>1, <1>2, TabReady
<1>4. /\ barrier' = barrier /\ toClear' = toClear /\ cleanups' = cleanups
      /\ OwnersTypeOK /\ SessionInv /\ BarrierInv
  BY DEF Turn, DebuggerInv
<1>5. /\ QueueInv(s) /\ StaleInv(s) /\ s \in Tabs /\ SameLane(t, s)
      /\ (r.told = "pending" => ~Sealed(t) /\ s.queue # <<>>) /\ (r.told # "pending" /\ Sealed(t) => Sealed(s))
  <2>1. CASE r.told = "pending"
    <3>1. GoesOn(t, s)
      BY <1>3, <2>1 DEF TurnsTo
    <3> QED
      BY <1>3, <2>1, <3>1, GoesOnKeeps DEF GoesOn
  <2>2. CASE r.told # "pending"
    <3>1. Finishes(t, s) /\ (Sealed(t) => Cold(s))
      BY <1>3, <2>2 DEF TurnsTo
    <3> QED
      BY <1>3, <2>2, <3>1, FinishesKeeps DEF Finishes
  <2> QED
    BY <2>1, <2>2
<1>6. /\ own' \in [Owners -> {"none", "starting", "owned"}]
      /\ op' \in [Owners -> {"none", "acquire", "release"}]
      /\ \A o \in Owners : own[o] = "none" => own'[o] = "none"
  <2>1. CASE r.told = "pending"
    BY <1>4, <2>1 DEF Turn, OwnersTypeOK
  <2>2. CASE r.told # "pending"
    BY <2>2, RecordsAfterTurn
  <2> QED
    BY <2>1, <2>2
<1>7. OwnersTypeOK'
  BY <1>1, <1>2, <1>4, <1>5, <1>6 DEF OwnersTypeOK, SameLane
<1>8. CallsKnown' /\ HoldsInv'
  BY <1>2, <1>5, CallsAfterTurn, HoldsAfterTurn
<1>9. SessionInv'
  <2>1. ASSUME s.session
        PROVE  s.attached \/ barrier = "discarding" \/ (s.queue # <<>> /\ s.stage \in {"undoing", "undoing lost"})
    <3>1. \/ s.attached
          \/ r.told = "pending" /\ s.stage \in {"undoing", "undoing lost"}
          \/ t.session /\ ~t.attached /\ t.stage \notin {"undoing", "undoing lost"}
      BY <1>3, <2>1 DEF TurnsTo
    <3> QED
      BY <1>1, <1>4, <1>5, <3>1 DEF SessionInv
  <2> QED
    BY <1>2, <1>4, <2>1 DEF SessionInv
<1>10. BarrierInv'
  <2>1. barrier # "off" => Sealed(s)
    BY <1>1, <1>4, <1>5 DEF BarrierInv
  <2> QED
    BY <1>2, <1>4, <1>6, <2>1 DEF BarrierInv
<1> QED
  BY <1>2, <1>5, <1>7, <1>8, <1>9, <1>10 DEF DebuggerInv

-----------------------------------------------------------------------------
(* Steps beside the queue's turns *)

LaneMoves(t, s) ==
    \/ s.lane = t.lane /\ s.dialogStage = t.dialogStage
    \/ s.lane = t.lane /\ t.lane # <<>> /\ Current(t, Head(t.lane))
    \/ t.lane # <<>> /\ s.lane = Tail(t.lane) /\ s.dialogStage = "waiting"

\* The calls stay, and nothing is taken for them.
Side(t, s) ==
    /\ s \in Tabs /\ s.generation = t.generation /\ Like(t.queue, s.queue) /\ s.stage = t.stage
    /\ NoIdle(s.queue) \/ (s.queue = t.queue /\ s.timer = t.timer)
    /\ LaneMoves(t, s) /\ s.holds <= t.holds /\ (s.attached => t.attached) /\ (Sealed(t) => Cold(s))

LEMMA LikeIs ==
    ASSUME NEW p \in Seq(CallType), NEW q, Like(p, q)
    PROVE  /\ DOMAIN q = DOMAIN p /\ q \in Seq(CallType) /\ (p = <<>> <=> q = <<>>)
           /\ \A i \in DOMAIN p : /\ q[i].who = p[i].who /\ q[i].generation = p[i].generation
                                  /\ q[i].kind = p[i].kind \/ (p[i].kind = "idle" /\ q[i].kind = "spent")
           /\ p # <<>> => /\ 1 \in DOMAIN p /\ Head(p) = p[1] /\ Head(q) = q[1]
                          /\ Head(q).generation = Head(p).generation
<1>1. /\ DOMAIN q = DOMAIN p /\ q \in Seq(CallType)
      /\ \A i \in DOMAIN p : /\ q[i].who = p[i].who /\ q[i].generation = p[i].generation
                             /\ q[i].kind = p[i].kind \/ (p[i].kind = "idle" /\ q[i].kind = "spent")
  BY DEF Like
<1>2. p = <<>> <=> q = <<>>
  <2>1. p # <<>> => 1 \in DOMAIN p
    BY HeadIs
  <2>2. q # <<>> => 1 \in DOMAIN q
    BY <1>1, HeadIs
  <2>3. (1 \in DOMAIN p => p # <<>>) /\ (1 \in DOMAIN q => q # <<>>)
    OBVIOUS
  <2> QED
    BY <1>1, <2>1, <2>2, <2>3
<1>3. p # <<>> => 1 \in DOMAIN p /\ Head(p) = p[1] /\ Head(q) = q[1]
  BY <1>1, <1>2, HeadIs
<1> QED
  BY <1>1, <1>2, <1>3

LEMMA SideKeeps ==
    ASSUME NEW t \in Tabs, QueueInv(t), StaleInv(t), NEW s, Side(t, s)
    PROVE  QueueInv(s) /\ StaleInv(s) /\ (Sealed(t) => Sealed(s))
<1>1. /\ s \in Tabs /\ s.generation = t.generation /\ Like(t.queue, s.queue) /\ s.stage = t.stage
      /\ NoIdle(s.queue) \/ (s.queue = t.queue /\ s.timer = t.timer)
      /\ LaneMoves(t, s) /\ (s.attached => t.attached) /\ (Sealed(t) => Cold(s))
  BY DEF Side
<1>2. /\ t.queue \in Seq(CallType) /\ t.lane \in Seq(CallType)
  BY DEF Tabs
<1>3. /\ DOMAIN s.queue = DOMAIN t.queue /\ (t.queue = <<>> <=> s.queue = <<>>)
      /\ \A i \in DOMAIN t.queue :
            /\ s.queue[i].who = t.queue[i].who /\ s.queue[i].generation = t.queue[i].generation
            /\ s.queue[i].kind = t.queue[i].kind \/ (t.queue[i].kind = "idle" /\ s.queue[i].kind = "spent")
      /\ t.queue # <<>> => /\ 1 \in DOMAIN t.queue /\ Head(t.queue) = t.queue[1] /\ Head(s.queue) = s.queue[1]
                           /\ Head(s.queue).generation = Head(t.queue).generation
  BY <1>1, <1>2, LikeIs
<1>4. ASSUME NEW i \in DOMAIN s.lane
      PROVE  \E j \in DOMAIN t.lane : s.lane[i] = t.lane[j]
  <2>1. CASE s.lane = t.lane
    BY <2>1, <1>4
  <2>2. CASE t.lane # <<>> /\ s.lane = Tail(t.lane)
    BY <1>2, <1>4, <2>2, HeadIs
  <2> QED
    BY <1>1, <2>1, <2>2 DEF LaneMoves
<1>5. ASSUME NEW i \in DOMAIN s.queue
      PROVE  /\ s.queue[i].generation <= s.generation /\ s.queue[i].kind # "dialog"
             /\ s.queue[i].kind = "idle" =>
                  /\ s.queue[i].generation = s.generation
                  /\ s.timer = "fired" \/ (i = 1 /\ s.stage = "detaching" /\ s.timer = "none")
  BY <1>1, <1>3 DEF QueueInv, NoIdle
<1>6. \A i, j \in DOMAIN s.queue : s.queue[i].kind = "idle" /\ s.queue[j].kind = "idle" => i = j
  BY <1>3 DEF QueueInv
<1>7. \A i \in DOMAIN s.lane : s.lane[i].generation <= s.generation
  BY <1>1, <1>4 DEF QueueInv
<1>8. s.lane = <<>> => s.dialogStage = "waiting"
  BY <1>1 DEF LaneMoves, QueueInv
<1>9. /\ s.queue = <<>> => s.stage = "waiting"
      /\ s.stage \notin {"waiting", "detaching"} => Head(s.queue).kind \in {"run", "acquire"}
  BY <1>1, <1>3 DEF QueueInv
<1>10. QueueInv(s)
  BY <1>5, <1>6, <1>7, <1>8, <1>9 DEF QueueInv
<1>11. ASSUME Sealed(t)
       PROVE  Sealed(s)
  <2>1. \A i \in DOMAIN s.lane : s.lane[i].generation # s.generation
    BY <1>1, <1>4, <1>11 DEF Sealed
  <2>2. \A i \in DOMAIN s.queue : s.queue[i].generation # s.generation
    BY <1>1, <1>3, <1>11 DEF Sealed
  <2> QED
    BY <1>1, <1>11, <2>1, <2>2 DEF Sealed, Cold
<1>12. InTurn(s) /\ ~Current(s, First(s)) => ~s.attached
  BY <1>1, <1>3 DEF StaleInv, InTurn, Current, First
<1>13. StaleWork(s) => StaleWork(t)
  <2>1. s.queue # <<>> /\ s.stage \in {"initializing", "working"} /\ ~Current(s, First(s)) => StaleWork(t)
    BY <1>1, <1>3 DEF StaleWork, Current, First
  <2>2. s.lane # <<>> /\ s.dialogStage = "working" /\ ~Current(s, Head(s.lane)) => StaleWork(t)
    BY <1>1 DEF StaleWork, Current, LaneMoves
  <2> QED
    BY <2>1, <2>2 DEF StaleWork
<1> QED
  BY <1>10, <1>11, <1>12, <1>13 DEF StaleInv

LEMMA CallsStay ==
    ASSUME tab \in Tabs, CallsKnown, Like(tab.queue, tab'.queue), op' = op
    PROVE  CallsKnown'
<1>1. PICK t : t = tab
  OBVIOUS
<1>2. PICK s : s = tab'
  OBVIOUS
<1>3. \A i \in DOMAIN s.queue :
            /\ i \in DOMAIN t.queue /\ s.queue[i].who = t.queue[i].who
            /\ s.queue[i].kind = t.queue[i].kind \/ (t.queue[i].kind = "idle" /\ s.queue[i].kind = "spent")
  BY <1>1, <1>2 DEF Like
<1> QED
  BY <1>1, <1>2, <1>3 DEF CallsKnown

LEMMA HoldsStay ==
    ASSUME tab \in Tabs, tab' \in Tabs, HoldsInv, tab'.holds <= tab.holds,
           \A o \in Owners : op'[o] = "acquire" => op[o] = "acquire"
    PROVE  HoldsInv'
<1>1. PICK s : s = tab'
  OBVIOUS
<1>2. s.holds \in Nat /\ tab.holds \in Nat /\ MaxHolds \in Nat /\ s.holds <= tab.holds
  BY <1>1, OwnersAssumption DEF Tabs
<1>3. PICK A : A = {o \in Owners : op[o] = "acquire"}
  OBVIOUS
<1>4. PICK B : B = {o \in Owners : op'[o] = "acquire"}
  OBVIOUS
<1>5. IsFiniteSet(A) /\ IsFiniteSet(Owners) /\ B \subseteq A
  BY <1>3, <1>4, FiniteOwners, FS_Subset
<1>6. IsFiniteSet(B) /\ Cardinality(B) <= Cardinality(A)
  BY <1>5, FS_Subset
<1>7. Cardinality(A) \in Nat /\ Cardinality(B) \in Nat /\ Cardinality(Owners) \in Nat
  BY <1>5, <1>6, FS_CardinalityType
<1>8. tab.holds + Cardinality(A) <= MaxHolds + Cardinality(Owners)
  BY <1>3 DEF HoldsInv
<1>9. s.holds + Cardinality(B) <= MaxHolds + Cardinality(Owners)
  BY <1>2, <1>6, <1>7, <1>8
<1> QED
  BY <1>1, <1>4, <1>9 DEF HoldsInv

LEMMA SideStep ==
    ASSUME DebuggerInv, Side(tab, tab'), op' = op, cleanups' = cleanups, toClear' = toClear,
           own' \in [Owners -> {"none", "starting", "owned"}],
           \A o \in Owners : own[o] = "none" => own'[o] = "none",
           tab'.session => tab.session /\ (tab.attached => tab'.attached),
           barrier' = barrier \/ (barrier # "off" /\ barrier' = "clearing" /\ ~tab'.session)
    PROVE  DebuggerInv'
<1>1. PICK t : t = tab
  OBVIOUS
<1>2. PICK s : s = tab'
  OBVIOUS
<1>3. /\ OwnersTypeOK /\ QueueInv(t) /\ StaleInv(t) /\ CallsKnown /\ HoldsInv
      /\ SessionInv /\ BarrierInv /\ t \in Tabs
  BY <1>1 DEF DebuggerInv, OwnersTypeOK
<1>4. Side(t, s)
  BY <1>1, <1>2
<1>5. /\ s \in Tabs /\ s.generation = t.generation /\ Like(t.queue, s.queue) /\ s.stage = t.stage
      /\ s.holds <= t.holds
  BY <1>4 DEF Side
<1>6. QueueInv(s) /\ StaleInv(s) /\ (Sealed(t) => Sealed(s))
  BY <1>3, <1>4, SideKeeps
<1>7. CallsKnown' /\ HoldsInv'
  <2>1. CallsKnown'
    BY <1>1, <1>2, <1>3, <1>5, CallsStay
  <2>2. HoldsInv'
    BY <1>1, <1>2, <1>3, <1>5, HoldsStay
  <2> QED
    BY <2>1, <2>2
<1>8. OwnersTypeOK'
  BY <1>1, <1>2, <1>3, <1>5 DEF OwnersTypeOK
<1>9. t.queue = <<>> <=> s.queue = <<>>
  <2>1. t.queue \in Seq(CallType)
    BY <1>3 DEF Tabs
  <2> QED
    BY <1>5, <2>1, LikeIs
<1>10. SessionInv'
  BY <1>1, <1>2, <1>3, <1>5, <1>9 DEF SessionInv
<1>11. BarrierInv'
  BY <1>1, <1>2, <1>3, <1>6 DEF BarrierInv
<1> QED
  BY <1>2, <1>6, <1>7, <1>8, <1>10, <1>11 DEF DebuggerInv

-----------------------------------------------------------------------------
(* Steps that queue a call *)

LEMMA AppendIs ==
    ASSUME NEW q \in Seq(CallType), NEW c \in CallType, NEW a, a = Append(q, c)
    PROVE  /\ a \in Seq(CallType) /\ a # <<>>
           /\ \A i \in DOMAIN a : (i \in DOMAIN q /\ a[i] = q[i]) \/ (i \notin DOMAIN q /\ a[i] = c)
           /\ q # <<>> => Head(a) = Head(q)
           /\ \A i, j \in DOMAIN a : i \notin DOMAIN q /\ j \notin DOMAIN q => i = j
<1> HIDE DEF CallType
<1>1. a \in Seq(CallType) /\ Len(a) = Len(q) + 1 /\ Len(q) \in Nat /\ DOMAIN q = 1..Len(q)
      /\ DOMAIN a = 1..Len(a)
  OBVIOUS
<1>2. a # <<>>
  BY <1>1
<1>3. \A i \in DOMAIN a : (i \in DOMAIN q /\ a[i] = q[i]) \/ (i \notin DOMAIN q /\ i = Len(q) + 1 /\ a[i] = c)
  BY <1>1
<1>4. q # <<>> => Head(a) = Head(q)
  BY <1>1, <1>2, <1>3, HeadIs
<1> QED
  BY <1>1, <1>2, <1>3, <1>4

\* The tab with a call in its queue that nothing stale is left to.
Takes(t, s, c) ==
    /\ s \in Tabs /\ c \in CallType /\ c.generation = t.generation /\ c.kind # "dialog"
    /\ s.queue = Append(t.queue, c) /\ SameLane(t, s) /\ s.stage = t.stage
    /\ s.attached = t.attached /\ s.holds = t.holds /\ s.session = t.session
    /\ IF c.kind = "idle" THEN t.timer = "set" /\ s.timer = "fired" ELSE s.timer = t.timer

LEMMA TakesKeeps ==
    ASSUME NEW t \in Tabs, QueueInv(t), StaleInv(t), ~StaleWork(t), NEW s, NEW c, Takes(t, s, c)
    PROVE  QueueInv(s) /\ StaleInv(s)
<1>1. /\ s \in Tabs /\ c \in CallType /\ c.generation = t.generation /\ c.kind # "dialog"
      /\ s.queue = Append(t.queue, c) /\ SameLane(t, s) /\ s.stage = t.stage
      /\ s.attached = t.attached
      /\ IF c.kind = "idle" THEN t.timer = "set" /\ s.timer = "fired" ELSE s.timer = t.timer
  BY DEF Takes
<1>2. t.queue \in Seq(CallType) /\ t.generation \in Nat
  BY DEF Tabs
<1>3. /\ s.queue # <<>> /\ (t.queue # <<>> => Head(s.queue) = Head(t.queue))
      /\ \A i \in DOMAIN s.queue : \/ i \in DOMAIN t.queue /\ s.queue[i] = t.queue[i]
                                   \/ i \notin DOMAIN t.queue /\ s.queue[i] = c
      /\ \A i, j \in DOMAIN s.queue : i \notin DOMAIN t.queue /\ j \notin DOMAIN t.queue => i = j
  <2>1. PICK q \in Seq(CallType) : q = t.queue
    BY <1>2
  <2>2. PICK a : a = s.queue
    OBVIOUS
  <2>3. a = Append(q, c)
    BY <1>1, <2>1, <2>2
  <2>4. /\ a # <<>> /\ (q # <<>> => Head(a) = Head(q))
        /\ \A i \in DOMAIN a : (i \in DOMAIN q /\ a[i] = q[i]) \/ (i \notin DOMAIN q /\ a[i] = c)
        /\ \A i, j \in DOMAIN a : i \notin DOMAIN q /\ j \notin DOMAIN q => i = j
    BY <1>1, <2>3, AppendIs
  <2> QED
    BY ONLY <2>1, <2>2, <2>4
<1>4. ASSUME NEW i \in DOMAIN s.queue
      PROVE  /\ s.queue[i].generation <= s.generation /\ s.queue[i].kind # "dialog"
             /\ s.queue[i].kind = "idle" =>
                  /\ s.queue[i].generation = s.generation
                  /\ s.timer = "fired" \/ (i = 1 /\ s.stage = "detaching" /\ s.timer = "none")
  <2>1. CASE i \in DOMAIN t.queue /\ s.queue[i] = t.queue[i]
    <3>1. /\ t.queue[i].generation <= t.generation /\ t.queue[i].kind # "dialog"
          /\ t.queue[i].kind = "idle" =>
               /\ t.queue[i].generation = t.generation
               /\ t.timer = "fired" \/ (i = 1 /\ t.stage = "detaching" /\ t.timer = "none")
      BY <2>1 DEF QueueInv
    <3> QED
      BY <1>1, <2>1, <3>1 DEF SameLane
  <2>2. CASE s.queue[i] = c
    BY <1>1, <1>2, <2>2 DEF SameLane
  <2> QED
    BY <1>3, <2>1, <2>2
<1>5. ASSUME NEW i \in DOMAIN s.queue, NEW j \in DOMAIN s.queue,
             s.queue[i].kind = "idle", s.queue[j].kind = "idle"
      PROVE  i = j
  <2>1. ASSUME NEW k \in DOMAIN t.queue, t.queue[k].kind = "idle"
        PROVE  c.kind # "idle"
    <3>1. t.timer # "set"
      BY <2>1 DEF QueueInv
    <3> QED
      BY <1>1, <3>1
  <2>2. CASE c.kind = "idle"
    BY <1>3, <1>5, <2>1, <2>2
  <2>3. CASE c.kind # "idle"
    BY <1>3, <1>5, <2>3 DEF QueueInv
  <2> QED
    BY <2>2, <2>3
<1>6. /\ \A i \in DOMAIN s.lane : s.lane[i].generation <= s.generation
      /\ s.lane = <<>> => s.dialogStage = "waiting"
  BY <1>1 DEF QueueInv, SameLane
<1>7. s.stage \notin {"waiting", "detaching"} => Head(s.queue).kind \in {"run", "acquire"}
  BY <1>1, <1>3 DEF QueueInv
<1>8. QueueInv(s)
  BY <1>3, <1>4, <1>5, <1>6, <1>7 DEF QueueInv
<1>9. InTurn(s) /\ ~Current(s, First(s)) => ~s.attached
  BY <1>1, <1>3 DEF StaleInv, InTurn, Current, First, QueueInv, SameLane
<1>10. ~StaleWork(s)
  BY <1>1, <1>3 DEF StaleWork, Current, First, QueueInv, SameLane
<1> QED
  BY <1>8, <1>9, <1>10 DEF StaleInv

LEMMA CallsTaken ==
    ASSUME tab \in Tabs, CallsKnown, op \in [Owners -> {"none", "acquire", "release"}], QueueInv(tab),
           NEW c, Takes(tab, tab', c),
           \/ c.who \notin Owners /\ c.kind \in {"run", "idle"} /\ op' = op
           \/ /\ c.who \in Owners /\ c.kind \in {"acquire", "release"}
              /\ op[c.who] = "none" /\ op' = [op EXCEPT ![c.who] = c.kind]
    PROVE  CallsKnown'
<1>1. PICK t : t = tab
  OBVIOUS
<1>2. PICK s : s = tab'
  OBVIOUS
<1>3. c \in CallType /\ s.queue = Append(t.queue, c)
  BY <1>1, <1>2 DEF Takes
<1>4. t.queue \in Seq(CallType)
  BY <1>1 DEF Tabs
<1>5. /\ \A i \in DOMAIN s.queue : \/ i \in DOMAIN t.queue /\ s.queue[i] = t.queue[i]
                                   \/ i \notin DOMAIN t.queue /\ s.queue[i] = c
      /\ \A i, j \in DOMAIN s.queue : i \notin DOMAIN t.queue /\ j \notin DOMAIN t.queue => i = j
  BY <1>3, <1>4, AppendIs
<1>6. ASSUME NEW i \in DOMAIN t.queue
      PROVE  /\ t.queue[i].kind \in {"acquire", "release"} =>
                  t.queue[i].who \in Owners /\ op[t.queue[i].who] = t.queue[i].kind
             /\ t.queue[i].kind \in {"run", "idle", "spent"} => t.queue[i].who \notin Owners
             /\ t.queue[i].kind \in {"acquire", "release", "run", "idle", "spent"}
  <2>1. t.queue[i] \in CallType /\ t.queue[i].kind # "dialog"
    BY <1>1, <1>4 DEF QueueInv
  <2>2. t.queue[i].kind \in {"acquire", "release", "run", "idle", "spent"}
    BY <2>1 DEF CallType
  <2> QED
    BY <1>1, <2>2 DEF CallsKnown
<1>7. ASSUME NEW i \in DOMAIN t.queue, c.who \in Owners
      PROVE  t.queue[i].who # c.who
  BY <1>6, <1>7
<1>8. ASSUME NEW i \in DOMAIN s.queue
      PROVE  /\ s.queue[i].kind \in {"acquire", "release"} =>
                  s.queue[i].who \in Owners /\ op'[s.queue[i].who] = s.queue[i].kind
             /\ s.queue[i].kind \in {"run", "idle", "spent"} => s.queue[i].who \notin Owners
  <2>1. CASE i \in DOMAIN t.queue /\ s.queue[i] = t.queue[i]
    <3>1. t.queue[i].who \in Owners => op'[t.queue[i].who] = op[t.queue[i].who]
      BY <1>7, <2>1
    <3> QED
      BY <1>6, <2>1, <3>1
  <2>2. CASE s.queue[i] = c
    BY <2>2
  <2> QED
    BY <1>5, <2>1, <2>2
<1>9. ASSUME NEW i \in DOMAIN s.queue, NEW j \in DOMAIN s.queue, i # j, s.queue[i].who \in Owners
      PROVE  s.queue[j].who # s.queue[i].who
  <2>1. \A k, l \in DOMAIN t.queue : k # l /\ t.queue[k].who \in Owners => t.queue[l].who # t.queue[k].who
    BY <1>1 DEF CallsKnown
  <2> QED
    BY <1>5, <1>7, <1>9, <2>1
<1> QED
  BY <1>2, <1>8, <1>9 DEF CallsKnown

LEMMA TakesStep ==
    ASSUME DebuggerInv, ~StaleWork(tab), barrier = "off", NEW c, Takes(tab, tab', c), HoldsInv',
           UNCHANGED <<barrier, toClear, cleanups>>,
           own' \in [Owners -> {"none", "starting", "owned"}],
           \/ c.who \notin Owners /\ c.kind \in {"run", "idle"} /\ op' = op
           \/ /\ c.who \in Owners /\ c.kind \in {"acquire", "release"}
              /\ op[c.who] = "none" /\ op' = [op EXCEPT ![c.who] = c.kind]
    PROVE  DebuggerInv'
<1>1. PICK t : t = tab
  OBVIOUS
<1>2. PICK s : s = tab'
  OBVIOUS
<1>3. /\ OwnersTypeOK /\ QueueInv(t) /\ StaleInv(t) /\ CallsKnown
      /\ SessionInv /\ BarrierInv /\ t \in Tabs /\ op \in [Owners -> {"none", "acquire", "release"}]
  BY <1>1 DEF DebuggerInv, OwnersTypeOK
<1>4. /\ s \in Tabs /\ SameLane(t, s) /\ s.stage = t.stage /\ s.session = t.session
      /\ s.attached = t.attached /\ c \in CallType /\ s.queue = Append(t.queue, c)
  BY <1>1, <1>2 DEF Takes
<1>5. QueueInv(s) /\ StaleInv(s)
  BY <1>1, <1>2, <1>3, TakesKeeps
<1>6. CallsKnown'
  BY <1>1, <1>3, CallsTaken
<1>7. OwnersTypeOK'
  <2>1. op' \in [Owners -> {"none", "acquire", "release"}]
    BY <1>3
  <2> QED
    BY <1>1, <1>2, <1>3, <1>4, <2>1 DEF OwnersTypeOK, SameLane
<1>8. s.queue # <<>>
  <2>1. t.queue \in Seq(CallType)
    BY <1>3 DEF Tabs
  <2> QED
    BY <1>4, <2>1, AppendIs
<1>9. SessionInv'
  BY <1>1, <1>2, <1>3, <1>4, <1>8 DEF SessionInv
<1>10. BarrierInv'
  BY <1>3 DEF BarrierInv
<1> QED
  BY <1>2, <1>5, <1>6, <1>7, <1>9, <1>10 DEF DebuggerInv

LEMMA CanStartIs ==
    ASSUME DebuggerInv, CanStart(tab, barrier # "off")
    PROVE  ~StaleWork(tab) /\ barrier = "off"
<1>1. PICK t : t = tab
  OBVIOUS
<1>2. t \in Tabs /\ QueueInv(t) /\ InFlight(t) \subseteq {t.generation} /\ barrier = "off"
  BY <1>1 DEF DebuggerInv, OwnersTypeOK, CanStart
<1>3. t.queue \in Seq(CallType) /\ t.lane \in Seq(CallType) /\ t.generation \in Nat /\ MaxCleanups \in Nat
  BY <1>2, OwnersAssumption DEF Tabs
<1>4. t.queue # <<>> => First(t).generation \in 0..t.generation
  <2>1. ASSUME t.queue # <<>>
        PROVE  First(t).generation \in 0..t.generation
    <3>1. 1 \in DOMAIN t.queue /\ First(t) = t.queue[1] /\ First(t) \in CallType
      BY <1>3, <2>1, HeadIs DEF First
    <3>2. First(t).generation <= t.generation
      BY <1>2, <3>1 DEF QueueInv
    <3>3. First(t).generation \in Nat
      BY <1>3, <3>1 DEF CallType
    <3> QED
      BY <1>3, <3>2, <3>3
  <2> QED
    BY <2>1
<1>5. t.lane # <<>> => Head(t.lane).generation \in 0..t.generation
  <2>1. ASSUME t.lane # <<>>
        PROVE  Head(t.lane).generation \in 0..t.generation
    <3>1. 1 \in DOMAIN t.lane /\ Head(t.lane) = t.lane[1] /\ Head(t.lane) \in CallType
      BY <1>3, <2>1, HeadIs
    <3>2. Head(t.lane).generation <= t.generation
      BY <1>2, <3>1 DEF QueueInv
    <3>3. Head(t.lane).generation \in Nat
      BY <1>3, <3>1 DEF CallType
    <3> QED
      BY <1>3, <3>2, <3>3
  <2> QED
    BY <2>1
<1>6. t.queue # <<>> /\ t.stage \in {"initializing", "working"} => Current(t, First(t))
  BY <1>2, <1>4 DEF InFlight, Current
<1>7. t.lane # <<>> /\ t.dialogStage = "working" => Current(t, Head(t.lane))
  BY <1>2, <1>5 DEF InFlight, Current
<1> QED
  BY <1>1, <1>2, <1>6, <1>7 DEF StaleWork

\* The tab with one call more in its queue.
LEMMA QueuedIs ==
    ASSUME NEW t \in Tabs, NEW c \in CallType, c.generation = t.generation, c.kind \notin {"dialog", "idle"},
           NEW s, s = [t EXCEPT !.queue = Append(t.queue, c)]
    PROVE  Takes(t, s, c)
<1>1. PICK a : a = Append(t.queue, c)
  OBVIOUS
<1>2. a \in Seq(CallType)
  BY <1>1, AppendIs DEF Tabs
<1>3. s \in Tabs
  BY <1>1, <1>2 DEF Tabs
<1>4. s.queue = a /\ SameLane(t, s) /\ s.stage = t.stage /\ s.timer = t.timer
  BY <1>1 DEF Tabs, SameLane
<1>5. s.attached = t.attached /\ s.holds = t.holds /\ s.session = t.session
  BY <1>1 DEF Tabs
<1> QED
  BY <1>1, <1>3, <1>4, <1>5 DEF Takes

LEMMA CallIs ==
    ASSUME tab \in Tabs, NEW kind \in {"run", "acquire", "release", "idle", "spent", "dialog"},
           NEW who \in Callers \union Answerers \union Owners \union {"timer"},
           NEW c, c = Call(kind, who, tab.generation)
    PROVE  c \in CallType /\ c.generation = tab.generation /\ c.kind = kind /\ c.who = who
<1>1. tab.generation \in 0..MaxCleanups
  BY DEF Tabs
<1> QED
  BY <1>1 DEF Call, CallType

-----------------------------------------------------------------------------
(* The actions *)

LEMMA CallRunKeeps ==
    ASSUME DebuggerInv, NEW who \in Callers \union Answerers, CanStart(tab, barrier # "off"),
           tab' = Queued("run", who),
           UNCHANGED <<barrier, toClear, own, op, prompt, detaches, cleanups, dialogs>>
    PROVE  DebuggerInv'
<1>1. tab \in Tabs /\ HoldsInv /\ own \in [Owners -> {"none", "starting", "owned"}]
  BY DEF DebuggerInv, OwnersTypeOK
<1>2. PICK c : c = Call("run", who, tab.generation)
  OBVIOUS
<1>3. c \in CallType /\ c.generation = tab.generation /\ c.kind = "run" /\ c.who = who
  BY <1>1, <1>2, CallIs
<1>4. tab' = [tab EXCEPT !.queue = Append(tab.queue, c)]
  BY <1>2 DEF Queued
<1>5. Takes(tab, tab', c)
  <2>1. PICK s : s = [tab EXCEPT !.queue = Append(tab.queue, c)]
    OBVIOUS
  <2>2. Takes(tab, s, c)
    BY <1>1, <1>3, <2>1, QueuedIs
  <2> QED
    BY <1>4, <2>1, <2>2
<1>6. ~StaleWork(tab) /\ barrier = "off"
  BY CanStartIs
<1>7. HoldsInv'
  BY <1>1, <1>5 DEF Takes, HoldsInv
<1>8. c.who \notin Owners
  BY <1>3, OwnersAssumption
<1> QED
  BY <1>1, <1>3, <1>5, <1>6, <1>7, <1>8, TakesStep

\* A dialog call in its own lane.
LEMMA LaneKeeps ==
    ASSUME NEW t \in Tabs, QueueInv(t), StaleInv(t), ~StaleWork(t),
           NEW c \in CallType, c.generation = t.generation,
           NEW s, s = [t EXCEPT !.lane = Append(t.lane, c)]
    PROVE  s \in Tabs /\ QueueInv(s) /\ StaleInv(s)
<1>1. t.lane \in Seq(CallType) /\ t.generation \in Nat
  BY DEF Tabs
<1>2. PICK a : a = Append(t.lane, c)
  OBVIOUS
<1>3. /\ a \in Seq(CallType) /\ a # <<>> /\ (t.lane # <<>> => Head(a) = Head(t.lane))
      /\ \A i \in DOMAIN a : (i \in DOMAIN t.lane /\ a[i] = t.lane[i]) \/ (i \notin DOMAIN t.lane /\ a[i] = c)
  <2>1. PICK q \in Seq(CallType) : q = t.lane
    BY <1>1
  <2>2. /\ a \in Seq(CallType) /\ a # <<>> /\ (q # <<>> => Head(a) = Head(q))
        /\ \A i \in DOMAIN a : (i \in DOMAIN q /\ a[i] = q[i]) \/ (i \notin DOMAIN q /\ a[i] = c)
    BY <1>2, <2>1, AppendIs
  <2> QED
    BY ONLY <2>1, <2>2
<1>4. s \in Tabs
  BY <1>2, <1>3 DEF Tabs
<1>5. s.lane = a /\ s.queue = t.queue /\ s.stage = t.stage /\ s.timer = t.timer
  BY <1>2 DEF Tabs
<1>6. s.generation = t.generation /\ s.dialogStage = t.dialogStage /\ s.attached = t.attached
  BY DEF Tabs
<1>7. \A i \in DOMAIN s.lane : s.lane[i].generation <= s.generation
  BY <1>1, <1>3, <1>5, <1>6 DEF QueueInv
<1>8. QueueInv(s)
  BY <1>3, <1>5, <1>6, <1>7 DEF QueueInv
<1>9. ~StaleWork(s)
  <2>1. ~(s.queue # <<>> /\ s.stage \in {"initializing", "working"} /\ ~Current(s, First(s)))
    BY <1>5, <1>6 DEF StaleWork, Current, First
  <2>2. ~(s.lane # <<>> /\ s.dialogStage = "working" /\ ~Current(s, Head(s.lane)))
    BY <1>3, <1>5, <1>6 DEF StaleWork, Current, QueueInv
  <2> QED
    BY <2>1, <2>2 DEF StaleWork
<1>10. InTurn(s) /\ ~Current(s, First(s)) => ~s.attached
  BY <1>5, <1>6 DEF StaleInv, InTurn, Current, First
<1> QED
  BY <1>4, <1>8, <1>9, <1>10 DEF StaleInv

LEMMA CallDialogKeeps ==
    ASSUME DebuggerInv, NEW who \in Answerers, CallDialog(who)
    PROVE  DebuggerInv'
<1>1. /\ CanStart(tab, barrier # "off")
      /\ UNCHANGED <<barrier, toClear, own, op, prompt, detaches, cleanups, dialogs>>
  BY DEF CallDialog
<1>2. CASE tab' = Queued("run", who)
  BY <1>1, <1>2, CallRunKeeps
<1>3. CASE tab' = [tab EXCEPT !.lane = Append(tab.lane, Call("dialog", who, tab.generation))]
  <2>1. PICK t : t = tab
    OBVIOUS
  <2>2. /\ OwnersTypeOK /\ QueueInv(t) /\ StaleInv(t) /\ CallsKnown /\ HoldsInv
        /\ SessionInv /\ BarrierInv /\ t \in Tabs
    BY <2>1 DEF DebuggerInv, OwnersTypeOK
  <2>3. ~StaleWork(t) /\ barrier = "off"
    BY <1>1, <2>1, CanStartIs
  <2>4. PICK c : c = Call("dialog", who, t.generation)
    OBVIOUS
  <2>5. c \in CallType /\ c.generation = t.generation
    BY <2>1, <2>2, <2>4, CallIs
  <2>6. PICK s : s = [t EXCEPT !.lane = Append(t.lane, c)]
    OBVIOUS
  <2>7. s = tab'
    BY <1>3, <2>1, <2>4, <2>6
  <2>8. s \in Tabs /\ QueueInv(s) /\ StaleInv(s)
    BY <2>2, <2>3, <2>5, <2>6, LaneKeeps
  <2>9. s.queue = t.queue /\ s.stage = t.stage /\ s.generation = t.generation
    BY <2>2, <2>6 DEF Tabs
  <2>10. s.session = t.session /\ s.attached = t.attached /\ s.holds = t.holds
    BY <2>2, <2>6 DEF Tabs
  <2>11. OwnersTypeOK'
    BY <1>1, <2>1, <2>2, <2>7, <2>8, <2>9 DEF OwnersTypeOK
  <2>12. CallsKnown'
    BY <1>1, <2>1, <2>2, <2>7, <2>9 DEF CallsKnown
  <2>13. HoldsInv'
    BY <1>1, <2>1, <2>2, <2>7, <2>10 DEF HoldsInv
  <2>14. SessionInv'
    BY <1>1, <2>1, <2>2, <2>7, <2>9, <2>10 DEF SessionInv
  <2>15. BarrierInv'
    BY <1>1, <2>2, <2>3 DEF BarrierInv
  <2> QED
    BY <2>7, <2>8, <2>11, <2>12, <2>13, <2>14, <2>15 DEF DebuggerInv
<1> QED
  BY <1>2, <1>3 DEF CallDialog

LEMMA StartKeeps ==
    ASSUME DebuggerInv, NEW o \in Owners, Start(o)
    PROVE  DebuggerInv'
<1>1. /\ tab \in Tabs /\ own \in [Owners -> {"none", "starting", "owned"}]
      /\ op \in [Owners -> {"none", "acquire", "release"}]
  BY DEF DebuggerInv, OwnersTypeOK
<1>2. /\ CanStart(tab, barrier # "off") /\ tab.holds < MaxHolds /\ op[o] = "none"
      /\ own' = [own EXCEPT ![o] = "starting"] /\ op' = [op EXCEPT ![o] = "acquire"]
      /\ tab' = Queued("acquire", o)
      /\ UNCHANGED <<barrier, toClear, called, prompt, detaches, cleanups, dialogs>>
  BY DEF Start
<1>3. PICK c : c = Call("acquire", o, tab.generation)
  OBVIOUS
<1>4. c \in CallType /\ c.generation = tab.generation /\ c.kind = "acquire" /\ c.who = o
  BY <1>1, <1>3, CallIs
<1>5. Takes(tab, tab', c)
  <2>1. PICK s : s = [tab EXCEPT !.queue = Append(tab.queue, c)]
    OBVIOUS
  <2>2. Takes(tab, s, c)
    BY <1>1, <1>4, <2>1, QueuedIs
  <2>3. tab' = s
    BY <1>2, <1>3, <2>1 DEF Queued
  <2> QED
    BY <2>2, <2>3
<1>6. ~StaleWork(tab) /\ barrier = "off"
  BY <1>2, CanStartIs
<1>7. HoldsInv'
  <2>1. PICK s \in Tabs : s = tab'
    BY <1>5 DEF Takes
  <2>2. s.holds = tab.holds /\ s.holds \in Nat
    BY <1>5, <2>1 DEF Takes, Tabs
  <2>3. PICK B : B = {x \in Owners : op'[x] = "acquire"}
    OBVIOUS
  <2>4. B \subseteq Owners /\ IsFiniteSet(Owners)
    BY <2>3, FiniteOwners
  <2>5. Cardinality(B) <= Cardinality(Owners) /\ Cardinality(Owners) \in Nat /\ Cardinality(B) \in Nat
    BY <2>4, FS_Subset, FS_CardinalityType
  <2>6. MaxHolds \in Nat
    BY OwnersAssumption
  <2>7. s.holds + Cardinality(B) <= MaxHolds + Cardinality(Owners)
    BY <1>2, <2>2, <2>5, <2>6
  <2> QED
    BY <2>1, <2>3, <2>7 DEF HoldsInv
<1>8. own' \in [Owners -> {"none", "starting", "owned"}]
  BY <1>1, <1>2
<1> QED
  BY <1>2, <1>4, <1>5, <1>6, <1>7, <1>8, TakesStep

LEMMA StopKeeps ==
    ASSUME DebuggerInv, NEW o \in Owners, Stop(o)
    PROVE  DebuggerInv'
<1>1. /\ tab \in Tabs /\ own \in [Owners -> {"none", "starting", "owned"}]
      /\ op \in [Owners -> {"none", "acquire", "release"}]
      /\ StaleInv(tab) /\ BarrierInv /\ HoldsInv
  BY DEF DebuggerInv, OwnersTypeOK
<1>2. op[o] = "none" /\ UNCHANGED <<barrier, toClear, called, prompt, detaches, cleanups, dialogs>>
  BY DEF Stop
<1>3. CASE /\ tab.holds > 0 \/ tab.attached
           /\ tab' = Queued("release", o) /\ op' = [op EXCEPT ![o] = "release"] /\ own' = own
  <2>1. PICK c : c = Call("release", o, tab.generation)
    OBVIOUS
  <2>2. c \in CallType /\ c.generation = tab.generation /\ c.kind = "release" /\ c.who = o
    BY <1>1, <2>1, CallIs
  <2>3. PICK s : s = [tab EXCEPT !.queue = Append(tab.queue, c)]
    OBVIOUS
  <2>4. Takes(tab, s, c)
    BY <1>1, <2>2, <2>3, QueuedIs
  <2>5. tab' = s
    BY <1>3, <2>1, <2>3 DEF Queued
  <2>6. ~Sealed(tab)
    <3>1. CASE tab.attached
      BY <3>1 DEF Sealed
    <3>2. CASE tab.holds > 0
      <4>1. tab.holds # 0
        BY <3>2
      <4> QED
        BY <4>1 DEF Sealed
    <3> QED
      BY <1>3, <3>1, <3>2
  <2>7. ~StaleWork(tab) /\ barrier = "off"
    BY <1>1, <2>6 DEF StaleInv, BarrierInv
  <2>8. HoldsInv'
    <3>1. tab' \in Tabs /\ tab'.holds = tab.holds /\ tab.holds \in Nat
      BY <1>1, <2>4, <2>5 DEF Takes, Tabs
    <3>2. tab'.holds <= tab.holds
      <4>1. PICK n \in Nat : n = tab.holds /\ n = tab'.holds
        BY <3>1
      <4> QED
        BY <4>1
    <3>3. \A x \in Owners : op'[x] = "acquire" => op[x] = "acquire"
      BY <1>1, <1>3
    <3> QED
      BY <1>1, <3>1, <3>2, <3>3, HoldsStay
  <2> QED
    BY <1>1, <1>2, <1>3, <2>2, <2>4, <2>5, <2>7, <2>8, TakesStep
<1>4. CASE own' = [own EXCEPT ![o] = "none"] /\ UNCHANGED <<tab, op>>
  <2>1. own' \in [Owners -> {"none", "starting", "owned"}] /\ \A x \in Owners : own[x] = "none" => own'[x] = "none"
    BY <1>1, <1>4
  <2>2. BarrierInv'
    BY <1>1, <1>2, <1>4, <2>1 DEF BarrierInv
  <2>3. OwnersTypeOK' /\ CallsKnown' /\ HoldsInv' /\ SessionInv'
    <3>1. OwnersTypeOK /\ CallsKnown /\ HoldsInv /\ SessionInv
      BY DEF DebuggerInv
    <3>2. OwnersTypeOK'
      BY <1>2, <1>4, <2>1, <3>1 DEF OwnersTypeOK
    <3>3. CallsKnown'
      BY <1>4, <3>1 DEF CallsKnown
    <3>4. HoldsInv'
      BY <1>4, <3>1 DEF HoldsInv
    <3>5. SessionInv'
      BY <1>2, <1>4, <3>1 DEF SessionInv
    <3> QED
      BY <3>2, <3>3, <3>4, <3>5
  <2>4. QueueInv(tab)' /\ StaleInv(tab)'
    BY <1>4 DEF DebuggerInv
  <2> QED
    BY <2>2, <2>3, <2>4 DEF DebuggerInv
<1> QED
  BY <1>3, <1>4 DEF Stop

LEMMA TimerFiresKeeps ==
    ASSUME DebuggerInv, TimerFires
    PROVE  DebuggerInv'
<1>1. /\ tab \in Tabs /\ own \in [Owners -> {"none", "starting", "owned"}]
      /\ StaleInv(tab) /\ BarrierInv /\ HoldsInv
  BY DEF DebuggerInv, OwnersTypeOK
<1>2. PICK c : c = Call("idle", "timer", tab.generation)
  OBVIOUS
<1>3. c \in CallType /\ c.generation = tab.generation /\ c.kind = "idle" /\ c.who = "timer"
  BY <1>1, <1>2, CallIs
<1>4. PICK a : a = Append(tab.queue, c)
  OBVIOUS
<1>5. a \in Seq(CallType)
  BY <1>1, <1>3, <1>4, AppendIs DEF Tabs
<1>6. PICK q : q = [tab EXCEPT !.queue = a]
  OBVIOUS
<1>7. PICK s : s = [q EXCEPT !.timer = "fired"]
  OBVIOUS
<1>8. tab' = s /\ tab.timer = "set" /\ UNCHANGED <<barrier, toClear, own, op, called, prompt, detaches, cleanups, dialogs>>
  BY <1>2, <1>4, <1>6, <1>7 DEF TimerFires, Queued
<1>9. q \in Tabs
  BY <1>1, <1>5, <1>6 DEF Tabs
<1>10. s \in Tabs
  BY <1>7, <1>9 DEF Tabs
<1>11. s.queue = a /\ s.timer = "fired" /\ s.stage = tab.stage /\ SameLane(tab, s)
  BY <1>1, <1>6, <1>7 DEF Tabs, SameLane
<1>12. s.attached = tab.attached /\ s.holds = tab.holds /\ s.session = tab.session
  BY <1>1, <1>6, <1>7 DEF Tabs
<1>13. Takes(tab, s, c)
  BY <1>3, <1>4, <1>8, <1>10, <1>11, <1>12 DEF Takes
<1>14. ~StaleWork(tab) /\ barrier = "off"
  BY <1>1, <1>8 DEF StaleInv, BarrierInv, Sealed
<1>15. HoldsInv'
  BY <1>1, <1>8, <1>12 DEF HoldsInv
<1>16. c.who \notin Owners
  BY <1>3, FiniteOwners
<1> QED
  BY <1>1, <1>3, <1>8, <1>13, <1>14, <1>15, <1>16, TakesStep

\* The tab's calls stay as they are while one of its other fields changes.
LEMMA StaysIs ==
    ASSUME NEW t \in Tabs, NEW s \in Tabs, s.generation = t.generation, s.queue = t.queue,
           s.stage = t.stage, s.timer = t.timer, s.lane = t.lane, s.dialogStage = t.dialogStage,
           s.holds = t.holds, s.attached = t.attached
    PROVE  Side(t, s)
<1>1. t.queue \in Seq(CallType) /\ t.holds \in Nat
  BY DEF Tabs
<1>2. Like(t.queue, s.queue)
  BY <1>1 DEF Like
<1>3. s.holds <= t.holds
  BY ONLY <1>1, s.holds = t.holds
<1>4. (Sealed(t) => Cold(s)) /\ LaneMoves(t, s)
  BY DEF Sealed, Cold, LaneMoves
<1> QED
  BY <1>2, <1>3, <1>4 DEF Side

LEMMA DialogStepsKeep ==
    ASSUME DebuggerInv, DialogOpens \/ DialogSeen \/ DialogCloses
    PROVE  DebuggerInv'
<1>1. tab \in Tabs /\ own \in [Owners -> {"none", "starting", "owned"}]
  BY DEF DebuggerInv, OwnersTypeOK
<1>2. UNCHANGED <<barrier, toClear, own, op, cleanups>>
  BY DEF DialogOpens, DialogSeen, DialogCloses
<1>3. PICK b \in BOOLEAN : tab' = [tab EXCEPT !.dialog = b]
  <2>1. CASE DialogOpens
    <3>1. PICK b \in BOOLEAN : b = tab.dialog
      BY <1>1 DEF Tabs
    <3>2. tab' = [tab EXCEPT !.dialog = b]
      BY <1>1, <2>1, <3>1 DEF DialogOpens, Tabs
    <3> QED
      BY <3>2
  <2>2. CASE DialogSeen
    BY <2>2 DEF DialogSeen
  <2>3. CASE DialogCloses
    BY <2>3 DEF DialogCloses
  <2> QED
    BY <2>1, <2>2, <2>3
<1>4. PICK s : s = [tab EXCEPT !.dialog = b]
  OBVIOUS
<1>5. s \in Tabs
  BY <1>1, <1>4 DEF Tabs
<1>6. /\ s.generation = tab.generation /\ s.queue = tab.queue /\ s.stage = tab.stage
      /\ s.timer = tab.timer /\ s.lane = tab.lane
  BY <1>1, <1>4 DEF Tabs
<1>7. /\ s.dialogStage = tab.dialogStage /\ s.holds = tab.holds /\ s.attached = tab.attached
      /\ s.session = tab.session
  BY <1>1, <1>4 DEF Tabs
<1>8. Side(tab, s)
  BY <1>1, <1>5, <1>6, <1>7, StaysIs
<1>9. Side(tab, tab') /\ (tab'.session => tab.session /\ (tab.attached => tab'.attached))
  BY <1>3, <1>4, <1>7, <1>8
<1> QED
  BY <1>1, <1>2, <1>9, SideStep

LEMMA DiscardSettlesKeeps ==
    ASSUME DebuggerInv, DiscardSettles
    PROVE  DebuggerInv'
<1>1. tab \in Tabs /\ own \in [Owners -> {"none", "starting", "owned"}]
  BY DEF DebuggerInv, OwnersTypeOK
<1>2. /\ UNCHANGED <<toClear, own, op, called, prompt, detaches, cleanups, dialogs>>
      /\ barrier = "discarding" /\ barrier' = "clearing" /\ tab' = [tab EXCEPT !.session = FALSE]
  BY DEF DiscardSettles
<1>3. PICK s : s = [tab EXCEPT !.session = FALSE]
  OBVIOUS
<1>4. s \in Tabs
  BY <1>1, <1>3 DEF Tabs
<1>5. /\ s.generation = tab.generation /\ s.queue = tab.queue /\ s.stage = tab.stage
      /\ s.timer = tab.timer /\ s.lane = tab.lane
  BY <1>1, <1>3 DEF Tabs
<1>6. /\ s.dialogStage = tab.dialogStage /\ s.holds = tab.holds /\ s.attached = tab.attached
      /\ ~s.session
  BY <1>1, <1>3 DEF Tabs
<1>7. Side(tab, s)
  BY <1>1, <1>4, <1>5, <1>6, StaysIs
<1>8. Side(tab, tab') /\ ~tab'.session
  BY <1>2, <1>3, <1>6, <1>7
<1> QED
  BY <1>1, <1>2, <1>8, SideStep

LEMMA ExternalDetachKeeps ==
    ASSUME DebuggerInv, ExternalDetach
    PROVE  DebuggerInv'
<1>1. tab \in Tabs
  BY DEF DebuggerInv, OwnersTypeOK
<1>2. UNCHANGED <<barrier, toClear, op, called, prompt, cleanups, dialogs>> /\ own' = [o \in Owners |-> "none"]
  BY DEF ExternalDetach
<1>3. PICK m : m = MarkedDetached(tab)
  OBVIOUS
<1>4. /\ m \in Tabs /\ Like(tab.queue, m.queue) /\ NoIdle(m.queue) /\ SameLane(tab, m)
      /\ Cold(m) /\ m.stage = tab.stage
  BY <1>1, <1>3, MarkedIs
<1>5. PICK s : s = [m EXCEPT !.session = FALSE]
  OBVIOUS
<1>6. s \in Tabs
  BY <1>4, <1>5 DEF Tabs
<1>7. s.queue = m.queue /\ SameLane(m, s) /\ s.stage = m.stage /\ Cold(s) /\ ~s.session
  BY <1>4, <1>5 DEF Tabs, SameLane, Cold
<1>8. s.holds <= tab.holds
  <2>1. tab.holds \in Nat /\ s.holds = 0
    BY <1>1, <1>7 DEF Tabs, Cold
  <2> QED
    BY ONLY <2>1
<1>9. Side(tab, s)
  BY <1>4, <1>6, <1>7, <1>8 DEF Side, SameLane, LaneMoves, Cold
<1>10. tab' = s
  BY <1>3, <1>5 DEF ExternalDetach
<1>11. Side(tab, tab') /\ ~tab'.session
  BY <1>7, <1>9, <1>10
<1>12. own' \in [Owners -> {"none", "starting", "owned"}] /\ \A o \in Owners : own'[o] = "none"
  BY <1>2
<1> QED
  BY <1>2, <1>11, <1>12, SideStep

\* The end of a dialog's call, with u for what became of the tab.
LEMMA DialogOverIs ==
    ASSUME NEW t \in Tabs, t.lane # <<>>, NEW u \in Tabs, Like(t.queue, u.queue), SameLane(t, u),
           u.stage = t.stage, u.session = t.session, u.holds <= t.holds, u.attached => t.attached,
           NoIdle(u.queue) \/ (u.queue = t.queue /\ u.timer = t.timer),
           Sealed(t) => Cold(u), NEW s, s = DialogOver(u)
    PROVE  Side(t, s) /\ s.session = t.session /\ (s.attached <=> u.attached)
<1>1. PICK l : l = Tail(t.lane)
  OBVIOUS
<1>2. l \in Seq(CallType)
  BY <1>1, HeadIs DEF Tabs
<1>3. s = [u EXCEPT !.lane = l, !.dialogStage = "waiting", !.burst = FALSE]
  BY <1>1 DEF DialogOver, SameLane
<1>4. s \in Tabs
  BY <1>2, <1>3 DEF Tabs
<1>5. /\ s.lane = l /\ s.dialogStage = "waiting" /\ s.generation = u.generation
      /\ s.queue = u.queue /\ s.stage = u.stage
  BY <1>3 DEF Tabs
<1>6. s.timer = u.timer /\ s.holds = u.holds /\ (s.attached <=> u.attached) /\ s.session = u.session
  BY <1>3 DEF Tabs
<1>7. LaneMoves(t, s)
  BY <1>1, <1>5 DEF LaneMoves
<1>8. Sealed(t) => Cold(s)
  BY <1>6 DEF Cold
<1>9. s.generation = t.generation /\ s.stage = t.stage /\ Like(t.queue, s.queue) /\ s.holds <= t.holds
  BY <1>5, <1>6 DEF SameLane
<1>10. NoIdle(s.queue) \/ (s.queue = t.queue /\ s.timer = t.timer)
  BY <1>5, <1>6
<1> QED
  BY <1>4, <1>6, <1>7, <1>8, <1>9, <1>10 DEF Side

\* The dialog call in turn is of this generation, so nothing here is sealed.
LEMMA LaneNotSealed ==
    ASSUME NEW t \in Tabs, t.lane # <<>>, Current(t, Head(t.lane))
    PROVE  ~Sealed(t)
<1>1. 1 \in DOMAIN t.lane /\ Head(t.lane) = t.lane[1]
  BY HeadIs DEF Tabs
<1> QED
  BY <1>1 DEF Sealed, Current

LEMMA AsItIs ==
    ASSUME NEW t \in Tabs
    PROVE  /\ Like(t.queue, t.queue) /\ SameLane(t, t) /\ t.holds \in Nat /\ t.holds <= t.holds
           /\ (Sealed(t) => Cold(t)) /\ t.attached \in BOOLEAN
<1>1. t.queue \in Seq(CallType) /\ t.holds \in Nat /\ t.attached \in BOOLEAN
  BY DEF Tabs
<1>2. t.holds <= t.holds
  BY ONLY <1>1
<1> QED
  BY <1>1, <1>2 DEF Like, SameLane, Sealed, Cold

LEMMA DialogBegunIs ==
    ASSUME NEW t \in Tabs, t.lane # <<>>, NEW s, s = DialogBegun(t)
    PROVE  Side(t, s) /\ s.session = t.session /\ (s.attached <=> t.attached)
<1>1. CASE ~(Current(t, Head(t.lane)) /\ t.attached)
  <2>1. s = DialogOver(t)
    BY <1>1 DEF DialogBegun
  <2> QED
    BY <2>1, AsItIs, DialogOverIs
<1>2. CASE Current(t, Head(t.lane)) /\ t.attached
  <2>1. PICK c : c = Consumed(t)
    OBVIOUS
  <2>2. /\ c \in Tabs /\ Like(t.queue, c.queue) /\ NoIdle(c.queue) /\ SameLane(t, c)
        /\ c.session = t.session /\ c.attached = t.attached /\ c.holds = t.holds /\ c.stage = t.stage
    BY <2>1, ConsumedIs
  <2>3. PICK b \in BOOLEAN : s = [c EXCEPT !.burst = b, !.dialogStage = "working"]
    BY <1>2, <2>1 DEF DialogBegun
  <2>4. s \in Tabs
    BY <2>2, <2>3 DEF Tabs
  <2>5. s.queue = c.queue /\ s.lane = c.lane /\ s.generation = c.generation /\ s.stage = c.stage
    BY <2>2, <2>3 DEF Tabs
  <2>6. s.holds = c.holds /\ (s.attached <=> c.attached) /\ s.session = c.session
    BY <2>2, <2>3 DEF Tabs
  <2>7. s.holds <= t.holds
    <3>1. s.holds = t.holds /\ t.holds \in Nat
      BY <2>2, <2>6, AsItIs
    <3> QED
      BY ONLY <3>1
  <2>8. LaneMoves(t, s) /\ ~Sealed(t)
    BY <1>2, <2>2, <2>5, LaneNotSealed DEF LaneMoves, SameLane
  <2>9. Side(t, s)
    BY <2>2, <2>4, <2>5, <2>6, <2>7, <2>8 DEF Side, SameLane
  <2> QED
    BY <2>2, <2>6, <2>9
<1> QED
  BY <1>1, <1>2

LEMMA DialogSettledIs ==
    ASSUME NEW t \in Tabs, t.lane # <<>>, NEW outcome, outcome = "detached" => ~t.session,
           NEW s, s = DialogSettled(t, outcome)
    PROVE  Side(t, s) /\ s.session = t.session /\ (s.session => (s.attached <=> t.attached))
<1>1. PICK m : m = MarkedDetached(t)
  OBVIOUS
<1>2. /\ m \in Tabs /\ Like(t.queue, m.queue) /\ NoIdle(m.queue) /\ SameLane(t, m)
      /\ m.session = t.session /\ Cold(m) /\ m.stage = t.stage
  BY <1>1, MarkedIs
<1>3. PICK u : u = Rearmed(t)
  OBVIOUS
<1>4. /\ u \in Tabs /\ Like(t.queue, u.queue) /\ NoIdle(u.queue) /\ SameLane(t, u)
      /\ u.session = t.session /\ u.attached = t.attached /\ u.holds = t.holds /\ u.stage = t.stage
  BY <1>3, RearmedIs
<1>5. CASE s = DialogOver(t)
  BY <1>5, AsItIs, DialogOverIs
<1>6. CASE outcome = "detached" /\ s = DialogOver(m)
  <2>1. m.holds <= t.holds
    <3>1. t.holds \in Nat /\ m.holds = 0
      BY <1>2, AsItIs DEF Cold
    <3> QED
      BY ONLY <3>1
  <2>2. ~m.attached
    BY <1>2 DEF Cold
  <2> QED
    BY <1>2, <1>6, <2>1, <2>2, DialogOverIs
<1>7. CASE Current(t, Head(t.lane)) /\ s = DialogOver(u)
  <2>1. u.holds <= t.holds
    <3>1. t.holds \in Nat /\ u.holds = t.holds
      BY <1>4, AsItIs
    <3> QED
      BY ONLY <3>1
  <2>2. ~Sealed(t)
    BY <1>7, LaneNotSealed
  <2> QED
    BY <1>4, <1>7, <2>1, <2>2, DialogOverIs
<1>8. \/ s = DialogOver(t)
      \/ outcome = "detached" /\ s = DialogOver(m)
      \/ Current(t, Head(t.lane)) /\ s = DialogOver(u)
  <2>1. ~m.attached
    BY <1>2 DEF Cold
  <2> QED
    BY <1>1, <1>3, <2>1 DEF DialogSettled
<1> QED
  BY <1>5, <1>6, <1>7, <1>8

LEMMA LaneStepsKeep ==
    ASSUME DebuggerInv, BeginDialog \/ DialogSettles
    PROVE  DebuggerInv'
<1>1. tab \in Tabs /\ own \in [Owners -> {"none", "starting", "owned"}]
  BY DEF DebuggerInv, OwnersTypeOK
<1>2. tab.lane # <<>> /\ UNCHANGED <<barrier, toClear, own, op, called, prompt, detaches, cleanups, dialogs>>
  BY DEF BeginDialog, DialogSettles
<1>3. PICK s : s = tab'
  OBVIOUS
<1>4. Side(tab, s) /\ s.session = tab.session /\ (s.session => (s.attached <=> tab.attached))
  <2>1. CASE BeginDialog
    <3>1. s = DialogBegun(tab)
      BY <1>3, <2>1 DEF BeginDialog
    <3> QED
      BY <1>1, <1>2, <3>1, DialogBegunIs
  <2>2. CASE DialogSettles
    <3>1. PICK outcome : s = DialogSettled(tab, outcome) /\ (outcome = "detached" => ~tab.session)
      BY <1>3, <2>2 DEF DialogSettles
    <3> QED
      BY <1>1, <1>2, <3>1, DialogSettledIs
  <2> QED
    BY <2>1, <2>2
<1>5. Side(tab, tab') /\ (tab'.session => tab.session /\ (tab.attached => tab'.attached))
  BY <1>3, <1>4
<1> QED
  BY <1>1, <1>2, <1>5, SideStep

LEMMA TurnStepsKeep ==
    ASSUME DebuggerInv,
           Begin \/ GoOn \/ AttachSettles \/ InitSettles \/ Undo \/ WorkSettles \/ DetachSettles
    PROVE  DebuggerInv'
<1>1. tab.queue # <<>>
  BY DEF Begin, GoOn, AttachSettles, InitSettles, Undo, WorkSettles, DetachSettles, At
<1>2. PICK t : t = tab
  OBVIOUS
<1>3. Ready(t)
  BY <1>1, <1>2, TabReady
<1>4. \E r : Turn(r) /\ TurnsTo(t, r.tab, r.told)
  <2>1. CASE Begin
    <3>1. PICK r : r = Begun(t)
      OBVIOUS
    <3>2. t.stage = "waiting" /\ Turn(r)
      BY <1>2, <2>1, <3>1 DEF Begin
    <3> QED
      BY <1>3, <3>1, <3>2, BegunTurn
  <2>2. CASE GoOn /\ tab.stage = "initialized" /\ Turn(Initialized(tab))
    <3>1. PICK r : r = Initialized(t)
      OBVIOUS
    <3>2. t.stage = "initialized" /\ Turn(r)
      BY <1>2, <2>2, <3>1
    <3> QED
      BY <1>3, <3>1, <3>2, InitializedTurn
  <2>3. CASE GoOn /\ tab.stage = "worked" /\ Turn(Worked(tab))
    <3>1. PICK r : r = Worked(t)
      OBVIOUS
    <3>2. t.stage = "worked" /\ Turn(r)
      BY <1>2, <2>3, <3>1
    <3> QED
      BY <1>3, <3>1, <3>2, WorkedTurn
  <2>4. CASE AttachSettles
    <3>1. PICK ok \in BOOLEAN : Turn(AttachSettled(t, ok))
      BY <1>2, <2>4 DEF AttachSettles
    <3>2. PICK r : r = AttachSettled(t, ok)
      OBVIOUS
    <3>3. t.stage = "attaching" /\ Turn(r)
      BY <1>2, <2>4, <3>1, <3>2 DEF AttachSettles, At
    <3> QED
      BY <1>3, <3>2, <3>3, AttachTurn
  <2>5. CASE InitSettles
    <3>1. PICK outcome : Turn(InitSettled(t, outcome))
      BY <1>2, <2>5 DEF InitSettles
    <3>2. PICK r : r = InitSettled(t, outcome)
      OBVIOUS
    <3>3. t.stage = "initializing" /\ Turn(r)
      BY <1>2, <2>5, <3>1, <3>2 DEF InitSettles, At
    <3> QED
      BY <1>3, <3>2, <3>3, InitTurn
  <2>6. CASE Undo
    <3>1. PICK r : r = Undone(t)
      OBVIOUS
    <3>2. t.stage \in {"undoing", "undoing lost"} /\ Turn(r)
      BY <1>2, <2>6, <3>1 DEF Undo, At
    <3> QED
      BY <1>3, <3>1, <3>2, UndoneTurn
  <2>7. CASE WorkSettles
    <3>1. PICK outcome : Turn(WorkSettled(t, outcome)) /\ (outcome = "detached" => ~t.session)
      BY <1>2, <2>7 DEF WorkSettles
    <3>2. PICK r : r = WorkSettled(t, outcome)
      OBVIOUS
    <3>3. t.stage = "working" /\ Turn(r)
      BY <1>2, <2>7, <3>1, <3>2 DEF WorkSettles, At
    <3> QED
      BY <1>3, <3>1, <3>2, <3>3, WorkTurn
  <2>8. CASE DetachSettles
    <3>1. PICK r : r = DetachSettled(t)
      OBVIOUS
    <3>2. t.stage = "detaching" /\ Turn(r)
      BY <1>2, <2>8, <3>1 DEF DetachSettles, At
    <3> QED
      BY <1>3, <3>1, <3>2, DetachTurn
  <2> QED
    BY <2>1, <2>2, <2>3, <2>4, <2>5, <2>6, <2>7, <2>8 DEF GoOn
<1> QED
  BY <1>1, <1>2, <1>4, TurnKeeps

LEMMA ConcatIs ==
    ASSUME NEW S, NEW p \in Seq(S), NEW q \in Seq(S)
    PROVE  /\ p \o q \in Seq(S)
           /\ \A i \in DOMAIN p : i \in DOMAIN (p \o q) /\ (p \o q)[i] = p[i]
           /\ \A i \in DOMAIN q : Len(p) + i \in DOMAIN (p \o q) /\ (p \o q)[Len(p) + i] = q[i]
OBVIOUS

LEMMA ClearingOrderIs ==
    /\ ClearingOrder \in Seq(Owners)
    /\ \A o \in Owners \ {"emulation"} : \E i \in DOMAIN ClearingOrder : ClearingOrder[i] = o
<1> DEFINE K(o) == IF o \in Owners THEN <<o>> ELSE <<>>
<1>1. ASSUME NEW o
      PROVE  K(o) \in Seq(Owners) /\ (o \in Owners => 1 \in DOMAIN K(o) /\ K(o)[1] = o)
  <2>1. CASE o \in Owners
    BY <2>1
  <2>2. CASE o \notin Owners
    BY <2>2
  <2> QED
    BY <2>1, <2>2
<1>2. ClearingOrder = (K("emulation") \o K("intercept")) \o K("capture")
  BY DEF ClearingOrder
<1> HIDE DEF K
<1>3. PICK k1 \in Seq(Owners) : k1 = K("emulation")
  BY <1>1
<1>4. PICK k2 \in Seq(Owners) : k2 = K("intercept")
  BY <1>1
<1>5. PICK k3 \in Seq(Owners) : k3 = K("capture")
  BY <1>1
<1>6. /\ k1 \o k2 \in Seq(Owners)
      /\ \A i \in DOMAIN k2 : Len(k1) + i \in DOMAIN (k1 \o k2) /\ (k1 \o k2)[Len(k1) + i] = k2[i]
  BY ConcatIs
<1>7. PICK k \in Seq(Owners) : k = k1 \o k2
  BY <1>6
<1>8. /\ k \o k3 \in Seq(Owners)
      /\ \A i \in DOMAIN k : i \in DOMAIN (k \o k3) /\ (k \o k3)[i] = k[i]
      /\ \A i \in DOMAIN k3 : Len(k) + i \in DOMAIN (k \o k3) /\ (k \o k3)[Len(k) + i] = k3[i]
  BY ConcatIs
<1>9. ClearingOrder = k \o k3
  BY <1>2, <1>3, <1>4, <1>5, <1>7
<1>10. ASSUME "intercept" \in Owners
       PROVE  \E i \in DOMAIN ClearingOrder : ClearingOrder[i] = "intercept"
  <2>1. 1 \in DOMAIN k2 /\ k2[1] = "intercept"
    BY <1>1, <1>4, <1>10
  <2>2. PICK j : j = Len(k1) + 1
    OBVIOUS
  <2>3. j \in DOMAIN k /\ k[j] = "intercept"
    BY <1>6, <1>7, <2>1, <2>2
  <2> QED
    BY <1>8, <1>9, <2>3
<1>11. ASSUME "capture" \in Owners
       PROVE  \E i \in DOMAIN ClearingOrder : ClearingOrder[i] = "capture"
  <2>1. 1 \in DOMAIN k3 /\ k3[1] = "capture"
    BY <1>1, <1>5, <1>11
  <2>2. PICK j : j = Len(k) + 1
    OBVIOUS
  <2>3. j \in DOMAIN (k \o k3) /\ (k \o k3)[j] = "capture"
    BY <1>8, <2>1, <2>2
  <2> QED
    BY <1>9, <2>3
<1>12. Owners \subseteq {"emulation", "intercept", "capture"}
  BY OwnersAssumption
<1> QED
  BY <1>8, <1>9, <1>10, <1>11, <1>12

\* A cleanup makes every call stale at once.
LEMMA BeginCleanupKeeps ==
    ASSUME DebuggerInv, BeginCleanup
    PROVE  DebuggerInv'
<1>1. /\ OwnersTypeOK /\ QueueInv(tab) /\ CallsKnown /\ HoldsInv /\ SessionInv /\ tab \in Tabs
  BY DEF DebuggerInv, OwnersTypeOK
<1>2. /\ barrier = "off" /\ cleanups < MaxCleanups /\ cleanups' = cleanups + 1
      /\ tab' = Discarded(tab) /\ barrier' = Cleared(tab, "clearing") /\ toClear' = ClearingOrder
      /\ UNCHANGED <<own, op, called, prompt, detaches, dialogs>>
  BY DEF BeginCleanup
<1>3. PICK m : m = MarkedDetached(tab)
  OBVIOUS
<1>4. /\ m \in Tabs /\ Like(tab.queue, m.queue) /\ NoIdle(m.queue) /\ SameLane(tab, m)
      /\ m.session = tab.session /\ Cold(m) /\ m.stage = tab.stage
  BY <1>1, <1>3, MarkedIs
<1>5. MaxCleanups \in Nat /\ tab.generation \in Nat /\ cleanups \in Nat /\ tab.generation <= cleanups
  BY <1>1, OwnersAssumption DEF OwnersTypeOK, Tabs
<1>6. PICK n : n = tab.generation + 1
  OBVIOUS
<1>7. n \in 0..MaxCleanups /\ n <= cleanups + 1 /\ n \in Nat
  BY <1>2, <1>5, <1>6
<1>8. PICK s : s = [m EXCEPT !.generation = n]
  OBVIOUS
<1>9. tab' = s
  BY <1>2, <1>3, <1>4, <1>6, <1>8 DEF Discarded, SameLane
<1>10. s \in Tabs
  BY <1>4, <1>7, <1>8 DEF Tabs
<1>11. s.queue = m.queue /\ s.stage = m.stage /\ s.generation = n /\ s.lane = m.lane
  BY <1>4, <1>8 DEF Tabs
<1>12. s.dialogStage = m.dialogStage /\ Cold(s) /\ s.session = m.session
  BY <1>4, <1>8 DEF Tabs, Cold
<1>13. PICK t \in Tabs : t = tab
  BY <1>1
<1>14. t.queue \in Seq(CallType) /\ t.lane \in Seq(CallType)
  BY DEF Tabs
<1>15. Like(t.queue, s.queue)
  BY <1>4, <1>11, <1>13
<1>16. /\ DOMAIN s.queue = DOMAIN t.queue /\ (t.queue = <<>> <=> s.queue = <<>>)
       /\ \A i \in DOMAIN t.queue :
             /\ s.queue[i].who = t.queue[i].who /\ s.queue[i].generation = t.queue[i].generation
             /\ s.queue[i].kind = t.queue[i].kind \/ (t.queue[i].kind = "idle" /\ s.queue[i].kind = "spent")
       /\ t.queue # <<>> => /\ 1 \in DOMAIN t.queue /\ Head(t.queue) = t.queue[1] /\ Head(s.queue) = s.queue[1]
                            /\ Head(s.queue).generation = Head(t.queue).generation
  BY <1>14, <1>15, LikeIs
<1>17. ASSUME NEW i \in DOMAIN s.queue
       PROVE  s.queue[i].generation < s.generation /\ s.queue[i].kind # "dialog" /\ s.queue[i].kind # "idle"
  <2>1. s.queue[i].generation <= t.generation /\ s.queue[i].kind # "dialog"
    BY <1>1, <1>13, <1>16 DEF QueueInv
  <2>2. s.queue[i].kind # "idle"
    BY <1>4, <1>11 DEF NoIdle
  <2>3. s.queue[i].generation \in Nat
    <3>1. s.queue \in Seq(CallType)
      BY <1>10 DEF Tabs
    <3>2. s.queue[i] \in CallType
      BY <3>1
    <3> QED
      BY <3>2 DEF CallType
  <2> QED
    BY <1>5, <1>6, <1>11, <1>13, <2>1, <2>2, <2>3
<1>18. ASSUME NEW i \in DOMAIN s.lane
       PROVE  s.lane[i].generation < s.generation
  <2>1. s.lane = t.lane
    BY <1>4, <1>11, <1>13 DEF SameLane
  <2>2. t.lane[i] \in CallType /\ t.lane[i].generation <= t.generation
    BY <1>1, <1>13, <1>14, <2>1 DEF QueueInv
  <2>3. t.lane[i].generation \in Nat
    BY <2>2 DEF CallType
  <2> QED
    BY <1>5, <1>6, <1>11, <1>13, <2>1, <2>2, <2>3
<1>19. Sealed(s)
  <2>1. s.generation \in Nat
    BY <1>7, <1>11
  <2>2. \A i \in DOMAIN s.queue : s.queue[i].generation # s.generation
    <3>1. ASSUME NEW i \in DOMAIN s.queue
          PROVE  s.queue[i].generation # s.generation
      BY <1>17, <2>1
    <3> QED
      BY <3>1
  <2>3. \A i \in DOMAIN s.lane : s.lane[i].generation # s.generation
    <3>1. ASSUME NEW i \in DOMAIN s.lane
          PROVE  s.lane[i].generation # s.generation
      BY <1>18, <2>1
    <3> QED
      BY <3>1
  <2> QED
    BY <1>12, <2>2, <2>3 DEF Sealed, Cold
<1>20. QueueInv(s)
  <2>1. ASSUME NEW i \in DOMAIN s.queue
        PROVE  s.queue[i].generation <= s.generation
    <3>1. s.queue[i].generation \in Nat /\ s.generation \in Nat
      <4>1. s.queue \in Seq(CallType)
        BY <1>10 DEF Tabs
      <4>2. s.queue[i] \in CallType
        BY <4>1
      <4> QED
        BY <1>7, <1>11, <4>2 DEF CallType
    <3> QED
      BY <1>17, <3>1
  <2>2. ASSUME NEW i \in DOMAIN s.lane
        PROVE  s.lane[i].generation <= s.generation
    <3>1. s.lane[i].generation \in Nat /\ s.generation \in Nat
      <4>1. s.lane \in Seq(CallType)
        BY <1>10 DEF Tabs
      <4>2. s.lane[i] \in CallType
        BY <4>1
      <4> QED
        BY <1>7, <1>11, <4>2 DEF CallType
    <3> QED
      BY <1>18, <3>1
  <2>3. s.queue = <<>> => s.stage = "waiting"
    BY <1>1, <1>4, <1>11, <1>13, <1>16 DEF QueueInv
  <2>4. s.lane = <<>> => s.dialogStage = "waiting"
    BY <1>1, <1>4, <1>11, <1>12 DEF QueueInv, SameLane
  <2>5. s.stage \notin {"waiting", "detaching"} => Head(s.queue).kind \in {"run", "acquire"}
    BY <1>1, <1>4, <1>11, <1>13, <1>16 DEF QueueInv
  <2> QED
    BY <1>17, <2>1, <2>2, <2>3, <2>4, <2>5 DEF QueueInv
<1>21. StaleInv(s)
  BY <1>19 DEF StaleInv, Sealed
<1>22. CallsKnown' /\ HoldsInv'
  <2>1. CallsKnown'
    BY <1>1, <1>2, <1>9, <1>13, <1>15, CallsStay
  <2>2. s.holds <= tab.holds
    <3>1. tab.holds \in Nat /\ s.holds = 0
      BY <1>1, <1>12 DEF Tabs, Cold
    <3> QED
      BY ONLY <3>1
  <2>3. HoldsInv'
    BY <1>1, <1>2, <1>9, <1>10, <2>2, HoldsStay
  <2> QED
    BY <2>1, <2>3
<1>23. barrier' \in {"discarding", "clearing"} /\ (MustDetach(tab) => barrier' = "discarding")
  BY <1>2 DEF Cleared
<1>24. OwnersTypeOK'
  <2>1. cleanups' \in Nat /\ cleanups' <= MaxCleanups
    BY <1>2, <1>5
  <2>2. toClear' \in Seq(Owners)
    BY <1>2, ClearingOrderIs
  <2>3. own' \in [Owners -> {"none", "starting", "owned"}] /\ op' \in [Owners -> {"none", "acquire", "release"}]
    BY <1>1, <1>2 DEF OwnersTypeOK
  <2>4. tab' \in Tabs /\ tab'.generation <= cleanups'
    BY <1>2, <1>7, <1>9, <1>10, <1>11
  <2> QED
    BY <1>23, <2>1, <2>2, <2>3, <2>4 DEF OwnersTypeOK
<1>25. SessionInv'
  <2>1. ASSUME s.session
        PROVE  barrier' = "discarding" \/ (s.queue # <<>> /\ s.stage \in {"undoing", "undoing lost"})
    <3>1. tab.attached \/ (t.queue # <<>> /\ t.stage \in {"undoing", "undoing lost"})
      BY <1>1, <1>2, <1>4, <1>12, <1>13, <2>1 DEF SessionInv
    <3> QED
      BY <1>4, <1>11, <1>13, <1>16, <1>23, <3>1 DEF MustDetach
  <2> QED
    BY <1>9, <2>1 DEF SessionInv
<1>26. BarrierInv'
  <2>1. \A o \in Owners \ {"emulation"} : \E i \in DOMAIN toClear' : toClear'[i] = o
    BY <1>2, ClearingOrderIs
  <2> QED
    BY <1>9, <1>19, <1>23, <2>1 DEF BarrierInv
<1> QED
  BY <1>9, <1>20, <1>21, <1>22, <1>24, <1>25, <1>26 DEF DebuggerInv

LEMMA ClearOwnerKeeps ==
    ASSUME DebuggerInv, ClearOwner
    PROVE  DebuggerInv'
<1>1. /\ OwnersTypeOK /\ QueueInv(tab) /\ StaleInv(tab) /\ CallsKnown /\ HoldsInv /\ SessionInv /\ BarrierInv
  BY DEF DebuggerInv
<1>2. /\ barrier = "clearing" /\ toClear # <<>> /\ toClear' = Tail(toClear)
      /\ UNCHANGED <<tab, barrier, op, called, prompt, detaches, cleanups, dialogs>>
  BY DEF ClearOwner
<1>3. toClear \in Seq(Owners) /\ own \in [Owners -> {"none", "starting", "owned"}]
  BY <1>1 DEF OwnersTypeOK
<1>4. /\ Head(toClear) \in Owners /\ Head(toClear) = toClear[1] /\ Tail(toClear) \in Seq(Owners)
      /\ \A i \in DOMAIN toClear : i # 1 => \E j \in DOMAIN Tail(toClear) : Tail(toClear)[j] = toClear[i]
  <2>1. /\ Head(toClear) \in Owners /\ Head(toClear) = toClear[1] /\ Tail(toClear) \in Seq(Owners)
        /\ DOMAIN toClear = 1..Len(toClear) /\ DOMAIN Tail(toClear) = 1..(Len(toClear) - 1)
        /\ Len(toClear) \in Nat /\ \A j \in DOMAIN Tail(toClear) : Tail(toClear)[j] = toClear[j + 1]
    BY <1>2, <1>3
  <2>2. ASSUME NEW i \in DOMAIN toClear, i # 1
        PROVE  \E j \in DOMAIN Tail(toClear) : Tail(toClear)[j] = toClear[i]
    <3>1. i - 1 \in DOMAIN Tail(toClear) /\ (i - 1) + 1 = i
      BY <2>1, <2>2
    <3>2. Tail(toClear)[i - 1] = toClear[(i - 1) + 1]
      BY <2>1, <3>1
    <3> QED
      BY <3>1, <3>2
  <2> QED
    BY <2>1, <2>2
<1>5. PICK h \in Owners : h = Head(toClear)
  BY <1>4
<1>6. own' = [own EXCEPT ![h] = IF h = "emulation" THEN own[h] ELSE "none"]
  BY <1>5 DEF ClearOwner
<1>7. /\ own' \in [Owners -> {"none", "starting", "owned"}]
      /\ \A o \in Owners : own[o] = "none" => own'[o] = "none"
      /\ h # "emulation" => own'[h] = "none"
  BY <1>3, <1>6
<1>8. BarrierInv'
  <2>1. ASSUME NEW o \in Owners \ {"emulation"}
        PROVE  own'[o] = "none" \/ \E j \in DOMAIN toClear' : toClear'[j] = o
    <3>1. own[o] = "none" \/ \E i \in DOMAIN toClear : toClear[i] = o
      BY <1>1, <1>2 DEF BarrierInv
    <3>2. CASE own[o] = "none"
      BY <1>7, <3>2
    <3>3. ASSUME NEW i \in DOMAIN toClear, toClear[i] = o, i # 1
          PROVE  \E j \in DOMAIN toClear' : toClear'[j] = o
      BY <1>2, <1>4, <3>3
    <3>4. CASE toClear[1] = o
      BY <1>4, <1>5, <1>7, <3>4
    <3> QED
      BY <3>1, <3>2, <3>3, <3>4
  <2> QED
    BY <1>1, <1>2, <2>1 DEF BarrierInv
<1>9. OwnersTypeOK'
  BY <1>1, <1>2, <1>4, <1>7 DEF OwnersTypeOK
<1>10. CallsKnown'
  BY <1>1, <1>2 DEF CallsKnown
<1>11. HoldsInv' /\ SessionInv'
  BY <1>1, <1>2 DEF HoldsInv, SessionInv
<1>12. QueueInv(tab)' /\ StaleInv(tab)'
  BY <1>1, <1>2
<1> QED
  BY <1>8, <1>9, <1>10, <1>11, <1>12 DEF DebuggerInv

LEMMA EndCleanupKeeps ==
    ASSUME DebuggerInv, EndCleanup
    PROVE  DebuggerInv'
<1>1. /\ OwnersTypeOK /\ QueueInv(tab) /\ StaleInv(tab) /\ CallsKnown /\ HoldsInv /\ SessionInv /\ BarrierInv
  BY DEF DebuggerInv
<1>2. /\ barrier = "clearing" /\ toClear = <<>> /\ barrier' = "off"
      /\ UNCHANGED <<tab, toClear, own, op, called, prompt, detaches, cleanups, dialogs>>
  BY DEF EndCleanup
<1>3. OwnersTypeOK'
  BY <1>1, <1>2 DEF OwnersTypeOK
<1>4. CallsKnown'
  BY <1>1, <1>2 DEF CallsKnown
<1>5. HoldsInv' /\ SessionInv' /\ BarrierInv'
  BY <1>1, <1>2 DEF HoldsInv, SessionInv, BarrierInv
<1>6. QueueInv(tab)' /\ StaleInv(tab)'
  BY <1>1, <1>2
<1> QED
  BY <1>3, <1>4, <1>5, <1>6 DEF DebuggerInv

LEMMA StuttersKeep ==
    ASSUME DebuggerInv, UNCHANGED vars
    PROVE  DebuggerInv'
<1>1. /\ OwnersTypeOK /\ QueueInv(tab) /\ StaleInv(tab) /\ CallsKnown /\ HoldsInv /\ SessionInv /\ BarrierInv
  BY DEF DebuggerInv
<1>2. UNCHANGED <<tab, barrier, toClear, own, op, called, prompt, detaches, cleanups, dialogs>>
  BY DEF vars
<1>3. OwnersTypeOK'
  BY <1>1, <1>2 DEF OwnersTypeOK
<1>4. CallsKnown'
  BY <1>1, <1>2 DEF CallsKnown
<1>5. HoldsInv' /\ SessionInv' /\ BarrierInv'
  BY <1>1, <1>2 DEF HoldsInv, SessionInv, BarrierInv
<1>6. QueueInv(tab)' /\ StaleInv(tab)'
  BY <1>1, <1>2
<1> QED
  BY <1>3, <1>4, <1>5, <1>6 DEF DebuggerInv

LEMMA DebuggerStarts ==
    ASSUME Init
    PROVE  DebuggerInv
<1>1. PICK t : t = Unused
  OBVIOUS
<1>2. /\ tab = t /\ barrier = "off" /\ toClear = <<>> /\ cleanups = 0
      /\ own = [o \in Owners |-> "none"] /\ op = [o \in Owners |-> "none"]
  BY <1>1 DEF Init
<1>3. MaxCleanups \in Nat /\ MaxHolds \in Nat /\ 0 \in Nat /\ 0 \in 0..MaxCleanups
  BY OwnersAssumption
<1>4. t \in Tabs
  <2>1. <<>> \in Seq(CallType)
    OBVIOUS
  <2> QED
    BY <1>1, <1>3, <2>1, ZenonT(30) DEF Unused, Tabs, Stages
<1>5. t.queue = <<>> /\ t.lane = <<>> /\ t.stage = "waiting" /\ t.dialogStage = "waiting"
  BY <1>1 DEF Unused
<1>6. ~t.session /\ ~t.attached /\ t.holds = 0 /\ t.generation = 0
  BY <1>1 DEF Unused
<1>7. OwnersTypeOK
  <2>1. <<>> \in Seq(Owners)
    OBVIOUS
  <2> QED
    BY <1>2, <1>3, <1>4, <1>6, <2>1 DEF OwnersTypeOK
<1>8. QueueInv(t) /\ StaleInv(t)
  BY <1>5 DEF QueueInv, StaleInv, InTurn, StaleWork
<1>9. CallsKnown
  BY <1>2, <1>5 DEF CallsKnown
<1>10. HoldsInv
  <2>1. {o \in Owners : op[o] = "acquire"} = {}
    BY <1>2
  <2>2. Cardinality({}) = 0 /\ Cardinality(Owners) \in Nat
    BY FS_EmptySet, FiniteOwners, FS_CardinalityType
  <2>3. tab.holds = 0
    BY <1>2, <1>6
  <2> QED
    BY <1>3, <2>1, <2>2, <2>3 DEF HoldsInv
<1>11. SessionInv /\ BarrierInv
  BY <1>2, <1>6 DEF SessionInv, BarrierInv
<1> QED
  BY <1>2, <1>7, <1>8, <1>9, <1>10, <1>11 DEF DebuggerInv

LEMMA DebuggerKeeps ==
    ASSUME DebuggerInv, [Next]_vars
    PROVE  DebuggerInv'
<1>1. CASE \E c \in Callers : CallRun(c)
  BY <1>1, CallRunKeeps DEF CallRun
<1>2. CASE \E c \in Answerers : CallDialog(c)
  BY <1>2, CallDialogKeeps
<1>3. CASE \E o \in Owners : Start(o) \/ Stop(o)
  BY <1>3, StartKeeps, StopKeeps
<1>4. CASE Begin \/ GoOn \/ AttachSettles \/ InitSettles \/ Undo \/ WorkSettles \/ DetachSettles
  BY <1>4, TurnStepsKeep
<1>5. CASE BeginDialog \/ DialogSettles
  BY <1>5, LaneStepsKeep
<1>6. CASE TimerFires
  BY <1>6, TimerFiresKeeps
<1>7. CASE DialogOpens \/ DialogSeen \/ DialogCloses
  BY <1>7, DialogStepsKeep
<1>8. CASE ExternalDetach
  BY <1>8, ExternalDetachKeeps
<1>9. CASE BeginCleanup
  BY <1>9, BeginCleanupKeeps
<1>10. CASE DiscardSettles
  BY <1>10, DiscardSettlesKeeps
<1>11. CASE ClearOwner
  BY <1>11, ClearOwnerKeeps
<1>12. CASE EndCleanup
  BY <1>12, EndCleanupKeeps
<1>13. CASE UNCHANGED vars
  BY <1>13, StuttersKeep
<1> QED
  BY <1>1, <1>2, <1>3, <1>4, <1>5, <1>6, <1>7, <1>8, <1>9, <1>10, <1>11, <1>12, <1>13 DEF Next

-----------------------------------------------------------------------------
(* What the invariant is for *)

LEMMA InvTypes ==
    ASSUME DebuggerInv
    PROVE  DebuggerTypeOK
<1>1. PICK t : t = tab
  OBVIOUS
<1>2. OwnersTypeOK /\ HoldsInv /\ t \in Tabs
  BY <1>1 DEF DebuggerInv, OwnersTypeOK
<1>3. PICK A : A = {o \in Owners : op[o] = "acquire"}
  OBVIOUS
<1>4. IsFiniteSet(A) /\ IsFiniteSet(Owners)
  BY <1>3, FiniteOwners, FS_Subset
<1>5. Cardinality(A) \in Nat /\ Cardinality(Owners) \in Nat /\ MaxHolds \in Nat /\ t.holds \in Nat
  BY <1>2, <1>4, FS_CardinalityType, OwnersAssumption DEF Tabs
<1>6. t.holds + Cardinality(A) <= MaxHolds + Cardinality(Owners)
  BY <1>1, <1>2, <1>3 DEF HoldsInv
<1>7. t.holds \in 0..MaxHolds + Cardinality(Owners)
  BY <1>5, <1>6
<1>8. /\ t.session \in BOOLEAN /\ t.attached \in BOOLEAN /\ t.dialog \in BOOLEAN
      /\ t.timer \in {"none", "set", "fired"} /\ t.generation \in 0..MaxCleanups
      /\ t.queue \in Seq(CallType) /\ t.lane \in Seq(CallType)
  BY <1>2 DEF Tabs
<1>9. t.stage \in Stages
  BY <1>2 DEF Tabs
<1> QED
  BY <1>1, <1>2, <1>7, <1>8, <1>9 DEF DebuggerTypeOK, OwnersTypeOK, Stages

LEMMA InvStaleTask ==
    ASSUME DebuggerInv
    PROVE  StaleTaskHasNoSession
<1>1. ASSUME NEW g \in InFlight(tab), g # tab.generation
      PROVE  ~tab.attached
  <2>1. StaleWork(tab)
    BY <1>1 DEF InFlight, StaleWork, Current
  <2> QED
    BY <2>1 DEF DebuggerInv, StaleInv, Sealed
<1> QED
  BY <1>1 DEF StaleTaskHasNoSession

LEMMA InvSweep ==
    ASSUME DebuggerInv, [Next]_vars, barrier # "off", barrier' = "off"
    PROVE  /\ tab.session => At("undoing") \/ At("undoing lost")
           /\ ~tab.attached /\ tab.holds = 0
           /\ \A i \in DOMAIN tab.queue : tab.queue[i].generation # tab.generation
           /\ \A o \in Owners \ {"emulation"} : own[o] = "none"
<1>1. EndCleanup
  <2>1. barrier' = barrier => FALSE
    OBVIOUS
  <2>2. ~(\E c \in Callers : CallRun(c)) /\ ~(\E c \in Answerers : CallDialog(c))
    BY <2>1 DEF CallRun, CallDialog
  <2>3. ~(\E o \in Owners : Start(o) \/ Stop(o))
    BY <2>1 DEF Start, Stop
  <2>4. ~Begin /\ ~GoOn /\ ~AttachSettles /\ ~InitSettles /\ ~Undo /\ ~WorkSettles /\ ~DetachSettles
    BY <2>1 DEF Begin, GoOn, AttachSettles, InitSettles, Undo, WorkSettles, DetachSettles, Turn
  <2>5. ~BeginDialog /\ ~DialogSettles /\ ~TimerFires /\ ~DialogOpens /\ ~DialogSeen /\ ~DialogCloses
    BY <2>1 DEF BeginDialog, DialogSettles, TimerFires, DialogOpens, DialogSeen, DialogCloses
  <2>6. ~ExternalDetach /\ ~BeginCleanup /\ ~DiscardSettles /\ ~ClearOwner
    BY <2>1 DEF ExternalDetach, BeginCleanup, DiscardSettles, ClearOwner
  <2>7. ~UNCHANGED vars
    BY <2>1 DEF vars
  <2> QED
    BY <2>2, <2>3, <2>4, <2>5, <2>6, <2>7 DEF Next
<1>2. Drained /\ barrier = "clearing" /\ toClear = <<>>
  BY <1>1 DEF EndCleanup
<1>3. Sealed(tab) /\ \A o \in Owners \ {"emulation"} : own[o] = "none" \/ \E i \in DOMAIN toClear : toClear[i] = o
  BY <1>2 DEF DebuggerInv, BarrierInv
<1>4. \A o \in Owners \ {"emulation"} : own[o] = "none"
  BY <1>2, <1>3
<1>5. tab.session => At("undoing") \/ At("undoing lost")
  BY <1>2, <1>3 DEF DebuggerInv, SessionInv, Sealed, At
<1> QED
  BY <1>3, <1>4, <1>5 DEF Sealed

\* However Chrome's answers, dialogs, detaches and the cleanups of a tab fall
\* among its callers and owners, for any number of callers, holds and cleanups:
\* a stale command has no session, and when a cleanup ends no session, hold or
\* call that could take one is left (debugger-coordinator.ts:522-745).
THEOREM CanceledWorkStaysOut == Spec => CanceledWorkOut
<1>1. Init => DebuggerInv
  BY DebuggerStarts
<1>2. DebuggerInv /\ [Next]_vars => DebuggerInv'
  BY DebuggerKeeps
<1>3. DebuggerInv => DebuggerTypeOK /\ StaleTaskHasNoSession
  BY InvTypes, InvStaleTask
<1>4. DebuggerInv /\ [Next]_vars =>
        [barrier # "off" /\ barrier' = "off" =>
          /\ tab.session => At("undoing") \/ At("undoing lost")
          /\ ~tab.attached /\ tab.holds = 0
          /\ \A i \in DOMAIN tab.queue : tab.queue[i].generation # tab.generation
          /\ \A o \in Owners \ {"emulation"} : own[o] = "none"]_vars
  BY InvSweep
<1> QED
  BY <1>1, <1>2, <1>3, <1>4, PTL DEF Spec, CanceledWorkOut, CleanSweep

-----------------------------------------------------------------------------
(* Interception rules.                                                      *)

JobKind == {"add", "remove", "clear", "expire"}
JobPlace ==
    {"wait", "disable", "release", "add", "acquire", "enable", "undo", "undone", "narrow"}
FetchJob == [kind : JobKind, rule : SUBSET Rule, at : JobPlace, lost : BOOLEAN, stale : BOOLEAN]
FetchState ==
    [has : BOOLEAN, rules : SUBSET Rule, owns : BOOLEAN, timer : {"off", "set", "spent"},
     filter : BOOLEAN]
ChromeState == [session : BOOLEAN, held : BOOLEAN, patterns : SUBSET Rule, told : BOOLEAN]

FetchTypeOK ==
    /\ fetch \in FetchState /\ IsFiniteSet(fetch.rules)
    /\ jobs \in Seq(FetchJob) /\ chromeFetch \in ChromeState /\ strayHold \in BOOLEAN

\* Only the first job is in the middle of its turn, or finds its tab forgotten; only an
\* addition acquires the session, adds one rule, and undoes that.
JobFits(i) ==
    /\ i > 1 => jobs[i].at = "wait"
    /\ jobs[i].at = "wait" => ~jobs[i].lost
    /\ jobs[i].at \in {"add", "acquire", "enable", "undo", "undone"} => jobs[i].kind = "add"
    /\ jobs[i].at = "narrow" => jobs[i].kind = "remove"
    /\ jobs[i].kind = "add" => \E r \in Rule : jobs[i].rule = {r}
    /\ jobs[i].stale => jobs[i].kind = "expire"
JobsFit == \A i \in DOMAIN jobs : JobFits(i)

\* A cleanup that will run.
WillClean ==
    \E i \in DOMAIN jobs : Cleanup(jobs[i].kind) /\ jobs[i].at = "wait" /\ ~jobs[i].stale

\* A state is listened to; without it nothing is left of it.
StateFits ==
    /\ fetch.has => fetch.filter
    /\ ~fetch.has => fetch = NoFetch
    /\ fetch.timer = "spent" => WillClean

\* Chrome and the coordinator.
ChromeFits ==
    /\ ~chromeFetch.told => ~chromeFetch.session /\ chromeFetch.patterns = {}
    /\ chromeFetch.told /\ chromeFetch.held => chromeFetch.session
    /\ chromeFetch.patterns # {} => fetch.owns
    /\ chromeFetch.told /\ fetch.owns => chromeFetch.held
    /\ chromeFetch.told /\ ~fetch.owns /\ chromeFetch.held => strayHold

Covered(rules) == chromeFetch.told => rules \subseteq chromeFetch.patterns

\* Between turns a state owns its hold, has a timer, and its rules are in Chrome.
BetweenTurns == fetch.has => fetch.owns /\ fetch.timer # "off" /\ Covered(fetch.rules)

\* In a turn, what the first job has done so far.
DuringTurn(job) ==
    CASE job.lost -> chromeFetch = NoSession /\ fetch = NoFetch /\ ~strayHold
      [] ~job.lost /\ job.at = "wait" -> BetweenTurns
      [] ~job.lost /\ job.at \in {"disable", "undo"} ->
           fetch.has /\ fetch.owns /\ fetch.rules = {} /\ fetch.timer = "off"
      [] ~job.lost /\ job.at \in {"release", "undone"} ->
           /\ fetch.has /\ fetch.owns /\ fetch.rules = {} /\ fetch.timer = "off"
           /\ chromeFetch.patterns = {}
      [] ~job.lost /\ job.at = "add" -> fetch = NoFetch
      [] ~job.lost /\ job.at = "acquire" ->
           fetch.has /\ fetch.rules = job.rule /\ ~fetch.owns /\ fetch.timer = "off"
      [] ~job.lost /\ job.at = "enable" ->
           /\ fetch.has /\ fetch.owns /\ job.rule \subseteq fetch.rules
           /\ Covered(fetch.rules \ job.rule)
           /\ fetch.rules \subseteq job.rule \/ fetch.timer # "off"
      [] OTHER -> fetch.has /\ fetch.owns /\ fetch.timer # "off" /\ Covered(fetch.rules)
TurnFits == IF jobs = <<>> THEN BetweenTurns ELSE DuringTurn(jobs[1])

RulesLimited == Cardinality(fetch.rules) + Cardinality(Additions) <= MaxRules

\* What InterceptionEnds needs to be inductive.
InterceptInv ==
    FetchTypeOK /\ JobsFit /\ StateFits /\ ChromeFits /\ TurnFits /\ RulesLimited

\* InterceptionEnds follows.
LEMMA InterceptInvSays == InterceptInv => InterceptionEnds
<1> SUFFICES ASSUME InterceptInv PROVE InterceptionEnds
  OBVIOUS
<1>1. chromeFetch.patterns # {} => fetch.filter
  <2>1. fetch.owns => fetch.has
    BY DEF InterceptInv, StateFits, NoFetch
  <2> QED
    BY <2>1 DEF InterceptInv, StateFits, ChromeFits
<1>2. Cardinality(fetch.rules) + Cardinality(Additions) <= MaxRules
  BY DEF InterceptInv, RulesLimited
<1>3. ASSUME jobs = <<>>, chromeFetch.told
      PROVE  /\ fetch.rules \subseteq chromeFetch.patterns
             /\ fetch.has => fetch.owns /\ chromeFetch.held /\ fetch.timer = "set"
             /\ ~fetch.has => chromeFetch.patterns = {} /\ (chromeFetch.held => strayHold)
  <2>1. BetweenTurns
    BY <1>3 DEF InterceptInv, TurnFits
  <2>2. ~WillClean
    BY <1>3 DEF WillClean
  <2>3. fetch.timer \in {"off", "set"}
    BY <2>2 DEF InterceptInv, StateFits, FetchTypeOK, FetchState
  <2>4. CASE fetch.has
    BY <1>3, <2>1, <2>3, <2>4 DEF BetweenTurns, Covered, InterceptInv, ChromeFits
  <2>5. CASE ~fetch.has
    <3>1. fetch.rules = {} /\ ~fetch.owns
      BY <2>5 DEF InterceptInv, StateFits, NoFetch
    <3> QED
      BY <1>3, <2>5, <3>1 DEF InterceptInv, ChromeFits
  <2> QED
    BY <2>4, <2>5
<1> QED
  BY <1>1, <1>2, <1>3 DEF InterceptionEnds

\* It holds at the start.
LEMMA InterceptBegins == FetchInit => InterceptInv
<1> SUFFICES ASSUME FetchInit PROVE InterceptInv
  OBVIOUS
<1>1. fetch = NoFetch /\ jobs = <<>> /\ chromeFetch = NoSession /\ strayHold = FALSE
  BY DEF FetchInit
<1>2. FetchTypeOK
  <2>1. NoFetch \in FetchState /\ NoFetch.rules = {} /\ NoSession \in ChromeState
    BY DEF NoFetch, NoSession, FetchState, ChromeState
  <2>2. jobs \in Seq(FetchJob)
    BY <1>1
  <2> QED
    BY <1>1, <2>1, <2>2, FS_EmptySet DEF FetchTypeOK
<1>3. Additions = {}
  BY <1>1 DEF Additions
<1>4. RulesLimited
  BY <1>1, <1>3, FS_EmptySet, FetchAssumption DEF RulesLimited, NoFetch
<1>5. JobsFit /\ StateFits /\ ChromeFits /\ TurnFits
  BY <1>1 DEF JobsFit, StateFits, ChromeFits, TurnFits, BetweenTurns, NoFetch, NoSession
<1> QED
  BY <1>2, <1>4, <1>5 DEF InterceptInv

-----------------------------------------------------------------------------
\* The queue: what its operators return.
LEMMA FirstOfJobs ==
  ASSUME FetchTypeOK, jobs # <<>>
  PROVE  /\ Len(jobs) \in Nat \ {0} /\ DOMAIN jobs = 1..Len(jobs) /\ Head(jobs) = jobs[1]
         /\ \A i \in 1..Len(jobs) : jobs[i] \in FetchJob
         /\ 1 \in 1..Len(jobs) /\ jobs \in Seq(FetchJob)
         /\ Tail(jobs) \in Seq(FetchJob) /\ Len(Tail(jobs)) = Len(jobs) - 1
         /\ \A i \in 1..(Len(jobs) - 1) : Tail(jobs)[i] = jobs[i + 1]
<1>1. jobs \in Seq(FetchJob)
  BY DEF FetchTypeOK
<1>2. Len(jobs) \in Nat \ {0} /\ DOMAIN jobs = 1..Len(jobs) /\ Head(jobs) = jobs[1]
  BY <1>1, EmptySeq, HeadTailProperties
<1>3. /\ Tail(jobs) \in Seq(FetchJob) /\ Len(Tail(jobs)) = Len(jobs) - 1
      /\ \A i \in 1..(Len(jobs) - 1) : Tail(jobs)[i] = jobs[i + 1]
  BY <1>1, HeadTailProperties
<1>4. \A i \in 1..Len(jobs) : jobs[i] \in FetchJob
  BY <1>1
<1>5. 1 \in 1..Len(jobs)
  BY <1>2
<1> QED
  BY <1>1, <1>2, <1>3, <1>4, <1>5

\* One job in the place of another: it waits on, an expiry outdated if `marked`.
Alike(j, k, marked) ==
    /\ k.kind = j.kind /\ k.rule = j.rule /\ k.at = j.at /\ k.lost = j.lost
    /\ marked => (k.stale <=> j.kind = "expire")
    /\ ~marked => (k.stale <=> j.stale)

\* The first n jobs are over; what becomes of the first one otherwise is not said.
Follows(n, marked) ==
    /\ jobs' \in Seq(FetchJob) /\ Len(jobs') + n = Len(jobs)
    /\ \A i \in 1..Len(jobs') : i + n > 1 => Alike(jobs[i + n], jobs'[i], marked)

LEMMA OutdatedIs ==
  ASSUME NEW q \in Seq(FetchJob)
  PROVE  /\ Outdated(q) \in Seq(FetchJob) /\ Len(Outdated(q)) = Len(q)
         /\ \A i \in 1..Len(q) : Alike(q[i], Outdated(q)[i], TRUE)
<1>1. \A i \in 1..Len(q) : q[i] \in FetchJob
  OBVIOUS
<1>2. /\ Outdated(q) = [i \in 1..Len(q) |-> [q[i] EXCEPT !.stale = q[i].kind = "expire"]]
      /\ Len(q) \in Nat
  BY DEF Outdated
<1>3. ASSUME NEW j \in FetchJob
      PROVE  /\ [j EXCEPT !.stale = j.kind = "expire"] \in FetchJob
             /\ Alike(j, [j EXCEPT !.stale = j.kind = "expire"], TRUE)
  BY DEF FetchJob, Alike
<1>4. Outdated(q) \in Seq(FetchJob) /\ Len(Outdated(q)) = Len(q)
  <2>1. Outdated(q) \in [1..Len(q) -> FetchJob]
    BY <1>1, <1>2, <1>3
  <2> QED
    BY <1>2, <2>1, LenProperties
<1>5. \A i \in 1..Len(q) : Alike(q[i], Outdated(q)[i], TRUE)
  BY <1>1, <1>2, <1>3
<1> QED
  BY <1>4, <1>5

LEMMA GoesToIs ==
  ASSUME NEW q \in Seq(FetchJob), q # <<>>, NEW at \in JobPlace
  PROVE  /\ GoesTo(q, at) \in Seq(FetchJob) /\ Len(GoesTo(q, at)) = Len(q)
         /\ \A i \in 2..Len(q) : GoesTo(q, at)[i] = q[i]
         /\ GoesTo(q, at)[1] = [q[1] EXCEPT !.at = at] /\ GoesTo(q, at)[1] \in FetchJob
<1>1. Len(q) \in Nat \ {0} /\ 1 \in DOMAIN q /\ q[1] \in FetchJob
  BY EmptySeq
<1>2. [q[1] EXCEPT !.at = at] \in FetchJob
  BY <1>1 DEF FetchJob
<1>3. GoesTo(q, at) = [q EXCEPT ![1] = [q[1] EXCEPT !.at = at]]
  BY DEF GoesTo
<1> QED
  BY <1>1, <1>2, <1>3

\* The turn of the first job is over.
LEMMA TurnOver ==
  ASSUME FetchTypeOK, jobs # <<>>
  PROVE  /\ jobs' = Tail(jobs) => Follows(1, FALSE)
         /\ jobs' = Outdated(Tail(jobs)) => Follows(1, TRUE)
<1>1. ASSUME jobs' = Tail(jobs) PROVE Follows(1, FALSE)
  BY <1>1, FirstOfJobs DEF Follows, Alike
<1>2. ASSUME jobs' = Outdated(Tail(jobs)) PROVE Follows(1, TRUE)
  <2>1. /\ Tail(jobs) \in Seq(FetchJob) /\ Len(Tail(jobs)) = Len(jobs) - 1 /\ Len(jobs) \in Nat \ {0}
        /\ \A i \in 1..(Len(jobs) - 1) : Tail(jobs)[i] = jobs[i + 1]
    BY FirstOfJobs
  <2>2. /\ jobs' \in Seq(FetchJob) /\ Len(jobs') = Len(jobs) - 1
        /\ \A i \in 1..(Len(jobs) - 1) : Alike(Tail(jobs)[i], jobs'[i], TRUE)
    BY <1>2, <2>1, OutdatedIs
  <2>3. \A i \in 1..(Len(jobs) - 1) : Alike(jobs[i + 1], jobs'[i], TRUE)
    BY <2>1, <2>2
  <2>4. /\ Len(jobs') + 1 = Len(jobs)
        /\ \A i \in 1..Len(jobs') : i + 1 > 1 => Alike(jobs[i + 1], jobs'[i], TRUE)
    <3>1. Len(jobs') + 1 = Len(jobs) /\ 1..Len(jobs') = 1..(Len(jobs) - 1)
      BY <2>1, <2>2
    <3> QED
      BY <2>3, <3>1
  <2> QED
    BY <2>2, <2>4 DEF Follows
<1> QED
  BY <1>1, <1>2

\* It goes on to another place.
LEMMA TurnGoesOn ==
  ASSUME FetchTypeOK, jobs # <<>>, NEW at \in JobPlace
  PROVE  /\ jobs' = GoesTo(jobs, at) =>
              Follows(0, FALSE) /\ jobs'[1] = [jobs[1] EXCEPT !.at = at] /\ jobs' # <<>>
         /\ jobs' = GoesTo(Outdated(jobs), at) =>
              /\ Follows(0, TRUE) /\ jobs' # <<>>
              /\ jobs'[1].at = at /\ jobs'[1].kind = jobs[1].kind /\ jobs'[1].rule = jobs[1].rule
              /\ jobs'[1].lost = jobs[1].lost /\ (jobs'[1].stale => jobs[1].kind = "expire")
<1>1. jobs \in Seq(FetchJob) /\ Len(jobs) \in Nat \ {0} /\ 1 \in 1..Len(jobs)
  BY FirstOfJobs
<1>2. ASSUME jobs' = GoesTo(jobs, at)
      PROVE  Follows(0, FALSE) /\ jobs'[1] = [jobs[1] EXCEPT !.at = at] /\ jobs' # <<>>
  <2>1. /\ jobs' \in Seq(FetchJob) /\ Len(jobs') = Len(jobs)
        /\ \A i \in 2..Len(jobs) : jobs'[i] = jobs[i]
        /\ jobs'[1] = [jobs[1] EXCEPT !.at = at]
    BY <1>1, <1>2, GoesToIs
  <2>2. jobs' # <<>>
    BY <1>1, <2>1
  <2>3. ASSUME NEW i \in 1..Len(jobs'), i + 0 > 1 PROVE Alike(jobs[i + 0], jobs'[i], FALSE)
    <3>1. i + 0 = i /\ i \in 2..Len(jobs)
      BY <1>1, <2>1, <2>3
    <3> QED
      BY <2>1, <3>1 DEF Alike
  <2>4. Follows(0, FALSE)
    <3>1. Len(jobs') + 0 = Len(jobs)
      BY <1>1, <2>1
    <3> QED
      BY <2>1, <2>3, <3>1 DEF Follows
  <2> HIDE DEF Follows
  <2> QED
    BY <2>1, <2>2, <2>4
<1>3. ASSUME jobs' = GoesTo(Outdated(jobs), at)
      PROVE  /\ Follows(0, TRUE) /\ jobs' # <<>>
             /\ jobs'[1].at = at /\ jobs'[1].kind = jobs[1].kind /\ jobs'[1].rule = jobs[1].rule
             /\ jobs'[1].lost = jobs[1].lost /\ (jobs'[1].stale => jobs[1].kind = "expire")
  <2>1. /\ Outdated(jobs) \in Seq(FetchJob) /\ Len(Outdated(jobs)) = Len(jobs)
        /\ \A i \in 1..Len(jobs) : Alike(jobs[i], Outdated(jobs)[i], TRUE)
    BY <1>1, OutdatedIs
  <2>2. PICK q \in Seq(FetchJob) : q = Outdated(jobs) /\ q # <<>>
    BY <1>1, <2>1
  <2>3. /\ jobs' \in Seq(FetchJob) /\ Len(jobs') = Len(q)
        /\ \A i \in 2..Len(q) : jobs'[i] = q[i]
        /\ jobs'[1] = [q[1] EXCEPT !.at = at] /\ jobs'[1] \in FetchJob
    BY <1>3, <2>2, GoesToIs
  <2>4. jobs' # <<>> /\ q[1] \in FetchJob
    BY <1>1, <2>1, <2>2, <2>3
  <2>5. ASSUME NEW i \in 1..Len(jobs'), i + 0 > 1 PROVE Alike(jobs[i + 0], jobs'[i], TRUE)
    <3>1. i + 0 = i /\ i \in 2..Len(jobs)
      BY <1>1, <2>1, <2>2, <2>3, <2>5
    <3>2. jobs'[i] = q[i] /\ Alike(jobs[i], q[i], TRUE)
      BY <1>1, <2>1, <2>2, <2>3, <3>1
    <3> QED
      BY <3>1, <3>2
  <2>6. Follows(0, TRUE)
    <3>1. Len(jobs') + 0 = Len(jobs)
      BY <1>1, <2>1, <2>2, <2>3
    <3> QED
      BY <2>3, <2>5, <3>1 DEF Follows
  <2>7. Alike(jobs[1], q[1], TRUE)
    BY <1>1, <2>1, <2>2
  <2>8. /\ jobs'[1].at = at /\ jobs'[1].kind = q[1].kind /\ jobs'[1].rule = q[1].rule
        /\ jobs'[1].lost = q[1].lost /\ jobs'[1].stale = q[1].stale
    BY <2>3, <2>4 DEF FetchJob
  <2> QED
    BY <2>4, <2>6, <2>7, <2>8 DEF Alike
<1> QED
  BY <1>2, <1>3

\* They are finitely many.
LEMMA AdditionsFinite ==
  ASSUME FetchTypeOK
  PROVE  IsFiniteSet(Additions) /\ Additions \subseteq 1..Len(jobs)
<1>1. jobs \in Seq(FetchJob) /\ Len(jobs) \in Nat /\ DOMAIN jobs = 1..Len(jobs)
  BY DEF FetchTypeOK
<1>2. Additions \subseteq 1..Len(jobs)
  BY <1>1 DEF Additions
<1>3. IsFiniteSet(1..Len(jobs))
  BY <1>1, FS_Interval
<1> QED
  BY <1>2, <1>3, FS_Subset

\* The additions that are under way are no more than before when the first job is over.
LEMMA AdditionsShift ==
  ASSUME FetchTypeOK, NEW marked \in BOOLEAN, Follows(1, marked), jobs # <<>>
  PROVE  IsFiniteSet(Additions') /\ Cardinality(Additions') <= Cardinality(Additions)
<1>1. Len(jobs) \in Nat \ {0} /\ DOMAIN jobs = 1..Len(jobs)
  BY FirstOfJobs
<1>2. Len(jobs') = Len(jobs) - 1 /\ DOMAIN jobs' = 1..(Len(jobs) - 1)
  BY <1>1 DEF Follows
<1>3. \A i \in Additions' : i \in 1..(Len(jobs) - 1) /\ i + 1 \in Additions
  BY <1>1, <1>2 DEF Follows, Alike, Additions
<1>4. IsFiniteSet(Additions) /\ Additions \subseteq 1..Len(jobs)
  BY AdditionsFinite
<1> DEFINE S == {i \in Additions : i - 1 \in Additions'}
           f == [i \in S |-> i - 1]
<1>5. S \subseteq Additions /\ IsFiniteSet(S) /\ Cardinality(S) <= Cardinality(Additions)
  BY <1>4, FS_Subset
<1>6. f \in Surjection(S, Additions')
  <2>1. f \in [S -> Additions']
    OBVIOUS
  <2>2. \A j \in Additions' : \E i \in S : f[i] = j
    <3>1. ASSUME NEW j \in Additions' PROVE j + 1 \in S /\ f[j + 1] = j
      BY <1>1, <1>3
    <3> QED
      BY <3>1
  <2> HIDE DEF f, S
  <2> QED
    BY <2>1, <2>2 DEF Surjection
<1>7. IsFiniteSet(Additions') /\ Cardinality(Additions') <= Cardinality(S)
  BY <1>5, <1>6, FS_Surjection
<1>8. Cardinality(S) \in Nat /\ Cardinality(Additions) \in Nat /\ Cardinality(Additions') \in Nat
  BY <1>4, <1>5, <1>7, FS_CardinalityType
<1> HIDE DEF S
<1> QED
  BY <1>5, <1>7, <1>8

LEMMA AdditionsStay ==
  ASSUME FetchTypeOK, NEW marked \in BOOLEAN, Follows(0, marked), jobs # <<>>
  PROVE  /\ IsFiniteSet(Additions) /\ Additions' \subseteq Additions \union {1}
         /\ 1 \in Additions' <=> jobs'[1].kind = "add" /\ jobs'[1].at \in {"wait", "disable", "release", "add"}
         /\ 1 \in Additions <=> jobs[1].kind = "add" /\ jobs[1].at \in {"wait", "disable", "release", "add"}
<1>1. Len(jobs) \in Nat \ {0} /\ DOMAIN jobs = 1..Len(jobs) /\ 1 \in 1..Len(jobs)
  BY FirstOfJobs
<1>2. DOMAIN jobs' = DOMAIN jobs
  BY <1>1 DEF Follows
<1>3. IsFiniteSet(Additions)
  BY AdditionsFinite
<1>4. \A i \in 1..Len(jobs) : i # 1 => Alike(jobs[i], jobs'[i], marked)
  BY <1>1, <1>2 DEF Follows
<1>5. Additions' \subseteq Additions \union {1}
  BY <1>1, <1>2, <1>4 DEF Additions, Alike
<1> QED
  BY <1>1, <1>2, <1>3, <1>5 DEF Additions

-----------------------------------------------------------------------------
\* Steps of a turn.
StateOK ==
    /\ fetch \in FetchState /\ chromeFetch \in ChromeState /\ strayHold \in BOOLEAN
    /\ fetch.has => fetch.filter
    /\ ~fetch.has => fetch = NoFetch
    /\ ChromeFits

\* The first job is no cleanup that was still to run.
NoCleaning == jobs[1].at = "wait" => ~Cleanup(jobs[1].kind) \/ jobs[1].stale

LEMMA WillCleanStays ==
  ASSUME FetchTypeOK, NEW n \in {0, 1}, Follows(n, FALSE), jobs # <<>>, NoCleaning, WillClean
  PROVE  WillClean'
<1>1. PICK i \in DOMAIN jobs : Cleanup(jobs[i].kind) /\ jobs[i].at = "wait" /\ ~jobs[i].stale
  BY DEF WillClean
<1>2. i # 1 /\ Len(jobs) \in Nat \ {0} /\ i \in 1..Len(jobs)
  BY <1>1, FirstOfJobs DEF NoCleaning
<1>3. jobs' \in Seq(FetchJob) /\ Len(jobs') + n = Len(jobs) /\ Len(jobs') \in Nat
  BY DEF Follows
<1>4. i - n \in 1..Len(jobs') /\ (i - n) + n = i /\ i > 1
  BY <1>2, <1>3
<1>5. Alike(jobs[i], jobs'[i - n], FALSE)
  BY <1>4 DEF Follows
<1>6. i - n \in DOMAIN jobs'
  BY <1>3, <1>4
<1> QED
  BY <1>1, <1>5, <1>6 DEF WillClean, Alike

\* The turn is over.
LEMMA OverKeeps ==
  ASSUME InterceptInv, jobs # <<>>, NEW marked \in BOOLEAN, Follows(1, marked), StateOK',
         fetch'.rules \subseteq fetch.rules, BetweenTurns',
         fetch'.timer = "spent" => fetch.timer = "spent" /\ ~marked /\ NoCleaning
  PROVE  InterceptInv'
<1>1. FetchTypeOK /\ Len(jobs) \in Nat \ {0} /\ DOMAIN jobs = 1..Len(jobs)
  BY FirstOfJobs DEF InterceptInv
<1>2. jobs' \in Seq(FetchJob) /\ Len(jobs') = Len(jobs) - 1 /\ DOMAIN jobs' = 1..(Len(jobs) - 1)
  BY <1>1 DEF Follows
<1>3. \A i \in 1..(Len(jobs) - 1) : Alike(jobs[i + 1], jobs'[i], marked) /\ i + 1 \in DOMAIN jobs /\ i + 1 > 1
  BY <1>1, <1>2 DEF Follows
<1>4. IsFiniteSet(fetch'.rules) /\ Cardinality(fetch'.rules) <= Cardinality(fetch.rules)
  BY <1>1, FS_Subset DEF FetchTypeOK
<1>5. FetchTypeOK'
  BY <1>2, <1>4 DEF FetchTypeOK, StateOK
<1>6. \A i \in DOMAIN jobs' : jobs'[i].at = "wait" /\ ~jobs'[i].lost
  BY <1>2, <1>3 DEF InterceptInv, JobsFit, JobFits, Alike
<1>7. JobsFit'
  <2> SUFFICES ASSUME NEW i \in DOMAIN jobs' PROVE JobFits(i)'
    BY DEF JobsFit
  <2>1. JobFits(i + 1) /\ Alike(jobs[i + 1], jobs'[i], marked)
    BY <1>2, <1>3 DEF InterceptInv, JobsFit
  <2> QED
    BY <1>6, <2>1 DEF JobFits, Alike
<1>8. TurnFits'
  <2>1. CASE jobs' = <<>>
    BY <2>1 DEF TurnFits
  <2>2. CASE jobs' # <<>>
    <3>1. 1 \in DOMAIN jobs'
      BY <1>2, <2>2, EmptySeq
    <3> QED
      BY <1>6, <2>2, <3>1 DEF TurnFits, DuringTurn
  <2> QED
    BY <2>1, <2>2
<1>9. StateFits'
  <2>1. fetch'.timer = "spent" => WillClean'
    BY <1>1, WillCleanStays DEF InterceptInv, StateFits
  <2> QED
    BY <2>1 DEF StateFits, StateOK
<1>10. RulesLimited'
  <2>1. Cardinality(Additions') <= Cardinality(Additions) /\ IsFiniteSet(Additions')
    BY <1>1, AdditionsShift
  <2>2. IsFiniteSet(Additions)
    BY <1>1, AdditionsFinite
  <2>3. /\ Cardinality(Additions) \in Nat /\ Cardinality(Additions') \in Nat
        /\ Cardinality(fetch.rules) \in Nat /\ Cardinality(fetch'.rules) \in Nat
    BY <1>1, <1>4, <2>1, <2>2, FS_CardinalityType DEF FetchTypeOK
  <2> QED
    BY <1>4, <2>1, <2>3, FetchAssumption DEF InterceptInv, RulesLimited
<1> QED
  BY <1>5, <1>7, <1>8, <1>9, <1>10 DEF InterceptInv, StateOK

\* The turn goes on: with no more rules, or with one more that was an addition to come.
LEMMA TurnGoesOnKeeps ==
  ASSUME InterceptInv, jobs # <<>>, jobs' # <<>>, NEW marked \in BOOLEAN, Follows(0, marked), StateOK',
         JobFits(1)', DuringTurn(jobs[1])',
         \/ fetch'.rules \subseteq fetch.rules /\ (1 \in Additions' => 1 \in Additions)
         \/ /\ \E r \in Rule : fetch'.rules = fetch.rules \union {r}
            /\ 1 \in Additions /\ 1 \notin Additions',
         fetch'.timer = "spent" => fetch.timer = "spent" /\ ~marked /\ NoCleaning
  PROVE  InterceptInv'
<1>1. FetchTypeOK /\ Len(jobs) \in Nat \ {0} /\ DOMAIN jobs = 1..Len(jobs)
  BY FirstOfJobs DEF InterceptInv
<1>2. jobs' \in Seq(FetchJob) /\ Len(jobs') = Len(jobs) /\ DOMAIN jobs' = 1..Len(jobs)
  BY <1>1 DEF Follows
<1>3. \A i \in 1..Len(jobs) : i > 1 => Alike(jobs[i], jobs'[i], marked)
  BY <1>1, <1>2 DEF Follows
<1>4. IsFiniteSet(Additions) /\ Additions' \subseteq Additions \union {1}
  BY <1>1, AdditionsStay
<1>5. /\ IsFiniteSet(fetch'.rules)
      /\ \/ /\ Cardinality(fetch'.rules) <= Cardinality(fetch.rules)
            /\ 1 \in Additions' => 1 \in Additions
         \/ /\ Cardinality(fetch'.rules) <= Cardinality(fetch.rules) + 1
            /\ 1 \in Additions /\ 1 \notin Additions'
  <2>1. CASE fetch'.rules \subseteq fetch.rules /\ (1 \in Additions' => 1 \in Additions)
    BY <1>1, <2>1, FS_Subset DEF FetchTypeOK
  <2>2. ASSUME NEW r \in Rule, fetch'.rules = fetch.rules \union {r}, 1 \in Additions, 1 \notin Additions'
        PROVE  IsFiniteSet(fetch'.rules) /\ Cardinality(fetch'.rules) <= Cardinality(fetch.rules) + 1
    <3>1. /\ IsFiniteSet(fetch'.rules)
          /\ \/ Cardinality(fetch'.rules) = Cardinality(fetch.rules)
             \/ Cardinality(fetch'.rules) = Cardinality(fetch.rules) + 1
      BY <1>1, <2>2, FS_AddElement DEF FetchTypeOK
    <3>2. Cardinality(fetch.rules) \in Nat
      BY <1>1, FS_CardinalityType DEF FetchTypeOK
    <3> QED
      BY <3>1, <3>2
  <2> QED
    BY <2>1, <2>2
<1>6. FetchTypeOK'
  BY <1>2, <1>5 DEF FetchTypeOK, StateOK
<1>7. JobsFit'
  <2> SUFFICES ASSUME NEW i \in DOMAIN jobs' PROVE JobFits(i)'
    BY DEF JobsFit
  <2>1. CASE i = 1
    BY <2>1
  <2>2. CASE i # 1
    <3>1. JobFits(i) /\ Alike(jobs[i], jobs'[i], marked) /\ i > 1
      BY <1>1, <1>2, <1>3, <2>2 DEF InterceptInv, JobsFit
    <3> QED
      BY <3>1 DEF JobFits, Alike
  <2> QED
    BY <2>1, <2>2
<1>8. TurnFits'
  BY DEF TurnFits
<1>9. StateFits'
  <2>1. fetch'.timer = "spent" => WillClean'
    BY <1>1, WillCleanStays DEF InterceptInv, StateFits
  <2> QED
    BY <2>1 DEF StateFits, StateOK
<1>10. RulesLimited'
  <2>1. /\ Cardinality(Additions) \in Nat /\ Cardinality(Additions') \in Nat
        /\ Cardinality(fetch.rules) \in Nat /\ Cardinality(fetch'.rules) \in Nat
    <3>1. IsFiniteSet(Additions \union {1}) /\ IsFiniteSet(Additions')
      BY <1>4, FS_AddElement, FS_Subset
    <3> QED
      BY <1>1, <1>4, <1>5, <3>1, FS_CardinalityType DEF FetchTypeOK
  <2>2. Cardinality(fetch'.rules) + Cardinality(Additions')
          <= Cardinality(fetch.rules) + Cardinality(Additions)
    <3>1. (1 \in Additions' => 1 \in Additions) => Cardinality(Additions') <= Cardinality(Additions)
      BY <1>4, FS_Subset
    <3>2. 1 \in Additions /\ 1 \notin Additions' => Cardinality(Additions') <= Cardinality(Additions) - 1
      <4>1. ASSUME 1 \in Additions, 1 \notin Additions' PROVE Cardinality(Additions') <= Cardinality(Additions) - 1
        <5>1. Additions' \subseteq Additions \ {1}
          BY <1>4, <4>1
        <5>2. IsFiniteSet(Additions \ {1}) /\ Cardinality(Additions \ {1}) = Cardinality(Additions) - 1
          BY <1>4, <4>1, FS_RemoveElement
        <5> QED
          BY <5>1, <5>2, FS_Subset
      <4> QED
        BY <4>1
    <3> QED
      BY <1>5, <2>1, <3>1, <3>2
  <2> QED
    BY <2>1, <2>2, FetchAssumption DEF InterceptInv, RulesLimited
<1> QED
  BY <1>6, <1>7, <1>8, <1>9, <1>10 DEF InterceptInv, StateOK

\* What is known of the job that runs.
LEMMA FirstTurn ==
  ASSUME InterceptInv, jobs # <<>>
  PROVE  /\ FetchTypeOK /\ StateOK /\ Head(jobs) = jobs[1] /\ jobs[1] \in FetchJob
         /\ JobFits(1) /\ DuringTurn(jobs[1])
<1>1. FetchTypeOK /\ StateOK
  BY DEF InterceptInv, FetchTypeOK, StateFits, StateOK
<1>2. Head(jobs) = jobs[1] /\ jobs[1] \in FetchJob /\ 1 \in DOMAIN jobs
  BY <1>1, FirstOfJobs
<1>3. JobFits(1) /\ DuringTurn(jobs[1])
  BY <1>2 DEF InterceptInv, JobsFit, TurnFits
<1> QED
  BY <1>1, <1>2, <1>3

\* A release that leaves no state.
LEMMA Released ==
  ASSUME InterceptInv, jobs # <<>>, AfterRelease, fetch' = NoFetch, StateOK',
         jobs[1].lost => chromeFetch' = NoSession /\ ~strayHold'
  PROVE  InterceptInv'
<1>1. FetchTypeOK /\ Head(jobs) = jobs[1] /\ jobs[1] \in FetchJob /\ JobFits(1)
  BY FirstTurn
<1>2. ~fetch'.has /\ fetch'.rules = {} /\ fetch'.timer = "off"
  BY DEF NoFetch
<1>3. CASE jobs[1].kind = "add" /\ jobs[1].at \in {"wait", "disable", "release"}
  <2>1. jobs' = GoesTo(Outdated(jobs), "add")
    BY <1>1, <1>3 DEF AfterRelease
  <2>2. "add" \in JobPlace
    BY DEF JobPlace
  <2>3. /\ Follows(0, TRUE) /\ jobs' # <<>>
        /\ jobs'[1].at = "add" /\ jobs'[1].kind = jobs[1].kind /\ jobs'[1].rule = jobs[1].rule
        /\ jobs'[1].lost = jobs[1].lost /\ (jobs'[1].stale => jobs[1].kind = "expire")
    BY <1>1, <2>1, <2>2, TurnGoesOn
  <2>4. JobFits(1)'
    BY <1>1, <1>3, <2>3 DEF JobFits
  <2>5. DuringTurn(jobs[1])'
    BY <2>3 DEF DuringTurn
  <2>6. 1 \in Additions
    BY <1>1, <1>3, <2>3, AdditionsStay
  <2> QED
    BY <1>2, <2>3, <2>4, <2>5, <2>6, TurnGoesOnKeeps
<1>4. CASE ~(jobs[1].kind = "add" /\ jobs[1].at \in {"wait", "disable", "release"})
  <2>1. jobs' = Outdated(Tail(jobs))
    BY <1>1, <1>4 DEF AfterRelease
  <2>2. Follows(1, TRUE)
    BY <1>1, <2>1, TurnOver
  <2>3. BetweenTurns'
    BY <1>2 DEF BetweenTurns
  <2> QED
    BY <1>2, <2>2, <2>3, OverKeeps
<1> QED
  BY <1>3, <1>4

\* A job whose tab was not forgotten.
LEMMA NotForgotten ==
  ASSUME InterceptInv, jobs # <<>>, chromeFetch.session \/ jobs[1].at = "wait"
  PROVE  ~jobs[1].lost
<1>1. jobs[1] \in FetchJob /\ JobFits(1) /\ DuringTurn(jobs[1])
  BY FirstTurn
<1>2. ~NoSession.session
  BY DEF NoSession
<1> QED
  BY <1>1, <1>2 DEF JobFits, DuringTurn

-----------------------------------------------------------------------------
\* releaseTab.
LEMMA GivesUpKeeps == InterceptInv /\ GivesUp => InterceptInv'
<1> SUFFICES ASSUME InterceptInv, GivesUp PROVE InterceptInv'
  OBVIOUS
<1>1. MustRelease /\ jobs # <<>> /\ Head(jobs).at = "wait"
  BY DEF GivesUp, MustRelease, Running
<1>2. /\ FetchTypeOK /\ StateOK /\ Head(jobs) = jobs[1] /\ jobs[1] \in FetchJob
      /\ JobFits(1) /\ DuringTurn(jobs[1]) /\ ~jobs[1].lost
  BY <1>1, FirstTurn, NotForgotten
<1>3. fetch.has /\ fetch.filter
  BY <1>1, <1>2 DEF MustRelease, StateOK, NoFetch
<1>4. fetch.owns
  BY <1>1, <1>2, <1>3 DEF DuringTurn, BetweenTurns
<1>5. /\ fetch' = [fetch EXCEPT !.rules = {}, !.timer = "off"] /\ jobs' = GoesTo(jobs, "disable")
      /\ chromeFetch' = chromeFetch /\ strayHold' = strayHold
  BY <1>4 DEF GivesUp
<1>6. /\ fetch' \in FetchState /\ fetch'.has /\ fetch'.owns /\ fetch'.rules = {} /\ fetch'.timer = "off"
      /\ fetch'.filter
  BY <1>2, <1>3, <1>4, <1>5 DEF StateOK, FetchState
<1>7. StateOK'
  BY <1>2, <1>4, <1>5, <1>6 DEF StateOK, ChromeFits
<1>8. Follows(0, FALSE) /\ jobs'[1] = [jobs[1] EXCEPT !.at = "disable"] /\ jobs' # <<>>
  <2>1. "disable" \in JobPlace
    BY DEF JobPlace
  <2> QED
    BY <1>1, <1>2, <1>5, <2>1, TurnGoesOn
<1>9. /\ jobs'[1].at = "disable" /\ jobs'[1].kind = jobs[1].kind /\ jobs'[1].rule = jobs[1].rule
      /\ jobs'[1].lost = jobs[1].lost /\ jobs'[1].stale = jobs[1].stale
  BY <1>2, <1>8 DEF FetchJob
<1>10. JobFits(1)' /\ DuringTurn(jobs[1])'
  BY <1>2, <1>6, <1>9 DEF JobFits, DuringTurn
<1>11. 1 \in Additions' => 1 \in Additions
  BY <1>1, <1>2, <1>8, <1>9, AdditionsStay
<1> QED
  BY <1>1, <1>6, <1>7, <1>8, <1>10, <1>11, TurnGoesOnKeeps

LEMMA StopsPausingKeeps == InterceptInv /\ StopsPausing => InterceptInv'
<1> SUFFICES ASSUME InterceptInv, StopsPausing PROVE InterceptInv'
  OBVIOUS
<1>1. jobs # <<>> /\ Head(jobs).at \in {"disable", "undo"} /\ chromeFetch.session
  BY DEF StopsPausing, FetchAt
<1>2. /\ FetchTypeOK /\ StateOK /\ Head(jobs) = jobs[1] /\ jobs[1] \in FetchJob
      /\ JobFits(1) /\ DuringTurn(jobs[1]) /\ ~jobs[1].lost
  BY <1>1, FirstTurn, NotForgotten
<1>3. PICK at \in {"undone", "release"} :
         jobs' = GoesTo(jobs, at) /\ (at = "undone" <=> jobs[1].at = "undo")
  BY <1>1, <1>2 DEF StopsPausing, Lost
<1>4. fetch' = fetch /\ strayHold' = strayHold /\ chromeFetch' = [chromeFetch EXCEPT !.patterns = {}]
  BY DEF StopsPausing
<1>5. /\ fetch.has /\ fetch.owns /\ fetch.rules = {} /\ fetch.timer = "off"
  BY <1>1, <1>2 DEF DuringTurn
<1>6. /\ chromeFetch' \in ChromeState /\ chromeFetch'.patterns = {}
      /\ chromeFetch'.session = chromeFetch.session /\ chromeFetch'.held = chromeFetch.held
      /\ chromeFetch'.told = chromeFetch.told
  BY <1>2, <1>4 DEF StateOK, ChromeState
<1>7. StateOK'
  BY <1>2, <1>4, <1>6 DEF StateOK, ChromeFits
<1>8. Follows(0, FALSE) /\ jobs'[1] = [jobs[1] EXCEPT !.at = at] /\ jobs' # <<>>
  <2>1. at \in JobPlace
    BY DEF JobPlace
  <2> QED
    BY <1>1, <1>2, <1>3, <2>1, TurnGoesOn
<1>9. /\ jobs'[1].at = at /\ jobs'[1].kind = jobs[1].kind /\ jobs'[1].rule = jobs[1].rule
      /\ jobs'[1].lost = jobs[1].lost /\ jobs'[1].stale = jobs[1].stale
  BY <1>2, <1>8 DEF FetchJob
<1>10. JobFits(1)' /\ DuringTurn(jobs[1])'
  BY <1>1, <1>2, <1>3, <1>4, <1>5, <1>6, <1>9 DEF JobFits, DuringTurn
<1>11. 1 \in Additions' => 1 \in Additions
  BY <1>1, <1>2, <1>3, <1>8, <1>9, AdditionsStay
<1> QED
  BY <1>1, <1>4, <1>5, <1>7, <1>8, <1>10, <1>11, TurnGoesOnKeeps

LEMMA DisableFailsKeeps == InterceptInv /\ DisableFails => InterceptInv'
<1> SUFFICES ASSUME InterceptInv, DisableFails PROVE InterceptInv'
  OBVIOUS
<1>1. /\ jobs # <<>> /\ Head(jobs).at \in {"disable", "undo"}
      /\ chromeFetch' = chromeFetch /\ strayHold' = strayHold
  BY DEF DisableFails, FetchAt
<1>2. /\ FetchTypeOK /\ StateOK /\ Head(jobs) = jobs[1] /\ jobs[1] \in FetchJob
      /\ JobFits(1) /\ DuringTurn(jobs[1])
  BY <1>1, FirstTurn
<1>3. CASE ~chromeFetch.session
  <2>1. fetch' = NoFetch /\ AfterRelease
    BY <1>3 DEF DisableFails
  <2>2. jobs[1].lost => chromeFetch = NoSession /\ ~strayHold
    BY <1>2 DEF DuringTurn
  <2>3. ~jobs[1].lost => fetch.owns
    BY <1>1, <1>2 DEF DuringTurn
  <2>4. chromeFetch.patterns = {} /\ (chromeFetch.told => ~chromeFetch.held)
    <3>1. ~NoSession.held /\ NoSession.patterns = {}
      BY DEF NoSession
    <3> QED
      BY <1>2, <1>3, <2>2, <2>3, <3>1 DEF StateOK, ChromeFits
  <2>5. NoFetch \in FetchState /\ ~NoFetch.has /\ ~NoFetch.owns
    BY DEF NoFetch, FetchState
  <2>6. StateOK'
    BY <1>1, <1>2, <1>3, <2>1, <2>4, <2>5 DEF StateOK, ChromeFits
  <2> QED
    BY <1>1, <2>1, <2>2, <2>6, Released
<1>4. CASE chromeFetch.session
  <2>1. ~jobs[1].lost
    BY <1>1, <1>4, NotForgotten
  <2>2. fetch' = [fetch EXCEPT !.timer = "set"] /\ jobs' = Outdated(Tail(jobs))
    BY <1>2, <1>4, <2>1 DEF DisableFails, Lost, Unconfirmed, Timed
  <2>3. fetch.has /\ fetch.owns /\ fetch.rules = {} /\ fetch.filter
    BY <1>1, <1>2, <2>1 DEF DuringTurn, StateOK
  <2>4. /\ fetch' \in FetchState /\ fetch'.has /\ fetch'.owns /\ fetch'.rules = {} /\ fetch'.timer = "set"
        /\ fetch'.filter
    BY <1>2, <2>2, <2>3 DEF StateOK, FetchState
  <2>5. StateOK' /\ BetweenTurns'
    BY <1>1, <1>2, <2>3, <2>4 DEF StateOK, ChromeFits, BetweenTurns, Covered
  <2>6. Follows(1, TRUE)
    BY <1>1, <1>2, <2>2, TurnOver
  <2> QED
    BY <1>1, <2>4, <2>5, <2>6, OverKeeps
<1> QED
  BY <1>3, <1>4

LEMMA ReleasesKeeps == InterceptInv /\ Releases => InterceptInv'
<1> SUFFICES ASSUME InterceptInv, Releases PROVE InterceptInv'
  OBVIOUS
<1>1. /\ jobs # <<>> /\ Head(jobs).at \in {"release", "undone"} /\ AfterRelease
      /\ strayHold' = strayHold
  BY DEF Releases, FetchAt
<1>2. /\ FetchTypeOK /\ StateOK /\ Head(jobs) = jobs[1] /\ jobs[1] \in FetchJob
      /\ JobFits(1) /\ DuringTurn(jobs[1])
  BY <1>1, FirstTurn
<1>3. jobs[1].lost => chromeFetch = NoSession /\ fetch = NoFetch /\ ~strayHold
  BY <1>2 DEF DuringTurn
<1>4. fetch' = NoFetch
  BY <1>2, <1>3 DEF Releases, Lost
<1>5. chromeFetch' \in {chromeFetch, NoSession}
      /\ (chromeFetch' = chromeFetch => jobs[1].lost \/ ~chromeFetch.told \/ strayHold \/ chromeFetch = NoSession)
      /\ (jobs[1].lost => chromeFetch' = chromeFetch)
  BY <1>2 DEF Releases, Lost
<1>6. NoFetch \in FetchState /\ ~NoFetch.has /\ ~NoFetch.owns
  BY DEF NoFetch, FetchState
<1>7. NoSession \in ChromeState /\ ~NoSession.session /\ ~NoSession.held /\ NoSession.patterns = {} /\ NoSession.told
  BY DEF NoSession, ChromeState
<1>8. ~jobs[1].lost => chromeFetch.patterns = {}
  BY <1>1, <1>2 DEF DuringTurn
<1>9. CASE chromeFetch' = NoSession
  <2>1. StateOK'
    BY <1>1, <1>2, <1>4, <1>6, <1>7, <1>9 DEF StateOK, ChromeFits
  <2> QED
    BY <1>1, <1>3, <1>4, <1>9, <2>1, Released
<1>10. CASE chromeFetch' = chromeFetch /\ chromeFetch # NoSession
  <2>1. ~jobs[1].lost /\ (chromeFetch.told => strayHold)
    BY <1>3, <1>5, <1>10
  <2>2. StateOK'
    BY <1>1, <1>2, <1>4, <1>6, <1>8, <1>10, <2>1 DEF StateOK, ChromeFits
  <2> QED
    BY <1>1, <1>4, <2>1, <2>2, Released
<1> QED
  BY <1>5, <1>9, <1>10

-----------------------------------------------------------------------------
\* addRule, removeRule.
LEMMA AddsKeeps == InterceptInv /\ Adds => InterceptInv'
<1> SUFFICES ASSUME InterceptInv, Adds PROVE InterceptInv'
  OBVIOUS
<1>1. /\ jobs # <<>> /\ Head(jobs).kind = "add" /\ Head(jobs).at \in {"wait", "add"}
      /\ Head(jobs).at = "wait" => ~MustRelease
      /\ chromeFetch' = chromeFetch /\ strayHold' = strayHold
  BY DEF Adds, Running
<1>2. /\ FetchTypeOK /\ StateOK /\ Head(jobs) = jobs[1] /\ jobs[1] \in FetchJob
      /\ JobFits(1) /\ DuringTurn(jobs[1])
  BY <1>1, FirstTurn
<1>3. PICK r \in Rule : jobs[1].rule = {r}
  BY <1>1, <1>2 DEF JobFits
<1>4. fetch' = [fetch EXCEPT !.has = TRUE, !.rules = fetch.rules \union {r}, !.filter = TRUE]
  BY <1>2, <1>3 DEF Adds, Mine
<1>5. /\ fetch' \in FetchState /\ fetch'.has /\ fetch'.rules = fetch.rules \union {r} /\ fetch'.filter
      /\ fetch'.owns = fetch.owns /\ fetch'.timer = fetch.timer
  BY <1>2, <1>4 DEF StateOK, FetchState
<1>6. StateOK'
  BY <1>1, <1>2, <1>5 DEF StateOK, ChromeFits
<1>7. PICK at \in {"acquire", "enable"} :
         /\ jobs' = [GoesTo(jobs, at) EXCEPT ![1].lost = FALSE]
         /\ at = "acquire" <=> fetch.rules = {}
  BY DEF Adds
<1>8. PICK q \in Seq(FetchJob) : q = GoesTo(jobs, at) /\ Len(q) = Len(jobs) /\ q # <<>>
         /\ (\A i \in 2..Len(q) : q[i] = jobs[i]) /\ q[1] = [jobs[1] EXCEPT !.at = at] /\ q[1] \in FetchJob
  <2>1. at \in JobPlace /\ jobs \in Seq(FetchJob) /\ jobs # <<>> /\ Len(jobs) \in Nat \ {0}
    BY <1>1, <1>2, FirstOfJobs DEF JobPlace
  <2>2. GoesTo(jobs, at) # <<>>
    BY <2>1, GoesToIs
  <2> QED
    BY <2>1, <2>2, GoesToIs
<1>9. PICK job \in FetchJob : job = [q[1] EXCEPT !.lost = FALSE]
  BY <1>8 DEF FetchJob
<1>10. /\ job.kind = "add" /\ job.rule = {r} /\ job.at = at /\ ~job.lost /\ (job.stale <=> jobs[1].stale)
  BY <1>1, <1>2, <1>3, <1>8, <1>9 DEF FetchJob
<1>11. jobs' = [q EXCEPT ![1] = job]
  BY <1>7, <1>8, <1>9
<1>12. /\ jobs' \in Seq(FetchJob) /\ Len(jobs') = Len(jobs) /\ jobs' # <<>> /\ jobs'[1] = job
       /\ \A i \in 2..Len(jobs) : jobs'[i] = jobs[i]
  <2>1. Len(q) \in Nat \ {0} /\ 1 \in DOMAIN q
    BY <1>8, EmptySeq
  <2> QED
    BY <1>8, <1>11, <2>1
<1>13. Follows(0, FALSE)
  <2>1. ASSUME NEW i \in 1..Len(jobs'), i + 0 > 1 PROVE Alike(jobs[i + 0], jobs'[i], FALSE)
    <3>1. i + 0 = i /\ i \in 2..Len(jobs)
      BY <1>12, <2>1
    <3> QED
      BY <1>12, <3>1 DEF Alike
  <2>2. Len(jobs') + 0 = Len(jobs)
    BY <1>12
  <2> QED
    BY <1>12, <2>1, <2>2 DEF Follows
<1>14. JobFits(1)'
  BY <1>2, <1>3, <1>10, <1>12, <1>1 DEF JobFits
<1>15. 1 \in Additions /\ 1 \notin Additions'
  BY <1>1, <1>2, <1>10, <1>12, <1>13, AdditionsStay
<1>16. NoFetch.rules = {} /\ ~NoFetch.has /\ ~NoFetch.owns /\ NoFetch.timer = "off"
  BY DEF NoFetch
<1>17. CASE at = "acquire"
  <2>1. fetch = NoFetch
    <3>1. CASE jobs[1].at = "wait"
      BY <1>1, <1>2, <1>7, <1>17, <3>1 DEF MustRelease, Running, StateOK
    <3>2. CASE jobs[1].at = "add"
      BY <1>2, <3>2 DEF DuringTurn
    <3> QED
      BY <1>1, <1>2, <3>1, <3>2
  <2>2. DuringTurn(jobs[1])'
    BY <1>5, <1>10, <1>12, <1>16, <1>17, <2>1 DEF DuringTurn
  <2> QED
    BY <1>1, <1>5, <1>6, <1>12, <1>13, <1>14, <1>15, <1>16, <2>1, <2>2, TurnGoesOnKeeps
<1>18. CASE at = "enable"
  <2>1. fetch.rules # {} /\ fetch.has
    BY <1>2, <1>7, <1>16, <1>18 DEF StateOK
  <2>2. jobs[1].at = "wait" /\ ~jobs[1].lost
    BY <1>1, <1>2, <1>16, <2>1 DEF DuringTurn, JobFits
  <2>3. BetweenTurns
    BY <1>2, <2>2 DEF DuringTurn
  <2>4. fetch'.owns /\ fetch'.timer # "off" /\ Covered(fetch.rules)
    BY <1>5, <2>1, <2>3 DEF BetweenTurns
  <2>5. Covered(fetch.rules \ jobs[1].rule)'
    BY <1>1, <1>5, <1>10, <1>12, <2>4 DEF Covered
  <2>6. DuringTurn(jobs[1])'
    BY <1>5, <1>10, <1>12, <1>18, <2>4, <2>5 DEF DuringTurn
  <2>7. NoCleaning
    BY <1>1, <1>2 DEF NoCleaning, Cleanup
  <2> QED
    BY <1>1, <1>5, <1>6, <1>12, <1>13, <1>14, <1>15, <2>6, <2>7, TurnGoesOnKeeps
<1> QED
  BY <1>17, <1>18

LEMMA TakesSessionKeeps == InterceptInv /\ TakesSession => InterceptInv'
<1> SUFFICES ASSUME InterceptInv, TakesSession PROVE InterceptInv'
  OBVIOUS
<1>1. /\ jobs # <<>> /\ Head(jobs).kind = "add" /\ Head(jobs).at = "acquire"
      /\ chromeFetch' = [chromeFetch EXCEPT !.held = TRUE, !.session = chromeFetch.session \/ chromeFetch.told]
  BY DEF TakesSession, Running
<1>2. /\ FetchTypeOK /\ StateOK /\ Head(jobs) = jobs[1] /\ jobs[1] \in FetchJob
      /\ JobFits(1) /\ DuringTurn(jobs[1])
  BY <1>1, FirstTurn
<1>3. /\ chromeFetch' \in ChromeState /\ chromeFetch'.held
      /\ chromeFetch'.session <=> chromeFetch.session \/ chromeFetch.told
      /\ chromeFetch'.patterns = chromeFetch.patterns /\ chromeFetch'.told = chromeFetch.told
  BY <1>1, <1>2 DEF StateOK, ChromeState
<1>4. CASE jobs[1].lost
  <2>1. chromeFetch = NoSession /\ fetch = NoFetch /\ ~strayHold
    BY <1>2, <1>4 DEF DuringTurn
  <2>2. strayHold' = TRUE /\ jobs' = Tail(jobs) /\ fetch' = fetch
    BY <1>2, <1>4 DEF TakesSession, Lost
  <2>3. NoFetch \in FetchState /\ ~NoFetch.has /\ NoFetch.timer = "off"
    BY DEF NoFetch, FetchState
  <2>4. NoSession.told /\ NoSession.patterns = {}
    BY DEF NoSession
  <2>5. StateOK' /\ BetweenTurns'
    BY <1>3, <2>1, <2>2, <2>3, <2>4 DEF StateOK, ChromeFits, BetweenTurns
  <2>6. Follows(1, FALSE)
    BY <1>1, <1>2, <2>2, TurnOver
  <2> QED
    BY <1>1, <2>1, <2>2, <2>3, <2>5, <2>6, OverKeeps
<1>5. CASE ~jobs[1].lost
  <2>1. fetch.has /\ fetch.rules = jobs[1].rule /\ ~fetch.owns /\ fetch.timer = "off"
    BY <1>1, <1>2, <1>5 DEF DuringTurn
  <2>2. strayHold' = strayHold /\ jobs' = GoesTo(jobs, "enable") /\ fetch' = [fetch EXCEPT !.owns = TRUE]
    BY <1>2, <1>5 DEF TakesSession, Lost
  <2>3. /\ fetch' \in FetchState /\ fetch'.has /\ fetch'.owns /\ fetch'.rules = fetch.rules
        /\ fetch'.timer = "off" /\ fetch'.filter = fetch.filter
    BY <1>2, <2>1, <2>2 DEF StateOK, FetchState
  <2>4. StateOK'
    BY <1>2, <1>3, <2>1, <2>2, <2>3 DEF StateOK, ChromeFits
  <2>5. Follows(0, FALSE) /\ jobs'[1] = [jobs[1] EXCEPT !.at = "enable"] /\ jobs' # <<>>
    <3>1. "enable" \in JobPlace
      BY DEF JobPlace
    <3> QED
      BY <1>1, <1>2, <2>2, <3>1, TurnGoesOn
  <2>6. /\ jobs'[1].at = "enable" /\ jobs'[1].kind = jobs[1].kind /\ jobs'[1].rule = jobs[1].rule
        /\ jobs'[1].lost = jobs[1].lost /\ jobs'[1].stale = jobs[1].stale
    BY <1>2, <2>5 DEF FetchJob
  <2>7. JobFits(1)'
    BY <1>1, <1>2, <2>6 DEF JobFits
  <2>8. fetch'.rules \ jobs'[1].rule = {} /\ fetch'.rules \subseteq jobs'[1].rule
    BY <2>1, <2>3, <2>6
  <2>9. Covered(fetch.rules \ jobs[1].rule)'
    BY <2>8 DEF Covered
  <2>10. DuringTurn(jobs[1])'
    BY <1>5, <2>1, <2>3, <2>6, <2>8, <2>9 DEF DuringTurn
  <2>11. 1 \notin Additions'
    BY <1>1, <1>2, <2>5, <2>6, AdditionsStay
  <2> QED
    BY <1>1, <2>3, <2>4, <2>5, <2>7, <2>10, <2>11, TurnGoesOnKeeps
<1> QED
  BY <1>4, <1>5

LEMMA SendsPatternsKeeps == InterceptInv /\ SendsPatterns => InterceptInv'
<1> SUFFICES ASSUME InterceptInv, SendsPatterns PROVE InterceptInv'
  OBVIOUS
<1>1. /\ jobs # <<>> /\ Head(jobs).at \in {"enable", "narrow"} /\ chromeFetch.session
      /\ chromeFetch' = [chromeFetch EXCEPT !.patterns = Head(jobs).rule \union fetch.rules]
      /\ strayHold' = strayHold
  BY DEF SendsPatterns, FetchAt
<1>2. /\ FetchTypeOK /\ StateOK /\ Head(jobs) = jobs[1] /\ jobs[1] \in FetchJob
      /\ JobFits(1) /\ DuringTurn(jobs[1]) /\ ~jobs[1].lost
  BY <1>1, FirstTurn, NotForgotten
<1>3. fetch.has /\ fetch.owns
  BY <1>1, <1>2 DEF DuringTurn
<1>4. /\ chromeFetch' \in ChromeState /\ fetch.rules \subseteq chromeFetch'.patterns
      /\ chromeFetch'.session = chromeFetch.session /\ chromeFetch'.held = chromeFetch.held
      /\ chromeFetch'.told = chromeFetch.told
  BY <1>1, <1>2 DEF StateOK, ChromeState, FetchState, FetchJob
<1>5. chromeFetch.told
  BY <1>1, <1>2 DEF StateOK, ChromeFits
<1>6. CASE jobs[1].kind = "remove"
  <2>1. jobs' = Tail(jobs) /\ fetch' = fetch
    BY <1>2, <1>6 DEF SendsPatterns, Over
  <2>2. jobs[1].at = "narrow"
    BY <1>1, <1>2, <1>6 DEF JobFits
  <2>3. fetch.timer # "off"
    BY <1>2, <2>2 DEF DuringTurn
  <2>4. StateOK' /\ BetweenTurns'
    BY <1>1, <1>2, <1>3, <1>4, <1>5, <2>1, <2>3 DEF StateOK, ChromeFits, BetweenTurns, Covered
  <2>5. Follows(1, FALSE) /\ NoCleaning
    BY <1>1, <1>2, <2>1, <2>2, TurnOver DEF NoCleaning
  <2> QED
    BY <1>1, <2>1, <2>4, <2>5, OverKeeps
<1>7. CASE jobs[1].kind # "remove"
  <2>1. jobs' = Outdated(Tail(jobs)) /\ fetch' = [fetch EXCEPT !.timer = "set"]
    BY <1>2, <1>7 DEF SendsPatterns, Lost, Timed
  <2>2. /\ fetch' \in FetchState /\ fetch'.has /\ fetch'.owns /\ fetch'.rules = fetch.rules
        /\ fetch'.timer = "set" /\ fetch'.filter = fetch.filter
    BY <1>2, <1>3, <2>1 DEF StateOK, FetchState
  <2>3. StateOK' /\ BetweenTurns'
    BY <1>1, <1>2, <1>3, <1>4, <1>5, <2>2 DEF StateOK, ChromeFits, BetweenTurns, Covered
  <2>4. Follows(1, TRUE)
    BY <1>1, <1>2, <2>1, TurnOver
  <2> QED
    BY <1>1, <2>2, <2>3, <2>4, OverKeeps
<1> QED
  BY <1>6, <1>7

LEMMA AddFailsKeeps == InterceptInv /\ AddFails => InterceptInv'
<1> SUFFICES ASSUME InterceptInv, AddFails PROVE InterceptInv'
  OBVIOUS
<1>1. /\ jobs # <<>> /\ Head(jobs).kind = "add" /\ Head(jobs).at \in {"acquire", "enable"}
      /\ chromeFetch' = chromeFetch /\ strayHold' = strayHold
  BY DEF AddFails, Running
<1>2. /\ FetchTypeOK /\ StateOK /\ Head(jobs) = jobs[1] /\ jobs[1] \in FetchJob
      /\ JobFits(1) /\ DuringTurn(jobs[1])
  BY <1>1, FirstTurn
<1>3. PICK left \in SUBSET fetch.rules : left = fetch.rules \ jobs[1].rule
  OBVIOUS
<1>4. \/ jobs[1].lost /\ jobs' = Tail(jobs) /\ fetch' = fetch
      \/ ~jobs[1].lost /\ left # {} /\ fetch' = [fetch EXCEPT !.rules = left] /\ jobs' = Tail(jobs)
      \/ /\ ~jobs[1].lost /\ left = {} /\ fetch.owns
         /\ fetch' = [fetch EXCEPT !.rules = {}, !.timer = "off"] /\ jobs' = GoesTo(jobs, "undo")
      \/ ~jobs[1].lost /\ left = {} /\ ~fetch.owns /\ fetch' = NoFetch /\ jobs' = Outdated(Tail(jobs))
  BY <1>2, <1>3 DEF AddFails, Lost, Mine, Over
<1>5. NoFetch \in FetchState /\ ~NoFetch.has /\ ~NoFetch.owns /\ NoFetch.timer = "off" /\ NoFetch.rules = {}
  BY DEF NoFetch, FetchState
<1>6. CASE jobs[1].lost /\ jobs' = Tail(jobs) /\ fetch' = fetch
  <2>1. fetch = NoFetch
    BY <1>2, <1>6 DEF DuringTurn
  <2>2. StateOK' /\ BetweenTurns'
    BY <1>1, <1>2, <1>5, <1>6, <2>1 DEF StateOK, ChromeFits, BetweenTurns
  <2>3. Follows(1, FALSE)
    BY <1>1, <1>2, <1>6, TurnOver
  <2> QED
    BY <1>1, <1>5, <1>6, <2>1, <2>2, <2>3, OverKeeps
<1>7. CASE ~jobs[1].lost /\ left # {} /\ fetch' = [fetch EXCEPT !.rules = left] /\ jobs' = Tail(jobs)
  <2>1. jobs[1].at = "enable"
    BY <1>1, <1>2, <1>3, <1>7 DEF DuringTurn
  <2>2. fetch.has /\ fetch.owns /\ Covered(left) /\ fetch.timer # "off"
    BY <1>2, <1>3, <1>7, <2>1 DEF DuringTurn
  <2>3. /\ fetch' \in FetchState /\ fetch'.has /\ fetch'.owns /\ fetch'.rules = left
        /\ fetch'.timer = fetch.timer /\ fetch'.filter = fetch.filter
    BY <1>2, <1>7, <2>2 DEF StateOK, FetchState
  <2>4. StateOK' /\ BetweenTurns'
    BY <1>1, <1>2, <2>2, <2>3 DEF StateOK, ChromeFits, BetweenTurns, Covered
  <2>5. Follows(1, FALSE) /\ NoCleaning
    BY <1>1, <1>2, <1>7, <2>1, TurnOver DEF NoCleaning
  <2> QED
    BY <1>1, <2>3, <2>4, <2>5, OverKeeps
<1>8. CASE /\ ~jobs[1].lost /\ left = {} /\ fetch.owns
           /\ fetch' = [fetch EXCEPT !.rules = {}, !.timer = "off"] /\ jobs' = GoesTo(jobs, "undo")
  <2>1. fetch.has
    BY <1>2, <1>5, <1>8 DEF StateOK
  <2>2. /\ fetch' \in FetchState /\ fetch'.has /\ fetch'.owns /\ fetch'.rules = {} /\ fetch'.timer = "off"
        /\ fetch'.filter = fetch.filter
    BY <1>2, <1>8, <2>1 DEF StateOK, FetchState
  <2>3. StateOK'
    BY <1>1, <1>2, <1>8, <2>1, <2>2 DEF StateOK, ChromeFits
  <2>4. Follows(0, FALSE) /\ jobs'[1] = [jobs[1] EXCEPT !.at = "undo"] /\ jobs' # <<>>
    <3>1. "undo" \in JobPlace
      BY DEF JobPlace
    <3> QED
      BY <1>1, <1>2, <1>8, <3>1, TurnGoesOn
  <2>5. /\ jobs'[1].at = "undo" /\ jobs'[1].kind = jobs[1].kind /\ jobs'[1].rule = jobs[1].rule
        /\ jobs'[1].lost = jobs[1].lost /\ jobs'[1].stale = jobs[1].stale
    BY <1>2, <2>4 DEF FetchJob
  <2>6. JobFits(1)' /\ DuringTurn(jobs[1])'
    BY <1>1, <1>2, <1>8, <2>2, <2>5 DEF JobFits, DuringTurn
  <2>7. 1 \notin Additions'
    BY <1>1, <1>2, <2>4, <2>5, AdditionsStay
  <2> QED
    BY <1>1, <2>2, <2>3, <2>4, <2>6, <2>7, TurnGoesOnKeeps
<1>9. CASE ~jobs[1].lost /\ left = {} /\ ~fetch.owns /\ fetch' = NoFetch /\ jobs' = Outdated(Tail(jobs))
  <2>1. StateOK' /\ BetweenTurns'
    BY <1>1, <1>2, <1>5, <1>9 DEF StateOK, ChromeFits, BetweenTurns
  <2>2. Follows(1, TRUE)
    BY <1>1, <1>2, <1>9, TurnOver
  <2> QED
    BY <1>1, <1>5, <1>9, <2>1, <2>2, OverKeeps
<1> QED
  BY <1>4, <1>6, <1>7, <1>8, <1>9

LEMMA RemovesKeeps == InterceptInv /\ Removes => InterceptInv'
<1> SUFFICES ASSUME InterceptInv, Removes PROVE InterceptInv'
  OBVIOUS
<1>1. /\ jobs # <<>> /\ Head(jobs).kind = "remove" /\ Head(jobs).at = "wait" /\ ~MustRelease
      /\ chromeFetch' = chromeFetch /\ strayHold' = strayHold
      /\ fetch' = [fetch EXCEPT !.rules = fetch.rules \ Head(jobs).rule]
  BY DEF Removes, Running, Mine
<1>2. /\ FetchTypeOK /\ StateOK /\ Head(jobs) = jobs[1] /\ jobs[1] \in FetchJob
      /\ JobFits(1) /\ DuringTurn(jobs[1]) /\ ~jobs[1].lost
  BY <1>1, FirstTurn, NotForgotten
<1>3. BetweenTurns
  BY <1>1, <1>2 DEF DuringTurn
<1>4. NoCleaning
  BY <1>1, <1>2 DEF NoCleaning, Cleanup
<1>5. CASE jobs[1].rule \intersect fetch.rules = {}
  <2>1. jobs' = Tail(jobs)
    BY <1>2, <1>5 DEF Removes, Mine
  <2>2. fetch.rules \ jobs[1].rule = fetch.rules
    BY <1>5
  <2>3. fetch' = fetch
    BY <1>1, <1>2, <2>2 DEF StateOK, FetchState
  <2>4. StateOK' /\ BetweenTurns'
    BY <1>1, <1>2, <1>3, <2>3 DEF StateOK, ChromeFits, BetweenTurns, Covered
  <2>5. Follows(1, FALSE)
    BY <1>1, <1>2, <2>1, TurnOver
  <2> QED
    BY <1>1, <1>4, <2>3, <2>4, <2>5, OverKeeps
<1>6. CASE jobs[1].rule \intersect fetch.rules # {}
  <2>1. jobs' = [GoesTo(jobs, "narrow") EXCEPT ![1].rule = {}]
    BY <1>2, <1>6 DEF Removes, Mine
  <2>2. fetch.has
    BY <1>2, <1>6 DEF StateOK, NoFetch
  <2>3. fetch.owns /\ fetch.timer # "off" /\ Covered(fetch.rules)
    BY <1>3, <2>2 DEF BetweenTurns
  <2>4. /\ fetch' \in FetchState /\ fetch'.has /\ fetch'.owns /\ fetch'.rules \subseteq fetch.rules
        /\ fetch'.timer = fetch.timer /\ fetch'.filter = fetch.filter
    BY <1>1, <1>2, <2>2, <2>3 DEF StateOK, FetchState
  <2>5. StateOK' /\ Covered(fetch.rules)'
    BY <1>1, <1>2, <2>2, <2>3, <2>4 DEF StateOK, ChromeFits, Covered
  <2>6. PICK q \in Seq(FetchJob) : q = GoesTo(jobs, "narrow") /\ Len(q) = Len(jobs) /\ q # <<>>
           /\ (\A i \in 2..Len(q) : q[i] = jobs[i]) /\ q[1] = [jobs[1] EXCEPT !.at = "narrow"]
           /\ q[1] \in FetchJob
    <3>1. "narrow" \in JobPlace /\ jobs \in Seq(FetchJob) /\ jobs # <<>> /\ Len(jobs) \in Nat \ {0}
      BY <1>1, <1>2, FirstOfJobs DEF JobPlace
    <3>2. GoesTo(jobs, "narrow") # <<>>
      BY <3>1, GoesToIs
    <3> QED
      BY <3>1, <3>2, GoesToIs
  <2>7. PICK job \in FetchJob : job = [q[1] EXCEPT !.rule = {}]
    BY <2>6 DEF FetchJob
  <2>8. job.kind = "remove" /\ job.at = "narrow" /\ ~job.lost /\ (job.stale <=> jobs[1].stale)
    BY <1>1, <1>2, <2>6, <2>7 DEF FetchJob
  <2>9. /\ jobs' \in Seq(FetchJob) /\ Len(jobs') = Len(jobs) /\ jobs' # <<>> /\ jobs'[1] = job
        /\ \A i \in 2..Len(jobs) : jobs'[i] = jobs[i]
    <3>1. Len(q) \in Nat \ {0} /\ 1 \in DOMAIN q
      BY <2>6, EmptySeq
    <3>2. jobs' = [q EXCEPT ![1] = job]
      BY <2>1, <2>6, <2>7
    <3> QED
      BY <2>6, <3>1, <3>2
  <2>10. Follows(0, FALSE)
    <3>1. ASSUME NEW i \in 1..Len(jobs'), i + 0 > 1 PROVE Alike(jobs[i + 0], jobs'[i], FALSE)
      <4>1. i + 0 = i /\ i \in 2..Len(jobs)
        BY <2>9, <3>1
      <4> QED
        BY <2>9, <4>1 DEF Alike
    <3>2. Len(jobs') + 0 = Len(jobs)
      BY <2>9
    <3> QED
      BY <2>9, <3>1, <3>2 DEF Follows
  <2>11. JobFits(1)'
    BY <1>1, <1>2, <2>8, <2>9 DEF JobFits
  <2>12. DuringTurn(jobs[1])'
    BY <2>3, <2>4, <2>5, <2>8, <2>9 DEF DuringTurn
  <2>13. 1 \notin Additions'
    BY <1>1, <1>2, <2>8, <2>9, <2>10, AdditionsStay
  <2> QED
    BY <1>1, <1>4, <2>4, <2>5, <2>9, <2>10, <2>11, <2>12, <2>13, TurnGoesOnKeeps
<1> QED
  BY <1>5, <1>6

\* A turn that ends and changes nothing.
LEMMA NothingDone ==
  ASSUME InterceptInv, jobs # <<>>, Over, UNCHANGED <<fetch, chromeFetch, strayHold>>,
         jobs[1].at \in {"wait", "narrow"}, NoCleaning \/ fetch.timer # "spent"
  PROVE  InterceptInv'
<1>1. /\ FetchTypeOK /\ StateOK /\ Head(jobs) = jobs[1] /\ jobs[1] \in FetchJob
      /\ JobFits(1) /\ DuringTurn(jobs[1])
  BY FirstTurn
<1>2. ~NoFetch.has
  BY DEF NoFetch
<1>3. BetweenTurns
  BY <1>1, <1>2 DEF DuringTurn, BetweenTurns
<1>4. StateOK' /\ BetweenTurns'
  BY <1>1, <1>3 DEF StateOK, ChromeFits, BetweenTurns, Covered
<1>5. Follows(1, FALSE)
  BY <1>1, TurnOver DEF Over
<1> QED
  BY <1>4, <1>5, OverKeeps

LEMMA NarrowFailsKeeps == InterceptInv /\ NarrowFails => InterceptInv'
<1> SUFFICES ASSUME InterceptInv, NarrowFails PROVE InterceptInv'
  OBVIOUS
<1>1. /\ jobs # <<>> /\ Head(jobs).at = "narrow" /\ Over
      /\ UNCHANGED <<fetch, chromeFetch, strayHold>>
  BY DEF NarrowFails, Running
<1>2. jobs[1].at = "narrow" /\ NoCleaning
  BY <1>1, FirstTurn DEF NoCleaning
<1> QED
  BY <1>1, <1>2, NothingDone

LEMMA CleanupIdleKeeps == InterceptInv /\ CleanupIdle => InterceptInv'
<1> SUFFICES ASSUME InterceptInv, CleanupIdle PROVE InterceptInv'
  OBVIOUS
<1>1. /\ jobs # <<>> /\ Head(jobs).at = "wait" /\ Over /\ ~MustRelease
      /\ UNCHANGED <<fetch, chromeFetch, strayHold>>
      /\ Head(jobs).kind \in {"clear", "expire"}
  BY DEF CleanupIdle, Running
<1>2. Head(jobs) = jobs[1] /\ StateOK
  BY <1>1, FirstTurn
<1>3. fetch.has => jobs[1].kind = "expire" /\ jobs[1].stale
  BY <1>1, <1>2 DEF MustRelease, Running
<1>4. NoCleaning \/ fetch.timer # "spent"
  <2>1. NoFetch.timer = "off"
    BY DEF NoFetch
  <2> QED
    BY <1>2, <1>3, <2>1 DEF StateOK, NoCleaning
<1> QED
  BY <1>1, <1>2, <1>4, NothingDone

-----------------------------------------------------------------------------
\* Chrome takes the session away.
LEMMA SessionLostKeeps == InterceptInv /\ SessionLost => InterceptInv'
<1> SUFFICES ASSUME InterceptInv, SessionLost PROVE InterceptInv'
  OBVIOUS
<1>1. /\ chromeFetch.session /\ fetch' = fetch /\ jobs' = jobs /\ strayHold' = strayHold
      /\ chromeFetch' = [NoSession EXCEPT !.told = FALSE, !.held = chromeFetch.held]
  BY DEF SessionLost
<1>2. FetchTypeOK /\ JobsFit /\ StateFits /\ ChromeFits /\ TurnFits /\ RulesLimited
  BY DEF InterceptInv
<1>3. /\ chromeFetch' \in ChromeState /\ ~chromeFetch'.session /\ ~chromeFetch'.told
      /\ chromeFetch'.patterns = {}
  BY <1>1, <1>2 DEF FetchTypeOK, NoSession, ChromeState
<1>4. FetchTypeOK' /\ JobsFit' /\ StateFits' /\ RulesLimited'
  BY <1>1, <1>2, <1>3
     DEF FetchTypeOK, JobsFit, JobFits, StateFits, WillClean, RulesLimited, Additions
<1>5. ChromeFits'
  BY <1>3 DEF ChromeFits
<1>6. TurnFits'
  <2>1. CASE jobs = <<>>
    BY <1>1, <1>2, <1>3, <2>1 DEF TurnFits, BetweenTurns, Covered
  <2>2. CASE jobs # <<>>
    <3>1. ~jobs[1].lost /\ jobs[1] \in FetchJob /\ DuringTurn(jobs[1])
      BY <1>1, <2>2, FirstTurn, NotForgotten
    <3>2. DuringTurn(jobs[1])'
      BY <1>1, <1>3, <3>1 DEF DuringTurn, BetweenTurns, Covered
    <3> QED
      BY <1>1, <2>2, <3>2 DEF TurnFits
  <2> QED
    BY <2>1, <2>2
<1> QED
  BY <1>4, <1>5, <1>6 DEF InterceptInv

LEMMA HandleDetachKeeps == InterceptInv /\ HandleDetach => InterceptInv'
<1> SUFFICES ASSUME InterceptInv, HandleDetach PROVE InterceptInv'
  OBVIOUS
<1>1. chromeFetch' = NoSession /\ strayHold' = FALSE /\ fetch' = NoFetch
  BY DEF HandleDetach
<1>2. FetchTypeOK /\ RulesLimited
  BY DEF InterceptInv
<1>3. /\ NoFetch \in FetchState /\ ~NoFetch.has /\ NoFetch.rules = {} /\ ~NoFetch.owns
      /\ NoFetch.timer = "off"
  BY DEF NoFetch, FetchState
<1>4. NoSession \in ChromeState /\ ~NoSession.held /\ NoSession.patterns = {} /\ NoSession.told
  BY DEF NoSession, ChromeState
<1>5. StateOK' /\ BetweenTurns'
  BY <1>1, <1>3, <1>4 DEF StateOK, ChromeFits, BetweenTurns
<1>6. CASE jobs = <<>>
  <2>1. jobs' = Outdated(jobs)
    BY <1>6 DEF HandleDetach
  <2>2. jobs \in Seq(FetchJob) /\ Len(jobs) = 0
    BY <1>2, <1>6 DEF FetchTypeOK
  <2>3. jobs' \in Seq(FetchJob) /\ Len(jobs') = 0
    BY <2>1, <2>2, OutdatedIs
  <2>4. jobs' = <<>> /\ DOMAIN jobs' = {}
    BY <2>3, EmptySeq
  <2>5. Additions' = {} /\ JobsFit'
    BY <2>4 DEF Additions, JobsFit
  <2>6. FetchTypeOK'
    BY <1>1, <1>3, <1>4, <2>3, FS_EmptySet DEF FetchTypeOK
  <2>7. RulesLimited'
    BY <1>1, <1>3, <2>5, FS_EmptySet, FetchAssumption DEF RulesLimited
  <2>8. StateFits' /\ ChromeFits' /\ TurnFits'
    BY <1>1, <1>3, <1>5, <2>4 DEF StateFits, StateOK, TurnFits
  <2> QED
    BY <2>5, <2>6, <2>7, <2>8 DEF InterceptInv
<1>7. CASE jobs # <<>>
  <2>1. /\ Head(jobs) = jobs[1] /\ jobs[1] \in FetchJob /\ JobFits(1) /\ jobs \in Seq(FetchJob)
        /\ Len(jobs) \in Nat \ {0} /\ 1 \in DOMAIN jobs
    BY <1>2, <1>7, FirstTurn, FirstOfJobs
  <2>2. PICK job \in FetchJob :
           /\ job = IF jobs[1].at = "wait" THEN jobs[1] ELSE [jobs[1] EXCEPT !.lost = TRUE]
           /\ job.kind = jobs[1].kind /\ job.rule = jobs[1].rule /\ job.at = jobs[1].at
           /\ job.stale = jobs[1].stale /\ (jobs[1].at # "wait" => job.lost)
           /\ (jobs[1].at = "wait" => job.lost = jobs[1].lost)
    <3>1. CASE jobs[1].at = "wait"
      BY <2>1, <3>1
    <3>2. CASE jobs[1].at # "wait"
      <4>1. PICK k \in FetchJob : k = [jobs[1] EXCEPT !.lost = TRUE]
        BY <2>1 DEF FetchJob
      <4>2. k.kind = jobs[1].kind /\ k.rule = jobs[1].rule /\ k.at = jobs[1].at
            /\ k.stale = jobs[1].stale /\ k.lost
        BY <2>1, <4>1 DEF FetchJob
      <4> QED
        BY <3>2, <4>1, <4>2
    <3> QED
      BY <3>1, <3>2
  <2>3. PICK q \in Seq(FetchJob) : q = [jobs EXCEPT ![1] = job]
    <3>1. [jobs EXCEPT ![1] = job] \in Seq(FetchJob)
      BY <2>1, <2>2, ExceptSeq
    <3> QED
      BY <3>1
  <2>4. jobs' = Outdated(q)
    <3>1. CASE jobs[1].at = "wait"
      <4>1. q = jobs
        BY <2>1, <2>2, <2>3, <3>1
      <4> QED
        BY <1>7, <2>1, <3>1, <4>1 DEF HandleDetach
    <3>2. CASE jobs[1].at # "wait"
      <4>1. q = [jobs EXCEPT ![1].lost = TRUE]
        BY <2>2, <2>3, <3>2
      <4> QED
        BY <1>7, <2>1, <3>2, <4>1 DEF HandleDetach
    <3> QED
      BY <3>1, <3>2
  <2>5. Len(q) = Len(jobs) /\ q[1] = job /\ \A i \in 2..Len(jobs) : q[i] = jobs[i]
    BY <2>1, <2>3
  <2>6. /\ jobs' \in Seq(FetchJob) /\ Len(jobs') = Len(jobs)
        /\ \A i \in 1..Len(jobs) : Alike(q[i], jobs'[i], TRUE)
    BY <2>4, <2>5, OutdatedIs
  <2>7. jobs' # <<>> /\ Alike(job, jobs'[1], TRUE)
    <3>1. 1 \in 1..Len(jobs) /\ Len(jobs') # 0
      BY <2>1, <2>6
    <3> QED
      BY <2>5, <2>6, <3>1, EmptySeq
  <2>8. Follows(0, TRUE)
    <3>1. ASSUME NEW i \in 1..Len(jobs'), i + 0 > 1 PROVE Alike(jobs[i + 0], jobs'[i], TRUE)
      <4>1. i + 0 = i /\ i \in 2..Len(jobs) /\ i \in 1..Len(jobs)
        BY <2>1, <2>6, <3>1
      <4> QED
        BY <2>5, <2>6, <4>1
    <3>2. Len(jobs') + 0 = Len(jobs)
      BY <2>1, <2>6
    <3> QED
      BY <2>6, <3>1, <3>2 DEF Follows
  <2>9. JobFits(1)'
    BY <2>1, <2>2, <2>7 DEF JobFits, Alike
  <2>10. DuringTurn(jobs[1])'
    <3>1. jobs'[1].at = jobs[1].at /\ (jobs'[1].at # "wait" => jobs'[1].lost)
      BY <2>2, <2>7 DEF Alike
    <3> QED
      BY <1>1, <1>5, <2>1, <3>1 DEF DuringTurn
  <2>11. 1 \in Additions' => 1 \in Additions
    BY <1>2, <1>7, <2>2, <2>7, <2>8, AdditionsStay DEF Alike
  <2> QED
    BY <1>1, <1>3, <1>5, <1>7, <2>7, <2>8, <2>9, <2>10, <2>11, TurnGoesOnKeeps
<1> QED
  BY <1>6, <1>7

-----------------------------------------------------------------------------
\* A job is admitted.
LEMMA JobAdmitted ==
  ASSUME InterceptInv, NEW kind \in JobKind, NEW rule \in SUBSET Rule, Admitted(kind),
         jobs' = Append(jobs, Job(kind, rule)), chromeFetch' = chromeFetch, strayHold' = strayHold,
         kind = "add" => \E r \in Rule : rule = {r},
         \/ fetch' = fetch
         \/ fetch' = [fetch EXCEPT !.timer = "spent"] /\ fetch.timer = "set" /\ Cleanup(kind)
  PROVE  InterceptInv'
<1>1. FetchTypeOK /\ JobsFit /\ StateFits /\ ChromeFits /\ TurnFits /\ RulesLimited
  BY DEF InterceptInv
<1>2. PICK job \in FetchJob : job = Job(kind, rule)
  BY DEF Job, FetchJob, JobPlace
<1>3. job.kind = kind /\ job.rule = rule /\ job.at = "wait" /\ ~job.lost /\ ~job.stale
  BY <1>2 DEF Job
<1>4. jobs \in Seq(FetchJob) /\ Len(jobs) \in Nat /\ DOMAIN jobs = 1..Len(jobs)
  BY <1>1 DEF FetchTypeOK
<1>5. /\ jobs' \in Seq(FetchJob) /\ Len(jobs') = Len(jobs) + 1 /\ DOMAIN jobs' = 1..(Len(jobs) + 1)
      /\ \A i \in 1..Len(jobs) : jobs'[i] = jobs[i]
      /\ jobs'[Len(jobs) + 1] = job
  BY <1>2, <1>4, AppendProperties
<1>6. /\ fetch' \in FetchState /\ fetch'.has = fetch.has /\ fetch'.rules = fetch.rules
      /\ fetch'.owns = fetch.owns /\ fetch'.filter = fetch.filter
      /\ fetch'.timer = "off" <=> fetch.timer = "off"
      /\ fetch' # fetch => fetch.timer = "set" /\ Cleanup(kind)
  BY <1>1 DEF FetchTypeOK, FetchState
<1>7. FetchTypeOK'
  BY <1>1, <1>5, <1>6 DEF FetchTypeOK
<1>8. JobsFit'
  <2> SUFFICES ASSUME NEW i \in DOMAIN jobs' PROVE JobFits(i)'
    BY DEF JobsFit
  <2>1. CASE i \in 1..Len(jobs)
    BY <1>1, <1>4, <1>5, <2>1 DEF JobsFit, JobFits
  <2>2. CASE i = Len(jobs) + 1
    BY <1>3, <1>5, <2>2 DEF JobFits
  <2> QED
    BY <1>4, <1>5, <2>1, <2>2
<1>9. StateFits'
  <2>1. NoFetch.timer = "off"
    BY DEF NoFetch
  <2>2. (fetch.timer = "set" => fetch.has) /\ (~fetch'.has => fetch' = NoFetch)
    BY <1>1, <1>6, <2>1 DEF StateFits
  <2>3. WillClean => WillClean'
    BY <1>4, <1>5 DEF WillClean
  <2>4. Cleanup(kind) => WillClean'
    <3>1. Len(jobs) + 1 \in DOMAIN jobs'
      BY <1>4, <1>5
    <3> QED
      BY <1>3, <1>5, <3>1 DEF WillClean
  <2> QED
    BY <1>1, <1>6, <2>2, <2>3, <2>4 DEF StateFits
<1>10. ChromeFits'
  BY <1>1, <1>6 DEF ChromeFits
<1>11. TurnFits'
  <2>1. jobs' # <<>>
    BY <1>4, <1>5
  <2>2. CASE jobs = <<>>
    <3>1. jobs'[1] = job
      BY <1>5, <2>2
    <3>2. BetweenTurns'
      BY <1>1, <1>6, <2>2 DEF TurnFits, BetweenTurns, Covered
    <3>3. DuringTurn(jobs[1])'
      BY <1>3, <3>1, <3>2 DEF DuringTurn
    <3> QED
      BY <2>1, <3>3 DEF TurnFits
  <2>3. CASE jobs # <<>>
    <3>1. jobs'[1] = jobs[1] /\ jobs[1] \in FetchJob /\ DuringTurn(jobs[1])
      BY <1>5, <2>3, FirstTurn, FirstOfJobs, <1>1
    <3>2. NoFetch.timer = "off"
      BY DEF NoFetch
    <3>3. fetch = NoFetch => fetch' = fetch
      BY <1>6, <3>2
    <3>4. DuringTurn(jobs[1])'
      BY <1>6, <3>1, <3>3 DEF DuringTurn, BetweenTurns, Covered
    <3> QED
      BY <2>1, <3>4 DEF TurnFits
  <2> QED
    BY <2>2, <2>3
<1>12. RulesLimited'
  <2>1. IsFiniteSet(Additions) /\ Additions \subseteq 1..Len(jobs)
    BY <1>1, AdditionsFinite
  <2>2. Additions' = IF kind = "add" THEN Additions \union {Len(jobs) + 1} ELSE Additions
    BY <1>3, <1>4, <1>5 DEF Additions
  <2>3. Cardinality(Additions) \in Nat /\ Cardinality(fetch.rules) \in Nat
    BY <1>1, <2>1, FS_CardinalityType DEF FetchTypeOK
  <2>4. CASE kind = "add"
    <3>1. Cardinality(fetch.rules) + Cardinality(Additions) < MaxRules
      BY <2>4 DEF Admitted
    <3>2. \/ Cardinality(Additions') = Cardinality(Additions)
          \/ Cardinality(Additions') = Cardinality(Additions) + 1
      BY <2>1, <2>2, <2>4, FS_AddElement
    <3> QED
      BY <1>6, <2>3, <3>1, <3>2, FetchAssumption DEF RulesLimited
  <2>5. CASE kind # "add"
    BY <1>1, <1>6, <2>2, <2>5 DEF RulesLimited
  <2> QED
    BY <2>4, <2>5
<1> QED
  BY <1>7, <1>8, <1>9, <1>10, <1>11, <1>12 DEF InterceptInv

LEMMA FetchTimerFiresKeeps == InterceptInv /\ FetchTimerFires => InterceptInv'
<1> SUFFICES ASSUME InterceptInv, FetchTimerFires PROVE InterceptInv'
  OBVIOUS
<1>1. /\ fetch.timer = "set" /\ (\A i \in DOMAIN jobs : ~jobs[i].stale)
      /\ fetch' = [fetch EXCEPT !.timer = "spent"]
      /\ chromeFetch' = chromeFetch /\ strayHold' = strayHold
      /\ jobs' = IF Admitted("expire") THEN Append(jobs, Job("expire", {})) ELSE jobs
  BY DEF FetchTimerFires
<1>2. CASE Admitted("expire")
  <2>1. "expire" \in JobKind /\ Cleanup("expire") /\ {} \in SUBSET Rule
    BY DEF JobKind, Cleanup
  <2> QED
    BY <1>1, <1>2, <2>1, JobAdmitted
<1>3. CASE ~Admitted("expire")
  <2>1. FetchTypeOK /\ JobsFit /\ StateFits /\ ChromeFits /\ TurnFits /\ RulesLimited
    BY DEF InterceptInv
  <2>2. jobs' = jobs
    BY <1>1, <1>3
  <2>3. PICK i \in DOMAIN jobs : Cleanup(jobs[i].kind)
    BY <1>3 DEF Admitted, CleanupPending, Cleanup
  <2>4. jobs # <<>> /\ jobs[i] \in FetchJob /\ i \in 1..Len(jobs)
    BY <2>1, <2>3 DEF FetchTypeOK
  <2>5. NoFetch.timer = "off"
    BY DEF NoFetch
  <2>6. jobs[1] \in FetchJob /\ JobFits(1) /\ DuringTurn(jobs[1])
    BY <2>4, FirstTurn
  <2>7. jobs[i].at = "wait"
    <3>1. CASE i = 1
      <4>1. jobs[1].at \notin {"add", "acquire", "enable", "undo", "undone", "narrow"}
        BY <2>3, <2>6, <3>1 DEF JobFits, Cleanup
      <4>2. jobs[1].at \notin {"disable", "release"}
        BY <1>1, <2>5, <2>6 DEF DuringTurn
      <4> QED
        BY <2>6, <3>1, <4>1, <4>2 DEF FetchJob, JobPlace
    <3>2. CASE i # 1
      BY <2>1, <2>3, <2>4, <3>2 DEF JobsFit, JobFits
    <3> QED
      BY <3>1, <3>2
  <2>8. WillClean
    BY <1>1, <2>3, <2>7 DEF WillClean
  <2>9. /\ fetch' \in FetchState /\ fetch'.has = fetch.has /\ fetch'.rules = fetch.rules
        /\ fetch'.owns = fetch.owns /\ fetch'.filter = fetch.filter /\ fetch'.timer = "spent"
        /\ fetch.has
    BY <1>1, <2>1, <2>5 DEF FetchTypeOK, FetchState, StateFits
  <2>10. FetchTypeOK' /\ JobsFit' /\ ChromeFits' /\ RulesLimited'
    <3>1. FetchTypeOK'
      BY <1>1, <2>1, <2>2, <2>9 DEF FetchTypeOK
    <3>2. JobsFit'
      BY <2>1, <2>2 DEF JobsFit, JobFits
    <3>3. ChromeFits' /\ RulesLimited'
      BY <1>1, <2>1, <2>2, <2>9 DEF ChromeFits, RulesLimited, Additions
    <3> QED
      BY <3>1, <3>2, <3>3
  <2>11. StateFits'
    BY <2>1, <2>2, <2>8, <2>9 DEF StateFits, WillClean
  <2>12. DuringTurn(jobs[1])'
    BY <1>1, <2>2, <2>5, <2>6, <2>9 DEF DuringTurn, BetweenTurns, Covered
  <2>13. TurnFits'
    BY <2>2, <2>4, <2>12 DEF TurnFits
  <2> QED
    BY <2>10, <2>11, <2>13 DEF InterceptInv
<1> QED
  BY <1>2, <1>3

LEMMA CallsKeep ==
  InterceptInv /\ ((\E r \in Rule : CallAdd(r) \/ CallRemove(r)) \/ CallClear) => InterceptInv'
<1> SUFFICES ASSUME InterceptInv, (\E r \in Rule : CallAdd(r) \/ CallRemove(r)) \/ CallClear
             PROVE  InterceptInv'
  OBVIOUS
<1>1. PICK kind \in JobKind, rule \in SUBSET Rule :
         CallFetch(kind, rule) /\ (kind = "add" => \E r \in Rule : rule = {r})
  <2>1. ASSUME NEW r \in Rule, CallAdd(r)
        PROVE  "add" \in JobKind /\ {r} \in SUBSET Rule /\ CallFetch("add", {r})
    BY <2>1 DEF CallAdd, JobKind
  <2>2. ASSUME NEW r \in Rule, CallRemove(r)
        PROVE  "remove" \in JobKind /\ {r} \in SUBSET Rule /\ CallFetch("remove", {r})
    BY <2>2 DEF CallRemove, JobKind
  <2>3. ASSUME CallClear PROVE "clear" \in JobKind /\ {} \in SUBSET Rule /\ CallFetch("clear", {})
    BY <2>3 DEF CallClear, JobKind
  <2> QED
    BY <2>1, <2>2, <2>3
<1>2. /\ Admitted(kind) /\ jobs' = Append(jobs, Job(kind, rule)) /\ fetch' = fetch
      /\ chromeFetch' = chromeFetch /\ strayHold' = strayHold
  BY <1>1 DEF CallFetch
<1> QED
  BY <1>1, <1>2, JobAdmitted

\* Every step keeps it.
LEMMA InterceptStep == InterceptInv /\ [FetchNext]_fetchVars => InterceptInv'
<1> SUFFICES ASSUME InterceptInv, [FetchNext]_fetchVars PROVE InterceptInv'
  OBVIOUS
<1>1. CASE FetchNext
  BY <1>1, CallsKeep, FetchTimerFiresKeeps, GivesUpKeeps, StopsPausingKeeps, DisableFailsKeeps,
     ReleasesKeeps, AddsKeeps, TakesSessionKeeps, SendsPatternsKeeps, AddFailsKeeps, RemovesKeeps,
     NarrowFailsKeeps, CleanupIdleKeeps, SessionLostKeeps, HandleDetachKeeps DEF FetchNext
<1>2. CASE UNCHANGED fetchVars
  BY <1>2 DEF fetchVars, InterceptInv, FetchTypeOK, JobsFit, JobFits, StateFits, WillClean,
     ChromeFits, TurnFits, DuringTurn, BetweenTurns, Covered, RulesLimited, Additions
<1> QED
  BY <1>1, <1>2

\* While Chrome pauses a tab's requests its state listens to them, the rules and the
\* additions under way stay within the limit, and between turns every rule is in Chrome
\* with a hold and a timer that ends it, while a tab without rules has neither a pattern
\* nor a hold left: for any rules, limits and failures.
THEOREM RequestsGoOn == FetchSpec => []InterceptionEnds
<1>1. FetchSpec => []InterceptInv
  BY InterceptBegins, InterceptStep, PTL DEF FetchSpec
<1> QED
  BY <1>1, InterceptInvSays, PTL

-----------------------------------------------------------------------------
(* Waits for a URL.                                                         *)

HookOp == {"install", "refresh", "uninstall"}
LeaseState ==
    [on : {"none", "lease", "cleanup"}, channel : Nat, refs : Nat, ops : Seq(HookOp),
     half : BOOLEAN, ready : BOOLEAN, failed : BOOLEAN]
WaitsState ==
    [is : [Waiter -> {"none", "waiting", "rejected", "matched"}], holds : SUBSET Waiter,
     timed : SUBSET Waiter, lease : LeaseState, channels : Nat]
WebTabState ==
    [match : BOOLEAN, loading : BOOLEAN, home : BOOLEAN, open : BOOLEAN,
     main : SUBSET Nat, isolated : SUBSET Nat]
ReadState ==
    [w : Waiter, at : {"asks", "has", "acquires", "installs"},
     use : {"check", "again", "timeout"}, tab : SUBSET WebTabState]

\* Only waits that wait hold the lease, which counts them and is to be uninstalled
\* only once they have let go of it.
WaitsRight(n) ==
    /\ n \in WaitsState
    /\ n.holds \subseteq Waiting(n) /\ IsFiniteSet(n.holds)
    /\ n.lease.on = "lease" => /\ n.lease.refs = Cardinality(n.holds)
                               /\ \A i \in DOMAIN n.lease.ops : n.lease.ops[i] # "uninstall"
    /\ n.holds # {} => n.lease.on = "lease"

\* The page has the hooks of the lease at most, and none once an install has failed.
HooksRight(lease, web) ==
    web.main \union web.isolated \subseteq
        (IF lease.on = "none" \/ lease.failed THEN {} ELSE {lease.channel})

ReadsRight(calls) ==
    calls \subseteq ReadState /\ \A r \in calls : r.at = "has" => \E web \in WebTabState : r.tab = {web}

\* A wait that is satisfied will see so: from an event, or from a read that is to come
\* or has seen the tab as it should be.
Noticed(w, calls, events) ==
    \/ \E event \in events : event.kind # "signal"
    \/ \E r \in calls : r.w = w /\ (r.at = "asks" \/ (r.at = "has" /\ \E web \in r.tab : Satisfied(w, web)))

WaitsInv ==
    /\ WaitsRight(waits) /\ webTab \in WebTabState
    /\ ReadsRight(reads) /\ \A r \in reads : r.w \in Waiting(waits)
    /\ leaked \/ HooksRight(waits.lease, webTab)
    /\ webTab.open => \A w \in Waiting(waits) : Satisfied(w, webTab) => Noticed(w, reads, tabEvents)
    /\ ~windowOpen => Waiting(waits) = {}

\* It holds at the start.
LEMMA WaitsBegin == NavigationInit => WaitsInv
<1> SUFFICES ASSUME NavigationInit PROVE WaitsInv
  OBVIOUS
<1>1. Waiting(waits) = {} /\ waits.holds = {} /\ waits \in WaitsState
  BY DEF NavigationInit, NoLease, Waiting, WaitsState, LeaseState, HookOp
<1>2. WaitsRight(waits)
  BY <1>1, FS_EmptySet DEF WaitsRight, NavigationInit, NoLease
<1>3. webTab \in WebTabState /\ webTab.main = {} /\ webTab.isolated = {}
  BY DEF NavigationInit, WebTabState
<1>4. HooksRight(waits.lease, webTab)
  BY <1>3 DEF HooksRight
<1> QED
  BY <1>1, <1>2, <1>3, <1>4 DEF WaitsInv, NavigationInit, ReadsRight

\* Whatever waits end, the lease that is left is right, and has no hooks to hide.
LEMMA SettleKeeps ==
  ASSUME NEW n, WaitsRight(n), NEW ws, NEW how \in {"rejected", "matched"}
  PROVE  /\ WaitsRight(Settle(n, ws, how))
         /\ Waiting(Settle(n, ws, how)) = Waiting(n) \ ws
         /\ \A web : HooksRight(n.lease, web) => HooksRight(Settle(n, ws, how).lease, web)
<1> DEFINE ends == ws \intersect Waiting(n)
           held == ends \intersect n.holds
           m == [n EXCEPT !.is = [w \in Waiter |-> IF w \in ends THEN how ELSE n.is[w]]]
           rest == [m EXCEPT !.holds = @ \ ends]
           end == Settle(n, ws, how)
<1>1. n \in WaitsState /\ n.lease \in LeaseState /\ n.holds \subseteq Waiting(n) /\ IsFiniteSet(n.holds)
  BY DEF WaitsRight, WaitsState
<1>2. m \in WaitsState /\ m.holds = n.holds /\ m.lease = n.lease /\ Waiting(m) = Waiting(n) \ ws
  BY <1>1 DEF WaitsState, Waiting
<1>3. /\ rest \in WaitsState /\ rest.holds = n.holds \ ends /\ rest.lease = n.lease
      /\ rest.is = m.is /\ Waiting(rest) = Waiting(n) \ ws
  BY <1>1, <1>2 DEF WaitsState, Waiting
<1>4. rest.holds \subseteq Waiting(rest) /\ IsFiniteSet(rest.holds)
  BY <1>1, <1>3, FS_Subset
<1>5. end = Release(m, ends)
  BY DEF Settle
<1> HIDE DEF m, end
<1>6. CASE held = {} \/ n.lease.on # "lease"
  <2>1. end = rest
    BY <1>2, <1>5, <1>6 DEF Release
  <2>2. n.lease.on = "lease" => rest.holds = n.holds
    BY <1>3, <1>6
  <2>3. WaitsRight(rest)
    BY <1>3, <1>4, <2>2 DEF WaitsRight
  <2> QED
    BY <1>3, <2>1, <2>3 DEF end
<1>7. CASE held # {} /\ n.lease.on = "lease" /\ n.lease.refs # Cardinality(held)
  <2>1. end = [rest EXCEPT !.lease.refs = @ - Cardinality(held)]
    BY <1>2, <1>5, <1>7 DEF Release, LastHold
  <2>2. /\ Cardinality(n.holds) \in Nat /\ Cardinality(held) \in Nat /\ Cardinality(held) <= Cardinality(n.holds)
        /\ Cardinality(rest.holds) = Cardinality(n.holds) - Cardinality(held)
    <3>1. rest.holds = n.holds \ held /\ held \subseteq n.holds
      BY <1>3
    <3>2. IsFiniteSet(held) /\ n.holds \intersect held = held
      BY <1>1, FS_Subset, <3>1
    <3> HIDE DEF held
    <3>3. Cardinality(n.holds \ held) = Cardinality(n.holds) - Cardinality(n.holds \intersect held)
      BY <1>1, FS_Difference
    <3> QED
      BY <1>1, <3>1, <3>2, <3>3, FS_CardinalityType, FS_Subset
  <2>3. n.lease.refs = Cardinality(n.holds)
    BY <1>7 DEF WaitsRight
  <2> HIDE DEF held, rest
  <2>4. /\ end \in WaitsState /\ end.holds = rest.holds /\ end.is = rest.is
        /\ end.lease.refs = Cardinality(rest.holds) /\ end.lease.on = "lease"
        /\ end.lease.ops = n.lease.ops /\ end.lease.failed = n.lease.failed /\ end.lease.channel = n.lease.channel
    BY <1>1, <1>3, <1>7, <2>1, <2>2, <2>3 DEF WaitsState, LeaseState
  <2>5. WaitsRight(end)
    BY <1>4, <1>7, <2>4 DEF WaitsRight, Waiting
  <2>6. Waiting(end) = Waiting(n) \ ws
    BY <1>3, <2>4 DEF Waiting
  <2>7. \A web : HooksRight(n.lease, web) => HooksRight(end.lease, web)
    BY <1>7, <2>4 DEF HooksRight
  <2> QED
    BY <2>5, <2>6, <2>7 DEF end
<1>8. CASE held # {} /\ n.lease.on = "lease" /\ n.lease.refs = Cardinality(held)
  <2>1. rest.holds = {}
    <3>1. held \subseteq n.holds /\ Cardinality(held) = Cardinality(n.holds)
      BY <1>8 DEF WaitsRight
    <3>2. held = n.holds
      BY <1>1, <3>1, FS_Subset
    <3> QED
      BY <1>3, <3>2
  <2>2. CASE n.lease.failed
    <3>1. end = [rest EXCEPT !.lease = NoLease]
      BY <1>2, <1>5, <1>8, <2>2 DEF Release, LastHold
    <3> HIDE DEF held, rest
    <3>2. NoLease \in LeaseState /\ NoLease.on = "none"
      BY DEF NoLease, LeaseState, HookOp
    <3>3. end \in WaitsState /\ end.holds = {} /\ end.is = rest.is /\ end.lease = NoLease
      BY <1>3, <2>1, <3>1, <3>2 DEF WaitsState
    <3>4. WaitsRight(end) /\ Waiting(end) = Waiting(n) \ ws
      BY <1>3, <1>4, <2>1, <3>2, <3>3 DEF WaitsRight, Waiting
    <3>5. \A web : HooksRight(n.lease, web) => HooksRight(end.lease, web)
      BY <2>2, <3>3, <3>2 DEF HooksRight
    <3> QED
      BY <3>4, <3>5 DEF end
  <2>3. CASE ~n.lease.failed
    <3>1. end = [rest EXCEPT !.lease.on = "cleanup", !.lease.refs = 0, !.lease.ops = Append(@, "uninstall")]
      BY <1>2, <1>5, <1>8, <2>3 DEF Release, LastHold
    <3> HIDE DEF held, rest
    <3>2. n.lease.ops \in Seq(HookOp) /\ "uninstall" \in HookOp
      BY <1>1 DEF LeaseState, HookOp
    <3>3. Append(n.lease.ops, "uninstall") \in Seq(HookOp)
      BY <3>2
    <3>4. /\ end \in WaitsState /\ end.holds = {} /\ end.is = rest.is /\ end.lease.on = "cleanup"
          /\ end.lease.failed = n.lease.failed /\ end.lease.channel = n.lease.channel
      BY <1>1, <1>3, <2>1, <3>1, <3>3 DEF WaitsState, LeaseState
    <3>5. WaitsRight(end) /\ Waiting(end) = Waiting(n) \ ws
      BY <1>3, <1>4, <2>1, <3>4 DEF WaitsRight, Waiting
    <3>6. \A web : HooksRight(n.lease, web) => HooksRight(end.lease, web)
      BY <1>8, <2>3, <3>4 DEF HooksRight
    <3> QED
      BY <3>5, <3>6 DEF end
  <2> QED
    BY <2>2, <2>3, <1>1 DEF LeaseState
<1> QED
  BY <1>6, <1>7, <1>8

\* The same, for the end of all waits.
LEMMA RejectAllKeeps ==
  ASSUME NEW n, WaitsRight(n)
  PROVE  /\ WaitsRight(RejectAll(n)) /\ Waiting(RejectAll(n)) = {}
         /\ \A web : HooksRight(n.lease, web) => HooksRight(RejectAll(n).lease, web)
<1>1. Waiting(n) \ Waiter = {}
  BY DEF Waiting
<1> QED
  BY <1>1, SettleKeeps DEF RejectAll

\* A turn that leaves the tab alone, and right waits and calls of which a satisfied wait
\* has one that will see so.
LEMMA BecomesKeeps ==
  ASSUME WaitsInv, NEW n, WaitsRight(n), Waiting(n) \subseteq Waiting(waits),
         NEW calls, ReadsRight(calls), Becomes(n, calls),
         webTab' = webTab, windowOpen' = windowOpen, leaked' = leaked,
         leaked \/ HooksRight(n.lease, webTab),
         webTab.open => \A w \in Waiting(n) : Satisfied(w, webTab) => Noticed(w, calls, tabEvents')
  PROVE  WaitsInv'
<1>1. waits' = n /\ reads' = {r \in calls : r.w \in Waiting(n)}
  BY DEF Becomes
<1>2. ReadsRight(reads') /\ \A r \in reads' : r.w \in Waiting(n)
  BY <1>1 DEF ReadsRight
<1>3. ASSUME NEW w \in Waiting(n), Noticed(w, calls, tabEvents') PROVE Noticed(w, reads', tabEvents')
  BY <1>1, <1>3 DEF Noticed
<1> QED
  BY <1>1, <1>2, <1>3 DEF WaitsInv

LEMMA WaitsForUrlKeeps == WaitsInv /\ (\E w \in Waiter : WaitsForUrl(w)) => WaitsInv'
<1> SUFFICES ASSUME WaitsInv, NEW w \in Waiter, WaitsForUrl(w) PROVE WaitsInv'
  OBVIOUS
<1>1. /\ waits' = [waits EXCEPT !.is[w] = "waiting"] /\ waits.is[w] = "none" /\ windowOpen
      /\ reads' = reads \union {Ask(w, "check")}
      /\ webTab' = webTab /\ tabEvents' = tabEvents /\ windowOpen' = windowOpen /\ leaked' = leaked
  BY DEF WaitsForUrl, Checks
<1>2. waits \in WaitsState
  BY DEF WaitsInv, WaitsRight
<1>3. /\ waits' \in WaitsState /\ waits'.holds = waits.holds /\ waits'.lease = waits.lease
      /\ Waiting(waits') = Waiting(waits) \union {w}
  BY <1>1, <1>2 DEF WaitsState, Waiting
<1>4. WaitsRight(waits')
  BY <1>3 DEF WaitsRight, WaitsInv
<1>5. Ask(w, "check") \in ReadState /\ Ask(w, "check").w = w /\ Ask(w, "check").at = "asks"
  BY DEF Ask, ReadState
<1>6. ReadsRight(reads') /\ \A r \in reads' : r.w \in Waiting(waits')
  BY <1>1, <1>3, <1>5 DEF ReadsRight, WaitsInv
<1>7. ASSUME NEW v \in Waiting(waits'), webTab.open, Satisfied(v, webTab)
      PROVE  Noticed(v, reads', tabEvents)
  <2>1. CASE v = w
    BY <1>1, <1>5, <2>1 DEF Noticed
  <2>2. CASE v \in Waiting(waits)
    BY <1>1, <1>7, <2>2 DEF Noticed, WaitsInv
  <2> QED
    BY <1>3, <2>1, <2>2
<1> QED
  BY <1>1, <1>3, <1>4, <1>6, <1>7 DEF WaitsInv

LEMMA TimesOutKeeps == WaitsInv /\ (\E w \in Waiter : TimesOut(w)) => WaitsInv'
<1> SUFFICES ASSUME WaitsInv, NEW w \in Waiter, TimesOut(w) PROVE WaitsInv'
  OBVIOUS
<1>1. /\ waits' = [waits EXCEPT !.timed = @ \union {w}] /\ waits.is[w] = "waiting"
      /\ reads' = reads \union {Ask(w, "timeout")}
      /\ webTab' = webTab /\ tabEvents' = tabEvents /\ windowOpen' = windowOpen /\ leaked' = leaked
  BY DEF TimesOut
<1>2. waits \in WaitsState
  BY DEF WaitsInv, WaitsRight
<1>3. /\ waits' \in WaitsState /\ waits'.holds = waits.holds /\ waits'.lease = waits.lease
      /\ Waiting(waits') = Waiting(waits) /\ w \in Waiting(waits)
  BY <1>1, <1>2 DEF WaitsState, Waiting
<1>4. WaitsRight(waits')
  BY <1>3 DEF WaitsRight, WaitsInv
<1>5. Ask(w, "timeout") \in ReadState /\ Ask(w, "timeout").w = w /\ Ask(w, "timeout").at = "asks"
  BY DEF Ask, ReadState
<1>6. ReadsRight(reads') /\ \A r \in reads' : r.w \in Waiting(waits')
  BY <1>1, <1>3, <1>5 DEF ReadsRight, WaitsInv
<1> QED
  BY <1>1, <1>3, <1>4, <1>6 DEF WaitsInv, Noticed

LEMMA TabIsReadKeeps == WaitsInv /\ (\E r \in reads : TabIsRead(r)) => WaitsInv'
<1> SUFFICES ASSUME WaitsInv, NEW r \in reads, TabIsRead(r) PROVE WaitsInv'
  OBVIOUS
<1> DEFINE has == [r EXCEPT !.at = "has", !.tab = {webTab}]
<1>1. /\ reads' = (reads \ {r}) \union {has} /\ r.at = "asks"
      /\ waits' = waits /\ webTab' = webTab /\ tabEvents' = tabEvents /\ windowOpen' = windowOpen /\ leaked' = leaked
  BY DEF TabIsRead
<1>2. r \in ReadState /\ webTab \in WebTabState
  BY DEF WaitsInv, ReadsRight
<1>3. has \in ReadState /\ has.w = r.w /\ has.at = "has" /\ has.tab = {webTab}
  BY <1>2 DEF ReadState
<1> HIDE DEF has
<1>4. ReadsRight(reads') /\ \A c \in reads' : c.w \in Waiting(waits)
  BY <1>1, <1>2, <1>3 DEF ReadsRight, WaitsInv
<1>5. ASSUME NEW v \in Waiting(waits), webTab.open, Satisfied(v, webTab)
      PROVE  Noticed(v, reads', tabEvents)
  <2>1. Noticed(v, reads, tabEvents)
    BY <1>5 DEF WaitsInv
  <2>2. CASE v = r.w
    BY <1>1, <1>3, <1>5, <2>2 DEF Noticed
  <2>3. CASE v # r.w
    BY <1>1, <2>1, <2>3 DEF Noticed
  <2> QED
    BY <2>2, <2>3
<1> QED
  BY <1>1, <1>4, <1>5 DEF WaitsInv

\* What a call does with the tab it has read.
LEMMA ContinuesKeeps == WaitsInv /\ (\E r \in reads : Continues(r)) => WaitsInv'
<1> SUFFICES ASSUME WaitsInv, NEW r \in reads, Continues(r) PROVE WaitsInv'
  OBVIOUS
<1> DEFINE others == reads \ {r}
<1>1. /\ r.at = "has" /\ r \in ReadState /\ r.w \in Waiting(waits)
      /\ webTab' = webTab /\ tabEvents' = tabEvents /\ windowOpen' = windowOpen /\ leaked' = leaked
  BY DEF Continues, WaitsInv, ReadsRight
<1>2. PICK web \in WebTabState : r.tab = {web}
  BY <1>1 DEF WaitsInv, ReadsRight
<1>3. web = CHOOSE t \in r.tab : TRUE
  BY <1>2
<1>4. WaitsRight(waits) /\ (leaked \/ HooksRight(waits.lease, webTab)) /\ ReadsRight(others)
  BY DEF WaitsInv, ReadsRight
<1>5. ASSUME NEW v \in Waiting(waits), v # r.w \/ ~Satisfied(v, web), webTab.open, Satisfied(v, webTab)
      PROVE  Noticed(v, others, tabEvents)
  <2>1. Noticed(v, reads, tabEvents)
    BY <1>5 DEF WaitsInv
  <2> QED
    BY <1>1, <1>2, <1>5, <2>1 DEF Noticed
<1>6. ASSUME NEW how \in {"rejected", "matched"}, Becomes(Settle(waits, {r.w}, how), others) PROVE WaitsInv'
  <2>1. /\ WaitsRight(Settle(waits, {r.w}, how)) /\ Waiting(Settle(waits, {r.w}, how)) = Waiting(waits) \ {r.w}
        /\ leaked \/ HooksRight(Settle(waits, {r.w}, how).lease, webTab)
    BY <1>4, SettleKeeps
  <2>2. webTab.open => \A w \in Waiting(Settle(waits, {r.w}, how)) :
                         Satisfied(w, webTab) => Noticed(w, others, tabEvents')
    BY <1>1, <1>5, <2>1
  <2> QED
    BY <1>1, <1>4, <1>6, <2>1, <2>2, BecomesKeeps
<1>7. ASSUME NEW calls, ReadsRight(calls), others \subseteq calls, Becomes(waits, calls),
             ~Satisfied(r.w, web) \/ \E c \in calls : c.w = r.w /\ c.at = "asks"
      PROVE  WaitsInv'
  <2>1. webTab.open => \A w \in Waiting(waits) : Satisfied(w, webTab) => Noticed(w, calls, tabEvents')
    BY <1>1, <1>5, <1>7 DEF Noticed
  <2> QED
    BY <1>1, <1>4, <1>7, <2>1, BecomesKeeps
<1>8. Checks({r.w}) = {Ask(r.w, "check")} /\ Ask(r.w, "check") \in ReadState /\ Ask(r.w, "check").at = "asks"
      /\ Ask(r.w, "check").w = r.w
  BY <1>1 DEF Checks, Ask, ReadState
<1>9. [r EXCEPT !.at = "acquires", !.tab = {}] \in ReadState /\ [r EXCEPT !.at = "acquires", !.tab = {}].at = "acquires"
  BY <1>1 DEF ReadState
<1>10. ReadsRight(others \union Checks({r.w})) /\ ReadsRight(others \union {[r EXCEPT !.at = "acquires", !.tab = {}]})
  BY <1>4, <1>8, <1>9 DEF ReadsRight
<1>11. CASE ~windowOpen \/ ~web.open \/ ~web.home
  BY <1>3, <1>6, <1>11 DEF Continues
<1>12. CASE windowOpen /\ web.open /\ web.home /\ r.use = "again"
  BY <1>3, <1>7, <1>8, <1>10, <1>12 DEF Continues
<1>13. CASE windowOpen /\ web.open /\ web.home /\ r.use # "again" /\ Satisfied(r.w, web)
  BY <1>3, <1>6, <1>13 DEF Continues
<1>14. CASE windowOpen /\ web.open /\ web.home /\ r.use # "again" /\ ~Satisfied(r.w, web)
  BY <1>3, <1>4, <1>6, <1>7, <1>10, <1>14 DEF Continues
<1> QED
  BY <1>11, <1>12, <1>13, <1>14

LEMMA AcquiresKeeps == WaitsInv /\ (\E r \in reads : Acquires(r)) => WaitsInv'
<1> SUFFICES ASSUME WaitsInv, NEW r \in reads, Acquires(r) PROVE WaitsInv'
  OBVIOUS
<1> DEFINE others == reads \ {r}
           fresh == [NoLease EXCEPT !.on = "lease", !.channel = waits.channels + 1,
                                    !.refs = 1, !.ops = <<"install">>]
           waitsOn == [r EXCEPT !.at = "installs"]
<1>1. /\ r.at = "acquires" /\ r \in ReadState /\ r.w \in Waiting(waits) /\ waits.lease.on # "cleanup"
      /\ webTab' = webTab /\ tabEvents' = tabEvents /\ windowOpen' = windowOpen /\ leaked' = leaked
  BY DEF Acquires, WaitsInv, ReadsRight
<1>2. /\ WaitsRight(waits) /\ (leaked \/ HooksRight(waits.lease, webTab)) /\ ReadsRight(others)
      /\ waits \in WaitsState /\ waits.lease \in LeaseState
  BY DEF WaitsInv, ReadsRight, WaitsRight, WaitsState
<1>3. ASSUME NEW v \in Waiting(waits), webTab.open, Satisfied(v, webTab)
      PROVE  Noticed(v, others, tabEvents)
  <2>1. Noticed(v, reads, tabEvents)
    BY <1>3 DEF WaitsInv
  <2> QED
    BY <1>1, <2>1 DEF Noticed
<1>4. ASSUME NEW n, WaitsRight(n), Waiting(n) \subseteq Waiting(waits), leaked \/ HooksRight(n.lease, webTab),
             NEW calls, ReadsRight(calls), others \subseteq calls, Becomes(n, calls)
      PROVE  WaitsInv'
  <2>1. webTab.open => \A w \in Waiting(n) : Satisfied(w, webTab) => Noticed(w, calls, tabEvents')
    BY <1>1, <1>3, <1>4 DEF Noticed
  <2> QED
    BY <1>1, <1>4, <2>1, BecomesKeeps
<1>5. waitsOn \in ReadState /\ waitsOn.at = "installs"
  BY <1>1 DEF ReadState
<1>6. Checks({r.w}) = {Ask(r.w, "check")} /\ Ask(r.w, "check") \in ReadState /\ Ask(r.w, "check").at = "asks"
  BY <1>1 DEF Checks, Ask, ReadState
<1> HIDE DEF waitsOn
<1>7. ReadsRight(others \union Checks({r.w})) /\ ReadsRight(others \union {waitsOn})
  BY <1>2, <1>5, <1>6 DEF ReadsRight
<1>8. CASE r.w \in waits.holds
  BY <1>2, <1>4, <1>7, <1>8 DEF Acquires
<1>9. CASE r.w \notin waits.holds /\ ~windowOpen
  <2>1. Becomes(Settle(waits, {r.w}, "rejected"), others)
    BY <1>9 DEF Acquires
  <2>2. /\ WaitsRight(Settle(waits, {r.w}, "rejected")) /\ Waiting(Settle(waits, {r.w}, "rejected")) = Waiting(waits) \ {r.w}
        /\ leaked \/ HooksRight(Settle(waits, {r.w}, "rejected").lease, webTab)
    BY <1>2, SettleKeeps
  <2> QED
    BY <1>2, <1>4, <2>1, <2>2
<1>10. CASE r.w \notin waits.holds /\ windowOpen /\ waits.lease.on = "lease"
  <2> DEFINE n == [waits EXCEPT !.holds = @ \union {r.w}, !.lease.refs = @ + 1]
  <2>1. Becomes(n, others \union {waitsOn})
    BY <1>10 DEF Acquires, waitsOn
  <2>2. /\ n \in WaitsState /\ n.is = waits.is /\ n.holds = waits.holds \union {r.w}
        /\ n.lease.refs = waits.lease.refs + 1 /\ n.lease.on = "lease" /\ n.lease.ops = waits.lease.ops
        /\ n.lease.failed = waits.lease.failed /\ n.lease.channel = waits.lease.channel
    <3> DEFINE lease == [waits.lease EXCEPT !.refs = @ + 1]
    <3>1. waits.lease.refs \in Nat /\ waits.holds \union {r.w} \in SUBSET Waiter
      BY <1>1, <1>2 DEF WaitsState, LeaseState, Waiting
    <3>2. /\ lease \in LeaseState /\ lease.refs = waits.lease.refs + 1 /\ lease.on = "lease"
          /\ lease.ops = waits.lease.ops /\ lease.failed = waits.lease.failed
          /\ lease.channel = waits.lease.channel
      BY <1>2, <1>10, <3>1 DEF LeaseState
    <3>3. n = [waits EXCEPT !.holds = @ \union {r.w}, !.lease = lease]
      BY <1>2 DEF WaitsState
    <3> HIDE DEF lease, n
    <3> QED
      BY <1>2, <3>1, <3>2, <3>3 DEF WaitsState
  <2> HIDE DEF n
  <2>3. IsFiniteSet(n.holds) /\ Cardinality(n.holds) = Cardinality(waits.holds) + 1
    <3>1. IsFiniteSet(waits.holds)
      BY <1>2 DEF WaitsRight
    <3>2. /\ IsFiniteSet(waits.holds \union {r.w})
          /\ r.w \notin waits.holds => Cardinality(waits.holds \union {r.w}) = Cardinality(waits.holds) + 1
      BY <3>1, FS_AddElement
    <3> QED
      BY <1>10, <2>2, <3>2
  <2>4. WaitsRight(n) /\ Waiting(n) = Waiting(waits)
    BY <1>1, <1>2, <1>10, <2>2, <2>3 DEF WaitsRight, Waiting
  <2>5. leaked \/ HooksRight(n.lease, webTab)
    BY <1>2, <1>10, <2>2 DEF HooksRight
  <2> QED
    BY <1>4, <1>7, <2>1, <2>4, <2>5
<1>11. CASE r.w \notin waits.holds /\ windowOpen /\ waits.lease.on = "none"
  <2> DEFINE n == [waits EXCEPT !.holds = @ \union {r.w}, !.lease = fresh, !.channels = @ + 1]
  <2>1. Becomes(n, others \union {waitsOn})
    BY <1>11 DEF Acquires, waitsOn
  <2>2. waits.channels \in Nat
    BY <1>2 DEF WaitsState
  <2>3. /\ fresh \in LeaseState /\ fresh.on = "lease" /\ fresh.refs = 1 /\ fresh.ops = <<"install">>
        /\ fresh.failed = FALSE
    <3>1. "install" \in HookOp /\ <<"install">> \in Seq(HookOp) /\ waits.channels + 1 \in Nat
      BY <2>2 DEF HookOp
    <3> QED
      BY <3>1 DEF NoLease, LeaseState
  <2> HIDE DEF fresh
  <2>4. n \in WaitsState /\ n.is = waits.is /\ n.holds = waits.holds \union {r.w} /\ n.lease = fresh
    <3>1. waits.holds \union {r.w} \in SUBSET Waiter /\ waits.channels + 1 \in Nat
      BY <1>1, <1>2, <2>2 DEF WaitsState, Waiting
    <3> QED
      BY <1>2, <2>3, <3>1 DEF WaitsState
  <2> HIDE DEF n
  <2>5. waits.holds = {}
    BY <1>2, <1>11 DEF WaitsRight
  <2>6. IsFiniteSet(n.holds) /\ Cardinality(n.holds) = 1
    <3>1. n.holds = {r.w}
      BY <2>4, <2>5
    <3> QED
      BY <3>1, FS_Singleton
  <2>7. WaitsRight(n) /\ Waiting(n) = Waiting(waits)
    BY <1>1, <2>3, <2>4, <2>5, <2>6 DEF WaitsRight, Waiting
  <2>8. leaked \/ HooksRight(n.lease, webTab)
    BY <1>2, <1>11, <2>4 DEF HooksRight
  <2> QED
    BY <1>4, <1>7, <2>1, <2>7, <2>8
<1> QED
  BY <1>1, <1>2, <1>8, <1>9, <1>10, <1>11 DEF LeaseState

LEMMA SeesInstallKeeps == WaitsInv /\ (\E r \in reads : SeesInstall(r)) => WaitsInv'
<1> SUFFICES ASSUME WaitsInv, NEW r \in reads, SeesInstall(r) PROVE WaitsInv'
  OBVIOUS
<1> DEFINE others == reads \ {r}
<1>1. /\ r.at = "installs" /\ r \in ReadState /\ r.w \in Waiting(waits)
      /\ webTab' = webTab /\ tabEvents' = tabEvents /\ windowOpen' = windowOpen /\ leaked' = leaked
  BY DEF SeesInstall, WaitsInv, ReadsRight
<1>2. WaitsRight(waits) /\ (leaked \/ HooksRight(waits.lease, webTab)) /\ ReadsRight(others)
  BY DEF WaitsInv, ReadsRight
<1>3. ASSUME NEW v \in Waiting(waits), webTab.open, Satisfied(v, webTab)
      PROVE  Noticed(v, others, tabEvents)
  <2>1. Noticed(v, reads, tabEvents)
    BY <1>3 DEF WaitsInv
  <2> QED
    BY <1>1, <2>1 DEF Noticed
<1>4. CASE ~waits.lease.ready \/ ~windowOpen
  <2>1. Becomes(Settle(waits, {r.w}, "rejected"), others)
    BY <1>4 DEF SeesInstall
  <2>2. /\ WaitsRight(Settle(waits, {r.w}, "rejected")) /\ Waiting(Settle(waits, {r.w}, "rejected")) = Waiting(waits) \ {r.w}
        /\ leaked \/ HooksRight(Settle(waits, {r.w}, "rejected").lease, webTab)
    BY <1>2, SettleKeeps
  <2>3. webTab.open => \A w \in Waiting(Settle(waits, {r.w}, "rejected")) :
                         Satisfied(w, webTab) => Noticed(w, others, tabEvents')
    BY <1>1, <1>3, <2>2
  <2> QED
    BY <1>1, <1>2, <2>1, <2>2, <2>3, BecomesKeeps
<1>5. CASE waits.lease.ready /\ windowOpen
  <2>1. Becomes(waits, others \union {Ask(r.w, "again")})
    BY <1>5 DEF SeesInstall
  <2>2. Ask(r.w, "again") \in ReadState /\ Ask(r.w, "again").at = "asks"
    BY <1>1 DEF Ask, ReadState
  <2>3. ReadsRight(others \union {Ask(r.w, "again")})
    BY <1>2, <2>2 DEF ReadsRight
  <2>4. webTab.open => \A w \in Waiting(waits) :
                         Satisfied(w, webTab) => Noticed(w, others \union {Ask(r.w, "again")}, tabEvents')
    BY <1>1, <1>3 DEF Noticed
  <2> QED
    BY <1>1, <1>2, <2>1, <2>3, <2>4, BecomesKeeps
<1> QED
  BY <1>4, <1>5, <1>2 DEF WaitsRight, WaitsState, LeaseState

\* The hooks: an operation that succeeds leaves the lease its own.
LEMMA InstallsKeeps == WaitsInv /\ Installs => WaitsInv'
<1> SUFFICES ASSUME WaitsInv, Installs PROVE WaitsInv'
  OBVIOUS
<1>1. /\ waits.lease.on # "none" /\ waits.lease.ops # <<>> /\ ~waits.lease.failed /\ webTab.open
      /\ tabEvents' = tabEvents /\ windowOpen' = windowOpen /\ leaked' = leaked
  BY DEF Installs, HookRuns
<1>2. /\ WaitsRight(waits) /\ waits \in WaitsState /\ waits.lease \in LeaseState
      /\ waits.lease.ops \in Seq(HookOp) /\ waits.lease.channel \in Nat /\ webTab \in WebTabState
      /\ ReadsRight(reads) /\ \A r \in reads : r.w \in Waiting(waits)
  BY DEF WaitsInv, WaitsRight, WaitsState, LeaseState
<1>3. /\ webTab' \in WebTabState /\ webTab'.open = webTab.open
      /\ \A w : Satisfied(w, webTab') <=> Satisfied(w, webTab)
      /\ HooksRight(waits.lease, webTab) => HooksRight(waits.lease, webTab')
  <2>1. CASE waits.lease.half
    <3>1. webTab' = [webTab EXCEPT !.main = @ \union {waits.lease.channel}]
      BY <2>1 DEF Installs
    <3> QED
      BY <1>1, <1>2, <3>1 DEF WebTabState, Satisfied, HooksRight
  <2>2. CASE ~waits.lease.half
    <3>1. webTab' = [webTab EXCEPT !.isolated = @ \union {waits.lease.channel}]
      BY <2>2 DEF Installs
    <3> QED
      BY <1>1, <1>2, <3>1 DEF WebTabState, Satisfied, HooksRight
  <2> QED
    BY <2>1, <2>2, <1>2 DEF LeaseState
<1>4. /\ WaitsRight(waits') /\ Waiting(waits') = Waiting(waits) /\ reads' = reads
      /\ waits'.lease.on = waits.lease.on /\ waits'.lease.failed = waits.lease.failed
      /\ waits'.lease.channel = waits.lease.channel
  <2>1. CASE waits.lease.half
    <3> DEFINE n == Done(waits)
    <3>1. waits' = n /\ reads' = {r \in reads : r.w \in Waiting(n)}
      BY <2>1 DEF Installs, Becomes
    <3>2. Tail(waits.lease.ops) \in Seq(HookOp)
      BY <1>1, <1>2
    <3>3. /\ n \in WaitsState /\ n.is = waits.is /\ n.holds = waits.holds
          /\ n.lease.ops = Tail(waits.lease.ops) /\ n.lease.on = waits.lease.on
          /\ n.lease.refs = waits.lease.refs /\ n.lease.failed = waits.lease.failed
          /\ n.lease.channel = waits.lease.channel
      BY <1>2, <3>2 DEF Done, WaitsState, LeaseState
    <3>4. \A i \in DOMAIN n.lease.ops : i + 1 \in DOMAIN waits.lease.ops /\ n.lease.ops[i] = waits.lease.ops[i + 1]
      <4>1. Len(Tail(waits.lease.ops)) = Len(waits.lease.ops) - 1 /\ Len(waits.lease.ops) \in Nat
        BY <1>1, <1>2
      <4> QED
        BY <1>1, <1>2, <3>2, <3>3, <4>1
    <3> HIDE DEF n
    <3>5. WaitsRight(n) /\ Waiting(n) = Waiting(waits)
      BY <1>2, <3>3, <3>4 DEF WaitsRight, Waiting
    <3> QED
      BY <1>2, <3>1, <3>3, <3>5
  <2>2. CASE ~waits.lease.half
    <3>1. waits' = [waits EXCEPT !.lease.half = TRUE] /\ reads' = reads
      BY <2>2 DEF Installs
    <3>2. /\ waits' \in WaitsState /\ waits'.is = waits.is /\ waits'.holds = waits.holds
          /\ waits'.lease.ops = waits.lease.ops /\ waits'.lease.on = waits.lease.on
          /\ waits'.lease.refs = waits.lease.refs /\ waits'.lease.failed = waits.lease.failed
          /\ waits'.lease.channel = waits.lease.channel
      BY <1>2, <3>1 DEF WaitsState, LeaseState
    <3> QED
      BY <1>2, <3>1, <3>2 DEF WaitsRight, Waiting
  <2> QED
    BY <2>1, <2>2, <1>2 DEF LeaseState
<1>5. leaked \/ HooksRight(waits'.lease, webTab')
  BY <1>3, <1>4 DEF WaitsInv, HooksRight
<1> QED
  BY <1>1, <1>2, <1>3, <1>4, <1>5 DEF WaitsInv

\* One that fails leaves no hook, or the history says so.
LEMMA InstallFailsKeeps == WaitsInv /\ InstallFails => WaitsInv'
<1> SUFFICES ASSUME WaitsInv, InstallFails PROVE WaitsInv'
  OBVIOUS
<1> DEFINE failed == [waits EXCEPT !.lease.failed = TRUE, !.lease.ops = <<>>, !.lease.half = FALSE]
           page == IF waits.lease.half THEN Unhooked ELSE webTab
<1>1. /\ waits.lease.on # "none"
      /\ webTab' = page /\ leaked' = (leaked \/ page.main \union page.isolated # {})
      /\ tabEvents' = tabEvents /\ windowOpen' = windowOpen
      /\ IF waits.lease.on = "cleanup" THEN Becomes([waits EXCEPT !.lease = NoLease], reads)
         ELSE IF Op = "refresh" THEN Becomes(RejectAll(failed), reads)
         ELSE Becomes(failed, reads)
  BY DEF InstallFails, HookRuns
<1>2. /\ WaitsRight(waits) /\ waits \in WaitsState /\ waits.lease \in LeaseState /\ webTab \in WebTabState
      /\ ReadsRight(reads) /\ \A r \in reads : r.w \in Waiting(waits)
  BY DEF WaitsInv, WaitsRight, WaitsState
<1>3. page \in WebTabState /\ page.open = webTab.open /\ \A w : Satisfied(w, page) <=> Satisfied(w, webTab)
  BY <1>2 DEF WebTabState, Satisfied, Unhooked
<1> HIDE DEF page
<1>4. ASSUME NEW n, WaitsRight(n), Waiting(n) \subseteq Waiting(waits), Becomes(n, reads)
      PROVE  WaitsInv'
  <2>1. waits' = n /\ reads' = {r \in reads : r.w \in Waiting(n)}
    BY <1>4 DEF Becomes
  <2>2. ReadsRight(reads') /\ \A r \in reads' : r.w \in Waiting(n)
    BY <1>2, <2>1 DEF ReadsRight
  <2>3. leaked' \/ HooksRight(n.lease, page)
    BY <1>1 DEF HooksRight
  <2>4. ASSUME NEW w \in Waiting(n), page.open, Satisfied(w, page) PROVE Noticed(w, reads', tabEvents')
    <3>1. Noticed(w, reads, tabEvents)
      BY <1>3, <1>4, <2>4 DEF WaitsInv
    <3> QED
      BY <1>1, <2>1, <2>4, <3>1 DEF Noticed
  <2>5. ~windowOpen => Waiting(n) = {}
    BY <1>4 DEF WaitsInv
  <2> QED
    BY <1>1, <1>3, <1>4, <2>1, <2>2, <2>3, <2>4, <2>5 DEF WaitsInv
<1>5. CASE waits.lease.on = "cleanup"
  <2> DEFINE n == [waits EXCEPT !.lease = NoLease]
  <2>1. NoLease \in LeaseState /\ NoLease.on = "none"
    BY DEF NoLease, LeaseState, HookOp
  <2>2. n \in WaitsState /\ n.is = waits.is /\ n.holds = waits.holds /\ n.lease = NoLease
    BY <1>2, <2>1 DEF WaitsState
  <2>3. WaitsRight(n) /\ Waiting(n) = Waiting(waits)
    BY <1>2, <1>5, <2>1, <2>2 DEF WaitsRight, Waiting
  <2> QED
    BY <1>1, <1>4, <1>5, <2>3
<1>6. CASE waits.lease.on # "cleanup"
  <2>1. <<>> \in Seq(HookOp)
    OBVIOUS
  <2>2. /\ failed \in WaitsState /\ failed.is = waits.is /\ failed.holds = waits.holds
        /\ failed.lease.on = waits.lease.on /\ failed.lease.refs = waits.lease.refs
        /\ failed.lease.ops = <<>>
    BY <1>2, <2>1 DEF WaitsState, LeaseState
  <2> HIDE DEF failed
  <2>3. WaitsRight(failed) /\ Waiting(failed) = Waiting(waits)
    BY <1>2, <2>2 DEF WaitsRight, Waiting
  <2>4. WaitsRight(RejectAll(failed)) /\ Waiting(RejectAll(failed)) = {}
    BY <2>3, RejectAllKeeps
  <2> QED
    BY <1>1, <1>4, <1>6, <2>3, <2>4
<1> QED
  BY <1>5, <1>6

LEMMA UninstallsKeeps == WaitsInv /\ Uninstalls => WaitsInv'
<1> SUFFICES ASSUME WaitsInv, Uninstalls PROVE WaitsInv'
  OBVIOUS
<1>1. /\ waits.lease.on # "none" /\ waits.lease.ops # <<>> /\ ~waits.lease.failed /\ Op = "uninstall"
      /\ waits' = [waits EXCEPT !.lease = NoLease]
      /\ reads' = reads /\ tabEvents' = tabEvents /\ windowOpen' = windowOpen
      /\ \/ webTab' = Unhooked /\ leaked' = leaked
         \/ webTab' = webTab /\ leaked' = TRUE
  BY DEF Uninstalls, HookRuns
<1>2. /\ WaitsRight(waits) /\ waits \in WaitsState /\ waits.lease \in LeaseState /\ webTab \in WebTabState
      /\ waits.lease.ops \in Seq(HookOp)
  BY DEF WaitsInv, WaitsRight, WaitsState, LeaseState
<1>3. waits.lease.on = "cleanup" /\ waits.holds = {}
  <2>1. 1 \in DOMAIN waits.lease.ops /\ waits.lease.ops[1] = "uninstall"
    BY <1>1, <1>2 DEF Op
  <2> QED
    BY <1>1, <1>2, <2>1 DEF WaitsRight, LeaseState
<1>4. NoLease \in LeaseState /\ NoLease.on = "none"
  BY DEF NoLease, LeaseState, HookOp
<1>5. waits' \in WaitsState /\ waits'.is = waits.is /\ waits'.holds = {} /\ waits'.lease = NoLease
  BY <1>1, <1>2, <1>3, <1>4 DEF WaitsState
<1>6. WaitsRight(waits') /\ Waiting(waits') = Waiting(waits)
  BY <1>2, <1>3, <1>4, <1>5 DEF WaitsRight, Waiting
<1>7. Unhooked \in WebTabState /\ Unhooked.open = webTab.open
      /\ Unhooked.main = webTab.main \ {waits.lease.channel}
      /\ Unhooked.isolated = webTab.isolated \ {waits.lease.channel}
      /\ \A w : Satisfied(w, Unhooked) <=> Satisfied(w, webTab)
  BY <1>2 DEF Unhooked, WebTabState, Satisfied
<1>8. leaked' \/ HooksRight(waits'.lease, webTab')
  BY <1>1, <1>3, <1>4, <1>5, <1>7 DEF HooksRight, WaitsInv
<1>9. webTab' \in WebTabState /\ webTab'.open = webTab.open /\ \A w : Satisfied(w, webTab') <=> Satisfied(w, webTab)
  BY <1>1, <1>2, <1>7
<1> QED
  BY <1>1, <1>6, <1>8, <1>9 DEF WaitsInv

\* Chrome's events.
LEMMA HearsUpdateKeeps == WaitsInv /\ (\E event \in tabEvents : HearsUpdate(event)) => WaitsInv'
<1> SUFFICES ASSUME WaitsInv, NEW event \in tabEvents, HearsUpdate(event) PROVE WaitsInv'
  OBVIOUS
<1> DEFINE n == IF webTab.home THEN waits ELSE RejectAll(waits)
           refreshed == IF event.kind = "complete" /\ n.lease.on = "lease" /\ ~n.lease.failed
                        THEN [n EXCEPT !.lease.ops = Append(@, "refresh")] ELSE n
           calls == reads \union Checks(Waiting(n))
<1>1. /\ Becomes(refreshed, calls)
      /\ webTab' = webTab /\ windowOpen' = windowOpen /\ leaked' = leaked
  BY DEF HearsUpdate
<1>2. /\ WaitsRight(waits) /\ (leaked \/ HooksRight(waits.lease, webTab)) /\ ReadsRight(reads)
      /\ Waiting(waits) \subseteq Waiter
  BY DEF WaitsInv, Waiting
<1>3. WaitsRight(n) /\ Waiting(n) \subseteq Waiting(waits) /\ (leaked \/ HooksRight(n.lease, webTab))
  BY <1>2, RejectAllKeeps
<1> HIDE DEF n
<1>4. /\ WaitsRight(refreshed) /\ Waiting(refreshed) = Waiting(n)
      /\ leaked \/ HooksRight(refreshed.lease, webTab)
  <2>1. CASE event.kind = "complete" /\ n.lease.on = "lease" /\ ~n.lease.failed
    <3> DEFINE m == [n EXCEPT !.lease.ops = Append(@, "refresh")]
    <3>1. refreshed = m
      BY <2>1
    <3>2. n \in WaitsState /\ n.lease \in LeaseState /\ n.lease.ops \in Seq(HookOp) /\ "refresh" \in HookOp
      BY <1>3 DEF WaitsRight, WaitsState, LeaseState, HookOp
    <3>3. /\ Append(n.lease.ops, "refresh") \in Seq(HookOp)
          /\ \A i \in DOMAIN Append(n.lease.ops, "refresh") :
               Append(n.lease.ops, "refresh")[i] = "refresh"
               \/ (i \in DOMAIN n.lease.ops /\ Append(n.lease.ops, "refresh")[i] = n.lease.ops[i])
      BY <3>2
    <3>4. /\ m \in WaitsState /\ m.is = n.is /\ m.holds = n.holds
          /\ m.lease.ops = Append(n.lease.ops, "refresh") /\ m.lease.on = n.lease.on
          /\ m.lease.refs = n.lease.refs /\ m.lease.failed = n.lease.failed /\ m.lease.channel = n.lease.channel
      BY <3>2, <3>3 DEF WaitsState, LeaseState
    <3> HIDE DEF m
    <3>5. WaitsRight(m)
      <4>1. \A i \in DOMAIN m.lease.ops : n.lease.on = "lease" => m.lease.ops[i] # "uninstall"
        BY <1>3, <3>3, <3>4 DEF WaitsRight
      <4> QED
        BY <1>3, <3>4, <4>1 DEF WaitsRight, Waiting
    <3> QED
      BY <1>3, <3>1, <3>4, <3>5 DEF Waiting, HooksRight
  <2>2. CASE ~(event.kind = "complete" /\ n.lease.on = "lease" /\ ~n.lease.failed)
    BY <1>3, <2>2
  <2> QED
    BY <2>1, <2>2
<1> HIDE DEF refreshed
<1>5. /\ \A w \in Waiting(n) : Ask(w, "check") \in calls
      /\ \A w : Ask(w, "check").w = w /\ Ask(w, "check").at = "asks"
  BY DEF Checks, Ask
<1>6. \A w \in Waiter : Ask(w, "check") \in ReadState
  BY DEF Ask, ReadState
<1>7. ReadsRight(calls)
  BY <1>2, <1>3, <1>6 DEF Checks, ReadsRight, Ask
<1>8. webTab.open => \A w \in Waiting(refreshed) : Satisfied(w, webTab) => Noticed(w, calls, tabEvents')
  BY <1>4, <1>5 DEF Noticed
<1> HIDE DEF calls
<1> QED
  BY <1>1, <1>3, <1>4, <1>7, <1>8, BecomesKeeps

LEMMA HearsSignalKeeps == WaitsInv /\ (\E event \in tabEvents : HearsSignal(event)) => WaitsInv'
<1> SUFFICES ASSUME WaitsInv, NEW event \in tabEvents, HearsSignal(event) PROVE WaitsInv'
  OBVIOUS
<1>1. PICK calls : Becomes(waits, calls) /\ reads \subseteq calls /\ calls \subseteq reads \union Checks(Waiting(waits))
  BY DEF HearsSignal
<1>2. /\ webTab' = webTab /\ windowOpen' = windowOpen /\ leaked' = leaked
      /\ tabEvents' = tabEvents \ {event} /\ event.kind = "signal"
  BY DEF HearsSignal
<1>3. /\ WaitsRight(waits) /\ (leaked \/ HooksRight(waits.lease, webTab)) /\ ReadsRight(reads)
      /\ Waiting(waits) \subseteq Waiter
  BY DEF WaitsInv, Waiting
<1>4. \A w \in Waiter : Ask(w, "check") \in ReadState /\ Ask(w, "check").at = "asks"
  BY DEF Ask, ReadState
<1>5. ReadsRight(calls)
  BY <1>1, <1>3, <1>4 DEF Checks, ReadsRight
<1>6. webTab.open => \A w \in Waiting(waits) : Satisfied(w, webTab) => Noticed(w, calls, tabEvents')
  BY <1>1, <1>2 DEF WaitsInv, Noticed
<1> QED
  BY <1>1, <1>2, <1>3, <1>5, <1>6, BecomesKeeps

\* The events and the revocation that end every wait.
LEMMA LeavesKeep == WaitsInv /\ ((\E event \in tabEvents : HearsLeave(event)) \/ WindowCloses) => WaitsInv'
<1> SUFFICES ASSUME WaitsInv, (\E event \in tabEvents : HearsLeave(event)) \/ WindowCloses PROVE WaitsInv'
  OBVIOUS
<1>1. Becomes(RejectAll(waits), reads) /\ webTab' = webTab /\ leaked' = leaked
  BY DEF HearsLeave, WindowCloses
<1>2. /\ WaitsRight(RejectAll(waits)) /\ Waiting(RejectAll(waits)) = {}
      /\ leaked \/ HooksRight(RejectAll(waits).lease, webTab)
  BY RejectAllKeeps DEF WaitsInv
<1>3. waits' = RejectAll(waits) /\ reads' = {}
  BY <1>1, <1>2 DEF Becomes
<1> QED
  BY <1>1, <1>2, <1>3 DEF WaitsInv, ReadsRight

\* The tab itself, and the window's grant.
LEMMA TabActsKeep == WaitsInv /\ (TabActs \/ WindowReopens) => WaitsInv'
<1> SUFFICES ASSUME WaitsInv, TabActs \/ WindowReopens PROVE WaitsInv'
  OBVIOUS
<1>1. CASE WindowReopens
  <2>1. waits' = waits /\ reads' = reads /\ webTab' = webTab /\ tabEvents' = tabEvents /\ leaked' = leaked
        /\ windowOpen' = TRUE
    BY <1>1 DEF WindowReopens
  <2> QED
    BY <2>1 DEF WaitsInv
<1>2. ASSUME NEW web \in WebTabState, NEW events, \E event \in events : event.kind # "signal",
             leaked \/ HooksRight(waits.lease, web), TabTurn(web, events)
      PROVE  WaitsInv'
  <2>1. /\ webTab' = web /\ tabEvents' = tabEvents \union events
        /\ waits' = waits /\ reads' = reads /\ windowOpen' = windowOpen /\ leaked' = leaked
    BY <1>2 DEF TabTurn
  <2>2. \A w : Noticed(w, reads, tabEvents')
    BY <1>2, <2>1 DEF Noticed
  <2> QED
    BY <1>2, <2>1, <2>2 DEF WaitsInv
<1>3. webTab \in WebTabState /\ (leaked \/ HooksRight(waits.lease, webTab))
  BY DEF WaitsInv
<1>4. /\ \E event \in Plain("updated") : event.kind # "signal"
      /\ \E event \in Plain("complete") : event.kind # "signal"
      /\ \E event \in Plain("left") : event.kind # "signal"
  BY DEF Plain, On
<1>5. ASSUME NEW match \in BOOLEAN, NEW events, \E event \in events : event.kind # "signal",
             TabTurn([webTab EXCEPT !.match = match, !.loading = TRUE, !.main = {}, !.isolated = {}], events)
      PROVE  WaitsInv'
  <2>1. /\ [webTab EXCEPT !.match = match, !.loading = TRUE, !.main = {}, !.isolated = {}] \in WebTabState
        /\ HooksRight(waits.lease, [webTab EXCEPT !.match = match, !.loading = TRUE, !.main = {}, !.isolated = {}])
    BY <1>3 DEF WebTabState, HooksRight
  <2> QED
    BY <1>2, <1>5, <2>1
<1>6. ASSUME NEW match \in BOOLEAN, NEW events, \E event \in events : event.kind # "signal",
             TabTurn([webTab EXCEPT !.match = match], events)
      PROVE  WaitsInv'
  <2>1. /\ [webTab EXCEPT !.match = match] \in WebTabState
        /\ leaked \/ HooksRight(waits.lease, [webTab EXCEPT !.match = match])
    BY <1>3 DEF WebTabState, HooksRight
  <2> QED
    BY <1>2, <1>6, <2>1
<1>7. ASSUME TabTurn([webTab EXCEPT !.loading = FALSE], Plain("complete")) PROVE WaitsInv'
  <2>1. /\ [webTab EXCEPT !.loading = FALSE] \in WebTabState
        /\ leaked \/ HooksRight(waits.lease, [webTab EXCEPT !.loading = FALSE])
    BY <1>3 DEF WebTabState, HooksRight
  <2> QED
    BY <1>2, <1>4, <1>7, <2>1
<1>8. ASSUME TabTurn([webTab EXCEPT !.home = FALSE], Plain("left")) PROVE WaitsInv'
  <2>1. /\ [webTab EXCEPT !.home = FALSE] \in WebTabState
        /\ leaked \/ HooksRight(waits.lease, [webTab EXCEPT !.home = FALSE])
    BY <1>3 DEF WebTabState, HooksRight
  <2> QED
    BY <1>2, <1>4, <1>8, <2>1
<1>9. ASSUME TabTurn([webTab EXCEPT !.open = FALSE, !.main = {}, !.isolated = {}], Plain("left"))
      PROVE  WaitsInv'
  <2>1. /\ [webTab EXCEPT !.open = FALSE, !.main = {}, !.isolated = {}] \in WebTabState
        /\ HooksRight(waits.lease, [webTab EXCEPT !.open = FALSE, !.main = {}, !.isolated = {}])
    BY <1>3 DEF WebTabState, HooksRight
  <2> QED
    BY <1>2, <1>4, <1>9, <2>1
<1>10. \E event \in Plain("updated") \union {On("signal", c) : c \in Hooked} : event.kind # "signal"
  BY <1>4
<1>11. CASE TabActs
  BY <1>4, <1>5, <1>6, <1>7, <1>8, <1>9, <1>10, <1>11 DEF TabActs
<1> QED
  BY <1>1, <1>11

\* Every step keeps it.
LEMMA WaitsStep == WaitsInv /\ [NavigationNext]_navigationVars => WaitsInv'
<1> SUFFICES ASSUME WaitsInv, [NavigationNext]_navigationVars PROVE WaitsInv'
  OBVIOUS
<1>1. CASE NavigationNext
  BY <1>1, WaitsForUrlKeeps, TimesOutKeeps, TabIsReadKeeps, ContinuesKeeps, AcquiresKeeps, SeesInstallKeeps,
     InstallsKeeps, InstallFailsKeeps, UninstallsKeeps, HearsUpdateKeeps, HearsSignalKeeps, LeavesKeep,
     TabActsKeep DEF NavigationNext
<1>2. CASE UNCHANGED navigationVars
  BY <1>2 DEF navigationVars, WaitsInv
<1> QED
  BY <1>1, <1>2

\* It says what is promised of the waits.
LEMMA WaitsInvSays == WaitsInv => NavigationWaitsKept
<1> SUFFICES ASSUME WaitsInv PROVE NavigationWaitsKept
  OBVIOUS
<1>1. reads = {} /\ tabEvents = {} /\ webTab.open => \A w \in Waiting(waits) : ~Satisfied(w, webTab)
  BY DEF WaitsInv, Noticed
<1>2. waits.lease.on = "none" /\ ~leaked => webTab.main \union webTab.isolated = {}
  BY DEF WaitsInv, HooksRight
<1> QED
  BY <1>1, <1>2 DEF NavigationWaitsKept, WaitsInv, WaitsRight

\* No change of a tab goes unnoticed by the waits for its URL, the lease on its hooks
\* counts those that hold it, and no wait outlives the grant, nor a hook the last wait:
\* for any number of waits, reads, turns of the tab and failures.
THEOREM WaitsNotice == NavigationSpec => []NavigationWaitsKept
<1>1. NavigationSpec => []WaitsInv
  BY WaitsBegin, WaitsStep, PTL DEF NavigationSpec
<1> QED
  BY <1>1, WaitsInvSays, PTL

-----------------------------------------------------------------------------
(* The activity history.                                                    *)

AnEntry == [id : LogEntry, tab : LogTab \union {NoLogTab}]
AStored == Seq(AnEntry) \union {Nothing}
LogOp ==
    [kind : {"restore", "clear"}] \union [kind : {"append"}, entry : AnEntry]
        \union [kind : {"clearTab"}, tab : LogTab]

\* What is picked is what is at the places: of n places some one has n - 1 before it.
LEMMA PickedHas ==
  ASSUME NEW S, NEW list \in Seq(S), NEW places \in SUBSET (DOMAIN list)
  PROVE  /\ Picked(list, places) \in Seq(S)
         /\ ToSet(Picked(list, places)) = {list[i] : i \in places}
<1> DEFINE n == Cardinality(places)
           before(i) == {j \in places : j <= i}
           rank == [i \in places |-> Cardinality(before(i))]
           at(k) == CHOOSE i \in places : Cardinality(before(i)) = k
<1>1. places \subseteq 1..Len(list) /\ Len(list) \in Nat /\ IsFiniteSet(places)
  <2>1. places \subseteq 1..Len(list) /\ Len(list) \in Nat
    OBVIOUS
  <2>2. IsFiniteSet(1..Len(list))
    BY <2>1, FS_Interval
  <2> QED
    BY <2>1, <2>2, FS_Subset
<1>2. n \in Nat /\ IsFiniteSet(1..n) /\ Cardinality(1..n) = n
  <2>1. n \in Nat
    BY <1>1, FS_CardinalityType
  <2> HIDE DEF n
  <2>2. IsFiniteSet(1..n) /\ Cardinality(1..n) = IF 1 > n THEN 0 ELSE n - 1 + 1
    BY <2>1, FS_Interval
  <2> QED
    BY <2>1, <2>2
<1>3. ASSUME NEW i \in places
      PROVE  IsFiniteSet(before(i)) /\ Cardinality(before(i)) \in 1..n
  <2>1. before(i) \subseteq places /\ i \in before(i)
    BY <1>1
  <2>2. IsFiniteSet(before(i)) /\ Cardinality(before(i)) <= n
    BY <1>1, <2>1, FS_Subset
  <2>3. Cardinality(before(i)) \in Nat /\ Cardinality(before(i)) # 0
    BY <2>1, <2>2, FS_CardinalityType, FS_EmptySet
  <2> QED
    BY <1>2, <2>2, <2>3
<1>4. ASSUME NEW i \in places, NEW j \in places, i < j
      PROVE  Cardinality(before(i)) # Cardinality(before(j))
  <2>1. before(i) \subseteq before(j) /\ j \in before(j) /\ j \notin before(i)
    BY <1>1, <1>4
  <2>2. IsFiniteSet(before(j))
    BY <1>3
  <2> QED
    BY <2>1, <2>2, FS_Subset
<1>5. rank \in Injection(places, 1..n)
  <2>1. rank \in [places -> 1..n]
    BY <1>3
  <2>2. ASSUME NEW i \in places, NEW j \in places, i # j PROVE rank[i] # rank[j]
    <3>1. i < j \/ j < i
      BY <1>1, <2>2
    <3> QED
      BY <1>4, <3>1
  <2> QED
    BY <2>1, <2>2 DEF Injection, IsInjective
<1>6. rank \in Surjection(places, 1..n)
  <2> HIDE DEF rank
  <2> QED
    BY <1>1, <1>2, <1>5, FS_Injection
<1>7. ASSUME NEW k \in 1..n PROVE at(k) \in places /\ Cardinality(before(at(k))) = k
  <2>1. \E i \in places : rank[i] = k
    BY <1>6 DEF Surjection
  <2> QED
    BY <2>1
<1>8. Picked(list, places) = [k \in 1..n |-> list[at(k)]]
  BY DEF Picked
<1>9. ASSUME NEW k \in 1..n PROVE list[at(k)] \in S
  <2>1. at(k) \in 1..Len(list)
    BY <1>1, <1>7
  <2> HIDE DEF at
  <2> QED
    BY <2>1
<1>10. Picked(list, places) \in Seq(S)
  <2> HIDE DEF at, n
  <2>1. Picked(list, places) \in [1..n -> S]
    BY <1>8, <1>9
  <2> QED
    BY <1>2, <2>1, SeqDef
<1>11. DOMAIN Picked(list, places) = 1..n
  BY <1>8
<1>12. ASSUME NEW i \in places PROVE list[i] \in ToSet(Picked(list, places))
  <2>1. rank[i] \in 1..n /\ Cardinality(before(i)) = rank[i]
    BY <1>3
  <2>2. at(rank[i]) = i
    <3>1. at(rank[i]) \in places /\ Cardinality(before(at(rank[i]))) = Cardinality(before(i))
      BY <1>7, <2>1
    <3>2. at(rank[i]) \in Nat /\ i \in Nat
      BY <1>1, <3>1
    <3> HIDE DEF at, before
    <3>3. ~(at(rank[i]) < i) /\ ~(i < at(rank[i]))
      BY <1>4, <3>1
    <3> QED
      BY <3>2, <3>3
  <2>3. Picked(list, places)[rank[i]] = list[i]
    BY <1>8, <2>1, <2>2
  <2> HIDE DEF rank
  <2> QED
    BY <1>11, <2>1, <2>3 DEF ToSet
<1>13. ASSUME NEW x \in ToSet(Picked(list, places)) PROVE x \in {list[i] : i \in places}
  <2>1. PICK k \in 1..n : x = list[at(k)]
    BY <1>8, <1>11 DEF ToSet
  <2> QED
    BY <1>7, <2>1
<1> QED
  BY <1>10, <1>12, <1>13

\* The lists of the history.
LEMMA SavedHas ==
  ASSUME NEW list \in Seq(AnEntry)
  PROVE  /\ Saved(list) \in Seq(AnEntry)
         /\ ToSet(Saved(list)) = {e \in ToSet(list) : e.id \notin PingEntry}
<1> DEFINE places == {i \in DOMAIN list : list[i].id \notin PingEntry}
<1>1. places \in SUBSET (DOMAIN list)
  OBVIOUS
<1>2. Picked(list, places) \in Seq(AnEntry) /\ ToSet(Picked(list, places)) = {list[i] : i \in places}
  BY <1>1, PickedHas
<1> QED
  BY <1>2 DEF Saved, ToSet

LEMMA BoundHas ==
  ASSUME NEW list \in Seq(AnEntry)
  PROVE  BoundHistory(list) \in Seq(AnEntry) /\ ToSet(BoundHistory(list)) \subseteq ToSet(list)
<1>1. KeptPlaces(list) \in SUBSET (DOMAIN list)
  BY DEF KeptPlaces
<1> QED
  BY <1>1, PickedHas DEF BoundHistory, ToSet

\* A list is not the value of a key that is not there.
LEMMA NothingIsNoList == Nothing \notin Seq(AnEntry)
<1> SUFFICES ASSUME Nothing \in Seq(AnEntry) PROVE FALSE
  OBVIOUS
<1>1. Nothing[1] \in AnEntry /\ Nothing[1] = [id |-> "nothing"]
  BY DEF Nothing
<1>2. DOMAIN [id |-> "nothing"] = {"id"}
  OBVIOUS
<1>3. \A e \in AnEntry : DOMAIN e = {"id", "tab"}
  BY DEF AnEntry
<1> QED
  BY <1>1, <1>2, <1>3

LEMMA HeldFits == ASSUME NEW x \in AStored
                  PROVE  Held(x) \in Seq(AnEntry) /\ (x # Nothing => Held(x) = x)
  BY DEF AStored, Held

LEMMA IdsOfMore ==
  ASSUME NEW list \in Seq(AnEntry), NEW other \in Seq(AnEntry), NEW e \in AnEntry
  PROVE  /\ ToSet(Append(list, e)) = ToSet(list) \union {e}
         /\ ToSet(list \o other) = ToSet(list) \union ToSet(other)
         /\ list \o other \in Seq(AnEntry) /\ Append(list, e) \in Seq(AnEntry)
<1>1. list \o other \in Seq(AnEntry) /\ Append(list, e) \in Seq(AnEntry)
  OBVIOUS
<1>2. /\ DOMAIN Append(list, e) = 1..Len(list) + 1 /\ Append(list, e)[Len(list) + 1] = e
      /\ \A i \in 1..Len(list) : Append(list, e)[i] = list[i]
  OBVIOUS
<1>3. ToSet(Append(list, e)) = ToSet(list) \union {e}
  BY <1>2 DEF ToSet
<1>4. ToSet(list \o other) = ToSet(list) \union ToSet(other)
  <2>1. ToSet(list \o other) = Range(list \o other) /\ ToSet(list) = Range(list) /\ ToSet(other) = Range(other)
    BY DEF ToSet, Range
  <2> QED
    BY <2>1, RangeConcatenation
<1> QED
  BY <1>1, <1>3, <1>4

\* Places of a queue at which something waits: all but that of an operation that runs.
WaitsAt(q, step) == {i \in DOMAIN q : i > 1 \/ step = "start"}
ClearsDue(q, step) == {q[i].tab : i \in {j \in WaitsAt(q, step) : q[j].kind = "clearTab"}}

\* Entries that wait to be appended are different ones, of which none is there yet and
\* none was erased, and tabs whose history is to go are closed.
QueueRight(q, step, there, gone, used, open) ==
    /\ \A i \in WaitsAt(q, step) : q[i].kind = "append" =>
         q[i].entry.id \in used /\ q[i].entry.id \notin there /\ q[i].entry.id \notin gone
    /\ \A i, j \in WaitsAt(q, step) :
         i # j /\ q[i].kind = "append" /\ q[j].kind = "append" => q[i].entry.id # q[j].entry.id
    /\ \A i \in DOMAIN q : q[i].kind = "clearTab" => q[i].tab \notin open

\* Where what waits is once the head runs, or is over.
Shifts(q, step, r, next, d) ==
    /\ \A i \in DOMAIN r : i \in Nat /\ i + d \in DOMAIN q /\ r[i] = q[i + d]
    /\ \A i \in WaitsAt(r, next) : i + d \in WaitsAt(q, step) /\ i + d # 1
    /\ \A i \in WaitsAt(q, step) : i # 1 => i - d \in WaitsAt(r, next) /\ r[i - d] = q[i]

LEMMA QueueShifts ==
  ASSUME NEW q \in Seq(LogOp), q # <<>>, NEW step,
         NEW r, NEW next, (r = q /\ next # "start") \/ (r = Tail(q) /\ next = "start")
  PROVE  \E d \in {0, 1} : Shifts(q, step, r, next, d)
<1>1. Len(q) \in Nat /\ DOMAIN q = 1..Len(q) /\ Len(q) >= 1
  OBVIOUS
<1>2. \E d \in {0, 1} :
         /\ \A i \in DOMAIN r : i \in Nat /\ i + d \in DOMAIN q /\ r[i] = q[i + d]
         /\ \A i \in WaitsAt(r, next) : i + d \in WaitsAt(q, step) /\ i + d # 1
         /\ \A i \in WaitsAt(q, step) : i # 1 => i - d \in WaitsAt(r, next) /\ r[i - d] = q[i]
  <2>1. CASE r = q /\ next # "start"
    <3>1. \A i \in DOMAIN q : i \in Nat /\ i + 0 = i /\ i - 0 = i
      BY <1>1
    <3>2. /\ \A i \in WaitsAt(r, next) : i \in DOMAIN q /\ i \in WaitsAt(q, step) /\ i # 1
          /\ \A i \in WaitsAt(q, step) : i \in DOMAIN q /\ (i # 1 => i \in WaitsAt(r, next))
      <4>1. \A i \in DOMAIN q : i > 1 <=> i # 1
        BY <1>1
      <4>2. WaitsAt(r, next) = {i \in DOMAIN q : i # 1}
        BY <2>1, <4>1 DEF WaitsAt
      <4>3. \A i \in DOMAIN q : i # 1 => i \in WaitsAt(q, step)
        BY <4>1 DEF WaitsAt
      <4>4. \A i \in WaitsAt(q, step) : i \in DOMAIN q
        BY DEF WaitsAt
      <4> QED
        BY <4>2, <4>3, <4>4
    <3> QED
      BY <2>1, <3>1, <3>2
  <2>2. CASE r = Tail(q) /\ next = "start"
    <3>1. /\ DOMAIN r = 1..Len(q) - 1
          /\ \A i \in 1..Len(q) - 1 : r[i] = q[i + 1]
      <4>1. r \in Seq(LogOp) /\ Len(r) = Len(q) - 1
        BY <2>2
      <4> QED
        BY <1>1, <2>2, <4>1
    <3>2. /\ \A i \in DOMAIN r : i \in Nat /\ i + 1 \in DOMAIN q /\ r[i] = q[i + 1]
          /\ \A i \in WaitsAt(r, next) : i + 1 \in WaitsAt(q, step) /\ i + 1 # 1
          /\ \A i \in WaitsAt(q, step) : i # 1 => i - 1 \in WaitsAt(r, next) /\ r[i - 1] = q[i]
      BY <1>1, <2>2, <3>1 DEF WaitsAt
    <3> QED
      BY <3>2
  <2> QED
    BY <2>1, <2>2
<1> QED
  BY <1>2 DEF Shifts

-----------------------------------------------------------------------------
(* The invariant of the history.                                            *)

LogState == [live : BOOLEAN, list : Seq(AnEntry), restored : BOOLEAN,
             restoring : {"none", "queued", "done"}]
StoredState == [local : AStored, session : AStored, read : AStored]
LogTabsState == [open : SUBSET LogTab, leaving : SUBSET LogTab]
PastState == [safe : SUBSET AnEntry, gone : SUBSET LogEntry, used : SUBSET LogEntry,
              unfiltered : BOOLEAN, behind : BOOLEAN]

LogTypes ==
    /\ log \in LogState /\ mutations \in Seq(LogOp) /\ callers \in Seq(LogOp)
    /\ logStep \in {"start", "tabs", "local", "session"}
    /\ stored \in StoredState /\ tabsNow \in LogTabsState /\ logPast \in PastState

\* The ids in memory and in storage.
There == Ids(log.list) \union Ids(Held(stored.local)) \union Ids(Held(stored.session))
             \union Ids(Held(stored.read))
LogQueue == mutations \o callers

\* A restoration that is awaited is the last of the queue.
LastRestores(ops) == ops # <<>> /\ ops[Len(ops)].kind = "restore"
RestoreDue == log.restoring = "queued" => LastRestores(mutations)

LogQueueInv ==
    /\ QueueRight(LogQueue, logStep, There, logPast.gone, logPast.used, tabsNow.open)
    /\ log.restoring # "queued" => callers = <<>>
    /\ There \subseteq logPast.used /\ logPast.gone \subseteq logPast.used

\* How far the operation that runs has come.
StepInv ==
    /\ logStep # "start" => log.live /\ mutations # <<>>
    /\ logStep = "tabs" => /\ Head(mutations).kind = "restore"
                           /\ logPast.safe \subseteq ToSet(Held(stored.read))
                           /\ Ids(Held(stored.read)) \intersect logPast.gone = {}
                           /\ stored.read = Nothing => stored.local = Nothing /\ stored.session = Nothing
    /\ logStep \in {"local", "session"} =>
         log.restored /\ (Head(mutations).kind = "clear" => log.list = <<>>)
    /\ logStep = "session" => logPast.behind /\ stored.local = Saved(log.list)

\* What must be kept is kept, and what is gone stays gone.
KeptInv ==
    /\ logPast.safe \subseteq ToSet(Held(stored.local))
    /\ \A e \in logPast.safe : e.id \notin PingEntry /\ ~Gone(e)
    /\ log.live /\ log.restored => logPast.safe \subseteq ToSet(log.list)
GoneInv ==
    /\ stored.local = Nothing => logPast.gone = {}
    /\ logPast.gone \intersect (Ids(log.list) \union Ids(Held(stored.local))) = {}
CopiesInv ==
    log.live /\ log.restored /\ ~logPast.behind /\ logStep = "start" =>
        Held(stored.local) = Saved(log.list) /\ Held(stored.session) = Saved(log.list)
TabsInv ==
    /\ tabsNow.leaving \intersect tabsNow.open = {}
    /\ log.live /\ log.restored /\ ~logPast.unfiltered =>
         \A e \in ToSet(log.list) : Gone(e) => e.tab \in tabsNow.leaving \union ClearsDue(LogQueue, logStep)

LogInv ==
    /\ LogTypes /\ LogQueueInv /\ StepInv /\ KeptInv /\ GoneInv /\ CopiesInv /\ TabsInv
    /\ RestoreDue /\ (~log.live => log.list = <<>>)

\* It holds at the start.
LEMMA LogBegins == LogInit => LogInv
<1> SUFFICES ASSUME LogInit PROVE LogInv
  OBVIOUS
<1>1. /\ log = [live |-> TRUE, list |-> <<>>, restored |-> FALSE, restoring |-> "none"]
      /\ mutations = <<>> /\ callers = <<>> /\ logStep = "start"
      /\ stored = [local |-> Nothing, session |-> Nothing, read |-> <<>>]
      /\ tabsNow = [open |-> LogTab, leaving |-> {}]
      /\ logPast = [safe |-> {}, gone |-> {}, used |-> {}, unfiltered |-> FALSE, behind |-> FALSE]
  BY DEF LogInit, Asleep
<1>2. LogTypes
  BY <1>1 DEF LogTypes, LogState, StoredState, LogTabsState, PastState, AStored
<1>3. Held(stored.local) = <<>> /\ Held(stored.session) = <<>> /\ Held(stored.read) = <<>>
  BY <1>1 DEF Held
<1>4. There = {} /\ LogQueue = <<>>
  BY <1>1, <1>3 DEF There, Ids, ToSet, LogQueue
<1>5. LogQueueInv
  BY <1>1, <1>4 DEF LogQueueInv, QueueRight, WaitsAt
<1> QED
  BY <1>1, <1>2, <1>5 DEF LogInv, RestoreDue, StepInv, KeptInv, GoneInv, CopiesInv, TabsInv

\* The operation at the head, and what is behind it.
LEMMA HeadOfQueue ==
  ASSUME LogTypes, mutations # <<>>
  PROVE  /\ LogQueue \in Seq(LogOp) /\ LogQueue # <<>> /\ LogQueue[1] = Head(mutations)
         /\ Head(mutations) \in LogOp /\ Tail(mutations) \in Seq(LogOp)
         /\ Tail(LogQueue) = Tail(mutations) \o callers
<1>1. mutations \in Seq(LogOp) /\ callers \in Seq(LogOp) /\ Len(mutations) \in Nat /\ Len(mutations) >= 1
      /\ Len(callers) \in Nat
  BY DEF LogTypes
<1>2. /\ LogQueue \in Seq(LogOp) /\ Len(LogQueue) = Len(mutations) + Len(callers)
      /\ \A i \in 1..Len(mutations) + Len(callers) :
           LogQueue[i] = IF i <= Len(mutations) THEN mutations[i] ELSE callers[i - Len(mutations)]
  BY <1>1, ConcatProperties DEF LogQueue
<1>3. LogQueue # <<>> /\ LogQueue[1] = Head(mutations)
  BY <1>1, <1>2
<1>4. /\ Head(mutations) \in LogOp /\ Tail(mutations) \in Seq(LogOp)
      /\ Len(Tail(mutations)) = Len(mutations) - 1
      /\ \A i \in 1..Len(Tail(mutations)) : Tail(mutations)[i] = mutations[i + 1]
  BY <1>1, HeadTailProperties
<1>5. /\ Tail(LogQueue) \in Seq(LogOp) /\ Len(Tail(LogQueue)) = Len(LogQueue) - 1
      /\ \A i \in 1..Len(Tail(LogQueue)) : Tail(LogQueue)[i] = LogQueue[i + 1]
  BY <1>2, <1>3, HeadTailProperties
<1> DEFINE rest == Tail(mutations) \o callers
<1>6. /\ rest \in Seq(LogOp) /\ Len(rest) = Len(Tail(mutations)) + Len(callers)
      /\ \A i \in 1..Len(Tail(mutations)) + Len(callers) :
           rest[i] = IF i <= Len(Tail(mutations)) THEN Tail(mutations)[i]
                     ELSE callers[i - Len(Tail(mutations))]
  BY <1>1, <1>4, ConcatProperties
<1> HIDE DEF rest
<1>7. Len(Tail(LogQueue)) = Len(rest)
  BY <1>1, <1>2, <1>4, <1>5, <1>6
<1>8. ASSUME NEW i \in 1..Len(rest) PROVE Tail(LogQueue)[i] = rest[i]
  <2>1. i \in Nat /\ i + 1 \in 1..Len(mutations) + Len(callers)
    BY <1>1, <1>4, <1>6
  <2>2. Tail(LogQueue)[i] = LogQueue[i + 1]
    BY <1>5, <1>7
  <2>3. CASE i <= Len(mutations) - 1
    <3>1. LogQueue[i + 1] = mutations[i + 1]
      BY <1>1, <1>2, <2>1, <2>3
    <3>2. rest[i] = Tail(mutations)[i] /\ Tail(mutations)[i] = mutations[i + 1]
      BY <1>1, <1>4, <1>6, <2>1, <2>3
    <3> QED
      BY <2>2, <3>1, <3>2
  <2>4. CASE ~(i <= Len(mutations) - 1)
    <3>1. LogQueue[i + 1] = callers[i + 1 - Len(mutations)]
      BY <1>1, <1>2, <2>1, <2>4
    <3>2. rest[i] = callers[i - (Len(mutations) - 1)]
      BY <1>1, <1>4, <1>6, <2>1, <2>4
    <3>3. i + 1 - Len(mutations) = i - (Len(mutations) - 1)
      BY <1>1, <2>1
    <3> QED
      BY <2>2, <3>1, <3>2, <3>3
  <2> QED
    BY <2>3, <2>4
<1>9. Tail(LogQueue) = rest
  BY <1>5, <1>6, <1>7, <1>8, SeqEqual
<1> QED
  BY <1>2, <1>3, <1>4, <1>9 DEF rest

LEMMA RunKeepsQueue ==
  ASSUME LogInv, mutations # <<>>,
         \/ mutations' = mutations /\ callers' = callers /\ logStep' # "start"
         \/ mutations' \o callers' = Tail(mutations) \o callers /\ logStep' = "start",
         There' \subseteq There \union
             (IF logStep = "start" /\ Head(mutations).kind = "append"
              THEN {Head(mutations).entry.id} ELSE {}),
         logPast'.gone \subseteq logPast.gone \union There, logPast'.used = logPast.used,
         tabsNow' = tabsNow, log'.restoring # "queued" => callers' = <<>>
  PROVE  /\ LogQueueInv'
         /\ ClearsDue(LogQueue, logStep) \subseteq ClearsDue(LogQueue, logStep)' \union
               (IF logStep = "start" /\ Head(mutations).kind = "clearTab"
                THEN {Head(mutations).tab} ELSE {})
         /\ logStep = "start" /\ Head(mutations).kind = "append" =>
               Head(mutations).entry.id \notin logPast.gone
<1>1. /\ LogQueue \in Seq(LogOp) /\ LogQueue # <<>> /\ LogQueue[1] = Head(mutations)
      /\ Tail(LogQueue) = Tail(mutations) \o callers
  BY HeadOfQueue DEF LogInv
<1>2. /\ QueueRight(LogQueue, logStep, There, logPast.gone, logPast.used, tabsNow.open)
      /\ There \subseteq logPast.used /\ logPast.gone \subseteq logPast.used
  BY DEF LogInv, LogQueueInv
<1>3. (LogQueue' = LogQueue /\ logStep' # "start") \/ (LogQueue' = Tail(LogQueue) /\ logStep' = "start")
  BY <1>1 DEF LogQueue
<1>4. logStep = "start" /\ Head(mutations).kind = "append" =>
        Head(mutations).entry.id \in logPast.used \ logPast.gone
  <2>1. logStep = "start" => 1 \in WaitsAt(LogQueue, logStep)
    <3>1. 1 \in DOMAIN LogQueue
      BY <1>1
    <3> QED
      BY <3>1 DEF WaitsAt
  <2> QED
    BY <1>1, <1>2, <2>1 DEF QueueRight
<1>5. /\ QueueRight(LogQueue', logStep', There', logPast'.gone, logPast.used, tabsNow.open)
      /\ ClearsDue(LogQueue, logStep) \subseteq ClearsDue(LogQueue', logStep') \union
            (IF logStep = "start" /\ LogQueue[1].kind = "clearTab" THEN {LogQueue[1].tab} ELSE {})
  <2> DEFINE r == LogQueue'
             there2 == There'
             gone2 == logPast'.gone
             next == logStep'
  <2>1. (r = LogQueue /\ next # "start") \/ (r = Tail(LogQueue) /\ next = "start")
    BY <1>3
  <2>2. there2 \subseteq There \union
             (IF logStep = "start" /\ LogQueue[1].kind = "append" THEN {LogQueue[1].entry.id} ELSE {})
    BY <1>1
  <2>3. gone2 \subseteq logPast.gone \union There
    OBVIOUS
  <2> HIDE DEF r, there2, gone2, next
  <2>4. /\ QueueRight(r, next, there2, gone2, logPast.used, tabsNow.open)
        /\ ClearsDue(LogQueue, logStep) \subseteq ClearsDue(r, next) \union
              (IF logStep = "start" /\ LogQueue[1].kind = "clearTab" THEN {LogQueue[1].tab} ELSE {})
    <3> DEFINE q == LogQueue
               there == There
               gone == logPast.gone
               used == logPast.used
               open == tabsNow.open
               step == logStep
    <3>1. /\ q \in Seq(LogOp) /\ q # <<>> /\ QueueRight(q, step, there, gone, used, open)
          /\ (r = q /\ next # "start") \/ (r = Tail(q) /\ next = "start")
          /\ there2 \subseteq there \union
                (IF step = "start" /\ q[1].kind = "append" THEN {q[1].entry.id} ELSE {})
          /\ gone2 \subseteq gone \union there /\ open \subseteq open
      BY <1>1, <1>2, <2>1, <2>2, <2>3
    <3> HIDE DEF q, there, gone, used, open, step
    <3>2. /\ QueueRight(r, next, there2, gone2, used, open)
          /\ ClearsDue(q, step) \subseteq ClearsDue(r, next) \union
                (IF step = "start" /\ q[1].kind = "clearTab" THEN {q[1].tab} ELSE {})
      <4>1. /\ Len(q) \in Nat /\ DOMAIN q = 1..Len(q) /\ Len(q) >= 1
        BY <3>1
      <4>2. PICK d \in {0, 1} :
               /\ \A i \in DOMAIN r : i \in Nat /\ i + d \in DOMAIN q /\ r[i] = q[i + d]
               /\ \A i \in WaitsAt(r, next) : i + d \in WaitsAt(q, step) /\ i + d # 1
               /\ \A i \in WaitsAt(q, step) : i # 1 => i - d \in WaitsAt(r, next) /\ r[i - d] = q[i]
        <5>1. q \in Seq(LogOp) /\ q # <<>> /\ ((r = q /\ next # "start") \/ (r = Tail(q) /\ next = "start"))
          BY <3>1
        <5>2. \E d \in {0, 1} : Shifts(q, step, r, next, d)
          BY <5>1, QueueShifts
        <5> QED
          BY <5>2 DEF Shifts
      <4>3. \A i \in WaitsAt(r, next) : i \in DOMAIN r
        BY DEF WaitsAt
      <4>4. ASSUME NEW i \in WaitsAt(r, next), r[i].kind = "append"
            PROVE  r[i].entry.id \in used /\ r[i].entry.id \notin there2 /\ r[i].entry.id \notin gone2
        <5>1. i + d \in WaitsAt(q, step) /\ i + d # 1 /\ r[i] = q[i + d]
          BY <3>1, <4>2, <4>3
        <5>2. q[i + d].entry.id \in used /\ q[i + d].entry.id \notin there /\ q[i + d].entry.id \notin gone
          BY <3>1, <4>4, <5>1 DEF QueueRight
        <5>3. step = "start" /\ q[1].kind = "append" => q[1].entry.id # q[i + d].entry.id
          <6>1. step = "start" => 1 \in WaitsAt(q, step)
            BY <3>1, <4>1 DEF WaitsAt
          <6> QED
            BY <3>1, <4>4, <5>1, <6>1 DEF QueueRight
        <5> QED
          BY <3>1, <5>1, <5>2, <5>3
      <4>5. ASSUME NEW i \in WaitsAt(r, next), NEW j \in WaitsAt(r, next), i # j,
                   r[i].kind = "append", r[j].kind = "append"
            PROVE  r[i].entry.id # r[j].entry.id
        <5>1. i \in Nat /\ j \in Nat /\ r[i] = q[i + d] /\ r[j] = q[j + d]
          BY <4>2, <4>3
        <5>2. i + d # j + d
          BY <4>5, <5>1
        <5>3. i + d \in WaitsAt(q, step) /\ j + d \in WaitsAt(q, step)
          BY <4>2
        <5> DEFINE a == i + d
                   b == j + d
        <5> HIDE DEF a, b
        <5>4. a \in WaitsAt(q, step) /\ b \in WaitsAt(q, step) /\ a # b /\ r[i] = q[a] /\ r[j] = q[b]
          BY <5>1, <5>2, <5>3 DEF a, b
        <5> QED
          BY <3>1, <4>5, <5>4 DEF QueueRight
      <4>6. \A i \in DOMAIN r : r[i].kind = "clearTab" => r[i].tab \notin open
        BY <3>1, <4>2 DEF QueueRight
      <4>7. ASSUME NEW t \in ClearsDue(q, step), ~(step = "start" /\ q[1].kind = "clearTab" /\ t = q[1].tab)
            PROVE  t \in ClearsDue(r, next)
        <5>1. PICK i \in WaitsAt(q, step) : q[i].kind = "clearTab" /\ t = q[i].tab
          BY DEF ClearsDue
        <5>2. i # 1
          BY <3>1, <4>7, <5>1 DEF WaitsAt
        <5> QED
          BY <3>1, <4>2, <5>1, <5>2 DEF ClearsDue
      <4> QED
        BY <3>1, <4>4, <4>5, <4>6, <4>7 DEF QueueRight
    <3> QED
      BY <3>2 DEF q, there, gone, used, open, step
  <2> QED
    BY <2>4 DEF r, there2, gone2, next
<1>6. There' \subseteq logPast'.used /\ logPast'.gone \subseteq logPast'.used
  BY <1>2, <1>4
<1> QED
  BY <1>1, <1>4, <1>5, <1>6 DEF LogQueueInv

\* A restoration, or another operation, ends.
LEMMA RestoreEnds ==
  ASSUME LogInv, mutations # <<>>, NEW l \in LogState, NEW outcome \in {"none", "done"}, Settled(l, outcome)
  PROVE  /\ log' \in LogState /\ log'.live = l.live /\ log'.list = l.list /\ log'.restored = l.restored
         /\ mutations' \in Seq(LogOp) /\ callers' = <<>> /\ callers' \in Seq(LogOp) /\ logStep' = "start"
         /\ mutations' \o callers' = Tail(mutations) \o callers
<1>1. /\ log' = [l EXCEPT !.restoring = outcome] /\ mutations' = Tail(mutations) \o callers
      /\ callers' = <<>> /\ logStep' = "start"
  BY DEF Settled
<1>2. Tail(mutations) \in Seq(LogOp) /\ callers \in Seq(LogOp)
  BY HeadOfQueue DEF LogInv, LogTypes
<1>3. Tail(mutations) \o callers \in Seq(LogOp)
  BY <1>2
<1>4. mutations' \o callers' = mutations'
  BY <1>1, <1>3, ConcatEmptySeq
<1> QED
  BY <1>1, <1>3, <1>4 DEF LogState

LEMMA OpEnded ==
  ASSUME LogInv, mutations # <<>>, NEW kind, OpEnds(kind)
  PROVE  /\ log' \in LogState /\ log'.live = log.live /\ log'.list = log.list
         /\ log'.restored = log.restored
         /\ mutations' \in Seq(LogOp) /\ callers' \in Seq(LogOp) /\ logStep' = "start"
         /\ mutations' \o callers' = Tail(mutations) \o callers
         /\ log'.restoring # "queued" => callers' = <<>>
<1>1. log \in LogState
  BY DEF LogInv, LogTypes
<1>2. CASE kind = "restore"
  <2>1. Settled(log, "done")
    BY <1>2 DEF OpEnds
  <2> QED
    BY <1>1, <2>1, RestoreEnds
<1>3. CASE kind # "restore"
  <2>1. Finish /\ log' = log /\ callers' = callers
    BY <1>3 DEF OpEnds
  <2>2. Tail(mutations) \in Seq(LogOp) /\ callers \in Seq(LogOp)
    BY HeadOfQueue DEF LogInv, LogTypes
  <2> QED
    BY <1>1, <2>1, <2>2 DEF Finish, LogInv, LogQueueInv
<1> QED
  BY <1>2, <1>3

\* What a request changes.
LEMMA Requested ==
  ASSUME LogInv, NEW ask \in LogOp, Request(ask), logStep' = logStep, stored' = stored,
         logPast'.gone = logPast.gone, logPast.used \subseteq logPast'.used, tabsNow'.open = tabsNow.open,
         ask.kind = "append" => ask.entry.id \in logPast'.used \ logPast.used,
         ask.kind = "clearTab" => ask.tab \notin tabsNow.open
  PROVE  /\ log' \in LogState /\ log'.live = log.live /\ log'.list = log.list
         /\ log'.restored = log.restored
         /\ mutations' \in Seq(LogOp) /\ callers' \in Seq(LogOp)
         /\ mutations # <<>> => mutations' # <<>> /\ Head(mutations') = Head(mutations)
         /\ LogQueueInv'
         /\ ClearsDue(LogQueue, logStep) \subseteq ClearsDue(LogQueue, logStep)'
         /\ ask.kind = "clearTab" => ask.tab \in ClearsDue(LogQueue, logStep)'
<1>1. /\ log \in LogState /\ mutations \in Seq(LogOp) /\ callers \in Seq(LogOp)
      /\ log.restoring # "queued" => callers = <<>>
      /\ logStep # "start" => mutations # <<>>
      /\ There \subseteq logPast.used /\ logPast.gone \subseteq logPast.used
      /\ QueueRight(LogQueue, logStep, There, logPast.gone, logPast.used, tabsNow.open)
  BY DEF LogInv, LogTypes, LogQueueInv, StepInv
<1> DEFINE restore == [kind |-> "restore"]
<1>2. restore \in LogOp /\ restore.kind = "restore"
  BY DEF LogOp
<1>3. LogQueue \in Seq(LogOp) /\ (mutations # <<>> => LogQueue # <<>>)
  BY <1>1, ConcatProperties, ConcatEqualIffEmpty DEF LogQueue
<1>4. /\ log' \in LogState /\ log'.live = log.live /\ log'.list = log.list
      /\ log'.restored = log.restored
      /\ mutations' \in Seq(LogOp) /\ callers' \in Seq(LogOp)
      /\ mutations # <<>> => mutations' # <<>> /\ Head(mutations') = Head(mutations)
      /\ log'.restoring # "queued" => callers' = <<>>
      /\ \E k \in {1, 2} :
           /\ LogQueue' \in Seq(LogOp) /\ Len(LogQueue') = Len(LogQueue) + k
           /\ \A i \in 1..Len(LogQueue) : LogQueue'[i] = LogQueue[i]
           /\ LogQueue'[Len(LogQueue) + k] = ask
           /\ k = 2 => LogQueue'[Len(LogQueue) + 1].kind = "restore"
  <2>1. CASE log.restoring = "done"
    <3>1. Enters(log, mutations, callers, ask) =
            [log |-> log, ops |-> Append(mutations, ask), waiting |-> callers]
      BY <2>1 DEF Enters
    <3>2. log' = log /\ mutations' = Append(mutations, ask) /\ callers' = callers /\ callers = <<>>
      BY <1>1, <2>1, <3>1 DEF Request
    <3>3. mutations' \in Seq(LogOp)
      BY <1>1, <3>2
    <3>4. LogQueue' = Append(mutations, ask) /\ LogQueue = mutations
      BY <1>1, <3>2, <3>3, ConcatEmptySeq DEF LogQueue
    <3>5. mutations # <<>> => mutations' # <<>> /\ Head(mutations') = Head(mutations)
      BY <1>1, <3>2
    <3>6. /\ Len(Append(mutations, ask)) = Len(mutations) + 1
          /\ \A i \in 1..Len(mutations) : Append(mutations, ask)[i] = mutations[i]
          /\ Append(mutations, ask)[Len(mutations) + 1] = ask
      BY <1>1
    <3> QED
      BY <1>1, <3>2, <3>3, <3>4, <3>5, <3>6
  <2>2. CASE log.restoring = "queued"
    <3>1. Enters(log, mutations, callers, ask) =
            [log |-> log, ops |-> mutations, waiting |-> Append(callers, ask)]
      BY <2>2 DEF Enters
    <3>2. log' = log /\ mutations' = mutations /\ callers' = Append(callers, ask)
      BY <3>1 DEF Request
    <3>3. /\ mutations' \in Seq(LogOp) /\ callers' \in Seq(LogOp)
          /\ Len(callers') = Len(callers) + 1
          /\ callers'[Len(callers) + 1] = ask /\ \A i \in 1..Len(callers) : callers'[i] = callers[i]
      BY <1>1, <3>2
    <3>4. /\ Len(LogQueue) = Len(mutations) + Len(callers)
          /\ \A i \in 1..Len(mutations) + Len(callers) :
               LogQueue[i] = IF i <= Len(mutations) THEN mutations[i] ELSE callers[i - Len(mutations)]
      BY <1>1, ConcatProperties DEF LogQueue
    <3>5. /\ LogQueue' \in Seq(LogOp) /\ Len(LogQueue') = Len(mutations) + Len(callers')
          /\ \A i \in 1..Len(mutations) + Len(callers') :
               LogQueue'[i] = IF i <= Len(mutations) THEN mutations[i] ELSE callers'[i - Len(mutations)]
      <4> DEFINE c == callers'
      <4>1. c \in Seq(LogOp)
        BY <3>3
      <4> HIDE DEF c
      <4>2. /\ mutations \o c \in Seq(LogOp) /\ Len(mutations \o c) = Len(mutations) + Len(c)
            /\ \A i \in 1..Len(mutations) + Len(c) :
                 (mutations \o c)[i] = IF i <= Len(mutations) THEN mutations[i] ELSE c[i - Len(mutations)]
        BY <1>1, <4>1, ConcatProperties
      <4>3. LogQueue' = mutations \o c
        BY <3>2 DEF LogQueue, c
      <4> QED
        BY <4>2, <4>3 DEF c
    <3>6. Len(mutations) \in Nat /\ Len(callers) \in Nat
      BY <1>1
    <3>7. /\ Len(LogQueue') = Len(LogQueue) + 1
          /\ \A i \in 1..Len(LogQueue) : LogQueue'[i] = LogQueue[i]
          /\ LogQueue'[Len(LogQueue) + 1] = ask
      <4>1. Len(LogQueue') = Len(LogQueue) + 1
        BY <3>3, <3>4, <3>5, <3>6
      <4>2. ASSUME NEW i \in 1..Len(LogQueue) PROVE LogQueue'[i] = LogQueue[i]
        <5>1. CASE i <= Len(mutations)
          <6> DEFINE m == Len(mutations)
                     c == Len(callers)
          <6>1. m \in Nat /\ c \in Nat /\ i \in 1..m + c /\ Len(callers') = c + 1 /\ i <= m
            BY <3>3, <3>4, <3>6, <5>1
          <6>2. LogQueue[i] = mutations[i]
            BY <3>4, <3>6, <5>1
          <6> HIDE DEF m, c
          <6>3. i \in 1..m + (c + 1)
            BY <6>1
          <6>4. LogQueue'[i] = mutations[i]
            <7>1. m = Len(mutations)
              BY DEF m
            <7> QED
              BY <3>5, <6>1, <6>3, <7>1
          <6> QED
            BY <6>2, <6>4
        <5>2. CASE ~(i <= Len(mutations))
          <6>1. i - Len(mutations) \in 1..Len(callers)
            BY <3>4, <3>6, <5>2
          <6>2. LogQueue'[i] = callers'[i - Len(mutations)] /\ LogQueue[i] = callers[i - Len(mutations)]
            BY <3>3, <3>4, <3>5, <3>6, <5>2
          <6> QED
            BY <3>3, <6>1, <6>2
        <5> QED
          BY <5>1, <5>2
      <4>3. LogQueue'[Len(LogQueue) + 1] = ask
        <5> DEFINE m == Len(mutations)
                   c == Len(callers)
        <5>1. m \in Nat /\ c \in Nat /\ Len(LogQueue) = m + c /\ Len(callers') = c + 1
          BY <3>3, <3>4, <3>6
        <5> HIDE DEF m, c
        <5>2. m + c + 1 \in 1..m + (c + 1) /\ ~(m + c + 1 <= m) /\ m + c + 1 - m = c + 1
          BY <5>1
        <5>3. LogQueue'[m + c + 1] = callers'[m + c + 1 - m]
          <6>1. m = Len(mutations)
            BY DEF m
          <6> QED
            BY <3>5, <5>1, <5>2, <6>1
        <5>4. callers'[c + 1] = ask
          BY <3>3 DEF c
        <5> QED
          BY <5>1, <5>2, <5>3, <5>4
      <4> QED
        BY <4>1, <4>2, <4>3
    <3>8. \E k \in {1, 2} :
             /\ LogQueue' \in Seq(LogOp) /\ Len(LogQueue') = Len(LogQueue) + k
             /\ \A i \in 1..Len(LogQueue) : LogQueue'[i] = LogQueue[i]
             /\ LogQueue'[Len(LogQueue) + k] = ask
             /\ k = 2 => LogQueue'[Len(LogQueue) + 1].kind = "restore"
      <4>1. 1 \in {1, 2} /\ 1 # 2
        OBVIOUS
      <4> QED
        BY <3>5, <3>7, <4>1
    <3> QED
      BY <1>1, <2>2, <3>2, <3>3, <3>8
  <2>3. CASE log.restoring = "none"
    <3>1. Enters(log, mutations, callers, ask) =
            [log |-> [log EXCEPT !.restoring = "queued"],
             ops |-> Append(mutations, restore), waiting |-> Append(callers, ask)]
      BY <2>3 DEF Enters
    <3>2. /\ log' = [log EXCEPT !.restoring = "queued"] /\ mutations' = Append(mutations, restore)
          /\ callers' = <<ask>> /\ callers = <<>>
      BY <1>1, <2>3, <3>1 DEF Request
    <3>3. mutations' \in Seq(LogOp) /\ callers' \in Seq(LogOp) /\ Len(callers') = 1 /\ callers'[1] = ask
      BY <1>1, <1>2, <3>2
    <3>4. LogQueue = mutations
      BY <1>1, <3>2, ConcatEmptySeq DEF LogQueue
    <3>5. /\ Len(mutations') = Len(mutations) + 1
          /\ \A i \in 1..Len(mutations) : mutations'[i] = mutations[i]
          /\ mutations'[Len(mutations) + 1] = restore
      BY <1>1, <1>2, <3>2
    <3>6. /\ LogQueue' \in Seq(LogOp) /\ Len(LogQueue') = Len(mutations') + Len(callers')
          /\ \A i \in 1..Len(mutations') + Len(callers') :
               LogQueue'[i] = IF i <= Len(mutations') THEN mutations'[i] ELSE callers'[i - Len(mutations')]
      BY <1>1, <3>3, ConcatProperties DEF LogQueue
    <3>7. Len(mutations) \in Nat
      BY <1>1
    <3>8. /\ Len(LogQueue') = Len(LogQueue) + 2
          /\ \A i \in 1..Len(LogQueue) : LogQueue'[i] = LogQueue[i]
          /\ LogQueue'[Len(LogQueue) + 1] = restore
          /\ LogQueue'[Len(LogQueue) + 2] = ask
      BY <3>3, <3>4, <3>5, <3>6, <3>7
    <3>9. mutations # <<>> => mutations' # <<>> /\ Head(mutations') = Head(mutations)
      BY <1>1, <1>2, <3>2
    <3>10. /\ log' \in LogState /\ log'.live = log.live /\ log'.list = log.list
           /\ log'.restored = log.restored /\ log'.restoring = "queued"
      BY <1>1, <3>2 DEF LogState
    <3> HIDE DEF restore
    <3> QED
      BY <1>2, <3>3, <3>6, <3>8, <3>9, <3>10
  <2> QED
    BY <1>1, <2>1, <2>2, <2>3 DEF LogState
<1>5. There' = There
  BY <1>4 DEF There
<1>6. /\ QueueRight(LogQueue', logStep, There, logPast.gone, logPast'.used, tabsNow.open)
      /\ ClearsDue(LogQueue, logStep) \subseteq ClearsDue(LogQueue', logStep)
      /\ ask.kind = "clearTab" => ask.tab \in ClearsDue(LogQueue', logStep)
  <2> DEFINE r == LogQueue'
             used2 == logPast'.used
  <2>1. PICK k \in {1, 2} :
           /\ r \in Seq(LogOp) /\ Len(r) = Len(LogQueue) + k
           /\ \A i \in 1..Len(LogQueue) : r[i] = LogQueue[i]
           /\ r[Len(LogQueue) + k] = ask
           /\ k = 2 => r[Len(LogQueue) + 1].kind = "restore"
    BY <1>4
  <2>2. logPast.used \subseteq used2 /\ (ask.kind = "append" => ask.entry.id \in used2 \ logPast.used)
    OBVIOUS
  <2>3. logStep # "start" => LogQueue # <<>>
    BY <1>1, <1>3
  <2> HIDE DEF r, used2
  <2>4. /\ QueueRight(r, logStep, There, logPast.gone, used2, tabsNow.open)
        /\ ClearsDue(LogQueue, logStep) \subseteq ClearsDue(r, logStep)
        /\ ask.kind = "clearTab" => ask.tab \in ClearsDue(r, logStep)
    <3> DEFINE q == LogQueue
               there == There
               gone == logPast.gone
               used == logPast.used
               open == tabsNow.open
               step == logStep
    <3>1. /\ q \in Seq(LogOp) /\ QueueRight(q, step, there, gone, used, open)
          /\ r \in Seq(LogOp) /\ Len(r) = Len(q) + k /\ (\A i \in 1..Len(q) : r[i] = q[i])
          /\ r[Len(q) + k] = ask /\ (k = 2 => r[Len(q) + 1].kind = "restore")
          /\ (step # "start" => q # <<>>)
          /\ used \subseteq used2 /\ there \subseteq used /\ gone \subseteq used
          /\ (ask.kind = "append" => ask.entry.id \in used2 \ used)
          /\ (ask.kind = "clearTab" => ask.tab \notin open)
      BY <1>1, <1>3, <2>1, <2>2, <2>3
    <3> HIDE DEF q, there, gone, used, open, step
    <3>2. /\ QueueRight(r, step, there, gone, used2, open)
          /\ ClearsDue(q, step) \subseteq ClearsDue(r, step)
          /\ ask.kind = "clearTab" => ask.tab \in ClearsDue(r, step)
      <4>1. Len(q) \in Nat /\ DOMAIN q = 1..Len(q) /\ DOMAIN r = 1..Len(q) + k
        BY <3>1
      <4>2. \A i \in DOMAIN r : \/ i \in DOMAIN q /\ r[i] = q[i]
                                \/ i \notin DOMAIN q /\ r[i].kind = "restore"
                                \/ i = Len(q) + k /\ i \notin DOMAIN q /\ r[i] = ask
        BY <3>1, <4>1
      <4>3. \A i \in DOMAIN q : i \in WaitsAt(r, step) <=> i \in WaitsAt(q, step)
        BY <3>1, <4>1 DEF WaitsAt
      <4>4. Len(q) + k \in WaitsAt(r, step)
        <5>1. step # "start" => Len(q) >= 1
          BY <3>1, <4>1
        <5> QED
          BY <3>1, <4>1, <5>1 DEF WaitsAt
      <4>5. \A i \in WaitsAt(r, step) : i \in DOMAIN r
        BY <3>1 DEF WaitsAt
      <4>6. ASSUME NEW i \in WaitsAt(r, step), r[i].kind = "append"
            PROVE  \/ i \in WaitsAt(q, step) /\ r[i] = q[i] /\ q[i].entry.id \in used
                   \/ i = Len(q) + k /\ r[i] = ask /\ ask.kind = "append"
        BY <3>1, <4>2, <4>3, <4>5, <4>6 DEF QueueRight
      <4>7. \A i \in WaitsAt(r, step) : r[i].kind = "append" =>
              r[i].entry.id \in used2 /\ r[i].entry.id \notin there /\ r[i].entry.id \notin gone
        BY <3>1, <4>6 DEF QueueRight
      <4>8. ASSUME NEW i \in WaitsAt(r, step), NEW j \in WaitsAt(r, step), i # j,
                   r[i].kind = "append", r[j].kind = "append"
            PROVE  r[i].entry.id # r[j].entry.id
        BY <3>1, <4>6, <4>8 DEF QueueRight
      <4>9. \A i \in DOMAIN r : r[i].kind = "clearTab" => r[i].tab \notin open
        BY <3>1, <4>2 DEF QueueRight
      <4>10. ClearsDue(q, step) \subseteq ClearsDue(r, step)
        <5>1. \A i \in WaitsAt(q, step) : i \in WaitsAt(r, step) /\ r[i] = q[i]
          BY <3>1, <4>1, <4>3 DEF WaitsAt
        <5> QED
          BY <3>1, <5>1 DEF ClearsDue
      <4>11. ask.kind = "clearTab" => ask.tab \in ClearsDue(r, step)
        BY <3>1, <4>4 DEF ClearsDue
      <4> QED
        BY <3>1, <4>7, <4>8, <4>9, <4>10, <4>11 DEF QueueRight
    <3> QED
      BY <3>2 DEF q, there, gone, used, open, step
  <2> QED
    BY <2>4 DEF r, used2
<1> QED
  BY <1>1, <1>4, <1>5, <1>6 DEF LogQueueInv

\* A restoration that is awaited stays the last of the queue.
LEMMA RequestDue ==
  ASSUME LogInv, NEW ask \in LogOp, Request(ask)
  PROVE  RestoreDue'
<1>1. log \in LogState /\ mutations \in Seq(LogOp) /\ RestoreDue
  BY DEF LogInv, LogTypes
<1> DEFINE restore == [kind |-> "restore"]
<1>2. CASE log.restoring = "done"
  BY <1>1, <1>2 DEF Request, Enters, RestoreDue
<1>3. CASE log.restoring = "queued"
  <2>1. log' = log /\ mutations' = mutations
    BY <1>3 DEF Request, Enters
  <2> QED
    BY <1>1, <2>1 DEF RestoreDue
<1>4. CASE log.restoring = "none"
  <2>1. mutations' = Append(mutations, restore)
    BY <1>4 DEF Request, Enters
  <2>2. restore \in LogOp /\ restore.kind = "restore"
    BY DEF LogOp
  <2> HIDE DEF restore
  <2>3. Append(mutations, restore) # <<>>
        /\ Append(mutations, restore)[Len(Append(mutations, restore))] = restore
    BY <1>1, <2>2
  <2> QED
    BY <2>1, <2>2, <2>3 DEF RestoreDue, LastRestores
<1> QED
  BY <1>1, <1>2, <1>3, <1>4 DEF LogState

LEMMA FinishDue ==
  ASSUME LogInv, mutations # <<>>, Head(mutations).kind # "restore", Finish,
         log'.restoring = log.restoring
  PROVE  RestoreDue'
<1> SUFFICES ASSUME log'.restoring = "queued" PROVE LastRestores(mutations')
  BY DEF RestoreDue
<1>1. mutations \in Seq(LogOp) /\ mutations[Len(mutations)].kind = "restore"
  BY DEF LogInv, LogTypes, RestoreDue, LastRestores
<1>2. Len(mutations) \in Nat /\ Len(mutations) >= 1 /\ Len(mutations) # 1
  BY <1>1
<1>3. /\ Tail(mutations) \in Seq(LogOp) /\ Len(Tail(mutations)) = Len(mutations) - 1
      /\ \A i \in 1..Len(Tail(mutations)) : Tail(mutations)[i] = mutations[i + 1]
  BY <1>1, HeadTailProperties
<1>4. Len(Tail(mutations)) \in 1..Len(Tail(mutations)) /\ Len(Tail(mutations)) + 1 = Len(mutations)
  BY <1>2, <1>3
<1>5. Tail(mutations)[Len(Tail(mutations))].kind = "restore"
  <2> DEFINE n == Len(Tail(mutations))
  <2>1. n \in 1..n /\ n + 1 = Len(mutations) /\ \A i \in 1..n : Tail(mutations)[i] = mutations[i + 1]
    BY <1>3, <1>4
  <2> HIDE DEF n
  <2>2. Tail(mutations)[n] = mutations[Len(mutations)]
    BY <2>1
  <2> QED
    BY <1>1, <2>2 DEF n
<1>6. Tail(mutations) # <<>>
  <2>1. Len(Tail(mutations)) # 0
    BY <1>2, <1>3
  <2> QED
    BY <2>1, EmptySeq
<1> QED
  BY <1>5, <1>6 DEF Finish, LastRestores

LEMMA OpEndDue ==
  ASSUME LogInv, mutations # <<>>, NEW kind, Head(mutations).kind = kind, OpEnds(kind)
  PROVE  RestoreDue'
<1>1. CASE kind = "restore"
  <2>1. log' = [log EXCEPT !.restoring = "done"] /\ log \in LogState
    BY <1>1 DEF OpEnds, Settled, LogInv, LogTypes
  <2> QED
    BY <2>1 DEF RestoreDue, LogState
<1>2. CASE kind # "restore"
  BY <1>2, FinishDue DEF OpEnds
<1> QED
  BY <1>1, <1>2

-----------------------------------------------------------------------------
(* Calls keep it.                                                           *)

LEMMA RequestKeeps ==
  ASSUME LogInv, NEW ask \in LogOp, log.live, Request(ask), logStep' = logStep, stored' = stored,
         logPast' \in PastState, logPast'.safe = logPast.safe, logPast'.gone = logPast.gone,
         logPast'.unfiltered = logPast.unfiltered, logPast'.behind = logPast.behind,
         logPast.used \subseteq logPast'.used,
         tabsNow' \in LogTabsState, tabsNow'.open = tabsNow.open,
         tabsNow'.leaving \subseteq tabsNow.leaving,
         tabsNow.leaving \subseteq
            tabsNow'.leaving \union (IF ask.kind = "clearTab" THEN {ask.tab} ELSE {}),
         ask.kind = "append" => ask.entry.id \in logPast'.used \ logPast.used,
         ask.kind = "clearTab" => ask.tab \notin tabsNow.open
  PROVE  LogInv'
<1>1. /\ LogTypes /\ StepInv /\ KeptInv /\ GoneInv /\ CopiesInv /\ TabsInv
  BY DEF LogInv
<1>2. /\ log' \in LogState /\ log'.live = log.live /\ log'.list = log.list
      /\ log'.restored = log.restored
      /\ mutations' \in Seq(LogOp) /\ callers' \in Seq(LogOp)
      /\ mutations # <<>> => mutations' # <<>> /\ Head(mutations') = Head(mutations)
      /\ LogQueueInv'
      /\ ClearsDue(LogQueue, logStep) \subseteq ClearsDue(LogQueue, logStep)'
      /\ ask.kind = "clearTab" => ask.tab \in ClearsDue(LogQueue, logStep)'
  BY Requested
<1>3. RestoreDue'
  BY RequestDue
<1>4. LogTypes'
  BY <1>1, <1>2 DEF LogTypes
<1>5. StepInv'
  BY <1>1, <1>2 DEF StepInv
<1>6. ASSUME NEW e PROVE Gone(e)' <=> Gone(e)
  BY DEF Gone
<1>7. KeptInv' /\ GoneInv'
  BY <1>1, <1>2, <1>6 DEF KeptInv, GoneInv
<1>8. CopiesInv'
  BY <1>1, <1>2 DEF CopiesInv
<1>9. TabsInv'
  <2>1. tabsNow'.leaving \intersect tabsNow'.open = {}
    BY <1>1 DEF TabsInv
  <2>2. ASSUME log.restored, ~logPast.unfiltered, NEW e \in ToSet(log.list), Gone(e)
        PROVE  e.tab \in tabsNow'.leaving \union ClearsDue(LogQueue, logStep)'
    <3>1. e.tab \in tabsNow.leaving \union ClearsDue(LogQueue, logStep)
      BY <1>1, <2>2 DEF TabsInv
    <3> QED
      BY <1>2, <3>1
  <2> QED
    BY <1>2, <1>6, <2>1, <2>2 DEF TabsInv
<1> QED
  BY <1>2, <1>3, <1>4, <1>5, <1>7, <1>8, <1>9 DEF LogInv

LEMMA LogKeeps ==
  ASSUME LogInv, NEW id \in LogEntry, NEW t \in LogTab \union {NoLogTab}, Log(id, t)
  PROVE  LogInv'
<1> DEFINE entry == [id |-> id, tab |-> t]
           ask == [kind |-> "append", entry |-> entry]
<1>1. ask \in LogOp /\ ask.kind = "append" /\ ask.entry.id = id
  BY DEF LogOp, AnEntry
<1>2. logPast \in PastState /\ tabsNow \in LogTabsState
  BY DEF LogInv, LogTypes
<1>3. /\ log.live /\ id \notin logPast.used /\ Request(ask) /\ logStep' = logStep /\ stored' = stored
      /\ tabsNow' = tabsNow /\ logPast' = [logPast EXCEPT !.used = @ \union {id}]
  BY DEF Log
<1>4. /\ logPast' \in PastState /\ logPast'.safe = logPast.safe /\ logPast'.gone = logPast.gone
      /\ logPast'.unfiltered = logPast.unfiltered /\ logPast'.behind = logPast.behind
      /\ logPast'.used = logPast.used \union {id}
  BY <1>2, <1>3 DEF PastState
<1> HIDE DEF ask
<1> QED
  BY <1>1, <1>2, <1>3, <1>4, RequestKeeps

LEMMA TabRemovedKeeps ==
  ASSUME LogInv, NEW t \in LogTab, TabRemoved(t)
  PROVE  LogInv'
<1> DEFINE ask == [kind |-> "clearTab", tab |-> t]
<1>1. ask \in LogOp /\ ask.kind = "clearTab" /\ ask.tab = t
  BY DEF LogOp
<1>2. logPast \in PastState /\ tabsNow \in LogTabsState /\ tabsNow.leaving \intersect tabsNow.open = {}
  BY DEF LogInv, LogTypes, TabsInv
<1>3. /\ log.live /\ t \in tabsNow.leaving /\ Request(ask) /\ logStep' = logStep /\ stored' = stored
      /\ logPast' = logPast /\ tabsNow' = [tabsNow EXCEPT !.leaving = @ \ {t}]
  BY DEF TabRemoved
<1>4. /\ tabsNow' \in LogTabsState /\ tabsNow'.open = tabsNow.open
      /\ tabsNow'.leaving = tabsNow.leaving \ {t}
  BY <1>2, <1>3 DEF LogTabsState
<1> HIDE DEF ask
<1> QED
  BY <1>1, <1>2, <1>3, <1>4, RequestKeeps

LEMMA TabClosesKeeps ==
  ASSUME LogInv, NEW t \in LogTab, TabCloses(t)
  PROVE  LogInv'
<1>1. /\ LogTypes /\ LogQueueInv /\ StepInv /\ KeptInv /\ GoneInv /\ CopiesInv /\ TabsInv
      /\ RestoreDue /\ (~log.live => log.list = <<>>)
  BY DEF LogInv
<1>2. /\ log' = log /\ mutations' = mutations /\ callers' = callers /\ logStep' = logStep
      /\ stored' = stored
      /\ tabsNow' = [open |-> tabsNow.open \ {t}, leaving |-> tabsNow.leaving \union {t}]
      /\ logPast' = [logPast EXCEPT !.safe = {e \in @ : e.tab # t}]
  BY DEF TabCloses
<1>3. /\ logPast' \in PastState /\ logPast'.safe = {e \in logPast.safe : e.tab # t}
      /\ logPast'.gone = logPast.gone /\ logPast'.used = logPast.used
      /\ logPast'.unfiltered = logPast.unfiltered /\ logPast'.behind = logPast.behind
  <2>1. logPast \in PastState
    BY <1>1 DEF LogTypes
  <2> QED
    BY <1>2, <2>1 DEF PastState
<1>4. /\ tabsNow' \in LogTabsState /\ tabsNow'.open = tabsNow.open \ {t}
      /\ tabsNow'.leaving = tabsNow.leaving \union {t}
  BY <1>1, <1>2 DEF LogTypes, LogTabsState
<1>5. LogTypes'
  BY <1>1, <1>2, <1>3, <1>4 DEF LogTypes
<1>6. There' = There /\ LogQueue' = LogQueue
  BY <1>2 DEF There, LogQueue
<1>7. LogQueueInv'
  BY <1>1, <1>2, <1>3, <1>4, <1>6 DEF LogQueueInv, QueueRight
<1>8. StepInv' /\ GoneInv' /\ CopiesInv' /\ RestoreDue'
  BY <1>1, <1>2, <1>3 DEF StepInv, GoneInv, CopiesInv, RestoreDue
<1>9. ASSUME NEW e PROVE Gone(e)' <=> Gone(e) \/ e.tab = t
  BY <1>4 DEF Gone
<1>10. KeptInv'
  BY <1>1, <1>2, <1>3, <1>9 DEF KeptInv
<1>11. TabsInv'
  BY <1>1, <1>2, <1>3, <1>4, <1>6, <1>9 DEF TabsInv
<1> QED
  BY <1>1, <1>2, <1>5, <1>7, <1>8, <1>10, <1>11 DEF LogInv

LEMMA WorkerStopsKeeps ==
  ASSUME LogInv, NEW update \in BOOLEAN, WorkerStops(update)
  PROVE  LogInv'
<1>1. /\ LogTypes /\ LogQueueInv /\ KeptInv /\ GoneInv /\ TabsInv
  BY DEF LogInv
<1> DEFINE s == IF update THEN Nothing ELSE stored.session
<1>2. /\ log' = [live |-> FALSE, list |-> <<>>, restored |-> FALSE, restoring |-> "none"]
      /\ mutations' = <<>> /\ callers' = <<>> /\ logStep' = "start" /\ logPast' = logPast
      /\ tabsNow' = IF update THEN [tabsNow EXCEPT !.leaving = {}] ELSE tabsNow
      /\ stored' = [stored EXCEPT !.read = <<>>, !.session = s]
  BY DEF WorkerStops, Asleep
<1>3. stored \in StoredState /\ s \in AStored /\ <<>> \in AStored /\ tabsNow \in LogTabsState
  BY <1>1 DEF LogTypes, StoredState, AStored
<1>4. /\ stored' \in StoredState /\ stored'.local = stored.local /\ stored'.read = <<>>
      /\ stored'.session = s
  <2> HIDE DEF s
  <2> QED
    BY <1>2, <1>3 DEF StoredState
<1>5. /\ tabsNow' \in LogTabsState /\ tabsNow'.open = tabsNow.open
      /\ tabsNow'.leaving \subseteq tabsNow.leaving
  BY <1>2, <1>3 DEF LogTabsState
<1>6. LogTypes'
  BY <1>1, <1>2, <1>4, <1>5 DEF LogTypes, LogState
<1>7. Ids(Held(Nothing)) = {} /\ Ids(Held(<<>>)) = {} /\ Ids(<<>>) = {}
  BY DEF Held, Ids, ToSet
<1>8. There' \subseteq There
  BY <1>2, <1>4, <1>7 DEF There
<1>9. LogQueue' = <<>>
  BY <1>2 DEF LogQueue
<1>10. LogQueueInv'
  BY <1>1, <1>2, <1>8, <1>9 DEF LogQueueInv, QueueRight, WaitsAt
<1>11. ASSUME NEW e PROVE Gone(e)' <=> Gone(e)
  BY <1>5 DEF Gone
<1>12. KeptInv' /\ GoneInv'
  BY <1>1, <1>2, <1>4, <1>7, <1>11 DEF KeptInv, GoneInv
<1>13. TabsInv' /\ StepInv' /\ CopiesInv' /\ RestoreDue'
  BY <1>1, <1>2, <1>5 DEF TabsInv, StepInv, CopiesInv, RestoreDue
<1> QED
  BY <1>2, <1>6, <1>10, <1>12, <1>13 DEF LogInv

LEMMA WorkerStartsKeeps ==
  ASSUME LogInv, NEW startup \in BOOLEAN, WorkerStarts(startup)
  PROVE  LogInv'
<1>1. /\ LogTypes /\ LogQueueInv /\ KeptInv /\ GoneInv /\ TabsInv /\ (~log.live => log.list = <<>>)
  BY DEF LogInv
<1>2. /\ ~log.live
      /\ log' = [live |-> TRUE, list |-> <<>>, restored |-> FALSE, restoring |-> "queued"]
      /\ mutations' = <<[kind |-> "restore"]>> /\ logStep' = "start"
      /\ callers' = IF startup THEN <<[kind |-> "clear"]>> ELSE <<>>
  BY DEF WorkerStarts, Asleep
<1>3. /\ startup => /\ stored' = [stored EXCEPT !.session = Nothing]
                    /\ tabsNow' = [open |-> LogTab, leaving |-> {}]
                    /\ logPast' = [logPast EXCEPT !.safe = {}]
      /\ ~startup => stored' = stored /\ tabsNow' = tabsNow /\ logPast' = logPast
  BY DEF WorkerStarts
<1>4. /\ stored \in StoredState /\ Nothing \in AStored /\ tabsNow \in LogTabsState
      /\ logPast \in PastState
  BY <1>1 DEF LogTypes, AStored
<1>5. /\ stored' \in StoredState /\ stored'.local = stored.local /\ stored'.read = stored.read
      /\ stored'.session = stored.session \/ stored'.session = Nothing
  BY <1>3, <1>4 DEF StoredState
<1>6. /\ tabsNow' \in LogTabsState /\ tabsNow'.leaving \intersect tabsNow'.open = {}
      /\ ~startup => tabsNow'.open = tabsNow.open
  BY <1>1, <1>3, <1>4 DEF LogTabsState, TabsInv
<1>7. /\ logPast' \in PastState /\ logPast'.gone = logPast.gone /\ logPast'.used = logPast.used
      /\ IF startup THEN logPast'.safe = {} ELSE logPast'.safe = logPast.safe
  BY <1>3, <1>4 DEF PastState
<1> DEFINE restore == [kind |-> "restore"]
           clear == [kind |-> "clear"]
<1>8. restore \in LogOp /\ clear \in LogOp /\ restore.kind = "restore" /\ clear.kind = "clear"
  BY DEF LogOp
<1>9. mutations' = <<restore>> /\ callers' = IF startup THEN <<clear>> ELSE <<>>
  BY <1>2
<1> HIDE DEF restore, clear
<1>10. mutations' \in Seq(LogOp) /\ callers' \in Seq(LogOp)
  BY <1>8, <1>9
<1>11. \A i \in DOMAIN LogQueue' : LogQueue'[i].kind \in {"restore", "clear"}
  <2> DEFINE c == callers'
  <2>1. c \in Seq(LogOp) /\ <<restore>> \in Seq(LogOp)
    BY <1>8, <1>10
  <2>2. Range(<<restore>>) = {restore} /\ Range(c) \subseteq {clear}
    BY <1>8, <1>9 DEF Range
  <2>3. LogQueue' = <<restore>> \o c
    BY <1>9 DEF LogQueue
  <2> HIDE DEF c
  <2>4. Range(<<restore>> \o c) = Range(<<restore>>) \union Range(c)
    BY <2>1, RangeConcatenation
  <2>5. \A i \in DOMAIN (<<restore>> \o c) : (<<restore>> \o c)[i] \in {restore, clear}
    BY <2>2, <2>4 DEF Range
  <2> QED
    BY <1>8, <2>3, <2>5
<1>12. LogTypes'
  BY <1>1, <1>2, <1>5, <1>6, <1>7, <1>10 DEF LogTypes, LogState
<1>13. Ids(Held(Nothing)) = {} /\ Ids(<<>>) = {}
  BY DEF Held, Ids, ToSet
<1>14. There' \subseteq There
  BY <1>1, <1>2, <1>5, <1>13 DEF There
<1>15. \A q, step : \A i \in WaitsAt(q, step) : i \in DOMAIN q
  BY DEF WaitsAt
<1>16. LogQueueInv'
  <2>1. QueueRight(LogQueue, logStep, There, logPast.gone, logPast.used, tabsNow.open)'
    BY <1>11, <1>15 DEF QueueRight
  <2> QED
    BY <1>1, <1>2, <1>7, <1>14, <2>1 DEF LogQueueInv
<1>17. ASSUME NEW e, ~startup PROVE Gone(e)' <=> Gone(e)
  BY <1>6, <1>17 DEF Gone
<1>18. KeptInv'
  BY <1>1, <1>2, <1>5, <1>7, <1>17 DEF KeptInv
<1>19. GoneInv'
  BY <1>1, <1>2, <1>5, <1>7, <1>13 DEF GoneInv
<1>20. TabsInv' /\ StepInv' /\ CopiesInv'
  BY <1>2, <1>6 DEF TabsInv, StepInv, CopiesInv
<1>21. RestoreDue'
  BY <1>8, <1>9 DEF RestoreDue, LastRestores
<1> QED
  BY <1>2, <1>12, <1>16, <1>18, <1>19, <1>20, <1>21 DEF LogInv

-----------------------------------------------------------------------------
(* The operation that runs keeps it.                                        *)

LEMMA RestoreReadsKeeps ==
  ASSUME LogInv, RestoreReads
  PROVE  LogInv'
<1>1. /\ LogTypes /\ LogQueueInv /\ StepInv /\ KeptInv /\ GoneInv /\ TabsInv /\ RestoreDue
      /\ (~log.live => log.list = <<>>)
  BY DEF LogInv
<1> DEFINE r == IF stored.local # Nothing THEN stored.local ELSE stored.session
<1>2. /\ log.live /\ mutations # <<>> /\ Head(mutations).kind = "restore" /\ logStep = "start"
      /\ logStep' = "tabs" /\ stored' = [stored EXCEPT !.read = r]
      /\ log' = log /\ mutations' = mutations /\ callers' = callers /\ tabsNow' = tabsNow
      /\ logPast' = logPast
  BY DEF RestoreReads, Runs
<1>3. /\ stored' \in StoredState /\ stored'.local = stored.local /\ stored'.session = stored.session
      /\ stored'.read = r
  <2>1. stored \in StoredState /\ r \in AStored
    BY <1>1 DEF LogTypes, StoredState
  <2> HIDE DEF r
  <2> QED
    BY <1>2, <2>1 DEF StoredState
<1>4. LogTypes'
  BY <1>1, <1>2, <1>3 DEF LogTypes
<1>5. There' \subseteq There
  BY <1>2, <1>3 DEF There
<1>6. LogQueueInv' /\ ClearsDue(LogQueue, logStep) \subseteq ClearsDue(LogQueue, logStep)'
  <2>1. log'.restoring # "queued" => callers' = <<>>
    BY <1>1, <1>2 DEF LogQueueInv
  <2> QED
    BY <1>2, <1>5, <2>1, RunKeepsQueue
<1>7. ToSet(Held(Nothing)) = {} /\ Ids(Held(Nothing)) = {}
  BY DEF Held, Ids, ToSet
<1>8. StepInv'
  <2>1. logPast.safe \subseteq ToSet(Held(stored.local)) /\ Ids(Held(stored.local)) \intersect logPast.gone = {}
        /\ (stored.local = Nothing => logPast.gone = {})
    BY <1>1 DEF KeptInv, GoneInv
  <2>2. logPast.safe \subseteq ToSet(Held(r)) /\ Ids(Held(r)) \intersect logPast.gone = {}
    BY <1>7, <2>1
  <2> QED
    BY <1>2, <1>3, <2>2 DEF StepInv
<1>9. ASSUME NEW e PROVE Gone(e)' <=> Gone(e)
  BY <1>2 DEF Gone
<1>10. KeptInv' /\ GoneInv' /\ RestoreDue'
  BY <1>1, <1>2, <1>3, <1>9 DEF KeptInv, GoneInv, RestoreDue
<1>11. CopiesInv'
  BY <1>2 DEF CopiesInv
<1>12. TabsInv'
  BY <1>1, <1>2, <1>6, <1>9 DEF TabsInv
<1> QED
  BY <1>1, <1>2, <1>4, <1>6, <1>8, <1>10, <1>11, <1>12 DEF LogInv

LEMMA RestoreCannotReadKeeps ==
  ASSUME LogInv, RestoreCannotRead
  PROVE  LogInv'
<1>1. /\ LogTypes /\ LogQueueInv /\ StepInv /\ KeptInv /\ GoneInv /\ CopiesInv /\ TabsInv
      /\ log \in LogState
  BY DEF LogInv, LogTypes
<1>2. /\ log.live /\ mutations # <<>> /\ Head(mutations).kind = "restore" /\ logStep = "start"
      /\ Settled(log, "none") /\ stored' = stored /\ tabsNow' = tabsNow /\ logPast' = logPast
  BY DEF RestoreCannotRead, Runs
<1>3. /\ log' \in LogState /\ log'.live = log.live /\ log'.list = log.list /\ log'.restored = log.restored
      /\ mutations' \in Seq(LogOp) /\ callers' = <<>> /\ callers' \in Seq(LogOp) /\ logStep' = "start"
      /\ mutations' \o callers' = Tail(mutations) \o callers
  BY <1>1, <1>2, RestoreEnds
<1>4. LogTypes'
  BY <1>1, <1>2, <1>3 DEF LogTypes
<1>5. There' = There
  BY <1>2, <1>3 DEF There
<1>6. LogQueueInv' /\ ClearsDue(LogQueue, logStep) \subseteq ClearsDue(LogQueue, logStep)'
  BY <1>2, <1>3, <1>5, RunKeepsQueue
<1>7. ASSUME NEW e PROVE Gone(e)' <=> Gone(e)
  BY <1>2 DEF Gone
<1>8. StepInv' /\ KeptInv' /\ GoneInv' /\ CopiesInv'
  BY <1>1, <1>2, <1>3, <1>7 DEF StepInv, KeptInv, GoneInv, CopiesInv
<1>9. TabsInv'
  BY <1>1, <1>2, <1>3, <1>6, <1>7 DEF TabsInv
<1>10. RestoreDue'
  BY <1>1, <1>2 DEF RestoreDue, Settled, LogState
<1> QED
  BY <1>2, <1>3, <1>4, <1>6, <1>8, <1>9, <1>10 DEF LogInv

LEMMA RestoreMergesKeeps ==
  ASSUME LogInv, NEW known \in BOOLEAN, RestoreMerges(known)
  PROVE  LogInv'
<1>1. /\ LogTypes /\ LogQueueInv /\ StepInv /\ KeptInv /\ GoneInv /\ TabsInv /\ RestoreDue
      /\ log \in LogState /\ stored \in StoredState /\ logPast \in PastState
  BY DEF LogInv, LogTypes
<1> DEFINE read == Saved(Held(stored.read))
           joined == read \o log.list
           bounded == BoundHistory(joined)
           merged == Picked(bounded, {i \in DOMAIN bounded : ~known \/ ~Gone(bounded[i])})
           l == [log EXCEPT !.list = merged, !.restored = TRUE]
<1>2. /\ log.live /\ mutations # <<>> /\ Head(mutations).kind = "restore" /\ logStep = "tabs"
      /\ logPast' = [Bounded(joined) EXCEPT !.unfiltered = @ \/ ~known]
      /\ stored' = [stored EXCEPT !.read = <<>>] /\ tabsNow' = tabsNow
      /\ IF stored.read # Nothing \/ merged # <<>>
         THEN log' = l /\ logStep' = "local" /\ mutations' = mutations /\ callers' = callers
         ELSE Settled(l, "done")
  BY DEF RestoreMerges, Runs
<1>3. read \in Seq(AnEntry) /\ ToSet(read) = {e \in ToSet(Held(stored.read)) : e.id \notin PingEntry}
  <2>1. Held(stored.read) \in Seq(AnEntry)
    BY <1>1, HeldFits DEF StoredState
  <2> QED
    BY <2>1, SavedHas
<1>4. log.list \in Seq(AnEntry)
  BY <1>1 DEF LogState
<1>5. joined \in Seq(AnEntry) /\ ToSet(joined) = ToSet(read) \union ToSet(log.list)
  <2> HIDE DEF read
  <2>1. joined \in Seq(AnEntry)
    BY <1>3, <1>4
  <2>2. ToSet(joined) = Range(joined) /\ ToSet(read) = Range(read) /\ ToSet(log.list) = Range(log.list)
    BY DEF ToSet, Range
  <2> QED
    BY <1>3, <1>4, <2>1, <2>2, RangeConcatenation
<1>6. bounded \in Seq(AnEntry) /\ ToSet(bounded) \subseteq ToSet(joined)
  <2> HIDE DEF joined
  <2> QED
    BY <1>5, BoundHas
<1>7. merged \in Seq(AnEntry) /\ ToSet(merged) = {e \in ToSet(bounded) : ~known \/ ~Gone(e)}
  <2> DEFINE kept == {i \in DOMAIN bounded : ~known \/ ~Gone(bounded[i])}
  <2> HIDE DEF bounded
  <2>1. kept \in SUBSET DOMAIN bounded
    OBVIOUS
  <2>2. Picked(bounded, kept) \in Seq(AnEntry) /\ ToSet(Picked(bounded, kept)) = {bounded[i] : i \in kept}
    <3> HIDE DEF kept
    <3> QED
      BY <1>6, <2>1, PickedHas
  <2> QED
    BY <2>2 DEF ToSet
<1>8. /\ logPast' \in PastState
      /\ logPast'.safe = logPast.safe \ (ToSet(joined) \ ToSet(bounded))
      /\ logPast'.gone = logPast.gone /\ logPast'.used = logPast.used
      /\ logPast'.unfiltered = (logPast.unfiltered \/ ~known) /\ logPast'.behind = logPast.behind
  <2> DEFINE past == Bounded(joined)
  <2>1. /\ past \in PastState /\ past.safe = logPast.safe \ (ToSet(joined) \ ToSet(bounded))
        /\ past.gone = logPast.gone /\ past.used = logPast.used
        /\ past.unfiltered = logPast.unfiltered /\ past.behind = logPast.behind
    <3> HIDE DEF joined
    <3> QED
      BY <1>1 DEF Bounded, PastState
  <2> HIDE DEF past, joined, bounded
  <2>2. logPast' = [past EXCEPT !.unfiltered = @ \/ ~known]
    BY <1>2 DEF past
  <2>3. PICK u \in BOOLEAN : u = (past.unfiltered \/ ~known)
    OBVIOUS
  <2>4. logPast' = [past EXCEPT !.unfiltered = u]
    BY <2>2, <2>3, Zenon
  <2>5. logPast' \in PastState /\ logPast'.safe = past.safe /\ logPast'.gone = past.gone
        /\ logPast'.used = past.used /\ logPast'.unfiltered = u /\ logPast'.behind = past.behind
    BY <2>1, <2>4 DEF PastState
  <2> QED
    BY <2>1, <2>3, <2>5
<1>9. /\ stored' \in StoredState /\ stored'.local = stored.local /\ stored'.session = stored.session
      /\ stored'.read = <<>>
  <2>1. <<>> \in AStored
    BY DEF AStored
  <2>2. stored' = [stored EXCEPT !.read = <<>>]
    BY <1>2
  <2> QED
    BY <1>1, <2>1, <2>2 DEF StoredState
<1> HIDE DEF joined, bounded, merged
<1>10. l \in LogState /\ l.live = log.live /\ l.list = merged /\ l.restored = TRUE
       /\ l.restoring = log.restoring
  BY <1>1, <1>7 DEF LogState
<1>11. log' \in LogState /\ log'.live /\ log'.list = merged /\ log'.restored = TRUE
  <2> HIDE DEF l
  <2> QED
    BY <1>2, <1>10, RestoreEnds
<1>12. /\ mutations' \in Seq(LogOp) /\ callers' \in Seq(LogOp) /\ logStep' \in {"start", "local"}
       /\ (log'.restoring # "queued" => callers' = <<>>)
       /\ \/ mutations' = mutations /\ callers' = callers /\ logStep' # "start"
          \/ mutations' \o callers' = Tail(mutations) \o callers /\ logStep' = "start"
  <2> HIDE DEF l
  <2>1. CASE stored.read # Nothing \/ merged # <<>>
    BY <1>1, <1>2, <1>10, <2>1 DEF LogQueueInv, LogTypes
  <2>2. CASE ~(stored.read # Nothing \/ merged # <<>>)
    BY <1>2, <1>10, <2>2, RestoreEnds
  <2> QED
    BY <2>1, <2>2
<1>13. LogTypes'
  BY <1>1, <1>2, <1>8, <1>9, <1>11, <1>12 DEF LogTypes
<1>14. ToSet(merged) \subseteq ToSet(Held(stored.read)) \union ToSet(log.list)
  BY <1>3, <1>5, <1>6, <1>7
<1>15. Ids(merged) \subseteq Ids(Held(stored.read)) \union Ids(log.list)
  BY <1>14 DEF Ids
<1>16. There' \subseteq There
  <2>1. Ids(Held(<<>>)) = {}
    BY DEF Held, Ids, ToSet
  <2> QED
    BY <1>9, <1>11, <1>15, <2>1 DEF There
<1>17. LogQueueInv' /\ ClearsDue(LogQueue, logStep) \subseteq ClearsDue(LogQueue, logStep)'
  BY <1>2, <1>8, <1>12, <1>16, RunKeepsQueue
<1>18. StepInv'
  BY <1>2, <1>11, <1>12 DEF StepInv
<1>19. ASSUME NEW e PROVE Gone(e)' <=> Gone(e)
  BY <1>2 DEF Gone
<1>20. KeptInv'
  <2>1. logPast.safe \subseteq ToSet(Held(stored.read))
        /\ \A e \in logPast.safe : e.id \notin PingEntry /\ ~Gone(e)
    BY <1>1, <1>2 DEF StepInv, KeptInv
  <2>2. logPast'.safe \subseteq logPast.safe /\ logPast'.safe \subseteq ToSet(merged)
    BY <1>3, <1>5, <1>7, <1>8, <2>1
  <2> QED
    BY <1>1, <1>9, <1>11, <1>19, <2>1, <2>2 DEF KeptInv
<1>21. GoneInv'
  <2>1. Ids(Held(stored.read)) \intersect logPast.gone = {}
    BY <1>1, <1>2 DEF StepInv
  <2> QED
    BY <1>1, <1>8, <1>9, <1>11, <1>15, <2>1 DEF GoneInv
<1>22. CopiesInv'
  <2>1. CASE stored.read # Nothing \/ merged # <<>>
    BY <1>2, <2>1 DEF CopiesInv
  <2>2. CASE ~(stored.read # Nothing \/ merged # <<>>)
    <3>1. stored.local = Nothing /\ stored.session = Nothing
      BY <1>1, <1>2, <2>2 DEF StepInv
    <3>2. Held(stored.local) = <<>> /\ Held(stored.session) = <<>>
      BY <3>1 DEF Held
    <3>3. Saved(<<>>) = <<>>
      <4>1. <<>> \in Seq(AnEntry) /\ ToSet(<<>>) = {}
        BY DEF ToSet
      <4>2. Saved(<<>>) \in Seq(AnEntry) /\ ToSet(Saved(<<>>)) = {}
        BY <4>1, SavedHas
      <4> DEFINE s == Saved(<<>>)
      <4> HIDE DEF s
      <4>3. s \in Seq(AnEntry) /\ \A i \in DOMAIN s : FALSE
        BY <4>2 DEF s, ToSet
      <4>4. Len(s) \in Nat /\ DOMAIN s = 1..Len(s)
        BY <4>3
      <4>5. Len(s) = 0
        BY <4>3, <4>4
      <4> QED
        BY <4>3, <4>5, EmptySeq DEF s
    <3> QED
      BY <1>9, <1>11, <2>2, <3>2, <3>3 DEF CopiesInv
  <2> QED
    BY <2>1, <2>2
<1>23. TabsInv'
  <2>1. tabsNow.leaving \intersect tabsNow.open = {}
    BY <1>1 DEF TabsInv
  <2>2. ASSUME ~logPast'.unfiltered, NEW e \in ToSet(merged) PROVE ~Gone(e)
    BY <1>7, <1>8, <2>2
  <2> QED
    BY <1>2, <1>11, <1>19, <2>1, <2>2 DEF TabsInv
<1>24. RestoreDue'
  <2>1. CASE stored.read # Nothing \/ merged # <<>>
    BY <1>1, <1>2, <1>10, <2>1 DEF RestoreDue
  <2>2. CASE ~(stored.read # Nothing \/ merged # <<>>)
    <3> HIDE DEF l
    <3>1. log' = [l EXCEPT !.restoring = "done"]
      BY <1>2, <2>2 DEF Settled
    <3> QED
      BY <1>10, <3>1 DEF RestoreDue, LogState
  <2> QED
    BY <2>1, <2>2
<1> QED
  BY <1>11, <1>13, <1>17, <1>18, <1>20, <1>21, <1>22, <1>23, <1>24 DEF LogInv

\* An operation of a caller changes the list.
LEMMA ChangeKeeps ==
  ASSUME LogInv, log.live, mutations # <<>>, logStep = "start", Head(mutations).kind # "restore",
         NEW list \in Seq(AnEntry), NEW past \in PastState, NEW restored \in BOOLEAN,
         Change(list, past, restored),
         log.restored => restored,
         Head(mutations).kind = "clear" => list = <<>>,
         Ids(list) \subseteq Ids(log.list) \union
             (IF Head(mutations).kind = "append" THEN {Head(mutations).entry.id} ELSE {}),
         past.safe \subseteq logPast.safe, past.gone = logPast.gone, past.used = logPast.used,
         past.unfiltered = logPast.unfiltered,
         restored => past.safe \subseteq ToSet(list),
         \A e \in ToSet(list) : restored /\ Gone(e) =>
             /\ log.restored /\ e \in ToSet(log.list)
             /\ Head(mutations).kind = "clearTab" => e.tab # Head(mutations).tab
  PROVE  LogInv'
<1>1. /\ LogTypes /\ LogQueueInv /\ StepInv /\ KeptInv /\ GoneInv /\ TabsInv /\ RestoreDue
      /\ log \in LogState
  BY DEF LogInv, LogTypes
<1>2. /\ log' = [log EXCEPT !.list = list, !.restored = restored] /\ logPast' = past
      /\ callers' = callers /\ stored' = stored /\ tabsNow' = tabsNow
      /\ IF restored THEN logStep' = "local" /\ mutations' = mutations ELSE Finish
  BY DEF Change, MaySave
<1>3. /\ log' \in LogState /\ log'.live = log.live /\ log'.list = list /\ log'.restored = restored
      /\ log'.restoring = log.restoring
  BY <1>1, <1>2 DEF LogState
<1>4. Tail(mutations) \in Seq(LogOp)
  BY <1>1, HeadOfQueue
<1>5. /\ mutations' \in Seq(LogOp) /\ logStep' \in {"start", "local"}
      /\ \/ mutations' = mutations /\ callers' = callers /\ logStep' # "start"
         \/ mutations' \o callers' = Tail(mutations) \o callers /\ logStep' = "start"
  BY <1>1, <1>2, <1>4 DEF LogTypes, Finish
<1>6. LogTypes'
  BY <1>1, <1>2, <1>3, <1>5 DEF LogTypes
<1>7. There' \subseteq There \union
         (IF logStep = "start" /\ Head(mutations).kind = "append"
          THEN {Head(mutations).entry.id} ELSE {})
  BY <1>2, <1>3 DEF There
<1>8. log'.restoring # "queued" => callers' = <<>>
  BY <1>1, <1>2, <1>3 DEF LogQueueInv
<1>9. logPast'.gone = logPast.gone /\ logPast'.used = logPast.used
  BY <1>2
<1>10. /\ LogQueueInv'
       /\ ClearsDue(LogQueue, logStep) \subseteq ClearsDue(LogQueue, logStep)' \union
             (IF logStep = "start" /\ Head(mutations).kind = "clearTab"
              THEN {Head(mutations).tab} ELSE {})
       /\ Head(mutations).kind = "append" => Head(mutations).entry.id \notin logPast.gone
  BY <1>2, <1>5, <1>7, <1>8, <1>9, RunKeepsQueue
<1>11. StepInv'
  BY <1>2, <1>3, <1>5 DEF StepInv, Finish
<1>12. ASSUME NEW e PROVE Gone(e)' <=> Gone(e)
  BY <1>2 DEF Gone
<1>13. KeptInv'
  BY <1>1, <1>2, <1>3, <1>12 DEF KeptInv
<1>14. GoneInv'
  <2>1. Ids(list) \intersect logPast.gone = {}
    BY <1>1, <1>10 DEF GoneInv
  <2> QED
    BY <1>1, <1>2, <1>3, <2>1 DEF GoneInv
<1>15. CopiesInv'
  BY <1>2, <1>3 DEF CopiesInv
<1>16. TabsInv'
  <2>1. tabsNow.leaving \intersect tabsNow.open = {}
    BY <1>1 DEF TabsInv
  <2>2. ASSUME restored, ~logPast.unfiltered, NEW e \in ToSet(list), Gone(e)
        PROVE  e.tab \in tabsNow.leaving \union ClearsDue(LogQueue, logStep)'
    <3>1. /\ log.restored /\ e \in ToSet(log.list)
          /\ Head(mutations).kind = "clearTab" => e.tab # Head(mutations).tab
      BY <2>2
    <3>2. e.tab \in tabsNow.leaving \union ClearsDue(LogQueue, logStep)
      BY <1>1, <2>2, <3>1 DEF TabsInv
    <3> QED
      BY <1>10, <3>1, <3>2
  <2> QED
    BY <1>2, <1>3, <1>12, <2>1, <2>2 DEF TabsInv
<1>17. RestoreDue'
  <2>1. CASE restored
    BY <1>1, <1>2, <1>3, <2>1 DEF RestoreDue
  <2>2. CASE ~restored
    BY <1>2, <1>3, <2>2, FinishDue
  <2> QED
    BY <2>1, <2>2
<1> QED
  BY <1>3, <1>6, <1>10, <1>11, <1>13, <1>14, <1>15, <1>16, <1>17 DEF LogInv

LEMMA AppendsKeeps ==
  ASSUME LogInv, Appends
  PROVE  LogInv'
<1>1. /\ LogTypes /\ LogQueueInv /\ StepInv /\ KeptInv /\ GoneInv /\ CopiesInv /\ TabsInv
      /\ log \in LogState /\ logPast \in PastState
      /\ (~log.live => log.list = <<>>)
  BY DEF LogInv, LogTypes
<1> DEFINE e == Head(mutations).entry
           list == Append(log.list, e)
<1>2. /\ log.live /\ mutations # <<>> /\ Head(mutations).kind = "append" /\ logStep = "start"
      /\ IF Gone(e)
         THEN Finish /\ log' = log /\ callers' = callers /\ stored' = stored /\ tabsNow' = tabsNow
              /\ logPast' = logPast
         ELSE Change(BoundHistory(list), Bounded(list), log.restored)
  BY DEF Appends, Runs
<1>3. e \in AnEntry
  <2>1. Head(mutations) \in LogOp
    BY <1>1, <1>2, HeadOfQueue
  <2> QED
    BY <1>2, <2>1 DEF LogOp
<1>4. CASE Gone(e)
  <2>1. /\ Finish /\ log' = log /\ callers' = callers /\ stored' = stored /\ tabsNow' = tabsNow
        /\ logPast' = logPast /\ mutations' = Tail(mutations) /\ logStep' = "start"
    BY <1>2, <1>4 DEF Finish
  <2>2. LogTypes'
    BY <1>1, <1>2, <2>1, HeadOfQueue DEF LogTypes
  <2>3. There' = There
    BY <2>1 DEF There
  <2>4. LogQueueInv' /\ ClearsDue(LogQueue, logStep) \subseteq ClearsDue(LogQueue, logStep)'
    <3>1. log'.restoring # "queued" => callers' = <<>>
      BY <1>1, <2>1 DEF LogQueueInv
    <3> QED
      BY <1>2, <2>1, <2>3, <3>1, RunKeepsQueue
  <2>5. ASSUME NEW x PROVE Gone(x)' <=> Gone(x)
    BY <2>1 DEF Gone
  <2>6. StepInv' /\ KeptInv' /\ GoneInv' /\ CopiesInv'
    BY <1>1, <1>2, <2>1, <2>5 DEF StepInv, KeptInv, GoneInv, CopiesInv
  <2>7. TabsInv'
    BY <1>1, <2>1, <2>4, <2>5 DEF TabsInv
  <2>8. RestoreDue'
    BY <1>2, <2>1, FinishDue
  <2> QED
    BY <1>1, <2>1, <2>2, <2>4, <2>6, <2>7, <2>8 DEF LogInv
<1>5. CASE ~Gone(e)
  <2> DEFINE bounded == BoundHistory(list)
             past == Bounded(list)
  <2>1. list \in Seq(AnEntry) /\ ToSet(list) = ToSet(log.list) \union {e}
    <3>1. log.list \in Seq(AnEntry)
      BY <1>1 DEF LogState
    <3> HIDE DEF e
    <3> QED
      BY <1>3, <3>1, IdsOfMore
  <2>2. bounded \in Seq(AnEntry) /\ ToSet(bounded) \subseteq ToSet(list)
    <3> HIDE DEF list
    <3> QED
      BY <2>1, BoundHas
  <2>3. /\ past \in PastState /\ past.safe = logPast.safe \ (ToSet(list) \ ToSet(bounded))
        /\ past.gone = logPast.gone /\ past.used = logPast.used
        /\ past.unfiltered = logPast.unfiltered
    <3> HIDE DEF list
    <3> QED
      BY <1>1 DEF Bounded, PastState
  <2>4. log.restored \in BOOLEAN
    BY <1>1 DEF LogState
  <2>5. Change(bounded, past, log.restored)
    BY <1>2, <1>5
  <2> HIDE DEF bounded, past, list
  <2>6. Ids(bounded) \subseteq Ids(log.list) \union {e.id}
    BY <2>1, <2>2 DEF Ids
  <2>7. log.restored => past.safe \subseteq ToSet(bounded)
    BY <1>1, <1>2, <2>1, <2>3 DEF KeptInv
  <2>8. \A x \in ToSet(bounded) : Gone(x) => x \in ToSet(log.list)
    BY <1>5, <2>1, <2>2
  <2> QED
    BY <1>2, <2>2, <2>3, <2>4, <2>5, <2>6, <2>7, <2>8, ChangeKeeps
<1> QED
  BY <1>4, <1>5

LEMMA ClearsTabKeeps ==
  ASSUME LogInv, ClearsTab
  PROVE  LogInv'
<1>1. /\ LogTypes /\ LogQueueInv /\ KeptInv /\ log \in LogState /\ logPast \in PastState
      /\ log.list \in Seq(AnEntry) /\ log.restored \in BOOLEAN
  BY DEF LogInv, LogTypes, LogState
<1> DEFINE t == Head(mutations).tab
           kept == {i \in DOMAIN log.list : log.list[i].tab # t}
           list == Picked(log.list, kept)
<1>2. /\ log.live /\ mutations # <<>> /\ Head(mutations).kind = "clearTab" /\ logStep = "start"
      /\ Change(list, logPast, log.restored)
  BY DEF ClearsTab, Runs
<1>3. list \in Seq(AnEntry) /\ ToSet(list) = {log.list[i] : i \in kept}
  <2>1. kept \in SUBSET DOMAIN log.list
    OBVIOUS
  <2> HIDE DEF kept
  <2> QED
    BY <1>1, <2>1, PickedHas
<1>4. ToSet(list) = {e \in ToSet(log.list) : e.tab # t}
  BY <1>3 DEF ToSet
<1>5. t \notin tabsNow.open /\ t \in LogTab
  <2>1. /\ LogQueue \in Seq(LogOp) /\ LogQueue # <<>> /\ LogQueue[1] = Head(mutations)
        /\ Head(mutations) \in LogOp
    BY <1>1, <1>2, HeadOfQueue
  <2>2. 1 \in DOMAIN LogQueue
    BY <2>1
  <2> QED
    BY <1>1, <1>2, <2>1, <2>2 DEF LogQueueInv, QueueRight, LogOp
<1> HIDE DEF list, kept
<1>6. Ids(list) \subseteq Ids(log.list)
  BY <1>4 DEF Ids
<1>7. log.restored => logPast.safe \subseteq ToSet(list)
  <2>1. \A e \in logPast.safe : e.tab # t
    BY <1>1, <1>5 DEF KeptInv, Gone
  <2> QED
    BY <1>1, <1>2, <1>4, <2>1 DEF KeptInv
<1>8. \A e \in ToSet(list) : e \in ToSet(log.list) /\ e.tab # Head(mutations).tab
  BY <1>4
<1> QED
  BY <1>1, <1>2, <1>3, <1>6, <1>7, <1>8, ChangeKeeps

LEMMA ClearsKeeps ==
  ASSUME LogInv, Clears
  PROVE  LogInv'
<1>1. logPast \in PastState
  BY DEF LogInv, LogTypes
<1> DEFINE past == [logPast EXCEPT !.safe = {}]
<1>2. /\ log.live /\ mutations # <<>> /\ Head(mutations).kind = "clear" /\ logStep = "start"
      /\ Change(<<>>, past, TRUE)
  BY DEF Clears, Runs
<1>3. /\ past \in PastState /\ past.safe = {} /\ past.gone = logPast.gone
      /\ past.used = logPast.used /\ past.unfiltered = logPast.unfiltered
  BY <1>1 DEF PastState
<1>4. ToSet(<<>>) = {} /\ Ids(<<>>) = {} /\ <<>> \in Seq(AnEntry)
  BY DEF ToSet, Ids
<1> HIDE DEF past
<1> QED
  BY <1>2, <1>3, <1>4, ChangeKeeps

\* The list is written to local storage, then to session storage.
LEMMA WritesKeeps ==
  ASSUME LogInv, NEW kind, Writes(kind)
  PROVE  LogInv'
<1>1. /\ LogTypes /\ LogQueueInv /\ StepInv /\ KeptInv /\ GoneInv /\ TabsInv /\ RestoreDue
      /\ stored \in StoredState /\ logPast \in PastState /\ log.list \in Seq(AnEntry)
  BY DEF LogInv, LogTypes, LogState
<1> DEFINE written == Saved(log.list)
           kept == {e \in ToSet(written) : ~Gone(e)}
           erased == IF kind = "clear" THEN Ids(Held(stored.local)) ELSE {}
<1>2. /\ log.live /\ mutations # <<>> /\ Head(mutations).kind = kind /\ logStep = "local"
      /\ stored' = [stored EXCEPT !.local = written]
      /\ logPast' = [logPast EXCEPT !.safe = @ \union kept, !.behind = TRUE,
                        !.gone = IF kind = "clear" THEN @ \union Ids(Held(stored.local)) ELSE @]
      /\ logStep' = "session" /\ log' = log /\ mutations' = mutations /\ callers' = callers
      /\ tabsNow' = tabsNow
  BY DEF Writes, Runs
<1>3. /\ written \in Seq(AnEntry) /\ written # Nothing
      /\ ToSet(written) = {e \in ToSet(log.list) : e.id \notin PingEntry}
  BY <1>1, SavedHas, NothingIsNoList
<1>4. Held(written) = written
  BY <1>3 DEF Held
<1>5. ToSet(written) \subseteq AnEntry
  <2> HIDE DEF written
  <2> QED
    BY <1>3 DEF ToSet
<1>6. erased \subseteq LogEntry /\ erased \subseteq There
  <2>1. Held(stored.local) \in Seq(AnEntry)
    BY <1>1, HeldFits DEF StoredState
  <2>2. ToSet(Held(stored.local)) \subseteq AnEntry
    BY <2>1 DEF ToSet
  <2> QED
    BY <2>2 DEF Ids, AnEntry, There
<1> HIDE DEF written
<1>7. /\ stored' \in StoredState /\ stored'.local = written /\ stored'.session = stored.session
      /\ stored'.read = stored.read
  BY <1>1, <1>2, <1>3 DEF StoredState, AStored
<1>8. /\ logPast' \in PastState /\ logPast'.safe = logPast.safe \union kept
      /\ logPast'.gone = logPast.gone \union erased /\ logPast'.used = logPast.used
      /\ logPast'.unfiltered = logPast.unfiltered /\ logPast'.behind = TRUE
  <2>1. kept \subseteq AnEntry
    BY <1>5
  <2>2. logPast' = [logPast EXCEPT !.safe = @ \union kept, !.behind = TRUE, !.gone = @ \union erased]
    BY <1>2
  <2> HIDE DEF kept, erased
  <2> QED
    BY <1>1, <1>6, <2>1, <2>2 DEF PastState
<1>9. LogTypes'
  BY <1>1, <1>2, <1>7, <1>8 DEF LogTypes
<1>10. Ids(written) \subseteq Ids(log.list)
  BY <1>3 DEF Ids
<1>11. There' \subseteq There
  BY <1>2, <1>4, <1>7, <1>10 DEF There
<1>12. LogQueueInv' /\ ClearsDue(LogQueue, logStep) \subseteq ClearsDue(LogQueue, logStep)'
  <2>1. log'.restoring # "queued" => callers' = <<>>
    BY <1>1, <1>2 DEF LogQueueInv
  <2>2. logPast'.gone \subseteq logPast.gone \union There
    BY <1>6, <1>8
  <2> QED
    BY <1>2, <1>8, <1>11, <2>1, <2>2, RunKeepsQueue
<1>13. log.restored /\ (kind = "clear" => log.list = <<>>)
  BY <1>1, <1>2 DEF StepInv
<1>14. StepInv'
  BY <1>2, <1>7, <1>8, <1>13 DEF StepInv, written
<1>15. ASSUME NEW e PROVE Gone(e)' <=> Gone(e)
  BY <1>2 DEF Gone
<1>16. KeptInv'
  <2>1. logPast.safe \subseteq ToSet(log.list) /\ \A e \in logPast.safe : e.id \notin PingEntry /\ ~Gone(e)
    BY <1>1, <1>2, <1>13 DEF KeptInv
  <2>2. logPast'.safe \subseteq ToSet(written) /\ logPast'.safe \subseteq ToSet(log.list)
    BY <1>3, <1>8, <2>1
  <2>3. \A e \in logPast'.safe : e.id \notin PingEntry /\ ~Gone(e)
    BY <1>3, <1>8, <2>1
  <2> QED
    BY <1>2, <1>4, <1>7, <1>15, <2>2, <2>3 DEF KeptInv
<1>17. GoneInv'
  <2>1. kind = "clear" => Ids(log.list) = {}
    BY <1>13 DEF Ids, ToSet
  <2>2. (logPast.gone \union erased) \intersect Ids(log.list) = {}
    BY <1>1, <2>1 DEF GoneInv
  <2> QED
    BY <1>2, <1>3, <1>4, <1>7, <1>8, <1>10, <2>2 DEF GoneInv
<1>18. CopiesInv' /\ RestoreDue'
  BY <1>1, <1>2 DEF CopiesInv, RestoreDue
<1>19. TabsInv'
  BY <1>1, <1>2, <1>8, <1>12, <1>15 DEF TabsInv
<1> QED
  BY <1>2, <1>9, <1>12, <1>14, <1>16, <1>17, <1>18, <1>19 DEF LogInv

\* An operation ends with the second write, or with one that fails.
LEMMA EndKeeps ==
  ASSUME LogInv, log.live, mutations # <<>>, NEW kind, Head(mutations).kind = kind,
         logStep \in {"local", "session"}, OpEnds(kind), tabsNow' = tabsNow,
         stored' \in StoredState, stored'.local = stored.local, stored'.read = stored.read,
         Ids(Held(stored'.session)) \subseteq There,
         NEW behind \in BOOLEAN, logPast' = [logPast EXCEPT !.behind = behind],
         ~behind => /\ Held(stored.local) = Saved(log.list)
                    /\ Held(stored'.session) = Saved(log.list)
  PROVE  LogInv'
<1>1. /\ LogTypes /\ LogQueueInv /\ StepInv /\ KeptInv /\ GoneInv /\ TabsInv /\ logPast \in PastState
  BY DEF LogInv, LogTypes
<1>2. /\ log' \in LogState /\ log'.live = log.live /\ log'.list = log.list
      /\ log'.restored = log.restored
      /\ mutations' \in Seq(LogOp) /\ callers' \in Seq(LogOp) /\ logStep' = "start"
      /\ mutations' \o callers' = Tail(mutations) \o callers
      /\ log'.restoring # "queued" => callers' = <<>>
  BY OpEnded
<1>3. /\ logPast' \in PastState /\ logPast'.safe = logPast.safe /\ logPast'.gone = logPast.gone
      /\ logPast'.used = logPast.used /\ logPast'.unfiltered = logPast.unfiltered
      /\ logPast'.behind = behind
  BY <1>1 DEF PastState
<1>4. LogTypes'
  BY <1>1, <1>2, <1>3 DEF LogTypes
<1>5. There' \subseteq There
  BY <1>2 DEF There
<1>6. LogQueueInv' /\ ClearsDue(LogQueue, logStep) \subseteq ClearsDue(LogQueue, logStep)'
  BY <1>2, <1>3, <1>5, RunKeepsQueue
<1>7. RestoreDue'
  BY OpEndDue
<1>8. ASSUME NEW e PROVE Gone(e)' <=> Gone(e)
  BY DEF Gone
<1>9. StepInv' /\ KeptInv' /\ GoneInv'
  BY <1>1, <1>2, <1>3, <1>8 DEF StepInv, KeptInv, GoneInv
<1>10. CopiesInv'
  BY <1>2, <1>3 DEF CopiesInv
<1>11. TabsInv'
  BY <1>1, <1>2, <1>3, <1>6, <1>8 DEF TabsInv
<1> QED
  BY <1>2, <1>4, <1>6, <1>7, <1>9, <1>10, <1>11 DEF LogInv

LEMMA WritesSessionKeeps ==
  ASSUME LogInv, NEW kind, WritesSession(kind)
  PROVE  LogInv'
<1>1. /\ stored \in StoredState /\ log.list \in Seq(AnEntry) /\ StepInv
  BY DEF LogInv, LogTypes, LogState
<1> DEFINE written == Saved(log.list)
<1>2. /\ log.live /\ mutations # <<>> /\ Head(mutations).kind = kind /\ logStep = "session"
      /\ stored' = [stored EXCEPT !.session = written] /\ OpEnds(kind) /\ tabsNow' = tabsNow
      /\ logPast' = [logPast EXCEPT !.behind = FALSE]
  BY DEF WritesSession, Runs
<1>3. /\ written \in Seq(AnEntry) /\ written # Nothing
      /\ ToSet(written) = {e \in ToSet(log.list) : e.id \notin PingEntry}
  BY <1>1, SavedHas, NothingIsNoList
<1>4. Held(written) = written /\ Ids(written) \subseteq There
  BY <1>3 DEF Held, Ids, There
<1>5. stored.local = written
  BY <1>1, <1>2 DEF StepInv
<1>6. /\ stored' \in StoredState /\ stored'.local = stored.local /\ stored'.session = written
      /\ stored'.read = stored.read
  <2> HIDE DEF written
  <2> QED
    BY <1>1, <1>2, <1>3 DEF StoredState, AStored
<1> QED
  BY <1>2, <1>4, <1>5, <1>6, EndKeeps

LEMMA WriteFailsKeeps ==
  ASSUME LogInv, NEW kind, WriteFails(kind)
  PROVE  LogInv'
<1>1. stored \in StoredState /\ Ids(Held(stored.session)) \subseteq There
  BY DEF LogInv, LogTypes, There
<1>2. /\ log.live /\ mutations # <<>> /\ Head(mutations).kind = kind
      /\ logStep \in {"local", "session"}
      /\ stored' = stored /\ OpEnds(kind) /\ tabsNow' = tabsNow
      /\ logPast' = [logPast EXCEPT !.behind = TRUE]
  BY DEF WriteFails, Runs
<1> QED
  BY <1>1, <1>2, EndKeeps

LEMMA LogStep == LogInv /\ [LogNext]_logVars => LogInv'
<1> SUFFICES ASSUME LogInv, [LogNext]_logVars PROVE LogInv'
  OBVIOUS
<1>1. CASE UNCHANGED logVars
  <2>1. /\ log' = log /\ mutations' = mutations /\ callers' = callers /\ logStep' = logStep
        /\ stored' = stored /\ tabsNow' = tabsNow /\ logPast' = logPast
    BY <1>1 DEF logVars
  <2>2. There' = There /\ LogQueue' = LogQueue /\ \A e : Gone(e)' <=> Gone(e)
    BY <2>1 DEF There, LogQueue, Gone
  <2>3. LogTypes' /\ LogQueueInv' /\ StepInv' /\ RestoreDue'
    BY <2>1, <2>2 DEF LogInv, LogTypes, LogQueueInv, StepInv, RestoreDue
  <2>4. KeptInv' /\ GoneInv' /\ CopiesInv' /\ TabsInv'
    BY <2>1, <2>2 DEF LogInv, KeptInv, GoneInv, CopiesInv, TabsInv
  <2> QED
    BY <2>1, <2>3, <2>4 DEF LogInv
<1>2. CASE \E id \in LogEntry, t \in LogTab \union {NoLogTab} : Log(id, t)
  BY <1>2, LogKeeps
<1>3. CASE \E t \in LogTab : TabCloses(t) \/ TabRemoved(t)
  BY <1>3, TabClosesKeeps, TabRemovedKeeps
<1>4. CASE \E update \in BOOLEAN : WorkerStops(update)
  BY <1>4, WorkerStopsKeeps
<1>5. CASE \E startup \in BOOLEAN : WorkerStarts(startup)
  BY <1>5, WorkerStartsKeeps
<1>6. CASE RestoreReads \/ RestoreCannotRead
  BY <1>6, RestoreReadsKeeps, RestoreCannotReadKeeps
<1>7. CASE \E known \in BOOLEAN : RestoreMerges(known)
  BY <1>7, RestoreMergesKeeps
<1>8. CASE Appends \/ ClearsTab \/ Clears
  BY <1>8, AppendsKeeps, ClearsTabKeeps, ClearsKeeps
<1>9. CASE \E kind \in {"restore", "append", "clearTab", "clear"} :
             Writes(kind) \/ WritesSession(kind) \/ WriteFails(kind)
  BY <1>9, WritesKeeps, WritesSessionKeeps, WriteFailsKeeps
<1> QED
  BY <1>1, <1>2, <1>3, <1>4, <1>5, <1>6, <1>7, <1>8, <1>9 DEF LogNext

LEMMA LogInvSays == LogInv => HistoryKept
<1> SUFFICES ASSUME LogInv PROVE HistoryKept
  OBVIOUS
<1>1. /\ LogTypes /\ LogQueueInv /\ StepInv /\ KeptInv /\ GoneInv /\ CopiesInv /\ TabsInv /\ RestoreDue
  BY DEF LogInv
<1>2. logPast.safe \subseteq ToSet(Held(stored.local))
      /\ logPast.gone \intersect (Ids(log.list) \union Ids(Held(stored.local))) = {}
  BY <1>1 DEF KeptInv, GoneInv
<1>3. ASSUME log.live, log.restored, mutations = <<>>
      PROVE  logStep = "start" /\ ClearsDue(LogQueue, logStep) = {}
  <2>1. logStep = "start"
    BY <1>1, <1>3 DEF StepInv
  <2>2. callers = <<>>
    BY <1>1, <1>3 DEF LogQueueInv, RestoreDue, LastRestores
  <2>3. LogQueue = <<>>
    BY <1>3, <2>2 DEF LogQueue
  <2> QED
    BY <2>1, <2>3 DEF ClearsDue, WaitsAt
<1> QED
  BY <1>1, <1>2, <1>3 DEF HistoryKept, CopiesInv, TabsInv

\* The history survives and nothing in it comes back: for any tabs and entries, any
\* bound of the history, and any number of stops and failures of storage.
THEOREM HistoryStays == LogSpec => []HistoryKept
<1>1. LogSpec => []LogInv
  BY LogBegins, LogStep, PTL DEF LogSpec
<1> QED
  BY <1>1, LogInvSays, PTL
=============================================================================
