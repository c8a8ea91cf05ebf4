------------------------- MODULE BridgeSystemProofs -------------------------
(***************************************************************************)
(* The composition of the daemon with the extension is one of the           *)
(* behaviours MutationScheduler allows: what is proved there of the daemon  *)
(* against any browser holds with this one.  And what a page sees of it: a   *)
(* mutation runs in its turn, alone, on the page it was queued for.          *)
(***************************************************************************)
EXTENDS BridgeSystem, MutationSchedulerProofs

\* A tab the daemon cannot use is as good as none.
LEMMA UnusableTab ==
    ASSUME NEW r, NEW b, b \notin Tab, MutationReady(r, b)
    PROVE  MutationReady(r, NoTab)
BY ConstantsAssumption DEF MutationReady

\* What the daemon does with a message of the extension is a handler of
\* MutationScheduler, or nothing.
LEMMA ReceiveStep ==
    ASSUME TypeOK, NEW m, Receive(m)
    PROVE  [Next]_vars
<1>1. CASE m.kind = "identity" /\ Identity(Browser)
  BY <1>1, BridgeAssumption DEF Next
<1>2. CASE m.kind = "access" /\ IF m.arg THEN AccessGranted(Browser)
                                         ELSE AccessRevoked(Browser)
  BY <1>2, BridgeAssumption DEF Next
<1>3. CASE m.id \in entries \ ready /\ MutationReady(m.id, m.arg)
  <2>1. m.id \in Request
    BY <1>3 DEF TypeOK
  <2>2. \E b \in Tab \cup {NoTab} : MutationReady(m.id, b)
    BY <1>3, UnusableTab
  <2> QED
    BY <2>1, <2>2 DEF Next
<1>4. CASE m.id \in unsettled /\ (Response(m.id, FALSE) \/ LateResponse(m.id))
  <2>1. m.id \in Request
    BY <1>4 DEF TypeOK
  <2> QED
    BY <1>4, <2>1 DEF Next
<1>5. CASE UNCHANGED <<vars, inbox>>
  BY <1>5
<1> QED
  BY <1>1, <1>2, <1>3, <1>4, <1>5 DEF Receive

\* Every step of the system is a step of the daemon or invisible to it.
LEMMA BridgeStep ==
    ASSUME TypeOK, [BridgeNext]_bridgeVars
    PROVE  [Next]_vars
<1>1. CASE \E r \in Request : Ask(r) \/ GiveUp(r) \/ ReleaseExpired(r)
  BY <1>1 DEF Ask, GiveUp, ReleaseExpired, Next
<1>2. CASE \E p \in Agent : AgentArrives(p) \/ AgentLeaves(p)
  BY <1>2 DEF AgentArrives, AgentLeaves, Next
<1>3. CASE BrowserLeaves \/ Register
  BY <1>3, BridgeAssumption DEF BrowserLeaves, Register, Next
<1>4. CASE EndOfLoop
  BY <1>4 DEF EndOfLoop, Next
<1>5. CASE DaemonReceives
  <2>1. PICK m : Receive(m)
    BY <1>5 DEF DaemonReceives
  <2> QED
    BY <2>1, ReceiveStep
<1>6. CASE \/ ExtensionReceives \/ BrowserWorks \/ UserUpsets
           \/ PortWorks \/ PortOpens \/ PortCloses
           \/ \E r \in Request : ExtensionWorks(r) \/ LifetimeEnds(r)
  BY <1>6 DEF ExtensionReceives, BrowserWorks, UserUpsets, PortWorks, PortOpens,
              PortCloses, ExtensionWorks, LifetimeEnds
<1>7. CASE UNCHANGED bridgeVars
  BY <1>7 DEF bridgeVars
<1> QED
  BY <1>1, <1>2, <1>3, <1>4, <1>5, <1>6, <1>7 DEF BridgeNext

\* The scheduler's invariant holds of the composition.
LEMMA BridgeInvariant == BridgeSpec => []IInv
<1>1. BridgeInit => IInv
  BY SchedulerInit DEF BridgeInit
<1>2. IInv /\ [BridgeNext]_bridgeVars => IInv'
  BY BridgeStep, SchedulerNext DEF IInv
<1> QED
  BY <1>1, <1>2, PTL DEF BridgeSpec

\* With this extension at the other end, over the two byte streams, the daemon
\* behaves as MutationScheduler says: messages that arrive late, twice or after
\* their request is gone are handled or ignored there.
THEOREM DaemonFollowsScheduler == BridgeSpec => Spec
<1>1. BridgeInit => Init
  BY DEF BridgeInit
<1>2. IInv /\ [BridgeNext]_bridgeVars => [Next]_vars
  BY BridgeStep DEF IInv
<1> QED
  BY <1>1, <1>2, BridgeInvariant, PTL DEF BridgeSpec, Spec

\* The daemon never lets two uncanceled mutations run in one tab of the
\* browser, whatever the extension sends and whenever ports are lost.
THEOREM BridgeMutualExclusion == BridgeSpec => []OneRunningPerTab
<1>1. IInv => OneRunningPerTab
  BY DEF IInv, TurnsOK
<1> QED
  BY <1>1, BridgeInvariant, PTL

-----------------------------------------------------------------------------
(* The two byte streams. *)

\* What is in three sequences joined, of which the second has one element or none.
LEMMA JoinThree ==
    ASSUME NEW S, NEW a \in Seq(S), NEW b \in Seq(S), NEW c \in Seq(S), Len(b) <= 1
    PROVE  /\ a \o b \o c \in Seq(S)
           /\ \A i \in DOMAIN (a \o b \o c) :
                 \/ i \in DOMAIN a /\ (a \o b \o c)[i] = a[i]
                 \/ /\ i = Len(a) + 1 /\ i \notin DOMAIN a
                    /\ (a \o b \o c)[i] \in ToSet(b)
                 \/ (a \o b \o c)[i] \in ToSet(c)
<1> DEFINE k == Len(a)
           f == Len(b)
           n == Len(c)
           mid == a \o b
           all == mid \o c
<1>1. /\ mid \in Seq(S) /\ k \in Nat /\ f \in Nat /\ f <= 1 /\ n \in Nat /\ Len(mid) = k + f
      /\ DOMAIN a = 1..k /\ DOMAIN b = 1..f /\ DOMAIN c = 1..n
      /\ \A i \in 1..k : mid[i] = a[i]
      /\ \A i \in (k + 1)..(k + f) : mid[i] = b[i - k]
  OBVIOUS
<1>0. mid \in Seq(S)
  BY <1>1
<1> HIDE DEF mid
<1>2. /\ all \in Seq(S) /\ DOMAIN all = 1..(Len(mid) + n)
      /\ \A i \in 1..Len(mid) : all[i] = mid[i]
      /\ \A i \in (Len(mid) + 1)..(Len(mid) + n) : all[i] = c[i - Len(mid)]
  BY <1>0
<1> HIDE DEF k, f, n, all
<1>3. ASSUME NEW i \in DOMAIN all
      PROVE  \/ i \in DOMAIN a /\ all[i] = a[i]
             \/ i = k + 1 /\ i \notin DOMAIN a /\ all[i] \in ToSet(b)
             \/ all[i] \in ToSet(c)
  <2>1. CASE i \in 1..k
    BY <1>1, <1>2, <2>1
  <2>2. CASE i \in (k + 1)..(k + f)
    <3>1. i = k + 1 /\ i - k = 1 /\ 1 \in DOMAIN b /\ i \notin DOMAIN a /\ i \in 1..Len(mid)
      BY <1>1, <2>2
    <3>2. all[i] = b[1]
      BY <1>1, <1>2, <2>2, <3>1
    <3> QED
      BY <3>1, <3>2 DEF ToSet
  <2>3. CASE i \in (k + f + 1)..(k + f + n)
    <3>1. i - (k + f) \in DOMAIN c
      BY <1>1, <2>3
    <3>2. all[i] = c[i - (k + f)]
      BY <1>1, <1>2, <2>3
    <3> QED
      BY <3>1, <3>2 DEF ToSet
  <2>4. i \in 1..(k + f + n)
    BY <1>1, <1>2
  <2> QED
    BY <1>1, <2>1, <2>2, <2>3, <2>4
<1> QED
  BY <1>2, <1>3 DEF all, mid, k

Argument == BOOLEAN \cup Tab \cup {NoTab}

Letter == [kind : {"request", "granted", "cancelled", "ownerGone",
                   "ready", "response", "access", "identity"},
           id : Request \cup Agent \cup {NoTab}, arg : Argument]

\* What is on its way to the extension, and to the daemon, about request r.
In(kind, r) == \E i \in DOMAIN inbox : inbox[i].kind = kind /\ inbox[i].id = r
Out(kind, r) == \E i \in DOMAIN outbox : outbox[i].kind = kind /\ outbox[i].id = r
Reported(r) == {outbox[i].arg : i \in {j \in DOMAIN outbox :
                                         outbox[j].kind = "ready" /\ outbox[j].id = r}}

StreamsOK ==
    /\ inbox \in Seq(Letter) /\ outbox \in Seq(Letter)
    /\ \A i \in DOMAIN inbox : inbox[i].kind \in {"request", "granted"} => inbox[i].id \in Request
    /\ \A i \in DOMAIN inbox : inbox[i].kind = "request" => inbox[i].arg \in BOOLEAN
    /\ \A i, j \in DOMAIN inbox :
          inbox[i].kind = "request" /\ inbox[j].kind = "request" /\ inbox[i].id = inbox[j].id
          => i = j

\* A message is a letter.
LEMMA LetterMade ==
    ASSUME NEW kind \in {"request", "granted", "cancelled", "ownerGone",
                         "ready", "response", "access", "identity"},
           NEW r \in Request \cup Agent \cup {NoTab}, NEW arg \in Argument
    PROVE  /\ Gate!Message(kind, r, arg) \in Letter
           /\ Gate!Message(kind, r, arg).kind = kind
           /\ Gate!Message(kind, r, arg).id = r
           /\ Gate!Message(kind, r, arg).arg = arg
BY DEF Letter, Gate!Message

\* What a step of the daemon puts on the wire: the messages M, of which there is
\* at most one, and the grants of that step.
Told(M) ==
    /\ inbox' \in Seq(Letter)
    /\ \A i \in DOMAIN inbox' :
          \/ i \in DOMAIN inbox /\ inbox'[i] = inbox[i]
          \/ i \notin DOMAIN inbox /\ inbox'[i] \in M
          \/ \E r \in granted' \ granted : inbox'[i] = Gate!Message("granted", r, NoTab)
    /\ \A i, j \in DOMAIN inbox' \ DOMAIN inbox : inbox'[i] \in M /\ inbox'[j] \in M => i = j

\* A step grants finitely many turns, for the queue is finite.
LEMMA GrantsFinite ==
    ASSUME IInv' PROVE IsFiniteSet(granted' \ granted) /\ granted' \subseteq Request
<1> DEFINE q == queue'[Browser]
           f == [i \in 1..Len(q) |-> q[i]]
<1>1. /\ q \in Seq(Request) /\ ToSet(q) = {r \in entries' : Target[r] = Browser}
      /\ granted' \subseteq entries' /\ entries' \subseteq Request
  BY BridgeAssumption DEF IInv, LineOK, TurnsOK, QueueHoldsEntries
<1>2. \A r \in Request : Target[r] = Browser
  BY BridgeAssumption, ConstantsAssumption
<1>3. granted' \subseteq ToSet(q)
  BY <1>1, <1>2
<1>4. f \in Surjection(1..Len(q), ToSet(q))
  <2>1. DOMAIN q = 1..Len(q)
    BY <1>1
  <2> QED
    BY <2>1 DEF Surjection, ToSet
<1>5. Len(q) \in Nat
  BY <1>1
<1>6. IsFiniteSet(1..Len(q))
  BY <1>5, FS_Interval
<1>7. IsFiniteSet(ToSet(q))
  BY <1>4, <1>6, FS_Surjection
<1> QED
  BY <1>1, <1>3, <1>7, FS_Subset

\* Nothing, or one message and the grants, goes out.
LEMMA SendTold ==
    ASSUME IInv', StreamsOK, NEW first \in Seq(Letter), Len(first) <= 1,
           \A m \in ToSet(first) : m.kind # "granted", Send(first)
    PROVE  Told(ToSet(first))
<1> DEFINE n == Cardinality(granted' \ granted)
<1>1. n \in Nat /\ granted' \subseteq Request
  BY GrantsFinite, FS_CardinalityType
<1>2. CASE UNCHANGED inbox
  BY <1>2 DEF Told, StreamsOK
<1>3. CASE \E turns \in Turnovers :
             inbox' = inbox \o first \o
                      [i \in DOMAIN turns |-> Gate!Message("granted", turns[i], NoTab)]
  <2> PICK turns \in Turnovers :
             inbox' = inbox \o first \o
                      [i \in DOMAIN turns |-> Gate!Message("granted", turns[i], NoTab)]
    BY <1>3
  <2> DEFINE last == [i \in DOMAIN turns |-> Gate!Message("granted", turns[i], NoTab)]
  <2>1. DOMAIN turns = 1..n /\ \A i \in 1..n : turns[i] \in granted' \ granted
    BY DEF Turnovers
  <2>2. \A i \in 1..n : Gate!Message("granted", turns[i], NoTab) \in Letter
    <3> SUFFICES ASSUME NEW i \in 1..n PROVE Gate!Message("granted", turns[i], NoTab) \in Letter
      OBVIOUS
    <3>1. turns[i] \in Request
      BY <1>1, <2>1
    <3>2. NoTab \in Argument
      BY DEF Argument
    <3> QED
      BY <3>1, <3>2, LetterMade
  <2>3. /\ last \in Seq(Letter) /\ Len(last) = n
        /\ \A i \in 1..n : \E r \in granted' \ granted :
              last[i] = Gate!Message("granted", r, NoTab)
    <3> HIDE DEF n
    <3>1. last = [i \in 1..n |-> Gate!Message("granted", turns[i], NoTab)]
      BY <2>1
    <3>2. last \in [1..n -> Letter]
      BY <2>2, <3>1
    <3> QED
      BY <1>1, <2>1, <3>1, <3>2
  <2>4. inbox' = inbox \o first \o last /\ inbox \in Seq(Letter)
    BY DEF StreamsOK
  <2> HIDE DEF last
  <2>5. /\ inbox' \in Seq(Letter)
        /\ \A i \in DOMAIN inbox' :
              \/ i \in DOMAIN inbox /\ inbox'[i] = inbox[i]
              \/ i = Len(inbox) + 1 /\ i \notin DOMAIN inbox /\ inbox'[i] \in ToSet(first)
              \/ inbox'[i] \in ToSet(last)
    <3> DEFINE all == inbox \o first \o last
    <3>1. last \in Seq(Letter)
      BY <2>3
    <3>2. /\ all \in Seq(Letter)
          /\ \A i \in DOMAIN all :
                \/ i \in DOMAIN inbox /\ all[i] = inbox[i]
                \/ i = Len(inbox) + 1 /\ i \notin DOMAIN inbox /\ all[i] \in ToSet(first)
                \/ all[i] \in ToSet(last)
      BY <2>4, <3>1, JoinThree, Zenon
    <3>3. inbox' = all
      BY <2>4
    <3> HIDE DEF all
    <3> QED
      BY <3>2, <3>3
  <2>6. ASSUME NEW m \in ToSet(last)
        PROVE  /\ m \notin ToSet(first)
               /\ \E r \in granted' \ granted : m = Gate!Message("granted", r, NoTab)
    <3>1. PICK i \in DOMAIN last : m = last[i]
      BY DEF ToSet
    <3>2. i \in 1..n
      BY <2>3, <3>1
    <3>3. \A r \in granted' \ granted : Gate!Message("granted", r, NoTab) \notin ToSet(first)
      BY DEF Gate!Message
    <3> QED
      BY <2>3, <3>1, <3>2, <3>3
  <2> QED
    BY <2>5, <2>6 DEF Told
<1> QED
  BY <1>2, <1>3 DEF Send

-----------------------------------------------------------------------------
(* The invariant. *)

Read == [document : Nat, url : Url \cup {"none"}]

Work == [stage : {"none", "resolve", "wait", "recheck", "run"}, gated : BOOLEAN,
         tab : Tab \cup {NoTab}, grant : Nat, turn : {"none", "granted", "rejected"},
         first : Read, read : Read, aborted : BOOLEAN, queuedOn : Nat, turnOn : Nat]

GateOK ==
    /\ page \in [Tab -> [document : Nat, url : Url]]
    /\ loads \in Nat /\ heard \in [Tab -> Nat]
    /\ window \in Nat /\ grants \in Nat
    /\ work \in [Request -> Work]

\* Documents are numbered as they load, and the worker hears of them later.
PagesOK ==
    \A at \in Tab : heard[at] <= page[at].document /\ page[at].document <= loads

\* Nobody has been told anything of r's turn.
Untouched(r) ==
    /\ ~In("granted", r) /\ Reported(r) = {} /\ ~Out("response", r)
    /\ r \notin ready

\* A request is asked once, and answered when the worker has forgotten it.
RequestOK(r) ==
    /\ r \notin used => work[r].stage = "none" /\ ~In("request", r) /\ Untouched(r)
    /\ In("request", r) \/ work[r].stage = "resolve" => Untouched(r)
    /\ In("request", r) \/ Out("response", r) => work[r].stage = "none"
    /\ work[r].stage = "resolve" => work[r].turn = "none" /\ work[r].read = Gate!NoRead
    /\ work[r].stage \in {"wait", "recheck"} => work[r].gated

\* r has been queued for its tab, has its turn or runs.
Engaged(r) == work[r].gated /\ work[r].stage \in {"wait", "recheck", "run"}

\* The daemon and the extension mean the same tab, and a turn the extension
\* knows of is one the daemon gave and has not given to another.
TurnTold(r) ==
    Engaged(r) =>
        /\ work[r].tab \in Tab
        /\ Reported(r) \subseteq {work[r].tab}
        /\ r \in ready => tab[r] = work[r].tab
        /\ work[r].turn = "granted" \/ In("granted", r) => r \in granted \cup forgone
        /\ work[r].stage \in {"recheck", "run"} => work[r].turn = "granted"

\* What was read of the page is no older than the moment r was queued, and no
\* load had been heard of by the time of its turn.
PageSeen(r) ==
    Engaged(r) =>
        /\ work[r].queuedOn <= page[work[r].tab].document
        /\ work[r].turn = "none" => heard[work[r].tab] <= work[r].queuedOn
        /\ work[r].turn = "granted" => work[r].turnOn <= work[r].queuedOn
        /\ ~PreemptsCanceled(r) /\ work[r].read # Gate!NoRead =>
              work[r].queuedOn <= work[r].read.document
        /\ ~PreemptsCanceled(r) /\ work[r].stage \in {"recheck", "run"} =>
              work[r].queuedOn <= work[r].first.document
        /\ work[r].stage = "run" => work[r].read = work[r].first

\* Of two slots of one tab, one is canceled and the other a navigation.
Takeovers ==
    \A r, s \in granted : r # s /\ Target[r] = Target[s] /\ tab[r] = tab[s] =>
        \/ r \in canceled /\ PreemptsCanceled(s)
        \/ s \in canceled /\ PreemptsCanceled(r)

TurnsTold == \A r \in Request : RequestOK(r) /\ TurnTold(r)
PagesSeen == PagesOK /\ \A r \in Request : PageSeen(r)

BridgeInv == IInv /\ Takeovers /\ StreamsOK /\ GateOK /\ TurnsTold /\ PagesSeen

-----------------------------------------------------------------------------
(* Steps of the daemon. *)

\* No step makes a third turn of a tab.
LEMMA TakeoversStep ==
    ASSUME IInv, IInv', Takeovers, TurnStep PROVE Takeovers'
<1> SUFFICES ASSUME NEW r \in granted', NEW s \in granted', r # s,
                    Target[r] = Target[s], tab'[r] = tab'[s]
             PROVE  \/ r \in canceled' /\ PreemptsCanceled(s)
                    \/ s \in canceled' /\ PreemptsCanceled(r)
  BY DEF Takeovers
<1>1. CASE r \in granted /\ s \in granted
  BY <1>1 DEF TurnStep, Takeovers, IInv, TurnsOK
<1>2. CASE r \notin granted
  BY <1>2 DEF TurnStep, IInv, TurnsOK, OneRunningPerTab
<1>3. CASE s \notin granted
  BY <1>3 DEF TurnStep, IInv, TurnsOK, OneRunningPerTab
<1> QED
  BY <1>1, <1>2, <1>3

\* What a step may do to request r without disturbing what is known of it.
Same(r) ==
    /\ work'[r].stage = work[r].stage /\ work'[r].gated = work[r].gated
    /\ work'[r].tab = work[r].tab /\ work'[r].turn = work[r].turn
    /\ work'[r].first = work[r].first /\ work'[r].read = work[r].read
    /\ work'[r].queuedOn = work[r].queuedOn /\ work'[r].turnOn = work[r].turnOn

Frame(r) ==
    /\ Same(r)
    /\ In("request", r)' => In("request", r)
    /\ In("granted", r)' => In("granted", r) \/ r \in granted'
    /\ Reported(r)' \subseteq Reported(r)
    /\ Out("response", r)' => Out("response", r)
    /\ r \in ready' => (r \in ready /\ tab'[r] = tab[r]) \/ tab'[r] \in Reported(r)
    /\ r \in granted' => r \in ready'
    /\ r \in used => r \in used'
    /\ r \in granted \cup forgone => r \in granted' \cup forgone' \/ work[r].stage = "none"

\* What such a step leaves alone stays known.
LEMMA FrameKeeps ==
    ASSUME NEW r, RequestOK(r), TurnTold(r), Frame(r) PROVE RequestOK(r)' /\ TurnTold(r)'
<1>1. Untouched(r) => Untouched(r)'
  BY DEF Untouched, Frame
<1>2. RequestOK(r)'
  BY <1>1 DEF RequestOK, Frame, Same
<1>3. TurnTold(r)'
  BY DEF TurnTold, Engaged, Frame, Same
<1> QED
  BY <1>2, <1>3

\* So does what was read of a page that stays.
LEMMA SamePage ==
    ASSUME NEW r, PageSeen(r), Same(r), UNCHANGED <<page, heard>> PROVE PageSeen(r)'
BY DEF PageSeen, Engaged, Same

\* The other end takes the first message.
LEMMA TailShifts ==
    ASSUME NEW s \in Seq(Letter), s # <<>>
    PROVE  /\ Head(s) \in Letter /\ 1 \in DOMAIN s /\ Head(s) = s[1]
           /\ Tail(s) \in Seq(Letter)
           /\ \A i \in DOMAIN Tail(s) :
                 i + 1 \in DOMAIN s /\ Tail(s)[i] = s[i + 1] /\ i # 0 /\ i \in Nat
OBVIOUS

\* A step of the daemon takes at most one message off the wire.
Taken == UNCHANGED outbox \/ (outbox # <<>> /\ outbox' = Tail(outbox))

\* Taking a message adds nothing to what is on its way.
LEMMA OutTaken ==
    ASSUME StreamsOK, Taken
    PROVE  /\ outbox' \in Seq(Letter)
           /\ \A r : /\ Reported(r)' \subseteq Reported(r)
                     /\ Out("response", r)' => Out("response", r)
<1>1. CASE UNCHANGED outbox
  BY <1>1 DEF StreamsOK, Reported, Out
<1>2. CASE outbox # <<>> /\ outbox' = Tail(outbox)
  <2>1. /\ outbox' \in Seq(Letter)
        /\ \A i \in DOMAIN outbox' : i + 1 \in DOMAIN outbox /\ outbox'[i] = outbox[i + 1]
    BY <1>2, TailShifts DEF StreamsOK
  <2>2. \A r : Out("response", r)' => Out("response", r)
    BY <2>1 DEF Out
  <2>3. \A r : Reported(r)' \subseteq Reported(r)
    BY <2>1 DEF Reported
  <2> QED
    BY <2>1, <2>2, <2>3
<1> QED
  BY <1>1, <1>2 DEF Taken

\* What is new on the way to the extension is in M or a grant of this step.
LEMMA ToldIn ==
    ASSUME NEW M, Told(M), NEW kind, NEW r, In(kind, r)'
    PROVE  \/ In(kind, r)
           \/ \E m \in M : m.kind = kind /\ m.id = r
           \/ kind = "granted" /\ r \in granted'
<1>1. PICK i \in DOMAIN inbox' : inbox'[i].kind = kind /\ inbox'[i].id = r
  BY DEF In
<1>2. \A q \in granted' \ granted : /\ Gate!Message("granted", q, NoTab).kind = "granted"
                                    /\ Gate!Message("granted", q, NoTab).id = q
  BY DEF Gate!Message
<1> QED
  BY <1>1, <1>2 DEF Told, In

\* The stream stays well formed under what the daemon sends.
LEMMA StreamsTold ==
    ASSUME StreamsOK, IInv', outbox' \in Seq(Letter), NEW M, Told(M),
           \A m \in M : /\ m.kind # "granted"
                        /\ m.kind = "request" =>
                              m.id \in Request /\ m.arg \in BOOLEAN /\ ~In("request", m.id)
    PROVE  StreamsOK'
<1>1. granted' \subseteq Request
  BY GrantsFinite
<1>2. \A q : /\ Gate!Message("granted", q, NoTab).kind = "granted"
             /\ Gate!Message("granted", q, NoTab).id = q
  BY DEF Gate!Message
<1>3. \A i \in DOMAIN inbox' :
        inbox'[i].kind \in {"request", "granted"} => inbox'[i].id \in Request
  BY <1>1, <1>2 DEF Told, StreamsOK
<1>4. \A i \in DOMAIN inbox' : inbox'[i].kind = "request" => inbox'[i].arg \in BOOLEAN
  BY <1>2 DEF Told, StreamsOK
<1>5. ASSUME NEW i \in DOMAIN inbox', NEW j \in DOMAIN inbox',
             inbox'[i].kind = "request", inbox'[j].kind = "request", inbox'[i].id = inbox'[j].id
      PROVE  i = j
  <2>1. \A k \in DOMAIN inbox' : inbox'[k].kind = "request" =>
           \/ k \in DOMAIN inbox /\ inbox'[k] = inbox[k]
           \/ k \notin DOMAIN inbox /\ inbox'[k] \in M
    BY <1>2 DEF Told
  <2>2. CASE i \in DOMAIN inbox /\ j \in DOMAIN inbox
    BY <1>5, <2>1, <2>2 DEF StreamsOK
  <2>3. CASE i \notin DOMAIN inbox /\ j \notin DOMAIN inbox
    BY <1>5, <2>1, <2>3 DEF Told
  <2>4. CASE i \in DOMAIN inbox /\ j \notin DOMAIN inbox
    BY <1>5, <2>1, <2>4 DEF In
  <2>5. CASE i \notin DOMAIN inbox /\ j \in DOMAIN inbox
    BY <1>5, <2>1, <2>5 DEF In
  <2> QED
    BY <2>2, <2>3, <2>4, <2>5
<1>6. inbox' \in Seq(Letter)
  BY DEF Told
<1> QED
  BY <1>3, <1>4, <1>5, <1>6 DEF StreamsOK

\* The turns a step of the daemon takes from requests the extension knows are
\* given up in plain sight, and tabs are learned from what was reported.
TurnsFollow ==
    /\ \A r \in granted \ granted' : r \in forgone' \/ r \notin Request \/ work[r].stage = "none"
    /\ \A r \in ready' : (r \in ready /\ tab'[r] = tab[r]) \/ tab'[r] \in Reported(r)

\* Any step of the daemon that keeps to TurnsFollow keeps the invariant.
LEMMA DaemonKeeps ==
    ASSUME BridgeInv, IInv', TurnStep, TurnsFollow,
           UNCHANGED <<page, loads, heard, window, grants, work>>,
           used \subseteq used', forgone \subseteq forgone',
           Taken, NEW M, Told(M), \A m \in M : m.kind \notin {"request", "granted"}
    PROVE  BridgeInv'
<1>1. Takeovers'
  BY TakeoversStep DEF BridgeInv
<1>2. /\ outbox' \in Seq(Letter)
      /\ \A r : /\ Reported(r)' \subseteq Reported(r)
                /\ Out("response", r)' => Out("response", r)
  BY OutTaken DEF BridgeInv
<1>3. StreamsOK'
  BY <1>2, StreamsTold DEF BridgeInv
<1>4. GateOK' /\ PagesOK'
  BY DEF BridgeInv, GateOK, PagesSeen, PagesOK
<1>5. ASSUME NEW r \in Request PROVE RequestOK(r)' /\ TurnTold(r)' /\ PageSeen(r)'
  <2>1. Same(r)
    BY DEF Same
  <2>2. /\ In("request", r)' => In("request", r)
        /\ In("granted", r)' => In("granted", r) \/ r \in granted'
    BY ToldIn
  <2>3. granted' \subseteq ready'
    BY DEF IInv, TurnsOK
  <2>4. Frame(r)
    BY <1>2, <2>1, <2>2, <2>3 DEF Frame, TurnsFollow
  <2> QED
    BY <2>1, <2>4, FrameKeeps, SamePage DEF BridgeInv, TurnsTold, PagesSeen
<1> QED
  BY <1>1, <1>3, <1>4, <1>5 DEF BridgeInv, TurnsTold, PagesSeen

\* What ends a request's place in line takes no tab back and no other's turn.
StaysReady == \A r \in ready' : r \in ready /\ tab'[r] = tab[r]

\* removeMutation reports no tab.
LEMMA RemoveStays ==
    ASSUME IInv, NEW r \in entries, RemoveMutation(r) PROVE StaysReady
BY DEF RemoveMutation, StaysReady, IInv, LineOK

\* Neither does finish().
LEMMA FinishStays == ASSUME IInv, NEW r, Finish(r) PROVE StaysReady
<1>1. CASE r \in entries /\ RemoveMutation(r)
  BY <1>1, RemoveStays
<1> QED
  BY <1>1 DEF Finish, CancelMutation, scheduler, StaysReady

\* What Send puts on the wire when it has only grants to tell.
LEMMA SendNothing ==
    ASSUME IInv', StreamsOK, Send(<<>>) PROVE Told({})
<1>1. <<>> \in Seq(Letter) /\ Len(<<>>) <= 1 /\ ToSet(<<>>) = {}
  BY DEF ToSet
<1>2. Told(ToSet(<<>>))
  BY <1>1, SendTold
<1> QED
  BY <1>1, <1>2

\* What Send puts on the wire with a message of its own.
LEMMA SendMessage ==
    ASSUME IInv', StreamsOK, NEW m \in Letter, m.kind # "granted", Send(<<m>>) PROVE Told({m})
<1>1. <<m>> \in Seq(Letter) /\ Len(<<m>>) <= 1 /\ ToSet(<<m>>) = {m}
  BY DEF ToSet
<1>2. Told(ToSet(<<m>>))
  BY <1>1, SendTold
<1> QED
  BY <1>1, <1>2

\* A step that sends nothing.
LEMMA NothingTold == ASSUME StreamsOK, UNCHANGED inbox PROVE Told({})
BY DEF StreamsOK, Told

\* What is proved of every step of the scheduler holds of every step here.
LEMMA SchedulerSide ==
    ASSUME IInv, [BridgeNext]_bridgeVars PROVE IInv' /\ TurnStep
<1>1. [Next]_vars
  BY BridgeStep DEF IInv
<1> QED
  BY <1>1, SchedulerNext, EveryTurnStep

\* A request is sent that neither side has heard of.
LEMMA AskKeeps ==
    ASSUME BridgeInv, IInv', TurnStep, NEW r \in Request, Ask(r) PROVE BridgeInv'
<1> DEFINE noted == r \in marked'
           m == Gate!Message("request", r, noted)
<1>1. /\ r \notin used /\ used' = used \cup {r} /\ Route(r)
      /\ UNCHANGED <<extension, forgone>> /\ Send(<<m>>)
  BY DEF Ask
<1>2. noted \in BOOLEAN
  OBVIOUS
<1> HIDE DEF noted
<1>3. m \in Letter /\ m.kind = "request" /\ m.id = r /\ m.arg = noted
  BY <1>2, LetterMade DEF Argument
<1> HIDE DEF m
<1>4. Told({m})
  BY <1>1, <1>3, SendMessage DEF BridgeInv
<1>5. /\ UNCHANGED <<page, loads, heard, window, grants, work, outbox>>
      /\ UNCHANGED <<ready, granted>>
      /\ \A s \in ready : tab'[s] = tab[s]
  BY <1>1 DEF extension, Route, ScheduleMutation, scheduler, BridgeInv, IInv, LineOK
<1>6. RequestOK(r) /\ TurnTold(r)
  BY DEF BridgeInv, TurnsTold
<1>7. work[r].stage = "none" /\ ~In("request", r) /\ Untouched(r)
  BY <1>1, <1>6 DEF RequestOK
<1>8. Takeovers'
  BY TakeoversStep DEF BridgeInv
<1>9. StreamsOK'
  <2>1. outbox' \in Seq(Letter)
    BY <1>5 DEF BridgeInv, StreamsOK
  <2> QED
    BY <1>2, <1>3, <1>4, <1>7, <2>1, StreamsTold DEF BridgeInv
<1>10. GateOK' /\ PagesOK'
  BY <1>5 DEF BridgeInv, GateOK, PagesSeen, PagesOK
<1>11. ASSUME NEW s \in Request PROVE RequestOK(s)' /\ TurnTold(s)' /\ PageSeen(s)'
  <2>1. /\ Same(s) /\ PageSeen(s)'
        /\ Reported(s)' = Reported(s) /\ (Out("response", s)' <=> Out("response", s))
    BY <1>5, SamePage DEF Same, BridgeInv, PagesSeen, Reported, Out
  <2>2. In("granted", s)' => In("granted", s) \/ s \in granted'
    BY <1>3, <1>4, ToldIn
  <2>3. CASE s # r
    <3>1. In("request", s)' => In("request", s)
      BY <1>3, <1>4, <2>3, ToldIn
    <3>2. Frame(s)
      BY <1>1, <1>5, <2>1, <2>2, <3>1 DEF Frame, BridgeInv, IInv, TurnsOK
    <3> QED
      BY <2>1, <3>2, FrameKeeps DEF BridgeInv, TurnsTold
  <2>4. CASE s = r
    <3>1. Untouched(s)'
      BY <1>5, <1>7, <2>1, <2>2, <2>4 DEF Untouched, BridgeInv, IInv, TurnsOK
    <3>2. RequestOK(s)' /\ TurnTold(s)'
      BY <1>1, <1>5, <1>7, <2>1, <2>4, <3>1 DEF RequestOK, TurnTold, Engaged, Same, Untouched
    <3> QED
      BY <2>1, <3>2
  <2> QED
    BY <2>3, <2>4
<1> QED
  BY <1>8, <1>9, <1>10, <1>11 DEF BridgeInv, TurnsTold, PagesSeen

\* A cancellation is neither a request nor a grant.
LEMMA CanceledTold ==
    ASSUME IInv', StreamsOK, NEW r \in Request, Send(Canceled(r))
    PROVE  \E M : Told(M) /\ \A m \in M : m.kind \notin {"request", "granted"}
<1> DEFINE m == Gate!Message("cancelled", r, NoTab)
<1>1. m \in Letter /\ m.kind = "cancelled"
  BY LetterMade DEF Argument
<1>2. Send(<<m>>)
  BY DEF Canceled
<1> HIDE DEF m
<1>3. Told({m})
  BY <1>1, <1>2, SendMessage
<1> QED
  BY <1>1, <1>3

\* The daemon cancels, times out, revokes or abandons a request.
LEMMA GiveUpKeeps ==
    ASSUME BridgeInv, IInv', TurnStep, NEW r \in Request, GiveUp(r) PROVE BridgeInv'
<1>1. Finish(r) /\ UNCHANGED <<extension, used, forgone>>
  BY DEF GiveUp, Cancel, Timeout, RevokeRequest, AbandonRequest
<1>2. granted \subseteq granted' /\ StaysReady
  BY <1>1, FinishSlot, FinishStays DEF BridgeInv
<1>3. TurnsFollow
  BY <1>2 DEF TurnsFollow, StaysReady
<1>4. PICK M : Told(M) /\ \A m \in M : m.kind \notin {"request", "granted"}
  BY CanceledTold DEF GiveUp, BridgeInv
<1>5. Taken /\ UNCHANGED <<page, loads, heard, window, grants, work>>
  BY <1>1 DEF Taken, extension
<1> QED
  BY <1>1, <1>3, <1>4, <1>5, DaemonKeeps

\* A canceled slot expires.
LEMMA ReleaseKeeps ==
    ASSUME BridgeInv, IInv', TurnStep, NEW r \in Request, ReleaseExpired(r) PROVE BridgeInv'
<1>1. /\ r \in entries /\ RemoveMutation(r) /\ Send(<<>>)
      /\ UNCHANGED <<extension, used>> /\ forgone' = forgone \cup {r}
  BY DEF ReleaseExpired, Expire
<1>2. granted \ granted' \subseteq {r} /\ StaysReady
  BY <1>1, RemoveSlot, RemoveStays DEF BridgeInv
<1>3. TurnsFollow
  BY <1>1, <1>2 DEF TurnsFollow, StaysReady
<1>4. Told({}) /\ Taken /\ UNCHANGED <<page, loads, heard, window, grants, work>>
  BY <1>1, SendNothing DEF BridgeInv, Taken, extension
<1> QED
  BY <1>1, <1>3, <1>4, DaemonKeeps

\* Connections come and go, as far as the daemon has read it.
LEMMA PeersKeep ==
    ASSUME BridgeInv, IInv', TurnStep,
           \/ \E p \in Agent : AgentArrives(p) \/ AgentLeaves(p)
           \/ BrowserLeaves \/ Register
    PROVE  BridgeInv'
<1>1. UNCHANGED <<extension, scheduler, inbox, used, forgone>>
  BY DEF AgentArrives, AgentLeaves, BrowserLeaves, Register, Connect, Disconnect, channels
<1>2. TurnsFollow
  BY <1>1 DEF TurnsFollow, scheduler
<1>3. Told({}) /\ Taken /\ UNCHANGED <<page, loads, heard, window, grants, work>>
  BY <1>1, NothingTold DEF BridgeInv, Taken, extension
<1> QED
  BY <1>1, <1>2, <1>3, DaemonKeeps

\* The loops of access revocation and of disconnection end.
LEMMA EndKeeps ==
    ASSUME BridgeInv, IInv', TurnStep, EndOfLoop PROVE BridgeInv'
<1>1. /\ UNCHANGED <<extension, used>> /\ forgone' = forgone \cup (granted \ granted')
      /\ RevokeDone \/ DisconnectDone
  BY DEF EndOfLoop
<1>2. StaysReady
  BY <1>1 DEF RevokeDone, DisconnectDone, scheduler, StaysReady, BridgeInv, IInv, LineOK
<1>3. TurnsFollow
  BY <1>1, <1>2 DEF TurnsFollow, StaysReady
<1>4. \E M : Told(M) /\ \A m \in M : m.kind \notin {"request", "granted"}
  <2>1. CASE walking \in Agent
    <3> DEFINE m == Gate!Message("ownerGone", walking, NoTab)
    <3>1. m \in Letter /\ m.kind = "ownerGone"
      BY <2>1, LetterMade DEF Argument
    <3>2. Send(<<m>>)
      BY <2>1 DEF EndOfLoop
    <3> HIDE DEF m
    <3>3. Told({m})
      BY <3>1, <3>2, SendMessage DEF BridgeInv
    <3> QED
      BY <3>1, <3>3
  <2>2. CASE walking \notin Agent
    <3>1. Send(<<>>)
      BY <2>2 DEF EndOfLoop
    <3>2. Told({})
      BY <3>1, SendNothing DEF BridgeInv
    <3> QED
      BY <3>2
  <2> QED
    BY <2>1, <2>2
<1>5. Taken /\ UNCHANGED <<page, loads, heard, window, grants, work>>
  BY <1>1 DEF Taken, extension
<1> QED
  BY <1>1, <1>3, <1>4, <1>5, DaemonKeeps

\* The daemon handles a message of the extension.
LEMMA ReceivesKeeps ==
    ASSUME BridgeInv, IInv', TurnStep, DaemonReceives PROVE BridgeInv'
<1> DEFINE m == Head(outbox)
<1>1. /\ outbox # <<>> /\ outbox' = Tail(outbox) /\ Receive(m)
      /\ UNCHANGED <<page, loads, heard, window, grants, work, used, forgone>>
  BY DEF DaemonReceives
<1>2. Taken /\ outbox \in Seq(Letter)
  BY <1>1 DEF Taken, BridgeInv, StreamsOK
<1>3. /\ m.kind = "ready" => m.arg \in Reported(m.id)
      /\ m.kind = "response" => Out("response", m.id)
  BY <1>1, <1>2, TailShifts DEF Reported, Out
<1> HIDE DEF m
<1>4. CASE m.kind = "identity" /\ Identity(Browser) /\ Send(<<>>)
  <2>1. TurnsFollow
    BY <1>4 DEF Identity, scheduler, TurnsFollow
  <2>2. Told({})
    BY <1>4, SendNothing DEF BridgeInv
  <2> QED
    BY <1>1, <1>2, <2>1, <2>2, DaemonKeeps
<1>5. CASE /\ m.kind = "access" /\ Send(<<>>)
           /\ AccessGranted(Browser) \/ AccessRevoked(Browser)
  <2>1. granted \subseteq granted' /\ UNCHANGED <<ready, tab>>
    BY <1>5 DEF AccessGranted, AccessRevoked, GrantMutations, scheduler, BridgeInv, IInv,
                LineOK, TurnsOK
  <2>2. TurnsFollow
    BY <2>1 DEF TurnsFollow
  <2>3. Told({})
    BY <1>5, SendNothing DEF BridgeInv
  <2> QED
    BY <1>1, <1>2, <2>2, <2>3, DaemonKeeps
<1>6. CASE /\ m.kind = "ready" /\ MutationReady(m.id, m.arg)
           /\ Send(IF m.id \in pending \ pending' THEN Canceled(m.id) ELSE <<>>)
  <2>1. m.id \in Request /\ m.id \in entries \ ready
    BY <1>6 DEF MutationReady, BridgeInv, IInv, TypeOK
  <2>2. TurnsFollow
    <3>1. CASE Finish(m.id)
      <4>1. granted \subseteq granted' /\ StaysReady
        BY <3>1, FinishSlot, FinishStays DEF BridgeInv
      <4> QED
        BY <4>1 DEF TurnsFollow, StaysReady
    <3>2. CASE /\ tab' = [tab EXCEPT ![m.id] = m.arg] /\ ready' = ready \cup {m.id}
               /\ UNCHANGED entries /\ GrantMutations(Target[m.id])
      <4>1. granted \subseteq granted'
        BY <3>2 DEF GrantMutations, BridgeInv, IInv, LineOK, TurnsOK
      <4>2. \A r \in ready' : (r \in ready /\ tab'[r] = tab[r]) \/ tab'[r] \in Reported(r)
        <5>1. tab \in [Request -> Tab \cup {NoTab}] /\ ready \subseteq Request
          BY DEF BridgeInv, IInv, LineOK
        <5>2. tab'[m.id] \in Reported(m.id)
          BY <1>3, <1>6, <2>1, <3>2, <5>1
        <5> QED
          BY <2>1, <3>2, <5>1, <5>2
      <4> QED
        BY <4>1, <4>2 DEF TurnsFollow
    <3> QED
      BY <1>6, <3>1, <3>2 DEF MutationReady
  <2>3. \E M : Told(M) /\ \A n \in M : n.kind \notin {"request", "granted"}
    <3>1. CASE Send(Canceled(m.id))
      BY <2>1, <3>1, CanceledTold DEF BridgeInv
    <3>2. CASE Send(<<>>)
      <4>1. Told({})
        BY <3>2, SendNothing DEF BridgeInv
      <4> QED
        BY <4>1
    <3> QED
      BY <1>6, <3>1, <3>2
  <2> QED
    BY <1>1, <1>2, <2>2, <2>3, DaemonKeeps
<1>7. CASE /\ m.kind = "response" /\ m.id \in unsettled /\ Send(<<>>)
           /\ Response(m.id, FALSE) \/ LateResponse(m.id)
  <2>1. m.id \in Request /\ work[m.id].stage = "none"
    BY <1>3, <1>7 DEF BridgeInv, IInv, TypeOK, TurnsTold, RequestOK
  <2>2. (m.id \in entries /\ RemoveMutation(m.id)) \/ UNCHANGED scheduler
    BY <1>7 DEF Response, LateResponse
  <2>3. granted \ granted' \subseteq {m.id} /\ StaysReady
    <3>1. CASE m.id \in entries /\ RemoveMutation(m.id)
      BY <3>1, RemoveSlot, RemoveStays DEF BridgeInv
    <3>2. CASE UNCHANGED scheduler
      BY <3>2 DEF scheduler, StaysReady
    <3> QED
      BY <2>2, <3>1, <3>2
  <2>4. TurnsFollow
    BY <2>1, <2>3 DEF TurnsFollow, StaysReady
  <2>5. Told({})
    BY <1>7, SendNothing DEF BridgeInv
  <2> QED
    BY <1>1, <1>2, <2>4, <2>5, DaemonKeeps
<1>8. CASE UNCHANGED <<vars, inbox>>
  <2>1. UNCHANGED <<granted, ready, tab, inbox>>
    BY <1>8 DEF vars
  <2>2. TurnsFollow /\ Told({})
    BY <2>1, NothingTold DEF TurnsFollow, BridgeInv
  <2> QED
    BY <1>1, <1>2, <2>2, DaemonKeeps
<1> QED
  BY <1>1, <1>4, <1>5, <1>6, <1>7, <1>8 DEF Receive

-----------------------------------------------------------------------------
(* Steps of the extension. *)

\* The daemon does nothing, and the extension is told nothing new.
Quiet ==
    /\ UNCHANGED <<vars, used, forgone>>
    /\ inbox' \in {inbox, <<>>} \/ (inbox # <<>> /\ inbox' = Tail(inbox))

\* The stream stays well formed when a message is taken off it or it breaks.
LEMMA QuietStreams ==
    ASSUME StreamsOK, outbox' \in Seq(Letter), Quiet
    PROVE  StreamsOK' /\ \A kind, r : In(kind, r)' => In(kind, r)
<1>1. CASE inbox' = inbox
  BY <1>1 DEF StreamsOK, In
<1>2. CASE inbox' = <<>>
  BY <1>2 DEF StreamsOK, In
<1>3. CASE inbox # <<>> /\ inbox' = Tail(inbox)
  <2>1. /\ inbox' \in Seq(Letter)
        /\ \A i \in DOMAIN inbox' : /\ i + 1 \in DOMAIN inbox /\ inbox'[i] = inbox[i + 1]
                                    /\ i \in Nat
    BY <1>3, TailShifts DEF StreamsOK
  <2>2. /\ \A i \in DOMAIN inbox' :
              inbox'[i].kind \in {"request", "granted"} => inbox'[i].id \in Request
        /\ \A i \in DOMAIN inbox' : inbox'[i].kind = "request" => inbox'[i].arg \in BOOLEAN
    BY <2>1 DEF StreamsOK
  <2>3. \A i, j \in DOMAIN inbox' :
          inbox'[i].kind = "request" /\ inbox'[j].kind = "request" /\ inbox'[i].id = inbox'[j].id
          => i = j
    <3> SUFFICES ASSUME NEW i \in DOMAIN inbox', NEW j \in DOMAIN inbox',
                        inbox'[i].kind = "request", inbox'[j].kind = "request",
                        inbox'[i].id = inbox'[j].id
                 PROVE  i = j
      OBVIOUS
    <3>1. i + 1 = j + 1
      BY <2>1 DEF StreamsOK
    <3> QED
      BY <2>1, <3>1
  <2> QED
    BY <2>1, <2>2, <2>3 DEF StreamsOK, In
<1> QED
  BY <1>1, <1>2, <1>3 DEF Quiet

\* What the extension posts.
LEMMA PostedOut ==
    ASSUME StreamsOK, NEW kind \in {"ready", "response", "access", "identity"},
           NEW q \in Request \cup {NoTab}, NEW arg \in Argument,
           \/ UNCHANGED outbox
           \/ outbox' = Append(outbox, Gate!Message(kind, q, arg))
    PROVE  /\ outbox' \in Seq(Letter)
           /\ \A r : Out("response", r)' => Out("response", r) \/ (kind = "response" /\ r = q)
           /\ \A r : Reported(r)' \subseteq
                      Reported(r) \cup (IF kind = "ready" /\ r = q THEN {arg} ELSE {})
<1> DEFINE m == Gate!Message(kind, q, arg)
<1>1. m \in Letter /\ m.kind = kind /\ m.id = q /\ m.arg = arg
  BY LetterMade
<1> HIDE DEF m
<1>2. CASE UNCHANGED outbox
  BY <1>2 DEF StreamsOK, Out, Reported
<1>3. CASE outbox' = Append(outbox, m)
  <2>1. /\ outbox' \in Seq(Letter)
        /\ \A i \in DOMAIN outbox' :
              (i \in DOMAIN outbox /\ outbox'[i] = outbox[i]) \/ outbox'[i] = m
    BY <1>1, <1>3 DEF StreamsOK
  <2>2. \A r : Out("response", r)' => Out("response", r) \/ (kind = "response" /\ r = q)
    BY <1>1, <2>1 DEF Out
  <2>3. \A r : Reported(r)' \subseteq
                 Reported(r) \cup (IF kind = "ready" /\ r = q THEN {arg} ELSE {})
    BY <1>1, <2>1 DEF Reported
  <2> QED
    BY <2>1, <2>2, <2>3
<1> QED
  BY <1>2, <1>3 DEF m

\* A quiet step that does nothing to r and posts nothing of it.
LEMMA QuietFrame ==
    ASSUME BridgeInv, Quiet, outbox' \in Seq(Letter), NEW r, Same(r),
           Reported(r)' \subseteq Reported(r), Out("response", r)' => Out("response", r)
    PROVE  Frame(r)
<1>1. \A kind : In(kind, r)' => In(kind, r)
  BY QuietStreams DEF BridgeInv
<1>2. UNCHANGED <<granted, ready, tab, used, forgone>> /\ granted \subseteq ready
  BY DEF Quiet, vars, BridgeInv, IInv, TurnsOK
<1> QED
  BY <1>1, <1>2 DEF Frame

\* A step of the extension that keeps what is known of every request.
LEMMA ExtensionKeeps ==
    ASSUME BridgeInv, IInv', Quiet, outbox' \in Seq(Letter), GateOK', PagesOK',
           \A r \in Request : RequestOK(r)' /\ TurnTold(r)' /\ PageSeen(r)'
    PROVE  BridgeInv'
<1>1. StreamsOK'
  BY QuietStreams DEF BridgeInv
<1>2. Takeovers'
  BY DEF Quiet, vars, Takeovers, BridgeInv
<1> QED
  BY <1>1, <1>2 DEF BridgeInv, TurnsTold, PagesSeen

\* A step that is about request q.
LEMMA OneWorks ==
    ASSUME BridgeInv, IInv', Quiet, outbox' \in Seq(Letter),
           UNCHANGED <<page, loads, heard, window, grants>>,
           NEW q \in Request, NEW w \in Work, work' = [work EXCEPT ![q] = w],
           \A r \in Request \ {q} : /\ Reported(r)' \subseteq Reported(r)
                                    /\ Out("response", r)' => Out("response", r),
           RequestOK(q)' /\ TurnTold(q)' /\ PageSeen(q)'
    PROVE  BridgeInv'
<1>1. GateOK' /\ PagesOK'
  BY DEF BridgeInv, GateOK, PagesSeen, PagesOK
<1>2. ASSUME NEW r \in Request \ {q} PROVE RequestOK(r)' /\ TurnTold(r)' /\ PageSeen(r)'
  <2>1. Same(r)
    BY DEF Same, BridgeInv, GateOK
  <2>2. Frame(r)
    BY <2>1, QuietFrame
  <2> QED
    BY <2>1, <2>2, FrameKeeps, SamePage DEF BridgeInv, TurnsTold, PagesSeen
<1> QED
  BY <1>1, <1>2, ExtensionKeeps

\* Lifetimes end, and nothing else happens to the requests.
LEMMA AllSame ==
    ASSUME BridgeInv, IInv', Quiet, outbox' \in Seq(Letter), GateOK',
           UNCHANGED <<page, loads, heard>>, \A r \in Request : Same(r),
           \A r \in Request : /\ Reported(r)' \subseteq Reported(r)
                              /\ Out("response", r)' => Out("response", r)
    PROVE  BridgeInv'
<1>1. PagesOK'
  BY DEF BridgeInv, PagesSeen, PagesOK
<1>2. ASSUME NEW r \in Request PROVE RequestOK(r)' /\ TurnTold(r)' /\ PageSeen(r)'
  <2>1. Frame(r)
    BY QuietFrame
  <2> QED
    BY <2>1, FrameKeeps, SamePage DEF BridgeInv, TurnsTold, PagesSeen
<1> QED
  BY <1>1, <1>2, ExtensionKeeps

\* abort() marks lifetimes and nothing else.
LEMMA AbortedSame ==
    ASSUME GateOK, NEW rs, work' = Gate!Aborted(rs)
    PROVE  work' \in [Request -> Work] /\ \A r \in Request : Same(r)
<1> SUFFICES ASSUME NEW r \in Request PROVE work'[r] \in Work /\ Same(r)
  BY DEF Gate!Aborted
<1>1. work[r] \in Work
  BY DEF GateOK
<1>2. work'[r] = work[r] \/ work'[r] = [work[r] EXCEPT !.aborted = TRUE]
  BY DEF Gate!Aborted
<1> QED
  BY <1>1, <1>2 DEF Work, Same

\* The message just handled was the only request of its id.
LEMMA HandledOnce ==
    ASSUME StreamsOK, inbox # <<>>, inbox' = Tail(inbox),
           NEW kind, NEW q, Head(inbox).kind = kind, Head(inbox).id = q
    PROVE  In(kind, q) /\ (kind = "request" => ~In("request", q)')
<1>1. /\ Head(inbox) = inbox[1] /\ 1 \in DOMAIN inbox
      /\ \A i \in DOMAIN inbox' : /\ i + 1 \in DOMAIN inbox /\ inbox'[i] = inbox[i + 1]
                                  /\ i # 0 /\ i \in Nat
  BY TailShifts DEF StreamsOK
<1>2. In(kind, q)
  BY <1>1 DEF In
<1>3. ASSUME kind = "request", In("request", q)' PROVE FALSE
  <2>1. PICK i \in DOMAIN inbox' : inbox'[i].kind = "request" /\ inbox'[i].id = q
    BY <1>3 DEF In
  <2>2. i + 1 = 1
    BY <1>1, <1>3, <2>1 DEF StreamsOK
  <2> QED
    BY <1>1, <2>2
<1> QED
  BY <1>2, <1>3

\* The extension takes up a request, or refuses it.
LEMMA BeginKeeps ==
    ASSUME BridgeInv, IInv', Quiet, NEW q \in Request, NEW gated \in BOOLEAN,
           In("request", q), ~In("request", q)', Gate!Begin(q, gated)
    PROVE  BridgeInv'
<1>0. /\ UNCHANGED <<page, loads, heard, window, grants>>
      /\ UNCHANGED <<granted, ready, tab, used, forgone>>
      /\ StreamsOK /\ window \in Nat /\ work \in [Request -> Work]
  BY DEF Gate!Begin, Quiet, vars, BridgeInv, GateOK
<1>1. \A kind, r : In(kind, r)' => In(kind, r)
  <2>1. NoTab \in Argument
    BY DEF Argument
  <2>2. outbox' \in Seq(Letter)
    BY <1>0, <2>1, PostedOut DEF Gate!Begin, Gate!Reply, Gate!PostOn
  <2> QED
    BY <1>0, <2>2, QuietStreams
<1>2. /\ q \in used /\ work[q].stage = "none" /\ Untouched(q)
  BY DEF BridgeInv, TurnsTold, RequestOK
<1>3. CASE Gate!Reply(q) /\ UNCHANGED work
  <2>1. /\ outbox' \in Seq(Letter)
        /\ \A r : Out("response", r)' => Out("response", r) \/ r = q
        /\ \A r : Reported(r)' \subseteq Reported(r)
    BY <1>0, <1>3, PostedOut DEF Gate!Reply, Gate!PostOn, Argument
  <2>2. work' = [work EXCEPT ![q] = work[q]] /\ work[q] \in Work
    BY <1>0, <1>3
  <2>3. RequestOK(q)'
    BY <1>0, <1>2, <1>3 DEF RequestOK
  <2>4. TurnTold(q)' /\ PageSeen(q)'
    BY <1>2, <1>3 DEF TurnTold, PageSeen, Engaged
  <2> QED
    BY <1>0, <2>1, <2>2, <2>3, <2>4, OneWorks
<1>4. CASE /\ UNCHANGED outbox
           /\ work' = [work EXCEPT ![q] = [Gate!Idle EXCEPT !.stage = "resolve", !.gated = gated,
                                                            !.grant = window]]
  <2> DEFINE w == [Gate!Idle EXCEPT !.stage = "resolve", !.gated = gated, !.grant = window]
  <2>1. /\ w \in Work /\ w.stage = "resolve" /\ w.turn = "none" /\ w.read = Gate!NoRead
        /\ work' = [work EXCEPT ![q] = w]
    BY <1>0, <1>4 DEF Work, Read, Gate!Idle, Gate!NoRead
  <2> HIDE DEF w
  <2>2. /\ outbox' \in Seq(Letter)
        /\ \A r : (Out("response", r)' <=> Out("response", r)) /\ Reported(r)' = Reported(r)
    BY <1>0, <1>4 DEF StreamsOK, Out, Reported
  <2>3. work'[q] = w
    BY <1>0, <2>1
  <2>4. Untouched(q)'
    BY <1>0, <1>1, <1>2, <2>2 DEF Untouched
  <2>5. ~Out("response", q)'
    BY <2>4 DEF Untouched
  <2>6. RequestOK(q)'
    BY <1>0, <1>2, <2>1, <2>3, <2>4, <2>5 DEF RequestOK
  <2>7. TurnTold(q)' /\ PageSeen(q)'
    BY <2>1, <2>3 DEF TurnTold, PageSeen, Engaged
  <2> QED
    BY <1>0, <2>1, <2>2, <2>6, <2>7, OneWorks
<1> QED
  BY <1>3, <1>4 DEF Gate!Begin

\* A step about q that posts nothing.
LEMMA WorksSilently ==
    ASSUME BridgeInv, IInv', Quiet, UNCHANGED outbox,
           UNCHANGED <<page, loads, heard, window, grants>>,
           NEW q \in Request, NEW w \in Work, work' = [work EXCEPT ![q] = w],
           w.gated = work[q].gated, w.tab = work[q].tab, w.queuedOn = work[q].queuedOn,
           work[q].stage \in {"wait", "recheck"}, work[q].gated,
           w.stage \in {"wait", "recheck", "run"},
           w.turn = "granted" => In("granted", q) \/ work[q].turn = "granted",
           w.stage \in {"recheck", "run"} => w.turn = "granted",
           PageSeen(q)'
    PROVE  BridgeInv'
<1>1. /\ outbox' \in Seq(Letter)
      /\ \A r : (Out("response", r)' <=> Out("response", r)) /\ Reported(r)' = Reported(r)
  BY DEF BridgeInv, StreamsOK, Out, Reported
<1>2. \A kind, r : In(kind, r)' => In(kind, r)
  BY <1>1, QuietStreams DEF BridgeInv
<1>3. UNCHANGED <<granted, ready, tab, used, forgone>> /\ work'[q] = w
  BY DEF Quiet, vars, BridgeInv, GateOK
<1>4. RequestOK(q) /\ TurnTold(q)
  BY DEF BridgeInv, TurnsTold
<1>5. RequestOK(q)'
  BY <1>1, <1>2, <1>3, <1>4 DEF RequestOK
<1>6. TurnTold(q)'
  BY <1>1, <1>2, <1>3, <1>4 DEF TurnTold, Engaged
<1> QED
  BY <1>1, <1>5, <1>6, OneWorks

\* A turn is told of.
LEMMA GrantedKeeps ==
    ASSUME BridgeInv, IInv', Quiet, NEW q \in Request, In("granted", q), Gate!Granted(q)
    PROVE  BridgeInv'
<1>1. /\ UNCHANGED <<page, loads, heard, window, grants, outbox>>
      /\ work \in [Request -> Work] /\ heard \in [Tab -> Nat] /\ outbox \in Seq(Letter)
      /\ RequestOK(q) /\ TurnTold(q) /\ PageSeen(q)
  BY DEF Gate!Granted, BridgeInv, GateOK, StreamsOK, TurnsTold, PagesSeen
<1>2. CASE work[q].stage = "wait" /\ work[q].turn = "none"
  <2> DEFINE at == work[q].tab
             w == [work[q] EXCEPT !.turn = "granted", !.turnOn = heard[at]]
  <2>1. Engaged(q) /\ work[q].gated
    BY <1>1, <1>2 DEF Engaged, RequestOK
  <2>2. work[q] \in Work /\ at \in Tab /\ heard[at] \in Nat
    BY <1>1, <2>1 DEF TurnTold
  <2>3. work' = [work EXCEPT ![q] = w]
    BY <1>1, <1>2 DEF Gate!Granted
  <2>4. /\ w \in Work /\ w.stage = work[q].stage /\ w.gated = work[q].gated
        /\ w.tab = at /\ w.queuedOn = work[q].queuedOn /\ w.turn = "granted"
        /\ w.read = work[q].read /\ w.turnOn = heard[at]
    BY <2>2 DEF Work
  <2> HIDE DEF w
  <2>5. work'[q] = w
    BY <1>1, <2>3
  <2>6. PageSeen(q)'
    BY <1>1, <1>2, <2>1, <2>4, <2>5 DEF PageSeen, Engaged
  <2> QED
    BY <1>1, <1>2, <2>1, <2>3, <2>4, <2>6, WorksSilently
<1>3. CASE UNCHANGED work
  <2>1. /\ \A r \in Request : Same(r)
        /\ \A r : (Out("response", r)' <=> Out("response", r)) /\ Reported(r)' = Reported(r)
    BY <1>1, <1>3 DEF Same, Out, Reported
  <2>2. GateOK'
    BY <1>1, <1>3 DEF BridgeInv, GateOK
  <2> QED
    BY <1>1, <2>1, <2>2, AllSame
<1> QED
  BY <1>2, <1>3 DEF Gate!Granted

\* A request has found its tab.
LEMMA ResolveKeeps ==
    ASSUME BridgeInv, IInv', Quiet, UNCHANGED inbox, NEW q \in Request, NEW b \in Tab,
           Gate!Resolve(q, b)
    PROVE  BridgeInv'
<1>1. /\ UNCHANGED <<page, loads, heard, window, grants>>
      /\ UNCHANGED <<granted, ready, tab, used, forgone>>
      /\ work \in [Request -> Work] /\ page \in [Tab -> [document : Nat, url : Url]]
      /\ heard \in [Tab -> Nat] /\ StreamsOK /\ work[q].stage = "resolve"
      /\ RequestOK(q)
  BY DEF Gate!Resolve, Quiet, vars, BridgeInv, GateOK, TurnsTold
<1>2. /\ q \in used /\ Untouched(q) /\ ~In("request", q) /\ work[q].turn = "none"
      /\ work[q].read = Gate!NoRead /\ work[q] \in Work
      /\ \A kind : In(kind, q)' <=> In(kind, q)
  BY <1>1 DEF RequestOK, In
<1>3. CASE /\ work[q].gated
           /\ work' = [work EXCEPT ![q].stage = "wait", ![q].tab = b,
                                   ![q].queuedOn = page[b].document]
           /\ Gate!PostOn({"up"}, Gate!Message("ready", q, b))
  <2> DEFINE w == [work[q] EXCEPT !.stage = "wait", !.tab = b, !.queuedOn = page[b].document]
  <2>1. work' = [work EXCEPT ![q] = w]
    BY <1>1, <1>3
  <2>2. page[b].document \in Nat
    BY <1>1
  <2>3. /\ w \in Work /\ w.stage = "wait" /\ w.gated = work[q].gated /\ w.tab = b
        /\ w.turn = "none" /\ w.read = Gate!NoRead /\ w.queuedOn = page[b].document
    BY <1>2, <2>2 DEF Work
  <2> HIDE DEF w
  <2>4. work'[q] = w
    BY <1>1, <2>1
  <2>5. /\ outbox' \in Seq(Letter)
        /\ \A r : Out("response", r)' => Out("response", r)
        /\ \A r : Reported(r)' \subseteq Reported(r) \cup (IF r = q THEN {b} ELSE {})
    BY <1>1, <1>3, PostedOut DEF Gate!PostOn, Argument
  <2>6. RequestOK(q)'
    BY <1>1, <1>2, <1>3, <2>3, <2>4, <2>5 DEF RequestOK, Untouched
  <2>7. Reported(q)' \subseteq {b}
    BY <1>2, <2>5 DEF Untouched
  <2>8. TurnTold(q)'
    BY <1>1, <1>2, <1>3, <2>3, <2>4, <2>7 DEF TurnTold, Engaged, Untouched
  <2>9. heard[b] <= page[b].document
    BY DEF BridgeInv, PagesSeen, PagesOK
  <2>10. PageSeen(q)'
    BY <1>1, <2>2, <2>3, <2>4, <2>9 DEF PageSeen, Engaged
  <2>11. \A r \in Request \ {q} : Reported(r)' \subseteq Reported(r)
    BY <2>5
  <2> QED
    BY <1>1, <2>1, <2>3, <2>5, <2>6, <2>8, <2>10, <2>11, OneWorks
<1>4. CASE /\ ~work[q].gated
           /\ work' = [work EXCEPT ![q].stage = "run", ![q].tab = b]
           /\ UNCHANGED outbox
  <2> DEFINE w == [work[q] EXCEPT !.stage = "run", !.tab = b]
  <2>1. work' = [work EXCEPT ![q] = w]
    BY <1>1, <1>4
  <2>2. w \in Work /\ w.stage = "run" /\ w.gated = work[q].gated
    BY <1>2 DEF Work
  <2> HIDE DEF w
  <2>3. work'[q] = w
    BY <1>1, <2>1
  <2>4. /\ outbox' \in Seq(Letter)
        /\ \A r : (Out("response", r)' <=> Out("response", r)) /\ Reported(r)' = Reported(r)
    BY <1>1, <1>4 DEF StreamsOK, Out, Reported
  <2>5. RequestOK(q)'
    BY <1>1, <1>2, <2>2, <2>3, <2>4 DEF RequestOK, Untouched
  <2>6. TurnTold(q)' /\ PageSeen(q)'
    BY <1>4, <2>2, <2>3 DEF TurnTold, PageSeen, Engaged
  <2> QED
    BY <1>1, <2>1, <2>2, <2>4, <2>5, <2>6, OneWorks
<1> QED
  BY <1>3, <1>4 DEF Gate!Resolve

\* The page has been read.
LEMMA ReadPageKeeps ==
    ASSUME BridgeInv, IInv', Quiet, NEW q \in Request, Gate!ReadPage(q)
    PROVE  BridgeInv'
<1> DEFINE at == work[q].tab
           p == IF PreemptsCanceled(q) THEN [document |-> 0, url |-> page[at].url] ELSE page[at]
           w == [work[q] EXCEPT !.read = p]
<1>1. /\ UNCHANGED <<page, loads, heard, window, grants, outbox>>
      /\ work \in [Request -> Work] /\ page \in [Tab -> [document : Nat, url : Url]]
      /\ RequestOK(q) /\ TurnTold(q) /\ PageSeen(q)
      /\ work[q].stage \in {"wait", "recheck"} /\ work[q].read = Gate!NoRead
      /\ work' = [work EXCEPT ![q] = w]
  BY DEF Gate!ReadPage, BridgeInv, GateOK, TurnsTold, PagesSeen
<1>2. Engaged(q) /\ work[q].gated /\ at \in Tab /\ work[q] \in Work
  BY <1>1 DEF Engaged, RequestOK, TurnTold
<1>3. p \in Read /\ (~PreemptsCanceled(q) => p.document = page[at].document)
  BY <1>1, <1>2 DEF Read
<1> HIDE DEF p
<1>4. /\ w \in Work /\ w.stage = work[q].stage /\ w.gated = work[q].gated
      /\ w.tab = at /\ w.queuedOn = work[q].queuedOn /\ w.turn = work[q].turn
      /\ w.read = p /\ w.first = work[q].first /\ w.turnOn = work[q].turnOn
  BY <1>2, <1>3 DEF Work
<1> HIDE DEF w
<1>5. work'[q] = w
  BY <1>1
<1>6. PageSeen(q)'
  BY <1>1, <1>2, <1>3, <1>4, <1>5 DEF PageSeen, Engaged
<1>7. work[q].stage = "recheck" => work[q].turn = "granted"
  BY <1>1, <1>2 DEF TurnTold
<1> QED
  BY <1>1, <1>2, <1>4, <1>6, <1>7, WorksSilently

\* The first read and the turn are in.
LEMMA RecheckKeeps ==
    ASSUME BridgeInv, IInv', Quiet, NEW q \in Request, Gate!Recheck(q)
    PROVE  BridgeInv'
<1> DEFINE w == [work[q] EXCEPT !.stage = "recheck", !.first = work[q].read, !.read = Gate!NoRead]
<1>1. /\ UNCHANGED <<page, loads, heard, window, grants, outbox>>
      /\ work \in [Request -> Work]
      /\ RequestOK(q) /\ PageSeen(q)
      /\ work[q].stage = "wait" /\ work[q].turn = "granted" /\ work[q].read # Gate!NoRead
  BY DEF Gate!Recheck, BridgeInv, GateOK, TurnsTold, PagesSeen
<1>2. work' = [work EXCEPT ![q] = w]
  BY <1>1 DEF Gate!Recheck
<1>3. Engaged(q) /\ work[q].gated /\ work[q] \in Work
  BY <1>1 DEF Engaged, RequestOK
<1>4. /\ w \in Work /\ w.stage = "recheck" /\ w.gated = work[q].gated
      /\ w.tab = work[q].tab /\ w.queuedOn = work[q].queuedOn /\ w.turn = work[q].turn
      /\ w.read = Gate!NoRead /\ w.first = work[q].read /\ w.turnOn = work[q].turnOn
  BY <1>3 DEF Work, Read, Gate!NoRead
<1> HIDE DEF w
<1>5. work'[q] = w
  BY <1>1, <1>2
<1>6. PageSeen(q)'
  BY <1>1, <1>3, <1>4, <1>5 DEF PageSeen, Engaged
<1> QED
  BY <1>1, <1>2, <1>3, <1>4, <1>6, WorksSilently

\* The second read agrees with the first.
LEMMA DispatchKeeps ==
    ASSUME BridgeInv, IInv', Quiet, NEW q \in Request, Gate!Dispatch(q)
    PROVE  BridgeInv'
<1> DEFINE w == [work[q] EXCEPT !.stage = "run"]
<1>1. /\ UNCHANGED <<page, loads, heard, window, grants, outbox>>
      /\ work \in [Request -> Work]
      /\ RequestOK(q) /\ PageSeen(q) /\ TurnTold(q)
      /\ work[q].stage = "recheck" /\ work[q].read = work[q].first
  BY DEF Gate!Dispatch, BridgeInv, GateOK, TurnsTold, PagesSeen
<1>2. work' = [work EXCEPT ![q] = w]
  BY <1>1 DEF Gate!Dispatch
<1>3. Engaged(q) /\ work[q].gated /\ work[q] \in Work /\ work[q].turn = "granted"
  BY <1>1 DEF Engaged, RequestOK, TurnTold
<1>4. /\ w \in Work /\ w.stage = "run" /\ w.gated = work[q].gated
      /\ w.tab = work[q].tab /\ w.queuedOn = work[q].queuedOn /\ w.turn = work[q].turn
      /\ w.read = work[q].read /\ w.first = work[q].first /\ w.turnOn = work[q].turnOn
  BY <1>3 DEF Work
<1> HIDE DEF w
<1>5. work'[q] = w
  BY <1>1, <1>2
<1>6. PageSeen(q)'
  BY <1>1, <1>3, <1>4, <1>5 DEF PageSeen, Engaged
<1> QED
  BY <1>1, <1>2, <1>3, <1>4, <1>6, WorksSilently

\* The worker answers and forgets a request.
LEMMA AnsweredKeeps ==
    ASSUME BridgeInv, IInv', Quiet, UNCHANGED inbox, NEW q \in Request,
           Gate!Fail(q) \/ Gate!Settle(q)
    PROVE  BridgeInv'
<1>1. /\ UNCHANGED <<page, loads, heard, window, grants>>
      /\ work' = [work EXCEPT ![q] = Gate!Idle] /\ work[q].stage # "none" /\ Gate!Reply(q)
      /\ work \in [Request -> Work] /\ StreamsOK /\ RequestOK(q)
      /\ UNCHANGED used
  BY DEF Gate!Fail, Gate!Settle, BridgeInv, GateOK, TurnsTold, Quiet
<1>2. Gate!Idle \in Work /\ Gate!Idle.stage = "none"
  BY DEF Gate!Idle, Work, Read, Gate!NoRead
<1>3. /\ outbox' \in Seq(Letter)
      /\ \A r : Out("response", r)' => Out("response", r) \/ r = q
      /\ \A r : Reported(r)' \subseteq Reported(r)
  BY <1>1, PostedOut DEF Gate!Reply, Gate!PostOn, Argument
<1>4. q \in used /\ ~In("request", q) /\ (In("request", q)' <=> In("request", q))
  BY <1>1 DEF RequestOK, In
<1>5. work'[q].stage = "none"
  BY <1>1, <1>2
<1>6. RequestOK(q)' /\ TurnTold(q)' /\ PageSeen(q)'
  BY <1>1, <1>4, <1>5 DEF RequestOK, TurnTold, PageSeen, Engaged
<1> QED
  BY <1>1, <1>2, <1>3, <1>6, OneWorks

\* Lifetimes are aborted.
LEMMA AbortKeeps ==
    ASSUME BridgeInv, IInv', Quiet, NEW rs, Gate!Abort(rs) PROVE BridgeInv'
<1>1. /\ UNCHANGED <<page, loads, heard, window, grants, outbox>> /\ work' = Gate!Aborted(rs)
      /\ GateOK
  BY DEF Gate!Abort, BridgeInv
<1>2. GateOK' /\ \A r \in Request : Same(r)
  BY <1>1, AbortedSame DEF GateOK
<1>3. /\ outbox' \in Seq(Letter)
      /\ \A r : (Out("response", r)' <=> Out("response", r)) /\ Reported(r)' = Reported(r)
  BY <1>1 DEF BridgeInv, StreamsOK, Out, Reported
<1> QED
  BY <1>1, <1>2, <1>3, AllSame

\* A step of the extension that leaves its requests and pages alone and posts
\* at most a word on itself.
Chatter ==
    \/ UNCHANGED outbox
    \/ outbox' = <<>>
    \/ \E kind \in {"access", "identity"}, arg \in BOOLEAN \cup {NoTab} :
          outbox' = Append(outbox, Gate!Message(kind, NoTab, arg))

\* Such words are not about requests.
LEMMA ChatterOut ==
    ASSUME StreamsOK, Chatter
    PROVE  /\ outbox' \in Seq(Letter)
           /\ \A r : /\ Reported(r)' \subseteq Reported(r)
                     /\ Out("response", r)' => Out("response", r)
<1>1. CASE UNCHANGED outbox
  BY <1>1 DEF StreamsOK, Reported, Out
<1>3. CASE outbox' = <<>>
  <2>1. outbox' \in Seq(Letter) /\ DOMAIN outbox' = {}
    BY <1>3
  <2> QED
    BY <2>1 DEF Reported, Out
<1>2. CASE \E kind \in {"access", "identity"}, arg \in BOOLEAN \cup {NoTab} :
              outbox' = Append(outbox, Gate!Message(kind, NoTab, arg))
  <2> PICK kind \in {"access", "identity"}, arg \in BOOLEAN \cup {NoTab} :
              outbox' = Append(outbox, Gate!Message(kind, NoTab, arg))
    BY <1>2
  <2>1. arg \in Argument /\ NoTab \in Request \cup {NoTab}
    BY DEF Argument
  <2> QED
    BY <2>1, PostedOut
<1> QED
  BY <1>1, <1>2, <1>3 DEF Chatter

\* A step with such a word keeps the invariant.
LEMMA ChatterKeeps ==
    ASSUME BridgeInv, IInv', Quiet, Chatter, UNCHANGED <<page, loads, heard>>,
           window' \in Nat, grants' \in Nat,
           UNCHANGED work \/ \E rs : work' = Gate!Aborted(rs)
    PROVE  BridgeInv'
<1>1. /\ outbox' \in Seq(Letter)
      /\ \A r \in Request : /\ Reported(r)' \subseteq Reported(r)
                            /\ Out("response", r)' => Out("response", r)
  BY ChatterOut DEF BridgeInv
<1>2. work' \in [Request -> Work] /\ \A r \in Request : Same(r)
  <2>1. CASE UNCHANGED work
    BY <2>1 DEF Same, BridgeInv, GateOK
  <2>2. CASE \E rs : work' = Gate!Aborted(rs)
    BY <2>2, AbortedSame DEF BridgeInv
  <2> QED
    BY <2>1, <2>2
<1>3. GateOK'
  BY <1>2 DEF BridgeInv, GateOK
<1> QED
  BY <1>1, <1>2, <1>3, AllSame

\* A page loads.
LEMMA NavigateKeeps ==
    ASSUME BridgeInv, IInv', Quiet, NEW b \in Tab, NEW u \in Url, Gate!Navigate(b, u)
    PROVE  BridgeInv'
<1>1. /\ UNCHANGED <<heard, window, grants, work, outbox>>
      /\ loads' = loads + 1 /\ loads \in Nat
      /\ page' = [page EXCEPT ![b] = [document |-> loads + 1, url |-> u]]
      /\ page \in [Tab -> [document : Nat, url : Url]] /\ heard \in [Tab -> Nat]
      /\ GateOK /\ PagesOK
  BY DEF Gate!Navigate, BridgeInv, GateOK, PagesSeen
<1>2. /\ page' \in [Tab -> [document : Nat, url : Url]]
      /\ \A at \in Tab : /\ page'[at].document \in Nat
                         /\ page[at].document <= page'[at].document
                         /\ page'[at].document <= loads'
  <2> SUFFICES ASSUME NEW at \in Tab
               PROVE  /\ page'[at] \in [document : Nat, url : Url]
                      /\ page[at].document <= page'[at].document
                      /\ page'[at].document <= loads'
    BY <1>1
  <2>1. page[at].document \in Nat /\ page[at].document <= loads
    BY <1>1 DEF PagesOK
  <2>2. CASE at = b
    BY <1>1, <2>1, <2>2
  <2>3. CASE at # b
    BY <1>1, <2>1, <2>3
  <2> QED
    BY <2>2, <2>3
<1>3. GateOK' /\ PagesOK'
  <2>1. \A at \in Tab : page[at].document \in Nat
    BY <1>1
  <2> QED
    BY <1>1, <1>2, <2>1 DEF GateOK, PagesOK
<1>4. /\ outbox' \in Seq(Letter)
      /\ \A r : (Out("response", r)' <=> Out("response", r)) /\ Reported(r)' = Reported(r)
  BY <1>1 DEF BridgeInv, StreamsOK, Out, Reported
<1>5. ASSUME NEW r \in Request PROVE RequestOK(r)' /\ TurnTold(r)' /\ PageSeen(r)'
  <2>1. RequestOK(r) /\ TurnTold(r) /\ PageSeen(r) /\ Same(r)
    BY <1>1 DEF BridgeInv, TurnsTold, PagesSeen, Same
  <2>2. Frame(r)
    BY <1>4, <2>1, QuietFrame
  <2>3. RequestOK(r)' /\ TurnTold(r)'
    BY <2>1, <2>2, FrameKeeps
  <2>4. PageSeen(r)'
    <3> SUFFICES ASSUME Engaged(r) PROVE PageSeen(r)'
      BY <1>1 DEF PageSeen, Engaged
    <3>1. work[r].tab \in Tab /\ work[r].queuedOn \in Nat
      BY <1>1, <2>1 DEF TurnTold, GateOK, Work
    <3>2. /\ page[work[r].tab].document \in Nat
          /\ page[work[r].tab].document <= page'[work[r].tab].document
          /\ page'[work[r].tab].document \in Nat
      BY <1>1, <1>2, <3>1
    <3> QED
      BY <1>1, <2>1, <3>1, <3>2 DEF PageSeen, Engaged
  <2> QED
    BY <2>3, <2>4
<1> QED
  BY <1>3, <1>4, <1>5, ExtensionKeeps

\* The worker hears of a page load.
LEMMA LoadedKeeps ==
    ASSUME BridgeInv, IInv', Quiet, NEW b \in Tab, Gate!PageLoaded(b)
    PROVE  BridgeInv'
<1> DEFINE Rejects(r) == work[r].stage = "wait" /\ work[r].tab = b /\ work[r].turn = "none"
<1>1. /\ UNCHANGED <<page, loads, window, grants, outbox>>
      /\ heard' = [heard EXCEPT ![b] = page[b].document]
      /\ page \in [Tab -> [document : Nat, url : Url]] /\ heard \in [Tab -> Nat]
      /\ loads \in Nat /\ GateOK /\ PagesOK /\ work \in [Request -> Work]
  BY DEF Gate!PageLoaded, BridgeInv, GateOK, PagesSeen
<1>2. ASSUME NEW r \in Request
      PROVE  /\ work'[r] \in Work
             /\ work'[r].stage = work[r].stage /\ work'[r].gated = work[r].gated
             /\ work'[r].tab = work[r].tab /\ work'[r].first = work[r].first
             /\ work'[r].read = work[r].read /\ work'[r].queuedOn = work[r].queuedOn
             /\ work'[r].turnOn = work[r].turnOn
             /\ work'[r].turn = IF Rejects(r) THEN "rejected" ELSE work[r].turn
  <2>1. work'[r] = IF Rejects(r) THEN [work[r] EXCEPT !.turn = "rejected"] ELSE work[r]
    BY DEF Gate!PageLoaded
  <2>2. work[r] \in Work
    BY <1>1
  <2> HIDE DEF Rejects
  <2> QED
    BY <2>1, <2>2 DEF Work
<1>3. work' \in [Request -> Work]
  BY <1>2 DEF Gate!PageLoaded
<1>4. page[b].document \in Nat /\ heard' \in [Tab -> Nat]
  BY <1>1
<1>5. GateOK' /\ PagesOK'
  BY <1>1, <1>3, <1>4 DEF GateOK, PagesOK
<1>6. /\ outbox' \in Seq(Letter)
      /\ \A r : (Out("response", r)' <=> Out("response", r)) /\ Reported(r)' = Reported(r)
      /\ \A kind, r : In(kind, r)' => In(kind, r)
      /\ UNCHANGED <<granted, ready, tab, used, forgone>>
  <2>1. /\ outbox' \in Seq(Letter)
        /\ \A r : (Out("response", r)' <=> Out("response", r)) /\ Reported(r)' = Reported(r)
    BY <1>1 DEF BridgeInv, StreamsOK, Out, Reported
  <2> QED
    BY <2>1, QuietStreams DEF BridgeInv, Quiet, vars
<1>7. ASSUME NEW r \in Request PROVE RequestOK(r)' /\ TurnTold(r)' /\ PageSeen(r)'
  <2>1. RequestOK(r) /\ TurnTold(r) /\ PageSeen(r)
    BY DEF BridgeInv, TurnsTold, PagesSeen
  <2>2. RequestOK(r)'
    BY <1>2, <1>6, <2>1 DEF RequestOK, Untouched
  <2>3. TurnTold(r)'
    BY <1>2, <1>6, <2>1 DEF TurnTold, Engaged
  <2>4. PageSeen(r)'
    <3> SUFFICES ASSUME Engaged(r) PROVE PageSeen(r)'
      BY <1>2 DEF PageSeen, Engaged
    <3>1. work[r].tab \in Tab /\ (work[r].stage # "wait" => work[r].turn = "granted")
      BY <2>1 DEF TurnTold, Engaged
    <3>2. work'[r].turn = "none" =>
             heard'[work[r].tab] = heard[work[r].tab] /\ work[r].turn = "none"
      BY <1>1, <1>2, <3>1
    <3>3. work'[r].turn = "granted" => work[r].turn = "granted"
      BY <1>2
    <3> QED
      BY <1>1, <1>2, <2>1, <3>2, <3>3 DEF PageSeen, Engaged
  <2> QED
    BY <2>2, <2>3, <2>4
<1> QED
  BY <1>5, <1>6, <1>7, ExtensionKeeps

\* Work on a request goes on.
LEMMA WorksKeeps ==
    ASSUME BridgeInv, IInv', NEW q \in Request, ExtensionWorks(q) PROVE BridgeInv'
<1>1. Quiet /\ UNCHANGED inbox
  BY DEF ExtensionWorks, Quiet, channels
<1> QED
  BY <1>1, ResolveKeeps, ReadPageKeeps, RecheckKeeps, DispatchKeeps, AnsweredKeeps
     DEF ExtensionWorks

\* The extension handles a message of the daemon.
LEMMA HandleKeeps ==
    ASSUME BridgeInv, IInv', ExtensionReceives PROVE BridgeInv'
<1> DEFINE m == Head(inbox)
<1>1. /\ inbox # <<>> /\ inbox' = Tail(inbox) /\ Handle(m) /\ Quiet
      /\ StreamsOK
  BY DEF ExtensionReceives, Quiet, BridgeInv
<1>2. m = inbox[1] /\ 1 \in DOMAIN inbox
  BY <1>1, TailShifts DEF StreamsOK
<1>3. PICK kind, q : m.kind = kind /\ m.id = q
  OBVIOUS
<1>4. In(kind, q) /\ (kind = "request" => ~In("request", q)')
  BY <1>1, <1>3, HandledOnce
<1>5. /\ kind \in {"request", "granted"} => q \in Request
      /\ kind = "request" => m.arg \in BOOLEAN
  BY <1>1, <1>2, <1>3 DEF StreamsOK
<1> HIDE DEF m
<1>6. CASE kind = "request" /\ Gate!Begin(q, m.arg)
  <2>1. PICK gated \in BOOLEAN : gated = m.arg
    BY <1>5, <1>6
  <2>2. Gate!Begin(q, gated)
    BY <1>6, <2>1
  <2> QED
    BY <1>1, <1>4, <1>5, <1>6, <2>2, BeginKeeps
<1>7. CASE kind = "granted" /\ Gate!Granted(q)
  BY <1>1, <1>4, <1>5, <1>7, GrantedKeeps
<1>8. CASE \E rs : Gate!Abort(rs)
  BY <1>1, <1>8, AbortKeeps
<1> QED
  BY <1>1, <1>3, <1>6, <1>7, <1>8 DEF Handle

\* The user and the browser act.
LEMMA BrowserKeeps ==
    ASSUME BridgeInv, IInv', UserUpsets \/ BrowserWorks PROVE BridgeInv'
<1>1. Quiet
  BY DEF UserUpsets, BrowserWorks, Quiet, channels
<1>2. window \in Nat /\ grants \in Nat
  BY DEF BridgeInv, GateOK
<1>3. CASE \E b \in Tab, u \in Url : Gate!Navigate(b, u)
  BY <1>1, <1>3, NavigateKeeps
<1>4. CASE \E b \in Tab : Gate!PageLoaded(b)
  BY <1>1, <1>4, LoadedKeeps
<1>5. CASE Gate!WindowOff
  <2>1. Chatter /\ UNCHANGED <<page, loads, heard, work>> /\ window' \in Nat /\ grants' \in Nat
    BY <1>2, <1>5 DEF Gate!WindowOff, Chatter
  <2> QED
    BY <1>1, <2>1, ChatterKeeps
<1>6. CASE Gate!WindowOn
  <2>1. Chatter /\ UNCHANGED <<page, loads, heard, work>> /\ window' \in Nat /\ grants' \in Nat
    BY <1>2, <1>6 DEF Gate!WindowOn, Chatter
  <2> QED
    BY <1>1, <2>1, ChatterKeeps
<1>7. CASE Gate!AnnounceOff \/ Gate!AnnounceOn
  <2>1. /\ Chatter /\ UNCHANGED <<page, loads, heard>> /\ window' \in Nat /\ grants' \in Nat
        /\ UNCHANGED work \/ \E rs : work' = Gate!Aborted(rs)
    <3>1. Chatter
      BY <1>7 DEF Gate!AnnounceOff, Gate!AnnounceOn, Gate!PostOn, Chatter
    <3> QED
      BY <1>2, <1>7, <3>1 DEF Gate!AnnounceOff, Gate!AnnounceOn
  <2> QED
    BY <1>1, <2>1, ChatterKeeps
<1> QED
  BY <1>3, <1>4, <1>5, <1>6, <1>7 DEF UserUpsets, BrowserWorks

\* The native port opens, settles and closes.
LEMMA PortKeeps ==
    ASSUME BridgeInv, IInv', PortWorks \/ PortOpens \/ PortCloses PROVE BridgeInv'
<1>1. /\ Quiet /\ UNCHANGED <<page, loads, heard, window, grants>>
      /\ window \in Nat /\ grants \in Nat
  BY DEF PortWorks, PortOpens, PortCloses, Quiet, channels, Gate!Stable, Gate!TellIdentity,
         Gate!Open, Gate!Close, BridgeInv, GateOK
<1>2. Chatter
  BY DEF PortWorks, PortOpens, PortCloses, Gate!Stable, Gate!TellIdentity, Gate!Open,
         Gate!Close, Gate!PostOn, Chatter
<1>3. UNCHANGED work \/ \E rs : work' = Gate!Aborted(rs)
  BY DEF PortWorks, PortOpens, PortCloses, Gate!Stable, Gate!TellIdentity, Gate!Open,
         Gate!Close
<1> QED
  BY <1>1, <1>2, <1>3, ChatterKeeps

\* The invariant holds at the start,
LEMMA BridgeInvInit == BridgeInit => BridgeInv
<1> SUFFICES ASSUME BridgeInit PROVE BridgeInv
  OBVIOUS
<1>1. IInv
  BY SchedulerInit DEF BridgeInit
<1>2. Takeovers
  BY DEF BridgeInit, Init, Takeovers
<1>3. inbox = <<>> /\ outbox = <<>> /\ work = [r \in Request |-> Gate!Idle] /\ ready = {}
  BY DEF BridgeInit, Init, Gate!Init
<1>4. /\ \A kind, r : ~In(kind, r) /\ ~Out(kind, r)
      /\ \A r : Reported(r) = {}
  BY <1>3 DEF In, Out, Reported
<1>5. StreamsOK
  BY <1>3 DEF StreamsOK
<1>6. Gate!Idle \in Work /\ Gate!Idle.stage = "none" /\ Gate!Idle.turn = "none"
  BY DEF Gate!Idle, Work, Read, Gate!NoRead
<1>7. GateOK /\ PagesOK
  <2>1. PICK u \in Url : page = [b \in Tab |-> [document |-> 1, url |-> u]]
    BY DEF BridgeInit, Gate!Init
  <2> QED
    BY <1>3, <1>6, <2>1 DEF BridgeInit, Gate!Init, GateOK, PagesOK
<1>8. \A r \in Request : RequestOK(r) /\ TurnTold(r) /\ PageSeen(r)
  BY <1>3, <1>4, <1>6 DEF RequestOK, TurnTold, PageSeen, Engaged, Untouched
<1> QED
  BY <1>1, <1>2, <1>5, <1>7, <1>8 DEF BridgeInv, TurnsTold, PagesSeen

\* every step keeps it,
LEMMA BridgeInvNext == BridgeInv /\ [BridgeNext]_bridgeVars => BridgeInv'
<1> SUFFICES ASSUME BridgeInv, [BridgeNext]_bridgeVars PROVE BridgeInv'
  OBVIOUS
<1>1. IInv' /\ TurnStep
  BY SchedulerSide DEF BridgeInv
<1>2. CASE \E r \in Request : Ask(r) \/ GiveUp(r) \/ ReleaseExpired(r)
  BY <1>1, <1>2, AskKeeps, GiveUpKeeps, ReleaseKeeps
<1>3. CASE \/ \E p \in Agent : AgentArrives(p) \/ AgentLeaves(p)
           \/ BrowserLeaves \/ Register
  BY <1>1, <1>3, PeersKeep
<1>4. CASE EndOfLoop
  BY <1>1, <1>4, EndKeeps
<1>5. CASE DaemonReceives
  BY <1>1, <1>5, ReceivesKeeps
<1>6. CASE ExtensionReceives
  BY <1>1, <1>6, HandleKeeps
<1>7. CASE \E r \in Request : ExtensionWorks(r)
  BY <1>1, <1>7, WorksKeeps
<1>8. CASE \E r \in Request : LifetimeEnds(r)
  <2>1. Quiet /\ \E rs : Gate!Abort(rs)
    BY <1>8 DEF LifetimeEnds, Quiet
  <2> QED
    BY <1>1, <2>1, AbortKeeps
<1>9. CASE UserUpsets \/ BrowserWorks
  BY <1>1, <1>9, BrowserKeeps
<1>10. CASE PortWorks \/ PortOpens \/ PortCloses
  BY <1>1, <1>10, PortKeeps
<1>11. CASE UNCHANGED bridgeVars
  <2>1. /\ Quiet /\ Chatter /\ UNCHANGED <<page, loads, heard, work, window, grants>>
    BY <1>11 DEF bridgeVars, extension, channels, Quiet, Chatter
  <2>2. window' \in Nat /\ grants' \in Nat
    BY <2>1 DEF BridgeInv, GateOK
  <2> QED
    BY <1>1, <2>1, <2>2, ChatterKeeps
<1> QED
  BY <1>2, <1>3, <1>4, <1>5, <1>6, <1>7, <1>8, <1>9, <1>10, <1>11 DEF BridgeNext

\* so it holds always,
LEMMA PagesInvariant == BridgeSpec => []BridgeInv
  BY BridgeInvInit, BridgeInvNext, PTL DEF BridgeSpec

\* and it says what is promised.
LEMMA InTurn == BridgeInv => PageInTurn
<1> SUFFICES ASSUME BridgeInv PROVE PageInTurn
  OBVIOUS
<1>1. ASSUME NEW r \in Running, work[r].gated
      PROVE  /\ r \in Request /\ Engaged(r) /\ TurnTold(r) /\ PageSeen(r)
             /\ work[r].stage = "run" /\ work[r].turn = "granted"
             /\ r \in forgone \/ (r \in granted /\ tab[r] = work[r].tab)
  <2>1. r \in Request /\ Engaged(r) /\ TurnTold(r) /\ PageSeen(r) /\ work[r].stage = "run"
    BY <1>1 DEF Running, Engaged, BridgeInv, TurnsTold, PagesSeen
  <2> QED
    BY <2>1 DEF TurnTold, BridgeInv, IInv, TurnsOK
<1>2. RunsInTurn
  BY <1>1 DEF RunsInTurn
<1>3. PageExclusive
  <2> SUFFICES ASSUME NEW r \in Running \ forgone, NEW s \in Running \ forgone,
                      work[r].gated, work[s].gated, work[r].tab = work[s].tab, r # s
               PROVE  \E c \in {r, s} : c \in canceled /\ {r, s} \ {c} \subseteq
                                  {m \in Request : PreemptsCanceled(m)}
    BY DEF PageExclusive
  <2>1. r \in Request /\ s \in Request /\ {r, s} \subseteq granted /\ tab[r] = tab[s]
    BY <1>1
  <2>2. Target[r] = Target[s]
    BY <2>1, BridgeAssumption, ConstantsAssumption
  <2> QED
    BY <2>1, <2>2 DEF BridgeInv, Takeovers
<1>4. LoadsMissedOnlyTwice
  <2> SUFFICES ASSUME NEW r \in Running, work[r].gated, ~PreemptsCanceled(r),
                      work[r].read.document # work[r].queuedOn
               PROVE  /\ work[r].turnOn < work[r].read.document
                      /\ work[r].first.document = work[r].read.document
    BY DEF LoadsMissedOnlyTwice
  <2>1. /\ work[r].read = work[r].first /\ work[r].queuedOn <= work[r].first.document
        /\ work[r].turnOn <= work[r].queuedOn
    BY <1>1 DEF PageSeen
  <2>2. work[r] \in Work
    BY <1>1 DEF BridgeInv, GateOK
  <2>3. work[r].turnOn \in Nat /\ work[r].queuedOn \in Nat /\ work[r].read.document \in Nat
    BY <2>2 DEF Work, Read
  <2> QED
    BY <2>1, <2>3
<1> QED
  BY <1>2, <1>3, <1>4 DEF PageInTurn

\* What runs in a page runs in its turn, alone but for a navigation that took
\* over a canceled turn, and on the page it was queued for as far as the gate
\* can tell: for any number of agents, requests, tabs and pages, and whatever
\* is canceled, expires, reloads or is lost on the way.
THEOREM PagesInTurn == BridgeSpec => []PageInTurn
  BY PagesInvariant, InTurn, PTL
=============================================================================
