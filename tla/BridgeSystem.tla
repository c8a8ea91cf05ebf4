---------------------------- MODULE BridgeSystem ----------------------------
(***************************************************************************)
(* The daemon's scheduler and one browser's extension, connected by the     *)
(* native host's two ordered byte streams.  Each action is a handler of     *)
(* MutationScheduler together with the messages it sends, or a step of      *)
(* MutationGate.  `unsettled`, which MutationScheduler leaves to an unknown *)
(* browser, is here what this extension has really been asked.              *)
(***************************************************************************)
EXTENDS MutationScheduler

CONSTANTS
    Browser,       \* the only member of Extension
    Url, MaxActive,
    MaxUpsets      \* bound: upsets of a behaviour (see `upsets`)

ASSUME BridgeAssumption == Extension = {Browser}

VARIABLES
    page, loads, heard, window, grants, switching, link, told, work, outbox,
    inbox,         \* sent by the daemon, not yet handled by the extension
    used,          \* routed ids handed out so far: uniqueID() repeats none
    forgone,       \* slots given up before the browser had settled the work
    upsets         \* page loads, windows turned off, lifetimes that end by their
                   \* own timer, agents and ports lost so far

extension == <<page, loads, heard, window, grants, switching, link, told, work, outbox>>
channels == <<inbox, used, forgone, upsets>>
bridgeVars == <<vars, extension, channels>>

Gate == INSTANCE MutationGate WITH TabScope <- PreemptsCanceled

BridgeInit ==
    /\ Init
    /\ Gate!Init
    /\ inbox = <<>> /\ used = {} /\ forgone = {} /\ upsets = 0

\* One more upset.
Upset ==
    /\ upsets < MaxUpsets
    /\ upsets' = upsets + 1

-----------------------------------------------------------------------------
(* Steps of the daemon and what they send. *)

\* Whether r is ahead of s in the browser's queue.
InFront(r, s) ==
    \E i, j \in DOMAIN queue'[Browser] :
        i < j /\ queue'[Browser][i] = r /\ queue'[Browser][j] = s

\* The grants of a step, in queue order: there is one such sequence.
Turnovers ==
    {turns \in [1..Cardinality(granted' \ granted) -> granted' \ granted] :
        \A i, j \in DOMAIN turns : i < j => InFront(turns[i], turns[j])}

\* A step sends `first`, then the grants it made, while the peer is connected
\* and the host still runs.
Send(first) ==
    IF Browser \in peers' /\ link # "down"
    THEN \E turns \in Turnovers :
           inbox' = inbox \o first \o
                    [i \in DOMAIN turns |-> Gate!Message("granted", turns[i], NoTab)]
    ELSE UNCHANGED inbox

\* cancelBrowserRequest.
Canceled(r) == <<Gate!Message("cancelled", r, NoTab)>>

Ask(r) ==
    /\ r \notin used
    /\ Route(r)
    /\ used' = used \cup {r}
    /\ Send(<<Gate!Message("request", r, r \in marked')>>)
    /\ UNCHANGED <<extension, forgone, upsets>>

\* agent.cancel, the timer, the loops of access revocation and disconnection.
GiveUp(r) ==
    /\ Cancel(r) \/ Timeout(r) \/ RevokeRequest(r) \/ AbandonRequest(r)
    /\ Send(Canceled(r))
    /\ UNCHANGED <<extension, used, forgone, upsets>>

ReleaseExpired(r) ==
    /\ Expire(r)
    /\ Send(<<>>)
    /\ forgone' = forgone \cup {r}
    /\ UNCHANGED <<extension, used, upsets>>

AgentArrives(p) ==
    /\ p \in Agent
    /\ Connect(p)
    /\ UNCHANGED <<extension, channels>>

AgentLeaves(p) ==
    /\ p \in Agent
    /\ Disconnect(p)
    /\ Upset
    /\ UNCHANGED <<extension, inbox, used, forgone>>

\* The daemon reads the end of the extension's connection.
BrowserLeaves ==
    /\ link = "down"
    /\ Disconnect(Browser)
    /\ UNCHANGED <<extension, channels>>

EndOfLoop ==
    /\ RevokeDone \/ DisconnectDone
    /\ Send(IF walking \in Agent
            THEN <<Gate!Message("ownerGone", walking, NoTab)>>
            ELSE <<>>)
    /\ forgone' = forgone \cup (granted \ granted')
    /\ UNCHANGED <<extension, used, upsets>>

Register ==
    /\ link # "down"
    /\ Connect(Browser)
    /\ UNCHANGED <<extension, channels>>

\* What the daemon does with the next message of the extension.
Receive(m) ==
    \/ /\ m.kind = "identity"
       /\ Identity(Browser)
       /\ Send(<<>>)
    \/ /\ m.kind = "access"
       /\ IF m.arg THEN AccessGranted(Browser) ELSE AccessRevoked(Browser)
       /\ Send(<<>>)
    \/ /\ m.kind = "ready"
       /\ IF m.id \in entries \ ready
          THEN /\ MutationReady(m.id, m.arg)
               /\ Send(IF m.id \in pending \ pending' THEN Canceled(m.id) ELSE <<>>)
          ELSE UNCHANGED <<vars, inbox>>
    \/ /\ m.kind = "response"
       /\ IF m.id \in unsettled
          THEN /\ Response(m.id, FALSE) \/ LateResponse(m.id)
               /\ Send(<<>>)
          ELSE UNCHANGED <<vars, inbox>>

DaemonReceives ==
    /\ outbox # <<>>
    /\ Browser \in peers
    /\ MutexFree
    /\ Receive(Head(outbox))
    /\ outbox' = Tail(outbox)
    /\ UNCHANGED <<page, loads, heard, window, grants, switching, link, told, work>>
    /\ UNCHANGED <<used, forgone, upsets>>

-----------------------------------------------------------------------------
(* Steps of the extension. *)

\* What the extension does with the next message of the daemon.
Handle(m) ==
    \/ m.kind = "request" /\ Gate!Begin(m.id, m.arg)
    \/ m.kind = "granted" /\ Gate!Granted(m.id)
    \/ m.kind = "cancelled" /\ Gate!Abort({m.id})
    \/ m.kind = "ownerGone" /\ Gate!Abort({r \in Request : Owner[r] = m.id})

ExtensionReceives ==
    /\ inbox # <<>>
    /\ Handle(Head(inbox))
    /\ inbox' = Tail(inbox)
    /\ UNCHANGED <<vars, used, forgone, upsets>>

\* Work on request r goes on.
ExtensionWorks(r) ==
    /\ \/ \E b \in Tab : Gate!Resolve(r, b)
       \/ Gate!ReadPage(r)
       \/ Gate!Recheck(r)
       \/ Gate!Dispatch(r)
       \/ Gate!Fail(r)
       \/ Gate!Settle(r)
    /\ UNCHANGED <<vars, channels>>

\* The deadline of a request nobody has aborted yet.
LifetimeEnds(r) ==
    /\ r \in Gate!Active /\ ~work[r].aborted
    /\ Gate!Abort({r})
    /\ Upset
    /\ UNCHANGED <<vars, inbox, used, forgone>>

UserUpsets ==
    /\ Gate!WindowOff \/ \E b \in Tab, u \in Url : Gate!Navigate(b, u)
    /\ Upset
    /\ UNCHANGED <<vars, inbox, used, forgone>>

BrowserWorks ==
    /\ \/ \E b \in Tab : Gate!PageLoaded(b)
       \/ Gate!AnnounceOff
       \/ Gate!WindowOn
       \/ Gate!AnnounceOn
    /\ UNCHANGED <<vars, channels>>

PortWorks ==
    /\ Gate!Stable \/ Gate!TellIdentity
    /\ Browser \in peers
    /\ UNCHANGED <<vars, channels>>

\* A new port is opened when the daemon has noticed the end of the last one.
PortOpens ==
    /\ Browser \notin peers /\ MutexFree
    /\ Gate!Open
    /\ UNCHANGED <<vars, channels>>

\* The host dies: what is on its way in either direction is lost.
PortCloses ==
    /\ Gate!Close
    /\ Browser \in peers
    /\ Upset
    /\ inbox' = <<>>
    /\ UNCHANGED <<vars, used, forgone>>

BridgeNext ==
    \/ \E r \in Request : Ask(r)
    \/ \E r \in Request : GiveUp(r)
    \/ \E r \in Request : ReleaseExpired(r)
    \/ \E p \in Agent : AgentArrives(p)
    \/ \E p \in Agent : AgentLeaves(p)
    \/ BrowserLeaves
    \/ EndOfLoop
    \/ Register
    \/ DaemonReceives
    \/ ExtensionReceives
    \/ \E r \in Request : ExtensionWorks(r)
    \/ \E r \in Request : LifetimeEnds(r)
    \/ UserUpsets
    \/ BrowserWorks
    \/ PortWorks
    \/ PortOpens
    \/ PortCloses

BridgeSpec == BridgeInit /\ [][BridgeNext]_bridgeVars

-----------------------------------------------------------------------------
(* Properties. *)

Running == {r \in Request : work[r].stage = "run"}

\* A gated mutation that runs in the page holds its tab's turn in the daemon,
\* whatever messages are in flight, until the daemon gives the slot up itself.
RunsInTurn ==
    \A r \in Running : work[r].gated =>
        \/ r \in forgone
        \/ r \in granted /\ tab[r] = work[r].tab

\* Two gated mutations whose slots the daemon still holds never run in one
\* page at a time, unless the second is a navigation that took the tab over
\* from one already canceled.
PageExclusive ==
    \A r, s \in Running \ forgone :
        work[r].gated /\ work[s].gated /\ work[r].tab = work[s].tab /\ r # s =>
            \E c \in {r, s} : c \in canceled /\ {r, s} \ {c} \subseteq
                                  {m \in Request : PreemptsCanceled(m)}

\* The gate misses a page load only where both of its checks come too late: the
\* worker heard of the load after the turn was granted, so invalidate() found a
\* settled promise, and the first of its two reads already saw the new page.
LoadsMissedOnlyTwice ==
    \A r \in Running :
        /\ work[r].gated /\ ~PreemptsCanceled(r)
        /\ work[r].read.document # work[r].queuedOn
        => /\ work[r].turnOn < work[r].read.document
           /\ work[r].first.document = work[r].read.document

\* What runs in a page runs in its turn, alone, and on the page it was queued
\* for as far as the gate can tell (background-mutation-gate.ts:37-128).
PageInTurn == RunsInTurn /\ PageExclusive /\ LoadsMissedOnlyTwice
=============================================================================
