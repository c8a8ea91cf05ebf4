---------------------------- MODULE VisualBaselines ----------------------------
(***************************************************************************)
(* Visual baselines (internal/bridge/visual_baseline.go and                 *)
(* src/packages/extension/src/background-visual-baselines.ts): the browser  *)
(* captures a frame, the daemon keeps its pixels and compares them, outside *)
(* its lock, with later ones.  Pages, the grant, the connection and agents  *)
(* may all change between a request and its answer.  A baseline has the     *)
(* number of the call that made it, and of the one whose frame it holds;    *)
(* its time runs out at any moment.  Requests name their tab.               *)
(***************************************************************************)
EXTENDS Naturals, FiniteSets, SequencesExt

CONSTANTS
    Page,           \* tabs
    MaxVisualCalls,
    MaxPagePixels,  \* MAX_VISUAL_BASELINES_PER_TAB
    MaxPixels,      \* MAX_VISUAL_BASELINES_GLOBAL
    MaxScenes,      \* loads, scrolls, changes of the grant, lost connections and agents
    MaxVisualJobs   \* frames the disk worker takes

ASSUME VisualAssumption == MaxPagePixels \in Nat /\ MaxPixels \in Nat

VARIABLES
    visuals,    \* baselineRegistry.visual
    vcalls,     \* d.pending, by number
    vaccess,    \* p.access and p.accessEpoch
    vjobs,      \* frames queued for the disk worker
    vout,       \* answers with a new baseline queued for the agent; and those written
    frames,     \* captures under way in the browser
    wire,       \* messages to the daemon, in order
    scene,      \* the pages: document, scrolled, a load not yet committed; the grant
    spoilt,     \* history: calls overtaken by a load, a revocation or another call
    scenes

visualVars == <<visuals, vcalls, vaccess, vjobs, vout, frames, wire, scene, spoilt, scenes>>

VCall == 1..MaxVisualCalls
NoVCall == [op |-> "none", tab |-> {}, of |-> {}, epoch |-> 0, pending |-> FALSE, answer |-> "none"]

VisualInit ==
    /\ visuals = {} /\ vcalls = [c \in VCall |-> NoVCall]
    /\ vaccess = [on |-> TRUE, epoch |-> 0]
    /\ vjobs = <<>> /\ vout = [queued |-> {}, handed |-> {}, open |-> TRUE]
    /\ frames = {} /\ wire = <<>>
    /\ scene = [doc |-> [t \in Page |-> 1], scrolled |-> {}, loading |-> {},
                granted |-> TRUE, linked |-> TRUE]
    /\ spoilt = {} /\ scenes = 0

ChangesScene == scenes < MaxScenes /\ scenes' = scenes + 1
Awaited == {c \in VCall : vcalls[c].pending}
EndVisuals(some, answer) ==
    [c \in VCall |-> IF c \in some THEN [vcalls[c] EXCEPT !.pending = FALSE, !.answer = answer]
                     ELSE vcalls[c]]
\* Awaited comparisons with baseline v.
Relying(v) == {c \in Awaited : vcalls[c].of = {v}}

-----------------------------------------------------------------------------
(* Agents: prepareVisualRequest and route                                    *)

AsksVisual(c, call) ==
    /\ vcalls[c].op = "none" /\ \A b \in 1..(c - 1) : vcalls[b].op # "none"
    /\ vout.open /\ vaccess.on
    /\ vcalls' = [vcalls EXCEPT ![c] = [call EXCEPT !.pending = TRUE, !.epoch = vaccess.epoch]]
    /\ UNCHANGED <<visuals, vaccess, vjobs, vout, frames, wire, scene, spoilt, scenes>>

CreateVisual(c, t) == AsksVisual(c, [NoVCall EXCEPT !.op = "create", !.tab = {t}])

\* A comparison refers to the baseline as it is now, and goes to its tab.
CompareVisual(c, v, op) ==
    /\ v.id \in vout.handed /\ op \in {"compare", "advance"}
    /\ AsksVisual(c, [NoVCall EXCEPT !.op = op, !.of = {v}, !.tab = {v.tab}])

\* screenshot.baseline.release, or prune.
ForgetVisual(v) ==
    /\ visuals' = visuals \ {v} /\ spoilt' = spoilt \union Relying(v)
    /\ UNCHANGED <<vcalls, vaccess, vjobs, vout, frames, wire, scene, scenes>>

\* The timer of route, or agent.cancel.
VisualGivenUp(c) ==
    /\ c \in Awaited /\ vcalls' = EndVisuals({c}, "given up")
    /\ UNCHANGED <<visuals, vaccess, vjobs, vout, frames, wire, scene, spoilt, scenes>>

\* The answer that names a baseline is written, or fails with the connection.
VisualWritten(id) ==
    /\ id \in vout.queued
    /\ vout' = [vout EXCEPT !.queued = @ \ {id}, !.handed = IF vout.open THEN @ \union {id} ELSE @]
    /\ visuals' = IF vout.open THEN visuals ELSE {v \in visuals : v.id # id}
    /\ UNCHANGED <<vcalls, vaccess, vjobs, frames, wire, scene, spoilt, scenes>>

\* The agent's queue is closed, and its requests end.
VisualAgentLeaves ==
    /\ vout.open /\ ChangesScene /\ vout' = [vout EXCEPT !.open = FALSE]
    /\ vcalls' = EndVisuals(Awaited, "left")
    /\ UNCHANGED <<visuals, vaccess, vjobs, frames, wire, scene, spoilt>>

-----------------------------------------------------------------------------
(* The browser: captureVisualBaseline, and the events of a tab               *)

PostVisual(note) == wire' = IF scene.linked THEN Append(wire, note) ELSE wire

\* What a sample of the page shows; early, when the document is being replaced.
Sample(c, t) == [call |-> c, tab |-> t, doc |-> scene.doc[t], scrolled |-> t \in scene.scrolled,
                 early |-> t \in scene.loading]

CaptureBegins(c, t) ==
    /\ c \in Awaited /\ vcalls[c].tab = {t} /\ scene.linked /\ scene.granted
    /\ \A f \in frames \union ToSet(vjobs) : f.call # c
    /\ \A i \in DOMAIN wire : wire[i].kind = "frame" => wire[i].frame.call # c
    /\ frames' = frames \union {Sample(c, t)}
    /\ UNCHANGED <<visuals, vcalls, vaccess, vjobs, vout, wire, scene, spoilt, scenes>>

\* The second sample must find the same scope.
CaptureEnds(f) ==
    LET now == Sample(f.call, f.tab)
    IN  /\ frames' = frames \ {f}
        /\ PostVisual([kind |-> "frame", frame |-> [f EXCEPT !.early = @ \/ now.early],
                       ok |-> now.doc = f.doc /\ now.scrolled = f.scrolled])
        /\ UNCHANGED <<visuals, vcalls, vaccess, vjobs, vout, scene, spoilt, scenes>>

\* A load is announced when it starts; its commit replaces the document.
VisualPageLoads(t) ==
    /\ ChangesScene /\ scene' = [scene EXCEPT !.loading = @ \union {t}]
    /\ PostVisual([kind |-> "invalid", tab |-> t])
    /\ UNCHANGED <<visuals, vcalls, vaccess, vjobs, vout, frames, spoilt>>

VisualPageCommits(t) ==
    /\ t \in scene.loading
    /\ scene' = [scene EXCEPT !.loading = @ \ {t}, !.doc[t] = @ + 1, !.scrolled = @ \ {t}]
    /\ UNCHANGED <<visuals, vcalls, vaccess, vjobs, vout, frames, wire, spoilt, scenes>>

VisualPageScrolls(t) ==
    /\ ChangesScene /\ t \notin scene.scrolled /\ scene' = [scene EXCEPT !.scrolled = @ \union {t}]
    /\ UNCHANGED <<visuals, vcalls, vaccess, vjobs, vout, frames, wire, spoilt>>

\* The grant begins, is replaced by another or ends: access_update.
VisualGrantChanges(on) ==
    /\ ChangesScene /\ scene.linked /\ (scene.granted \/ on)
    /\ scene' = [scene EXCEPT !.granted = on]
    /\ PostVisual([kind |-> "access", on |-> on])
    /\ UNCHANGED <<visuals, vcalls, vaccess, vjobs, vout, frames, spoilt>>

\* The connection is lost, and made again.
VisualLinkLost ==
    /\ scene.linked /\ ChangesScene
    /\ scene' = [scene EXCEPT !.linked = FALSE, !.granted = FALSE]
    /\ frames' = {} /\ wire' = Append(wire, [kind |-> "gone"])
    /\ UNCHANGED <<visuals, vcalls, vaccess, vjobs, vout, spoilt>>
VisualLinkMade ==
    /\ ~scene.linked /\ wire = <<>> /\ scene' = [scene EXCEPT !.linked = TRUE]
    /\ UNCHANGED <<visuals, vcalls, vaccess, vjobs, vout, frames, wire, spoilt, scenes>>

-----------------------------------------------------------------------------
(* The daemon, under its lock                                                *)

\* response: a frame of a call that is awaited goes to the disk worker.
TakesFrame(note) ==
    LET c == note.frame.call
    IN  CASE ~vcalls[c].pending -> UNCHANGED <<vcalls, vjobs>>
          [] vcalls[c].pending /\ note.ok /\ Len(vjobs) < MaxVisualJobs ->
               vjobs' = Append(vjobs, note.frame) /\ UNCHANGED vcalls
          [] OTHER -> vcalls' = EndVisuals({c}, "failed") /\ UNCHANGED vjobs

\* invalidateVisualTab.
InvalidatesTab(t) ==
    LET hit == {c \in Awaited : vcalls[c].tab = {t}}
    IN  /\ visuals' = {v \in visuals : v.tab # t}
        /\ vcalls' = EndVisuals(hit, "invalidated") /\ spoilt' = spoilt \union hit

\* baselineRegistry.clear
ClearsVisuals(on) ==
    /\ visuals' = {} /\ spoilt' = spoilt \union Awaited
    /\ vaccess' = [on |-> on, epoch |-> vaccess.epoch + 1]

DaemonTakesVisual ==
    LET note == Head(wire)
    IN  /\ wire # <<>> /\ wire' = Tail(wire)
        /\ \/ /\ note.kind = "frame" /\ TakesFrame(note)
              /\ UNCHANGED <<visuals, vaccess, spoilt>>
           \/ /\ note.kind = "invalid" /\ InvalidatesTab(note.tab)
              /\ UNCHANGED <<vaccess, vjobs>>
           \/ /\ note.kind = "access" /\ ClearsVisuals(note.on)
              /\ UNCHANGED <<vcalls, vjobs>>
           \/ /\ note.kind = "gone" /\ ClearsVisuals(FALSE)
              /\ vcalls' = EndVisuals(Awaited, "disconnected")
              /\ UNCHANGED vjobs
        /\ UNCHANGED <<vout, frames, scene, scenes>>

\* Broken variant of SameAccess: only that there is access.
SomeAccess(c) == vaccess.on

\* visualResponse's callback checks that the access is the one of the request.
SameAccess(c) == vaccess.on /\ vaccess.epoch = vcalls[c].epoch

Pixels(id, f) == [id |-> id, of |-> f.call, tab |-> f.tab, doc |-> f.doc,
                  scrolled |-> f.scrolled, early |-> f.early]

Room(t) ==
    /\ Cardinality(visuals) < MaxPixels
    /\ Cardinality({v \in visuals : v.tab = t}) < MaxPagePixels

\* finish, for a new baseline: kept if the agent's queue takes the answer.
Registers(f) ==
    /\ vcalls' = EndVisuals({f.call}, IF Room(f.tab) THEN "created" ELSE "failed")
    /\ IF Room(f.tab)
       THEN /\ visuals' = visuals \union {Pixels(f.call, f)}
            /\ vout' = [vout EXCEPT !.queued = @ \union {f.call}]
       ELSE UNCHANGED <<visuals, vout>>
    /\ UNCHANGED spoilt

\* compareVisual: what differs is shown, if evidence of it can be given.
Comparable(ref, f) == ref.scrolled = f.scrolled
Replaces(ref, f, op, evidence) == Comparable(ref, f) /\ op = "advance" /\ evidence

\* The result: a baseline of another document or scope is ended by it.
Compares(f, evidence) ==
    LET call == vcalls[f.call]
        ref == CHOOSE v \in call.of : TRUE
    IN  /\ IF ref \notin visuals \/ ref.doc # f.doc
           THEN /\ vcalls' = EndVisuals({f.call}, "invalidated")
                /\ visuals' = visuals \ {ref}
           ELSE /\ vcalls' = EndVisuals({f.call}, "compared")
                /\ visuals' = CASE ~Comparable(ref, f) -> visuals \ {ref}
                                [] Replaces(ref, f, call.op, evidence) ->
                                     (visuals \ {ref}) \union {Pixels(ref.id, f)}
                                [] OTHER -> visuals
        /\ spoilt' = IF visuals' = visuals THEN spoilt ELSE spoilt \union (Relying(ref) \ {f.call})
        /\ UNCHANGED vout

\* The worker has looked at the pixels; the result is applied under the lock.
VisualSettles(evidence) ==
    LET f == Head(vjobs)
        c == f.call
    IN  /\ vjobs # <<>> /\ vjobs' = Tail(vjobs)
        /\ CASE ~vcalls[c].pending -> UNCHANGED <<visuals, vcalls, vout, spoilt>>
             [] vcalls[c].pending /\ ~SameAccess(c) ->
                  vcalls' = EndVisuals({c}, "failed") /\ UNCHANGED <<visuals, vout, spoilt>>
             [] OTHER -> IF vcalls[c].op = "create" THEN Registers(f) ELSE Compares(f, evidence)
        /\ UNCHANGED <<vaccess, frames, wire, scene, scenes>>

VisualNext ==
    \/ \E c \in VCall :
         \/ \E t \in Page : CreateVisual(c, t) \/ CaptureBegins(c, t)
         \/ \E v \in visuals, op \in {"compare", "advance"} : CompareVisual(c, v, op)
         \/ VisualGivenUp(c) \/ VisualWritten(c)
    \/ \E v \in visuals : ForgetVisual(v)
    \/ \E f \in frames : CaptureEnds(f)
    \/ \E t \in Page : VisualPageLoads(t) \/ VisualPageCommits(t) \/ VisualPageScrolls(t)
    \/ VisualAgentLeaves \/ VisualLinkLost \/ VisualLinkMade
    \/ DaemonTakesVisual
    \/ \E b \in BOOLEAN : VisualGrantChanges(b) \/ VisualSettles(b)

VisualSpec == VisualInit /\ [][VisualNext]_visualVars

-----------------------------------------------------------------------------
Underway(t) == \E i \in DOMAIN wire :
    wire[i].kind \in {"access", "gone"} \/ (wire[i].kind = "invalid" /\ wire[i].tab = t)

\* Pixels are shown and kept only for the page and the access they were captured
\* under (visual_baseline.go 259-359, 371-383; docs and skills: "In-flight
\* comparisons fail if another operation releases or advances the reference").  No
\* call that a load, a revocation, a disconnect, a release or an advance overtook
\* is answered with a baseline or a comparison; the pixels kept are of the document
\* their tab shows, unless it was being replaced when they were taken or the
\* daemon is about to hear of it, and of a browser with access; they are within the
\* limits; and an agent was told of each of them, or is about to be.
PixelsInScope ==
    /\ \A c \in spoilt : vcalls[c].answer \notin {"created", "compared"}
    /\ \A v \in visuals : /\ vaccess.on
                          /\ v.doc = scene.doc[v.tab] \/ v.early \/ Underway(v.tab)
                          /\ v.id \in vout.handed \union vout.queued
    /\ Cardinality(visuals) <= MaxPixels
    /\ \A t \in Page : Cardinality({v \in visuals : v.tab = t}) <= MaxPagePixels
=============================================================================
