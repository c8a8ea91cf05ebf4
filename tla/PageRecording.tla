----------------------------- MODULE PageRecording -----------------------------
(* One recording of a tab and of a tab it opens (background-recording.ts,     *)
(* page-recorder.ts): its start, a poll that drains the pages' recorders, the *)
(* network capture it takes from Chrome's debugger, body reads, a journal     *)
(* written behind it, and the stop that all ends lead to. The worker runs one *)
(* step at a time; each await is a place where the others move.               *)
EXTENDS Naturals, Sequences, FiniteSets

CONSTANTS
    Root, Child,    \* the recorded tab, a tab it may open
    MaxMemory,      \* events held in memory: 4000
    MaxWaiting,     \* journal records not yet written: 2 MiB of them
    MaxReads,       \* concurrent body reads: 2
    MaxQueued,      \* body reads that wait: 32
    MaxActs,        \* what users and pages do
    MaxFaults       \* what goes wrong

ASSUME ReadsAssumption == MaxReads \in Nat \ {0}

VARIABLES
    rec,        \* RecordingState, and where its three coroutines are
    page,       \* each page's recorder: [on, held, over]
    armed,      \* tabs whose network capture is on (background-cdp-network.ts)
    child,      \* the child tab is there
    allowed,    \* the grant and the port of the start are still there
    left,       \* history: tabs let go whose recorder (on), whose capture (armed)
                \* did not stop
    acts, faults

recordingVars == <<rec, page, armed, child, allowed, left, acts, faults>>

Pages == {Root, Child}
NoRecorder == [on |-> FALSE, held |-> 0, over |-> FALSE]
Recorder == [NoRecorder EXCEPT !.on = TRUE]

\* start, poll and stop are positions; todo the pages still to visit, hand what
\* was drained and is not yet recorded.
RecordingInit ==
    /\ \E durable \in BOOLEAN :
         rec = [durable |-> durable, kept |-> FALSE, clearing |-> FALSE,
                active |-> FALSE, reason |-> "none",
                start |-> "none", poll |-> "off", stop |-> "none", todo |-> {}, hand |-> NoRecorder,
                nets |-> {}, kids |-> {}, next |-> 0, gaps |-> 0, queue |-> <<>>, reads |-> {},
                journal |-> <<>>, written |-> 0, broken |-> FALSE]
    /\ page = [t \in Pages |-> NoRecorder] /\ armed = {} /\ child = FALSE /\ allowed = TRUE
    /\ left = [on |-> {}, armed |-> {}] /\ acts = 0 /\ faults = 0

-----------------------------------------------------------------------------
(* Helpers: each takes a recording and returns what it becomes.               *)

\* stopState, up to its first await: one stop at a time.
Halt(r, why) ==
    IF r.stop # "none" THEN r
    ELSE [r EXCEPT !.stop = "wait", !.active = FALSE, !.reason = why,
                   !.poll = IF @ = "timer" THEN "off" ELSE @,
                   !.queue = IF why = "revoked" THEN <<>> ELSE @]

\* persist: a chain of writes, of bounded length.
Persist(r, record) ==
    IF ~r.durable \/ r.broken THEN r
    ELSE IF Len(r.journal) - r.written >= MaxWaiting
         THEN Halt([r EXCEPT !.broken = TRUE], "journal_backpressure")
         ELSE [r EXCEPT !.journal = Append(@, record)]

\* append: a full memory drops the event and ends the recording, unless a
\* journal has what memory lets go of.
Full(r) == ~r.durable /\ r.next >= MaxMemory
Records(r) ==
    IF Full(r) THEN IF r.active THEN Halt(r, "event_quota") ELSE r
    ELSE Persist([r EXCEPT !.next = @ + 1], <<"event", r.next>>)

Gap(r) == Records([r EXCEPT !.gaps = @ + 1])

\* ingest: a buffer that overflowed leaves a gap before what it held.
Ingests(r, got) ==
    LET marked == IF got.over THEN Gap(r) ELSE r
    IN  IF got.held > 0 THEN Records(marked) ELSE marked

\* The end of collect, and its catch.
Polled(r) == [r EXCEPT !.poll = IF r.active THEN "timer" ELSE "off",
                       !.todo = IF r.stop = "none" THEN {} ELSE @, !.hand = NoRecorder]
Fails(r) == Polled(Halt(Gap(r), "capture_unavailable"))

Fault == faults < MaxFaults /\ faults' = faults + 1
Others == UNCHANGED <<child, allowed, acts>>
Outside == Others /\ UNCHANGED left
Inside == UNCHANGED <<page, armed, faults>> /\ Outside

Flushed == rec.broken \/ rec.written = Len(rec.journal)

-----------------------------------------------------------------------------
(* start: access, network capture, the page's recorder, the journal           *)

Starts ==
    /\ rec.start = "none" /\ allowed
    /\ rec' = [rec EXCEPT !.start = "network", !.kept = TRUE] /\ Inside

\* startNetwork and Network.enable.
TakesNetwork ==
    /\ rec.start = "network" /\ allowed
    /\ \/ /\ armed' = armed \union {Root}
          /\ rec' = [rec EXCEPT !.nets = {Root}, !.start = "page"]
          /\ UNCHANGED faults
       \/ Fault /\ rec' = [rec EXCEPT !.start = "failing"] /\ UNCHANGED armed
    /\ UNCHANGED page /\ Outside

\* After each await: assertAccess, and that no stop came meanwhile.
MayStart == allowed /\ rec.kept /\ rec.reason = "none"

StartsPage ==
    /\ rec.start = "page" /\ MayStart
    /\ \/ /\ page' = [page EXCEPT ![Root] = Recorder]
          /\ rec' = [rec EXCEPT !.start = "activate"] /\ UNCHANGED faults
       \/ Fault /\ rec' = [rec EXCEPT !.start = "failing"] /\ UNCHANGED page
    /\ UNCHANGED armed /\ Outside

\* The journal's header, the first event, the timer.
Activates ==
    /\ rec.start = "activate" /\ MayStart
    /\ LET live == Records(Persist([rec EXCEPT !.active = TRUE], <<"header">>))
       IN  rec' = [live EXCEPT !.start = "journal", !.poll = IF live.active THEN "timer" ELSE "off"]
    /\ Inside

StartDone ==
    /\ rec.start = "journal" /\ Flushed
    /\ rec' = [rec EXCEPT !.start = IF rec.broken THEN "failing" ELSE "done"] /\ Inside

StartRefused ==
    /\ \/ rec.start = "network" /\ ~allowed
       \/ rec.start \in {"page", "activate"} /\ ~MayStart
    /\ rec' = [rec EXCEPT !.start = "failing"] /\ Inside

\* The catch of start(): it stops what it had begun, and forgets it.
StartFails ==
    /\ rec.start = "failing"
    /\ rec' = [Halt(rec, "start_failed") EXCEPT !.start = "failed", !.clearing = TRUE] /\ Inside

-----------------------------------------------------------------------------
(* collect: the poll                                                          *)

PollBegins ==
    /\ rec.poll = "timer"
    /\ rec' = IF allowed THEN [rec EXCEPT !.poll = "tabs"] ELSE Fails(rec)
    /\ Inside

TimesOut == rec.poll = "timer" /\ rec' = Halt(rec, "duration") /\ Inside

\* A child that is gone is let go, also when its recorder (on) or its capture
\* (net) does not stop, which nobody is told; a new one is listed, then its
\* capture starts, unless one is on.
LosesChild ==
    /\ rec.poll = "tabs" /\ Child \in rec.kids /\ ~child
    /\ rec' = Records([rec EXCEPT !.kids = {}, !.nets = @ \ {Child}])
    /\ \E on \in SUBSET {Child}, net \in SUBSET (rec.nets \intersect {Child}) :
         /\ IF on = {} /\ net = {} THEN UNCHANGED faults ELSE Fault
         /\ page' = IF on = {} THEN [page EXCEPT ![Child] = NoRecorder] ELSE page
         /\ armed' = armed \ ((rec.nets \intersect {Child}) \ net)
         /\ left' = [on |-> left.on \union on, armed |-> left.armed \union net]
    /\ Others

SeesChild ==
    /\ rec.poll = "tabs" /\ Child \notin rec.kids /\ child
    /\ rec' = IF allowed THEN [rec EXCEPT !.kids = {Child}, !.poll = "joining"] ELSE Fails(rec)
    /\ left' = IF allowed THEN [on |-> left.on \ {Child}, armed |-> left.armed] ELSE left
    /\ UNCHANGED <<page, armed, faults>> /\ Others

JoinsChild ==
    /\ rec.poll = "joining"
    /\ \/ /\ Child \notin armed /\ armed' = armed \union {Child}
          /\ left' = [on |-> left.on, armed |-> left.armed \ {Child}]
          /\ rec' = [Records([rec EXCEPT !.nets = @ \union {Child}]) EXCEPT !.poll = "tabs"]
          /\ UNCHANGED faults
       \/ /\ IF Child \in armed THEN UNCHANGED faults ELSE Fault
          /\ rec' = Fails(rec) /\ UNCHANGED <<armed, left>>
    /\ UNCHANGED page /\ Others

TabsSeen ==
    /\ rec.poll = "tabs" /\ (Child \in rec.kids) = child
    /\ rec' = [rec EXCEPT !.poll = IF Child \in rec.kids THEN "child" ELSE "root"] /\ Inside

\* A child's recorder is drained, or a new one started without a word.
DrainsChild ==
    /\ rec.poll = "child" /\ allowed /\ rec.active
    /\ \/ /\ page' = [page EXCEPT ![Child] = Recorder]
          /\ rec' = [Ingests(rec, page[Child]) EXCEPT !.poll = "root"] /\ UNCHANGED faults
       \/ Fault /\ rec' = Fails(rec) /\ UNCHANGED page
    /\ UNCHANGED armed /\ Outside

\* The root's is drained; after assertAccess it is taken in, or started anew.
DrainsRoot ==
    /\ rec.poll = "root"
    /\ \/ /\ rec' = [rec EXCEPT !.poll = IF page[Root].on THEN "got" ELSE "missing",
                                !.hand = page[Root]]
          /\ page' = [page EXCEPT ![Root] = [NoRecorder EXCEPT !.on = page[Root].on]]
          /\ UNCHANGED faults
       \/ Fault /\ rec' = Fails(rec) /\ UNCHANGED page
    /\ UNCHANGED armed /\ Outside

TakesIn ==
    /\ rec.poll = "got" /\ allowed /\ rec.active
    /\ rec' = Polled(Ingests(rec, rec.hand)) /\ Inside

Restarts ==
    /\ rec.poll = "missing" /\ allowed /\ rec.active
    /\ rec' = [Gap(rec) EXCEPT !.poll = "again"] /\ Inside

Restarted ==
    /\ rec.poll = "again"
    /\ \/ page' = [page EXCEPT ![Root] = Recorder] /\ rec' = Polled(rec) /\ UNCHANGED faults
       \/ Fault /\ rec' = Fails(rec) /\ UNCHANGED page
    /\ UNCHANGED armed /\ Outside

\* Access is gone: collect throws. A stop has come: it returns, what it holds
\* is dropped.
PollCut ==
    /\ rec.poll \in {"child", "got", "missing"} /\ ~(allowed /\ rec.active)
    /\ rec' = IF allowed THEN Polled(rec) ELSE Fails(rec)
    /\ Inside

-----------------------------------------------------------------------------
(* The network, body reads and the journal                                    *)

\* pumpBodies: a slot is taken by the first that waits.
Pumped(r) ==
    IF r.queue = <<>> \/ Cardinality(r.reads) >= MaxReads THEN r
    ELSE [r EXCEPT !.reads = @ \union {Head(r.queue)}, !.queue = Tail(@)]

\* loadingFinished of a request.
Load(t) ==
    /\ acts < MaxActs /\ acts' = acts + 1
    /\ rec.kept /\ rec.active /\ t \in armed /\ t \in {Root} \union rec.kids
    /\ LET r == Records(rec)
       IN  rec' = IF Full(rec) \/ Len(rec.queue) >= MaxQueued THEN r
                  ELSE Pumped([r EXCEPT !.queue = Append(@, [seq |-> rec.next, tab |-> t])])
    /\ UNCHANGED <<page, armed, faults, child, allowed, left>>

\* A read ends, with a body or without; the next begins.
ReadEnds(j) ==
    /\ j \in rec.reads
    /\ \E found \in {r \in BOOLEAN : r => j.tab \in armed /\ rec.kept /\ rec.reason # "revoked"} :
         LET r == IF found THEN Persist(rec, <<"body", j.seq>>) ELSE rec
         IN  rec' = Pumped([Persist(r, <<"update", j.seq>>) EXCEPT !.reads = @ \ {j}])
    /\ Inside

JournalWrites ==
    /\ ~Flushed
    /\ \/ rec' = [rec EXCEPT !.written = @ + 1] /\ UNCHANGED faults
       \/ Fault /\ rec' = Halt([rec EXCEPT !.broken = TRUE], "journal_write_failed")
    /\ UNCHANGED <<page, armed>> /\ Outside

-----------------------------------------------------------------------------
(* stopState, after its first await                                           *)

\* Broken variant of Quiet: what a poll is about to take is not waited for.
StartQuiet == rec.start \in {"done", "failed"}

Quiet == rec.start \in {"done", "failed"} /\ rec.poll = "off"

StopBegins ==
    /\ rec.stop = "wait" /\ Quiet
    /\ rec' = [rec EXCEPT !.stop = "pages", !.todo = rec.kids \union {Root}] /\ Inside

StopsPage(t) ==
    /\ rec.stop = "pages" /\ t \in rec.todo /\ (t = Root => rec.todo = {Root})
    /\ LET r == [rec EXCEPT !.todo = @ \ {t}, !.stop = IF t = Root THEN "bodies" ELSE @]
       IN  \/ /\ rec' = Ingests(r, page[t])
              /\ page' = [page EXCEPT ![t] = NoRecorder] /\ UNCHANGED faults
           \/ Fault /\ rec' = Gap(r) /\ UNCHANGED page
    /\ UNCHANGED armed /\ Outside

BodiesRead == rec.stop = "bodies" /\ rec.reads = {} /\ rec' = [rec EXCEPT !.stop = "nets"] /\ Inside

\* The first that fails ends the stop; it may be tried again.
ReleasesNet(t) ==
    /\ rec.stop = "nets" /\ t \in rec.nets /\ (t = Root => rec.nets = {Root})
    /\ \/ /\ armed' = armed \ {t} /\ rec' = [rec EXCEPT !.nets = @ \ {t}] /\ UNCHANGED faults
       \/ Fault /\ rec' = [rec EXCEPT !.stop = "none", !.reason = "stop_failed"] /\ UNCHANGED armed
    /\ UNCHANGED page /\ Outside

StopRecords ==
    /\ rec.stop = "nets" /\ rec.nets = {}
    /\ rec' = [Persist(Records(rec), <<"end">>) EXCEPT !.stop = "journal"] /\ Inside

StopDone == rec.stop = "journal" /\ Flushed /\ rec' = [rec EXCEPT !.stop = "done"] /\ Inside

\* clear's finally, the catch of start, and the five minutes after a stop.
Forgets ==
    /\ rec.kept
    /\ rec.stop = "done" \/ (rec.clearing /\ rec.stop = "none")
    /\ rec' = [rec EXCEPT !.kept = FALSE, !.clearing = FALSE] /\ Inside

-----------------------------------------------------------------------------
(* Agents, users, pages, Chrome                                               *)

\* session.stop and session.export
StopAsked == rec.kept /\ rec.start = "done" /\ rec' = Halt(rec, "requested") /\ Inside

\* session.release, or the owner, the port or the window is gone.
ClearAsked ==
    /\ rec.kept /\ (rec.start = "done" \/ ~allowed)
    /\ rec' = [Halt(rec, "revoked") EXCEPT !.clearing = TRUE] /\ Inside

AccessEnds ==
    /\ allowed /\ allowed' = FALSE
    /\ UNCHANGED <<rec, page, armed, child, left, acts, faults>>

\* Opened or closed, or moved to the window or out of it with its document.
ChildMoves ==
    /\ acts < MaxActs /\ acts' = acts + 1 /\ child' = ~child
    /\ page' \in {page, [page EXCEPT ![Child] = NoRecorder]}
    /\ UNCHANGED <<rec, armed, allowed, left, faults>>

\* A trusted event; the buffer of a page holds few, the oldest goes.
PageActs(t) ==
    /\ acts < MaxActs /\ acts' = acts + 1 /\ page[t].on
    /\ page' = [page EXCEPT ![t] = [on |-> TRUE, held |-> 1, over |-> page[t].over \/ page[t].held = 1]]
    /\ UNCHANGED <<rec, armed, child, allowed, left, faults>>

\* A new document, without a recorder.
PageNavigates(t) ==
    /\ acts < MaxActs /\ acts' = acts + 1 /\ page[t].on
    /\ page' = [page EXCEPT ![t] = NoRecorder]
    /\ UNCHANGED <<rec, armed, child, allowed, left, faults>>

\* handleDetach
Detach(t) ==
    /\ t \in armed /\ Fault /\ armed' = armed \ {t}
    /\ rec' = IF rec.kept /\ Root \in rec.nets /\ rec.stop = "none" /\ t \in {Root} \union rec.kids
              THEN Halt([Gap(rec) EXCEPT !.nets = @ \ {t}], "debugger_detached")
              ELSE rec
    /\ UNCHANGED page /\ Outside

\* The capture's own timer: ten minutes from its start, whoever uses it.
CaptureExpires(t) ==
    /\ t \in armed /\ Fault /\ armed' = armed \ {t} /\ UNCHANGED <<rec, page>> /\ Outside

RecordingNext ==
    \/ Starts \/ TakesNetwork \/ StartsPage \/ Activates \/ StartDone \/ StartRefused \/ StartFails
    \/ PollBegins \/ TimesOut \/ LosesChild \/ SeesChild \/ JoinsChild \/ TabsSeen \/ DrainsChild
    \/ DrainsRoot \/ TakesIn \/ Restarts \/ Restarted \/ PollCut
    \/ \E t \in Pages : Load(t) \/ StopsPage(t) \/ ReleasesNet(t) \/ PageActs(t)
                        \/ PageNavigates(t) \/ Detach(t) \/ CaptureExpires(t)
    \/ \E j \in rec.reads : ReadEnds(j)
    \/ JournalWrites \/ StopBegins \/ BodiesRead \/ StopRecords \/ StopDone \/ Forgets
    \/ StopAsked \/ ClearAsked \/ AccessEnds \/ ChildMoves

RecordingSpec == RecordingInit /\ [][RecordingNext]_recordingVars

-----------------------------------------------------------------------------
(* Properties. *)

\* Whichever of its ends comes first and wherever start and poll are then, a
\* recording that has stopped holds no capture, reads no body, polls no more
\* and leaves no recorder in a page, unless it could not reach it and says so
\* (stopState). What a poll could not stop in a tab that it let go is left on, as
\* the comment of LosesChild says.
StoppedHoldsNothing ==
    rec.stop = "done" =>
        /\ rec.poll = "off" /\ rec.nets = {} /\ armed \subseteq left.armed /\ rec.reads = {} /\ rec.queue = <<>>
        /\ \A t \in Pages : page[t].on => rec.gaps > 0 \/ t \in left.on

\* The journal, as far as it is written, can be replayed: its header comes first,
\* its events in order, a body and an update after their event, the end last;
\* and without an error the end is written when the stop is done (persist).
JournalReplays ==
    LET j == rec.journal
        Number(n) == j[n][2]
        Of(kind) == {n \in DOMAIN j : j[n][1] = kind}
    IN  /\ Of("header") \subseteq {1} /\ Of("end") \subseteq {Len(j)}
        /\ \A m, n \in Of("event") : m < n => Number(m) < Number(n)
        /\ \A n \in Of("body") \union Of("update") : \E m \in Of("event") : m < n /\ Number(m) = Number(n)
        /\ rec.stop = "done" /\ rec.durable /\ ~rec.broken => rec.written = Len(j) /\ Of("end") # {}

\* A stop lets go of the network only after the last body was read.
BodiesInTime == rec.stop \in {"nets", "journal"} => rec.reads = {} /\ rec.queue = <<>>

RecordingKept == StoppedHoldsNothing /\ JournalReplays /\ BodiesInTime

\* recording.md:54: a network recording owns the tab's capture, whose lifecycle
\* goes through session.stop. The capture's own timer ends it.
OwnsCapture == rec.active /\ Root \in rec.nets => Root \in armed
=============================================================================
