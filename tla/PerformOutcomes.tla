--------------------------- MODULE PerformOutcomes ---------------------------
(***************************************************************************)
(* input.perform (src/packages/extension/src/background-perform.ts): a      *)
(* sequence of steps under one deadline, and the outcomes it waits for      *)
(* (background-outcomes.ts), one of them a network request that it watches  *)
(* for in the page's capture (background-network.ts).                       *)
(***************************************************************************)
EXTENDS Naturals, Integers, FiniteSets, SequencesExt

CONSTANTS
    Steps,          \* params.steps: how many
    MaxBuffer,      \* entries the page keeps: 200
    MaxPageCalls,   \* requests the page makes
    MaxSurprises    \* clears, switches off and on, loads, failed reads

VARIABLES
    record,      \* NetworkInstrumentationRecord, and requests in flight
    perform,     \* executeInputPerform
    watch,       \* watchNetwork: its baseline, what it has read, its result
    late,        \* the deadline has passed
    performable, \* the request is active and its grant is the one of the start
    pageCalls, surprises

performVars == <<record, perform, watch, late, performable, pageCalls, surprises>>

Hits == {"good", "bad", "other"}   \* the condition's status, another status, another request

NoRecord(epoch) == [here |-> FALSE, on |-> FALSE, epoch |-> epoch, next |-> 0, gen |-> 0,
                    evicted |-> -1, completed |-> 0, buffer |-> <<>>, flying |-> {}, all |-> {}]

PerformInit ==
    /\ record = NoRecord(1)
    /\ \E stubborn, dom \in BOOLEAN :
         perform = [at |-> "none", step |-> 1, stubborn |-> stubborn,
                    dom |-> IF dom THEN "pending" ELSE "matched", reply |-> "none"]
    /\ watch = [at |-> "off", epoch |-> 0, next |-> 0, gen |-> 0, order |-> 0,
                result |-> "pending", blind |-> FALSE, known |-> {}]
    /\ late = FALSE /\ performable = TRUE /\ pageCalls = 0 /\ surprises = 0

-----------------------------------------------------------------------------
(* The page                                                                 *)

\* wrappedFetch, wrappedSend: the request takes its number when it starts.
RequestStarts(hit) ==
    /\ pageCalls < MaxPageCalls /\ pageCalls' = pageCalls + 1
    /\ record.here /\ record.on
    /\ record' = [record EXCEPT !.next = @ + 1,
                                !.flying = @ \union {[sequence |-> record.next, hit |-> hit]}]
    /\ UNCHANGED <<perform, watch, late, performable, surprises>>

\* ... and its order when it ends, if the capture is on then.
RequestEnds(q) ==
    LET entry == [sequence |-> q.sequence, hit |-> q.hit, order |-> record.completed + 1]
        full == Append(record.buffer, entry)
        over == Len(full) > MaxBuffer
        landed == [record EXCEPT !.flying = @ \ {q}, !.all = IF q.hit = "other" THEN @ ELSE @ \union {q}]
    IN  /\ q \in record.flying
        /\ record' = (IF ~record.on THEN landed
                      ELSE [landed EXCEPT
                              !.completed = @ + 1,
                              !.buffer = IF over THEN Tail(full) ELSE full,
                              !.evicted = IF over /\ full[1].sequence > @
                                          THEN full[1].sequence ELSE @])
        /\ UNCHANGED <<perform, watch, late, performable, pageCalls, surprises>>

\* ensureNetworkInterceptor: a new record, or the old one switched on again.
Ensured(r) ==
    IF ~r.here THEN [r EXCEPT !.here = TRUE, !.on = TRUE]
    ELSE IF r.on THEN r
    ELSE [r EXCEPT !.on = TRUE, !.buffer = <<>>, !.gen = @ + 1]

Surprise == surprises < MaxSurprises /\ surprises' = surprises + 1

\* Another call reads and clears, or switches the capture on; a cleanup switches
\* it off; the page loads.
OthersUse ==
    /\ Surprise
    /\ \/ record.here /\ record' = [record EXCEPT !.buffer = <<>>, !.gen = @ + 1]
          /\ UNCHANGED watch
       \/ record' = Ensured(record) /\ UNCHANGED watch
       \/ record.on /\ record' = [record EXCEPT !.on = FALSE, !.buffer = <<>>]
          /\ watch' = [watch EXCEPT !.blind = TRUE]
       \/ record' = NoRecord(record.epoch + 1) /\ UNCHANGED watch
    /\ UNCHANGED <<perform, late, performable, pageCalls>>

-----------------------------------------------------------------------------
(* armPerformOutcomes                                                       *)

Replies(how) == perform' = [perform EXCEPT !.at = "over", !.reply = how]

\* monitor.stop: in the end the watch is told to stop, whatever it found.
Stopped(w) == IF w.result = "pending" THEN [w EXCEPT !.at = "over", !.result = "interrupted"]
              ELSE [w EXCEPT !.at = "over"]

Arms ==
    /\ perform.at = "none" /\ performable
    /\ perform' = [perform EXCEPT !.at = "arming"]
    /\ record' = Ensured(record)
    /\ UNCHANGED <<watch, late, performable, pageCalls, surprises>>

\* The first read sets the baseline.
Armed ==
    /\ perform.at = "arming"
    /\ IF ~record.here \/ late \/ ~performable
       THEN Replies("failed") /\ UNCHANGED watch
       ELSE /\ perform' = [perform EXCEPT !.at = "steps"]
            /\ watch' = [watch EXCEPT !.at = "reads", !.epoch = record.epoch, !.blind = ~record.on,
                                      !.next = record.next, !.gen = record.gen,
                                      !.order = record.completed]
    /\ UNCHANGED <<record, late, performable, pageCalls, surprises>>

\* Broken variant of LostFresh: off by one.
LostLater(r) == r.evicted > watch.next
\* lostFresh
LostFresh(r) == r.evicted >= watch.next

Gap(r) == ~r.here \/ r.epoch # watch.epoch \/ r.gen # watch.gen \/ r.next < watch.next \/ LostFresh(r)

\* Entries that ended since the last read and started since the baseline.
FreshHits(r) ==
    {e \in ToSet(r.buffer) : e.order > watch.order /\ e.sequence >= watch.next /\ e.hit # "other"}

\* Matching requests that started since the baseline and are over.
Matching(r) == {q \in r.all : q.sequence >= watch.next}

Reads ==
    /\ watch.at = "reads" /\ ~late /\ performable
    /\ LET known == IF record.epoch = watch.epoch THEN Matching(record) ELSE watch.known
           fresh == FreshHits(record)
           first == CHOOSE e \in fresh : \A f \in fresh : e.order <= f.order
       IN  watch' = [watch EXCEPT
             !.known = known, !.order = record.completed,
             !.at = IF Gap(record) \/ fresh # {} THEN "over" ELSE "reads",
             !.result = IF Gap(record) THEN "interrupted"
                        ELSE IF fresh = {} THEN @
                        ELSE IF first.hit = "good" THEN "matched" ELSE "failed"]
    /\ UNCHANGED <<record, perform, late, performable, pageCalls, surprises>>

\* The script fails, the deadline passes, the request is canceled.
ReadFails ==
    /\ watch.at = "reads" /\ Surprise
    /\ watch' = [watch EXCEPT !.at = "over", !.result = "interrupted"]
    /\ UNCHANGED <<record, perform, late, performable, pageCalls>>

StopsWatching ==
    /\ watch.at = "reads" /\ (late \/ ~performable)
    /\ watch' = [watch EXCEPT !.at = "over",
                              !.result = IF performable THEN "timeout" ELSE "interrupted"]
    /\ UNCHANGED <<record, perform, late, performable, pageCalls, surprises>>

-----------------------------------------------------------------------------
(* The steps                                                                *)

\* The deadline and the access are looked at before each step.
DispatchesStep ==
    /\ perform.at = "steps" /\ perform.step <= Steps /\ ~late /\ performable
    /\ perform' = [perform EXCEPT !.at = "step"]
    /\ UNCHANGED <<record, watch, late, performable, pageCalls, surprises>>

StepRefused ==
    /\ perform.at = "steps" /\ perform.step <= Steps /\ (late \/ ~performable)
    /\ Replies("failed") /\ watch' = Stopped(watch)
    /\ UNCHANGED <<record, late, performable, pageCalls, surprises>>

\* A failure ends the sequence, unless it continues on errors; a dialog always.
StepEnds ==
    /\ perform.at = "step"
    /\ \/ /\ perform' = [perform EXCEPT !.at = "steps", !.step = @ + 1]
          /\ UNCHANGED watch
       \/ /\ perform.stubborn
          /\ perform' = [perform EXCEPT !.at = "steps", !.step = @ + 1]
          /\ UNCHANGED watch
       \/ Replies("failed") /\ watch' = Stopped(watch)
    /\ UNCHANGED <<record, late, performable, pageCalls, surprises>>

\* complete: the other outcome is a call of its own, if there is time for it.
WaitsForOutcomes ==
    /\ perform.at = "steps" /\ perform.step > Steps
    /\ perform' = [perform EXCEPT !.at = "outcomes",
                     !.dom = IF @ = "pending" /\ (late \/ ~performable) THEN "missed" ELSE @]
    /\ UNCHANGED <<record, watch, late, performable, pageCalls, surprises>>

DomOutcome ==
    /\ perform.at = "outcomes" /\ perform.dom = "pending"
    /\ \E how \in {"matched", "missed"} : perform' = [perform EXCEPT !.dom = how]
    /\ UNCHANGED <<record, watch, late, performable, pageCalls, surprises>>

\* All outcomes are in, and the access is looked at once more.
Concludes ==
    /\ perform.at = "outcomes" /\ perform.dom # "pending" /\ watch.at = "over"
    /\ Replies(IF ~performable THEN "failed"
               ELSE IF watch.result = "matched" /\ perform.dom = "matched" THEN "verified"
               ELSE "not met")
    /\ UNCHANGED <<record, watch, late, performable, pageCalls, surprises>>

DeadlinePasses ==
    /\ ~late /\ late' = TRUE
    /\ UNCHANGED <<record, perform, watch, performable, pageCalls, surprises>>

\* The grant is replaced, or the request aborted: a revocation also cleans up.
AccessLost ==
    /\ performable /\ performable' = FALSE
    /\ UNCHANGED <<record, perform, watch, late, pageCalls, surprises>>

\* Nothing is looked at once the reply is made.
PerformNext ==
    /\ perform.at # "over"
    /\ \/ \E hit \in Hits : RequestStarts(hit)
       \/ \E q \in record.flying : RequestEnds(q)
       \/ OthersUse \/ Arms \/ Armed \/ Reads \/ ReadFails \/ StopsWatching
       \/ DispatchesStep \/ StepRefused \/ StepEnds \/ WaitsForOutcomes \/ DomOutcome
       \/ Concludes \/ DeadlinePasses \/ AccessLost

PerformSpec == PerformInit /\ [][PerformNext]_performVars

-----------------------------------------------------------------------------
\* The network outcome tells the truth: "matched" and "failed" name a request
\* that started after the capture was armed and is over, and "timeout" is only
\* said when no such request was over at the last read, however the buffer
\* overflowed, was cleared or replaced meanwhile, unless the capture was off.  A
\* verified sequence has run all its steps and met every outcome.
OutcomesTrue ==
    /\ watch.result \in {"matched", "failed"} =>
         \E q \in watch.known : q.hit = (IF watch.result = "matched" THEN "good" ELSE "bad")
    /\ watch.result = "timeout" => watch.known = {} \/ watch.blind
    /\ perform.reply = "verified" =>
         perform.step > Steps /\ \E q \in watch.known : q.hit = "good"
=============================================================================
