----------------------------- MODULE BridgeClient -----------------------------
(* A client of the daemon (client.go): callers on goroutines of their own,    *)
(* one reader, one map of pending calls under a mutex, and for each call a    *)
(* channel that holds one result. A sender on a full channel would wait for   *)
(* ever, in fail with the mutex held. Two calls may have the same id.         *)
EXTENDS Naturals, FiniteSets

CONSTANTS Caller, Id

\* What the reader does is told from the caller whose result it holds.
ASSUME CallerAssumption == {"reading", "failing", "done"} \intersect Caller = {}

VARIABLES
    callers,    \* where each caller is
    names,      \* the id of its request
    entries,    \* client.pending: the callers whose channel is in it
    results,    \* results put into each call's channel, not yet taken
    reader,     \* "reading", a caller whose result it holds, "failing", "done"
    shut,       \* client.closed
    served      \* calls the daemon has got and not answered

clientVars == <<callers, names, entries, results, reader, shut, served>>

ClientInit ==
    /\ callers = [r \in Caller |-> "none"] /\ names = [r \in Caller |-> "none"]
    /\ entries = {} /\ results = [r \in Caller |-> 0] /\ reader = "reading"
    /\ shut = FALSE /\ served = {}

CallerAt(r, place) == callers' = [callers EXCEPT ![r] = place]
Holders(i) == {r \in entries : names[r] = i}

-----------------------------------------------------------------------------
(* A caller: client.request *)

\* A closed client takes no more calls, and an id is pending once.
Enters(r, i) ==
    /\ callers[r] = "none" /\ names' = [names EXCEPT ![r] = i]
    /\ IF shut \/ Holders(i) # {}
       THEN CallerAt(r, "returned") /\ UNCHANGED entries
       ELSE CallerAt(r, "sending") /\ entries' = entries \union {r}
    /\ UNCHANGED <<results, reader, shut, served>>

\* sendContext: nothing was written, a part, or all.
Sends(r) ==
    /\ callers[r] = "sending"
    /\ \/ CallerAt(r, "leaving") /\ UNCHANGED served
       \/ CallerAt(r, "failing") /\ UNCHANGED served
       \/ CallerAt(r, "waiting") /\ served' = IF shut THEN served ELSE served \union {r}
    /\ UNCHANGED <<names, entries, results, reader, shut>>

TakesResult(r) ==
    /\ callers[r] = "waiting" /\ results[r] > 0
    /\ results' = [results EXCEPT ![r] = @ - 1]
    /\ CallerAt(r, "leaving")
    /\ UNCHANGED <<names, entries, reader, shut, served>>

\* The context ends first. The cancellation may be written in part; a daemon
\* that does not know it is not told.
GivesUpCall(r) ==
    /\ callers[r] = "waiting"
    /\ CallerAt(r, "leaving") \/ CallerAt(r, "failing")
    /\ UNCHANGED <<names, entries, results, reader, shut, served>>

\* Broken variant of Removes: whatever is pending under the id is removed.
RemovesId(r) == entries' = entries \ Holders(names[r])

\* The deferred removal, of the caller's own channel only.
Removes(r) == entries' = entries \ {r}

Leaves(r) ==
    /\ callers[r] = "leaving" /\ Removes(r) /\ CallerAt(r, "returned")
    /\ UNCHANGED <<names, results, reader, shut, served>>

-----------------------------------------------------------------------------
(* The reader and the end *)

\* An answer goes to the call pending under its id, which is taken out under
\* the mutex before the result is put; without one it is dropped.
ReadsAnswer(r) ==
    /\ reader = "reading" /\ r \in served /\ served' = served \ {r}
    /\ LET found == Holders(names[r])
       IN  /\ entries' = entries \ found
           /\ IF found = {} THEN reader' = "reading" ELSE reader' \in found
    /\ UNCHANGED <<callers, names, results, shut>>

PutsResult ==
    /\ reader \in Caller /\ reader' = "reading"
    /\ results' = [results EXCEPT ![reader] = @ + 1]
    /\ UNCHANGED <<callers, names, entries, shut, served>>

\* The connection ends, by the daemon or because it was closed.
ReadFails ==
    /\ reader = "reading" /\ reader' = "failing"
    /\ UNCHANGED <<callers, names, entries, results, shut, served>>

\* fail, the first time: every pending call gets the error.
FailsAll ==
    /\ shut' = TRUE
    /\ results' = [r \in Caller |-> results[r] + IF r \in entries /\ ~shut THEN 1 ELSE 0]
    /\ entries' = IF shut THEN entries ELSE {}

FailsInReader ==
    /\ reader = "failing" /\ reader' = "done" /\ FailsAll
    /\ UNCHANGED <<callers, names, served>>

FailsInCaller(r) ==
    /\ callers[r] = "failing" /\ CallerAt(r, "leaving") /\ FailsAll
    /\ UNCHANGED <<names, reader, served>>

\* close
ClosesClient == ~shut /\ FailsAll /\ UNCHANGED <<callers, names, reader, served>>

ClientNext ==
    \/ \E r \in Caller :
         \/ \E i \in Id : Enters(r, i)
         \/ Sends(r) \/ TakesResult(r) \/ GivesUpCall(r) \/ Leaves(r)
         \/ ReadsAnswer(r) \/ FailsInCaller(r)
    \/ PutsResult \/ ReadFails \/ FailsInReader \/ ClosesClient

ClientSpec == ClientInit /\ [][ClientNext]_clientVars

-----------------------------------------------------------------------------
(* Properties. *)

\* Whoever answers, cancels, fails or closes at the same time, and though calls
\* share an id, no channel is given a second result, so that nobody waits to
\* put one; a caller that waits is pending or has its result, now or at the
\* reader's next step, and once the client is closed it is not pending any more
\* (request, read, fail).
ClientSettles ==
    /\ \A r \in Caller : results[r] + (IF reader = r THEN 1 ELSE 0) <= 1
    /\ \A r \in Caller :
         callers[r] = "waiting" => r \in entries \/ results[r] = 1 \/ reader = r
    /\ shut => entries = {}
=============================================================================
