--------------------------- MODULE DaemonStorage ---------------------------
(***************************************************************************)
(* What the daemon stores for others: screenshots and other large results    *)
(* that an extension uploads in acknowledged chunks before it answers, and   *)
(* the journals of recordings.  The handlers run under daemon.mu and queue   *)
(* jobs for the disk worker; the stores change only when it works.           *)
(* (internal/bridge/storage_executor.go, artifact.go, recording.go, daemon.go; *)
(* storeByteArtifact of background.ts, background-artifact-transport.ts,     *)
(* recording-journal.ts.)                                                    *)
(*                                                                         *)
(* A message is handled when it is sent: what it may be late for has already *)
(* happened when its sender takes the step.                                  *)
(***************************************************************************)
EXTENDS Integers, SequencesExt, FiniteSets, FiniteSetsExt

-----------------------------------------------------------------------------
(* The executor: one FIFO of jobs, filled under daemon.mu and drained by one  *)
(* goroutine.  A job's work touches the disk without daemon.mu; what it       *)
(* returns is applied under it, later.  Transfers and cleanups share the      *)
(* queue and have two limits.                                                 *)

CONSTANTS
    TransferLimit,   \* queued jobs at which a transfer is refused (256)
    CleanupLimit,    \* queued jobs at which a cleanup is refused (512)
    ByteLimit,       \* bytes queued transfers may hold, in chunks (4 messages)
    NoJob            \* no job

ASSUME LimitsAssumption ==
    /\ {TransferLimit, CleanupLimit, ByteLimit} \subseteq Nat
    /\ TransferLimit <= CleanupLimit

VARIABLES
    jobs,      \* s.jobs
    settling   \* the job whose result waits for daemon.mu, or NoJob

executor == <<jobs, settling>>

\* A job: what it does, to which request's artifact or journal, on whose
\* behalf, the number its message carries, and whether it holds a chunk.
Job(kind, about, by, arg, bytes) ==
    [kind |-> kind, about |-> about, by |-> by, arg |-> arg, bytes |-> bytes]

\* "clean transfer" spares what is committed.
CleanupKinds == {"clean request", "clean transfer", "clean peer", "forget writers"}
IsCleanup(job) == job.kind \in CleanupKinds

Bytes(queue) == FoldSeq(LAMBDA job, sum : job.bytes + sum, 0, queue)

\* submit: whether the queue takes one more job.
Accepts(queue, job) ==
    IF IsCleanup(job)
    THEN Len(queue) < CleanupLimit
    ELSE Len(queue) < TransferLimit /\ Bytes(queue) + job.bytes <= ByteLimit

\* submit of several jobs under one hold of daemon.mu; the caller ignores
\* refusals.
SubmittedAll(queue, more) ==
    FoldLeft(LAMBDA q, job : IF Accepts(q, job) THEN Append(q, job) ELSE q, queue, more)

\* run: the next job, when the last one has been settled.
CanWork == jobs # <<>> /\ settling = NoJob

-----------------------------------------------------------------------------
(* The artifact store, which only the disk worker calls.  An operation of one *)
(* request writes one artifact, under a fresh random id, so the request names *)
(* it; size is counted in chunks.                                             *)

CONSTANTS
    Request,
    Owner,           \* Owner[r]: the agent connection r belongs to
    Target,          \* Target[r]: the extension connection that serves r
    Chunks,          \* Chunks[r]: the chunks of r's artifact
    OwnerCount,      \* artifacts of one owner (16)
    OwnerSize,       \* bytes of one owner's artifacts, in chunks
    TotalSize        \* bytes of all artifacts, in chunks

NoItem == [stage |-> "none", next |-> 0]
Open(n) == [stage |-> "open", next |-> n]
Stored(n) == [stage |-> "stored", next |-> n]
Items == [stage : {"none", "open", "stored"}, next : Nat]

Held(items) == {r \in Request : items[r].stage # "none"}
HeldBy(items, p) == {r \in Held(items) : Owner[r] = p}
Size(rs) == MapThenSumSet(LAMBDA r : Chunks[r], rs)

Without(items, rs) == [r \in Request |-> IF r \in rs THEN NoItem ELSE items[r]]

\* Broken variant of Prune: only transfers under way expire.
PruneOpen(items, expired) ==
    Without(items, {r \in expired : items[r].stage = "open"})

\* prune: drop what has expired.
Prune(items, expired) == Without(items, expired)

\* begin: the quotas of the owner and of the store.
Room(items, r) ==
    LET mine == HeldBy(items, Owner[r])
    IN  /\ Cardinality(mine) < OwnerCount
        /\ Size(mine) + Chunks[r] <= OwnerSize
        /\ Size(Held(items)) + Chunks[r] <= TotalSize

\* begin, write, commit: message n of r's transfer; 0 begins it, Chunks[r] + 1
\* commits it.  disk says whether the file operation succeeds.
CanApply(items, r, n) ==
    CASE n = 0            -> items[r].stage = "none" /\ Room(items, r)
      [] n = Chunks[r] + 1 -> items[r] = Open(Chunks[r])
      [] OTHER            -> items[r] = Open(n - 1)

Applied(items, r, n) ==
    [items EXCEPT ![r] = IF n = Chunks[r] + 1 THEN Stored(n - 1) ELSE Open(n)]

\* A failed write or commit removes the transfer; a failed begin, a chunk out
\* of order and a message for a transfer that is gone leave the table alone.
Failed(items, r, n) ==
    IF \/ CanApply(items, r, n) /\ n > 0
       \/ n = Chunks[r] + 1 /\ items[r].stage = "open"
    THEN Without(items, {r}) ELSE items

\* owned: committed, and asked for by its owner.
Readable(items, r, p) == items[r].stage = "stored" /\ Owner[r] = p

\* cleanup(request, "", "", preserve)
CleanedRequest(items, r, keep) ==
    IF keep /\ items[r].stage = "stored" THEN items ELSE Without(items, {r})

\* cleanup("", owner, "", false) and cleanup("", "", extension, false)
CleanedPeer(items, p) ==
    Without(items, {r \in Request : Owner[r] = p \/ Target[r] = p})

-----------------------------------------------------------------------------
(* The journals.  A journal is named by the session.start request that        *)
(* created it; a file is the sequence of the chunks written to it, numbered   *)
(* from 1 by the recorder.                                                    *)

CONSTANTS
    Recording,       \* session.start requests that ask for a journal
    NoPeer,          \* no writer
    MaxJournals      \* files kept (32)

NoFile == <<0>>

Existing(files) == {j \in Recording : files[j] # NoFile}

\* prune: files not written for the retention time are removed.
Kept(files, stale) == [j \in Recording |-> IF j \in stale THEN NoFile ELSE files[j]]
KeptWriters(writers, stale) ==
    [j \in Recording |-> IF j \in stale THEN NoPeer ELSE writers[j]]

CanCreate(files) == Cardinality(Existing(files)) < MaxJournals

\* append: the connection is the writer's and its offset is the file's end.
CanAppend(files, writers, j, p, offset) ==
    /\ writers[j] = p
    /\ files[j] # NoFile
    /\ Len(files[j]) = offset

\* disconnect(extension)
ForgetWriters(writers, p) ==
    [j \in Recording |-> IF writers[j] = p THEN NoPeer ELSE writers[j]]

-----------------------------------------------------------------------------
(* The daemon with its agents and extensions. *)

CONSTANTS
    Agent, Extension,
    Legacy,          \* extensions whose chunks ask for no acknowledgement
    MaxAsked,        \* bound: requests of one behaviour
    MaxChunks,       \* bound: journal chunks one recording sends
    MaxUpsets        \* bound: events beside the uploads themselves

ASSUME PeersAssumption ==
    /\ Owner \in [Request -> Agent]
    /\ Target \in [Request -> Extension]
    /\ Chunks \in [Request -> Nat]
    /\ Recording \subseteq Request
    /\ Legacy \subseteq Extension
    /\ Agent \cap Extension = {}
    /\ NoPeer \notin Agent \cup Extension

VARIABLES
    peers,       \* d.peers
    pending,     \* d.pending
    localError,  \* pending requests whose localError is set
    answers,     \* what the owner was told: "none", "artifact", "failed"
    upload,      \* the extension's side of a request
    call,        \* the storage request an agent waits for, or NoJob
    items,       \* artifactStore.items
    files,       \* journal files
    writers,     \* recordingStore.writers
    journal,     \* the extension's side of a journal: its state and offset
    pruning,     \* d.storagePruning
    \* kept for the properties and the bound only
    refused,     \* a cleanup was refused
    expired,     \* artifacts past their expiry time
    stale,       \* journals past their retention time
    deleted,     \* artifacts and journals an agent deleted
    wiped,       \* extensions that were revoked or left
    barred,      \* journals whose connection was revoked or left
    upsets

history == <<refused, expired, stale, deleted, wiped, barred, upsets>>
vars == <<jobs, settling, peers, pending, localError, answers, upload, call, items,
          files, writers, journal, pruning, history>>

Capture == Request \ Recording

Init ==
    /\ jobs = <<>> /\ settling = NoJob
    /\ peers = Agent \cup Extension
    /\ pending = {} /\ localError = {}
    /\ answers = [r \in Request |-> "none"]
    /\ upload = [r \in Request |-> [state |-> "idle", next |-> 0]]
    /\ call = [p \in Agent |-> NoJob]
    /\ items = [r \in Request |-> NoItem]
    /\ files = [j \in Recording |-> NoFile]
    /\ writers = [j \in Recording |-> NoPeer]
    /\ journal = [j \in Recording |-> [state |-> "off", offset |-> 0]]
    /\ pruning = FALSE
    /\ refused = FALSE
    /\ expired = {} /\ stale = {} /\ deleted = {} /\ wiped = {} /\ barred = {}
    /\ upsets = 0

Upset == upsets < MaxUpsets /\ upsets' = upsets + 1

\* The handler queues jobs and ignores refusals, as for every cleanup.
Submit(more) ==
    /\ jobs' = SubmittedAll(jobs, more)
    /\ refused' = (refused \/ Len(jobs') < Len(jobs) + Len(more))

CleanupOf(r, keep) ==
    Job(IF keep THEN "clean transfer" ELSE "clean request", r, NoPeer, 0, 0)
CleanupFor(p) == Job("clean peer", NoPeer, p, 0, 0)

\* Broken variant of Finish: what is committed is kept for a failed request too.
FinishKeeping(r, ok) ==
    /\ pending' = pending \ {r}
    /\ localError' = localError \ {r}
    /\ answers' = [answers EXCEPT ![r] = IF ok THEN "artifact" ELSE "failed"]
    /\ IF r \in Capture THEN Submit(<<CleanupOf(r, TRUE)>>) ELSE UNCHANGED <<jobs, refused>>

\* finish: the answer, and a cleanup job that spares what was committed.
Finish(r, ok) ==
    /\ pending' = pending \ {r}
    /\ localError' = localError \ {r}
    /\ answers' = [answers EXCEPT ![r] = IF ok THEN "artifact" ELSE "failed"]
    /\ IF r \in Capture THEN Submit(<<CleanupOf(r, ok)>>) ELSE UNCHANGED <<jobs, refused>>

-----------------------------------------------------------------------------
(* Requests. *)

\* An agent's request is routed to its extension.
Ask(r) ==
    /\ upload[r].state = "idle"
    /\ Cardinality({s \in Request : upload[s].state # "idle"}) < MaxAsked
    /\ {Owner[r], Target[r]} \subseteq peers
    /\ pending' = pending \cup {r}
    /\ upload' = [upload EXCEPT ![r].state = "ready"]
    /\ UNCHANGED <<jobs, settling, peers, localError, answers, call, items, files,
                   writers, journal, pruning, history>>

\* The agent cancels, or the daemon's timer fires.
GiveUp(r) ==
    /\ r \in pending /\ Upset
    /\ Finish(r, FALSE)
    /\ UNCHANGED <<settling, peers, upload, call, items, files, writers, journal,
                   pruning, expired, stale, deleted, wiped, barred>>

\* serve(): the connection of an extension that asked for no acknowledgement is
\* not read while a chunk of it is being written.
Heard(e) ==
    /\ e \in peers
    /\ e \in Legacy => \A r \in Capture : Target[r] = e => upload[r].state # "sent"

\* artifactMessage: begin, a chunk or the commit of r's upload.
Upload(r) ==
    LET n == upload[r].next
        job == Job("transfer", r, Target[r], n, IF n \in 1..Chunks[r] THEN 1 ELSE 0)
        refusal == IF Target[r] \in Legacy THEN "ready" ELSE "failing"
    IN  /\ r \in Capture /\ Heard(Target[r])
        /\ upload[r].state = "ready" /\ n <= Chunks[r] + 1
        /\ IF r \in pending /\ Accepts(jobs, job)
           THEN /\ jobs' = Append(jobs, job)
                /\ upload' = [upload EXCEPT ![r].state = "sent"]
                /\ UNCHANGED localError
           ELSE /\ localError' = localError \cup ({r} \cap pending)
                /\ upload' = [upload EXCEPT ![r] = [state |-> refusal, next |-> n + 1]]
                /\ UNCHANGED jobs
        /\ UNCHANGED <<settling, peers, pending, answers, call, items, files, writers,
                       journal, pruning, history>>

\* The acknowledgement does not come within five seconds.
UploadTimesOut(r) ==
    /\ upload[r].state = "sent" /\ Target[r] \notin Legacy /\ Upset
    /\ upload' = [upload EXCEPT ![r].state = "failing"]
    /\ UNCHANGED <<jobs, settling, peers, pending, localError, answers, call, items,
                   files, writers, journal, pruning, refused, expired, stale, deleted,
                   wiped, barred>>

\* response: the extension answers; the answer of a capture waits its turn in
\* the disk queue, behind the chunks it speaks of.
Answer(r, ok) ==
    LET job == Job(IF ok THEN "good answer" ELSE "bad answer", r, Target[r], 0, 0)
        complete == r \in Recording \/ upload[r].next > Chunks[r] + 1
    IN  /\ Heard(Target[r])
        /\ upload[r].state \in {"ready", "failing"}
        /\ ok => upload[r].state = "ready" /\ complete
        /\ upload' = [upload EXCEPT ![r].state = "over"]
        /\ CASE r \notin pending -> UNCHANGED <<jobs, pending, localError, answers, refused>>
             [] r \in pending /\ r \in Recording -> Finish(r, ok)
             [] r \in pending /\ r \in Capture /\ Accepts(jobs, job) ->
                    jobs' = Append(jobs, job)
                    /\ UNCHANGED <<pending, localError, answers, refused>>
             [] OTHER -> Finish(r, FALSE)
        /\ UNCHANGED <<settling, peers, call, items, files, writers, journal, pruning,
                       expired, stale, deleted, wiped, barred, upsets>>

-----------------------------------------------------------------------------
(* Journals.  The recorder sends one chunk at a time and gives the journal    *)
(* up at the first failure.                                                   *)

\* journalMessage(begin): while its session.start is pending.
JournalBegin(j) ==
    LET job == Job("journal begin", j, Target[j], 0, 0)
        taken == j \in pending /\ Accepts(jobs, job)
    IN  /\ Target[j] \in peers
        /\ upload[j].state = "ready" /\ journal[j].state = "off"
        /\ jobs' = IF taken THEN Append(jobs, job) ELSE jobs
        /\ journal' = [journal EXCEPT ![j].state = IF taken THEN "beginning" ELSE "broken"]
        /\ upload' = [upload EXCEPT ![j].state = IF taken THEN "sent" ELSE "failing"]
        /\ UNCHANGED <<settling, peers, pending, localError, answers, call, items,
                       files, writers, pruning, history>>

\* journalMessage(append): the next chunk, at the offset of the last
\* acknowledgement; the chunk's number is its position in the file.
JournalAppend(j) ==
    LET job == Job("journal append", j, Target[j], journal[j].offset, 1)
    IN  /\ Target[j] \in peers
        /\ journal[j].state = "open" /\ journal[j].offset < MaxChunks
        /\ jobs' = IF Accepts(jobs, job) THEN Append(jobs, job) ELSE jobs
        /\ journal' = [journal EXCEPT ![j].state =
                          IF Accepts(jobs, job) THEN "writing" ELSE "broken"]
        /\ UNCHANGED <<settling, peers, pending, localError, answers, upload, call,
                       items, files, writers, pruning, history>>

\* The acknowledgement does not come within five seconds.
JournalTimesOut(j) ==
    /\ journal[j].state \in {"beginning", "writing"} /\ Upset
    /\ journal' = [journal EXCEPT ![j].state = "broken"]
    /\ upload' = IF journal[j].state = "beginning"
                 THEN [upload EXCEPT ![j].state = "failing"] ELSE upload
    /\ UNCHANGED <<jobs, settling, peers, pending, localError, answers, call, items,
                   files, writers, pruning, refused, expired, stale, deleted, wiped,
                   barred>>

-----------------------------------------------------------------------------
(* Storage requests of agents: artifact.read, artifact.delete and the same    *)
(* for journals.  A journal is open to every agent that knows its name.       *)

\* storageRequest: refused at once when the queue is full.
StorageRequest(p, kind, r) ==
    LET job == Job(kind, r, p, 0, 0)
    IN  /\ p \in peers /\ call[p] = NoJob
        /\ IF Accepts(jobs, job)
           THEN jobs' = Append(jobs, job) /\ call' = [call EXCEPT ![p] = job]
           ELSE UNCHANGED <<jobs, call>>
        /\ UNCHANGED <<settling, peers, pending, localError, answers, upload, items,
                       files, writers, journal, pruning, refused, expired, stale,
                       deleted, wiped, barred>>

Read(p, r) ==
    /\ answers[r] = "artifact" /\ Upset
    /\ r \in Capture => Owner[r] = p
    /\ StorageRequest(p, IF r \in Capture THEN "read" ELSE "journal read", r)

Delete(p, r) ==
    /\ answers[r] = "artifact" /\ Upset
    /\ r \in Capture => Owner[r] = p
    /\ StorageRequest(p, IF r \in Capture THEN "delete" ELSE "journal delete", r)

-----------------------------------------------------------------------------
(* The disk worker. *)

\* matches: the answer names an artifact the store has, complete.
Matches(live, r) == Readable(live, r, Owner[r])

\* What the work of a job leaves on disk, and whether it succeeded.  begin and
\* owned() prune artifacts, every use of the journals prunes journals.
Outcome(job, disk) ==
    LET r == job.about
        live == Prune(items, expired)
        found == IF job.kind = "transfer" /\ job.arg > 0 THEN items ELSE live
        written == disk /\ CanApply(found, r, job.arg)
        kept == Kept(files, stale)
        held == KeptWriters(writers, stale)
        created == disk /\ CanCreate(kept)
        appended == disk /\ CanAppend(kept, writers, r, job.by, job.arg)
        same == [items |-> items, files |-> files, writers |-> writers, ok |-> TRUE]
    IN  CASE job.kind = "transfer" ->
                 [same EXCEPT !.ok = written,
                              !.items = IF written THEN Applied(found, r, job.arg)
                                        ELSE Failed(found, r, job.arg)]
          [] job.kind = "good answer" ->
                 [same EXCEPT !.ok = Matches(live, r), !.items = live]
          [] job.kind = "read" ->
                 [same EXCEPT !.ok = Readable(live, r, job.by), !.items = live]
          [] job.kind = "delete" ->
                 [same EXCEPT !.ok = Readable(live, r, job.by),
                              !.items = IF Readable(live, r, job.by)
                                        THEN Without(live, {r}) ELSE live]
          [] job.kind = "prune" -> [same EXCEPT !.items = live]
          [] job.kind = "clean request" ->
                 [same EXCEPT !.items = CleanedRequest(items, r, FALSE)]
          [] job.kind = "clean transfer" ->
                 [same EXCEPT !.items = CleanedRequest(items, r, TRUE)]
          [] job.kind = "clean peer" -> [same EXCEPT !.items = CleanedPeer(items, job.by)]
          [] job.kind = "journal begin" ->
                 [same EXCEPT !.ok = created,
                              !.files = IF created THEN [kept EXCEPT ![r] = <<>>] ELSE kept,
                              !.writers = IF created THEN [held EXCEPT ![r] = job.by] ELSE held]
          [] job.kind = "journal append" /\ writers[r] = job.by ->
                 [same EXCEPT !.ok = appended,
                              !.files = IF appended THEN [kept EXCEPT ![r] = Append(@, job.arg + 1)]
                                        ELSE kept,
                              !.writers = held]
          [] job.kind = "journal append" /\ writers[r] # job.by -> [same EXCEPT !.ok = FALSE]
          [] job.kind = "journal read" ->
                 [same EXCEPT !.ok = kept[r] # NoFile, !.files = kept, !.writers = held]
          [] job.kind = "journal delete" ->
                 [same EXCEPT !.ok = files[r] # NoFile, !.files[r] = NoFile,
                              !.writers[r] = NoPeer]
          [] job.kind = "forget writers" ->
                 [same EXCEPT !.writers = ForgetWriters(writers, job.by)]
          [] OTHER -> same

Writes(job) == job.kind \in {"transfer", "journal begin", "journal append"}

\* run: take a job and do its work; cleanups leave nothing to settle.
Work ==
    /\ CanWork
    /\ LET job == Head(jobs)
       IN  \E disk \in {TRUE, FALSE} :
            /\ disk \/ (Writes(job) /\ upsets < MaxUpsets)
            /\ upsets' = IF disk THEN upsets ELSE upsets + 1
            /\ LET done == Outcome(job, disk)
               IN  /\ items' = done.items
                   /\ files' = done.files
                   /\ writers' = done.writers
                   /\ settling' = IF IsCleanup(job) THEN NoJob
                                  ELSE [job |-> job, ok |-> done.ok]
            /\ deleted' = IF job.kind \in {"delete", "journal delete"}
                          THEN deleted \cup {job.about} ELSE deleted
    /\ jobs' = Tail(jobs)
    /\ UNCHANGED <<peers, pending, localError, answers, upload, call, journal, pruning,
                   refused, expired, stale, wiped, barred>>

Settles(kinds) == settling # NoJob /\ settling.job.kind \in kinds /\ settling' = NoJob

\* The acknowledgement of a transfer message; its error also fails the request.
SettleTransfer ==
    /\ Settles({"transfer"})
    /\ LET r == settling.job.about
           ok == settling.ok \/ Target[r] \in Legacy
       IN  /\ localError' = IF settling.ok THEN localError ELSE localError \cup ({r} \cap pending)
           /\ upload' = IF upload[r].state = "sent"
                        THEN [upload EXCEPT ![r] = [state |-> IF ok THEN "ready" ELSE "failing",
                                                    next |-> @.next + 1]]
                        ELSE upload
    /\ UNCHANGED <<jobs, peers, pending, answers, call, items, files, writers, journal,
                   pruning, history>>

\* The end of response() and completeResponse().
SettleAnswer ==
    /\ Settles({"good answer", "bad answer"})
    /\ LET r == settling.job.about
       IN  IF r \in pending
           THEN Finish(r, settling.job.kind = "good answer" /\ settling.ok /\ r \notin localError)
           ELSE UNCHANGED <<jobs, refused, pending, localError, answers>>
    /\ UNCHANGED <<peers, upload, call, items, files, writers, journal, pruning, expired,
                   stale, deleted, wiped, barred, upsets>>

\* The acknowledgement of a journal message.
SettleJournal ==
    /\ Settles({"journal begin", "journal append"})
    /\ LET j == settling.job.about
           first == settling.job.kind = "journal begin"
       IN  /\ journal' = IF journal[j].state # (IF first THEN "beginning" ELSE "writing")
                         THEN journal
                         ELSE [journal EXCEPT ![j] =
                                 IF settling.ok
                                 THEN [state |-> "open", offset |-> IF first THEN 0 ELSE @.offset + 1]
                                 ELSE [@ EXCEPT !.state = "broken"]]
           /\ upload' = IF first /\ upload[j].state = "sent"
                        THEN [upload EXCEPT ![j].state = IF settling.ok THEN "ready" ELSE "failing"]
                        ELSE upload
    /\ UNCHANGED <<jobs, peers, pending, localError, answers, call, items, files, writers,
                   pruning, history>>

\* storageRequest's complete, and the flag of the periodic prune.
SettleCall ==
    /\ Settles({"read", "delete", "journal read", "journal delete"})
    /\ call' = [call EXCEPT ![settling.job.by] = NoJob]
    /\ UNCHANGED <<jobs, peers, pending, localError, answers, upload, items, files,
                   writers, journal, pruning, history>>

SettlePrune ==
    /\ Settles({"prune"})
    /\ pruning' = FALSE
    /\ UNCHANGED <<jobs, peers, pending, localError, answers, upload, call, items, files,
                   writers, journal, history>>

-----------------------------------------------------------------------------
(* Time, revocation, departures. *)

\* An artifact lives for an hour, far longer than a request.
Expire(r) ==
    /\ items[r].stage # "none" /\ r \notin expired \cup pending
    /\ expired' = expired \cup {r}
    /\ UNCHANGED <<jobs, settling, peers, pending, localError, answers, upload, call,
                   items, files, writers, journal, pruning, refused, stale, deleted,
                   wiped, barred, upsets>>

GoStale(j) ==
    /\ files[j] # NoFile /\ j \notin stale /\ Upset
    /\ stale' = stale \cup {j}
    /\ UNCHANGED <<jobs, settling, peers, pending, localError, answers, upload, call,
                   items, files, writers, journal, pruning, refused, expired, deleted,
                   wiped, barred>>

\* runDaemon's ticker.  A tick that finds nothing to remove is left out.
PruneTick ==
    LET job == Job("prune", NoPeer, NoPeer, 0, 0)
    IN  /\ ~pruning /\ Held(items) \cap expired # {}
        /\ Accepts(jobs, job)
        /\ pruning' = TRUE
        /\ jobs' = Append(jobs, job)
        /\ UNCHANGED <<settling, peers, pending, localError, answers, upload, call, items,
                       files, writers, journal, history>>

ForgetWritersOf(e) == Job("forget writers", NoPeer, e, 0, 0)
Begun(e) == {j \in Recording : Target[j] = e /\ journal[j].state # "off"}

\* access_update without access: what the extension stored is wiped.
Revoke(e) ==
    /\ e \in peers /\ Upset
    /\ Submit(<<CleanupFor(e), ForgetWritersOf(e)>>)
    /\ wiped' = wiped \cup {e}
    /\ barred' = barred \cup Begun(e)
    /\ UNCHANGED <<settling, peers, pending, localError, answers, upload, call, items,
                   files, writers, journal, pruning, expired, stale, deleted>>

\* disconnect(p): the loop over d.pending meets its requests in any order.
Disconnect(p) ==
    LET theirs == {r \in pending : p \in {Owner[r], Target[r]}}
        own == IF p \in Extension THEN <<CleanupFor(p), CleanupFor(p), ForgetWritersOf(p)>>
               ELSE <<CleanupFor(p)>>
    IN  /\ p \in peers /\ Upset
        /\ peers' = peers \ {p}
        /\ pending' = pending \ theirs
        /\ localError' = localError \ theirs
        /\ answers' = [r \in Request |-> IF r \in theirs THEN "failed" ELSE answers[r]]
        /\ \E order \in SetToSeqs(theirs \cap Capture) :
             Submit(own \o [i \in DOMAIN order |-> CleanupOf(order[i], FALSE)])
        /\ upload' = [r \in Request |-> IF Target[r] = p THEN [upload[r] EXCEPT !.state = "over"]
                                        ELSE upload[r]]
        /\ journal' = [j \in Recording |-> IF Target[j] = p THEN [journal[j] EXCEPT !.state = "broken"]
                                           ELSE journal[j]]
        /\ wiped' = wiped \cup ({p} \cap Extension)
        /\ barred' = barred \cup Begun(p)
        /\ UNCHANGED <<settling, call, items, files, writers, pruning, expired, stale,
                       deleted>>

Settle == SettleTransfer \/ SettleAnswer \/ SettleJournal \/ SettleCall \/ SettlePrune

Next ==
    \/ \E r \in Request : Ask(r) \/ GiveUp(r) \/ Upload(r) \/ UploadTimesOut(r)
    \/ \E r \in Request, ok \in BOOLEAN : Answer(r, ok)
    \/ \E j \in Recording :
         JournalBegin(j) \/ JournalAppend(j) \/ JournalTimesOut(j) \/ GoStale(j)
    \/ \E p \in Agent, r \in Request : Read(p, r) \/ Delete(p, r)
    \/ Work \/ Settle
    \/ \E r \in Capture : Expire(r)
    \/ PruneTick
    \/ \E e \in Extension : Revoke(e)
    \/ \E p \in Agent \cup Extension : Disconnect(p)

\* The worker goroutine, which takes daemon.mu in between; the clock and its
\* ticker.
Fairness == /\ WF_vars(Work \/ Settle)
            /\ WF_vars(PruneTick \/ \E r \in Capture : Expire(r))

Spec == Init /\ [][Next]_vars /\ Fairness

-----------------------------------------------------------------------------
(* Properties. *)

JobSet == [kind : STRING, about : Request \cup {NoPeer}, by : Agent \cup Extension \cup {NoPeer},
           arg : Nat, bytes : 0..1]

\* Every variable has the shape the code gives it, and the queue never exceeds
\* its limits.
StorageTypeOK ==
    /\ jobs \in Seq(JobSet) /\ Len(jobs) <= CleanupLimit /\ Bytes(jobs) <= ByteLimit
    /\ settling = NoJob \/ settling \in [job : JobSet, ok : BOOLEAN]
    /\ peers \subseteq Agent \cup Extension
    /\ localError \subseteq pending /\ pending \subseteq Request
    /\ answers \in [Request -> {"none", "artifact", "failed"}]
    /\ upload \in [Request -> [state : {"idle", "ready", "sent", "failing", "over"}, next : Nat]]
    /\ items \in [Request -> Items]
    /\ writers \in [Recording -> Extension \cup {NoPeer}]
    /\ pruning \in BOOLEAN

Cleans(job, r) ==
    \/ job.kind = "clean request" /\ job.about = r
    \/ job.kind = "clean transfer" /\ job.about = r /\ items[r].stage = "open"
    \/ job.kind = "clean peer" /\ job.by \in {Owner[r], Target[r]}

\* What the store holds for a request that is over, and was not delivered to an
\* owner and from an extension that are both still there, is about to be
\* removed: cleanups and transfers of one request are jobs of one queue, and no
\* cancellation, timeout, late chunk or departure leaves a file behind
\* (finish, disconnect and artifactMessage), as long as no cleanup was refused.
LeftoversAwaitCleanup ==
    \A r \in Capture :
        \/ items[r].stage = "none" \/ refused
        \/ r \in pending
        \/ /\ answers[r] = "artifact" /\ items[r].stage = "stored"
           /\ {Owner[r], Target[r]} \subseteq peers
        \/ \E i \in DOMAIN jobs : Cleans(jobs[i], r)

\* An artifact an agent was told of stays readable until the agent leaves or
\* deletes it, it expires, or its extension leaves or is revoked: the cleanup
\* that ends its request spares it (finish, cleanup).
DeliveredKept ==
    \A r \in Capture :
        answers[r] = "artifact" =>
            \/ items[r].stage = "stored"
            \/ r \in expired \cup deleted \/ Owner[r] \notin peers \/ Target[r] \in wiped

\* Transfers under way and committed artifacts together respect the quotas,
\* whatever the transfers do in parallel (begin).
QuotasHold ==
    /\ Size(Held(items)) <= TotalSize
    /\ \A p \in Agent : /\ Cardinality(HeldBy(items, p)) <= OwnerCount
                        /\ Size(HeldBy(items, p)) <= OwnerSize

\* Saturated transfers never cost a cleanup its place: one is refused only
\* when cleanups fill the whole reserve (the comment at storage_executor.go:10).
ReserveForCleanup ==
    [][~refused /\ refused' =>
        Cardinality({i \in DOMAIN jobs' : IsCleanup(jobs'[i])}) >= CleanupLimit - TransferLimit]_vars

\* The journal file holds the recorder's chunks, each once and in order; it is
\* ahead of the acknowledged offset by at most one chunk, and equal to it when
\* the recorder is ready to send the next one (recordingStore.append,
\* recording-journal.ts).
JournalAgrees ==
    \A j \in Existing(files) :
        /\ files[j] = [i \in 1..Len(files[j]) |-> i]
        /\ Len(files[j]) \in journal[j].offset..(journal[j].offset + 1)
        /\ journal[j].state = "open" => Len(files[j]) = journal[j].offset

\* A journal begun before its connection was revoked or lost takes no more
\* chunks once the queued "forget" is done (disconnectRecordings).
BarredJournalsClosed ==
    \A j \in barred :
        \/ writers[j] = NoPeer \/ refused
        \/ \E i \in DOMAIN jobs : jobs[i] = ForgetWritersOf(writers[j])

\* A journal's file, its writer and its recorder agree on what was recorded and
\* on who may go on recording.
JournalsKept == JournalAgrees /\ BarredJournalsClosed

\* Everything a departed agent or extension stored is gone eventually, even
\* when a cleanup was refused: expiry and the periodic prune come after it.
DepartedForgotten ==
    \A r \in Capture :
        {Owner[r], Target[r]} \cap peers # {Owner[r], Target[r]} ~> items[r].stage = "none"

\* Every storage request an agent waits for is completed, so the agent's
\* pending count goes down again (storageRequest).
CallsComplete == \A p \in Agent : call[p] # NoJob ~> call[p] = NoJob

\* What the daemon holds is within its limits, is what was recorded and promised,
\* and is nobody's leftover (artifact.go:113-286, recording.go:97-222).
StoresKept ==
    /\ StorageTypeOK
    /\ LeftoversAwaitCleanup
    /\ DeliveredKept
    /\ QuotasHold
    /\ JournalsKept

\* The one queue serves everyone: cleanups have their reserve, callers get their
\* answer and what is nobody's goes (storage_executor.go:20-119).
StorageServes == ReserveForCleanup /\ CallsComplete /\ DepartedForgotten
=============================================================================
