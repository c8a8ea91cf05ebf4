----------------------------- MODULE NativeUpdate -----------------------------
(* The native updater (update.go, update_store.go): processes that run `bbx   *)
(* update`, one at a time under a file lock, stage a release in a directory of *)
(* its own and select it by replacing state.json. Any of them may be killed   *)
(* between two writes; the files stay and the lock is released by the system. *)
(* Every start of bbx reads state.json without the lock                       *)
(* (forwardNativeUpdate). A write through updateAtomicWrite is one step.      *)
(* A release's version is its rank; a feed is known by its sequence number.   *)
EXTENDS Naturals, Sequences, FiniteSets, SequencesExt, FiniteSetsExt

CONSTANTS Process, NoProcess,
    Version,        \* ranks of releases, all above 0
    FeedAt,         \* FeedAt[s]: the releases the feed of sequence s lists
    MaxBlocked,     \* 128 in the code
    MaxStages,      \* payloads staged
    MaxUpsets       \* kills, damaged files, failing writes

VARIABLES
    disk,       \* state.json
    proofs,     \* metadata/<digest>.json, by sequence
    files,      \* releases/.../<instance>: "none", "partial", "complete", "damaged"
    lock,       \* who holds update.lock
    work,       \* what each process does and knows
    bootstrap,  \* the version of the executable the user installed
    feed,       \* the sequence published last
    upsets

updateVars == <<disk, proofs, files, lock, work, bootstrap, feed, upsets>>

Sequence == DOMAIN FeedAt
Instance == 1..MaxStages
NoRelease == [instance |-> 0, ver |-> 0, seq |-> 0]
Release == [instance : Instance, ver : Version, seq : Sequence]

ASSUME UpdateAssumption ==
    /\ NoProcess \notin Process
    /\ Version \subseteq Nat \ {0} /\ \E newest \in Version : \A v \in Version : v <= newest
    /\ Len(FeedAt) \in Nat \ {0} /\ Sequence = 1..Len(FeedAt)
    /\ \A s \in Sequence : FeedAt[s] \subseteq Version
    /\ MaxBlocked \in Nat \ {0} /\ MaxStages \in Nat \ {0} /\ MaxUpsets \in Nat

Empty == [current |-> NoRelease, previous |-> NoRelease, rollbackFrom |-> 0,
          blocked |-> <<>>, highest |-> 0]

\* state: the copy read under the lock; chosen: the release selected from the
\* feed; record: the payload staged for it, or the one to roll back to; blame:
\* the release is to be blocked; before: what the activation replaced (history).
Idle == [at |-> "idle", action |-> "none", running |-> 0, state |-> Empty,
         seq |-> 0, chosen |-> 0, record |-> NoRelease, blame |-> FALSE,
         before |-> NoRelease]

Upset == upsets < MaxUpsets /\ upsets' = upsets + 1

-----------------------------------------------------------------------------
(* What a state selects *)

\* updateEffectiveVersion: a newer executable the user installed wins over the
\* selected release, but not over a rollback from a release as new as it is.
EffectiveVersion(running, state) ==
    IF /\ state.current # NoRelease
       /\ \/ state.rollbackFrom # 0 /\ running <= state.rollbackFrom
          \/ state.current.ver > running
    THEN state.current.ver ELSE running

\* verifyInstalled: proof and payload.
Installed(release) ==
    release.seq \in proofs /\ release # NoRelease /\ files[release.instance] = "complete"

\* updateBlockVersion keeps the versions blocked last.
BlockVersion(blocked, v) ==
    LET all == IF Contains(blocked, v) THEN blocked ELSE Append(blocked, v)
    IN  IF Len(all) > MaxBlocked THEN Tail(all) ELSE all

\* updateSelectRelease: the newest release that is neither blocked nor older
\* than what runs; "pinned" admits that version only.
Candidates(listed, current, blocked, allowEqual, pinned) ==
    {v \in listed : /\ pinned # 0 => v = pinned
                    /\ ~Contains(blocked, v)
                    /\ v > current \/ (v = current /\ allowEqual)}

\* activate: the state that selects a release.
Selecting(state, release, repair, rollback) ==
    [state EXCEPT
        !.current = release,
        !.previous = IF rollback THEN NoRelease ELSE IF repair THEN @ ELSE state.current,
        !.rollbackFrom = IF rollback THEN state.current.ver
                         ELSE IF release.ver >= @ THEN 0 ELSE @,
        !.blocked = IF rollback THEN BlockVersion(@, state.current.ver) ELSE @]

-----------------------------------------------------------------------------
(* One process *)

UpdateInit ==
    /\ disk = Empty /\ proofs = {} /\ files = [i \in Instance |-> "none"]
    /\ lock = NoProcess /\ work = [p \in Process |-> Idle]
    /\ bootstrap \in Version /\ feed = 1 /\ upsets = 0

Goes(p, at) == work' = [work EXCEPT ![p].at = at]
Ends(p) == work' = [work EXCEPT ![p] = Idle] /\ lock' = NoProcess

\* `bbx update` always runs in the installed executable; an automatic update
\* may also come from the selected release.
Ask(p, action) ==
    /\ work[p] = Idle
    /\ \E running \in {bootstrap} \union {disk.current.ver} :
         /\ running # 0 /\ (running = bootstrap \/ action = "apply")
         /\ work' = [work EXCEPT ![p] = [Idle EXCEPT !.at = "waiting", !.action = action,
                                                     !.running = running]]
    /\ UNCHANGED <<disk, proofs, files, lock, bootstrap, feed, upsets>>

\* Broken variant of LockFree: nobody waits for anybody.
LockIgnored(p) == work[p].at = "waiting"

LockFree(p) == work[p].at = "waiting" /\ lock = NoProcess

\* state.json is read under the lock. A rollback needs a previous release that
\* was not rolled back itself.
Acquire(p) ==
    /\ LockFree(p)
    /\ IF work[p].action # "rollback"
       THEN /\ work' = [work EXCEPT ![p].at = "fetching", ![p].state = disk]
            /\ lock' = p
       ELSE IF disk.previous = NoRelease \/ Contains(disk.blocked, disk.previous.ver)
       THEN Ends(p)
       ELSE /\ work' = [work EXCEPT ![p].at = "verifying", ![p].state = disk,
                                    ![p].record = disk.previous]
            /\ lock' = p
    /\ UNCHANGED <<disk, proofs, files, bootstrap, feed, upsets>>

\* Any published feed may be what a cache answers; an older one than was seen
\* before is refused (updateCheckWatermark). Its proof is stored first.
Fetch(p) ==
    /\ work[p].at = "fetching"
    /\ \E s \in 1..feed :
         IF s < work[p].state.highest
         THEN Ends(p) /\ UNCHANGED proofs
         ELSE /\ proofs' = proofs \union {s}
              /\ work' = [work EXCEPT ![p].at = "fetched", ![p].seq = s]
              /\ UNCHANGED lock
    /\ UNCHANGED <<disk, files, bootstrap, feed, upsets>>

SaveWatermark(p) ==
    /\ work[p].at = "fetched"
    /\ work' = [work EXCEPT ![p].at = "selecting", ![p].state.highest = work[p].seq]
    /\ disk' = [work[p].state EXCEPT !.highest = work[p].seq]
    /\ UNCHANGED <<proofs, files, lock, bootstrap, feed, upsets>>

Unused == {i \in Instance : files[i] = "none"}

\* Broken variant of NewInstance: a version staged again takes its old place.
OldInstance(state, ver) ==
    IF state.current.ver = ver /\ ver # 0 THEN {state.current.instance}
    ELSE {i \in Unused : \A j \in Unused : i <= j}

\* stageFrom: every payload gets a directory of its own (uniqueID).
NewInstance(state, ver) == {i \in Unused : \A j \in Unused : i <= j}

Stage(p, at, ver, chosen) ==
    \E i \in NewInstance(work[p].state, ver) :
        /\ files' = [files EXCEPT ![i] = "partial"]
        /\ work' = [work EXCEPT ![p].at = at, ![p].chosen = chosen,
                        ![p].record = [instance |-> i, ver |-> ver, seq |-> work[p].seq]]

\* run, after the feed. An executable that is not managed yet is kept as the
\* release to roll back to, when the feed lists it and its bytes are those of
\* the listed one ("authentic").
Select(p) ==
    /\ work[p].at = "selecting"
    /\ LET state == work[p].state
           action == work[p].action
           listed == FeedAt[work[p].seq]
           current == EffectiveVersion(work[p].running, state)
           open == Candidates(listed, current, state.blocked,
                              action \in {"install", "repair"},
                              IF action = "repair" THEN current ELSE 0)
           there == /\ action = "install" /\ Max(open) = state.current.ver
                    /\ Installed(state.current)
       IN  IF open = {} \/ action = "check" \/ there
           THEN Ends(p) /\ UNCHANGED files
           ELSE /\ \/ Stage(p, "staging", Max(open), Max(open))
                   \/ /\ state.current = NoRelease
                      /\ Max(open) # current /\ current \in listed  \* authentic
                      /\ Stage(p, "adopting", current, Max(open))
                /\ UNCHANGED lock
    /\ UNCHANGED <<disk, proofs, bootstrap, feed, upsets>>

\* The payload is renamed into place, verified and tried out.
Staged(p) ==
    /\ work[p].at = "staging"
    /\ files' = [files EXCEPT ![work[p].record.instance] = "complete"]
    /\ Goes(p, "activating")
    /\ UNCHANGED <<disk, proofs, lock, bootstrap, feed, upsets>>

\* The executable is kept: it counts as the selected release from here on, in
\* this process, and the chosen one is staged.
Adopted(p) ==
    /\ work[p].at = "adopting"
    /\ LET old == work[p].record.instance
       IN  \E i \in NewInstance(work[p].state, work[p].chosen) :
             /\ files' = [files EXCEPT ![old] = "complete", ![i] = "partial"]
             /\ work' = [work EXCEPT ![p].at = "staging", ![p].state.current = work[p].record,
                            ![p].record = [instance |-> i, ver |-> work[p].chosen,
                                           seq |-> work[p].seq]]
    /\ UNCHANGED <<disk, proofs, lock, bootstrap, feed, upsets>>

\* A download that fails, bytes that do not match, a candidate that does not
\* start: its directory is removed.
StagingFails(p) ==
    /\ work[p].at \in {"staging", "adopting"} /\ Upset
    /\ files' = [files EXCEPT ![work[p].record.instance] = "none"]
    /\ Ends(p)
    /\ UNCHANGED <<disk, proofs, bootstrap, feed>>

\* A rollback verifies and tries out the previous release before it goes on.
VerifyPrevious(p) ==
    /\ work[p].at = "verifying"
    /\ IF Installed(work[p].record)
       THEN Goes(p, "activating") /\ UNCHANGED lock
       ELSE Ends(p)
    /\ UNCHANGED <<disk, proofs, files, bootstrap, feed, upsets>>

PreviousFails(p) ==
    /\ work[p].at = "verifying" /\ Upset
    /\ Ends(p)
    /\ UNCHANGED <<disk, proofs, files, bootstrap, feed>>

IsRollback(p) == work[p].action = "rollback"
IsRepair(p) == /\ ~IsRollback(p) /\ work[p].state.current # NoRelease
               /\ work[p].record.ver = work[p].state.current.ver
NextState(p) == Selecting(work[p].state, work[p].record, IsRepair(p), IsRollback(p))

\* activate: the release is verified once more and selected.
Activate(p) ==
    /\ work[p].at = "activating"
    /\ IF Installed(work[p].record)
       THEN /\ disk' = NextState(p)
            /\ work' = [work EXCEPT ![p].at = "probing", ![p].before = disk.current]
            /\ UNCHANGED lock
       ELSE Ends(p) /\ UNCHANGED disk
    /\ UNCHANGED <<proofs, files, bootstrap, feed, upsets>>

\* The write fails, before or after its rename: the selection is put back.
ActivateFails(p) ==
    /\ work[p].at = "activating" /\ Upset /\ Installed(work[p].record)
    /\ disk' \in {disk, NextState(p)}
    /\ work' = [work EXCEPT ![p].at = "restoring", ![p].before = disk.current]
    /\ UNCHANGED <<proofs, files, lock, bootstrap, feed>>

\* The selected release is tried out where it is.
Probe(p) ==
    /\ work[p].at = "probing"
    /\ IF Installed(work[p].record)
       THEN Ends(p)
       ELSE /\ work' = [work EXCEPT ![p].at = "restoring",
                                    ![p].blame = ~IsRepair(p) /\ ~IsRollback(p)]
            /\ UNCHANGED lock
    /\ UNCHANGED <<disk, proofs, files, bootstrap, feed, upsets>>

\* It does not start, for which it is blamed, or the command runs out of time.
ProbeFails(p) ==
    /\ work[p].at = "probing" /\ Upset
    /\ \E late \in BOOLEAN :
         work' = [work EXCEPT ![p].at = "restoring",
                      ![p].blame = ~late /\ ~IsRepair(p) /\ ~IsRollback(p)]
    /\ UNCHANGED <<disk, proofs, files, lock, bootstrap, feed>>

Restore(p) ==
    /\ work[p].at = "restoring"
    /\ disk' = [work[p].state EXCEPT
                    !.blocked = IF work[p].blame THEN BlockVersion(@, work[p].record.ver) ELSE @]
    /\ Ends(p)
    /\ UNCHANGED <<proofs, files, bootstrap, feed, upsets>>

\* One fault often brings the next: this failure is not counted.
RestoreFails(p) ==
    /\ work[p].at = "restoring"
    /\ Ends(p)
    /\ UNCHANGED <<disk, proofs, files, bootstrap, feed, upsets>>

-----------------------------------------------------------------------------
(* What happens to them *)

\* The process dies; the system releases its lock, its files stay.
Kill(p) ==
    /\ work[p] # Idle /\ Upset
    /\ work' = [work EXCEPT ![p] = Idle]
    /\ lock' = IF lock = p THEN NoProcess ELSE lock
    /\ UNCHANGED <<disk, proofs, files, bootstrap, feed>>

Damage(i) ==
    /\ files[i] = "complete" /\ Upset
    /\ files' = [files EXCEPT ![i] = "damaged"]
    /\ UNCHANGED <<disk, proofs, lock, work, bootstrap, feed>>

\* The user installs a newer executable by hand.
InstallByHand ==
    /\ \E v \in Version : v > bootstrap /\ bootstrap' = v
    /\ UNCHANGED <<disk, proofs, files, lock, work, feed, upsets>>

Publish ==
    /\ feed < Len(FeedAt) /\ feed' = feed + 1
    /\ UNCHANGED <<disk, proofs, files, lock, work, bootstrap, upsets>>

UpdateNext ==
    \/ \E p \in Process :
         \/ \E action \in {"check", "apply", "install", "repair", "rollback"} : Ask(p, action)
         \/ Acquire(p) \/ Fetch(p) \/ SaveWatermark(p) \/ Select(p)
         \/ Staged(p) \/ Adopted(p) \/ StagingFails(p)
         \/ VerifyPrevious(p) \/ PreviousFails(p)
         \/ Activate(p) \/ ActivateFails(p) \/ Probe(p) \/ ProbeFails(p)
         \/ Restore(p) \/ RestoreFails(p) \/ Kill(p)
    \/ \E i \in Instance : Damage(i)
    \/ InstallByHand \/ Publish

UpdateSpec == UpdateInit /\ [][UpdateNext]_updateVars

-----------------------------------------------------------------------------
(* Properties. *)

Kept(release) ==
    \/ release = NoRelease
    \/ files[release.instance] \in {"complete", "damaged"} /\ release.seq \in proofs

\* Whenever bbx starts, whatever was killed and wherever, the release that
\* state.json selects, and the one it can be rolled back to, were staged to the
\* end and have their proof; no later staging, of the same version or another,
\* touches them (stageFrom, activate).
SelectionRuns == Kept(disk.current) /\ Kept(disk.previous)

Undoes(p) == work[p].at = "restoring" /\ work'[p] = Idle

\* What the activation replaced: the release selected then or, when there was
\* none, the executable it had kept.
Replaced(p) == IF work[p].before # NoRelease THEN work[p].before ELSE work[p].state.current

\* A write of state.json never goes back to an older feed. It never selects a
\* blocked release, and what runs next is older than before only after a
\* rollback; an activation that failed puts back what it replaced, nobody
\* else's selection (run, activate).
SelectionMoves ==
    [][/\ disk'.highest >= disk.highest
       /\ disk'.current # disk.current =>
            IF \E p \in Process : Undoes(p)
            THEN \E p \in Process : Undoes(p) /\ disk'.current = Replaced(p)
            ELSE /\ ~Contains(disk'.blocked, disk'.current.ver)
                 /\ \/ EffectiveVersion(bootstrap, disk') >= EffectiveVersion(bootstrap, disk)
                    \/ disk'.rollbackFrom = disk.current.ver]_updateVars
=============================================================================
