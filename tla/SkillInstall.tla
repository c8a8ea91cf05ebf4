----------------------------- MODULE SkillInstall -----------------------------
(***************************************************************************)
(* Installing the bundled skill for agent clients                          *)
(* (src/internal/bridge/agents_skills.go), run by commands of several       *)
(* processes that share no lock: a bundle is staged next to its place and   *)
(* renamed over it, removed file by file, and a failed batch is rolled      *)
(* back.  A bundle is one shipped file, the user's own files, and the       *)
(* sentinel with its owners and the recorded hash.  Nested links, directory *)
(* modes and several shipped files are left out.                            *)
(***************************************************************************)
EXTENDS Naturals, FiniteSets, SequencesExt

CONSTANTS
    Installer,
    SkillRuns,       \* the runs there may be: [remove: BOOLEAN, targets: Seq(Client)]
    PlaceOf(_),      \* the directory a client's skill belongs to
    Place,
    Generic,         \* the client whose directory others share
    MaxSkillUpsets,  \* failures, crashes
    MaxUserWrites    \* what the user writes

VARIABLES
    skills,       \* the directory at every place
    installers,   \* the state of every process
    backups,      \* backups of crashed or failed runs that nobody removes
    skillPast,    \* history: owners, the user's work, what runs made, runs that met, removals begun
    skillUpsets, userWrites

skillVars == <<skills, installers, backups, skillPast, skillUpsets, userWrites>>

Absent == [sentinel |-> FALSE, owners |-> {}, recorded |-> 0, file |-> 0, own |-> FALSE, there |-> FALSE]
Bundle(owners, recorded, file) ==
    [sentinel |-> TRUE, owners |-> owners, recorded |-> recorded, file |-> file, own |-> FALSE, there |-> TRUE]

\* Contents of the shipped file: none, the old one, the one installed now, the user's.
Old == 1
New == 2
Edited == 3

Resting == [at |-> "new", remove |-> FALSE, todo |-> <<>>, read |-> Absent, stage |-> Absent,
            backup |-> Absent, seen |-> {}, created |-> <<>>, failed |-> FALSE]

Client == UNION {ToSet(r.targets) : r \in SkillRuns}

\* Old sentinels name no owners: a shared bundle is the generic client's, another its asker's.
SkillOwners(read, t) ==
    IF read.owners # {} THEN read.owners
    ELSE IF PlaceOf(t) = PlaceOf(Generic) THEN {Generic} ELSE {t}

OwnerOf(d) == CHOOSE c \in Client : PlaceOf(c) = d /\ (d = PlaceOf(Generic) => c = Generic)

SkillInit ==
    /\ \E old \in [Place -> {"none", "managed", "legacy", "own"}] :
         skills = [d \in Place |->
             CASE old[d] = "none" -> Absent
               [] old[d] = "managed" -> Bundle({OwnerOf(d)}, Old, Old)
               [] old[d] = "legacy" -> Bundle({}, 0, New)
               [] old[d] = "own" -> [Absent EXCEPT !.there = TRUE, !.own = TRUE]]
    /\ installers = [p \in Installer |-> Resting]
    /\ backups = {}
    /\ skillPast = [owners |-> [d \in Place |-> IF skills[d].sentinel THEN {OwnerOf(d)} ELSE {}],
                    work |-> {<<d, "own">> : d \in {e \in Place : skills[e].own}},
                    met |-> FALSE, removing |-> {}, made |-> {}]
    /\ skillUpsets = 0 /\ userWrites = 0

Upset == skillUpsets < MaxSkillUpsets /\ skillUpsets' = skillUpsets + 1 /\ UNCHANGED userWrites
Calm == UNCHANGED <<skillUpsets, userWrites>>

Phase(p) == installers[p].at
Under(p) == PlaceOf(Head(installers[p].todo))
Running(p) == Phase(p) \notin {"new", "done", "dead"}
Goes(p, at) == installers' = [installers EXCEPT ![p].at = at]

\* On to the next target; a target that was installed is owned.
Advances(p) ==
    installers' = [installers EXCEPT ![p].at = "next", ![p].todo = Tail(@)]
Owned(d, t) == skillPast' = [skillPast EXCEPT !.owners[d] = @ \union {t}]
Disowned(d, t) == skillPast' = [skillPast EXCEPT !.owners[d] = @ \ {t}]

\* An error ends a run; a batch is to remove the bundles it created.
Fails(p) ==
    /\ installers' = [installers EXCEPT ![p].failed = TRUE, ![p].at = "rolling",
                                        ![p].todo = installers[p].created]
    /\ skillPast' = [skillPast EXCEPT !.owners = [d \in Place |->
                         IF <<p, d>> \in skillPast.made THEN {} ELSE @[d]]]

-----------------------------------------------------------------------------
(* installAgentSkills, handleSetupCommand                                   *)

Starts(p, r) ==
    /\ Phase(p) = "new"
    /\ installers' = [installers EXCEPT ![p] = [Resting EXCEPT !.at = "next", !.remove = r.remove,
                                                               !.todo = r.targets]]
    /\ skillPast' = [skillPast EXCEPT !.met = @ \/ \E o \in Installer : Running(o)]
    /\ UNCHANGED <<skills, backups>> /\ Calm

Finishes(p) ==
    /\ Phase(p) = "next" /\ installers[p].todo = <<>> /\ Goes(p, "done")
    /\ UNCHANGED <<skills, backups, skillPast>> /\ Calm

\* A place that an earlier target of the batch has installed gets one more owner, if it is
\* still a bundle, and unless its sentinel cannot be read.
JoinReads(p) ==
    LET d == Under(p)
    IN  /\ Phase(p) = "next" /\ installers[p].todo # <<>>
        /\ ~installers[p].remove /\ d \in installers[p].seen
        /\ \/ /\ IF skills[d].sentinel /\ Head(installers[p].todo) \notin skills[d].owners
                THEN installers' = [installers EXCEPT ![p].at = "joining", ![p].read = skills[d]]
                ELSE Advances(p)
             /\ UNCHANGED skillPast /\ Calm
           \/ Upset /\ Fails(p)
        /\ UNCHANGED <<skills, backups>>

\* installWriteSkillMetadata: over a sentinel that is there.
WritesSentinel(p, owners) ==
    skills' = [skills EXCEPT ![Under(p)].owners = owners,
                             ![Under(p)].recorded = installers[p].read.recorded]

Joins(p) ==
    LET d == Under(p)
        t == Head(installers[p].todo)
    IN  /\ Phase(p) = "joining"
        /\ \/ /\ skills[d].sentinel /\ WritesSentinel(p, installers[p].read.owners \union {t})
             /\ Owned(d, t) /\ Advances(p) /\ Calm
           \/ /\ IF skills[d].sentinel THEN Upset ELSE Calm
             /\ Fails(p) /\ UNCHANGED skills
        /\ UNCHANGED backups

\* installAgentSkill: what is there; refusing what the bridge does not manage.
Reads(p) ==
    LET d == Under(p)
        t == Head(installers[p].todo)
        owners == SkillOwners(skills[d], t)
        at == IF installers[p].remove
              THEN IF ~skills[d].sentinel \/ t \notin owners THEN "skip"
                   ELSE IF owners = {t} THEN "removing" ELSE "disowning"
              ELSE IF skills[d].there /\ ~skills[d].sentinel THEN "refused" ELSE "staging"
    IN  /\ Phase(p) = "next" /\ installers[p].todo # <<>>
        /\ installers[p].remove \/ d \notin installers[p].seen
        /\ CASE at = "skip" -> Advances(p) /\ UNCHANGED skillPast
             [] at = "refused" -> Fails(p)
             [] OTHER -> /\ installers' = [installers EXCEPT
                                ![p].at = at, ![p].read = skills[d], ![p].seen = @ \union {d}]
                         /\ UNCHANGED skillPast
        /\ UNCHANGED <<skills, backups>> /\ Calm

-----------------------------------------------------------------------------
(* Installing                                                               *)

\* Contents that a recorded hash does not fit are the user's.
LocalEdits(read, copied) ==
    read.recorded # 0 /\ copied.file \notin {0, read.recorded, New}

\* The staged copy: what is there now, the new file, the sentinel.
Stages(p) ==
    LET d == Under(p)
        s == installers[p]
        copied == IF s.read.there THEN skills[d] ELSE Absent
        owners == (IF s.read.there THEN SkillOwners(s.read, Head(s.todo)) ELSE {}) \union {Head(s.todo)}
    IN  /\ Phase(p) = "staging"
        /\ IF s.read.there /\ (~skills[d].there \/ LocalEdits(s.read, copied)) THEN Fails(p)
           ELSE /\ installers' = [installers EXCEPT
                       ![p].at = IF s.read.there THEN "backing" ELSE "placing", ![p].backup = Absent,
                       ![p].stage = [Bundle(owners, New, New) EXCEPT !.own = copied.own]]
                /\ UNCHANGED skillPast
        /\ UNCHANGED <<skills, backups>> /\ Calm

BacksUp(p) ==
    LET d == Under(p)
    IN  /\ Phase(p) = "backing"
        /\ IF ~skills[d].there THEN Fails(p) /\ UNCHANGED skills
           ELSE /\ installers' = [installers EXCEPT ![p].at = "placing", ![p].backup = skills[d]]
                /\ skills' = [skills EXCEPT ![d] = Absent] /\ UNCHANGED skillPast
        /\ UNCHANGED backups /\ Calm

\* The stage takes the place; a batch notes what it has created.
Places(p) ==
    LET d == Under(p)
        s == installers[p]
    IN  /\ Phase(p) = "placing" /\ ~skills[d].there
        /\ skills' = [skills EXCEPT ![d] = s.stage]
        /\ installers' = [installers EXCEPT
               ![p].at = "sweeping",
               ![p].created = IF s.read.there THEN @ ELSE Append(@, Head(s.todo))]
        /\ skillPast' = [skillPast EXCEPT
               !.owners[d] = @ \union {Head(s.todo)},
               !.made = IF skillPast.owners[d] = {} THEN @ \union {<<p, d>>} ELSE @]
        /\ UNCHANGED backups /\ Calm

\* A place that was taken meanwhile, or a rename that fails: the backup goes back, if it can.
PlaceFails(p) ==
    LET d == Under(p)
        s == installers[p]
    IN  /\ Phase(p) = "placing"
        /\ IF skills[d].there THEN Calm ELSE Upset
        /\ IF skills[d].there
           THEN UNCHANGED skills /\ backups' = backups \union ({<<d, s.backup>>} \ {<<d, Absent>>})
           ELSE skills' = [skills EXCEPT ![d] = s.backup] /\ UNCHANGED backups
        /\ Fails(p)

\* The new bundle stays also when its backup cannot be removed.
DropsBackup(p) ==
    /\ Phase(p) = "sweeping"
    /\ \/ Advances(p) /\ UNCHANGED <<backups, skillPast>> /\ Calm
       \/ /\ Upset /\ installers[p].read.there /\ Fails(p)
          /\ backups' = backups \union {<<Under(p), installers[p].backup>>}
    /\ UNCHANGED skills

\* Another step that fails: it ends the run, or what is rolled back of one bundle.
BreaksOff(p) ==
    /\ Upset
    /\ Phase(p) \in {"staging", "backing", "disowning", "removing", "unmarking", "emptying"}
    /\ IF installers[p].failed
       THEN /\ installers' = [installers EXCEPT ![p].at = "rolling", ![p].todo = Tail(@)]
            /\ skillPast' = [skillPast EXCEPT !.met = TRUE]
       ELSE Fails(p)
    /\ UNCHANGED <<skills, backups>>

-----------------------------------------------------------------------------
(* Removing                                                                 *)

\* What was read before, less the target.
Disowns(p) ==
    LET d == Under(p)
        t == Head(installers[p].todo)
    IN  /\ Phase(p) = "disowning"
        /\ IF skills[d].sentinel
           THEN /\ WritesSentinel(p, SkillOwners(installers[p].read, t) \ {t})
                /\ Disowned(d, t) /\ Advances(p)
           ELSE Fails(p) /\ UNCHANGED skills
        /\ UNCHANGED backups /\ Calm

\* Broken variant of Shipped: whatever has the file's name.
ShippedName(read, file) == file # 0
\* A file goes only as it was shipped: of a legacy bundle, as it is shipped now.
Shipped(read, file) == file # 0 /\ file = (IF read.recorded = 0 THEN New ELSE read.recorded)

\* The place a removal works at: of the target, or of a bundle to roll back.
RemovesFile(p) ==
    LET d == Under(p)
    IN  /\ Phase(p) = "removing" /\ Goes(p, "unmarking")
        /\ skills' = IF Shipped(installers[p].read, skills[d].file)
                     THEN [skills EXCEPT ![d].file = 0] ELSE skills
        /\ skillPast' = [skillPast EXCEPT !.removing = @ \union {d}]
        /\ UNCHANGED backups /\ Calm

RemovesSentinel(p) ==
    LET d == Under(p)
    IN  /\ Phase(p) = "unmarking" /\ Goes(p, "emptying")
        /\ skills' = IF skills[d].sentinel
                     THEN [skills EXCEPT ![d].sentinel = FALSE, ![d].owners = {}, ![d].recorded = 0]
                     ELSE skills
        /\ IF installers[p].failed THEN UNCHANGED skillPast ELSE Disowned(d, Head(installers[p].todo))
        /\ UNCHANGED backups /\ Calm

\* A directory with anything left in it stays.
RemovesPlace(p) ==
    LET d == Under(p)
    IN  /\ Phase(p) = "emptying"
        /\ skills' = IF skills[d].file = 0 /\ ~skills[d].own /\ ~skills[d].sentinel
                     THEN [skills EXCEPT ![d] = Absent] ELSE skills
        /\ IF installers[p].failed \/ skills[d].there
           THEN /\ installers' = [installers EXCEPT
                       ![p].at = IF installers[p].failed THEN "rolling" ELSE "next", ![p].todo = Tail(@)]
                /\ UNCHANGED skillPast
           ELSE Fails(p)
        /\ UNCHANGED backups /\ Calm

\* rollback: the bundles this batch created, each if it still is one.
RollsBack(p) ==
    LET s == installers[p]
    IN  /\ Phase(p) = "rolling"
        /\ installers' = IF s.todo = <<>> THEN [installers EXCEPT ![p].at = "done"]
                         ELSE IF skills[Under(p)].sentinel
                         THEN [installers EXCEPT ![p].at = "removing", ![p].read = skills[Under(p)]]
                         ELSE [installers EXCEPT ![p].todo = Tail(@)]
        /\ UNCHANGED <<skills, backups, skillPast>> /\ Calm

-----------------------------------------------------------------------------
(* The user, and the end of a process                                       *)

\* Work done while a run is under way may be lost with the copy, and edits of a bundle
\* without recorded contents with its upgrade: neither is counted.
Idle == ~\E p \in Installer : Running(p)
UserWrites(d, what) ==
    /\ userWrites < MaxUserWrites /\ userWrites' = userWrites + 1 /\ UNCHANGED skillUpsets
    /\ skills[d].there
    /\ skills' = IF what = "own" THEN [skills EXCEPT ![d].own = TRUE]
                 ELSE [skills EXCEPT ![d].file = Edited]
    /\ skillPast' = [skillPast EXCEPT !.work =
           IF Idle /\ (what = "own" \/ skills[d].recorded # 0) THEN @ \union {<<d, what>>} ELSE @]
    /\ UNCHANGED <<installers, backups>>

\* A process is killed: its backup stays, its stage too.
Dies(p) ==
    /\ Upset /\ Running(p) /\ Goes(p, "dead")
    /\ backups' = IF Phase(p) \in {"placing", "sweeping"}
                  THEN backups \union ({<<Under(p), installers[p].backup>>} \ {<<Under(p), Absent>>})
                  ELSE backups
    /\ skillPast' = [skillPast EXCEPT !.met = TRUE]
    /\ UNCHANGED skills

SkillNext ==
    \/ \E p \in Installer :
         \/ \E r \in SkillRuns : Starts(p, r)
         \/ Finishes(p) \/ JoinReads(p) \/ Joins(p) \/ Reads(p) \/ Stages(p) \/ BacksUp(p) \/ Places(p) \/ PlaceFails(p)
         \/ DropsBackup(p) \/ BreaksOff(p) \/ Disowns(p) \/ RemovesFile(p) \/ RemovesSentinel(p) \/ RemovesPlace(p)
         \/ RollsBack(p) \/ Dies(p)
    \/ \E d \in Place, what \in {"own", "edit"} : UserWrites(d, what)

-----------------------------------------------------------------------------
\* Installing costs the user nothing (agents_skills.go:102-455).  What the user wrote
\* while no command ran is in the bundle's place or in a backup, however two commands
\* meet, fail or die (three may lose it); a managed bundle has its file, unless a removal of it has begun; and while
\* no two commands have met, none was killed and no rollback failed, a place is managed exactly for the clients
\* it was installed for, a failed batch leaving what was there and nothing it created.
SkillsKept ==
    LET Holds(dir, what) == IF what = "own" THEN dir.own ELSE dir.file = Edited
        kept == backups \union {<<Under(p), installers[p].backup>> :
                                p \in {q \in Installer : Phase(q) \in {"placing", "sweeping"}}}
    IN  /\ \A w \in skillPast.work :
             \/ Holds(skills[w[1]], w[2])
             \/ \E b \in kept : b[1] = w[1] /\ Holds(b[2], w[2])
        /\ \A d \in Place : skills[d].sentinel /\ skills[d].file = 0 => d \in skillPast.removing
        /\ ~skillPast.met /\ Idle =>
             \A d \in Place :
               /\ skills[d].sentinel <=> skillPast.owners[d] # {}
               /\ skills[d].sentinel => SkillOwners(skills[d], OwnerOf(d)) = skillPast.owners[d]
=============================================================================
