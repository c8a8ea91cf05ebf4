---------------------------- MODULE NativeLauncher ----------------------------
(***************************************************************************)
(* The npm launcher finding or downloading the pinned native binary         *)
(* (src/packages/npm/src/runtime.js), in several processes that share a     *)
(* cache directory and a lock that is broken when it looks old.             *)
(***************************************************************************)
EXTENDS Naturals, FiniteSets

CONSTANTS
    Launcher,
    NoLauncher,
    MaxLaunchUpsets   \* crashes, damage, locks that grow old

ASSUME LauncherAssumption == NoLauncher \notin Launcher

VARIABLES
    launchers,   \* what every process does
    installLock, \* the directory .install-lock: who made it, whether it looks old
    binary,      \* "none", "whole" or "damaged"
    temporaries, \* download files on disk: process and whether the bytes are right
    launchPast,  \* history: locks broken or never released, damage
    launchUpsets

launchVars == <<launchers, installLock, binary, temporaries, launchPast, launchUpsets>>

Unlocked == [by |-> NoLauncher, old |-> FALSE]

LaunchInit ==
    /\ launchers = [p \in Launcher |-> "new"]
    /\ installLock = Unlocked /\ binary = "none" /\ temporaries = {}
    /\ launchPast = [broken |-> FALSE, damaged |-> FALSE]
    /\ launchUpsets = 0

LaunchUpset == launchUpsets < MaxLaunchUpsets /\ launchUpsets' = launchUpsets + 1
LaunchGoes(p, from, to) == launchers[p] = from /\ launchers' = [launchers EXCEPT ![p] = to]
Locked == installLock # Unlocked

\* cachedBinary: what is there is verified, and what is not right is never run.
Cached(absent) == CASE binary = "none" -> absent [] binary = "whole" -> "ran" [] OTHER -> "failed"

Looks(p) ==
    /\ LaunchGoes(p, "new", Cached("locking"))
    /\ UNCHANGED <<installLock, binary, temporaries, launchPast, launchUpsets>>

TakesLock(p) ==
    /\ ~Locked /\ LaunchGoes(p, "locking", "holding") /\ installLock' = [by |-> p, old |-> FALSE]
    /\ UNCHANGED <<binary, temporaries, launchPast, launchUpsets>>

\* The lock is taken: look at the binary again, then at the lock's age.
Waits(p) ==
    /\ Locked /\ LaunchGoes(p, "locking", Cached("aging"))
    /\ UNCHANGED <<installLock, binary, temporaries, launchPast, launchUpsets>>

\* An old lock is to be removed; otherwise try again, or give up at the deadline.
Ages(p, late) ==
    /\ LaunchGoes(p, "aging", IF installLock.old THEN "breaking" ELSE IF late THEN "failed" ELSE "locking")
    /\ UNCHANGED <<installLock, binary, temporaries, launchPast, launchUpsets>>

\* Whatever lock is there by now goes.
Breaks(p) ==
    /\ LaunchGoes(p, "breaking", "locking") /\ installLock' = Unlocked
    /\ launchPast' = [launchPast EXCEPT !.broken = TRUE]
    /\ UNCHANGED <<binary, temporaries, launchUpsets>>

Holds(p) ==
    /\ LaunchGoes(p, "holding", LET found == Cached("downloading")
                          IN  IF found = "ran" THEN "releasing" ELSE IF found = "failed" THEN "giving" ELSE found)
    /\ UNCHANGED <<installLock, binary, temporaries, launchPast, launchUpsets>>

\* The download ends: as pinned, or cut short, or something else.
Downloads(p, right) ==
    /\ LaunchGoes(p, "downloading", "verifying") /\ temporaries' = temporaries \union {<<p, right>>}
    /\ UNCHANGED <<installLock, binary, launchPast, launchUpsets>>

TemporaryOf(p) == {t \in temporaries : t[1] = p}

\* Broken variant of Verified: the size is taken for the contents.
SizedOnly(p) == TRUE
\* Size and hash are the pinned ones, and the program says which version it is.
Verified(p) == <<p, TRUE>> \in temporaries

\* rename puts it in its place, over what another process has put there.
Installs(p) ==
    /\ IF Verified(p)
       THEN /\ LaunchGoes(p, "verifying", "releasing")
            /\ binary' = IF <<p, TRUE>> \in temporaries THEN "whole" ELSE "damaged"
       ELSE LaunchGoes(p, "verifying", "giving") /\ UNCHANGED binary
    /\ temporaries' = temporaries \ TemporaryOf(p)
    /\ UNCHANGED <<installLock, launchPast, launchUpsets>>

\* The lock that is removed may be another's by now.
Releases(p) ==
    /\ \/ LaunchGoes(p, "releasing", "ran")
       \/ LaunchGoes(p, "giving", "failed")
    /\ installLock' = Unlocked
    /\ UNCHANGED <<binary, temporaries, launchPast, launchUpsets>>

Retries(p) ==
    /\ LaunchGoes(p, "failed", "new") /\ LaunchUpset
    /\ UNCHANGED <<installLock, binary, temporaries, launchPast>>

\* Killed: the lock and the download stay.
Crashes(p) ==
    /\ launchers[p] \notin {"new", "ran", "failed", "dead"} /\ LaunchUpset
    /\ launchers' = [launchers EXCEPT ![p] = "dead"]
    /\ UNCHANGED <<installLock, binary, temporaries, launchPast>>

\* Five minutes by the clock, in which the machine may have slept.
LockAges ==
    /\ Locked /\ ~installLock.old /\ LaunchUpset /\ installLock' = [installLock EXCEPT !.old = TRUE]
    /\ UNCHANGED <<launchers, binary, temporaries, launchPast>>

CacheDamaged ==
    /\ binary = "whole" /\ LaunchUpset /\ binary' = "damaged"
    /\ launchPast' = [launchPast EXCEPT !.damaged = TRUE]
    /\ UNCHANGED <<launchers, installLock, temporaries>>

LaunchNext ==
    \/ \E p \in Launcher :
         \/ Looks(p) \/ TakesLock(p) \/ Waits(p) \/ (\E late \in BOOLEAN : Ages(p, late)) \/ Breaks(p)
         \/ Holds(p) \/ (\E right \in BOOLEAN : Downloads(p, right)) \/ Installs(p)
         \/ Releases(p) \/ Retries(p) \/ Crashes(p)
    \/ LockAges \/ CacheDamaged

Launches == LaunchInit /\ [][LaunchNext]_launchVars

-----------------------------------------------------------------------------
\* The lock only saves work: what runs is the pinned binary however processes meet
\* (runtime.js:112-263).  Whoever runs has found it whole, and only outside damage spoils
\* it, though a lock taken for old may be a living one and two processes may download at
\* once; before that one process downloads at a time, and a process that has ended leaves
\* neither its download nor a lock of its own.
LaunchesPinned ==
    LET busy == {p \in Launcher : launchers[p] \in {"holding", "downloading", "verifying"}}
    IN  /\ binary = "damaged" => launchPast.damaged
        /\ \A p \in Launcher : launchers[p] \in {"ran", "releasing"} => binary # "none"
        /\ ~launchPast.broken => Cardinality(busy) <= 1
        /\ \A t \in temporaries : launchers[t[1]] \in {"verifying", "dead"}
        /\ Locked => launchers[installLock.by] \notin {"new", "locking", "ran", "failed"}
=============================================================================
