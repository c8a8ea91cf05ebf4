--------------------------- MODULE DaemonLifecycle ---------------------------
(***************************************************************************)
(* Daemon processes on one home directory: the socket file, the PID file    *)
(* and the artifact directory that they share (src/internal/bridge/         *)
(* daemon.go), and the commands and native hosts that start and stop them   *)
(* (lifecycle.go, native.go).                                               *)
(***************************************************************************)
EXTENDS Naturals, FiniteSets

CONSTANTS
    Daemon, NoDaemon,   \* processes, each started once
    Restart, Host,      \* runs of bbx restart, starts of a native host
    MaxDeaths           \* processes that die without cleaning up

ASSUME DaemonAssumption == Daemon # {} /\ NoDaemon \notin Daemon

VARIABLES
    process,   \* daemon -> how far runDaemon has got, and whether it was signaled
    socket,    \* the socket file at the address: the daemon that made it
    pidFile,
    artifacts, \* the daemons whose artifacts are in the directory
    holds,     \* history: the daemons that keep artifacts in their tables
    command,   \* restarts and hosts: where they are, the PID they read, who they saw at first
    unlinked,  \* history: the socket file of a listening daemon was removed
    crossed,   \* history: daemons that wrote their PID as another was about to remove its own
    beside,    \* history: daemons that stored an artifact while another drained
    deaths

crossings == <<unlinked, crossed, beside>>
daemonFiles == <<socket, pidFile, artifacts, holds, crossings>>
lifecycleVars == <<process, command, daemonFiles, deaths>>

Listening == {d \in Daemon : process[d].at \in {"chmod", "reset", "pid", "serve"}}
Unstarted == {d \in Daemon : process[d].at = "none"}
Reached == IF socket \in Listening THEN socket ELSE NoDaemon
Starter == Restart \union Host

\* A computer after a crash or a clean stop: a socket file may be left behind.
LifecycleInit ==
    /\ \E left \in {NoDaemon, CHOOSE d \in Daemon : TRUE} :
         /\ process = [d \in Daemon |-> [at |-> IF d = left THEN "gone" ELSE "none",
                                         told |-> FALSE]]
         /\ socket = left /\ pidFile = left
         /\ artifacts = IF left = NoDaemon THEN {} ELSE {left}
    /\ holds = {} /\ unlinked = FALSE /\ crossed = {} /\ beside = {} /\ deaths = 0
    /\ command = [c \in Starter |-> [at |-> "none", pid |-> NoDaemon, old |-> {}]]

-----------------------------------------------------------------------------
(* runDaemon                                                                *)

Moves(d, from, to) ==
    process[d].at = from /\ process' = [process EXCEPT ![d].at = to]

\* An address is unlinked, be it that of another daemon that listens.
Unlinks(own) ==
    /\ socket' = NoDaemon /\ unlinked' = (unlinked \/ Reached \notin {own, NoDaemon})
    /\ UNCHANGED <<crossed, beside>>

SomeAt(at) == \E e \in Daemon : process[e].at = at

\* listen: os.Lstat, then a dial if something is there.
LooksForSocket(d) ==
    /\ Moves(d, "lstat", IF socket = NoDaemon THEN "bind" ELSE "dial")
    /\ UNCHANGED <<daemonFiles, command, deaths>>

DialsSocket(d) ==
    /\ Moves(d, "dial", IF socket # NoDaemon /\ Reached = NoDaemon THEN "remove" ELSE "gone")
    /\ UNCHANGED <<daemonFiles, command, deaths>>

\* os.Remove: of whatever is there by now.
RemovesSocket(d) ==
    /\ Moves(d, "remove", IF socket = NoDaemon THEN "gone" ELSE "bind")
    /\ Unlinks(NoDaemon)
    /\ UNCHANGED <<pidFile, artifacts, holds, command, deaths>>

BindsSocket(d) ==
    /\ Moves(d, "bind", IF socket = NoDaemon THEN "chmod" ELSE "gone")
    /\ socket' = (IF socket = NoDaemon THEN d ELSE socket)
    /\ UNCHANGED <<pidFile, artifacts, holds, crossings, command, deaths>>

ChmodsSocket(d) ==
    /\ Moves(d, "chmod", IF socket = NoDaemon THEN "gone" ELSE "reset")
    /\ UNCHANGED <<daemonFiles, command, deaths>>

\* artifactStore.reset removes the directory with everything in it.
ClearsArtifacts == artifacts' = {}

ResetsArtifacts(d) ==
    /\ Moves(d, "reset", "pid") /\ ClearsArtifacts
    /\ UNCHANGED <<socket, pidFile, holds, crossings, command, deaths>>

WritesPid(d) ==
    /\ Moves(d, "pid", "serve") /\ pidFile' = d
    /\ crossed' = IF SomeAt("rmpid") THEN crossed \union {d} ELSE crossed
    /\ UNCHANGED <<socket, artifacts, holds, unlinked, beside, command, deaths>>

StoresArtifact(d) ==
    /\ process[d].at = "serve" /\ d \notin holds
    /\ artifacts' = artifacts \union {d} /\ holds' = holds \union {d}
    /\ beside' = IF SomeAt("drain") THEN beside \union {d} ELSE beside
    /\ UNCHANGED <<process, socket, pidFile, unlinked, crossed, command, deaths>>

\* ctx.Done: closing the listener unlinks the address, whoever is bound to it.
ClosesListener(d) ==
    /\ process[d].told /\ Moves(d, "serve", "drain")
    /\ Unlinks(d)
    /\ UNCHANGED <<pidFile, artifacts, holds, command, deaths>>

\* The deferred calls wait for connections, setup tasks and storage.
Drains(d) ==
    /\ Moves(d, "drain", "unpid") /\ ClearsArtifacts /\ holds' = holds \ {d}
    /\ UNCHANGED <<socket, pidFile, crossings, command, deaths>>

\* Broken variant of OwnPid: the file is removed without a look at it.
AnyPid(d) == pidFile # NoDaemon
OwnPid(d) == pidFile = d

\* os.ReadFile and the comparison, then os.Remove: of whatever is there by then.
LooksAtPid(d) ==
    /\ Moves(d, "unpid", IF OwnPid(d) THEN "rmpid" ELSE "gone")
    /\ UNCHANGED <<daemonFiles, command, deaths>>

RemovesPid(d) ==
    /\ Moves(d, "rmpid", "gone") /\ pidFile' = NoDaemon
    /\ UNCHANGED <<socket, artifacts, holds, crossings, command, deaths>>

\* The reset or the write of the PID file fails.
StartFails(d) ==
    /\ process[d].at \in {"reset", "pid"} /\ deaths < MaxDeaths /\ deaths' = deaths + 1
    /\ process' = [process EXCEPT ![d].at = "gone"]
    /\ Unlinks(d)
    /\ UNCHANGED <<pidFile, artifacts, holds, command>>

Killed(d) ==
    /\ process[d].at \notin {"none", "gone"} /\ deaths < MaxDeaths /\ deaths' = deaths + 1
    /\ process' = [process EXCEPT ![d].at = "gone"] /\ holds' = holds \ {d}
    /\ UNCHANGED <<socket, pidFile, artifacts, crossings, command>>

-----------------------------------------------------------------------------
(* restartCLI and bootstrap                                                 *)

Turns(c, from, to) ==
    /\ command[c].at = from
    /\ command' = [command EXCEPT ![c].at = to]

Fails(c, from) ==
    /\ Turns(c, from, "failed")
    /\ UNCHANGED <<process, daemonFiles, deaths>>

\* Both dial first.  A host that reaches a daemon is done.
RestartDials(c) ==
    /\ c \in Restart /\ command[c].at = "none"
    /\ command' = [command EXCEPT ![c].at = IF Reached = NoDaemon THEN "spawn" ELSE "register",
                                  ![c].old = Listening]
    /\ UNCHANGED <<process, daemonFiles, deaths>>

HostDials(c) ==
    /\ c \in Host /\ Turns(c, "none", IF Reached = NoDaemon THEN "spawn" ELSE "done")
    /\ UNCHANGED <<process, daemonFiles, deaths>>

\* register: the daemon answers once it accepts connections.
Reregisters(c) ==
    /\ Reached # NoDaemon /\ process[Reached].at = "serve" /\ Turns(c, "register", "readpid")
    /\ UNCHANGED <<process, daemonFiles, deaths>>

RegisterFails(c) == Reached = NoDaemon /\ Fails(c, "register")

ReadsPid(c) ==
    /\ command[c].at = "readpid" /\ pidFile # NoDaemon
    /\ command' = [command EXCEPT ![c].at = "signal", ![c].pid = pidFile]
    /\ UNCHANGED <<process, daemonFiles, deaths>>

\* daemonPID fails without a file, for a stop and at the end of a start.
NoPid(c) == pidFile = NoDaemon /\ (Fails(c, "readpid") \/ Fails(c, "started"))

Terminates(c) ==
    /\ Turns(c, "signal", "wait") /\ process[command[c].pid].at # "gone"
    /\ process' = [process EXCEPT ![command[c].pid].told = TRUE]
    /\ UNCHANGED <<daemonFiles, deaths>>

NoSuchProcess(c) ==
    /\ command[c].pid # NoDaemon /\ process[command[c].pid].at = "gone" /\ Fails(c, "signal")

FindsItStopped(c) ==
    /\ Reached = NoDaemon /\ Turns(c, "wait", "spawn")
    /\ UNCHANGED <<process, daemonFiles, deaths>>

\* The five seconds of stopLocalDaemon and of startLocalDaemon, the 2.5 of bootstrap.
RunsOut(c) == Fails(c, "wait") \/ Fails(c, "ping") \/ (Reached = NoDaemon /\ Fails(c, "await"))

Spawns(c) ==
    /\ Turns(c, "spawn", IF c \in Host THEN "await" ELSE "ping")
    /\ Unstarted # {}
    /\ process' = [process EXCEPT ![CHOOSE d \in Unstarted : TRUE].at = "lstat"]
    /\ UNCHANGED <<daemonFiles, deaths>>

\* health.ping is answered by whoever serves; a host only dials.
Answered(c) ==
    /\ \/ Reached # NoDaemon /\ process[Reached].at = "serve" /\ Turns(c, "ping", "started")
       \/ Reached # NoDaemon /\ Turns(c, "await", "done")
       \/ pidFile # NoDaemon /\ Turns(c, "started", "done")
    /\ UNCHANGED <<process, daemonFiles, deaths>>

LifecycleNext ==
    \/ \E d \in Daemon :
         \/ LooksForSocket(d) \/ DialsSocket(d) \/ RemovesSocket(d) \/ BindsSocket(d)
         \/ ChmodsSocket(d) \/ ResetsArtifacts(d) \/ WritesPid(d) \/ StoresArtifact(d)
         \/ ClosesListener(d) \/ Drains(d) \/ LooksAtPid(d) \/ RemovesPid(d)
         \/ StartFails(d) \/ Killed(d)
    \/ \E c \in Starter :
         \/ RestartDials(c) \/ HostDials(c) \/ Reregisters(c) \/ RegisterFails(c) \/ ReadsPid(c)
         \/ NoPid(c) \/ Terminates(c) \/ NoSuchProcess(c) \/ FindsItStopped(c) \/ RunsOut(c)
         \/ Spawns(c) \/ Answered(c)

LifecycleSpec == LifecycleInit /\ [][LifecycleNext]_lifecycleVars

-----------------------------------------------------------------------------
\* As long as no start has removed the file of a daemon that listens: two
\* daemons never listen at once; the PID file names the one that serves, however
\* long an earlier one takes to drain and whichever died on the way, so that a
\* stop reaches it, unless it wrote its PID between the earlier one's look at the
\* file and its removal; what a daemon keeps is in the directory, unless it stored
\* it while an earlier one drained; and a restart that succeeds has replaced every
\* daemon it found.
LifecycleKept ==
    unlinked \/
        /\ Cardinality(Listening) <= 1
        /\ \A d \in Daemon : process[d].at = "serve" =>
              (pidFile = d \/ d \in crossed) /\ (d \in holds => d \in artifacts \union beside)
        /\ \A c \in Restart : command[c].at = "done" => command[c].old \cap Listening = {}

\* daemon.go:157 "Never unlink a live listener": violated when two daemons start
\* over the file of one that crashed.
NeverUnlinksLive == ~unlinked

=============================================================================
