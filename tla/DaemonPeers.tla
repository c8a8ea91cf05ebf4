------------------------------ MODULE DaemonPeers ------------------------------
(* The daemon's connections (daemon.go: runDaemon, serve, admitConnection,    *)
(* disconnect) and the setup tasks they start (daemon_setup.go), which work   *)
(* on user files without daemon.mu and may outlive their connection.          *)
EXTENDS Naturals, FiniteSets, FiniteSetsExt

CONSTANTS
    MaxConnections, \* connections made in all, numbered as they are accepted
    MaxRegistered,  \* maxRegisteredPeers, 64
    MaxShaking,     \* maxUnregisteredPeers, 16
    MaxJobs,        \* setup tasks of all connections: 8
    MaxOwnJobs,     \* of one connection: 2
    TaskId          \* the ids of a connection's setup requests

VARIABLES
    peers,      \* daemon.peers
    sockets,    \* where each connection's goroutine is
    jobs,       \* setupJobs
    taskIds,        \* setupPending: <<connection, id>>
    tasksRun,       \* the goroutines of tasks: [conn, id, at]
    asked, replied  \* setup requests made and answered, by connection (history)

peerVars == <<peers, sockets, jobs, taskIds, tasksRun, asked, replied>>

Connection == 1..MaxConnections

ASSUME PeerAssumption ==
    /\ MaxConnections \in Nat /\ MaxRegistered \in Nat \ {0} /\ MaxShaking \in Nat \ {0}
    /\ MaxJobs \in Nat /\ MaxOwnJobs \in Nat

PeersInit ==
    /\ peers = {} /\ sockets = [c \in Connection |-> "none"]
    /\ jobs = 0 /\ taskIds = {} /\ tasksRun = {}
    /\ asked = [c \in Connection |-> 0] /\ replied = [c \in Connection |-> 0]

\* A connection has a role from its registration on.
Registered == {c \in peers : sockets[c] \in {"registered", "leaving"}}
Shaking == peers \ Registered

-----------------------------------------------------------------------------
(* Connections *)

\* admitConnection: full of registered peers, none is admitted; full of
\* handshakes, the oldest makes room.
Accept(c) ==
    /\ sockets[c] = "none" /\ \A b \in 1..(c - 1) : sockets[b] # "none"
    /\ IF Cardinality(Registered) >= MaxRegistered
       THEN sockets' = [sockets EXCEPT ![c] = "gone"] /\ UNCHANGED peers
       ELSE /\ sockets' = [sockets EXCEPT ![c] = "shaking"]
            /\ peers' = {c} \union
                 IF Cardinality(Shaking) >= MaxShaking THEN peers \ {Min(Shaking)} ELSE peers
    /\ UNCHANGED <<jobs, taskIds, tasksRun, asked, replied>>

\* The registration is read, also what an evicted connection had sent before.
ReadsRegistration(c) ==
    /\ sockets[c] = "shaking" /\ sockets' = [sockets EXCEPT ![c] = "read"]
    /\ UNCHANGED <<peers, jobs, taskIds, tasksRun, asked, replied>>

\* Broken variant of Welcome: an eviction is not noticed.
AnyWelcome(c) == Cardinality(Registered) < MaxRegistered

Welcome(c) == c \in peers /\ Cardinality(Registered) < MaxRegistered

\* serve: a registration that is not welcome, or whose token is wrong, ends it.
Registers(c) ==
    /\ sockets[c] = "read"
    /\ \/ Welcome(c) /\ sockets' = [sockets EXCEPT ![c] = "registered"]
       \/ sockets' = [sockets EXCEPT ![c] = "refused"]
    /\ UNCHANGED <<peers, jobs, taskIds, tasksRun, asked, replied>>

\* The other side closes, five seconds pass without a registration, or a queue
\* that is full closes it (enqueue).
PeerBreaks(c) ==
    /\ sockets[c] \in {"shaking", "registered"}
    /\ sockets' = [sockets EXCEPT ![c] = IF @ = "shaking" THEN "refused" ELSE "leaving"]
    /\ UNCHANGED <<peers, jobs, taskIds, tasksRun, asked, replied>>

PeerDisconnect(c) ==
    /\ sockets[c] \in {"refused", "leaving"}
    /\ sockets' = [sockets EXCEPT ![c] = "gone"] /\ peers' = peers \ {c}
    /\ UNCHANGED <<jobs, taskIds, tasksRun, asked, replied>>

-----------------------------------------------------------------------------
(* Setup tasks *)

OwnIds(c) == {i \in taskIds : i[1] = c}

\* startSetupTask, by the handler of a setup request; refused, it is answered.
SubmitTask(c, id) ==
    /\ sockets[c] = "registered" /\ asked[c] < Cardinality(TaskId) + 1
    /\ asked' = [asked EXCEPT ![c] = @ + 1]
    /\ IF jobs >= MaxJobs \/ Cardinality(OwnIds(c)) >= MaxOwnJobs \/ <<c, id>> \in taskIds
       THEN replied' = [replied EXCEPT ![c] = @ + 1] /\ UNCHANGED <<jobs, taskIds, tasksRun>>
       ELSE /\ jobs' = jobs + 1 /\ taskIds' = taskIds \union {<<c, id>>}
            /\ tasksRun' = tasksRun \union {[conn |-> c, id |-> id, at |-> "queued"]}
            /\ UNCHANGED replied
    /\ UNCHANGED <<peers, sockets>>

RunMoves(run, at) == tasksRun' = (tasksRun \ {run}) \union {[run EXCEPT !.at = at]}

\* setupMu, then a look at the peers under daemon.mu.
TaskStarts(run) ==
    /\ run \in tasksRun /\ run.at = "queued" /\ \A r \in tasksRun : r.at = "queued"
    /\ RunMoves(run, IF run.conn \in peers THEN "working" ELSE "finishing")
    /\ UNCHANGED <<peers, sockets, jobs, taskIds, asked, replied>>

\* The work, without daemon.mu.
TaskWorks(run) ==
    /\ run \in tasksRun /\ run.at = "working"
    /\ RunMoves(run, "finishing")
    /\ UNCHANGED <<peers, sockets, jobs, taskIds, asked, replied>>

ReleasesTask(run) == jobs' = jobs - 1 /\ taskIds' = taskIds \ {<<run.conn, run.id>>}

TaskFinishes(run) ==
    /\ run \in tasksRun /\ run.at = "finishing"
    /\ tasksRun' = tasksRun \ {run} /\ ReleasesTask(run)
    /\ replied' = IF run.conn \in peers THEN [replied EXCEPT ![run.conn] = @ + 1] ELSE replied
    /\ UNCHANGED <<peers, sockets, asked>>

PeersNext ==
    \/ \E c \in Connection :
         \/ Accept(c) \/ ReadsRegistration(c) \/ Registers(c) \/ PeerBreaks(c) \/ PeerDisconnect(c)
         \/ \E id \in TaskId : SubmitTask(c, id)
    \/ \E run \in tasksRun : TaskStarts(run) \/ TaskWorks(run) \/ TaskFinishes(run)

PeersSpec == PeersInit /\ [][PeersNext]_peerVars

-----------------------------------------------------------------------------
(* Properties. *)

\* However accepting, evicting, registering and leaving interleave, a registered
\* connection is one of the peers, and peers stay within both limits
\* (admitConnection, serve).
PeersBounded ==
    /\ \A c \in Connection : sockets[c] \in {"registered", "leaving"} => c \in peers
    /\ Cardinality(Registered) <= MaxRegistered /\ Cardinality(Shaking) <= MaxShaking

\* Counters and taskIds are those of the tasks under way, whoever has left, and a
\* connection that stays gets one answer to each setup request (startSetupTask).
TasksAccounted ==
    /\ jobs = Cardinality(tasksRun) /\ jobs <= MaxJobs
    /\ taskIds = {<<r.conn, r.id>> : r \in tasksRun} /\ Cardinality(taskIds) = jobs
    /\ \A c \in peers : asked[c] = replied[c] + Cardinality(OwnIds(c))

\* What the daemon keeps of its connections is what they are.
PeersAccounted == PeersBounded /\ TasksAccounted
=============================================================================
