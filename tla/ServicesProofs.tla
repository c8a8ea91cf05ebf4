--------------------------- MODULE ServicesProofs ---------------------------
(***************************************************************************)
(* What holds of the parts that ServicesMC explores side by side, each for *)
(* any number of processes, connections, windows, releases and any limits: *)
(* the client and the processes of the daemon, its connections and tasks,  *)
(* the actions and access requests of windows, and the updater.            *)
(***************************************************************************)
EXTENDS BridgeClient, DaemonLifecycle, DaemonPeers, AccessPrompts, WindowActions, NativeUpdate,
        DomBaselines, FiniteSetTheorems, NaturalsInduction, SequenceTheorems, WellFoundedInduction, TLAPS

-----------------------------------------------------------------------------
\* A set of numbers has a least one: the order of the numbers is well founded.
LEMMA LeastElement ==
    ASSUME NEW S, S \subseteq Nat, S # {}
    PROVE  \E i \in S : \A j \in S : i <= j
<1>1. \E i \in S : \A j \in S : ~(<<j, i>> \in OpToRel(<, Nat))
  BY NatLessThanWellFounded, WFMin, Zenon
<1>2. \A i, j \in Nat : <<i, j>> \in OpToRel(<, Nat) <=> i < j
  BY DEF OpToRel
<1>3. \E i \in S : \A j \in S : ~(j < i)
  BY <1>1, <1>2, Zenon
<1> QED
  BY <1>3

-----------------------------------------------------------------------------
(* The client of the daemon.                                                  *)

ClientTypeOK ==
    /\ callers \in [Caller -> {"none", "sending", "waiting", "failing", "leaving", "returned"}]
    /\ names \in [Caller -> Id \union {"none"}]
    /\ entries \subseteq Caller
    /\ results \in [Caller -> Nat]
    /\ reader \in Caller \union {"reading", "failing", "done"}
    /\ shut \in BOOLEAN
    /\ served \subseteq Caller

\* A call in the map has no result yet, there or at the reader, so that the one it
\* gets finds its channel empty; a caller that still hopes has one or will get one;
\* and an id stands for one pending call, so that an answer takes out only that.
ClientInv ==
    /\ ClientTypeOK
    /\ \A r \in entries : results[r] = 0 /\ reader # r /\ callers[r] # "none"
    /\ \A r \in Caller : callers[r] = "none" => results[r] = 0 /\ reader # r
    /\ \A r \in Caller : results[r] <= 1 /\ (reader = r => results[r] = 0)
    /\ \A r \in Caller :
         callers[r] \in {"sending", "waiting"} => r \in entries \/ results[r] = 1 \/ reader = r
    /\ \A r, s \in entries : names[r] = names[s] => r = s
    /\ shut => entries = {}

LEMMA ReaderStates == "reading" \notin Caller /\ "failing" \notin Caller /\ "done" \notin Caller
  BY CallerAssumption

LEMMA ClientInvInit == ClientInit => ClientInv
<1> SUFFICES ASSUME ClientInit PROVE ClientInv
  OBVIOUS
<1>1. ClientTypeOK
  BY DEF ClientInit, ClientTypeOK
<1>2. \A r \in Caller : callers[r] = "none" /\ results[r] = 0 /\ reader # r
  BY ReaderStates DEF ClientInit
<1> QED
  BY <1>1, <1>2 DEF ClientInit, ClientInv

LEMMA ClientInvNext == ClientInv /\ [ClientNext]_clientVars => ClientInv'
<1> SUFFICES ASSUME ClientInv, [ClientNext]_clientVars PROVE ClientInv'
  OBVIOUS
<1> USE ReaderStates DEF ClientInv, ClientTypeOK, CallerAt
<1>1. CASE \E r \in Caller, i \in Id : Enters(r, i)
  <2> PICK r \in Caller, i \in Id : Enters(r, i)
    BY <1>1
  <2>1. /\ callers[r] = "none" /\ names' = [names EXCEPT ![r] = i] /\ r \notin entries
        /\ results' = results /\ reader' = reader /\ shut' = shut /\ served' = served
    BY DEF Enters
  <2>2. CASE callers' = [callers EXCEPT ![r] = "returned"] /\ entries' = entries
    BY <2>1, <2>2
  <2>3. CASE /\ ~shut /\ Holders(i) = {}
             /\ callers' = [callers EXCEPT ![r] = "sending"] /\ entries' = entries \union {r}
    BY <2>1, <2>3 DEF Holders
  <2> QED
    BY <2>2, <2>3 DEF Enters
<1>2. CASE \E r \in Caller : Sends(r)
  BY <1>2 DEF Sends
<1>3. CASE \E r \in Caller : TakesResult(r)
  BY <1>3 DEF TakesResult
<1>4. CASE \E r \in Caller : GivesUpCall(r)
  BY <1>4 DEF GivesUpCall
<1>5. CASE \E r \in Caller : Leaves(r)
  BY <1>5 DEF Leaves, Removes
<1>6. CASE \E r \in Caller : ReadsAnswer(r)
  <2> PICK r \in Caller : ReadsAnswer(r)
    BY <1>6
  <2>1. /\ reader = "reading" /\ served' \subseteq served
        /\ entries' = entries \ Holders(names[r])
        /\ UNCHANGED <<callers, names, results, shut>>
    BY DEF ReadsAnswer
  <2>2. CASE Holders(names[r]) = {} /\ reader' = reader
    BY <2>1, <2>2
  <2>3. CASE reader' \in Holders(names[r])
    <3>1. reader' \in entries /\ Holders(names[r]) = {reader'}
      BY <2>3 DEF Holders
    <3> QED
      BY <2>1, <3>1
  <2> QED
    BY <2>1, <2>2, <2>3 DEF ReadsAnswer
<1>7. CASE PutsResult
  BY <1>7 DEF PutsResult
<1>8. CASE ReadFails
  BY <1>8 DEF ReadFails
<1>9. CASE FailsInReader
  BY <1>9 DEF FailsInReader, FailsAll
<1>10. CASE \E r \in Caller : FailsInCaller(r)
  BY <1>10 DEF FailsInCaller, FailsAll
<1>11. CASE ClosesClient
  BY <1>11 DEF ClosesClient, FailsAll
<1>12. CASE UNCHANGED clientVars
  BY <1>12 DEF clientVars
<1> QED
  BY <1>1, <1>2, <1>3, <1>4, <1>5, <1>6, <1>7, <1>8, <1>9, <1>10, <1>11, <1>12
     DEF ClientNext

\* No channel of the client gets a second result and no caller waits for nothing,
\* for any number of callers and whichever of them share an id.
THEOREM ClientsSettle == ClientSpec => []ClientSettles
<1>1. ClientInv => ClientSettles
  BY DEF ClientInv, ClientTypeOK, ClientSettles
<1> QED
  BY <1>1, ClientInvInit, ClientInvNext, PTL DEF ClientSpec

-----------------------------------------------------------------------------
(* Daemon processes.                                                          *)

ProcessAt == {"none", "lstat", "dial", "remove", "bind", "chmod", "reset", "pid", "serve",
              "drain", "unpid", "rmpid", "gone"}
StarterAt == {"none", "spawn", "register", "readpid", "signal", "wait", "ping", "await",
              "started", "done", "failed"}

LifecycleTypeOK ==
    /\ process \in [Daemon -> [at : ProcessAt, told : BOOLEAN]]
    /\ command \in [Starter -> [at : StarterAt, pid : Daemon \union {NoDaemon}, old : SUBSET Daemon]]
    /\ pidFile \in Daemon \union {NoDaemon}
    /\ unlinked \in BOOLEAN /\ holds \in SUBSET Daemon

\* A process that has listened and does not any more.
Over(d) == process[d].at \in {"drain", "unpid", "rmpid", "gone"}

\* Nobody is about to remove the PID file, or to clear the directory, that the
\* daemon which serves counts on.
FilesKept ==
    /\ \A d \in holds : process[d].at \in {"serve", "drain"}
    /\ \A d \in Daemon : process[d].at = "serve" =>
         /\ d \in crossed \/ (pidFile = d /\ ~SomeAt("rmpid"))
         /\ d \in holds => d \in beside \/ (d \in artifacts /\ ~SomeAt("drain"))

\* Who listens holds the socket file, so that a starter that reaches nobody knows that
\* nobody listens; those a restart found have listened; and once it has seen that
\* nobody listens, they are over.
LifecycleInv ==
    /\ LifecycleTypeOK
    /\ unlinked \/
        /\ \A d \in Listening : socket = d
        /\ FilesKept
        /\ \A c \in Starter :
             /\ \A d \in command[c].old : d \in Listening \/ Over(d)
             /\ command[c].at \in {"spawn", "ping", "await", "started", "done"} =>
                    \A d \in command[c].old : Over(d)
             /\ command[c].at = "none" => command[c].old = {}

\* One daemon, or one starter, goes on to its next step.
ProcessGoes(d, at) ==
    /\ process' \in [Daemon -> [at : ProcessAt, told : BOOLEAN]]
    /\ process'[d].at = at
    /\ \A e \in Daemon : e # d => process'[e] = process[e]

LEMMA ProcessMoves ==
    ASSUME LifecycleTypeOK, NEW d \in Daemon, NEW at \in ProcessAt,
           process' = [process EXCEPT ![d].at = at]
    PROVE  ProcessGoes(d, at)
  BY DEF LifecycleTypeOK, ProcessGoes

StarterGoes(c, at) ==
    /\ command' \in [Starter -> [at : StarterAt, pid : Daemon \union {NoDaemon}, old : SUBSET Daemon]]
    /\ command'[c].at = at /\ command'[c].old = command[c].old
    /\ \A e \in Starter : e # c => command'[e] = command[e]

LEMMA CommandMoves ==
    ASSUME LifecycleTypeOK, NEW c \in Starter, NEW at \in StarterAt,
           command' = [command EXCEPT ![c].at = at]
    PROVE  StarterGoes(c, at)
  BY DEF LifecycleTypeOK, StarterGoes

LEMMA LifecycleInvInit == LifecycleInit => LifecycleInv
<1> SUFFICES ASSUME LifecycleInit PROVE LifecycleInv
  OBVIOUS
<1>1. PICK left \in Daemon \union {NoDaemon} :
         /\ process = [d \in Daemon |-> [at |-> IF d = left THEN "gone" ELSE "none",
                                         told |-> FALSE]]
         /\ socket = left /\ pidFile = left
  BY DaemonAssumption DEF LifecycleInit
<1>2. /\ process \in [Daemon -> [at : ProcessAt, told : BOOLEAN]]
      /\ \A d \in Daemon : process[d].at \in {"none", "gone"}
  BY <1>1 DEF ProcessAt
<1>3. /\ command \in [Starter -> [at : StarterAt, pid : Daemon \union {NoDaemon}, old : SUBSET Daemon]]
      /\ \A c \in Starter : command[c].old = {} /\ command[c].at = "none"
  BY DEF LifecycleInit, StarterAt
<1> QED
  BY <1>1, <1>2, <1>3 DEF LifecycleInit, LifecycleInv, LifecycleTypeOK, Listening, FilesKept

\* What a daemon does changes no starter.
LEMMA DaemonMoves ==
    ASSUME LifecycleInv, NEW d \in Daemon, NEW at \in ProcessAt, ProcessGoes(d, at),
           d \in Listening => at \in {"chmod", "reset", "pid", "serve", "drain", "unpid", "rmpid", "gone"},
           Over(d) => at \in {"drain", "unpid", "rmpid", "gone"},
           UNCHANGED command,
           pidFile' \in Daemon \union {NoDaemon}, unlinked' \in BOOLEAN, unlinked => unlinked',
           holds' \in SUBSET Daemon,
           unlinked' \/ ((\A e \in Listening' : socket' = e) /\ FilesKept')
    PROVE  LifecycleInv'
<1>1. LifecycleTypeOK'
  BY DEF LifecycleInv, LifecycleTypeOK, ProcessGoes
<1>2. ASSUME NEW e \in Daemon PROVE /\ Over(e) => Over(e)'
                                    /\ e \in Listening => e \in Listening' \/ Over(e)'
  BY DEF LifecycleInv, LifecycleTypeOK, Over, Listening, ProcessGoes
<1>3. ~unlinked => \A c \in Starter :
             /\ \A e \in command'[c].old : e \in Listening' \/ Over(e)'
             /\ command'[c].at \in {"spawn", "ping", "await", "started", "done"} =>
                    \A e \in command'[c].old : Over(e)'
             /\ command'[c].at = "none" => command'[c].old = {}
  BY <1>2 DEF LifecycleInv, LifecycleTypeOK
<1> QED
  BY <1>1, <1>3 DEF LifecycleInv

\* Nor does a starter that asks nothing of a daemon change one.
LEMMA StarterMoves ==
    ASSUME LifecycleInv, NEW c \in Starter, NEW at \in StarterAt, StarterGoes(c, at),
           at # "none",
           UNCHANGED <<process, daemonFiles>>,
           unlinked \/ (at \in {"spawn", "ping", "await", "started", "done"} =>
                            \A d \in command[c].old : Over(d))
    PROVE  LifecycleInv'
  BY DEF LifecycleInv, LifecycleTypeOK, Listening, Over, StarterGoes, FilesKept, SomeAt, daemonFiles,
         crossings

\* Nobody is reached only when nobody listens.
LEMMA ReachesNobody ==
    ASSUME LifecycleInv, ~unlinked PROVE Reached = NoDaemon <=> Listening = {}
  BY DaemonAssumption DEF LifecycleInv, Reached, Listening

LEMMA ReachesIt ==
    ASSUME LifecycleInv, ~unlinked, NEW d \in Listening PROVE Reached = d /\ Listening = {d}
  BY DEF LifecycleInv, Reached

\* A step that neither serves, drains nor goes for the PID file leaves the files alone.
LEMMA FilesStay ==
    ASSUME LifecycleTypeOK, NEW d \in Daemon, NEW at \in ProcessAt \ {"serve", "drain", "rmpid"},
           ProcessGoes(d, at), FilesKept, UNCHANGED <<pidFile, artifacts, crossed, beside>>,
           holds' \subseteq holds, holds \subseteq Daemon, d \notin holds'
    PROVE  FilesKept'
<1>1. \A e \in Daemon : process'[e].at \in {"serve", "drain", "rmpid"} => process[e].at = process'[e].at
  BY DEF ProcessGoes
<1>2. \A e \in Daemon : e # d => process'[e] = process[e]
  BY DEF ProcessGoes
<1>3. \A e \in holds' : process'[e].at = process[e].at
  BY <1>2 DEF LifecycleTypeOK
<1> QED
  BY <1>1, <1>3 DEF FilesKept, SomeAt

LEMMA LifecycleInvNext == LifecycleInv /\ [LifecycleNext]_lifecycleVars => LifecycleInv'
<1> SUFFICES ASSUME LifecycleInv, [LifecycleNext]_lifecycleVars PROVE LifecycleInv'
  OBVIOUS
<1>0. LifecycleTypeOK /\ (~unlinked => (\A d \in Listening : socket = d) /\ FilesKept)
  BY DEF LifecycleInv
<1> USE DEF LifecycleTypeOK
<1>a. ASSUME ~unlinked, NEW d \in Listening, NEW e \in Daemon, process[e].at = "serve" PROVE e = d
  BY <1>0, <1>a DEF Listening
<1>1. ASSUME NEW d \in Daemon,
             LooksForSocket(d) \/ DialsSocket(d) \/ ChmodsSocket(d) \/ Killed(d)
      PROVE  LifecycleInv'
  <2>1. PICK at \in {"bind", "dial", "remove", "gone", "reset"} :
             /\ process' = [process EXCEPT ![d].at = at]
             /\ d \in Listening => at \in {"reset", "gone"}
             /\ Over(d) => at = "gone"
             /\ at = "reset" => d \in Listening
             /\ process[d].at \in {"serve", "drain"} => holds' = holds \ {d}
             /\ UNCHANGED <<socket, pidFile, artifacts, unlinked, crossed, beside, command>>
             /\ holds' = holds \/ holds' = holds \ {d}
    BY <1>1 DEF LooksForSocket, DialsSocket, ChmodsSocket, Killed, Moves, Listening, Over, daemonFiles,
                crossings
  <2>2. at \in ProcessAt \ {"serve", "drain", "rmpid"} /\ ProcessGoes(d, at)
    BY <1>0, <2>1, ProcessMoves DEF ProcessAt
  <2>3. \A e \in Listening' : e \in Listening
    BY <1>0, <2>1, <2>2 DEF Listening, ProcessGoes
  <2>4. FilesKept => d \notin holds'
    BY <2>1 DEF FilesKept
  <2>5. ~unlinked => FilesKept'
    BY <1>0, <2>1, <2>2, <2>4, FilesStay
  <2>6. ~unlinked => \A e \in Listening' : socket' = e
    BY <1>0, <2>1, <2>3
  <2> QED
    BY <1>0, <2>1, <2>2, <2>5, <2>6, DaemonMoves
<1>2. ASSUME NEW d \in Daemon, RemovesSocket(d) PROVE LifecycleInv'
  <2>1. PICK at \in {"gone", "bind"} : process' = [process EXCEPT ![d].at = at]
    BY <1>2 DEF RemovesSocket, Moves
  <2>2. at \in ProcessAt \ {"serve", "drain", "rmpid"} /\ ProcessGoes(d, at)
    BY <1>0, <2>1, ProcessMoves DEF ProcessAt
  <2>3. /\ process[d].at = "remove" /\ unlinked' = (unlinked \/ Reached # NoDaemon)
        /\ UNCHANGED <<pidFile, artifacts, holds, crossed, beside, command>>
    BY <1>2 DEF RemovesSocket, Moves, Unlinks
  <2>4. \A e \in Listening' : e \in Listening
    BY <1>0, <2>2, <2>3 DEF Listening, ProcessGoes
  <2>5. ~unlinked' => FilesKept'
    <3>1. FilesKept => d \notin holds
      BY <2>3 DEF FilesKept
    <3> QED
      BY <1>0, <2>2, <2>3, <3>1, FilesStay
  <2>6. ~unlinked' => \A e \in Listening' : socket' = e
    BY <2>3, <2>4, ReachesNobody
  <2> QED
    BY <1>0, <2>2, <2>3, <2>5, <2>6, DaemonMoves DEF Listening, Over
<1>3. ASSUME NEW d \in Daemon, BindsSocket(d) PROVE LifecycleInv'
  <2>1. /\ process[d].at = "bind"
        /\ UNCHANGED <<pidFile, artifacts, holds, unlinked, crossed, beside, command>>
    BY <1>3 DEF BindsSocket, Moves, crossings
  <2>2. PICK at \in {"chmod", "gone"} :
           /\ process' = [process EXCEPT ![d].at = at]
           /\ at = "chmod" => socket = NoDaemon /\ socket' = d
           /\ at = "gone" => socket' = socket
    BY <1>3 DEF BindsSocket, Moves
  <2>3. at \in ProcessAt \ {"serve", "drain", "rmpid"} /\ ProcessGoes(d, at)
    BY <1>0, <2>2, ProcessMoves DEF ProcessAt
  <2>4. ~unlinked /\ socket = NoDaemon => Listening = {}
    BY <1>0, DaemonAssumption DEF Listening
  <2>5. \A e \in Daemon : e \in Listening' => e \in Listening \/ (e = d /\ at = "chmod")
    BY <1>0, <2>1, <2>3 DEF Listening, ProcessGoes
  <2>6. ~unlinked => \A e \in Listening' : socket' = e
    BY <1>0, <2>2, <2>4, <2>5 DEF Listening
  <2>7. ~unlinked => FilesKept'
    <3>1. FilesKept => d \notin holds
      BY <2>1 DEF FilesKept
    <3> QED
      BY <1>0, <2>1, <2>3, <3>1, FilesStay
  <2> QED
    BY <1>0, <2>1, <2>3, <2>6, <2>7, DaemonMoves DEF Listening, Over
<1>4. ASSUME NEW d \in Daemon, WritesPid(d) PROVE LifecycleInv'
  <2>1. /\ process[d].at = "pid" /\ UNCHANGED <<socket, artifacts, holds, unlinked, beside, command>>
        /\ ProcessGoes(d, "serve") /\ pidFile' = d /\ (SomeAt("rmpid") => d \in crossed')
    BY <1>0, <1>4, ProcessMoves DEF WritesPid, Moves, ProcessAt
  <2>2. d \in Listening /\ \A e \in Listening' : e \in Listening
    BY <1>0, <2>1 DEF Listening, ProcessGoes
  <2>3. ~unlinked => FilesKept'
    <3>1. ASSUME ~unlinked, NEW e \in Daemon, process'[e].at = "serve" PROVE e = d
      BY <1>a, <2>1, <2>2, <3>1 DEF ProcessGoes
    <3>2. ASSUME ~unlinked PROVE d \notin holds /\ \A e \in holds : process'[e].at = process[e].at
      BY <1>0, <2>1, <3>2 DEF FilesKept, ProcessGoes
    <3>3. SomeAt("rmpid")' => SomeAt("rmpid")
      BY <2>1 DEF SomeAt, ProcessGoes
    <3> QED
      BY <1>0, <2>1, <3>1, <3>2, <3>3 DEF FilesKept
  <2>4. ~unlinked => \A e \in Listening' : socket' = e
    BY <1>0, <2>1, <2>2
  <2>5. ~Over(d)
    BY <2>1 DEF Over
  <2> QED
    BY <1>0, <2>1, <2>3, <2>4, <2>5, DaemonMoves DEF ProcessAt
<1>5. ASSUME NEW d \in Daemon, StoresArtifact(d) PROVE LifecycleInv'
  <2>1. /\ process[d].at = "serve" /\ UNCHANGED <<process, socket, pidFile, unlinked, crossed, command>>
        /\ holds' = holds \union {d} /\ artifacts' = artifacts \union {d}
        /\ beside \subseteq beside' /\ (SomeAt("drain") => d \in beside')
    BY <1>5 DEF StoresArtifact
  <2>2. SomeAt("drain")' = SomeAt("drain") /\ SomeAt("rmpid")' = SomeAt("rmpid")
    BY <2>1 DEF SomeAt
  <2>3. ~unlinked => FilesKept'
    BY <1>0, <2>1, <2>2 DEF FilesKept
  <2> QED
    BY <2>1, <2>3 DEF LifecycleInv, Listening, Over
<1>6. ASSUME NEW d \in Daemon, ClosesListener(d) \/ StartFails(d) PROVE LifecycleInv'
  <2>1. PICK at \in {"drain", "gone"} : /\ process' = [process EXCEPT ![d].at = at]
                                        /\ process[d].at = "serve" => at = "drain"
    BY <1>6 DEF ClosesListener, StartFails, Moves
  <2>2. /\ d \in Listening /\ UNCHANGED <<pidFile, artifacts, holds, command>>
        /\ unlinked' = (unlinked \/ Reached \notin {d, NoDaemon})
    BY <1>6 DEF ClosesListener, StartFails, Moves, Unlinks, Listening
  <2>3. ProcessGoes(d, at)
    BY <1>0, <2>1, ProcessMoves DEF ProcessAt
  <2>4. \A e \in Daemon : e \in Listening' => e \in Listening /\ e # d
    BY <1>0, <2>1, <2>3 DEF Listening, ProcessGoes
  <2>5. ~unlinked => Listening' = {}
    BY <1>0, <2>2, <2>4 DEF Listening
  <2>6. ~unlinked => FilesKept'
    <3>1. ~unlinked => \A e \in Daemon : process'[e].at # "serve"
      BY <2>5 DEF Listening
    <3>2. ~unlinked => \A e \in holds : process'[e].at \in {"serve", "drain"}
      BY <1>0, <2>1, <2>2, <2>3 DEF FilesKept, ProcessGoes, Listening
    <3> QED
      BY <2>2, <3>1, <3>2 DEF FilesKept
  <2> QED
    BY <1>0, <2>2, <2>3, <2>5, <2>6, DaemonMoves DEF Over, Listening, ProcessAt
<1>7. ASSUME NEW d \in Daemon, LooksAtPid(d) \/ RemovesPid(d) PROVE LifecycleInv'
  <2>1. PICK at \in {"rmpid", "gone"} :
          /\ process' = [process EXCEPT ![d].at = at] /\ (at = "rmpid" => pidFile = d)
          /\ pidFile' = pidFile \/ (process[d].at = "rmpid" /\ pidFile' = NoDaemon)
    BY <1>7 DEF LooksAtPid, RemovesPid, Moves, OwnPid, daemonFiles
  <2>2. /\ process[d].at \in {"unpid", "rmpid"}
        /\ UNCHANGED <<socket, artifacts, holds, unlinked, crossed, beside, command>>
    BY <1>7 DEF LooksAtPid, RemovesPid, Moves, daemonFiles, crossings
  <2>3. ProcessGoes(d, at)
    BY <1>0, <2>1, ProcessMoves DEF ProcessAt
  <2>4. \A e \in Daemon : /\ e \in Listening' => e \in Listening
                          /\ process'[e].at = "serve" => process[e].at = "serve" /\ e # d
                          /\ process'[e].at = "drain" => process[e].at = "drain"
    BY <1>0, <2>1, <2>2, <2>3 DEF Listening, ProcessGoes
  <2>5. ~unlinked => FilesKept'
    <3>1. ASSUME FilesKept, NEW e \in Daemon, process'[e].at = "serve"
          PROVE  e \in crossed \/ (pidFile' = e /\ ~SomeAt("rmpid")')
      <4>1. e \in crossed \/ (pidFile = e /\ ~SomeAt("rmpid"))
        BY <2>4, <3>1 DEF FilesKept
      <4>2. CASE pidFile = e /\ ~SomeAt("rmpid")
        <5>1. pidFile' = e /\ at # "rmpid"
          BY <2>1, <2>4, <3>1, <4>2 DEF SomeAt
        <5> QED
          BY <2>3, <4>2, <5>1 DEF SomeAt, ProcessGoes
      <4> QED
        BY <4>1, <4>2
    <3>2. FilesKept => \A e \in holds : process'[e].at = process[e].at
      BY <1>0, <2>2, <2>3 DEF FilesKept, ProcessGoes
    <3>3. SomeAt("drain")' => SomeAt("drain")
      BY <2>4 DEF SomeAt
    <3> QED
      BY <1>0, <2>2, <2>4, <3>1, <3>2, <3>3 DEF FilesKept
  <2>6. ~unlinked => \A e \in Listening' : socket' = e
    BY <1>0, <2>2, <2>4 DEF Listening
  <2> QED
    BY <1>0, <2>1, <2>2, <2>3, <2>5, <2>6, DaemonMoves DEF Over, Listening, ProcessAt
<1>17. ASSUME NEW d \in Daemon, ResetsArtifacts(d) \/ Drains(d) PROVE LifecycleInv'
  <2>1. PICK at \in {"pid", "unpid"} : /\ process' = [process EXCEPT ![d].at = at]
                                       /\ at = "pid" => process[d].at = "reset" /\ holds' = holds
                                       /\ at = "unpid" => process[d].at = "drain" /\ holds' = holds \ {d}
    BY <1>17 DEF ResetsArtifacts, Drains, Moves
  <2>2. UNCHANGED <<socket, pidFile, unlinked, crossed, beside, command>>
    BY <1>17 DEF ResetsArtifacts, Drains, crossings
  <2>3. ProcessGoes(d, at)
    BY <1>0, <2>1, ProcessMoves DEF ProcessAt
  <2>4. \A e \in Daemon : /\ e \in Listening' => e \in Listening
                          /\ process'[e].at \in {"serve", "rmpid"} => process[e].at = process'[e].at
    BY <1>0, <2>1, <2>3 DEF Listening, ProcessGoes
  <2>5. ~unlinked => FilesKept'
    <3>1. FilesKept => \A e \in holds' : process'[e].at \in {"serve", "drain"}
      BY <2>1, <2>3 DEF FilesKept, ProcessGoes
    <3>2. SomeAt("rmpid")' => SomeAt("rmpid")
      BY <2>4 DEF SomeAt
    <3>3. ASSUME ~unlinked, NEW e \in Daemon, process'[e].at = "serve", e \in holds' PROVE e \in beside
      <4>1. process[e].at = "serve" /\ e \in holds
        BY <2>1, <2>4, <3>3
      <4>2. process[d].at = "drain"
        BY <1>a, <2>1, <3>3, <4>1 DEF Listening
      <4> QED
        BY <1>0, <3>3, <4>1, <4>2 DEF FilesKept, SomeAt
    <3> QED
      BY <1>0, <2>2, <2>4, <3>1, <3>2, <3>3 DEF FilesKept
  <2>6. ~unlinked => \A e \in Listening' : socket' = e
    BY <1>0, <2>2, <2>4 DEF Listening
  <2> QED
    BY <1>0, <2>1, <2>2, <2>3, <2>5, <2>6, DaemonMoves DEF Over, Listening, ProcessAt
<1>8. ASSUME NEW c \in Starter, RestartDials(c) PROVE LifecycleInv'
  <2>1. PICK at \in {"spawn", "register"} :
             /\ command' = [command EXCEPT ![c].at = at, ![c].old = Listening]
             /\ at = "spawn" => Reached = NoDaemon
             /\ UNCHANGED <<process, daemonFiles>>
    BY <1>8 DEF RestartDials, daemonFiles
  <2>2. Listening \subseteq Daemon /\ (~unlinked => (Reached = NoDaemon <=> Listening = {}))
    BY ReachesNobody DEF Listening
  <2>3. at \in StarterAt
    BY DEF StarterAt
  <2>4. /\ command' \in [Starter -> [at : StarterAt, pid : Daemon \union {NoDaemon}, old : SUBSET Daemon]]
        /\ command'[c].at = at /\ command'[c].old = Listening
        /\ \A e \in Starter : e # c => command'[e] = command[e]
    BY <1>0, <2>1, <2>2, <2>3
  <2> QED
    BY <1>0, <2>1, <2>2, <2>4 DEF LifecycleInv, Listening, Over, FilesKept, SomeAt, daemonFiles, crossings
<1>9. ASSUME NEW c \in Starter, HostDials(c) PROVE LifecycleInv'
  <2>1. \E at \in {"spawn", "done"} : StarterGoes(c, at)
    <3>1. PICK at \in {"spawn", "done"} : command' = [command EXCEPT ![c].at = at]
      BY <1>9 DEF HostDials, Turns
    <3> QED
      BY <1>0, <3>1, CommandMoves DEF StarterAt
  <2>2. UNCHANGED <<process, daemonFiles>> /\ command[c].at = "none"
    BY <1>9 DEF HostDials, Turns, daemonFiles
  <2> QED
    BY <2>1, <2>2, StarterMoves DEF LifecycleInv, StarterAt
<1>10. ASSUME NEW c \in Starter,
              Reregisters(c) \/ RegisterFails(c) \/ NoPid(c) \/ NoSuchProcess(c) \/ RunsOut(c)
       PROVE  LifecycleInv'
  <2>1. PICK at \in {"readpid", "failed"} : /\ command' = [command EXCEPT ![c].at = at]
                                            /\ UNCHANGED <<process, daemonFiles>>
    BY <1>10 DEF Reregisters, RegisterFails, NoPid, NoSuchProcess, RunsOut, Fails, Turns,
                 daemonFiles
  <2>2. at \in StarterAt /\ StarterGoes(c, at)
    BY <1>0, <2>1, CommandMoves DEF StarterAt
  <2>3. at # "none" /\ at \notin {"spawn", "ping", "await", "started", "done"}
    OBVIOUS
  <2>4. UNCHANGED <<process, daemonFiles>>
    BY <2>1
  <2> HIDE DEF LifecycleTypeOK
  <2> QED
    BY <2>2, <2>3, <2>4, StarterMoves
<1>11. ASSUME NEW c \in Starter, ReadsPid(c) PROVE LifecycleInv'
  <2>1. /\ command' = [command EXCEPT ![c].at = "signal", ![c].pid = pidFile]
        /\ UNCHANGED <<process, daemonFiles>> /\ pidFile # NoDaemon
    BY <1>11 DEF ReadsPid, daemonFiles
  <2>2. /\ command' \in [Starter -> [at : StarterAt, pid : Daemon \union {NoDaemon}, old : SUBSET Daemon]]
        /\ command'[c].at = "signal" /\ command'[c].old = command[c].old
        /\ \A e \in Starter : e # c => command'[e] = command[e]
    BY <1>0, <2>1 DEF StarterAt
  <2>3. "signal" \in StarterAt /\ StarterGoes(c, "signal")
    BY <2>2 DEF StarterGoes, StarterAt
  <2>4. UNCHANGED <<process, daemonFiles>>
    BY <2>1
  <2> HIDE DEF LifecycleTypeOK
  <2> QED
    BY <2>3, <2>4, StarterMoves
<1>12. ASSUME NEW c \in Starter, Terminates(c) PROVE LifecycleInv'
  <2>1. /\ command' = [command EXCEPT ![c].at = "wait"]
        /\ process' = [process EXCEPT ![command[c].pid].told = TRUE]
        /\ UNCHANGED daemonFiles
    BY <1>12 DEF Terminates, Turns, daemonFiles
  <2>2. /\ process' \in [Daemon -> [at : ProcessAt, told : BOOLEAN]]
        /\ \A e \in Daemon : process'[e].at = process[e].at
    <3> DEFINE d == command[c].pid
    <3>1. process \in [Daemon -> [at : ProcessAt, told : BOOLEAN]]
      BY <1>0
    <3>2. process' = [process EXCEPT ![d] = [process[d] EXCEPT !.told = TRUE]]
      BY <2>1, <3>1
    <3> HIDE DEF d
    <3>3. ASSUME NEW e \in Daemon
          PROVE  /\ process'[e] \in [at : ProcessAt, told : BOOLEAN]
                 /\ process'[e].at = process[e].at
      BY <3>1, <3>2
    <3>4. process' = [e \in Daemon |-> process'[e]]
      BY <3>1, <3>2
    <3> QED
      BY <3>3, <3>4
  <2>4. "wait" \in StarterAt /\ StarterGoes(c, "wait")
    BY <1>0, <2>1, CommandMoves DEF StarterAt
  <2>3. Listening' = Listening /\ \A e \in Daemon : Over(e)' <=> Over(e)
    BY <2>2 DEF Listening, Over
  <2> QED
    BY <1>0, <2>1, <2>2, <2>3, <2>4 DEF LifecycleInv, StarterGoes, FilesKept, SomeAt, daemonFiles, crossings
<1>13. ASSUME NEW c \in Starter, FindsItStopped(c) PROVE LifecycleInv'
  <2>1. /\ command' = [command EXCEPT ![c].at = "spawn"] /\ Reached = NoDaemon
        /\ UNCHANGED <<process, daemonFiles>>
    BY <1>13 DEF FindsItStopped, Turns, daemonFiles
  <2>2. unlinked \/ \A e \in command[c].old : Over(e)
    BY <2>1, ReachesNobody DEF LifecycleInv
  <2>3. "spawn" \in StarterAt /\ StarterGoes(c, "spawn")
    BY <1>0, <2>1, CommandMoves DEF StarterAt
  <2> QED
    BY <2>1, <2>2, <2>3, StarterMoves
<1>14. ASSUME NEW c \in Starter, Spawns(c) PROVE LifecycleInv'
  <2> DEFINE new == CHOOSE d \in Unstarted : TRUE
  <2>1. /\ \E at \in {"await", "ping"} : command' = [command EXCEPT ![c].at = at]
        /\ command[c].at = "spawn" /\ new \in Daemon /\ process[new].at = "none"
        /\ process' = [process EXCEPT ![new].at = "lstat"]
        /\ UNCHANGED daemonFiles
    BY <1>14 DEF Spawns, Turns, Unstarted, daemonFiles
  <2> HIDE DEF new
  <2>4. ProcessGoes(new, "lstat") /\ \E at \in {"await", "ping"} : StarterGoes(c, at)
    BY <1>0, <2>1, ProcessMoves, CommandMoves DEF ProcessAt, StarterAt
  <2>2. Listening' = Listening /\ \A e \in Daemon : /\ Over(e)' <=> Over(e)
                                                    /\ process'[e].at = "serve" <=> process[e].at = "serve"
    BY <1>0, <2>1, <2>4 DEF Listening, Over, ProcessGoes
  <2>3. LifecycleTypeOK'
    BY <1>0, <2>1, <2>4 DEF ProcessGoes, StarterGoes, daemonFiles, crossings
  <2>5. ~unlinked => FilesKept'
    <3>1. SomeAt("drain")' => SomeAt("drain")
      BY <2>1, <2>4 DEF SomeAt, ProcessGoes
    <3>2. SomeAt("rmpid")' => SomeAt("rmpid")
      BY <2>1, <2>4 DEF SomeAt, ProcessGoes
    <3>3. FilesKept => \A d \in holds : process'[d] = process[d]
      BY <1>0, <2>1, <2>4 DEF FilesKept, ProcessGoes
    <3> QED
      BY <1>0, <2>1, <2>2, <3>1, <3>2, <3>3 DEF FilesKept, daemonFiles, crossings
  <2> QED
    BY <1>0, <2>1, <2>2, <2>3, <2>4, <2>5 DEF LifecycleInv, StarterGoes, daemonFiles, crossings
<1>15. ASSUME NEW c \in Starter, Answered(c) PROVE LifecycleInv'
  <2>1. PICK at \in {"started", "done"} : /\ command' = [command EXCEPT ![c].at = at]
                                          /\ command[c].at \in {"ping", "await", "started"}
                                          /\ UNCHANGED <<process, daemonFiles>>
    BY <1>15 DEF Answered, Turns, daemonFiles
  <2>2. at \in StarterAt /\ StarterGoes(c, at)
    BY <1>0, <2>1, CommandMoves DEF StarterAt
  <2> QED
    BY <2>1, <2>2, StarterMoves DEF LifecycleInv
<1>16. CASE UNCHANGED lifecycleVars
  BY <1>16 DEF lifecycleVars, LifecycleInv, Listening, Over, FilesKept, SomeAt, daemonFiles, crossings
<1> QED
  BY <1>1, <1>2, <1>3, <1>4, <1>5, <1>6, <1>7, <1>8, <1>9, <1>10, <1>11, <1>12, <1>13, <1>14,
     <1>15, <1>16, <1>17 DEF LifecycleNext

\* Whatever starts, stops, dies and restarts on one home directory, as long as
\* no start has removed the file of a daemon that listens: one daemon listens, has its
\* PID in the file unless that was written between another's look and removal, has its
\* artifacts unless stored beside one that drained, and restarts replace what they found.
THEOREM DaemonsKept == LifecycleSpec => []LifecycleKept
<1>1. ASSUME LifecycleInv PROVE LifecycleKept
  <2>1. CASE ~unlinked
    <3>1. Cardinality(Listening) <= 1
      <4>1. Listening = {} \/ Listening = {socket}
        BY <1>1, <2>1 DEF LifecycleInv
      <4> QED
        BY <4>1, FS_EmptySet, FS_Singleton
    <3>2. \A c \in Restart : command[c].at = "done" => command[c].old \cap Listening = {}
      BY <1>1, <2>1 DEF LifecycleInv, Starter, Over, Listening
    <3> QED
      BY <1>1, <2>1, <3>1, <3>2 DEF LifecycleInv, FilesKept, LifecycleKept
  <2> QED
    BY <2>1 DEF LifecycleKept
<1> QED
  BY <1>1, LifecycleInvInit, LifecycleInvNext, PTL DEF LifecycleSpec

-----------------------------------------------------------------------------
(* The daemon's connections and setup tasks.                                  *)

PeersTypeOK ==
    /\ peers \subseteq Connection
    /\ sockets \in [Connection -> {"none", "shaking", "read", "registered", "leaving",
                                   "refused", "gone"}]
    /\ jobs \in Nat
    /\ tasksRun \subseteq [conn : Connection, id : TaskId, at : {"queued", "working", "finishing"}]
    /\ asked \in [Connection -> Nat] /\ replied \in [Connection -> Nat]
    /\ IsFiniteSet(tasksRun) /\ IsFiniteSet(taskIds)

\* What is known of a connection before it is accepted, and that a connection has
\* at most one task of an id: an id freed is that of no other task.
PeersInv ==
    /\ PeersTypeOK
    /\ PeersBounded
    /\ TasksAccounted
    /\ \A c \in Connection : sockets[c] = "none" =>
         /\ c \notin peers /\ asked[c] = 0 /\ replied[c] = 0
         /\ \A r \in tasksRun : r.conn # c
    /\ \A r, s \in tasksRun : r.conn = s.conn /\ r.id = s.id => r = s

LEMMA LeastOf ==
    ASSUME NEW S, S \subseteq Nat, S # {} PROVE Min(S) \in S
  BY LeastElement DEF Min

LEMMA PeersFinite ==
    ASSUME PeersTypeOK PROVE IsFiniteSet(peers) /\ IsFiniteSet(Registered) /\ IsFiniteSet(Shaking)
<1>1. IsFiniteSet(Connection)
  BY PeerAssumption, FS_Interval DEF Connection
<1> QED
  BY <1>1, FS_Subset DEF PeersTypeOK, Registered, Shaking

LEMMA PeersInvInit == PeersInit => PeersInv
<1> SUFFICES ASSUME PeersInit PROVE PeersInv
  OBVIOUS
<1>1. Cardinality({}) = 0 /\ IsFiniteSet({})
  BY FS_EmptySet
<1>2. PeersTypeOK
  BY <1>1 DEF PeersInit, PeersTypeOK
<1>3. PeersBounded
  BY <1>1, PeerAssumption DEF PeersInit, PeersBounded, Registered, Shaking
<1>4. TasksAccounted
  BY <1>1, PeerAssumption DEF PeersInit, TasksAccounted
<1> QED
  BY <1>2, <1>3, <1>4 DEF PeersInit, PeersInv

\* The tables of the tasks are left alone by what connections do.
LEMMA ConnectionStep ==
    ASSUME PeersInv, UNCHANGED <<jobs, taskIds, tasksRun, asked, replied>>,
           sockets' \in [Connection -> {"none", "shaking", "read", "registered", "leaving",
                                        "refused", "gone"}],
           peers' \subseteq Connection,
           \A c \in peers' : c \in peers \/ sockets[c] = "none",
           \A c \in Connection : sockets'[c] = "none" => sockets[c] = "none" /\ c \notin peers',
           PeersBounded'
    PROVE  PeersInv'
<1>1. PeersTypeOK'
  BY DEF PeersInv, PeersTypeOK
<1>2. \A c \in Connection : sockets[c] = "none" => OwnIds(c) = {}
  BY DEF PeersInv, TasksAccounted, OwnIds
<1>3. \A c \in Connection : sockets[c] = "none" => asked[c] = replied[c] + Cardinality(OwnIds(c))
  BY <1>2, FS_EmptySet DEF PeersInv
<1>4. \A c \in peers' : asked'[c] = replied'[c] + Cardinality(OwnIds(c)')
  BY <1>3 DEF PeersInv, TasksAccounted, OwnIds
<1>5. TasksAccounted'
  BY <1>4 DEF PeersInv, TasksAccounted
<1> QED
  BY <1>1, <1>5 DEF PeersInv

LEMMA PeersInvNext == PeersInv /\ [PeersNext]_peerVars => PeersInv'
<1> SUFFICES ASSUME PeersInv, [PeersNext]_peerVars PROVE PeersInv'
  OBVIOUS
<1>0. /\ PeersTypeOK
      /\ IsFiniteSet(peers) /\ IsFiniteSet(Registered) /\ IsFiniteSet(Shaking)
      /\ Cardinality(Registered) \in Nat /\ Cardinality(Shaking) \in Nat
  BY PeersFinite, FS_CardinalityType DEF PeersInv
<1>1. ASSUME NEW c \in Connection, Accept(c) PROVE PeersInv'
  <2>1. /\ sockets[c] = "none" /\ c \notin peers
        /\ UNCHANGED <<jobs, taskIds, tasksRun, asked, replied>>
    BY <1>1 DEF Accept, PeersInv
  <2>2. CASE sockets' = [sockets EXCEPT ![c] = "gone"] /\ UNCHANGED peers
    <3>1. Registered' = Registered /\ Shaking' = Shaking
      BY <1>0, <2>1, <2>2 DEF PeersTypeOK, Registered, Shaking
    <3>2. PeersBounded'
      BY <1>0, <2>1, <2>2, <3>1 DEF PeersInv, PeersBounded, PeersTypeOK
    <3> QED
      BY <1>0, <2>1, <2>2, <3>2, ConnectionStep DEF PeersTypeOK, PeersInv
  <2>3. CASE /\ sockets' = [sockets EXCEPT ![c] = "shaking"]
             /\ peers' = {c} \union
                  IF Cardinality(Shaking) >= MaxShaking THEN peers \ {Min(Shaking)} ELSE peers
    <3> DEFINE out == IF Cardinality(Shaking) >= MaxShaking THEN {Min(Shaking)} ELSE {}
    <3>1. /\ out \subseteq Shaking /\ peers' = {c} \union (peers \ out)
          /\ Cardinality(Shaking \ out) + 1 <= MaxShaking
          /\ IsFiniteSet(Shaking \ out) /\ Cardinality(Shaking \ out) \in Nat
      <4>1. CASE Cardinality(Shaking) >= MaxShaking
        <5>1. Shaking # {} /\ Shaking \subseteq Nat
          <6>1. Connection \subseteq Nat
            BY PeerAssumption DEF Connection
          <6>2. Shaking \subseteq Nat
            BY <1>0, <6>1 DEF Shaking, PeersTypeOK
          <6>3. Shaking # {}
            BY <4>1, PeerAssumption, FS_EmptySet
          <6> QED
            BY <6>2, <6>3
        <5>2. Min(Shaking) \in Shaking
          BY <5>1, LeastOf
        <5>3. /\ Cardinality(Shaking \ {Min(Shaking)}) = Cardinality(Shaking) - 1
              /\ IsFiniteSet(Shaking \ {Min(Shaking)})
          BY <1>0, <5>2, FS_RemoveElement
        <5>4. Cardinality(Shaking) = MaxShaking
          BY <1>0, <4>1, PeerAssumption DEF PeersInv, PeersBounded
        <5>5. out = {Min(Shaking)} /\ peers' = {c} \union (peers \ out)
          BY <2>3, <4>1
        <5> HIDE DEF out
        <5> QED
          BY <5>2, <5>3, <5>4, <5>5, PeerAssumption
      <4>2. CASE ~(Cardinality(Shaking) >= MaxShaking)
        <5>1. out = {} /\ peers' = {c} \union peers
          BY <2>3, <4>2
        <5>2. Shaking \ out = Shaking /\ peers \ out = peers
          BY <5>1
        <5>3. Cardinality(Shaking) + 1 <= MaxShaking
          BY <1>0, <4>2, PeerAssumption
        <5> HIDE DEF out
        <5> QED
          BY <1>0, <5>1, <5>2, <5>3
      <4> QED
        BY <4>1, <4>2
    <3> HIDE DEF out
    <3>2. Registered' = Registered /\ Shaking' = (Shaking \ out) \union {c}
      BY <1>0, <2>1, <2>3, <3>1 DEF PeersTypeOK, Registered, Shaking
    <3>3. Cardinality(Shaking') <= MaxShaking
      <4>1. c \notin Shaking \ out
        BY <2>1 DEF Shaking
      <4> QED
        BY <3>1, <3>2, <4>1, FS_AddElement
    <3>4. PeersBounded'
      <4>1. \A b \in Connection : sockets'[b] \in {"registered", "leaving"} => b \in peers'
        <5>1. ASSUME NEW b \in Connection, sockets'[b] \in {"registered", "leaving"}
              PROVE  b \in peers \ out
          BY <1>0, <2>1, <2>3, <3>1, <5>1 DEF PeersInv, PeersBounded, PeersTypeOK, Registered, Shaking
        <5> QED
          BY <3>1, <5>1
      <4>2. Cardinality(Registered) <= MaxRegistered
        BY DEF PeersInv, PeersBounded
      <4> QED
        BY <3>2, <3>3, <4>1, <4>2 DEF PeersBounded
    <3> QED
      BY <1>0, <2>1, <2>3, <3>1, <3>4, ConnectionStep DEF PeersTypeOK, PeersInv
  <2> QED
    BY <1>1, <2>2, <2>3 DEF Accept
<1>2. ASSUME NEW c \in Connection,
             ReadsRegistration(c) \/ PeerBreaks(c) \/ PeerDisconnect(c)
      PROVE  PeersInv'
  <2>1. /\ UNCHANGED <<jobs, taskIds, tasksRun, asked, replied>>
        /\ peers' \subseteq peers /\ \A e \in peers \ peers' : e = c /\ sockets'[c] = "gone"
        /\ sockets[c] # "none"
        /\ \E s \in {"read", "refused", "leaving", "gone"} :
             /\ sockets' = [sockets EXCEPT ![c] = s]
             /\ s = "gone" => c \notin peers'
             /\ s = "leaving" => sockets[c] = "registered"
             /\ s \in {"read", "refused"} => sockets[c] = "shaking"
    BY <1>0, <1>2 DEF ReadsRegistration, PeerBreaks, PeerDisconnect, PeersTypeOK
  <2>2. Registered' \subseteq Registered /\ Shaking' \subseteq Shaking
    BY <1>0, <2>1 DEF PeersTypeOK, PeersInv, PeersBounded, Registered, Shaking
  <2>3. Cardinality(Registered') <= Cardinality(Registered) /\ Cardinality(Shaking') <= Cardinality(Shaking)
        /\ Cardinality(Registered') \in Nat /\ Cardinality(Shaking') \in Nat
    BY <1>0, <2>2, FS_Subset, FS_CardinalityType
  <2>4. PeersBounded'
    BY <1>0, <2>1, <2>3, PeerAssumption DEF PeersInv, PeersBounded, PeersTypeOK
  <2> QED
    BY <1>0, <2>1, <2>4, ConnectionStep DEF PeersTypeOK, PeersInv
<1>3. ASSUME NEW c \in Connection, Registers(c) PROVE PeersInv'
  <2>1. /\ UNCHANGED <<peers, jobs, taskIds, tasksRun, asked, replied>> /\ sockets[c] = "read"
        /\ \/ Welcome(c) /\ sockets' = [sockets EXCEPT ![c] = "registered"]
           \/ sockets' = [sockets EXCEPT ![c] = "refused"]
    BY <1>3 DEF Registers
  <2>2. CASE sockets' = [sockets EXCEPT ![c] = "refused"]
    <3>1. Registered' = Registered /\ Shaking' = Shaking
      BY <1>0, <2>1, <2>2 DEF PeersTypeOK, Registered, Shaking
    <3>2. PeersBounded'
      BY <1>0, <2>1, <2>2, <3>1 DEF PeersInv, PeersBounded, PeersTypeOK
    <3> QED
      BY <1>0, <2>1, <2>2, <3>2, ConnectionStep DEF PeersTypeOK, PeersInv
  <2>3. CASE Welcome(c) /\ sockets' = [sockets EXCEPT ![c] = "registered"]
    <3>1. Registered' = Registered \union {c} /\ Shaking' = Shaking \ {c}
      BY <1>0, <2>1, <2>3 DEF PeersTypeOK, Registered, Shaking, Welcome
    <3>2. c \notin Registered /\ c \in Shaking
      BY <2>1, <2>3 DEF Registered, Shaking, Welcome
    <3>3. /\ Cardinality(Registered') = Cardinality(Registered) + 1
          /\ Cardinality(Shaking') = Cardinality(Shaking) - 1
      BY <1>0, <3>1, <3>2, FS_AddElement, FS_RemoveElement
    <3>4. PeersBounded'
      BY <1>0, <2>1, <2>3, <3>3, PeerAssumption DEF PeersInv, PeersBounded, PeersTypeOK, Welcome
    <3> QED
      BY <1>0, <2>1, <2>3, <3>4, ConnectionStep DEF PeersTypeOK, PeersInv
  <2> QED
    BY <2>1, <2>2, <2>3
<1>4. ASSUME NEW c \in Connection, NEW id \in TaskId, SubmitTask(c, id) PROVE PeersInv'
  <2>1. /\ sockets[c] = "registered" /\ UNCHANGED <<peers, sockets>>
        /\ asked' = [asked EXCEPT ![c] = @ + 1] /\ c \in peers
    BY <1>4 DEF SubmitTask, PeersInv, PeersBounded
  <2>2. PeersBounded'
    BY <2>1 DEF PeersInv, PeersBounded, Registered, Shaking
  <2>3. CASE replied' = [replied EXCEPT ![c] = @ + 1] /\ UNCHANGED <<jobs, taskIds, tasksRun>>
    <3>1. PeersTypeOK'
      BY <1>0, <2>1, <2>3 DEF PeersTypeOK
    <3>2. \A e \in peers' : asked'[e] = replied'[e] + Cardinality(OwnIds(e)')
      <4>1. \A e \in Connection : OwnIds(e)' = OwnIds(e) /\ IsFiniteSet(OwnIds(e))
        BY <1>0, <2>3, FS_Subset DEF OwnIds, PeersTypeOK
      <4>2. \A e \in Connection : Cardinality(OwnIds(e)) \in Nat
        BY <4>1, FS_CardinalityType
      <4> QED
        BY <1>0, <2>1, <2>3, <4>1, <4>2 DEF PeersInv, TasksAccounted, PeersTypeOK
    <3>3. TasksAccounted'
      BY <2>3, <3>2 DEF PeersInv, TasksAccounted
    <3> QED
      BY <1>0, <2>1, <2>2, <2>3, <3>1, <3>3 DEF PeersInv, PeersTypeOK
  <2>4. CASE /\ ~(jobs >= MaxJobs) /\ <<c, id>> \notin taskIds
             /\ jobs' = jobs + 1 /\ taskIds' = taskIds \union {<<c, id>>}
             /\ tasksRun' = tasksRun \union {[conn |-> c, id |-> id, at |-> "queued"]}
             /\ UNCHANGED replied
    <3> DEFINE new == [conn |-> c, id |-> id, at |-> "queued"]
    <3>1. new \notin tasksRun /\ \A r \in tasksRun : ~(r.conn = c /\ r.id = id)
      BY <1>0, <2>4 DEF PeersInv, TasksAccounted, PeersTypeOK
    <3>2. /\ Cardinality(tasksRun') = Cardinality(tasksRun) + 1 /\ IsFiniteSet(tasksRun')
          /\ Cardinality(taskIds') = Cardinality(taskIds) + 1 /\ IsFiniteSet(taskIds')
      BY <1>0, <2>4, <3>1, FS_AddElement DEF PeersTypeOK
    <3>3. PeersTypeOK'
      <4>1. new \in [conn : Connection, id : TaskId, at : {"queued", "working", "finishing"}]
        OBVIOUS
      <4>2. asked' \in [Connection -> Nat] /\ jobs' \in Nat
        BY <1>0, <2>1, <2>4 DEF PeersTypeOK
      <4> QED
        BY <1>0, <2>1, <2>4, <3>2, <4>1, <4>2 DEF PeersTypeOK
    <3>4. taskIds' = {<<r.conn, r.id>> : r \in tasksRun'}
      <4>1. tasksRun' = tasksRun \union {new} /\ new.conn = c /\ new.id = id
        BY <2>4
      <4>2. taskIds' = {<<r.conn, r.id>> : r \in tasksRun} \union {<<c, id>>}
        BY <2>4 DEF PeersInv, TasksAccounted
      <4> HIDE DEF new
      <4> QED
        BY <4>1, <4>2
    <3>5. \A e \in peers' : asked'[e] = replied'[e] + Cardinality(OwnIds(e)')
      <4>1. \A e \in Connection : OwnIds(e)' = IF e = c THEN OwnIds(c) \union {<<c, id>>} ELSE OwnIds(e)
        BY <2>4 DEF OwnIds
      <4>2. \A e \in Connection : IsFiniteSet(OwnIds(e)) /\ Cardinality(OwnIds(e)) \in Nat
        BY <1>0, FS_Subset, FS_CardinalityType DEF OwnIds, PeersTypeOK
      <4>3. Cardinality(OwnIds(c)') = Cardinality(OwnIds(c)) + 1
        BY <2>4, <4>1, <4>2, FS_AddElement DEF OwnIds
      <4> QED
        BY <1>0, <2>1, <2>4, <4>1, <4>2, <4>3 DEF PeersInv, TasksAccounted, PeersTypeOK
    <3>6. TasksAccounted'
      BY <1>0, <2>4, <3>2, <3>4, <3>5, PeerAssumption DEF PeersInv, TasksAccounted, PeersTypeOK
    <3> QED
      BY <1>0, <2>1, <2>2, <2>4, <3>1, <3>3, <3>6 DEF PeersInv, PeersTypeOK
  <2> QED
    BY <1>4, <2>3, <2>4 DEF SubmitTask
<1>5. ASSUME NEW run \in tasksRun, TaskStarts(run) \/ TaskWorks(run) PROVE PeersInv'
  <2>1. PICK at \in {"working", "finishing"} : RunMoves(run, at)
    BY <1>5 DEF TaskStarts, TaskWorks
  <2>2. UNCHANGED <<peers, sockets, jobs, taskIds, asked, replied>>
    BY <1>5 DEF TaskStarts, TaskWorks
  <2> DEFINE new == [run EXCEPT !.at = at]
  <2>3. /\ tasksRun' = (tasksRun \ {run}) \union {new}
        /\ new.conn = run.conn /\ new.id = run.id
        /\ new \in [conn : Connection, id : TaskId, at : {"queued", "working", "finishing"}]
    BY <1>0, <2>1 DEF RunMoves, PeersTypeOK
  <2> HIDE DEF new
  <2>4. new \notin tasksRun \ {run}
    BY <1>0, <2>3 DEF PeersInv
  <2>5. Cardinality(tasksRun') = Cardinality(tasksRun) /\ IsFiniteSet(tasksRun')
    <3>1. /\ Cardinality(tasksRun \ {run}) = Cardinality(tasksRun) - 1
          /\ IsFiniteSet(tasksRun \ {run}) /\ Cardinality(tasksRun) \in Nat
      BY <1>0, FS_RemoveElement, FS_CardinalityType DEF PeersTypeOK
    <3>2. Cardinality(tasksRun') = Cardinality(tasksRun \ {run}) + 1 /\ IsFiniteSet(tasksRun')
      BY <2>3, <2>4, <3>1, FS_AddElement
    <3> QED
      BY <3>1, <3>2
  <2>6. PeersTypeOK'
    BY <1>0, <2>2, <2>3, <2>5 DEF PeersTypeOK
  <2>7. {<<r.conn, r.id>> : r \in tasksRun'} = {<<r.conn, r.id>> : r \in tasksRun}
    BY <2>3
  <2>8. TasksAccounted'
    BY <2>2, <2>5, <2>7 DEF PeersInv, TasksAccounted, OwnIds
  <2>9. PeersBounded'
    BY <2>2 DEF PeersInv, PeersBounded, Registered, Shaking
  <2> QED
    BY <2>2, <2>3, <2>4, <2>6, <2>8, <2>9 DEF PeersInv
<1>6. ASSUME NEW run \in tasksRun, TaskFinishes(run) PROVE PeersInv'
  <2> DEFINE key == <<run.conn, run.id>>
  <2>1. /\ tasksRun' = tasksRun \ {run} /\ jobs' = jobs - 1 /\ taskIds' = taskIds \ {key}
        /\ replied' = IF run.conn \in peers THEN [replied EXCEPT ![run.conn] = @ + 1] ELSE replied
        /\ UNCHANGED <<peers, sockets, asked>>
    BY <1>6 DEF TaskFinishes, ReleasesTask
  <2>2. key \in taskIds /\ run.conn \in Connection
    BY <1>0 DEF PeersInv, TasksAccounted, PeersTypeOK
  <2>3. /\ Cardinality(tasksRun') = Cardinality(tasksRun) - 1 /\ IsFiniteSet(tasksRun')
        /\ Cardinality(taskIds') = Cardinality(taskIds) - 1 /\ IsFiniteSet(taskIds')
        /\ Cardinality(tasksRun') \in Nat
    <3>1. IsFiniteSet(tasksRun) /\ IsFiniteSet(taskIds)
      BY <1>0 DEF PeersTypeOK
    <3>2. Cardinality(tasksRun \ {run}) = Cardinality(tasksRun) - 1 /\ IsFiniteSet(tasksRun \ {run})
      BY <3>1, FS_RemoveElement
    <3>3. Cardinality(taskIds \ {key}) = Cardinality(taskIds) - 1 /\ IsFiniteSet(taskIds \ {key})
      BY <2>2, <3>1, FS_RemoveElement
    <3> QED
      BY <2>1, <3>2, <3>3, FS_CardinalityType
  <2>4. PeersTypeOK'
    BY <1>0, <2>1, <2>2, <2>3 DEF PeersTypeOK, PeersInv, TasksAccounted
  <2>5. taskIds' = {<<r.conn, r.id>> : r \in tasksRun'}
    BY <2>1 DEF PeersInv, TasksAccounted
  <2>6. \A e \in peers' : asked'[e] = replied'[e] + Cardinality(OwnIds(e)')
    <3>1. \A e \in Connection : OwnIds(e)' = IF e = run.conn THEN OwnIds(e) \ {key} ELSE OwnIds(e)
      BY <2>1 DEF OwnIds
    <3>2. \A e \in Connection : IsFiniteSet(OwnIds(e)) /\ Cardinality(OwnIds(e)) \in Nat
      BY <1>0, FS_Subset, FS_CardinalityType DEF OwnIds, PeersTypeOK
    <3>3. Cardinality(OwnIds(run.conn)') = Cardinality(OwnIds(run.conn)) - 1
      BY <2>2, <3>1, <3>2, FS_RemoveElement DEF OwnIds
    <3> QED
      BY <1>0, <2>1, <2>2, <3>1, <3>2, <3>3 DEF PeersInv, TasksAccounted, PeersTypeOK
  <2>7. TasksAccounted'
    BY <1>0, <2>1, <2>3, <2>5, <2>6, PeerAssumption DEF PeersInv, TasksAccounted, PeersTypeOK
  <2>8. PeersBounded'
    BY <2>1 DEF PeersInv, PeersBounded, Registered, Shaking
  <2>9. \A c \in Connection : sockets[c] = "none" => c # run.conn
    BY DEF PeersInv
  <2> QED
    BY <1>0, <2>1, <2>4, <2>7, <2>8, <2>9 DEF PeersInv, PeersTypeOK
<1>7. CASE UNCHANGED peerVars
  BY <1>7 DEF peerVars, PeersInv, PeersTypeOK, PeersBounded, TasksAccounted, Registered, Shaking, OwnIds
<1> QED
  BY <1>1, <1>2, <1>3, <1>4, <1>5, <1>6, <1>7 DEF PeersNext

\* Whatever connects, registers and leaves while setup tasks run.
THEOREM PeersCounted == PeersSpec => []PeersAccounted
<1>1. PeersInv => PeersAccounted
  BY DEF PeersInv, PeersAccounted
<1> QED
  BY <1>1, PeersInvInit, PeersInvNext, PTL DEF PeersSpec

-----------------------------------------------------------------------------
(* Requests for access.                                                       *)

PromptTypeOK ==
    /\ access \in [on : BrowserWindow \union {NoTarget}, enabling : BrowserWindow \union {NoTarget},
                   pending : BrowserWindow \union {NoTarget}, popup : Asker \union {NoTarget}]
    /\ accessAsks \in [Asker -> [at : {"unused", "asked", "denied", "looking", "queued", "reusing",
                                       "creating", "done"},
                                 target : BrowserWindow \union {NoTarget}]]
    /\ prompts \subseteq Asker
    /\ desk \in [open : SUBSET BrowserWindow, panels : SUBSET BrowserWindow, foreground : BOOLEAN,
                 events : SUBSET (BrowserWindow \union Asker)]
    /\ asksPast \in [orphans : SUBSET Asker, overlapped : BOOLEAN, late : BOOLEAN]

\* A prompt is opened once, so that one that was closed is not on the screen when
\* its event comes; unless requests overlap one is in hand, and one that goes on to
\* open a prompt has seen that there is none.
PromptsInv ==
    /\ PromptTypeOK
    /\ PromptsKept
    /\ \A p \in desk.events : p \notin prompts
    /\ \A a \in Asker : a \in prompts \/ a \in desk.events => accessAsks[a].at = "done"
    /\ ~asksPast.overlapped =>
         /\ \A a, b \in Asker : InHand(a) /\ InHand(b) => a = b
         /\ \A a \in Asker : accessAsks[a].at = "creating" => access.popup = NoTarget

LEMMA PromptsInvInit == PromptInit => PromptsInv
  BY PromptAssumption DEF PromptInit, PromptsInv, PromptTypeOK, PromptsKept, InHand, FreshAccess, NoPrompt

LEMMA PromptsInvNext == PromptsInv /\ [PromptNext]_promptVars => PromptsInv'
<1> SUFFICES ASSUME PromptsInv, [PromptNext]_promptVars PROVE PromptsInv'
  OBVIOUS
<1> USE PromptAssumption DEF PromptsInv, PromptTypeOK, PromptsKept, InHand, Step, NoPrompt, FreshAccess
<1>1. ASSUME NEW a \in Asker, NEW explicit \in BOOLEAN, Asks(a, explicit) PROVE PromptsInv'
  BY <1>1 DEF Asks
<1>2. ASSUME NEW a \in Asker, NEW w \in BrowserWindow \union {NoTarget}, Resolves(a, w) PROVE PromptsInv'
  <2>1. PICK at \in {"looking", "done"} :
             /\ accessAsks' = [accessAsks EXCEPT ![a] = [at |-> at, target |-> w]]
             /\ asksPast' = [asksPast EXCEPT !.overlapped =
                   @ \/ (at = "looking" /\ \E b \in Asker \ {a} : InHand(b))]
             /\ accessAsks[a].at \in {"asked", "denied"}
             /\ UNCHANGED <<access, prompts, desk>>
    <3> HIDE DEF InHand, PromptsInv
    <3> QED
      BY <1>2 DEF Resolves
  <2>2. PromptTypeOK'
    <3> DEFINE overlaps == at = "looking" /\ \E b \in Asker \ {a} : InHand(b)
    <3>1. asksPast' = [asksPast EXCEPT !.overlapped = @ \/ overlaps]
      BY <2>1
    <3> HIDE DEF overlaps
    <3>2. asksPast' \in [orphans : SUBSET Asker, overlapped : BOOLEAN, late : BOOLEAN]
      BY <3>1
    <3>3. accessAsks' \in [Asker -> [at : {"unused", "asked", "denied", "looking", "queued", "reusing",
                                          "creating", "done"},
                                    target : BrowserWindow \union {NoTarget}]]
      <4>1. [at |-> at, target |-> w] \in [at : {"unused", "asked", "denied", "looking", "queued",
                                                "reusing", "creating", "done"},
                                          target : BrowserWindow \union {NoTarget}]
        OBVIOUS
      <4> HIDE DEF InHand
      <4> QED
        BY <2>1, <4>1
    <3>4. access' = access /\ prompts' = prompts /\ desk' = desk
      BY <2>1
    <3> HIDE DEF InHand, PromptsKept
    <3> QED
      BY <3>2, <3>3, <3>4
  <2>3. ~asksPast'.overlapped => \A b, c \in Asker : InHand(b)' /\ InHand(c)' => b = c
    <3>1. /\ \A b \in Asker \ {a} : InHand(b)' <=> InHand(b)
          /\ InHand(a)' => at = "looking"
          /\ ~InHand(a)
      BY <2>1
    <3>2. ~asksPast'.overlapped =>
             /\ ~asksPast.overlapped
             /\ at = "looking" => \A b \in Asker \ {a} : ~InHand(b)
      <4> HIDE DEF InHand
      <4> DEFINE overlaps == at = "looking" /\ \E b \in Asker \ {a} : InHand(b)
      <4>1. asksPast' = [asksPast EXCEPT !.overlapped = @ \/ overlaps]
        BY <2>1
      <4>2. ~overlaps => (at = "looking" => \A b \in Asker \ {a} : ~InHand(b))
        OBVIOUS
      <4> HIDE DEF overlaps
      <4> QED
        BY <4>1, <4>2
    <3>3. ~asksPast.overlapped => \A b, c \in Asker : InHand(b) /\ InHand(c) => b = c
      OBVIOUS
    <3> HIDE DEF InHand, PromptsInv, PromptTypeOK
    <3> QED
      BY <3>1, <3>2, <3>3
  <2>4. ~asksPast'.overlapped => \A b \in Asker : accessAsks'[b].at = "creating" => access'.popup = NoTarget
    BY <2>1
  <2>5. PromptsKept'
    BY <2>1
  <2> QED
    BY <2>1, <2>2, <2>3, <2>4, <2>5
<1>3. ASSUME NEW a \in Asker, FindsBackground(a) \/ ShowsPanel(a) \/ Reuses(a) \/ CannotCreate(a) PROVE PromptsInv'
  <2>1. /\ accessAsks[a].at \in {"looking", "queued", "reusing", "creating"}
        /\ accessAsks' = [accessAsks EXCEPT ![a].at = "done"]
        /\ UNCHANGED <<access, prompts, desk, asksPast>>
    <3> HIDE DEF PromptsInv
    <3> QED
      BY <1>3 DEF FindsBackground, ShowsPanel, Reuses, CannotCreate
  <2> QED
    BY <2>1
<1>4. ASSUME NEW a \in Asker, Queues(a) PROVE PromptsInv'
  <2> DEFINE w == accessAsks[a].target
  <2>1. /\ accessAsks[a].at = "looking"
        /\ accessAsks' = [accessAsks EXCEPT ![a].at = "queued"]
        /\ access' = [access EXCEPT !.pending = w]
        /\ asksPast' = [asksPast EXCEPT !.late =
              @ \/ w \notin desk.open \/ {access.on, access.enabling} # {NoTarget}]
        /\ UNCHANGED <<prompts, desk>>
    BY <1>4 DEF Queues
  <2>2. w \in BrowserWindow \union {NoTarget}
    OBVIOUS
  <2> HIDE DEF w
  <2>3. /\ access' \in [on : BrowserWindow \union {NoTarget}, enabling : BrowserWindow \union {NoTarget},
                        pending : BrowserWindow \union {NoTarget}, popup : Asker \union {NoTarget}]
        /\ access'.pending = w /\ access'.on = access.on /\ access'.enabling = access.enabling
        /\ access'.popup = access.popup
    BY <2>1, <2>2
  <2>4. /\ accessAsks' \in [Asker -> [at : {"unused", "asked", "denied", "looking", "queued", "reusing",
                                           "creating", "done"},
                                     target : BrowserWindow \union {NoTarget}]]
        /\ accessAsks'[a].at = "queued" /\ \A b \in Asker : b # a => accessAsks'[b] = accessAsks[b]
    BY <2>1
  <2>5. /\ asksPast' \in [orphans : SUBSET Asker, overlapped : BOOLEAN, late : BOOLEAN]
        /\ asksPast'.overlapped = asksPast.overlapped /\ asksPast'.orphans = asksPast.orphans
        /\ ~asksPast'.late => /\ ~asksPast.late /\ w \in desk.open
                              /\ access.on = NoTarget /\ access.enabling = NoTarget
    <3> DEFINE late == w \notin desk.open \/ {access.on, access.enabling} # {NoTarget}
    <3>1. asksPast' = [asksPast EXCEPT !.late = @ \/ late]
      BY <2>1
    <3>2. ~late => w \in desk.open /\ access.on = NoTarget /\ access.enabling = NoTarget
      OBVIOUS
    <3> HIDE DEF late
    <3>3. /\ asksPast' \in [orphans : SUBSET Asker, overlapped : BOOLEAN, late : BOOLEAN]
          /\ asksPast'.overlapped = asksPast.overlapped /\ asksPast'.orphans = asksPast.orphans
          /\ ~asksPast'.late => ~asksPast.late /\ ~late
      BY <3>1
    <3> QED
      BY <3>2, <3>3
  <2>6. PromptsKept'
    BY <2>1, <2>3, <2>5
  <2>7. PromptTypeOK'
    <3> HIDE DEF PromptsInv, PromptsKept
    <3> QED
      BY <2>1, <2>3, <2>4, <2>5 DEF PromptsInv
  <2>8. \A b \in Asker : b \in prompts' \/ b \in desk'.events => accessAsks'[b].at = "done"
    BY <2>1, <2>4
  <2>9. ~asksPast'.overlapped =>
          /\ \A b, c \in Asker : InHand(b)' /\ InHand(c)' => b = c
          /\ \A b \in Asker : accessAsks'[b].at = "creating" => access'.popup = NoTarget
    <3>1. \A b \in Asker : InHand(b)' <=> InHand(b)
      BY <2>1, <2>4
    <3> QED
      BY <2>1, <2>3, <2>4, <2>5, <3>1
  <2>10. \A p \in desk'.events : p \notin prompts'
    BY <2>1
  <2> HIDE DEF PromptTypeOK, PromptsKept, InHand
  <2> QED
    BY <2>6, <2>7, <2>8, <2>9, <2>10
<1>5. ASSUME NEW a \in Asker, ChoosesPrompt(a) PROVE PromptsInv'
  BY <1>5 DEF ChoosesPrompt
<1>6. ASSUME NEW a \in Asker, CannotReuse(a) PROVE PromptsInv'
  BY <1>6 DEF CannotReuse
<1>7. ASSUME NEW a \in Asker, Creates(a) PROVE PromptsInv'
  BY <1>7 DEF Creates
<1>8. ASSUME NEW a \in Asker, ClosesPrompt(a) PROVE PromptsInv'
  BY <1>8 DEF ClosesPrompt
<1>9. ASSUME NEW a \in Asker, PromptGone(a) PROVE PromptsInv'
  BY <1>9 DEF PromptGone
<1>10. ASSUME NEW w \in BrowserWindow, SwitchedOn(w) PROVE PromptsInv'
  BY <1>10 DEF SwitchedOn
<1>11. ASSUME NEW w \in BrowserWindow, SwitchedOff(w) PROVE PromptsInv'
  <2>1. /\ access' \in [on : BrowserWindow \union {NoTarget}, enabling : BrowserWindow \union {NoTarget},
                        pending : BrowserWindow \union {NoTarget}, popup : Asker \union {NoTarget}]
        /\ access'.popup = access.popup /\ access'.enabling = access.enabling
        /\ access'.on \in {access.on, NoTarget} /\ access'.pending \in {access.pending, NoTarget}
        /\ UNCHANGED <<accessAsks, prompts, desk, asksPast>>
    BY <1>11 DEF SwitchedOff, Withdrawn
  <2> QED
    BY <2>1
<1>12. ASSUME NEW w \in BrowserWindow, ClosesWindow(w) PROVE PromptsInv'
  <2>1. /\ desk' \in [open : SUBSET BrowserWindow, panels : SUBSET BrowserWindow, foreground : BOOLEAN,
                      events : SUBSET (BrowserWindow \union Asker)]
        /\ desk'.events = desk.events \union {w} /\ desk'.open = desk.open \ {w}
        /\ UNCHANGED <<access, accessAsks, prompts, asksPast>>
    BY <1>12 DEF ClosesWindow
  <2> QED
    BY <2>1
<1>13. ASSUME NEW w \in BrowserWindow, WindowGone(w) PROVE PromptsInv'
  <2>1. /\ access' \in [on : BrowserWindow \union {NoTarget}, enabling : BrowserWindow \union {NoTarget},
                        pending : BrowserWindow \union {NoTarget}, popup : Asker \union {NoTarget}]
        /\ access'.popup = access.popup /\ access'.enabling = access.enabling
        /\ access'.on \in {access.on, NoTarget}
        /\ access'.pending = IF access.pending = w THEN NoTarget ELSE access.pending
    BY <1>13 DEF WindowGone, Withdrawn
  <2>2. /\ desk' \in [open : SUBSET BrowserWindow, panels : SUBSET BrowserWindow, foreground : BOOLEAN,
                      events : SUBSET (BrowserWindow \union Asker)]
        /\ desk'.events = desk.events \ {w} /\ desk'.open = desk.open
        /\ UNCHANGED <<accessAsks, prompts, asksPast>>
    BY <1>13 DEF WindowGone
  <2> QED
    BY <2>1, <2>2
<1>14. ASSUME NEW w \in BrowserWindow, TogglesPanel(w) PROVE PromptsInv'
  BY <1>14 DEF TogglesPanel
<1>15. CASE GrantStored
  BY <1>15 DEF GrantStored
<1>16. CASE LeavesBrowser
  BY <1>16 DEF LeavesBrowser
<1>17. CASE StartsAgain
  <2>1. /\ access' = [FreshAccess EXCEPT !.on = access.on]
        /\ asksPast' = [asksPast EXCEPT !.orphans = @ \union prompts]
        /\ UNCHANGED <<prompts, desk>>
        /\ accessAsks' = [a \in Asker |-> [accessAsks[a] EXCEPT !.at = IF @ = "unused" THEN @ ELSE "done"]]
    BY <1>17 DEF StartsAgain
  <2>2. /\ access' \in [on : BrowserWindow \union {NoTarget}, enabling : BrowserWindow \union {NoTarget},
                        pending : BrowserWindow \union {NoTarget}, popup : Asker \union {NoTarget}]
        /\ access'.pending = NoTarget /\ access'.popup = NoTarget
    BY <2>1
  <2>3. /\ accessAsks' \in [Asker -> [at : {"unused", "asked", "denied", "looking", "queued", "reusing",
                                           "creating", "done"},
                                     target : BrowserWindow \union {NoTarget}]]
        /\ \A a \in Asker : /\ accessAsks'[a].at \in {"unused", "done"}
                            /\ accessAsks[a].at = "done" => accessAsks'[a].at = "done"
    <3>1. ASSUME NEW a \in Asker
          PROVE  /\ accessAsks'[a] \in [at : {"unused", "done"}, target : BrowserWindow \union {NoTarget}]
                 /\ accessAsks[a].at = "done" => accessAsks'[a].at = "done"
      <4>1. accessAsks'[a] = [at |-> IF accessAsks[a].at = "unused" THEN "unused" ELSE "done",
                              target |-> accessAsks[a].target]
        BY <2>1
      <4> QED
        BY <4>1
    <3>2. accessAsks' = [a \in Asker |-> accessAsks'[a]]
      BY <2>1
    <3> QED
      BY <3>1, <3>2
  <2>4. /\ asksPast' \in [orphans : SUBSET Asker, overlapped : BOOLEAN, late : BOOLEAN]
        /\ asksPast'.orphans = asksPast.orphans \union prompts
    BY <2>1
  <2>5. PromptsKept'
    BY <2>1, <2>2, <2>4
  <2> QED
    BY <2>1, <2>2, <2>3, <2>4, <2>5
<1>18. CASE UNCHANGED promptVars
  BY <1>18 DEF promptVars
<1> HIDE DEF PromptsInv, PromptTypeOK, PromptsKept, InHand, Step, NoPrompt, FreshAccess
<1> QED
  BY <1>1, <1>2, <1>3, <1>4, <1>5, <1>6, <1>7, <1>8, <1>9, <1>10, <1>11, <1>12, <1>13, <1>14,
     <1>15, <1>16, <1>17, <1>18 DEF PromptNext

\* Whatever is asked for and whatever the user does with windows and prompts.
THEOREM PromptsStayKept == PromptSpec => []PromptsKept
<1>1. PromptsInv => PromptsKept
  BY DEF PromptsInv
<1> QED
  BY <1>1, PromptsInvInit, PromptsInvNext, PTL DEF PromptSpec

-----------------------------------------------------------------------------
(* Window actions.                                                            *)

ActionLetter == [kind : {"request", "response", "command", "result"}, act : Action]
AccessLetter == [kind : {"access"}, act : Browser, grant : Nat]

ActionsTypeOK ==
    /\ present \subseteq Browser
    /\ granted \in [Browser -> Nat]
    /\ window \in [Browser -> Nat]
    /\ asks \in [Action -> [by : Browser \union {"none"}, target : Browser \union {"none"},
                            disable : BOOLEAN, of : Nat, at : {"none", "waiting", "settled"}]]
    /\ routed \subseteq Action
    /\ mail \subseteq ActionLetter \union AccessLetter
    /\ applying \in [Action -> {"no", "yes", "unheard"}]
    /\ answers \in [Action -> Nat]

\* An action that was not asked has left no trace; one on its way to the daemon is
\* not routed, has no answer and a source that is connected; nor has one that is
\* routed an answer.
ActionsInv ==
    /\ ActionsTypeOK
    /\ ActionsAnswered
    /\ \A l \in mail \intersect ActionLetter : asks[l.act].at # "none"
    /\ \A l \in mail \intersect ActionLetter : l.kind = "request" =>
         l.act \notin routed /\ answers[l.act] = 0 /\ asks[l.act].by \in present
    /\ \A a \in routed : answers[a] = 0 /\ asks[a].at # "none"
    /\ \A a \in Action : asks[a].at = "none" => answers[a] = 0 /\ applying[a] = "no"
    /\ \A hit \in hits : hit[1] \in Action /\ asks[hit[1]].at # "none"

LEMMA LettersKnown ==
    ASSUME ActionsTypeOK, NEW l \in mail
    PROVE  /\ l.kind \in {"request", "response", "command", "result"} <=> l \in ActionLetter
           /\ l.kind = "access" <=> l \in AccessLetter
           /\ l \in ActionLetter => l.act \in Action /\ l = Letter(l.kind, l.act)
  BY DEF ActionsTypeOK, ActionLetter, AccessLetter, Letter

LEMMA LetterIs ==
    ASSUME NEW a \in Action, NEW k \in {"request", "response", "command", "result"}
    PROVE  Letter(k, a) \in ActionLetter /\ Letter(k, a).kind = k /\ Letter(k, a).act = a
  BY DEF Letter, ActionLetter

LEMMA TellIs ==
    ASSUME NEW b \in Browser, NEW w \in Nat
    PROVE  Tell(b, w) \in AccessLetter /\ Tell(b, w) \notin ActionLetter
  BY DEF Tell, AccessLetter, ActionLetter

\* What stays of an action when it is settled.
Settling(some) ==
    /\ asks' \in [Action -> [by : Browser \union {"none"}, target : Browser \union {"none"},
                             disable : BOOLEAN, of : Nat, at : {"none", "waiting", "settled"}]]
    /\ \A a \in Action :
         /\ asks'[a].by = asks[a].by /\ asks'[a].target = asks[a].target
         /\ asks'[a].of = asks[a].of
         /\ asks'[a].at = "none" <=> asks[a].at = "none"
         /\ asks'[a].at = "waiting" <=> asks[a].at = "waiting" /\ a \notin some

LEMMA SettledIs ==
    ASSUME ActionsTypeOK, NEW some, asks' = Settled(some)
    PROVE  Settling(some)
<1>1. ASSUME NEW a \in Action
      PROVE  /\ asks'[a] \in [by : Browser \union {"none"}, target : Browser \union {"none"},
                              disable : BOOLEAN, of : Nat, at : {"none", "waiting", "settled"}]
             /\ asks'[a].by = asks[a].by /\ asks'[a].target = asks[a].target
             /\ asks'[a].of = asks[a].of
             /\ asks'[a].at = "none" <=> asks[a].at = "none"
             /\ asks'[a].at = "waiting" <=> asks[a].at = "waiting" /\ a \notin some
  <2>1. asks'[a] = IF a \in some /\ asks[a].at = "waiting"
                   THEN [asks[a] EXCEPT !.at = "settled"] ELSE asks[a]
    BY DEF Settled
  <2> QED
    BY <2>1 DEF ActionsTypeOK
<1>2. asks' = [a \in Action |-> asks'[a]]
  BY DEF Settled
<1> QED
  BY <1>1, <1>2 DEF Settling

\* What is finished is answered when its source is connected.
Finishing(some, rest) ==
    /\ routed' = routed \ some
    /\ answers' \in [Action -> Nat]
    /\ \A a \in Action : a \notin routed \intersect some => answers'[a] = answers[a]
    /\ \A a \in routed : answers'[a] <= 1
    /\ rest \subseteq mail'
    /\ \A l \in mail' \ rest : \E a \in routed \intersect some : l = Letter("response", a)
    /\ \A a \in routed \intersect some : asks[a].by \in present' => Letter("response", a) \in mail'

LEMMA FinishesIs ==
    ASSUME ActionsInv, NEW some, NEW rest, Finishes(some, rest)
    PROVE  Finishing(some, rest)
<1> DEFINE heard == {a \in some \intersect routed : asks[a].by \in present'}
<1>1. /\ routed' = routed \ some
      /\ answers' = [a \in Action |-> answers[a] + IF a \in heard THEN 1 ELSE 0]
      /\ mail' = rest \union {Letter("response", a) : a \in heard}
  BY DEF Finishes
<1>2. /\ \A a \in heard : a \in routed \intersect some
      /\ \A a \in routed \intersect some : asks[a].by \in present' => a \in heard
  OBVIOUS
<1> HIDE DEF heard
<1>3. answers \in [Action -> Nat] /\ routed \subseteq Action /\ \A a \in routed : answers[a] = 0
  BY DEF ActionsInv, ActionsTypeOK
<1>4. answers' \in [Action -> Nat] /\ \A a \in Action : answers'[a] = answers[a] + IF a \in heard THEN 1 ELSE 0
  BY <1>1, <1>3
<1> QED
  BY <1>1, <1>2, <1>3, <1>4 DEF Finishing

LEMMA ActionsInvInit == ActionsInit => ActionsInv
  BY DEF ActionsInit, ActionsInv, ActionsTypeOK, ActionsAnswered, Unasked

\* The end of an action's way through the daemon, from its result, its timer or a
\* lost connection.
LEMMA FinishStep ==
    ASSUME ActionsInv, NEW some, NEW rest, Finishing(some, rest), NEW gone, Settling(gone),
           present' \subseteq present, rest \subseteq mail,
           \A a \in routed \ some : {asks[a].by, asks[a].target} \subseteq present',
           \A l \in rest \intersect ActionLetter : l.kind = "request" => asks[l.act].by \in present',
           \A l \in mail \intersect ActionLetter :
               l.kind \in {"request", "response"} /\ asks[l.act].at = "waiting" /\ l.act \notin gone =>
                   l \in rest,
           \A a \in routed \intersect some :
               asks[a].at = "waiting" /\ a \notin gone => asks[a].by \in present',
           applying' \in [Action -> {"no", "yes", "unheard"}],
           \A a \in Action : applying[a] = "no" => applying'[a] = "no",
           UNCHANGED <<window, granted, hits>>
    PROVE  ActionsInv'
<1>0. ActionsTypeOK
  BY DEF ActionsInv
<1>1. \A l \in mail' : l \in rest \/ \E a \in routed \intersect some : l = Letter("response", a)
  BY DEF Finishing
<1>2. ActionsTypeOK'
  <2>1. \A a \in routed : Letter("response", a) \in ActionLetter
    BY <1>0, LetterIs DEF ActionsTypeOK
  <2>2. mail' \subseteq ActionLetter \union AccessLetter
    BY <1>0, <1>1, <2>1 DEF ActionsTypeOK
  <2> QED
    BY <1>0, <2>2 DEF ActionsTypeOK, Finishing, Settling
<1>3. \A l \in mail' \intersect ActionLetter :
         /\ asks'[l.act].at # "none"
         /\ l.kind = "request" =>
              l.act \notin routed' /\ answers'[l.act] = 0 /\ asks'[l.act].by \in present'
  <2> TAKE l \in mail' \intersect ActionLetter
  <2>1. l.act \in Action
    BY DEF ActionLetter
  <2>2. CASE l \in rest
    BY <1>0, <2>1, <2>2 DEF ActionsInv, Settling, Finishing, ActionsTypeOK
  <2>3. CASE \E a \in routed \intersect some : l = Letter("response", a)
    <3> PICK a \in routed \intersect some : l = Letter("response", a)
      BY <2>3
    <3>1. l.kind = "response" /\ l.act = a /\ a \in Action
      BY <1>0, LetterIs DEF ActionsTypeOK
    <3> QED
      BY <3>1 DEF ActionsInv, Settling
  <2> QED
    BY <1>1, <2>2, <2>3
<1>4. \A a \in Action : asks'[a].at = "waiting" => a \in routed' \/ UnderWay(a)'
  <2> SUFFICES ASSUME NEW a \in Action, asks'[a].at = "waiting", a \notin routed'
               PROVE  UnderWay(a)'
    OBVIOUS
  <2>1. asks[a].at = "waiting" /\ a \notin gone
    BY DEF Settling
  <2>2. CASE a \in routed
    <3>1. Letter("response", a) \in mail'
      BY <2>1, <2>2 DEF Finishing
    <3>2. Letter("response", a).kind = "response" /\ Letter("response", a).act = a
      BY LetterIs
    <3> QED
      BY <3>1, <3>2 DEF UnderWay
  <2>3. CASE a \notin routed
    <3>1. PICK l \in mail : l.kind \in {"request", "response"} /\ l.act = a
      BY <2>1, <2>3 DEF ActionsInv, ActionsAnswered, UnderWay
    <3>2. l \in ActionLetter
      BY <1>0, <3>1, LettersKnown
    <3>3. l \in mail'
      BY <2>1, <3>1, <3>2 DEF Finishing
    <3> QED
      BY <3>1, <3>3 DEF UnderWay
  <2> QED
    BY <2>2, <2>3
<1>5. /\ \A a \in Action : answers'[a] <= 1
      /\ \A a \in routed' : {asks'[a].by, asks'[a].target} \subseteq present'
      /\ \A a \in routed' : answers'[a] = 0 /\ asks'[a].at # "none"
      /\ \A a \in Action : asks'[a].at = "none" => answers'[a] = 0 /\ applying'[a] = "no"
  BY <1>0 DEF ActionsInv, ActionsAnswered, Finishing, Settling, ActionsTypeOK
<1>6. \A hit \in hits' : hit[1] \in Action /\ asks'[hit[1]].at # "none" /\ hit[2] = asks'[hit[1]].of
  BY DEF ActionsInv, ActionsAnswered, Settling
<1> QED
  BY <1>2, <1>3, <1>4, <1>5, <1>6 DEF ActionsInv, ActionsAnswered

\* The asks are left alone: what letters there are, and what the new ones say.
LEMMA MailStep ==
    ASSUME ActionsInv, UNCHANGED <<present, asks>>, ActionsTypeOK',
           \A a \in Action : answers'[a] = answers[a] \/ (answers[a] = 0 /\ answers'[a] = 1 /\ a \notin routed'),
           \A a \in routed' : a \in routed \/
              /\ answers'[a] = 0 /\ asks[a].at # "none"
              /\ {asks[a].by, asks[a].target} \subseteq present,
           \A l \in mail' \intersect ActionLetter :
              \/ l \in mail /\ (l.kind = "request" => l.act \notin routed' /\ answers'[l.act] = answers[l.act])
              \/ l.kind # "request" /\ asks[l.act].at # "none",
           \A a \in Action : a \in routed \/ UnderWay(a) => a \in routed' \/ UnderWay(a)',
           \A a \in Action : asks[a].at = "none" => answers'[a] = answers[a] /\ applying'[a] = applying[a],
           \A a \in routed' : a \in routed => answers'[a] = answers[a],
           \A hit \in hits' : hit \in hits \/
              (hit[1] \in Action /\ asks[hit[1]].at # "none" /\ hit[2] = asks[hit[1]].of)
    PROVE  ActionsInv'
<1>1. \A a \in Action : answers'[a] <= 1
  BY DEF ActionsInv, ActionsAnswered
<1>2. \A a \in Action : asks'[a].at = "waiting" => a \in routed' \/ UnderWay(a)'
  BY DEF ActionsInv, ActionsAnswered
<1>3. \A a \in routed' : {asks'[a].by, asks'[a].target} \subseteq present'
  BY DEF ActionsInv, ActionsAnswered
<1>4. \A hit \in hits' : hit[1] \in Action /\ asks'[hit[1]].at # "none" /\ hit[2] = asks'[hit[1]].of
  BY DEF ActionsInv, ActionsAnswered
<1>5. \A l \in mail' \intersect ActionLetter : asks'[l.act].at # "none"
  BY DEF ActionsInv
<1>6. \A l \in mail' \intersect ActionLetter : l.kind = "request" =>
         l.act \notin routed' /\ answers'[l.act] = 0 /\ asks'[l.act].by \in present'
  BY DEF ActionsInv
<1>7. \A a \in routed' : answers'[a] = 0 /\ asks'[a].at # "none"
  BY DEF ActionsInv, ActionsAnswered
<1>8. \A a \in Action : asks'[a].at = "none" => answers'[a] = 0 /\ applying'[a] = "no"
  BY DEF ActionsInv
<1> QED
  BY <1>1, <1>2, <1>3, <1>4, <1>5, <1>6, <1>7, <1>8 DEF ActionsInv, ActionsAnswered

LEMMA ActionsInvNext == ActionsInv /\ [ActionsNext]_actionVars => ActionsInv'
<1> SUFFICES ASSUME ActionsInv, [ActionsNext]_actionVars PROVE ActionsInv'
  OBVIOUS
<1>0. ActionsTypeOK
  BY DEF ActionsInv
<1>1. ASSUME NEW a \in Action, NEW b \in Browser, NEW t \in Browser, NEW disable \in BOOLEAN,
             Press(a, b, t, disable)
      PROVE  ActionsInv'
  <2>1. PICK of \in 1..granted[t] :
           asks' = [asks EXCEPT ![a] = [by |-> b, target |-> t, disable |-> disable,
                                        of |-> of, at |-> "waiting"]]
    BY <1>1 DEF Press
  <2>2. /\ asks[a].at = "none" /\ b \in present
        /\ mail' = mail \union {Letter("request", a)}
        /\ UNCHANGED <<present, window, granted, routed, applying, answers, hits>>
    BY <1>1 DEF Press
  <2>3. of \in Nat
    <3>1. granted[t] \in Nat
      BY <1>0 DEF ActionsTypeOK
    <3> QED
      BY <3>1
  <2>4. /\ asks' \in [Action -> [by : Browser \union {"none"}, target : Browser \union {"none"},
                                 disable : BOOLEAN, of : Nat, at : {"none", "waiting", "settled"}]]
        /\ asks'[a].by = b /\ asks'[a].at = "waiting"
        /\ \A c \in Action : c # a => asks'[c] = asks[c]
    <3>1. [by |-> b, target |-> t, disable |-> disable, of |-> of, at |-> "waiting"] \in
             [by : Browser \union {"none"}, target : Browser \union {"none"},
              disable : BOOLEAN, of : Nat, at : {"none", "waiting", "settled"}]
      BY <2>3
    <3> QED
      BY <1>0, <2>1, <3>1 DEF ActionsTypeOK
  <2>5. /\ Letter("request", a) \in ActionLetter /\ Letter("request", a).kind = "request"
        /\ Letter("request", a).act = a
    BY LetterIs
  <2>6. ActionsTypeOK'
    BY <1>0, <2>2, <2>4, <2>5 DEF ActionsTypeOK
  <2>7. /\ a \notin routed /\ answers[a] = 0 /\ \A l \in mail \intersect ActionLetter : l.act # a
        /\ \A hit \in hits : hit[1] # a
    BY <2>2 DEF ActionsInv
  <2>8. \A l \in mail' \intersect ActionLetter :
           /\ asks'[l.act].at # "none"
           /\ l.kind = "request" => l.act \notin routed' /\ answers'[l.act] = 0 /\ asks'[l.act].by \in present'
    <3> TAKE l \in mail' \intersect ActionLetter
    <3>1. l.act \in Action
      BY DEF ActionLetter
    <3>2. CASE l \in mail
      BY <2>2, <2>4, <2>7, <3>1, <3>2 DEF ActionsInv
    <3>3. CASE l = Letter("request", a)
      BY <2>2, <2>4, <2>5, <2>7, <3>3
    <3> QED
      BY <2>2, <3>2, <3>3
  <2>9. \A c \in Action : asks'[c].at = "waiting" => c \in routed' \/ UnderWay(c)'
    BY <2>2, <2>4, <2>5 DEF ActionsInv, ActionsAnswered, UnderWay
  <2>10. \A c \in routed' : /\ {asks'[c].by, asks'[c].target} \subseteq present'
                            /\ answers'[c] = 0 /\ asks'[c].at # "none"
    BY <1>0, <2>2, <2>4, <2>7 DEF ActionsInv, ActionsAnswered, ActionsTypeOK
  <2>11. /\ \A c \in Action : answers'[c] <= 1
         /\ \A c \in Action : asks'[c].at = "none" => answers'[c] = 0 /\ applying'[c] = "no"
    BY <2>2, <2>4 DEF ActionsInv, ActionsAnswered
  <2>12. \A hit \in hits' : hit[1] \in Action /\ asks'[hit[1]].at # "none" /\ hit[2] = asks'[hit[1]].of
    BY <2>2, <2>4, <2>7 DEF ActionsInv, ActionsAnswered
  <2> QED
    BY <2>6, <2>8, <2>9, <2>10, <2>11, <2>12 DEF ActionsInv, ActionsAnswered
<1>2. ASSUME NEW a \in Action, GivesUp(a) PROVE ActionsInv'
  <2>1. Settling({a})
    BY <1>0, <1>2, SettledIs DEF GivesUp
  <2>2. UNCHANGED <<present, window, granted, routed, mail, applying, answers, hits>>
    BY <1>2 DEF GivesUp
  <2> QED
    BY <1>0, <2>1, <2>2 DEF ActionsInv, ActionsTypeOK, ActionsAnswered, Settling, UnderWay, ActionLetter
<1>3. ASSUME NEW letter \in mail, Hears(letter) PROVE ActionsInv'
  <2>1. /\ letter.kind = "response" /\ mail' = mail \ {letter} /\ Settling({letter.act})
        /\ UNCHANGED <<present, window, granted, routed, applying, answers, hits>>
    BY <1>0, <1>3, SettledIs DEF Hears
  <2>2. \A a \in Action : asks'[a].at = "waiting" => a \in routed' \/ UnderWay(a)'
    BY <2>1 DEF ActionsInv, ActionsAnswered, UnderWay, Settling
  <2> QED
    BY <1>0, <2>1, <2>2 DEF ActionsInv, ActionsTypeOK, ActionsAnswered, Settling, ActionLetter
<1>4. ASSUME NEW letter \in mail, Route(letter) PROVE ActionsInv'
  <2> DEFINE a == letter.act
  <2>1. letter.kind = "request" /\ UNCHANGED <<present, window, granted, asks, applying, hits>>
    BY <1>4 DEF Route
  <2>2. /\ letter \in ActionLetter /\ a \in Action /\ letter = Letter("request", a)
        /\ a \notin routed /\ answers[a] = 0 /\ asks[a].by \in present /\ asks[a].at # "none"
    BY <1>0, <2>1, LettersKnown DEF ActionsInv
  <2>3. \A l \in mail \intersect ActionLetter : l.kind = "request" /\ l.act = a => l = letter
    BY <1>0, <2>2, LettersKnown
  <2> HIDE DEF a
  <2>4. CASE /\ asks[a].target \in present
             /\ routed' = routed \union {a}
             /\ mail' = (mail \ {letter}) \union {Letter("command", a)}
             /\ UNCHANGED answers
    <3>1. /\ Letter("command", a) \in ActionLetter /\ Letter("command", a).kind = "command"
          /\ Letter("command", a).act = a
      BY <2>2, LetterIs
    <3>2. ActionsTypeOK'
      BY <1>0, <2>1, <2>2, <2>4, <3>1 DEF ActionsTypeOK
    <3>3. \A c \in Action : c \in routed \/ UnderWay(c) => c \in routed' \/ UnderWay(c)'
      BY <2>4, <2>2, LetterIs DEF UnderWay
    <3>4. \A l \in mail' \intersect ActionLetter :
              \/ l \in mail /\ (l.kind = "request" => l.act \notin routed' /\ answers'[l.act] = answers[l.act])
              \/ l.kind # "request" /\ asks[l.act].at # "none"
      BY <2>2, <2>3, <2>4, <3>1 DEF ActionsInv
    <3>5. /\ \A c \in Action : answers'[c] = answers[c]
          /\ \A c \in routed' : c \in routed \/
                /\ answers'[c] = 0 /\ asks[c].at # "none"
                /\ {asks[c].by, asks[c].target} \subseteq present
      BY <2>2, <2>4
    <3>6. /\ UNCHANGED <<present, asks>>
          /\ \A c \in Action : asks[c].at = "none" => answers'[c] = answers[c] /\ applying'[c] = applying[c]
          /\ \A c \in routed' : c \in routed => answers'[c] = answers[c]
          /\ \A hit \in hits' : hit \in hits
      BY <2>1, <2>4
    <3> QED
      BY <3>2, <3>3, <3>4, <3>5, <3>6, MailStep
  <2>5. CASE /\ mail' = (mail \ {letter}) \union {Letter("response", a)}
             /\ answers' = [answers EXCEPT ![a] = @ + 1]
             /\ UNCHANGED routed
    <3>1. /\ Letter("response", a) \in ActionLetter /\ Letter("response", a).kind = "response"
          /\ Letter("response", a).act = a
      BY <2>2, LetterIs
    <3>2. /\ answers' \in [Action -> Nat] /\ answers'[a] = 1
          /\ \A c \in Action : c # a => answers'[c] = answers[c]
      BY <1>0, <2>2, <2>5 DEF ActionsTypeOK
    <3>3. ActionsTypeOK'
      BY <1>0, <2>1, <2>2, <2>5, <3>1, <3>2 DEF ActionsTypeOK
    <3>4. \A c \in Action : c \in routed \/ UnderWay(c) => c \in routed' \/ UnderWay(c)'
      BY <2>5, <2>2, <3>1, LetterIs DEF UnderWay
    <3>5. \A l \in mail' \intersect ActionLetter :
              \/ l \in mail /\ (l.kind = "request" => l.act \notin routed' /\ answers'[l.act] = answers[l.act])
              \/ l.kind # "request" /\ asks[l.act].at # "none"
      <4> TAKE l \in mail' \intersect ActionLetter
      <4>1. l.act \in Action
        BY DEF ActionLetter
      <4> QED
        BY <2>2, <2>3, <2>5, <3>1, <3>2, <4>1 DEF ActionsInv
    <3>6. /\ \A c \in Action : answers'[c] = answers[c] \/ (answers[c] = 0 /\ answers'[c] = 1 /\ c \notin routed')
          /\ \A c \in Action : asks[c].at = "none" => answers'[c] = answers[c]
          /\ \A c \in routed' : c \in routed => answers'[c] = answers[c]
      BY <1>0, <2>2, <2>5, <3>2 DEF ActionsTypeOK
    <3> QED
      BY <2>1, <2>5, <3>3, <3>4, <3>5, <3>6, MailStep
  <2> QED
    BY <1>4, <2>4, <2>5 DEF Route, Admissible, a
<1>5. ASSUME NEW letter \in mail, Result(letter) PROVE ActionsInv'
  <2>1. /\ letter.kind = "result" /\ UNCHANGED <<present, window, granted, asks, applying, hits>>
        /\ Finishing({letter.act}, mail \ {letter})
    BY <1>5, FinishesIs DEF Result
  <2>2. Settling({})
    BY <1>0, <2>1 DEF Settling, ActionsTypeOK
  <2>3. \A a \in routed : {asks[a].by, asks[a].target} \subseteq present'
    BY <2>1 DEF ActionsInv, ActionsAnswered
  <2>4. \A l \in mail \intersect ActionLetter : l.kind = "request" => asks[l.act].by \in present'
    BY <2>1 DEF ActionsInv
  <2>5. applying' \in [Action -> {"no", "yes", "unheard"}] /\ applying' = applying
    BY <1>0, <2>1 DEF ActionsTypeOK
  <2> QED
    BY <2>1, <2>2, <2>3, <2>4, <2>5, FinishStep
<1>6. ASSUME NEW a \in Action, Expires(a) PROVE ActionsInv'
  <2>1. /\ UNCHANGED <<present, window, granted, asks, applying, hits>>
        /\ Finishing({a}, mail)
    BY <1>6, FinishesIs DEF Expires
  <2>2. Settling({})
    BY <1>0, <2>1 DEF Settling, ActionsTypeOK
  <2>3. \A c \in routed : {asks[c].by, asks[c].target} \subseteq present'
    BY <2>1 DEF ActionsInv, ActionsAnswered
  <2>4. \A l \in mail \intersect ActionLetter : l.kind = "request" => asks[l.act].by \in present'
    BY <2>1 DEF ActionsInv
  <2>5. applying' \in [Action -> {"no", "yes", "unheard"}] /\ applying' = applying
    BY <1>0, <2>1 DEF ActionsTypeOK
  <2> QED
    BY <2>1, <2>2, <2>3, <2>4, <2>5, FinishStep
<1>7. ASSUME NEW b \in Browser, Breaks(b) PROVE ActionsInv'
  <2> DEFINE some == {a \in Action : Touches(a, b)}
             rest == {l \in mail : IF l.kind = "access" THEN l.act # b
                                   ELSE IF l.kind \in {"request", "response"}
                                   THEN asks[l.act].by # b ELSE asks[l.act].target # b}
  <2>1. present' = present \ {b} /\ UNCHANGED <<window, granted, hits>>
    BY <1>7 DEF Breaks
  <2>2. Finishing(some, rest)
    BY <1>7, FinishesIs DEF Breaks
  <2>3. Settling(Waiting(b))
    BY <1>0, <1>7, SettledIs DEF Breaks
  <2>4. /\ applying' \in [Action -> {"no", "yes", "unheard"}]
        /\ \A a \in Action : applying[a] = "no" => applying'[a] = "no"
    <3>1. applying' = [a \in Action |-> IF applying[a] = "yes" /\ asks[a].target = b
                                        THEN "unheard" ELSE applying[a]]
      BY <1>7 DEF Breaks
    <3> QED
      BY <1>0, <3>1 DEF ActionsTypeOK
  <2>5. rest \subseteq mail
    OBVIOUS
  <2>6. \A a \in routed \ some : {asks[a].by, asks[a].target} \subseteq present'
    BY <1>0, <2>1 DEF ActionsInv, ActionsAnswered, Touches, ActionsTypeOK
  <2>7. \A l \in rest \intersect ActionLetter : l.kind = "request" => asks[l.act].by \in present'
    <3>1. \A l \in rest : l \in mail /\ (l.kind = "request" => asks[l.act].by # b)
      OBVIOUS
    <3>2. \A l \in mail \intersect ActionLetter : l.kind = "request" => asks[l.act].by \in present
      BY DEF ActionsInv
    <3> QED
      BY <2>1, <3>1, <3>2
  <2>8. \A a \in routed \intersect some :
           asks[a].at = "waiting" /\ a \notin Waiting(b) => asks[a].by \in present'
    <3>1. \A a \in routed : asks[a].by \in present /\ a \in Action
      BY <1>0 DEF ActionsInv, ActionsAnswered, ActionsTypeOK
    <3> QED
      BY <2>1, <3>1 DEF Waiting
  <2>9. \A l \in mail \intersect ActionLetter :
           l.kind \in {"request", "response"} /\ asks[l.act].at = "waiting" /\ l.act \notin Waiting(b) =>
               l \in rest
    <3>1. \A l \in mail \intersect ActionLetter : l.act \in Action
      BY DEF ActionLetter
    <3> QED
      BY <3>1 DEF Waiting
  <2> HIDE DEF some, rest
  <2>10. present' \subseteq present
    BY <2>1
  <2> QED
    BY <2>1, <2>2, <2>3, <2>4, <2>5, <2>6, <2>7, <2>8, <2>9, <2>10, FinishStep
<1>8. ASSUME NEW letter \in mail, Update(letter) PROVE ActionsInv'
  <2>1. /\ letter.kind = "access" /\ mail' = mail \ {letter}
        /\ UNCHANGED <<present, window, granted, asks, routed, applying, answers, hits>>
    BY <1>8 DEF Update
  <2>2. \A a \in Action : UnderWay(a) => UnderWay(a)'
    BY <2>1 DEF UnderWay
  <2> QED
    BY <1>0, <2>1, <2>2 DEF ActionsInv, ActionsTypeOK, ActionsAnswered
<1>9. ASSUME NEW letter \in mail, Command(letter) PROVE ActionsInv'
  <2> DEFINE a == letter.act
  <2>1. letter.kind = "command" /\ UNCHANGED <<present, window, granted, asks, routed, answers, hits>>
    BY <1>9 DEF Command
  <2>2. letter \in ActionLetter /\ a \in Action /\ asks[a].at # "none"
    BY <1>0, <2>1, LettersKnown DEF ActionsInv
  <2> HIDE DEF a
  <2>3. /\ mail \ {letter} \subseteq mail' /\ mail' \subseteq mail \union {Letter("result", a)}
        /\ applying' = applying \/ applying' = [applying EXCEPT ![a] = "yes"]
    BY <1>9 DEF Command, a
  <2>4. /\ Letter("result", a) \in ActionLetter /\ Letter("result", a).kind = "result"
        /\ Letter("result", a).act = a
    BY <2>2, LetterIs
  <2>5. ActionsTypeOK'
    BY <1>0, <2>1, <2>2, <2>3, <2>4 DEF ActionsTypeOK
  <2>6. \A c \in Action : UnderWay(c) => UnderWay(c)'
    BY <2>1, <2>3 DEF UnderWay
  <2>7. \A l \in mail' \intersect ActionLetter :
              \/ l \in mail /\ (l.kind = "request" => l.act \notin routed' /\ answers'[l.act] = answers[l.act])
              \/ l.kind # "request" /\ asks[l.act].at # "none"
    BY <2>1, <2>2, <2>3, <2>4 DEF ActionsInv
  <2>8. \A c \in Action : asks[c].at = "none" => applying'[c] = applying[c]
    BY <1>0, <2>2, <2>3 DEF ActionsTypeOK
  <2> QED
    BY <2>1, <2>5, <2>6, <2>7, <2>8, MailStep
<1>10. ASSUME NEW a \in Action, Applies(a) PROVE ActionsInv'
  <2> DEFINE t == asks[a].target
  <2>1. /\ applying[a] # "no" /\ applying' = [applying EXCEPT ![a] = "no"]
        /\ UNCHANGED <<present, granted, asks, routed, answers>>
    BY <1>10 DEF Applies
  <2>2. asks[a].at # "none"
    BY <2>1 DEF ActionsInv
  <2>3. \A hit \in hits' : hit \in hits \/ hit = <<a, asks[a].of>>
    BY <1>10 DEF Applies, StillGranted
  <2>4. /\ mail \subseteq mail'
        /\ \A l \in mail' : l \in mail \/ l = Letter("result", a) \/ (l = Tell(t, 0) /\ t \in present)
    BY <1>10 DEF Applies
  <2>5. window' \in [Browser -> Nat]
    <3>1. window' = window \/ window' = [window EXCEPT ![t] = 0]
      BY <1>10 DEF Applies
    <3> HIDE DEF t
    <3> QED
      BY <1>0, <3>1 DEF ActionsTypeOK
  <2>6. /\ Letter("result", a) \in ActionLetter /\ Letter("result", a).kind = "result"
        /\ Letter("result", a).act = a
    BY LetterIs
  <2>7. t \in present => Tell(t, 0) \in AccessLetter /\ Tell(t, 0) \notin ActionLetter
    BY <1>0, TellIs DEF ActionsTypeOK
  <2> HIDE DEF t
  <2>8. ActionsTypeOK'
    BY <1>0, <2>1, <2>4, <2>5, <2>6, <2>7 DEF ActionsTypeOK
  <2>9. \A c \in Action : UnderWay(c) => UnderWay(c)'
    BY <2>4 DEF UnderWay
  <2>10. \A l \in mail' \intersect ActionLetter :
              \/ l \in mail /\ (l.kind = "request" => l.act \notin routed' /\ answers'[l.act] = answers[l.act])
              \/ l.kind # "request" /\ asks[l.act].at # "none"
    BY <2>1, <2>2, <2>4, <2>6, <2>7 DEF ActionsInv
  <2>11. \A c \in Action : asks[c].at = "none" => applying'[c] = applying[c]
    BY <1>0, <2>1, <2>2 DEF ActionsTypeOK
  <2>12. \A hit \in hits' : hit \in hits \/
              (hit[1] \in Action /\ asks[hit[1]].at # "none" /\ hit[2] = asks[hit[1]].of)
    BY <2>2, <2>3
  <2> QED
    BY <2>1, <2>8, <2>9, <2>10, <2>11, <2>12, MailStep
<1>11. ASSUME NEW b \in Browser, Changes(b) PROVE ActionsInv'
  <2>1. /\ UNCHANGED <<present, asks, routed, applying, answers, hits>>
        /\ mail' = {l \in mail : l.kind # "access" \/ l.act # b} \union {Tell(b, window'[b])}
    BY <1>11 DEF Changes
  <2>2. window' \in [Browser -> Nat] /\ granted' \in [Browser -> Nat]
    <3>1. /\ granted' = granted \/ granted' = [granted EXCEPT ![b] = @ + 1]
          /\ window' = [window EXCEPT ![b] = 0] \/ window' = [window EXCEPT ![b] = granted[b] + 1]
      BY <1>11 DEF Changes
    <3> QED
      BY <1>0, <3>1 DEF ActionsTypeOK
  <2>3. Tell(b, window'[b]) \in AccessLetter /\ Tell(b, window'[b]) \notin ActionLetter
    BY <2>2, TellIs
  <2>4. ActionsTypeOK'
    BY <1>0, <2>1, <2>2, <2>3 DEF ActionsTypeOK
  <2>5. \A c \in Action : UnderWay(c) => UnderWay(c)'
    BY <2>1 DEF UnderWay
  <2>6. \A l \in mail' \intersect ActionLetter :
              l \in mail /\ (l.kind = "request" => l.act \notin routed' /\ answers'[l.act] = answers[l.act])
    BY <2>1, <2>3 DEF ActionsInv
  <2> QED
    BY <2>1, <2>4, <2>5, <2>6, MailStep
<1>12. CASE UNCHANGED actionVars
  <2>1. UNCHANGED <<present, window, granted, asks, routed, mail, applying, answers, hits>>
    BY <1>12 DEF actionVars
  <2> QED
    BY <2>1 DEF ActionsInv, ActionsTypeOK, ActionsAnswered, UnderWay
<1> QED
  BY <1>1, <1>2, <1>3, <1>4, <1>5, <1>6, <1>7, <1>8, <1>9, <1>10, <1>11, <1>12 DEF ActionsNext

\* However results, timers and lost connections meet.
THEOREM ActionsEnd == ActionsSpec => []ActionsAnswered
<1>1. ActionsInv => ActionsAnswered
  BY DEF ActionsInv
<1> QED
  BY <1>1, ActionsInvInit, ActionsInvNext, PTL DEF ActionsSpec

-----------------------------------------------------------------------------
(* The native updater.                                                        *)

AnyRelease == [instance : Nat, ver : Nat, seq : Nat]
AnyState == [current : AnyRelease, previous : AnyRelease, rollbackFrom : Nat, blocked : Seq(Nat),
             highest : Nat]
UpdateAt == {"idle", "waiting", "fetching", "fetched", "selecting", "adopting", "staging",
             "verifying", "activating", "probing", "restoring"}
Work == [at : UpdateAt, action : {"none", "check", "apply", "install", "repair", "rollback"},
         running : Nat, state : AnyState, seq : Nat, chosen : Nat, record : AnyRelease,
         blame : BOOLEAN, before : AnyRelease]

UpdateTypeOK ==
    /\ disk \in AnyState
    /\ files \in [Instance -> {"none", "partial", "complete", "damaged"}]
    /\ lock \in Process \union {NoProcess}
    /\ work \in [Process -> Work]
    /\ bootstrap \in Nat
    /\ feed \in 1..Len(FeedAt)

\* A set of releases has a newest one.
LEMMA NewestOf ==
    ASSUME NEW S, S \subseteq Version, S # {}
    PROVE  Max(S) \in S /\ Max(S) \in Nat \ {0}
<1> DEFINE bounds == {n \in Nat : \A v \in S : v <= n}
<1>1. PICK newest \in Version : \A v \in Version : v <= newest
  BY UpdateAssumption
<1>2. newest \in bounds /\ S \subseteq Nat \ {0}
  BY <1>1, UpdateAssumption
<1>3. PICK n \in bounds : \A m \in bounds : n <= m
  BY <1>2, LeastElement
<1>4. n \in S
  <2>1. SUFFICES ASSUME n \notin S PROVE FALSE
    OBVIOUS
  <2>2. \A v \in S : v <= n /\ v # n /\ v \in Nat \ {0}
    BY <1>2, <2>1
  <2>3. n \in Nat \ {0}
    BY <2>2
  <2>4. n - 1 \in bounds
    BY <2>2, <2>3
  <2> QED
    BY <1>3, <2>3, <2>4
<1>5. \E x \in S : \A y \in S : x >= y
  BY <1>2, <1>3, <1>4
<1> QED
  BY <1>2, <1>5 DEF Max

\* A version blocked is added to the end, and at the limit the first is dropped.
LEMMA BlockedIs ==
    ASSUME NEW blocked \in Seq(Nat), NEW v \in Nat
    PROVE  /\ BlockVersion(blocked, v) \in Seq(Nat)
           /\ \A u \in Nat : Contains(BlockVersion(blocked, v), u) => u = v \/ Contains(blocked, u)
<1> DEFINE all == IF Contains(blocked, v) THEN blocked ELSE Append(blocked, v)
<1>1. all \in Seq(Nat) /\ \A u \in Nat : Contains(all, u) => u = v \/ Contains(blocked, u)
  BY DEF Contains
<1> HIDE DEF all
<1>2. CASE Len(all) > MaxBlocked
  <2>1. all # <<>> /\ Tail(all) \in Seq(Nat)
    BY <1>1, <1>2, UpdateAssumption
  <2>2. \A u \in Nat : Contains(Tail(all), u) => Contains(all, u)
    <3> SUFFICES ASSUME NEW u \in Nat, NEW i \in 1..Len(Tail(all)), Tail(all)[i] = u
                 PROVE  Contains(all, u)
      BY DEF Contains
    <3>1. i + 1 \in 1..Len(all) /\ Tail(all)[i] = all[i + 1]
      BY <1>1, <2>1
    <3> QED
      BY <3>1 DEF Contains
  <2>3. BlockVersion(blocked, v) = Tail(all)
    BY <1>2 DEF BlockVersion, all
  <2> QED
    BY <1>1, <2>1, <2>2, <2>3
<1>3. CASE ~(Len(all) > MaxBlocked)
  <2>1. BlockVersion(blocked, v) = all
    BY <1>3 DEF BlockVersion, all
  <2> QED
    BY <1>1, <2>1
<1> QED
  BY <1>2, <1>3

\* A release that can be rolled back to is another version than the selected one.
WellState(state) ==
    /\ state.previous # NoRelease =>
         state.current # NoRelease /\ state.previous.ver # state.current.ver
    /\ state.rollbackFrom # 0 => state.current # NoRelease

LEMMA SelectingIs ==
    ASSUME NEW state \in AnyState, NEW release \in AnyRelease, release # NoRelease,
           NEW repair \in BOOLEAN, NEW rollback \in BOOLEAN,
           WellState(state), repair => release.ver = state.current.ver,
           ~repair /\ ~rollback /\ state.current # NoRelease => release.ver # state.current.ver
    PROVE  LET next == Selecting(state, release, repair, rollback)
           IN  /\ next \in AnyState /\ next.current = release /\ next.highest = state.highest
               /\ next.previous \in {NoRelease, state.previous, state.current}
               /\ WellState(next)
               /\ next.rollbackFrom = IF rollback THEN state.current.ver
                                      ELSE IF release.ver >= state.rollbackFrom THEN 0
                                      ELSE state.rollbackFrom
               /\ next.blocked = IF rollback THEN BlockVersion(state.blocked, state.current.ver)
                                 ELSE state.blocked
<1> DEFINE next == Selecting(state, release, repair, rollback)
<1>1. /\ state.current \in AnyRelease /\ state.previous \in AnyRelease /\ state.rollbackFrom \in Nat
      /\ state.blocked \in Seq(Nat) /\ state.highest \in Nat /\ state.current.ver \in Nat
      /\ NoRelease \in AnyRelease
  BY DEF AnyState, AnyRelease, NoRelease
<1>2. BlockVersion(state.blocked, state.current.ver) \in Seq(Nat)
  BY <1>1, BlockedIs
<1> DEFINE previous == IF rollback THEN NoRelease ELSE IF repair THEN state.previous ELSE state.current
           from == IF rollback THEN state.current.ver
                   ELSE IF release.ver >= state.rollbackFrom THEN 0 ELSE state.rollbackFrom
           blocked == IF rollback THEN BlockVersion(state.blocked, state.current.ver)
                      ELSE state.blocked
<1>3. next = [current |-> release, previous |-> previous, rollbackFrom |-> from,
              blocked |-> blocked, highest |-> state.highest]
  <2>1. next = [state EXCEPT !.current = release, !.previous = previous, !.rollbackFrom = from,
                             !.blocked = blocked]
    BY DEF Selecting
  <2> HIDE DEF next, previous, from, blocked
  <2> QED
    BY <2>1 DEF AnyState
<1>4. next \in AnyState
  BY <1>1, <1>2, <1>3 DEF AnyState
<1>5. next.previous \in {NoRelease, state.previous, state.current}
  BY <1>3
<1>6. WellState(next)
  BY <1>3 DEF WellState
<1> QED
  BY <1>3, <1>4, <1>5, <1>6

\* What runs is not older than the release that a state selects, and a release that
\* is no older than the selected one never makes what runs next an older one.
LEMMA NeverOlder ==
    ASSUME NEW b \in Nat, NEW state \in AnyState, NEW next \in AnyState, WellState(state),
           state.current # NoRelease => next.current.ver >= state.current.ver,
           next.rollbackFrom = IF next.current.ver >= state.rollbackFrom THEN 0
                               ELSE state.rollbackFrom,
           next.current # NoRelease
    PROVE  EffectiveVersion(b, next) >= EffectiveVersion(b, state)
<1>1. /\ state.current.ver \in Nat /\ next.current.ver \in Nat
      /\ state.rollbackFrom \in Nat /\ next.rollbackFrom \in Nat
  BY DEF AnyState, AnyRelease
<1> QED
  BY <1>1 DEF EffectiveVersion, WellState

LEMMA RunsAtLeast ==
    ASSUME NEW b \in Nat, NEW state \in AnyState, state.current # NoRelease
    PROVE  EffectiveVersion(b, state) >= state.current.ver
<1>1. state.current.ver \in Nat
  BY DEF AnyState, AnyRelease
<1> QED
  BY <1>1 DEF EffectiveVersion

-----------------------------------------------------------------------------
\* Staged to the end, with its proof.
Stood(release) ==
    \/ release = NoRelease
    \/ /\ release.instance \in Instance /\ release.seq \in proofs
       /\ files[release.instance] \in {"complete", "damaged"}

Holds(p) == work[p].at \notin {"idle", "waiting"}

\* The release about to be selected is not blocked and no older than the selected
\* one, which differs from the state's own only when that has just been kept.
Selectable(w) ==
    /\ ~Contains(w.state.blocked, w.record.ver)
    /\ disk.current # NoRelease => w.record.ver >= disk.current.ver
    /\ \/ w.state = disk
       \/ /\ disk.current = NoRelease /\ w.state.current # NoRelease
          /\ w.record.ver # w.state.current.ver
          /\ w.state = [disk EXCEPT !.current = w.state.current]

\* What a process with the lock knows.
Knows(w) ==
    /\ Stood(w.state.current) /\ Stood(w.state.previous) /\ WellState(w.state)
    /\ w.at \in {"fetching", "fetched", "selecting", "adopting", "verifying"} => w.state = disk
    /\ w.at \in {"fetching", "fetched", "selecting", "adopting", "staging"} => w.action # "rollback"
    /\ w.at = "fetched" => w.seq >= w.state.highest
    /\ w.at \in {"fetched", "selecting", "adopting", "staging"} => w.seq \in proofs \intersect Sequence
    /\ w.at \in {"adopting", "staging"} =>
         /\ w.record # NoRelease /\ w.record.seq \in proofs
         /\ w.record.instance \in Instance /\ files[w.record.instance] = "partial"
    /\ w.at = "adopting" =>
         /\ w.state.current = NoRelease /\ w.chosen # 0 /\ w.chosen # w.record.ver
         /\ ~Contains(w.state.blocked, w.chosen)
    /\ w.at = "activating" => w.record.instance \in Instance /\ w.record # NoRelease
    /\ w.at \in {"staging", "activating"} /\ w.action # "rollback" => Selectable(w)
    /\ w.at = "verifying" => w.action = "rollback"
    /\ w.at \in {"verifying", "activating"} /\ w.action = "rollback" =>
         /\ w.state = disk /\ w.record = disk.previous /\ w.record # NoRelease
         /\ ~Contains(disk.blocked, w.record.ver)
    /\ w.at \in {"probing", "restoring"} =>
         /\ w.state.highest = disk.highest
         /\ w.before \in {NoRelease, w.state.current}

UpdateInv ==
    /\ UpdateTypeOK
    /\ Stood(disk.current) /\ Stood(disk.previous) /\ WellState(disk)
    /\ \A p \in Process : Holds(p) => lock = p /\ Knows(work[p])

LEMMA UpdateInvInit == UpdateInit => UpdateInv
<1> SUFFICES ASSUME UpdateInit PROVE UpdateInv
  OBVIOUS
<1>1. NoRelease \in AnyRelease /\ <<>> \in Seq(Nat)
  BY DEF NoRelease, AnyRelease
<1>2. Empty \in AnyState
  BY <1>1 DEF Empty, AnyState
<1>3. Idle \in Work
  BY <1>1, <1>2 DEF Idle, Work, UpdateAt
<1>4. bootstrap \in Nat /\ 1 \in 1..Len(FeedAt)
  BY UpdateAssumption DEF UpdateInit
<1>5. UpdateTypeOK
  BY <1>2, <1>3, <1>4 DEF UpdateInit, UpdateTypeOK
<1>6. Stood(disk.current) /\ Stood(disk.previous) /\ WellState(disk)
  BY DEF UpdateInit, Empty, Stood, WellState
<1>7. \A p \in Process : ~Holds(p)
  BY DEF UpdateInit, Holds, Idle
<1> QED
  BY <1>5, <1>6, <1>7 DEF UpdateInv

\* Only one process holds the lock, so that what the others know does not matter
\* when it moves.
LEMMA HolderMoves ==
    ASSUME UpdateInv, NEW p \in Process, Holds(p) \/ lock = NoProcess,
           UpdateTypeOK', \A q \in Process : q # p => work'[q] = work[q],
           Stood(disk.current)', Stood(disk.previous)', WellState(disk)',
           Holds(p)' => lock' = p /\ Knows(work[p])'
    PROVE  UpdateInv'
<1>1. \A q \in Process : q # p => ~Holds(q)
  BY UpdateAssumption DEF UpdateInv
<1>2. \A q \in Process : q # p => ~Holds(q)'
  BY <1>1 DEF Holds
<1> QED
  BY <1>2 DEF UpdateInv

LEMMA WorkIs ==
    ASSUME UpdateTypeOK, NEW p \in Process, NEW w \in Work, work' = [work EXCEPT ![p] = w]
    PROVE  /\ work' \in [Process -> Work] /\ work'[p] = w
           /\ \A q \in Process : q # p => work'[q] = work[q]
  BY DEF UpdateTypeOK

LEMMA EndsIs ==
    ASSUME UpdateTypeOK, NEW p \in Process, Ends(p)
    PROVE  /\ work' \in [Process -> Work] /\ ~Holds(p)' /\ lock' \in Process \union {NoProcess}
           /\ \A q \in Process : q # p => work'[q] = work[q]
<1>1. NoRelease \in AnyRelease /\ <<>> \in Seq(Nat)
  BY DEF NoRelease, AnyRelease
<1>2. Empty \in AnyState
  BY <1>1 DEF Empty, AnyState
<1>3. Idle \in Work /\ Idle.at = "idle"
  BY <1>1, <1>2 DEF Idle, Work, UpdateAt
<1> QED
  BY <1>3, WorkIs DEF Ends, Holds

\* The process gives up, or is done, with the files as they are.
LEMMA GivesBack ==
    ASSUME UpdateInv, NEW p \in Process, Holds(p) \/ lock = NoProcess, Ends(p),
           UNCHANGED <<disk, proofs, files, bootstrap, feed>>
    PROVE  UpdateInv'
<1>1. UpdateTypeOK'
  BY EndsIs DEF UpdateInv, UpdateTypeOK
<1>2. Stood(disk.current)' /\ Stood(disk.previous)' /\ WellState(disk)'
  BY DEF UpdateInv, Stood, WellState
<1> QED
  BY <1>1, <1>2, EndsIs, HolderMoves DEF UpdateInv

LEMMA AcquireKeeps ==
    ASSUME UpdateInv, NEW p \in Process, Acquire(p) PROVE UpdateInv'
<1>0. UpdateTypeOK /\ work[p] \in Work /\ disk \in AnyState /\ disk.previous \in AnyRelease
  BY DEF UpdateInv, UpdateTypeOK, AnyState
<1>1. /\ work[p].at = "waiting" /\ lock = NoProcess
      /\ UNCHANGED <<disk, proofs, files, bootstrap, feed>>
  BY DEF Acquire, LockFree
<1>2. Stood(disk.current)' /\ Stood(disk.previous)' /\ WellState(disk)'
  BY <1>1 DEF UpdateInv, Stood, WellState
<1>3. CASE /\ work[p].action # "rollback" /\ lock' = p
           /\ work' = [work EXCEPT ![p].at = "fetching", ![p].state = disk]
  <2> DEFINE w == [work[p] EXCEPT !.at = "fetching", !.state = disk]
  <2>1. work' = [work EXCEPT ![p] = w]
    BY <1>0, <1>3 DEF UpdateTypeOK
  <2>2. w \in Work /\ w.at = "fetching" /\ w.state = disk /\ w.action # "rollback"
    BY <1>0, <1>3 DEF Work, UpdateAt
  <2> HIDE DEF w
  <2>3. /\ work' \in [Process -> Work] /\ work'[p] = w
        /\ \A q \in Process : q # p => work'[q] = work[q]
    BY <1>0, <2>1, <2>2, WorkIs
  <2>4. UpdateTypeOK'
    BY <1>0, <1>1, <1>3, <2>3 DEF UpdateTypeOK
  <2>5. Knows(work[p])'
    BY <1>1, <1>2, <2>2, <2>3 DEF Knows
  <2> QED
    BY <1>1, <1>2, <1>3, <2>3, <2>4, <2>5, HolderMoves
<1>4. CASE Ends(p)
  BY <1>1, <1>4, GivesBack
<1>5. CASE /\ work[p].action = "rollback" /\ lock' = p
           /\ disk.previous # NoRelease /\ ~Contains(disk.blocked, disk.previous.ver)
           /\ work' = [work EXCEPT ![p].at = "verifying", ![p].state = disk, ![p].record = disk.previous]
  <2> DEFINE w == [work[p] EXCEPT !.at = "verifying", !.state = disk, !.record = disk.previous]
  <2>1. work' = [work EXCEPT ![p] = w]
    BY <1>0, <1>5 DEF UpdateTypeOK
  <2>2. /\ w \in Work /\ w.at = "verifying" /\ w.state = disk /\ w.action = "rollback"
        /\ w.record = disk.previous
    BY <1>0, <1>5 DEF Work, UpdateAt
  <2> HIDE DEF w
  <2>3. /\ work' \in [Process -> Work] /\ work'[p] = w
        /\ \A q \in Process : q # p => work'[q] = work[q]
    BY <1>0, <2>1, <2>2, WorkIs
  <2>4. UpdateTypeOK'
    BY <1>0, <1>1, <1>5, <2>3 DEF UpdateTypeOK
  <2>5. Knows(work[p])'
    BY <1>1, <1>2, <1>5, <2>2, <2>3 DEF Knows
  <2> QED
    BY <1>1, <1>2, <1>5, <2>3, <2>4, <2>5, HolderMoves
<1> QED
  BY <1>3, <1>4, <1>5 DEF Acquire

LEMMA HolderGoesOn ==
    ASSUME UpdateInv, NEW p \in Process, Holds(p), UNCHANGED <<lock, bootstrap, feed>>,
           work' \in [Process -> Work], \A q \in Process : q # p => work'[q] = work[q],
           disk' \in AnyState, files' \in [Instance -> {"none", "partial", "complete", "damaged"}],
           Stood(disk.current)', Stood(disk.previous)', WellState(disk)',
           Knows(work[p])'
    PROVE  UpdateInv'
<1>1. UpdateTypeOK'
  BY DEF UpdateInv, UpdateTypeOK
<1>2. lock' = p
  BY DEF UpdateInv
<1> QED
  BY <1>1, <1>2, HolderMoves

LEMMA FetchKeeps ==
    ASSUME UpdateInv, NEW p \in Process, Fetch(p) PROVE UpdateInv'
<1>0. UpdateTypeOK /\ work[p] \in Work
  BY DEF UpdateInv, UpdateTypeOK
<1>1. /\ work[p].at = "fetching" /\ Holds(p) /\ UNCHANGED <<disk, files, bootstrap, feed>>
      /\ Knows(work[p])
  BY DEF Fetch, Holds, UpdateInv
<1>2. PICK s \in 1..feed :
         \/ Ends(p) /\ UNCHANGED proofs
         \/ /\ ~(s < work[p].state.highest)
            /\ proofs' = proofs \union {s} /\ UNCHANGED lock
            /\ work' = [work EXCEPT ![p].at = "fetched", ![p].seq = s]
  BY DEF Fetch
<1>3. CASE Ends(p) /\ UNCHANGED proofs
  BY <1>1, <1>3, GivesBack
<1>4. CASE /\ ~(s < work[p].state.highest)
           /\ proofs' = proofs \union {s} /\ UNCHANGED lock
           /\ work' = [work EXCEPT ![p].at = "fetched", ![p].seq = s]
  <2> DEFINE w == [work[p] EXCEPT !.at = "fetched", !.seq = s]
  <2>1. work' = [work EXCEPT ![p] = w]
    BY <1>0, <1>4 DEF UpdateTypeOK
  <2>2. s \in Nat /\ s \in Sequence
    BY <1>0, UpdateAssumption DEF UpdateTypeOK
  <2>3. /\ w \in Work /\ w.at = "fetched" /\ w.state = work[p].state /\ w.action = work[p].action
        /\ w.seq = s
    BY <1>0, <2>2 DEF Work, UpdateAt
  <2> HIDE DEF w
  <2>4. /\ work' \in [Process -> Work] /\ work'[p] = w
        /\ \A q \in Process : q # p => work'[q] = work[q]
    BY <1>0, <2>1, <2>3, WorkIs
  <2>5. /\ Stood(disk.current)' /\ Stood(disk.previous)' /\ WellState(disk)'
        /\ Stood(work[p].state.current)' /\ Stood(work[p].state.previous)'
    <3>1. \A r : Stood(r) => Stood(r)'
      BY <1>1, <1>4 DEF Stood
    <3>2. Stood(disk.current) /\ Stood(disk.previous) /\ WellState(disk)
      BY DEF UpdateInv
    <3>3. Stood(work[p].state.current) /\ Stood(work[p].state.previous)
      BY <1>1 DEF Knows
    <3>4. work'[p].state = work[p].state
      BY <2>3, <2>4
    <3> QED
      BY <1>1, <3>1, <3>2, <3>3, <3>4 DEF WellState, Stood
  <2>6. w.seq >= w.state.highest
    <3>1. work[p].state.highest \in Nat
      BY <1>0 DEF Work, AnyState
    <3> QED
      BY <1>4, <2>2, <2>3, <3>1
  <2>7. Knows(work[p])'
    BY <1>1, <1>4, <2>2, <2>3, <2>4, <2>5, <2>6 DEF Knows, Stood
  <2> QED
    BY <1>0, <1>1, <1>4, <2>4, <2>5, <2>7, HolderGoesOn DEF UpdateTypeOK
<1> QED
  BY <1>2, <1>3, <1>4

LEMMA SaveWatermarkKeeps ==
    ASSUME UpdateInv, NEW p \in Process, SaveWatermark(p)
    PROVE  /\ UpdateInv'
           /\ disk'.current = disk.current /\ disk'.highest >= disk.highest
<1>0. UpdateTypeOK /\ work[p] \in Work /\ disk \in AnyState
  BY DEF UpdateInv, UpdateTypeOK
<1>1. /\ work[p].at = "fetched" /\ Holds(p) /\ UNCHANGED <<proofs, files, lock, bootstrap, feed>>
      /\ Knows(work[p]) /\ work[p].state = disk
      /\ work' = [work EXCEPT ![p].at = "selecting", ![p].state.highest = work[p].seq]
      /\ disk' = [work[p].state EXCEPT !.highest = work[p].seq]
  BY DEF SaveWatermark, Holds, UpdateInv, Knows
<1>2. /\ disk' \in AnyState /\ disk'.current = disk.current /\ disk'.previous = disk.previous
      /\ disk'.rollbackFrom = disk.rollbackFrom /\ disk'.highest = work[p].seq
  BY <1>0, <1>1 DEF AnyState, Work
<1> DEFINE new == [work[p].state EXCEPT !.highest = work[p].seq]
           w == [work[p] EXCEPT !.at = "selecting", !.state = new]
<1>3. work' = [work EXCEPT ![p] = w]
  BY <1>0, <1>1 DEF UpdateTypeOK, Work
<1>4. new = disk' /\ new \in AnyState
  BY <1>1, <1>2
<1> HIDE DEF new
<1>5. /\ w \in Work /\ w.at = "selecting" /\ w.state = disk' /\ w.action = work[p].action
      /\ w.seq = work[p].seq
  BY <1>0, <1>4 DEF Work, UpdateAt
<1> HIDE DEF w
<1>6. /\ work' \in [Process -> Work] /\ work'[p] = w
      /\ \A q \in Process : q # p => work'[q] = work[q]
  BY <1>0, <1>3, <1>5, WorkIs
<1>7. Stood(disk.current)' /\ Stood(disk.previous)' /\ WellState(disk)'
  BY <1>1, <1>2 DEF UpdateInv, WellState, Stood
<1>8. Knows(work[p])'
  BY <1>1, <1>5, <1>6, <1>7 DEF Knows
<1>9. UpdateInv'
  BY <1>0, <1>1, <1>2, <1>6, <1>7, <1>8, HolderGoesOn DEF UpdateTypeOK
<1> QED
  BY <1>1, <1>2, <1>9 DEF Knows

LEMMA SelectKeeps ==
    ASSUME UpdateInv, NEW p \in Process, Select(p) PROVE UpdateInv'
<1>0. UpdateTypeOK /\ work[p] \in Work /\ disk \in AnyState /\ work[p].running \in Nat
  BY DEF UpdateInv, UpdateTypeOK, Work
<1>1. /\ work[p].at = "selecting" /\ Holds(p) /\ UNCHANGED <<disk, proofs, bootstrap, feed>>
      /\ Knows(work[p]) /\ work[p].state = disk /\ work[p].action # "rollback"
      /\ work[p].seq \in proofs \intersect Sequence
  BY DEF Select, Holds, UpdateInv, Knows
<1> DEFINE current == EffectiveVersion(work[p].running, disk)
           open == Candidates(FeedAt[work[p].seq], current, disk.blocked,
                              work[p].action \in {"install", "repair"},
                              IF work[p].action = "repair" THEN current ELSE 0)
           m == Max(open)
<1>2. \/ Ends(p) /\ UNCHANGED files
      \/ /\ open # {} /\ UNCHANGED lock
         /\ \/ Stage(p, "staging", m, m)
            \/ disk.current = NoRelease /\ m # current /\ Stage(p, "adopting", current, m)
  BY <1>1 DEF Select
<1>3. CASE Ends(p) /\ UNCHANGED files
  BY <1>1, <1>3, GivesBack
<1>4. CASE open # {} /\ UNCHANGED lock
           /\ \/ Stage(p, "staging", m, m)
              \/ disk.current = NoRelease /\ m # current /\ Stage(p, "adopting", current, m)
  <2>1. current \in Nat
    BY <1>0 DEF EffectiveVersion, AnyState, AnyRelease
  <2>2. m \in open /\ m \in Nat \ {0}
    <3>1. open \subseteq Version
      BY <1>1, UpdateAssumption DEF Candidates
    <3> HIDE DEF open
    <3> QED
      BY <1>4, <3>1, NewestOf
  <2>3. ~Contains(disk.blocked, m) /\ m >= current
    BY <2>1, <2>2 DEF Candidates
  <2>4. disk.current # NoRelease => m >= disk.current.ver
    <3>1. disk.current # NoRelease => current >= disk.current.ver
      BY <1>0, RunsAtLeast
    <3>2. disk.current.ver \in Nat
      BY <1>0 DEF AnyState, AnyRelease
    <3> QED
      BY <2>1, <2>2, <2>3, <3>1, <3>2
  <2>5. PICK at \in {"staging", "adopting"}, ver \in Nat :
           /\ Stage(p, at, ver, m)
           /\ at = "staging" => ver = m
           /\ at = "adopting" => ver = current /\ disk.current = NoRelease /\ m # current
    BY <1>4, <2>1, <2>2
  <2> HIDE DEF current, open, m
  <2>6. PICK i \in Instance :
           /\ files[i] = "none" /\ files' = [files EXCEPT ![i] = "partial"]
           /\ work' = [work EXCEPT ![p].at = at, ![p].chosen = m,
                           ![p].record = [instance |-> i, ver |-> ver, seq |-> work[p].seq]]
    BY <2>5 DEF Stage, NewInstance, Unused
  <2> DEFINE record == [instance |-> i, ver |-> ver, seq |-> work[p].seq]
             w == [work[p] EXCEPT !.at = at, !.chosen = m, !.record = record]
  <2>7. work' = [work EXCEPT ![p] = w]
    BY <1>0, <2>6 DEF UpdateTypeOK
  <2>8. /\ record \in AnyRelease /\ record # NoRelease /\ record.ver = ver
        /\ record.instance = i /\ record.seq = work[p].seq
    <3>1. i \in Nat /\ i # 0 /\ work[p].seq \in Nat
      BY <1>0, UpdateAssumption DEF Instance, Work
    <3>2. record \in AnyRelease /\ record.ver = ver /\ record.instance = i /\ record.seq = work[p].seq
      BY <3>1 DEF AnyRelease
    <3> QED
      BY <3>1, <3>2 DEF NoRelease
  <2> HIDE DEF record
  <2>9. /\ w \in Work /\ w.at = at /\ w.state = disk /\ w.action = work[p].action
        /\ w.seq = work[p].seq /\ w.chosen = m /\ w.record = record
    BY <1>0, <1>1, <2>2, <2>8 DEF Work, UpdateAt
  <2> HIDE DEF w
  <2>10. /\ work' \in [Process -> Work] /\ work'[p] = w
         /\ \A q \in Process : q # p => work'[q] = work[q]
    BY <1>0, <2>7, <2>9, WorkIs
  <2>11. /\ files' \in [Instance -> {"none", "partial", "complete", "damaged"}]
         /\ files'[i] = "partial"
         /\ \A j \in Instance : files[j] \in {"complete", "damaged"} => files'[j] \in {"complete", "damaged"}
    BY <1>0, <2>6 DEF UpdateTypeOK
  <2>12. Stood(disk.current)' /\ Stood(disk.previous)' /\ WellState(disk)'
    BY <1>1, <2>11 DEF UpdateInv, WellState, Stood
  <2>13. w.at = "staging" => Selectable(w)
    BY <2>3, <2>4, <2>5, <2>8, <2>9 DEF Selectable
  <2>14. Selectable(w) /\ w.at = "staging" => Selectable(work[p])'
    BY <1>1, <2>10 DEF Selectable
  <2>15. Knows(work[p])'
    BY <1>1, <2>2, <2>3, <2>5, <2>8, <2>9, <2>10, <2>11, <2>12, <2>13, <2>14 DEF Knows
  <2> QED
    BY <1>0, <1>1, <1>4, <2>10, <2>11, <2>12, <2>15, HolderGoesOn
<1> QED
  BY <1>2, <1>3, <1>4

LEMMA StagedKeeps ==
    ASSUME UpdateInv, NEW p \in Process, Staged(p) PROVE UpdateInv'
<1>0. UpdateTypeOK /\ work[p] \in Work
  BY DEF UpdateInv, UpdateTypeOK
<1> DEFINE i == work[p].record.instance
<1>1. /\ work[p].at = "staging" /\ Holds(p) /\ UNCHANGED <<disk, proofs, lock, bootstrap, feed>>
      /\ Knows(work[p])
      /\ files' = [files EXCEPT ![i] = "complete"]
      /\ work' = [work EXCEPT ![p].at = "activating"]
  BY DEF Staged, Goes, Holds, UpdateInv
<1> DEFINE w == [work[p] EXCEPT !.at = "activating"]
<1>2. work' = [work EXCEPT ![p] = w]
  BY <1>0, <1>1 DEF UpdateTypeOK
<1>3. /\ w \in Work /\ w.at = "activating" /\ w.state = work[p].state /\ w.action = work[p].action
      /\ w.record = work[p].record
  BY <1>0 DEF Work, UpdateAt
<1> HIDE DEF w
<1>4. /\ work' \in [Process -> Work] /\ work'[p] = w
      /\ \A q \in Process : q # p => work'[q] = work[q]
  BY <1>0, <1>2, <1>3, WorkIs
<1>5. /\ i \in Instance /\ files' \in [Instance -> {"none", "partial", "complete", "damaged"}]
      /\ \A j \in Instance : files[j] \in {"complete", "damaged"} => files'[j] \in {"complete", "damaged"}
  <2>1. i \in Instance
    BY <1>1 DEF Knows
  <2> HIDE DEF i
  <2> QED
    BY <1>0, <1>1, <2>1 DEF UpdateTypeOK
<1> HIDE DEF i
<1>6. /\ Stood(disk.current)' /\ Stood(disk.previous)' /\ WellState(disk)'
      /\ Stood(work[p].state.current)' /\ Stood(work[p].state.previous)'
  <2>1. \A r : Stood(r) => Stood(r)'
    BY <1>1, <1>5 DEF Stood
  <2>2. Stood(disk.current) /\ Stood(disk.previous) /\ WellState(disk)
    BY DEF UpdateInv
  <2>3. Stood(work[p].state.current) /\ Stood(work[p].state.previous)
    BY <1>1 DEF Knows
  <2>4. work'[p].state = work[p].state
    BY <1>3, <1>4
  <2> QED
    BY <1>1, <2>1, <2>2, <2>3, <2>4 DEF WellState, Stood
<1>7. Selectable(work[p])'
  BY <1>1, <1>3, <1>4 DEF Knows, Selectable
<1>8. Knows(work[p])'
  BY <1>1, <1>3, <1>4, <1>5, <1>6, <1>7 DEF Knows
<1> QED
  BY <1>0, <1>1, <1>4, <1>5, <1>6, <1>8, HolderGoesOn DEF UpdateTypeOK

LEMMA AdoptedKeeps ==
    ASSUME UpdateInv, NEW p \in Process, Adopted(p) PROVE UpdateInv'
<1>0. UpdateTypeOK /\ work[p] \in Work /\ disk \in AnyState
  BY DEF UpdateInv, UpdateTypeOK
<1> DEFINE old == work[p].record
<1>1. /\ work[p].at = "adopting" /\ Holds(p) /\ UNCHANGED <<disk, proofs, lock, bootstrap, feed>>
      /\ Knows(work[p])
  BY DEF Adopted, Holds, UpdateInv
<1>2. PICK i \in Instance :
         /\ files[i] = "none"
         /\ files' = [files EXCEPT ![old.instance] = "complete", ![i] = "partial"]
         /\ work' = [work EXCEPT ![p].at = "staging", ![p].state.current = work[p].record,
                         ![p].record = [instance |-> i, ver |-> work[p].chosen, seq |-> work[p].seq]]
  BY DEF Adopted, NewInstance, Unused
<1>3. /\ old \in AnyRelease /\ old # NoRelease /\ old.seq \in proofs /\ old.instance \in Instance
      /\ files[old.instance] = "partial" /\ old.ver # work[p].chosen
      /\ work[p].state = disk /\ disk.current = NoRelease /\ disk.previous = NoRelease
      /\ disk.rollbackFrom = 0 /\ ~Contains(disk.blocked, work[p].chosen)
      /\ work[p].seq \in proofs \intersect Sequence /\ work[p].action # "rollback"
  BY <1>0, <1>1 DEF Knows, Work, WellState
<1> DEFINE new == [disk EXCEPT !.current = old]
           record == [instance |-> i, ver |-> work[p].chosen, seq |-> work[p].seq]
           w == [work[p] EXCEPT !.at = "staging", !.state = new, !.record = record]
<1>4. work' = [work EXCEPT ![p] = w]
  BY <1>0, <1>2, <1>3 DEF UpdateTypeOK, Work
<1>5. /\ new \in AnyState /\ new.current = old /\ new.previous = NoRelease /\ new.rollbackFrom = 0
      /\ new.blocked = disk.blocked
  BY <1>0, <1>3 DEF AnyState
<1>6. /\ record \in AnyRelease /\ record # NoRelease /\ record.ver = work[p].chosen
      /\ record.instance = i /\ record.seq = work[p].seq
  <2>1. i \in Nat /\ i # 0 /\ work[p].seq \in Nat /\ work[p].chosen \in Nat
    BY <1>0, UpdateAssumption DEF Instance, Work
  <2>2. /\ record \in AnyRelease /\ record.ver = work[p].chosen /\ record.instance = i
        /\ record.seq = work[p].seq
    BY <2>1 DEF AnyRelease
  <2> QED
    BY <2>1, <2>2 DEF NoRelease
<1>7. new = [disk EXCEPT !.current = new.current]
  BY <1>5
<1> HIDE DEF new, record
<1>8. /\ w \in Work /\ w.at = "staging" /\ w.state = new /\ w.action = work[p].action
      /\ w.seq = work[p].seq /\ w.record = record
  BY <1>0, <1>5, <1>6 DEF Work, UpdateAt
<1> HIDE DEF w
<1>9. /\ work' \in [Process -> Work] /\ work'[p] = w
      /\ \A q \in Process : q # p => work'[q] = work[q]
  BY <1>0, <1>4, <1>8, WorkIs
<1>10. /\ files' \in [Instance -> {"none", "partial", "complete", "damaged"}]
       /\ files'[i] = "partial" /\ files'[old.instance] = "complete"
       /\ \A j \in Instance : files[j] \in {"complete", "damaged"} => files'[j] \in {"complete", "damaged"}
  BY <1>0, <1>2, <1>3 DEF UpdateTypeOK
<1>11. Stood(disk.current)' /\ Stood(disk.previous)' /\ WellState(disk)'
  BY <1>1, <1>10 DEF UpdateInv, WellState, Stood
<1> HIDE DEF old
<1>12. Stood(work[p].state.current)' /\ Stood(work[p].state.previous)' /\ WellState(work[p].state)'
  BY <1>1, <1>3, <1>5, <1>8, <1>9, <1>10 DEF Stood, WellState
<1>13. Selectable(work[p])'
  BY <1>1, <1>3, <1>5, <1>6, <1>7, <1>8, <1>9 DEF Selectable
<1>14. Knows(work[p])'
  BY <1>1, <1>3, <1>5, <1>6, <1>8, <1>9, <1>10, <1>12, <1>13 DEF Knows
<1> QED
  BY <1>0, <1>1, <1>9, <1>10, <1>11, <1>14, HolderGoesOn

LEMMA StagingFailsKeeps ==
    ASSUME UpdateInv, NEW p \in Process, StagingFails(p) PROVE UpdateInv'
<1> DEFINE i == work[p].record.instance
<1>1. /\ Holds(p) /\ UNCHANGED <<disk, proofs, bootstrap, feed>> /\ Ends(p)
      /\ i \in Instance /\ files[i] = "partial" /\ files' = [files EXCEPT ![i] = "none"]
  BY DEF StagingFails, Holds, UpdateInv, Knows
<1> HIDE DEF i
<1>2. UpdateTypeOK'
  BY <1>1, EndsIs DEF UpdateInv, UpdateTypeOK
<1>3. Stood(disk.current)' /\ Stood(disk.previous)' /\ WellState(disk)'
  BY <1>1 DEF UpdateInv, Stood, WellState, UpdateTypeOK
<1> QED
  BY <1>1, <1>2, <1>3, EndsIs, HolderMoves DEF UpdateInv

\* A process that goes on with the same files.
LEMMA StaysAt ==
    ASSUME UpdateInv, NEW p \in Process, Holds(p), NEW w \in Work, work' = [work EXCEPT ![p] = w],
           UNCHANGED <<disk, proofs, files, lock, bootstrap, feed>>, Knows(w)
    PROVE  UpdateInv'
<1>1. /\ work' \in [Process -> Work] /\ work'[p] = w
      /\ \A q \in Process : q # p => work'[q] = work[q]
  BY WorkIs DEF UpdateInv
<1>2. Stood(disk.current)' /\ Stood(disk.previous)' /\ WellState(disk)'
  BY DEF UpdateInv, Stood, WellState
<1>3. Knows(work[p])'
  <2>1. \A r : Stood(r) => Stood(r)'
    BY DEF Stood
  <2>2. Selectable(w) => Selectable(work[p])'
    BY <1>1 DEF Selectable
  <2> QED
    BY <1>1, <2>1, <2>2 DEF Knows, WellState, Stood
<1> QED
  BY <1>1, <1>2, <1>3, HolderGoesOn DEF UpdateInv, UpdateTypeOK

LEMMA VerifyKeeps ==
    ASSUME UpdateInv, NEW p \in Process, VerifyPrevious(p) PROVE UpdateInv'
<1>0. UpdateTypeOK /\ work[p] \in Work
  BY DEF UpdateInv, UpdateTypeOK
<1>1. /\ work[p].at = "verifying" /\ Holds(p) /\ UNCHANGED <<disk, proofs, files, bootstrap, feed>>
      /\ Knows(work[p])
  BY DEF VerifyPrevious, Holds, UpdateInv
<1>2. CASE Ends(p)
  BY <1>1, <1>2, GivesBack
<1>3. CASE Goes(p, "activating") /\ UNCHANGED lock
  <2> DEFINE w == [work[p] EXCEPT !.at = "activating"]
  <2>1. work' = [work EXCEPT ![p] = w]
    BY <1>0, <1>3 DEF UpdateTypeOK, Goes
  <2>2. /\ w \in Work /\ w.at = "activating" /\ w.state = work[p].state /\ w.action = work[p].action
        /\ w.record = work[p].record
    BY <1>0 DEF Work, UpdateAt
  <2> HIDE DEF w
  <2>3. w.record.instance \in Instance
    BY <1>1, <2>2 DEF UpdateInv, Knows, Stood
  <2>4. Knows(w)
    BY <1>1, <2>2, <2>3 DEF Knows
  <2> QED
    BY <1>1, <1>3, <2>1, <2>2, <2>4, StaysAt
<1> QED
  BY <1>2, <1>3 DEF VerifyPrevious

LEMMA NextIs ==
    ASSUME UpdateInv, NEW p \in Process, work[p].at = "activating"
    PROVE  /\ NextState(p) \in AnyState /\ NextState(p).current = work[p].record
           /\ NextState(p).highest = disk.highest /\ WellState(NextState(p))
           /\ NextState(p).previous \in {NoRelease, work[p].state.previous, work[p].state.current}
           /\ ~Contains(NextState(p).blocked, work[p].record.ver)
           /\ \/ EffectiveVersion(bootstrap, NextState(p)) >= EffectiveVersion(bootstrap, disk)
              \/ NextState(p).rollbackFrom = disk.current.ver
           /\ work[p].state.highest = disk.highest
           /\ disk.current \in {NoRelease, work[p].state.current}
<1>1. /\ UpdateTypeOK /\ work[p] \in Work /\ disk \in AnyState /\ Knows(work[p])
      /\ WellState(disk) /\ bootstrap \in Nat
  BY DEF UpdateInv, UpdateTypeOK, Holds
<1> DEFINE state == work[p].state
           record == work[p].record
           next == NextState(p)
<1>2. /\ state \in AnyState /\ record \in AnyRelease /\ record # NoRelease /\ WellState(state)
      /\ record.ver \in Nat
  BY <1>1 DEF Knows, Work, AnyRelease
<1>3. next = Selecting(state, record, IsRepair(p), IsRollback(p))
  BY DEF NextState
<1>4. IsRepair(p) \in BOOLEAN /\ IsRollback(p) \in BOOLEAN
  BY DEF IsRepair, IsRollback
<1>5. /\ IsRepair(p) => record.ver = state.current.ver
      /\ ~IsRepair(p) /\ ~IsRollback(p) /\ state.current # NoRelease => record.ver # state.current.ver
  BY DEF IsRepair
<1>6. IsRollback(p) <=> work[p].action = "rollback"
  BY DEF IsRollback
<1>7. IF IsRollback(p)
      THEN /\ state = disk /\ record = disk.previous /\ ~Contains(disk.blocked, record.ver)
      ELSE Selectable(work[p])
  BY <1>1, <1>6 DEF Knows
<1>8. /\ next \in AnyState /\ next.current = record /\ next.highest = state.highest
      /\ next.previous \in {NoRelease, state.previous, state.current}
      /\ WellState(next)
      /\ next.rollbackFrom = IF IsRollback(p) THEN state.current.ver
                             ELSE IF record.ver >= state.rollbackFrom THEN 0
                             ELSE state.rollbackFrom
      /\ next.blocked = IF IsRollback(p) THEN BlockVersion(state.blocked, state.current.ver)
                        ELSE state.blocked
  <2> HIDE DEF state, record, next
  <2> QED
    BY <1>2, <1>3, <1>4, <1>5, SelectingIs
<1> HIDE DEF next
<1>9. CASE IsRollback(p)
  <2>1. /\ disk.current.ver \in Nat /\ disk.blocked \in Seq(Nat)
        /\ disk.current.ver # record.ver
    BY <1>1, <1>2, <1>7, <1>9 DEF WellState, AnyState, AnyRelease
  <2>2. ~Contains(next.blocked, record.ver)
    <3>1. next.blocked = BlockVersion(disk.blocked, disk.current.ver)
      BY <1>7, <1>8, <1>9
    <3>2. ~Contains(disk.blocked, record.ver)
      BY <1>7, <1>9
    <3> HIDE DEF record
    <3>3. \A u \in Nat : Contains(BlockVersion(disk.blocked, disk.current.ver), u)
                          => u = disk.current.ver \/ Contains(disk.blocked, u)
      BY <2>1, BlockedIs
    <3> QED
      BY <1>2, <2>1, <3>1, <3>2, <3>3
  <2> QED
    BY <1>7, <1>8, <1>9, <2>2 DEF next
<1>10. CASE ~IsRollback(p)
  <2>1. Selectable(work[p])
    BY <1>7, <1>10
  <2>2. /\ state.highest = disk.highest /\ state.rollbackFrom = disk.rollbackFrom
        /\ state.blocked = disk.blocked /\ disk.current \in {NoRelease, state.current}
        /\ ~Contains(state.blocked, record.ver)
        /\ disk.current # NoRelease => record.ver >= disk.current.ver
    BY <1>1, <2>1 DEF Selectable, AnyState
  <2> HIDE DEF state, record
  <2>3. next.rollbackFrom = IF next.current.ver >= disk.rollbackFrom THEN 0 ELSE disk.rollbackFrom
    BY <1>8, <1>10, <2>2
  <2>4. EffectiveVersion(bootstrap, next) >= EffectiveVersion(bootstrap, disk)
    BY <1>1, <1>2, <1>8, <2>2, <2>3, NeverOlder
  <2> QED
    BY <1>8, <1>10, <2>2, <2>4 DEF next, state, record
<1> QED
  BY <1>9, <1>10

\* What one step may do to state.json.
Moved ==
    /\ disk'.highest >= disk.highest
    /\ disk'.current # disk.current =>
         IF \E p \in Process : Undoes(p)
         THEN \E p \in Process : Undoes(p) /\ disk'.current = Replaced(p)
         ELSE /\ ~Contains(disk'.blocked, disk'.current.ver)
              /\ \/ EffectiveVersion(bootstrap, disk') >= EffectiveVersion(bootstrap, disk)
                 \/ disk'.rollbackFrom = disk.current.ver

LEMMA SelectsKeeps ==
    ASSUME UpdateInv, NEW p \in Process, work[p].at = "activating", Installed(work[p].record),
           disk' \in {disk, NextState(p)}, UNCHANGED <<proofs, files, lock, bootstrap, feed>>,
           NEW at \in {"probing", "restoring"},
           work' = [work EXCEPT ![p].at = at, ![p].before = disk.current]
    PROVE  UpdateInv' /\ Moved
<1>1. /\ UpdateTypeOK /\ work[p] \in Work /\ disk \in AnyState /\ Knows(work[p]) /\ Holds(p)
      /\ disk.current \in AnyRelease
  BY DEF UpdateInv, UpdateTypeOK, Holds, AnyState
<1>2. /\ disk' \in AnyState /\ disk'.highest = disk.highest
      /\ work[p].state.highest = disk.highest /\ disk.current \in {NoRelease, work[p].state.current}
  BY <1>1, NextIs
<1>3. /\ \A r : Stood(r) => Stood(r)'
      /\ Stood(disk.current) /\ Stood(disk.previous) /\ WellState(disk)
      /\ Stood(work[p].state.current) /\ Stood(work[p].state.previous) /\ WellState(work[p].state)
      /\ Stood(work[p].record) /\ Stood(NoRelease)
  BY <1>1 DEF Stood, UpdateInv, Knows, Installed
<1>4. Stood(disk'.current) /\ Stood(disk'.previous) /\ WellState(disk')
  <2>1. CASE disk' = disk
    BY <1>3, <2>1
  <2>2. CASE disk' = NextState(p)
    <3>1. /\ NextState(p).current = work[p].record /\ WellState(NextState(p))
          /\ NextState(p).previous \in {NoRelease, work[p].state.previous, work[p].state.current}
      BY NextIs
    <3> QED
      BY <1>3, <2>2, <3>1
  <2> QED
    BY <2>1, <2>2
<1>5. Stood(disk.current)' /\ Stood(disk.previous)' /\ WellState(disk)'
  BY <1>4 DEF Stood, WellState
<1> DEFINE w == [work[p] EXCEPT !.at = at, !.before = disk.current]
<1>6. work' = [work EXCEPT ![p] = w]
  BY <1>1 DEF UpdateTypeOK
<1>7. /\ w \in Work /\ w.at = at /\ w.before = disk.current /\ w.state = work[p].state
  BY <1>1 DEF Work, UpdateAt
<1> HIDE DEF w
<1>8. /\ work' \in [Process -> Work] /\ work'[p] = w
      /\ \A q \in Process : q # p => work'[q] = work[q]
  BY <1>1, <1>6, <1>7, WorkIs
<1>9. Knows(work[p])'
  <2>1. work'[p].state = work[p].state
    BY <1>7, <1>8
  <2>2. Stood(work[p].state.current)' /\ Stood(work[p].state.previous)' /\ WellState(work[p].state)'
    BY <1>3, <2>1 DEF Stood, WellState
  <2> QED
    BY <1>2, <1>7, <1>8, <2>2 DEF Knows
<1>10. UpdateInv'
  BY <1>1, <1>2, <1>5, <1>8, <1>9, HolderGoesOn DEF UpdateTypeOK
<1>11. \A q \in Process : ~Undoes(q)
  <2>1. Idle.at = "idle"
    BY DEF Idle
  <2> QED
    BY <1>7, <1>8, <2>1 DEF Undoes
<1>12. disk'.highest >= disk.highest
  BY <1>1, <1>2 DEF AnyState
<1>13. ASSUME disk'.current # disk.current
       PROVE  /\ ~Contains(disk'.blocked, disk'.current.ver)
              /\ \/ EffectiveVersion(bootstrap, disk') >= EffectiveVersion(bootstrap, disk)
                 \/ disk'.rollbackFrom = disk.current.ver
  <2>1. disk' = NextState(p)
    BY <1>13
  <2> QED
    BY <2>1, NextIs
<1> QED
  BY <1>10, <1>11, <1>12, <1>13 DEF Moved

\* Steps that leave state.json alone.
LEMMA DiskStays ==
    ASSUME UpdateInv, UNCHANGED disk PROVE Moved
<1>1. disk.highest \in Nat
  BY DEF UpdateInv, UpdateTypeOK, AnyState
<1> QED
  BY <1>1 DEF Moved

LEMMA ActivateKeeps ==
    ASSUME UpdateInv, NEW p \in Process, Activate(p) PROVE UpdateInv' /\ Moved
<1>1. CASE Installed(work[p].record)
  BY <1>1, SelectsKeeps DEF Activate
<1>2. CASE ~Installed(work[p].record)
  <2>1. /\ Holds(p) /\ Ends(p) /\ UNCHANGED <<disk, proofs, files, bootstrap, feed>>
    BY <1>2 DEF Activate, Holds
  <2> QED
    BY <2>1, GivesBack, DiskStays
<1> QED
  BY <1>1, <1>2

LEMMA ActivateFailsKeeps ==
    ASSUME UpdateInv, NEW p \in Process, ActivateFails(p) PROVE UpdateInv' /\ Moved
  BY SelectsKeeps DEF ActivateFails

\* The selection is to be put back.
LEMMA BlamesKeeps ==
    ASSUME UpdateInv, NEW p \in Process, work[p].at = "probing", NEW blame \in BOOLEAN,
           work' = [work EXCEPT ![p].at = "restoring", ![p].blame = blame],
           UNCHANGED <<disk, proofs, files, lock, bootstrap, feed>>
    PROVE  UpdateInv'
<1>1. /\ UpdateTypeOK /\ work[p] \in Work /\ Knows(work[p]) /\ Holds(p)
  BY DEF UpdateInv, UpdateTypeOK, Holds
<1> DEFINE w == [work[p] EXCEPT !.at = "restoring", !.blame = blame]
<1>2. work' = [work EXCEPT ![p] = w]
  BY <1>1 DEF UpdateTypeOK
<1>3. /\ w \in Work /\ w.at = "restoring" /\ w.state = work[p].state
      /\ w.before = work[p].before
  BY <1>1 DEF Work, UpdateAt
<1> HIDE DEF w
<1>4. Knows(w)
  BY <1>1, <1>3 DEF Knows
<1> QED
  BY <1>1, <1>2, <1>3, <1>4, StaysAt

LEMMA ProbeKeeps ==
    ASSUME UpdateInv, NEW p \in Process, Probe(p) PROVE UpdateInv'
<1>1. CASE Installed(work[p].record)
  <2>1. Holds(p) /\ Ends(p) /\ UNCHANGED <<disk, proofs, files, bootstrap, feed>>
    BY <1>1 DEF Probe, Holds
  <2> QED
    BY <2>1, GivesBack
<1>2. CASE ~Installed(work[p].record)
  <2> DEFINE blame == ~IsRepair(p) /\ ~IsRollback(p)
  <2>1. blame \in BOOLEAN
    BY DEF IsRepair, IsRollback
  <2>2. /\ work[p].at = "probing" /\ UNCHANGED <<disk, proofs, files, lock, bootstrap, feed>>
        /\ work' = [work EXCEPT ![p].at = "restoring", ![p].blame = blame]
    BY <1>2 DEF Probe
  <2> HIDE DEF blame
  <2> QED
    BY <2>1, <2>2, BlamesKeeps
<1> QED
  BY <1>1, <1>2

LEMMA ProbeFailsKeeps ==
    ASSUME UpdateInv, NEW p \in Process, ProbeFails(p) PROVE UpdateInv'
<1>1. PICK late \in BOOLEAN :
         work' = [work EXCEPT ![p].at = "restoring",
                      ![p].blame = ~late /\ ~IsRepair(p) /\ ~IsRollback(p)]
  BY DEF ProbeFails
<1> DEFINE blame == ~late /\ ~IsRepair(p) /\ ~IsRollback(p)
<1>2. blame \in BOOLEAN
  BY DEF IsRepair, IsRollback
<1>3. /\ work[p].at = "probing" /\ UNCHANGED <<disk, proofs, files, lock, bootstrap, feed>>
      /\ work' = [work EXCEPT ![p].at = "restoring", ![p].blame = blame]
  BY <1>1 DEF ProbeFails
<1> HIDE DEF blame
<1> QED
  BY <1>2, <1>3, BlamesKeeps

LEMMA RestoreKeeps ==
    ASSUME UpdateInv, NEW p \in Process, Restore(p) PROVE UpdateInv' /\ Moved
<1>1. /\ UpdateTypeOK /\ work[p] \in Work /\ Knows(work[p]) /\ Holds(p) /\ disk \in AnyState
      /\ Ends(p) /\ UNCHANGED <<proofs, files, bootstrap, feed>>
  BY DEF UpdateInv, UpdateTypeOK, Holds, Restore
<1> DEFINE blocked == IF work[p].blame THEN BlockVersion(work[p].state.blocked, work[p].record.ver)
                      ELSE work[p].state.blocked
<1>2. work[p].state \in AnyState /\ work[p].record.ver \in Nat
  BY <1>1 DEF Work, AnyRelease
<1>3. blocked \in Seq(Nat)
  <2>1. work[p].state.blocked \in Seq(Nat)
    BY <1>2 DEF AnyState
  <2> QED
    BY <1>2, <2>1, BlockedIs
<1>4. disk' = [work[p].state EXCEPT !.blocked = blocked]
  BY DEF Restore
<1> HIDE DEF blocked
<1>5. /\ disk' \in AnyState /\ disk'.current = work[p].state.current
      /\ disk'.previous = work[p].state.previous /\ disk'.rollbackFrom = work[p].state.rollbackFrom
      /\ disk'.highest = work[p].state.highest
  BY <1>2, <1>3, <1>4 DEF AnyState
<1>6. /\ Stood(disk.current)' /\ Stood(disk.previous)' /\ WellState(disk)'
  BY <1>1, <1>5 DEF Knows, Stood, WellState
<1>7. UpdateInv'
  BY <1>1, <1>5, <1>6, EndsIs, HolderMoves DEF UpdateTypeOK
<1>8. work[p].at = "restoring" /\ work'[p] = Idle
  BY <1>1 DEF Restore, Ends, UpdateTypeOK
<1>9. work[p].before \in {NoRelease, work[p].state.current} /\ work[p].state.highest = disk.highest
  BY <1>1, <1>8 DEF Knows
<1>10. Undoes(p) /\ disk'.current = Replaced(p)
  BY <1>5, <1>8, <1>9 DEF Undoes, Replaced
<1>11. disk'.highest >= disk.highest
  BY <1>1, <1>5, <1>9 DEF AnyState
<1> QED
  BY <1>7, <1>10, <1>11 DEF Moved

\* A process without the lock comes or goes.
LEMMA BystanderKeeps ==
    ASSUME UpdateInv, NEW p \in Process, ~Holds(p), NEW w \in Work, w.at \in {"idle", "waiting"},
           work' = [work EXCEPT ![p] = w], lock' = lock \/ (lock = p /\ lock' = NoProcess),
           UNCHANGED <<disk, proofs, files, bootstrap, feed>>
    PROVE  UpdateInv'
<1>1. /\ work' \in [Process -> Work] /\ work'[p] = w
      /\ \A q \in Process : q # p => work'[q] = work[q]
  BY WorkIs DEF UpdateInv
<1>2. \A r : Stood(r) => Stood(r)'
  BY DEF Stood
<1>3. UpdateTypeOK'
  BY <1>1 DEF UpdateInv, UpdateTypeOK
<1>4. Stood(disk.current)' /\ Stood(disk.previous)' /\ WellState(disk)'
  BY DEF UpdateInv, Stood, WellState
<1>5. ASSUME NEW q \in Process, Holds(q)'
      PROVE  lock' = q /\ Knows(work[q])'
  <2>1. q # p /\ work'[q] = work[q]
    BY <1>1, <1>5 DEF Holds
  <2>2. Holds(q)
    BY <1>5, <2>1 DEF Holds
  <2>3. lock = q /\ Knows(work[q])
    BY <2>2 DEF UpdateInv
  <2>4. Selectable(work[q]) => Selectable(work[q])'
    BY <2>1 DEF Selectable
  <2>5. Stood(work[q].state.current)' /\ Stood(work[q].state.previous)' /\ WellState(work[q].state)'
    BY <2>1, <2>3 DEF Knows, Stood, WellState
  <2>6. Knows(work[q])'
    BY <2>1, <2>3, <2>4, <2>5 DEF Knows
  <2> QED
    BY <2>1, <2>3, <2>6
<1> QED
  BY <1>3, <1>4, <1>5 DEF UpdateInv

LEMMA AskKeeps ==
    ASSUME UpdateInv, NEW p \in Process,
           NEW action \in {"check", "apply", "install", "repair", "rollback"}, Ask(p, action)
    PROVE  UpdateInv'
<1>1. PICK running \in {bootstrap} \union {disk.current.ver} :
         work' = [work EXCEPT ![p] = [Idle EXCEPT !.at = "waiting", !.action = action,
                                                  !.running = running]]
  BY DEF Ask
<1>2. running \in Nat
  BY DEF UpdateInv, UpdateTypeOK, AnyState, AnyRelease
<1>3. Empty \in AnyState /\ NoRelease \in AnyRelease
  BY DEF Empty, AnyState, NoRelease, AnyRelease
<1> DEFINE w == [Idle EXCEPT !.at = "waiting", !.action = action, !.running = running]
<1>4. w \in Work /\ w.at = "waiting"
  BY <1>2, <1>3 DEF Idle, Work, UpdateAt
<1>5. ~Holds(p)
  BY DEF Ask, Holds, Idle
<1> HIDE DEF w
<1> QED
  BY <1>1, <1>4, <1>5, BystanderKeeps DEF Ask, w

LEMMA KillKeeps ==
    ASSUME UpdateInv, NEW p \in Process, Kill(p) PROVE UpdateInv'
<1>1. CASE Holds(p)
  <2>1. lock = p
    BY <1>1 DEF UpdateInv
  <2>2. Ends(p) /\ UNCHANGED <<disk, proofs, files, bootstrap, feed>>
    BY <2>1 DEF Kill, Ends
  <2> QED
    BY <1>1, <2>2, GivesBack
<1>2. CASE ~Holds(p)
  <2>1. Empty \in AnyState /\ NoRelease \in AnyRelease
    BY DEF Empty, AnyState, NoRelease, AnyRelease
  <2>2. Idle \in Work /\ Idle.at = "idle"
    BY <2>1 DEF Idle, Work, UpdateAt
  <2>3. /\ work' = [work EXCEPT ![p] = Idle] /\ UNCHANGED <<disk, proofs, files, bootstrap, feed>>
        /\ (lock' = lock) \/ (lock = p /\ lock' = NoProcess)
    BY DEF Kill
  <2> QED
    BY <1>2, <2>2, <2>3, BystanderKeeps
<1> QED
  BY <1>1, <1>2

\* What happens around the processes.
LEMMA WorldKeeps ==
    ASSUME UpdateInv, UpdateTypeOK', UNCHANGED <<disk, proofs, lock, work>>,
           \A j \in Instance : files[j] \in {"complete", "damaged"} => files'[j] \in {"complete", "damaged"},
           \A j \in Instance : files[j] = "partial" => files'[j] = "partial"
    PROVE  UpdateInv'
<1>1. \A r : Stood(r) => Stood(r)'
  BY DEF Stood
<1>2. Stood(disk.current)' /\ Stood(disk.previous)' /\ WellState(disk)'
  BY DEF UpdateInv, Stood, WellState
<1>3. ASSUME NEW q \in Process, Holds(q)'
      PROVE  lock' = q /\ Knows(work[q])'
  <2>1. Holds(q) /\ work'[q] = work[q]
    BY <1>3 DEF Holds
  <2>2. lock = q /\ Knows(work[q])
    BY <2>1 DEF UpdateInv
  <2>3. Selectable(work[q]) => Selectable(work[q])'
    BY <2>1 DEF Selectable
  <2>4. Stood(work[q].state.current)' /\ Stood(work[q].state.previous)' /\ WellState(work[q].state)'
    BY <2>1, <2>2 DEF Knows, Stood, WellState
  <2>5. Knows(work[q])'
    BY <2>1, <2>2, <2>3, <2>4 DEF Knows
  <2> QED
    BY <2>2, <2>5
<1> QED
  BY <1>2, <1>3 DEF UpdateInv

LEMMA UpdateInvNext == UpdateInv /\ [UpdateNext]_updateVars => UpdateInv' /\ Moved
<1> SUFFICES ASSUME UpdateInv, [UpdateNext]_updateVars PROVE UpdateInv' /\ Moved
  OBVIOUS
<1>1. ASSUME NEW p \in Process, Acquire(p) \/ Fetch(p) \/ Select(p) \/ Staged(p) \/ Adopted(p)
                                \/ StagingFails(p) \/ VerifyPrevious(p)
      PROVE  UpdateInv' /\ Moved
  <2>1. UpdateInv'
    BY <1>1, AcquireKeeps, FetchKeeps, SelectKeeps, StagedKeeps, AdoptedKeeps, StagingFailsKeeps,
       VerifyKeeps
  <2>2. UNCHANGED disk
    BY <1>1 DEF Acquire, Fetch, Select, Staged, Adopted, StagingFails, VerifyPrevious
  <2> QED
    BY <2>1, <2>2, DiskStays
<1>2. ASSUME NEW p \in Process, PreviousFails(p) \/ RestoreFails(p)
      PROVE  UpdateInv' /\ Moved
  <2>1. Holds(p) /\ Ends(p) /\ UNCHANGED <<disk, proofs, files, bootstrap, feed>>
    BY <1>2 DEF PreviousFails, RestoreFails, Holds
  <2> QED
    BY <2>1, GivesBack, DiskStays
<1>3. ASSUME NEW p \in Process, Probe(p) \/ ProbeFails(p) \/ Kill(p)
      PROVE  UpdateInv' /\ Moved
  <2>1. UpdateInv'
    BY <1>3, ProbeKeeps, ProbeFailsKeeps, KillKeeps
  <2>2. UNCHANGED disk
    BY <1>3 DEF Probe, ProbeFails, Kill
  <2> QED
    BY <2>1, <2>2, DiskStays
<1>4. ASSUME NEW p \in Process, SaveWatermark(p)
      PROVE  UpdateInv' /\ Moved
  BY <1>4, SaveWatermarkKeeps DEF Moved
<1>5. ASSUME NEW p \in Process, Activate(p) \/ ActivateFails(p) \/ Restore(p)
      PROVE  UpdateInv' /\ Moved
  BY <1>5, ActivateKeeps, ActivateFailsKeeps, RestoreKeeps
<1>6. ASSUME NEW p \in Process, NEW action \in {"check", "apply", "install", "repair", "rollback"},
             Ask(p, action)
      PROVE  UpdateInv' /\ Moved
  <2>1. UNCHANGED disk
    BY <1>6 DEF Ask
  <2> QED
    BY <1>6, <2>1, AskKeeps, DiskStays
<1>7. ASSUME NEW i \in Instance, Damage(i)
      PROVE  UpdateInv' /\ Moved
  <2>1. /\ files[i] = "complete" /\ files' = [files EXCEPT ![i] = "damaged"]
        /\ UNCHANGED <<disk, proofs, lock, work, bootstrap, feed>>
    BY <1>7 DEF Damage
  <2>2. files \in [Instance -> {"none", "partial", "complete", "damaged"}]
    BY DEF UpdateInv, UpdateTypeOK
  <2>3. /\ files' \in [Instance -> {"none", "partial", "complete", "damaged"}]
        /\ \A j \in Instance : files[j] \in {"complete", "damaged"} => files'[j] \in {"complete", "damaged"}
        /\ \A j \in Instance : files[j] = "partial" => files'[j] = "partial"
    BY <2>1, <2>2
  <2>4. UpdateTypeOK'
    BY <2>1, <2>3 DEF UpdateInv, UpdateTypeOK
  <2> QED
    BY <2>1, <2>3, <2>4, WorldKeeps, DiskStays
<1>8. ASSUME InstallByHand \/ Publish \/ UNCHANGED updateVars
      PROVE  UpdateInv' /\ Moved
  <2>1. UNCHANGED <<disk, proofs, files, lock, work>>
    BY <1>8 DEF InstallByHand, Publish, updateVars
  <2>2. bootstrap' \in Nat /\ feed' \in 1..Len(FeedAt)
    <3>1. bootstrap \in Nat /\ feed \in 1..Len(FeedAt)
      BY DEF UpdateInv, UpdateTypeOK
    <3> QED
      BY <1>8, <3>1, UpdateAssumption DEF InstallByHand, Publish, updateVars
  <2>3. UpdateTypeOK'
    BY <2>1, <2>2 DEF UpdateInv, UpdateTypeOK
  <2> QED
    BY <2>1, <2>3, WorldKeeps, DiskStays
<1> QED
  BY <1>1, <1>2, <1>3, <1>4, <1>5, <1>6, <1>7, <1>8 DEF UpdateNext

\* Whenever bbx starts, the release that state.json selects and the one it can be
\* rolled back to were staged to the end and have their proof (stageFrom, activate).
THEOREM SelectionKept == UpdateSpec => []SelectionRuns
<1>1. UpdateInv => SelectionRuns
  BY DEF UpdateInv, SelectionRuns, Stood, Kept
<1> QED
  BY UpdateInvInit, UpdateInvNext, <1>1, PTL DEF UpdateSpec

\* A write of state.json never goes back to an older feed, selects no blocked
\* release and makes nothing older run but in a rollback; a failed activation puts
\* back what it replaced (run, activate).
THEOREM SelectionsMove == UpdateSpec => SelectionMoves
<1>1. Moved => [/\ disk'.highest >= disk.highest
                /\ disk'.current # disk.current =>
                     IF \E p \in Process : Undoes(p)
                     THEN \E p \in Process : Undoes(p) /\ disk'.current = Replaced(p)
                     ELSE /\ ~Contains(disk'.blocked, disk'.current.ver)
                          /\ \/ EffectiveVersion(bootstrap, disk') >= EffectiveVersion(bootstrap, disk)
                             \/ disk'.rollbackFrom = disk.current.ver]_updateVars
  BY DEF Moved
<1> QED
  BY UpdateInvInit, UpdateInvNext, <1>1, PTL DEF UpdateSpec, SelectionMoves
-----------------------------------------------------------------------------
(* Baselines: first what lists have after their operators. *)

\* What is picked is what is at the places: the k-th of n places has k - 1 before it.
LEMMA PickedHas ==
  ASSUME NEW S, NEW list \in Seq(S), NEW places \in SUBSET (DOMAIN list)
  PROVE  /\ Picked(list, places) \in Seq(S)
         /\ ToSet(Picked(list, places)) = {list[i] : i \in places}
<1> DEFINE n == Cardinality(places)
           before(i) == {j \in places : j <= i}
           rank == [i \in places |-> Cardinality(before(i))]
           at(k) == CHOOSE i \in places : Cardinality(before(i)) = k
<1>1. places \subseteq 1..Len(list) /\ Len(list) \in Nat /\ IsFiniteSet(places)
  <2>1. places \subseteq 1..Len(list) /\ Len(list) \in Nat
    OBVIOUS
  <2>2. IsFiniteSet(1..Len(list))
    BY <2>1, FS_Interval
  <2> QED
    BY <2>1, <2>2, FS_Subset
<1>2. n \in Nat /\ IsFiniteSet(1..n) /\ Cardinality(1..n) = n
  <2>1. n \in Nat
    BY <1>1, FS_CardinalityType
  <2> HIDE DEF n
  <2>2. IsFiniteSet(1..n) /\ Cardinality(1..n) = IF 1 > n THEN 0 ELSE n - 1 + 1
    BY <2>1, FS_Interval
  <2> QED
    BY <2>1, <2>2
<1>3. ASSUME NEW i \in places
      PROVE  IsFiniteSet(before(i)) /\ Cardinality(before(i)) \in 1..n
  <2>1. before(i) \subseteq places /\ i \in before(i)
    BY <1>1
  <2>2. IsFiniteSet(before(i)) /\ Cardinality(before(i)) <= n
    BY <1>1, <2>1, FS_Subset
  <2>3. Cardinality(before(i)) \in Nat /\ Cardinality(before(i)) # 0
    BY <2>1, <2>2, FS_CardinalityType, FS_EmptySet
  <2> QED
    BY <1>2, <2>2, <2>3
<1>4. ASSUME NEW i \in places, NEW j \in places, i < j
      PROVE  Cardinality(before(i)) # Cardinality(before(j))
  <2>1. before(i) \subseteq before(j) /\ j \in before(j) /\ j \notin before(i)
    BY <1>1, <1>4
  <2>2. IsFiniteSet(before(j))
    BY <1>3
  <2> QED
    BY <2>1, <2>2, FS_Subset
<1>5. rank \in Injection(places, 1..n)
  <2>1. rank \in [places -> 1..n]
    BY <1>3
  <2>2. ASSUME NEW i \in places, NEW j \in places, i # j PROVE rank[i] # rank[j]
    <3>1. i < j \/ j < i
      BY <1>1, <2>2
    <3> QED
      BY <1>4, <3>1
  <2> QED
    BY <2>1, <2>2 DEF Injection, IsInjective
<1>6. rank \in Surjection(places, 1..n)
  <2> HIDE DEF rank
  <2> QED
    BY <1>1, <1>2, <1>5, FS_Injection
<1>7. ASSUME NEW k \in 1..n PROVE at(k) \in places /\ Cardinality(before(at(k))) = k
  <2>1. \E i \in places : rank[i] = k
    BY <1>6 DEF Surjection
  <2> QED
    BY <2>1
<1>8. Picked(list, places) = [k \in 1..n |-> list[at(k)]]
  BY DEF Picked
<1>9. ASSUME NEW k \in 1..n PROVE list[at(k)] \in S
  <2>1. at(k) \in 1..Len(list)
    BY <1>1, <1>7
  <2> HIDE DEF at
  <2> QED
    BY <2>1
<1>10. Picked(list, places) \in Seq(S)
  <2> HIDE DEF at, n
  <2>1. Picked(list, places) \in [1..n -> S]
    BY <1>8, <1>9
  <2> QED
    BY <1>2, <2>1, SeqDef
<1>11. DOMAIN Picked(list, places) = 1..n
  BY <1>8
<1>12. ASSUME NEW i \in places PROVE list[i] \in ToSet(Picked(list, places))
  <2>1. rank[i] \in 1..n /\ Cardinality(before(i)) = rank[i]
    BY <1>3
  <2>2. at(rank[i]) = i
    <3>1. at(rank[i]) \in places /\ Cardinality(before(at(rank[i]))) = Cardinality(before(i))
      BY <1>7, <2>1
    <3>2. at(rank[i]) \in Nat /\ i \in Nat
      BY <1>1, <3>1
    <3> HIDE DEF at, before
    <3>3. ~(at(rank[i]) < i) /\ ~(i < at(rank[i]))
      BY <1>4, <3>1
    <3> QED
      BY <3>2, <3>3
  <2>3. Picked(list, places)[rank[i]] = list[i]
    BY <1>8, <2>1, <2>2
  <2> HIDE DEF rank
  <2> QED
    BY <1>11, <2>1, <2>3 DEF ToSet
<1>13. ASSUME NEW x \in ToSet(Picked(list, places)) PROVE x \in {list[i] : i \in places}
  <2>1. PICK k \in 1..n : x = list[at(k)]
    BY <1>8, <1>11 DEF ToSet
  <2> QED
    BY <1>7, <2>1
<1> QED
  BY <1>10, <1>12, <1>13

\* What is left out is gone and nothing else.
LEMMA WithoutHas ==
  ASSUME NEW S, NEW list \in Seq(S), NEW gone
  PROVE  Without(list, gone) \in Seq(S) /\ ToSet(Without(list, gone)) = ToSet(list) \ gone
<1> DEFINE places == {i \in DOMAIN list : list[i] \notin gone}
<1>1. places \in SUBSET (DOMAIN list)
  OBVIOUS
<1>2. Picked(list, places) \in Seq(S) /\ ToSet(Picked(list, places)) = {list[i] : i \in places}
  <2> HIDE DEF places
  <2> QED
    BY <1>1, PickedHas
<1> QED
  BY <1>2 DEF Without, ToSet

\* A list without its head, with one more at its end, followed by another.
LEMMA TailElements ==
  ASSUME NEW S, NEW q \in Seq(S), q # <<>>
  PROVE  /\ Head(q) \in S /\ Tail(q) \in Seq(S) /\ ToSet(q) = {Head(q)} \union ToSet(Tail(q))
         /\ Len(q) \in Nat /\ Len(q) >= 1 /\ Head(q) = q[1]
         /\ DOMAIN q = 1..Len(q) /\ Len(Tail(q)) = Len(q) - 1 /\ DOMAIN Tail(q) = 1..Len(q) - 1
         /\ \A i \in 1..Len(q) - 1 : Tail(q)[i] = q[i + 1]
<1>1. /\ Head(q) \in S /\ Tail(q) \in Seq(S) /\ Len(Tail(q)) = Len(q) - 1
      /\ \A i \in 1..Len(Tail(q)) : Tail(q)[i] = q[i + 1]
  BY HeadTailProperties
<1>2. Len(q) \in Nat /\ Len(q) >= 1 /\ DOMAIN q = 1..Len(q) /\ Head(q) = q[1]
  OBVIOUS
<1>3. DOMAIN Tail(q) = 1..Len(q) - 1
  BY <1>1
<1> DEFINE r == Tail(q)
<1>4. ToSet(q) = {Head(q)} \union ToSet(r)
  <2>1. \A i \in 1..Len(q) - 1 : r[i] = q[i + 1] /\ i + 1 \in 1..Len(q)
    BY <1>1, <1>2
  <2>2. \A i \in 1..Len(q) : i = 1 \/ (i - 1 \in 1..Len(q) - 1 /\ (i - 1) + 1 = i)
    BY <1>2
  <2>3. 1 \in 1..Len(q) /\ DOMAIN r = 1..Len(q) - 1
    BY <1>2, <1>3
  <2> HIDE DEF r
  <2>4. ASSUME NEW i \in 1..Len(q) PROVE q[i] \in {Head(q)} \union ToSet(r)
    <3>1. CASE i = 1
      BY <1>2, <3>1
    <3>2. CASE i - 1 \in 1..Len(q) - 1 /\ (i - 1) + 1 = i
      <4> DEFINE h == i - 1
      <4>1. h \in DOMAIN r /\ r[h] = q[i]
        BY <2>1, <2>3, <3>2
      <4> QED
        BY <4>1 DEF ToSet
    <3> QED
      BY <2>2, <3>1, <3>2
  <2>5. ASSUME NEW x \in ToSet(r) PROVE x \in ToSet(q)
    <3>1. PICK i \in 1..Len(q) - 1 : x = r[i]
      BY <2>3 DEF ToSet
    <3> DEFINE h == i + 1
    <3>2. h \in DOMAIN q /\ q[h] = x
      BY <1>2, <2>1, <3>1
    <3> QED
      BY <3>2 DEF ToSet
  <2>6. Head(q) \in ToSet(q)
    BY <1>2, <2>3 DEF ToSet
  <2>7. ASSUME NEW x \in ToSet(q) PROVE x \in {Head(q)} \union ToSet(r)
    <3>1. PICK i \in 1..Len(q) : x = q[i]
      BY <1>2 DEF ToSet
    <3> QED
      BY <2>4, <3>1
  <2> QED
    BY <2>5, <2>6, <2>7
<1> QED
  BY <1>1, <1>2, <1>3, <1>4

LEMMA AppendElements ==
  ASSUME NEW S, NEW q \in Seq(S), NEW n \in S
  PROVE  /\ Append(q, n) \in Seq(S) /\ ToSet(Append(q, n)) = ToSet(q) \union {n}
         /\ DOMAIN q = 1..Len(q) /\ Len(q) \in Nat
         /\ DOMAIN Append(q, n) = 1..Len(q) + 1 /\ Append(q, n)[Len(q) + 1] = n
         /\ \A i \in 1..Len(q) : Append(q, n)[i] = q[i]
<1>1. /\ Append(q, n) \in Seq(S) /\ DOMAIN q = 1..Len(q) /\ Len(q) \in Nat
      /\ DOMAIN Append(q, n) = 1..Len(q) + 1 /\ Append(q, n)[Len(q) + 1] = n
      /\ \A i \in 1..Len(q) : Append(q, n)[i] = q[i]
  OBVIOUS
<1>2. ToSet(Append(q, n)) = ToSet(q) \union {n}
  BY <1>1 DEF ToSet
<1> QED
  BY <1>1, <1>2

LEMMA ConcatElements ==
  ASSUME NEW S, NEW q \in Seq(S), NEW r \in Seq(S)
  PROVE  q \o r \in Seq(S) /\ ToSet(q \o r) = ToSet(q) \union ToSet(r)
<1>1. q \o r \in Seq(S)
  OBVIOUS
<1>2. ToSet(q \o r) = Range(q \o r) /\ ToSet(q) = Range(q) /\ ToSet(r) = Range(r)
  BY DEF ToSet, Range
<1> QED
  BY <1>1, <1>2, RangeConcatenation

LEMMA ElementsIn == ASSUME NEW S, NEW q \in Seq(S) PROVE ToSet(q) \subseteq S
  BY DEF ToSet

\* A set in some order.
LEMMA SetToSeqHas ==
  ASSUME NEW S, IsFiniteSet(S)
  PROVE  SetToSeq(S) \in Seq(S) /\ ToSet(SetToSeq(S)) = S
<1> DEFINE n == Cardinality(S)
           f == SetToSeq(S)
<1>1. n \in Nat /\ ExistsBijection(1..n, S)
  BY FS_CardinalityType
<1>2. PICK g \in [1..n -> S] : g \in Bijection(1..n, S)
  BY <1>1 DEF ExistsBijection, Bijection, Injection
<1>3. IsInjective(g)
  BY <1>2 DEF Bijection, Injection
<1>4. f \in [1..n -> S] /\ IsInjective(f)
  BY <1>3 DEF SetToSeq
<1>5. f \in Seq(S)
  BY <1>1, <1>4, SeqDef
<1>6. f \in Injection(1..n, S)
  BY <1>4 DEF Injection
<1>7. f \in Surjection(1..n, S)
  <2>1. IsFiniteSet(1..n) /\ Cardinality(1..n) = n
    <3> HIDE DEF n
    <3>1. IsFiniteSet(1..n) /\ Cardinality(1..n) = IF 1 > n THEN 0 ELSE n - 1 + 1
      BY <1>1, FS_Interval
    <3> QED
      BY <1>1, <3>1
  <2> HIDE DEF f, n
  <2> QED
    BY <1>6, <2>1, FS_Injection DEF n
<1>8. ToSet(f) = S
  <2>1. DOMAIN f = 1..n
    BY <1>4
  <2> HIDE DEF f, n
  <2> QED
    BY <1>4, <1>7, <2>1 DEF ToSet, Surjection
<1> QED
  BY <1>5, <1>8

-----------------------------------------------------------------------------
(* What is under way between browser and daemon. *)

DownNote == [kind : {"create", "compare", "release", "orphan", "cancel"}, call : Call]
UpNote ==
    [kind : {"answer"}, call : Call, ok : {"ok", "failed", "missing"}, evicted : SUBSET Call]
      \union [kind : {"access"}, grant : Nat] \union [kind : {"gone"}]
Brings(note, id) == note.kind = "answer" /\ note.call = id /\ note.ok = "ok"

\* A creation is sent once, and answered once.
SentOnce(q) == \A i, j \in DOMAIN q : q[i].kind = "create" /\ q[j] = q[i] => i = j
AnsweredOnce(q, ids) ==
    \A i, j \in DOMAIN q :
        (/\ q[i].kind = "answer" /\ q[j].kind = "answer"
         /\ q[j].call = q[i].call /\ q[i].call \in ids) => i = j

\* The grant t was announced: the daemon knows it, or will before the answers of what
\* was made under it.
Announced(q, s, t, held) ==
    t # 0 => \/ s = t /\ \A i \in DOMAIN q : q[i].kind = "access" => q[i].grant = t
             \/ \E k \in DOMAIN q :
                  /\ q[k].kind = "access" /\ q[k].grant = t
                  /\ \A i \in DOMAIN q : i > k /\ q[i].kind = "access" => q[i].grant = t
                  /\ \A id \in held : \E i \in DOMAIN q : i > k /\ Brings(q[i], id)

GoneLast(q, l) == \A i \in DOMAIN q : q[i].kind = "gone" => l = "lost" /\ i = Len(q)

\* How the notes under way change: more are sent, the first is taken.
LEMMA SentOnceMore ==
  ASSUME NEW q \in Seq(DownNote), NEW r \in Seq(DownNote), SentOnce(q), SentOnce(r),
         \A n \in ToSet(r) : n.kind = "create" => n \notin ToSet(q)
  PROVE  SentOnce(q \o r)
<1> DEFINE m == Len(q)
           k == Len(r)
           all == q \o r
<1>1. m \in Nat /\ k \in Nat /\ DOMAIN q = 1..m /\ DOMAIN r = 1..k
  OBVIOUS
<1>2. /\ all \in Seq(DownNote) /\ Len(all) = m + k
      /\ \A i \in 1..m + k : all[i] = IF i <= m THEN q[i] ELSE r[i - m]
  BY ConcatProperties
<1>3. DOMAIN all = 1..m + k
  BY <1>2
<1> HIDE DEF m, k, all
<1> SUFFICES ASSUME NEW i \in 1..m + k, NEW j \in 1..m + k, all[i].kind = "create", all[j] = all[i]
             PROVE  i = j
  BY <1>3 DEF SentOnce, all
<1>4. \A h \in 1..m + k : \/ h \in 1..m /\ all[h] = q[h] /\ h <= m
                          \/ h - m \in 1..k /\ all[h] = r[h - m] /\ ~(h <= m)
  BY <1>1, <1>2
<1>5. CASE i <= m /\ j <= m
  BY <1>1, <1>4, <1>5 DEF SentOnce
<1>6. CASE ~(i <= m) /\ ~(j <= m)
  <2>1. i - m = j - m
    <3> DEFINE a == i - m
               b == j - m
    <3>1. a \in 1..k /\ b \in 1..k /\ r[a].kind = "create" /\ r[b] = r[a]
      BY <1>4, <1>6
    <3> HIDE DEF a, b
    <3>2. a = b
      BY <1>1, <3>1 DEF SentOnce
    <3> QED
      BY <3>2 DEF a, b
  <2> QED
    BY <1>1, <2>1
<1>7. ASSUME NEW a \in 1..m, NEW b \in 1..k, r[b].kind = "create" PROVE q[a] # r[b]
  BY <1>1, <1>7 DEF ToSet
<1>8. CASE i <= m /\ ~(j <= m)
  <2>1. i \in 1..m /\ all[i] = q[i] /\ j - m \in 1..k /\ all[j] = r[j - m]
    BY <1>4, <1>8
  <2> DEFINE b == j - m
  <2> HIDE DEF b
  <2>2. b \in 1..k /\ q[i] = r[b] /\ r[b].kind = "create"
    BY <2>1 DEF b
  <2> QED
    BY <1>7, <2>1, <2>2
<1>9. CASE ~(i <= m) /\ j <= m
  <2>1. j \in 1..m /\ all[j] = q[j] /\ i - m \in 1..k /\ all[i] = r[i - m]
    BY <1>4, <1>9
  <2> DEFINE b == i - m
  <2> HIDE DEF b
  <2>2. b \in 1..k /\ q[j] = r[b] /\ r[b].kind = "create"
    BY <2>1 DEF b
  <2> QED
    BY <1>7, <2>1, <2>2
<1> QED
  BY <1>5, <1>6, <1>8, <1>9

LEMMA SentOnceLess ==
  ASSUME NEW q \in Seq(DownNote), q # <<>>, SentOnce(q)
  PROVE  SentOnce(Tail(q)) /\ (Head(q).kind = "create" => Head(q) \notin ToSet(Tail(q)))
<1> DEFINE r == Tail(q)
           m == Len(q)
<1>1. /\ m \in Nat /\ m >= 1 /\ DOMAIN q = 1..m /\ DOMAIN r = 1..m - 1
      /\ Head(q) = q[1] /\ \A i \in 1..m - 1 : r[i] = q[i + 1]
  BY TailElements
<1> HIDE DEF r, m
<1>2. 1 \in 1..m /\ \A i \in 1..m - 1 : i + 1 \in 1..m /\ i + 1 # 1
  BY <1>1
<1>3. SentOnce(r)
  <2> SUFFICES ASSUME NEW i \in 1..m - 1, NEW j \in 1..m - 1, r[i].kind = "create", r[j] = r[i]
               PROVE  i = j
    BY <1>1 DEF SentOnce
  <2> DEFINE a == i + 1
             b == j + 1
  <2>1. a \in 1..m /\ b \in 1..m /\ q[a].kind = "create" /\ q[b] = q[a]
    BY <1>1, <1>2
  <2> HIDE DEF a, b
  <2>2. a = b
    BY <1>1, <2>1 DEF SentOnce
  <2> QED
    BY <1>1, <2>2 DEF a, b
<1>4. ASSUME q[1].kind = "create", q[1] \in ToSet(r) PROVE FALSE
  <2>1. PICK i \in 1..m - 1 : r[i] = q[1]
    BY <1>1, <1>4 DEF ToSet
  <2> QED
    BY <1>1, <1>2, <1>4, <2>1 DEF SentOnce
<1> QED
  BY <1>1, <1>3, <1>4 DEF r

LEMMA AnsweredOnceMore ==
  ASSUME NEW q \in Seq(UpNote), NEW n \in UpNote, NEW ids, AnsweredOnce(q, ids),
         \A m \in ToSet(q) : n.kind = "answer" /\ n.call \in ids /\ m.kind = "answer" => m.call # n.call
  PROVE  AnsweredOnce(Append(q, n), ids)
<1> DEFINE all == Append(q, n)
           k == Len(q)
<1>1. /\ k \in Nat /\ DOMAIN q = 1..k /\ DOMAIN all = 1..k + 1 /\ all[k + 1] = n
      /\ \A i \in 1..k : all[i] = q[i]
  BY AppendElements
<1> HIDE DEF all, k
<1>2. \A i \in 1..k + 1 : i \in 1..k \/ i = k + 1
  BY <1>1
<1>3. \A i \in 1..k : q[i] \in ToSet(q)
  BY <1>1 DEF ToSet
<1>4. ASSUME NEW i \in 1..k + 1, NEW j \in 1..k + 1, all[i].kind = "answer", all[j].kind = "answer",
             all[j].call = all[i].call, all[i].call \in ids
      PROVE  i = j
  <2>1. CASE i \in 1..k /\ j \in 1..k
    BY <1>1, <1>4, <2>1 DEF AnsweredOnce
  <2>2. CASE i \in 1..k /\ j = k + 1
    BY <1>1, <1>3, <1>4, <2>2
  <2>3. CASE i = k + 1 /\ j \in 1..k
    BY <1>1, <1>3, <1>4, <2>3
  <2> QED
    BY <1>2, <2>1, <2>2, <2>3
<1>5. DOMAIN all = 1..k + 1
  BY <1>1
<1>6. AnsweredOnce(all, ids)
  BY <1>4, <1>5 DEF AnsweredOnce
<1> QED
  BY <1>6 DEF all

LEMMA AnsweredOnceLess ==
  ASSUME NEW q \in Seq(UpNote), q # <<>>, NEW ids, AnsweredOnce(q, ids)
  PROVE  /\ AnsweredOnce(Tail(q), ids)
         /\ Head(q).kind = "answer" /\ Head(q).call \in ids =>
              \A n \in ToSet(Tail(q)) : n.kind = "answer" => n.call # Head(q).call
<1> DEFINE r == Tail(q)
           m == Len(q)
<1>1. /\ m \in Nat /\ m >= 1 /\ DOMAIN q = 1..m /\ DOMAIN r = 1..m - 1
      /\ Head(q) = q[1] /\ \A i \in 1..m - 1 : r[i] = q[i + 1]
  BY TailElements
<1> HIDE DEF r, m
<1>2. 1 \in 1..m /\ \A i \in 1..m - 1 : i + 1 \in 1..m /\ i + 1 # 1
  BY <1>1
<1>3. AnsweredOnce(r, ids)
  <2> SUFFICES ASSUME NEW i \in 1..m - 1, NEW j \in 1..m - 1, r[i].kind = "answer", r[j].kind = "answer",
                      r[j].call = r[i].call, r[i].call \in ids
               PROVE  i = j
    BY <1>1 DEF AnsweredOnce
  <2> DEFINE a == i + 1
             b == j + 1
  <2>1. a \in 1..m /\ b \in 1..m /\ q[a] = r[i] /\ q[b] = r[j]
    BY <1>1, <1>2
  <2> HIDE DEF a, b
  <2>2. a = b
    BY <1>1, <2>1 DEF AnsweredOnce
  <2> QED
    BY <1>1, <2>2 DEF a, b
<1>4. ASSUME q[1].kind = "answer", q[1].call \in ids, NEW n \in ToSet(r), n.kind = "answer", n.call = q[1].call
      PROVE  FALSE
  <2>1. PICK i \in 1..m - 1 : r[i] = n
    BY <1>1 DEF ToSet
  <2> DEFINE a == i + 1
  <2>2. a \in 1..m /\ a # 1 /\ q[a] = n
    BY <1>1, <1>2, <2>1
  <2> HIDE DEF a
  <2> QED
    BY <1>1, <1>2, <1>4, <2>2 DEF AnsweredOnce
<1> QED
  BY <1>1, <1>3, <1>4 DEF r

LEMMA AnnouncedMore ==
  ASSUME NEW q \in Seq(UpNote), NEW n \in UpNote, NEW s, NEW t, NEW held, NEW more,
         Announced(q, s, t, held), n.kind = "access" => n.grant = t,
         \A id \in more : id \in held \/ Brings(n, id)
  PROVE  Announced(Append(q, n), s, t, more)
<1> DEFINE all == Append(q, n)
           m == Len(q)
<1>1. /\ m \in Nat /\ DOMAIN q = 1..m /\ DOMAIN all = 1..m + 1 /\ all[m + 1] = n
      /\ \A i \in 1..m : all[i] = q[i]
  BY AppendElements
<1> HIDE DEF all, m
<1>2. \A i \in 1..m + 1 : i \in 1..m \/ i = m + 1
  BY <1>1
<1> SUFFICES ASSUME t # 0 PROVE Announced(all, s, t, more)
  BY DEF Announced, all
<1>3. CASE s = t /\ \A i \in DOMAIN q : q[i].kind = "access" => q[i].grant = t
  BY <1>1, <1>2, <1>3 DEF Announced
<1>4. ASSUME NEW k \in DOMAIN q, q[k].kind = "access", q[k].grant = t,
             \A i \in DOMAIN q : i > k /\ q[i].kind = "access" => q[i].grant = t,
             \A id \in held : \E i \in DOMAIN q : i > k /\ Brings(q[i], id)
      PROVE  Announced(all, s, t, more)
  <2>1. k \in 1..m + 1 /\ m + 1 > k /\ all[k] = q[k] /\ m + 1 \in 1..m + 1
    BY <1>1
  <2>2. \A i \in 1..m : i \in 1..m + 1
    BY <1>1
  <2>3. \A i \in DOMAIN all : i > k /\ all[i].kind = "access" => all[i].grant = t
    BY <1>1, <1>2, <1>4
  <2>4. ASSUME NEW id \in more PROVE \E i \in DOMAIN all : i > k /\ Brings(all[i], id)
    <3>1. CASE id \in held
      BY <1>1, <1>4, <2>2, <3>1
    <3>2. CASE Brings(n, id)
      BY <1>1, <2>1, <3>2
    <3> QED
      BY <3>1, <3>2
  <2> QED
    BY <1>1, <1>4, <2>1, <2>3, <2>4 DEF Announced
<1> QED
  BY <1>3, <1>4 DEF Announced

LEMMA AnnouncedLess ==
  ASSUME NEW q \in Seq(UpNote), q # <<>>, NEW s, NEW t, NEW held, Announced(q, s, t, held)
  PROVE  /\ Announced(Tail(q), IF Head(q).kind = "access" THEN Head(q).grant ELSE s, t, held)
         /\ t # 0 /\ Head(q).kind = "access" /\ (Head(q).grant = 0 \/ Head(q).grant # s) =>
              \A id \in held : \E n \in ToSet(Tail(q)) : Brings(n, id)
<1> SUFFICES ASSUME t # 0
             PROVE  /\ Announced(Tail(q), IF Head(q).kind = "access" THEN Head(q).grant ELSE s, t, held)
                    /\ Head(q).kind = "access" /\ (Head(q).grant = 0 \/ Head(q).grant # s) =>
                         \A id \in held : \E n \in ToSet(Tail(q)) : Brings(n, id)
  BY DEF Announced
<1> DEFINE r == Tail(q)
           m == Len(q)
           s2 == IF Head(q).kind = "access" THEN Head(q).grant ELSE s
<1>1. /\ m \in Nat /\ m >= 1 /\ DOMAIN q = 1..m /\ DOMAIN r = 1..m - 1
      /\ Head(q) = q[1] /\ \A i \in 1..m - 1 : r[i] = q[i + 1]
  BY TailElements
<1> HIDE DEF r, m
<1>2. 1 \in 1..m /\ \A i \in 1..m - 1 : i + 1 \in 1..m /\ i + 1 # 1
  BY <1>1
<1>3. CASE s = t /\ \A i \in DOMAIN q : q[i].kind = "access" => q[i].grant = t
  <2>1. \A i \in DOMAIN r : r[i].kind = "access" => r[i].grant = t
    BY <1>1, <1>2, <1>3
  <2>2. s2 = t /\ ~(q[1].kind = "access" /\ (q[1].grant = 0 \/ q[1].grant # s))
    BY <1>1, <1>2, <1>3
  <2> QED
    BY <1>1, <2>1, <2>2 DEF Announced, r
<1>4. ASSUME NEW k \in DOMAIN q, q[k].kind = "access", q[k].grant = t,
             \A i \in DOMAIN q : i > k /\ q[i].kind = "access" => q[i].grant = t,
             \A id \in held : \E i \in DOMAIN q : i > k /\ Brings(q[i], id)
      PROVE  /\ Announced(r, s2, t, held)
             /\ \A id \in held : \E n \in ToSet(r) : Brings(n, id)
  <2>1. k \in 1..m /\ k \in Nat
    BY <1>1
  <2>2. ASSUME NEW id \in held
        PROVE  \E i \in DOMAIN r : i > k - 1 /\ Brings(r[i], id)
    <3>1. PICK i \in 1..m : i > k /\ Brings(q[i], id)
      BY <1>1, <1>4
    <3> DEFINE a == i - 1
    <3>2. a \in 1..m - 1 /\ a + 1 = i /\ a > k - 1
      BY <1>1, <2>1, <3>1
    <3> HIDE DEF a
    <3>3. Brings(r[a], id)
      BY <1>1, <3>1, <3>2
    <3> QED
      BY <1>1, <3>2, <3>3
  <2>3. \A i \in DOMAIN r : i > k - 1 /\ r[i].kind = "access" => r[i].grant = t
    <3>1. \A i \in 1..m - 1 : i > k - 1 => i + 1 > k
      BY <1>1, <2>1
    <3> QED
      BY <1>1, <1>2, <1>4, <3>1
  <2>4. \A id \in held : \E n \in ToSet(r) : Brings(n, id)
    BY <2>2 DEF ToSet
  <2>5. CASE k = 1
    <3>1. s2 = t
      BY <1>1, <1>4, <2>5
    <3>2. \A i \in DOMAIN r : i > k - 1
      BY <1>1, <2>5
    <3> QED
      BY <2>3, <2>4, <3>1, <3>2 DEF Announced
  <2>6. CASE k # 1
    <3> DEFINE a == k - 1
    <3>1. a \in 1..m - 1 /\ a + 1 = k
      BY <1>1, <2>1, <2>6
    <3>2. /\ \A i \in DOMAIN r : i > a /\ r[i].kind = "access" => r[i].grant = t
          /\ \A id \in held : \E i \in DOMAIN r : i > a /\ Brings(r[i], id)
      BY <2>2, <2>3
    <3> HIDE DEF a
    <3>3. r[a] = q[k]
      BY <1>1, <3>1
    <3> QED
      BY <1>1, <1>4, <2>4, <3>1, <3>2, <3>3 DEF Announced
  <2> QED
    BY <2>5, <2>6
<1> QED
  BY <1>1, <1>3, <1>4 DEF Announced, r

LEMMA AnnouncedOfLess ==
  ASSUME NEW q, NEW s, NEW t, NEW held, NEW fewer \in SUBSET held, Announced(q, s, t, held)
  PROVE  Announced(q, s, t, fewer)
  BY DEF Announced

LEMMA GoneLastLess ==
  ASSUME NEW q \in Seq(UpNote), q # <<>>, NEW l, GoneLast(q, l)
  PROVE  GoneLast(Tail(q), l) /\ (Head(q).kind = "gone" => l = "lost" /\ Tail(q) = <<>>)
<1> DEFINE r == Tail(q)
           m == Len(q)
<1>1. /\ m \in Nat /\ m >= 1 /\ DOMAIN q = 1..m /\ DOMAIN r = 1..m - 1 /\ r \in Seq(UpNote)
      /\ Head(q) = q[1] /\ Len(r) = m - 1 /\ \A i \in 1..m - 1 : r[i] = q[i + 1]
  BY TailElements
<1>2. GoneLast(q, l) <=> \A i \in 1..m : q[i].kind = "gone" => l = "lost" /\ i = m
  BY <1>1 DEF GoneLast
<1> HIDE DEF r, m
<1>3. 1 \in 1..m /\ \A i \in 1..m - 1 : i + 1 \in 1..m /\ (i + 1 = m => i = m - 1)
  BY <1>1
<1>4. GoneLast(r, l)
  BY <1>1, <1>2, <1>3 DEF GoneLast
<1>5. q[1].kind = "gone" => l = "lost" /\ m = 1
  BY <1>2, <1>3
<1>6. m = 1 => r = <<>>
  BY <1>1, EmptySeq
<1> QED
  BY <1>1, <1>4, <1>5, <1>6 DEF r

LEMMA GoneLastMore ==
  ASSUME NEW q \in Seq(UpNote), NEW n \in UpNote, GoneLast(q, "on")
  PROVE  GoneLast(Append(q, n), "lost") /\ (n.kind # "gone" => GoneLast(Append(q, n), "on"))
<1> DEFINE all == Append(q, n)
           m == Len(q)
<1>1. /\ m \in Nat /\ DOMAIN q = 1..m /\ DOMAIN all = 1..m + 1 /\ all[m + 1] = n
      /\ Len(all) = m + 1 /\ \A i \in 1..m : all[i] = q[i]
  BY AppendElements
<1> HIDE DEF all, m
<1>2. \A i \in 1..m + 1 : i \in 1..m \/ i = m + 1
  BY <1>1
<1>3. \A i \in 1..m : all[i].kind # "gone"
  BY <1>1 DEF GoneLast
<1> QED
  BY <1>1, <1>2, <1>3 DEF GoneLast, all

LEMMA AnnouncedNow ==
  ASSUME NEW q \in Seq(UpNote), NEW s, NEW t \in Nat, NEW n \in UpNote, n.kind = "access", n.grant = t
  PROVE  Announced(Append(q, n), s, t, {})
<1> DEFINE all == Append(q, n)
           m == Len(q)
<1>1. m \in Nat /\ DOMAIN all = 1..m + 1 /\ all[m + 1] = n
  BY AppendElements
<1> HIDE DEF all, m
<1>2. m + 1 \in DOMAIN all /\ \A i \in DOMAIN all : ~(i > m + 1)
  BY <1>1
<1> QED
  BY <1>1, <1>2 DEF Announced, all

LEMMA NothingUnderWay ==
  /\ <<>> \in Seq(DownNote) /\ <<>> \in Seq(UpNote) /\ ToSet(<<>>) = {} /\ SentOnce(<<>>)
  /\ \A ids : AnsweredOnce(<<>>, ids)
  /\ \A l : GoneLast(<<>>, l)
  /\ \A s, held : Announced(<<>>, s, s, held)
<1>1. DOMAIN <<>> = {}
  OBVIOUS
<1> QED
  BY <1>1 DEF ToSet, SentOnce, AnsweredOnce, GoneLast, Announced

LEMMA SentOnceOf == ASSUME NEW n PROVE SentOnce(<<n>>) /\ ToSet(<<n>>) = {n}
<1>1. DOMAIN <<n>> = {1} /\ <<n>>[1] = n
  OBVIOUS
<1> QED
  BY <1>1 DEF SentOnce, ToSet

\* What Down and Post do, on a connection that is there and on one that is not.
LEMMA DownAdds ==
  ASSUME NEW notes \in Seq(DownNote), down \in Seq(DownNote), Down(notes)
  PROVE  /\ down' \in Seq(DownNote)
         /\ link = "on" => ToSet(down') = ToSet(down) \union ToSet(notes)
         /\ link # "on" => down' = down
         /\ ToSet(down) \subseteq ToSet(down') /\ ToSet(down') \subseteq ToSet(down) \union ToSet(notes)
         /\ SentOnce(down) /\ SentOnce(notes)
              /\ (\A n \in ToSet(notes) : n.kind = "create" => n \notin ToSet(down)) => SentOnce(down')
<1>1. CASE link = "on"
  <2>1. down' = down \o notes
    BY <1>1 DEF Down
  <2>2. down \o notes \in Seq(DownNote) /\ ToSet(down \o notes) = ToSet(down) \union ToSet(notes)
    BY ConcatElements
  <2>3. SentOnce(down) /\ SentOnce(notes)
          /\ (\A n \in ToSet(notes) : n.kind = "create" => n \notin ToSet(down)) => SentOnce(down \o notes)
    BY SentOnceMore
  <2> QED
    BY <1>1, <2>1, <2>2, <2>3
<1>2. CASE link # "on"
  <2>1. down' = down
    BY <1>2 DEF Down
  <2> QED
    BY <1>2, <2>1
<1> QED
  BY <1>1, <1>2

LEMMA PostAdds ==
  ASSUME NEW note \in UpNote, up \in Seq(UpNote), Post(note)
  PROVE  /\ up' \in Seq(UpNote)
         /\ link = "on" => up' = Append(up, note) /\ ToSet(up') = ToSet(up) \union {note}
         /\ link # "on" => up' = up
         /\ ToSet(up) \subseteq ToSet(up') /\ ToSet(up') \subseteq ToSet(up) \union {note}
<1>1. CASE link = "on"
  <2>1. up' = Append(up, note)
    BY <1>1 DEF Post
  <2>2. Append(up, note) \in Seq(UpNote) /\ ToSet(Append(up, note)) = ToSet(up) \union {note}
    BY AppendElements
  <2> QED
    BY <1>1, <2>1, <2>2
<1>2. CASE link # "on"
  <2>1. up' = up
    BY <1>2 DEF Post
  <2> QED
    BY <1>2, <2>1
<1> QED
  BY <1>1, <1>2

-----------------------------------------------------------------------------
(* The inductive invariant: BaselinesAgree needs to know what a grant and a      *)
(* connection say of the lists, and how far each call has come.                  *)

CallRecord == [op : {"none", "create", "compare", "release"}, agent : Agent \union {"none"},
               tab : Tab \union {"none"}, of : Nat, pending : BOOLEAN]
Awaited == {c \in Call : calls[c].pending}
Creations == {c \in Call : calls[c].op = "create"}
Answers == {n \in ToSet(up) : n.kind = "answer"}

BaselineTypes ==
    /\ calls \in [Call -> CallRecord] /\ tasks \in [Call -> {"none", "capturing", "changed", "aborted"}]
    /\ outbox \in SUBSET Call /\ handed \in SUBSET Call
    /\ owners \in Seq(Call) /\ abandoned \in Seq(Call) /\ records \in Seq(Call)
    /\ down \in Seq(DownNote) /\ up \in Seq(UpNote)
    /\ grant \in Nat /\ told \in Nat /\ seen \in Nat /\ grants \in Nat
    /\ link \in {"on", "lost", "off"} /\ closing \in BOOLEAN

\* What the browser may be at, by its grant and its connection.
GrantFits ==
    /\ closing => grant = 0
    /\ ~closing => told \in {0, grant}
    /\ link # "on" => told = 0 /\ down = <<>>
    /\ link = "off" => up = <<>>
    /\ GoneLast(up, link)
    /\ told = 0 => ToSet(records) \ lapsed = {}

\* The daemon knows the grant announced last, or will in time.
HeardOf == Announced(up, seen, told, ToSet(records) \ lapsed)

\* Accounted, with what an answer says and only under a grant that was announced.
AccountedFor ==
    told # 0 /\ ~closing =>
      \A id \in ToSet(records) \ lapsed :
         id \in ToSet(owners) \/ (\E n \in ToSet(up) : Brings(n, id)) \/ Note("orphan", id) \in ToSet(down)

\* Reachable, with the baselines whose answer is still queued for the agent.
ReachedStill ==
    \A id \in (handed \union outbox) \intersect (ToSet(records) \ lapsed) :
        id \in ToSet(owners) \/ \E c \in Call : calls[c].op = "release" /\ calls[c].of = id

\* A call, from its note to its task.
CallsFit ==
    /\ \A c \in Call : calls[c].op = "none" =>
          tasks[c] = "none" /\ Note("create", c) \notin ToSet(down) /\ c \notin spoiled
    /\ \A c \in Call : Note("create", c) \in ToSet(down) =>
          tasks[c] = "none" /\ c \notin spoiled /\ calls[c].op = "create"
    /\ \A c \in Call : tasks[c] # "none" => calls[c].op = "create"
    /\ \A c \in Call : tasks[c] = "capturing" => c \notin spoiled
    /\ \A n \in ToSet(down) : n.kind \in {"compare", "release"} => calls[n.call].op = n.kind
    /\ \A c \in Call : calls[c].op \in {"compare", "release"} => calls[c].of \in handed
    /\ SentOnce(down)

\* A call, from its answer to its agent.
AnswersFit ==
    /\ \A n \in Answers : calls[n.call].op # "none" /\ n.evicted \intersect ToSet(records) = {}
    /\ \A n \in Answers : calls[n.call].op = "create" => n.call \notin outbox \union handed
    /\ \A n \in Answers : calls[n.call].op # "create"
          /\ (n.ok = "missing" \/ (n.ok = "ok" /\ calls[n.call].op = "release")) =>
             calls[n.call].of \notin ToSet(records)
    /\ AnsweredOnce(up, Creations)
    /\ outbox \intersect handed = {}

\* Nothing is known of a baseline before it is made.
YoungFit ==
    /\ \A c \in Call : calls[c].op = "none" \/ Note("create", c) \in ToSet(down) \/ tasks[c] # "none" =>
          c \notin ToSet(records) \union outbox \union handed
          /\ \A n \in Answers : n.call # c /\ c \notin n.evicted
    /\ \A c \in ToSet(records) \union outbox \union handed : calls[c].op = "create"

\* The daemon waits for what is under way, or knows that nobody does.
WaitedFor ==
    \A c \in Call \ lapsed :
        (\/ Note("create", c) \in ToSet(down) \/ tasks[c] = "capturing"
         \/ c \in ToSet(records) /\ \E n \in ToSet(up) : Brings(n, c)) =>
        c \in Awaited \/ c \in ToSet(abandoned)

\* What is captured for a lost connection is lost sight of.
LostFit == link # "on" => \A c \in Call : tasks[c] = "capturing" => c \in lapsed

BaselineInv ==
    /\ BaselineTypes /\ GrantFits /\ HeardOf /\ AccountedFor /\ ReachedStill /\ CallsFit
    /\ AnswersFit /\ YoungFit /\ WaitedFor /\ LostFit /\ Scoped

\* The types of what the lists have.
LEMMA BaselineElements ==
  ASSUME BaselineTypes
  PROVE  /\ ToSet(records) \subseteq Call /\ outbox \subseteq Call /\ handed \subseteq Call
         /\ ToSet(owners) \subseteq Call /\ ToSet(abandoned) \subseteq Call
         /\ ToSet(down) \subseteq DownNote /\ \A n \in ToSet(down) : n = Note(n.kind, n.call) /\ n.call \in Call
         /\ ToSet(up) \subseteq UpNote /\ Answers \subseteq ToSet(up)
         /\ \A n \in Answers : /\ n.kind = "answer" /\ n.call \in Call /\ n.ok \in {"ok", "failed", "missing"}
                               /\ n.evicted \subseteq Call
<1>1. /\ ToSet(records) \subseteq Call /\ ToSet(owners) \subseteq Call /\ ToSet(abandoned) \subseteq Call
      /\ ToSet(down) \subseteq DownNote /\ ToSet(up) \subseteq UpNote
  BY ElementsIn DEF BaselineTypes
<1>2. outbox \subseteq Call /\ handed \subseteq Call
  BY DEF BaselineTypes
<1>3. \A n \in DownNote : n = Note(n.kind, n.call) /\ n.call \in Call
  BY DEF DownNote, Note
<1>4. \A n \in UpNote : n.kind = "answer" =>
        n.call \in Call /\ n.ok \in {"ok", "failed", "missing"} /\ n.evicted \subseteq Call
  BY DEF UpNote
<1> QED
  BY <1>1, <1>2, <1>3, <1>4 DEF Answers

\* It holds at the start and implies the property.
LEMMA BaselineStart == BaselinesInit => BaselineInv
<1> SUFFICES ASSUME BaselinesInit PROVE BaselineInv
  OBVIOUS
<1> USE DEF BaselinesInit
<1>1. <<>> \in Seq(Call)
  OBVIOUS
<1>2. BaselineTypes
  BY <1>1, NothingUnderWay DEF BaselineTypes, CallRecord, NoCall
<1>3. GrantFits
  BY NothingUnderWay DEF GrantFits
<1>4. HeardOf
  BY NothingUnderWay DEF HeardOf
<1>5. AccountedFor /\ ReachedStill /\ LostFit /\ Scoped
  BY NothingUnderWay DEF AccountedFor, ReachedStill, LostFit, Scoped
<1>6. CallsFit
  BY NothingUnderWay DEF CallsFit, NoCall
<1>7. AnswersFit
  BY NothingUnderWay DEF AnswersFit, Answers
<1>8. YoungFit
  BY NothingUnderWay DEF YoungFit, Answers
<1>9. WaitedFor
  BY NothingUnderWay DEF WaitedFor
<1> QED
  BY <1>2, <1>3, <1>4, <1>5, <1>6, <1>7, <1>8, <1>9 DEF BaselineInv

LEMMA BaselinesAgreeThen == BaselineInv => BaselinesAgree
<1> SUFFICES ASSUME BaselineInv PROVE BaselinesAgree
  OBVIOUS
<1>1. ASSUME ~closing, NEW id \in Held
      PROVE  id \in ToSet(owners) \/ Answering(id) \/ Under("orphan", id)
  <2>1. told # 0
    BY <1>1 DEF BaselineInv, GrantFits, Held
  <2>2. id \in ToSet(owners) \/ (\E n \in ToSet(up) : Brings(n, id)) \/ Note("orphan", id) \in ToSet(down)
    BY <1>1, <2>1 DEF BaselineInv, AccountedFor, Held
  <2>3. (\E n \in ToSet(up) : Brings(n, id)) => Answering(id)
    BY DEF ToSet, Brings, Answering
  <2>4. Note("orphan", id) \in ToSet(down) => Under("orphan", id)
    BY DEF ToSet, Note, Under
  <2> QED
    BY <2>2, <2>3, <2>4
<1>2. Accounted
  BY <1>1 DEF Accounted
<1>3. Reachable
  BY DEF BaselineInv, ReachedStill, Reachable, Held, Asked
<1> QED
  BY <1>2, <1>3 DEF BaselinesAgree, BaselineInv

-----------------------------------------------------------------------------
(* Each action keeps it: first the daemon's. *)

\* Ended changes only whether calls are awaited.
LEMMA EndedHas ==
  ASSUME NEW some, calls \in [Call -> CallRecord], Ended(some)
  PROVE  /\ calls' \in [Call -> CallRecord]
         /\ \A c \in Call : calls'[c].op = calls[c].op /\ calls'[c].of = calls[c].of
         /\ \A c \in Call : calls'[c].tab = calls[c].tab /\ calls'[c].agent = calls[c].agent
         /\ Awaited' = Awaited \ some /\ Creations' = Creations
<1>1. ASSUME NEW c \in Call
      PROVE  /\ calls'[c] \in CallRecord /\ calls'[c].op = calls[c].op /\ calls'[c].of = calls[c].of
             /\ calls'[c].tab = calls[c].tab /\ calls'[c].agent = calls[c].agent
             /\ calls'[c].pending <=> calls[c].pending /\ c \notin some
  <2>1. calls[c] \in CallRecord
    OBVIOUS
  <2>2. PICK b \in BOOLEAN : calls[c].pending = b
    BY <2>1 DEF CallRecord
  <2>3. PICK d \in BOOLEAN : d = (calls[c].pending /\ c \notin some)
    OBVIOUS
  <2>4. calls'[c] = [calls[c] EXCEPT !.pending = d]
    BY <2>3 DEF Ended
  <2>5. calls'[c] \in CallRecord /\ calls'[c].op = calls[c].op /\ calls'[c].of = calls[c].of
        /\ calls'[c].tab = calls[c].tab /\ calls'[c].agent = calls[c].agent /\ calls'[c].pending = d
    BY <2>1, <2>4 DEF CallRecord
  <2> QED
    BY <2>3, <2>5, Zenon
<1>2. calls' \in [Call -> CallRecord]
  <2>1. DOMAIN calls' = Call /\ calls' = [c \in Call |-> calls'[c]]
    BY DEF Ended
  <2> QED
    BY <1>1, <2>1
<1> QED
  BY <1>1, <1>2 DEF Awaited, Creations

\* Calls end and are abandoned or lost sight of.
LEMMA CallsEnd ==
  ASSUME BaselineInv, NEW some, NEW notes \in Seq(DownNote), \A n \in ToSet(notes) : n.kind = "cancel",
         Ended(some), Down(notes), abandoned' \in Seq(Call), lapsed \subseteq lapsed',
         ToSet(abandoned) \union (some \intersect Creations) \subseteq ToSet(abandoned') \union lapsed',
         UNCHANGED <<outbox, owners, seen, handed, browserVars, link, up>>
  PROVE  BaselineInv'
<1> USE DEF BaselineInv
<1>1. /\ calls' \in [Call -> CallRecord]
      /\ \A c \in Call : calls'[c].op = calls[c].op /\ calls'[c].of = calls[c].of
      /\ Awaited' = Awaited \ some /\ Creations' = Creations
  BY EndedHas DEF BaselineTypes
<1>2. /\ UNCHANGED <<outbox, owners, seen, handed, records, tasks, grant, told, closing, grants, spoiled, link, up>>
  BY DEF browserVars
<1>3. /\ down' \in Seq(DownNote) /\ (link # "on" => down' = down)
      /\ ToSet(down) \subseteq ToSet(down') /\ ToSet(down') \subseteq ToSet(down) \union ToSet(notes)
      /\ SentOnce(down')
  <2>1. SentOnce(notes)
    BY DEF SentOnce, ToSet
  <2> QED
    BY <2>1, DownAdds DEF BaselineTypes, CallsFit
<1>4. \A n \in ToSet(down') : n \in ToSet(down) \/ n.kind = "cancel"
  BY <1>3
<1>5. \A c \in Call : Note("create", c) \in ToSet(down') <=> Note("create", c) \in ToSet(down)
  BY <1>3, <1>4 DEF Note
<1>6. BaselineTypes'
  BY <1>1, <1>2, <1>3 DEF BaselineTypes
<1>7. ToSet(records)' \ lapsed' \subseteq ToSet(records) \ lapsed
  BY <1>2
<1>8. GrantFits'
  BY <1>2, <1>3, <1>7 DEF GrantFits
<1>9. HeardOf'
  BY <1>2, <1>7, AnnouncedOfLess DEF HeardOf
<1>10. AccountedFor'
  BY <1>2, <1>3, <1>7 DEF AccountedFor
<1>11. ReachedStill'
  BY <1>1, <1>2, <1>7 DEF ReachedStill
<1>12. CallsFit'
  <2>1. \A n \in ToSet(down) : n.call \in Call
    BY BaselineElements
  <2> QED
    BY <1>1, <1>2, <1>3, <1>4, <1>5, <2>1 DEF CallsFit
<1>13. Answers' = Answers /\ \A n \in Answers : n.call \in Call
  <2>1. \A n \in Answers : n.call \in Call
    BY BaselineElements
  <2> QED
    BY <1>2, <2>1 DEF Answers
<1>14. AnswersFit'
  BY <1>1, <1>2, <1>13 DEF AnswersFit
<1>15. ToSet(records) \subseteq Call /\ outbox \subseteq Call /\ handed \subseteq Call
  BY BaselineElements
<1>16. YoungFit'
  BY <1>1, <1>2, <1>5, <1>13, <1>15 DEF YoungFit
<1>17. WaitedFor'
  <2> SUFFICES ASSUME NEW c \in Call, c \notin lapsed',
                      \/ Note("create", c) \in ToSet(down') \/ tasks'[c] = "capturing"
                      \/ c \in ToSet(records') /\ \E n \in ToSet(up') : Brings(n, c)
               PROVE  c \in Awaited' \/ c \in ToSet(abandoned')
    BY DEF WaitedFor
  <2>1. c \in Awaited \/ c \in ToSet(abandoned)
    BY <1>2, <1>5 DEF WaitedFor
  <2>2. c \in Creations
    BY <1>2, <1>5 DEF CallsFit, YoungFit, Creations
  <2> QED
    BY <1>1, <2>1, <2>2
<1>18. LostFit' /\ Scoped'
  BY <1>2 DEF LostFit, Scoped
<1> QED
  BY <1>6, <1>8, <1>9, <1>10, <1>11, <1>12, <1>14, <1>16, <1>17, <1>18

\* What is abandoned and what is forgotten of it.
LEMMA AbandonsAll ==
  ASSUME NEW some \in SUBSET Call, abandoned \in Seq(Call), Abandons(some)
  PROVE  /\ abandoned' \in Seq(Call) /\ lapsed \subseteq lapsed'
         /\ ToSet(abandoned) \union (some \intersect Creations) \subseteq ToSet(abandoned') \union lapsed'
<1> DEFINE news == {c \in some : calls[c].op = "create"}
           all == abandoned \o SetToSeq(news)
           m == Len(all)
           over == IF m > MaxAbandoned THEN m - MaxAbandoned ELSE 0
<1>1. abandoned' = SubSeq(all, over + 1, m) /\ lapsed' = lapsed \union ToSet(SubSeq(all, 1, over))
  BY DEF Abandons
<1>2. IsFiniteSet(news)
  <2>1. IsFiniteSet(Call)
    BY BaselineAssumption, FS_Interval DEF Call
  <2> QED
    BY <2>1, FS_Subset
<1>3. SetToSeq(news) \in Seq(Call) /\ ToSet(SetToSeq(news)) = news
  <2> HIDE DEF news
  <2>1. SetToSeq(news) \in Seq(news) /\ ToSet(SetToSeq(news)) = news
    BY <1>2, SetToSeqHas
  <2>2. news \subseteq Call
    BY DEF news
  <2> QED
    BY <2>1, <2>2
<1>4. all \in Seq(Call) /\ ToSet(all) = ToSet(abandoned) \union news
  <2> HIDE DEF news
  <2> QED
    BY <1>3, ConcatElements
<1>5. some \intersect Creations = news
  BY DEF Creations
<1> HIDE DEF all, news
<1>6. m \in Nat /\ over \in 0..m /\ DOMAIN all = 1..m
  BY <1>4, BaselineAssumption
<1> HIDE DEF m, over
<1>7. /\ SubSeq(all, over + 1, m) \in Seq(Call) /\ DOMAIN SubSeq(all, over + 1, m) = 1..m - over
      /\ \A i \in 1..m - over : SubSeq(all, over + 1, m)[i] = all[over + i]
  <2>1. over + 1 \in Int /\ m \in Int /\ \A i \in (over + 1)..m : i \in 1..m
    BY <1>6
  <2> QED
    BY <1>4, <1>6, <2>1 DEF m
<1>8. /\ DOMAIN SubSeq(all, 1, over) = 1..over
      /\ \A i \in 1..over : SubSeq(all, 1, over)[i] = all[i]
  BY <1>4, <1>6 DEF m
<1>9. ASSUME NEW x \in ToSet(all) PROVE x \in ToSet(abandoned') \union lapsed'
  <2>1. PICK i \in 1..m : x = all[i]
    BY <1>6 DEF ToSet
  <2>2. CASE i <= over
    <3>1. i \in 1..over
      BY <1>6, <2>2
    <3>2. SubSeq(all, 1, over)[i] = x
      BY <1>8, <2>1, <3>1
    <3> QED
      BY <1>1, <1>8, <3>1, <3>2 DEF ToSet
  <2>3. CASE ~(i <= over)
    <3> DEFINE h == i - over
    <3>1. h \in 1..m - over /\ over + h = i
      BY <1>6, <2>3
    <3> HIDE DEF h
    <3>2. SubSeq(all, over + 1, m)[h] = x
      BY <1>7, <2>1, <3>1
    <3> QED
      BY <1>1, <1>7, <3>1, <3>2 DEF ToSet
  <2> QED
    BY <2>2, <2>3
<1> QED
  BY <1>1, <1>4, <1>5, <1>7, <1>9

\* One note to send.
LEMMA OneNote ==
  ASSUME NEW n \in DownNote PROVE <<n>> \in Seq(DownNote) /\ SentOnce(<<n>>) /\ ToSet(<<n>>) = {n}
<1>1. <<n>> \in Seq(DownNote)
  OBVIOUS
<1> QED
  BY <1>1, SentOnceOf

LEMMA NoteType ==
  \A kind \in {"create", "compare", "release", "orphan", "cancel"}, c \in Call :
     Note(kind, c) \in DownNote /\ Note(kind, c).kind = kind /\ Note(kind, c).call = c
  BY DEF DownNote, Note

\* A call that times out, is canceled or loses its agent only ends.
LEMMA TimeoutKeeps == ASSUME BaselineInv, NEW c \in Call, Timeout(c) PROVE BaselineInv'
<1> DEFINE notes == <<Note("cancel", c)>>
<1>1. notes \in Seq(DownNote) /\ \A n \in ToSet(notes) : n.kind = "cancel"
  BY OneNote, NoteType
<1>2. /\ Ended({c}) /\ Abandons({c}) /\ Down(notes)
      /\ UNCHANGED <<outbox, owners, seen, handed, browserVars, link, up>>
  BY DEF Timeout
<1> HIDE DEF notes
<1>3. abandoned \in Seq(Call)
  BY DEF BaselineInv, BaselineTypes
<1>4. /\ abandoned' \in Seq(Call) /\ lapsed \subseteq lapsed'
      /\ ToSet(abandoned) \union ({c} \intersect Creations) \subseteq ToSet(abandoned') \union lapsed'
  BY <1>2, <1>3, AbandonsAll
<1> QED
  BY <1>1, <1>2, <1>4, CallsEnd

LEMMA CancelKeeps == ASSUME BaselineInv, NEW c \in Call, Cancel(c) PROVE BaselineInv'
<1> DEFINE notes == <<Note("cancel", c)>>
<1>1. notes \in Seq(DownNote) /\ \A n \in ToSet(notes) : n.kind = "cancel"
  BY OneNote, NoteType
<1>2. /\ Ended({c}) /\ Down(notes) /\ lapsed' = lapsed \union {c} /\ abandoned' = abandoned
      /\ UNCHANGED <<outbox, owners, seen, handed, browserVars, link, up>>
  BY DEF Cancel
<1> HIDE DEF notes
<1>3. /\ abandoned' \in Seq(Call) /\ lapsed \subseteq lapsed'
      /\ ToSet(abandoned) \union ({c} \intersect Creations) \subseteq ToSet(abandoned') \union lapsed'
  BY <1>2 DEF BaselineInv, BaselineTypes
<1> QED
  BY <1>1, <1>2, <1>3, CallsEnd

LEMMA AgentLeavesKeeps == ASSUME BaselineInv, NEW a \in Agent, AgentLeaves(a) PROVE BaselineInv'
<1> DEFINE left == {c \in Call : Pending(c) /\ calls[c].agent = a}
           cancels == {Note("cancel", c) : c \in left}
           notes == SetToSeq(cancels)
<1>1. /\ Ended(left) /\ Abandons(left) /\ Down(notes)
      /\ UNCHANGED <<outbox, owners, seen, handed, browserVars, link, up>>
  BY DEF AgentLeaves
<1>2. left \in SUBSET Call
  OBVIOUS
<1>3. IsFiniteSet(cancels) /\ cancels \subseteq DownNote /\ \A n \in cancels : n.kind = "cancel"
  <2>1. IsFiniteSet(left)
    <3>1. IsFiniteSet(Call)
      BY BaselineAssumption, FS_Interval DEF Call
    <3> QED
      BY <1>2, <3>1, FS_Subset
  <2> DEFINE f == [c \in left |-> Note("cancel", c)]
  <2>2. f \in Surjection(left, cancels)
    BY DEF Surjection
  <2> HIDE DEF left, cancels, f
  <2>3. IsFiniteSet(cancels)
    BY <2>1, <2>2, FS_Surjection
  <2> USE DEF cancels
  <2> QED
    BY <1>2, <2>3, NoteType
<1> HIDE DEF left, cancels
<1>4. notes \in Seq(DownNote) /\ \A n \in ToSet(notes) : n.kind = "cancel"
  <2>1. SetToSeq(cancels) \in Seq(cancels) /\ ToSet(SetToSeq(cancels)) = cancels
    BY <1>3, SetToSeqHas
  <2> QED
    BY <1>3, <2>1
<1> HIDE DEF notes
<1>5. abandoned \in Seq(Call)
  BY DEF BaselineInv, BaselineTypes
<1>6. /\ abandoned' \in Seq(Call) /\ lapsed \subseteq lapsed'
      /\ ToSet(abandoned) \union (left \intersect Creations) \subseteq ToSet(abandoned') \union lapsed'
  BY <1>1, <1>2, <1>5, AbandonsAll
<1> QED
  BY <1>1, <1>4, <1>6, CallsEnd

\* An answer is written, or its agent is going.
LEMMA WrittenKeeps == ASSUME BaselineInv, NEW c \in Call, Written(c) PROVE BaselineInv'
<1> USE DEF BaselineInv
<1>1. /\ c \in outbox /\ outbox' = outbox \ {c} /\ handed' = handed \union {c}
      /\ UNCHANGED <<calls, owners, abandoned, seen, link, down, up, lapsed>>
      /\ UNCHANGED <<records, tasks, grant, told, closing, grants, spoiled>>
  BY DEF Written, browserVars
<1>2. handed' \union outbox' = handed \union outbox /\ Answers' = Answers
      /\ Creations' = Creations /\ Awaited' = Awaited
  BY <1>1 DEF Answers, Creations, Awaited
<1>3. BaselineTypes'
  BY <1>1 DEF BaselineTypes
<1>4. GrantFits' /\ HeardOf' /\ AccountedFor' /\ LostFit' /\ Scoped'
  BY <1>1 DEF GrantFits, HeardOf, AccountedFor, LostFit, Scoped
<1>5. ReachedStill'
  BY <1>1, <1>2 DEF ReachedStill
<1>6. CallsFit'
  BY <1>1 DEF CallsFit
<1>7. AnswersFit'
  BY <1>1, <1>2 DEF AnswersFit
<1>8. YoungFit'
  BY <1>1, <1>2 DEF YoungFit
<1>9. WaitedFor'
  BY <1>1, <1>2 DEF WaitedFor
<1> QED
  BY <1>3, <1>4, <1>5, <1>6, <1>7, <1>8, <1>9

LEMMA AgentClosesKeeps == ASSUME BaselineInv, NEW a \in Agent, AgentCloses(a) PROVE BaselineInv'
<1> USE DEF BaselineInv
<1>1. /\ UNCHANGED <<calls, owners, abandoned, seen, link, down, up, lapsed, handed, outbox>>
      /\ UNCHANGED <<records, tasks, grant, told, closing, grants, spoiled>>
  BY DEF AgentCloses, browserVars
<1>2. Answers' = Answers /\ Creations' = Creations /\ Awaited' = Awaited
  BY <1>1 DEF Answers, Creations, Awaited
<1>3. BaselineTypes'
  BY <1>1 DEF BaselineTypes
<1>4. GrantFits' /\ HeardOf' /\ AccountedFor' /\ LostFit' /\ Scoped' /\ ReachedStill' /\ CallsFit'
  BY <1>1 DEF GrantFits, HeardOf, AccountedFor, LostFit, Scoped, ReachedStill, CallsFit
<1>5. AnswersFit' /\ YoungFit' /\ WaitedFor'
  BY <1>1, <1>2 DEF AnswersFit, YoungFit, WaitedFor
<1> QED
  BY <1>3, <1>4, <1>5

LEMMA WriteFailsKeeps == ASSUME BaselineInv, NEW c \in Call, WriteFails(c) PROVE BaselineInv'
<1> USE DEF BaselineInv
<1> DEFINE notes == <<Note("orphan", c)>>
<1>1. notes \in Seq(DownNote) /\ SentOnce(notes) /\ ToSet(notes) = {Note("orphan", c)}
  BY OneNote, NoteType
<1>2. /\ c \in outbox /\ outbox' = outbox \ {c} /\ owners' = Without(owners, {c}) /\ Down(notes)
      /\ UNCHANGED <<calls, abandoned, seen, handed, link, up, lapsed>>
      /\ UNCHANGED <<records, tasks, grant, told, closing, grants, spoiled>>
  BY DEF WriteFails, browserVars
<1> HIDE DEF notes
<1>3. owners' \in Seq(Call) /\ ToSet(owners') = ToSet(owners) \ {c}
  BY <1>2, WithoutHas DEF BaselineTypes
<1>4. /\ down' \in Seq(DownNote) /\ (link # "on" => down' = down)
      /\ (link = "on" => ToSet(down') = ToSet(down) \union ToSet(notes))
      /\ ToSet(down) \subseteq ToSet(down') /\ ToSet(down') \subseteq ToSet(down) \union ToSet(notes)
      /\ SentOnce(down')
  <2>1. down \in Seq(DownNote) /\ SentOnce(down)
    BY DEF BaselineTypes, CallsFit
  <2>2. \A n \in ToSet(notes) : n.kind # "create"
    BY <1>1, NoteType
  <2> QED
    BY <1>1, <1>2, <2>1, <2>2, DownAdds
<1>5. \A n \in ToSet(down') : n \in ToSet(down) \/ n.kind = "orphan"
  BY <1>1, <1>4, NoteType
<1>6. \A x \in Call : Note("create", x) \in ToSet(down') <=> Note("create", x) \in ToSet(down)
  BY <1>4, <1>5, NoteType
<1>7. Answers' = Answers /\ Creations' = Creations /\ Awaited' = Awaited
  BY <1>2 DEF Answers, Creations, Awaited
<1>8. BaselineTypes'
  BY <1>2, <1>3, <1>4 DEF BaselineTypes
<1>9. GrantFits' /\ HeardOf' /\ LostFit' /\ Scoped'
  BY <1>2, <1>4 DEF GrantFits, HeardOf, LostFit, Scoped
<1>10. AccountedFor'
  <2>1. told # 0 => link = "on"
    BY DEF GrantFits
  <2> QED
    BY <1>1, <1>2, <1>3, <1>4, <2>1 DEF AccountedFor
<1>11. ReachedStill'
  BY <1>2, <1>3 DEF ReachedStill, AnswersFit
<1>12. CallsFit'
  BY <1>2, <1>4, <1>5, <1>6 DEF CallsFit
<1>13. AnswersFit'
  BY <1>2, <1>7 DEF AnswersFit
<1>14. YoungFit'
  BY <1>2, <1>6, <1>7 DEF YoungFit
<1>15. WaitedFor'
  BY <1>2, <1>6, <1>7 DEF WaitedFor
<1> QED
  BY <1>8, <1>9, <1>10, <1>11, <1>12, <1>13, <1>14, <1>15

\* A new call has a number nothing is known of yet.
LEMMA DemandKeeps ==
  ASSUME BaselineInv, NEW a \in Agent, NEW op \in {"create", "compare", "release"}, NEW t \in Tab \union {"none"},
         NEW of \in Nat, op # "create" => of \in handed, Demand(a, op, t, of)
  PROVE  BaselineInv'
<1> USE DEF BaselineInv
<1> DEFINE sends == op = "create" \/ (of \in ToSet(owners) /\ seen # 0)
           call == [op |-> op, agent |-> a, tab |-> t, of |-> of, pending |-> sends]
<1>1. PICK c \in Call : /\ calls[c].op = "none"
                        /\ calls' = [calls EXCEPT ![c] = call]
                        /\ Down(IF sends THEN <<Note(op, c)>> ELSE <<>>)
  BY DEF Demand
<1>2. /\ UNCHANGED <<outbox, owners, abandoned, seen, handed, link, up, lapsed>>
      /\ UNCHANGED <<records, tasks, grant, told, closing, grants, spoiled>>
  BY DEF Demand, browserVars
<1>3. call \in CallRecord /\ call.op = op /\ call.of = of /\ (op = "create" => call.pending)
  <2>1. sends \in BOOLEAN
    OBVIOUS
  <2>2. call.pending = sends
    OBVIOUS
  <2>3. call \in CallRecord /\ call.op = op /\ call.of = of
    <3> HIDE DEF sends
    <3> QED
      BY <2>1 DEF CallRecord
  <2>4. op = "create" => sends
    OBVIOUS
  <2> QED
    BY <2>2, <2>3, <2>4, Zenon
<1> DEFINE notes == IF sends THEN <<Note(op, c)>> ELSE <<>>
<1>4. Note(op, c) \in DownNote /\ Note(op, c).kind = op /\ Note(op, c).call = c
  BY NoteType
<1>5. notes \in Seq(DownNote) /\ SentOnce(notes) /\ ToSet(notes) \subseteq {Note(op, c)}
  BY <1>4, OneNote, NothingUnderWay
<1>6. Down(notes)
  BY <1>1
<1> HIDE DEF sends, call, notes
<1>7. /\ calls' \in [Call -> CallRecord] /\ calls'[c] = call
      /\ \A x \in Call : x # c => calls'[x] = calls[x]
  BY <1>1, <1>3 DEF BaselineTypes
<1>8. /\ down' \in Seq(DownNote) /\ (link # "on" => down' = down)
      /\ ToSet(down) \subseteq ToSet(down') /\ ToSet(down') \subseteq ToSet(down) \union ToSet(notes)
      /\ SentOnce(down')
  <2>1. down \in Seq(DownNote) /\ SentOnce(down)
    BY DEF BaselineTypes, CallsFit
  <2>2. \A n \in ToSet(notes) : n.kind = "create" => n \notin ToSet(down)
    BY <1>1, <1>4, <1>5 DEF CallsFit
  <2> QED
    BY <1>5, <1>6, <2>1, <2>2, DownAdds
<1>9. \A n \in ToSet(down') : n \in ToSet(down) \/ n = Note(op, c)
  BY <1>5, <1>8
<1>10. ASSUME NEW x \in Call, Note("create", x) \in ToSet(down')
       PROVE  Note("create", x) \in ToSet(down) \/ (x = c /\ op = "create")
  <2>1. Note("create", x).kind = "create" /\ Note("create", x).call = x
    BY NoteType
  <2> QED
    BY <1>4, <1>9, <1>10, <2>1
<1>11. Answers' = Answers
  BY <1>2 DEF Answers
<1>12. BaselineTypes'
  BY <1>2, <1>7, <1>8 DEF BaselineTypes
<1>13. GrantFits' /\ HeardOf' /\ LostFit' /\ Scoped'
  BY <1>2, <1>8 DEF GrantFits, HeardOf, LostFit, Scoped
<1>14. AccountedFor'
  BY <1>2, <1>8 DEF AccountedFor
<1>15. ReachedStill'
  BY <1>1, <1>2, <1>7 DEF ReachedStill
<1>16. \A x \in Call : calls[x].op # "none" => calls'[x] = calls[x]
  BY <1>1, <1>7
<1>17. c \notin ToSet(records) \union outbox \union handed /\ \A n \in Answers : n.call # c
  BY <1>1 DEF YoungFit
<1>18. CallsFit'
  <2>1. \A x \in Call : calls'[x].op = "none" =>
          tasks'[x] = "none" /\ Note("create", x) \notin ToSet(down') /\ x \notin spoiled'
    BY <1>1, <1>2, <1>3, <1>7, <1>10 DEF CallsFit
  <2>2. \A x \in Call : Note("create", x) \in ToSet(down') =>
          tasks'[x] = "none" /\ x \notin spoiled' /\ calls'[x].op = "create"
    BY <1>1, <1>2, <1>3, <1>7, <1>10 DEF CallsFit
  <2>3. \A x \in Call : tasks'[x] # "none" => calls'[x].op = "create"
    BY <1>1, <1>2, <1>7 DEF CallsFit
  <2>4. \A x \in Call : tasks'[x] = "capturing" => x \notin spoiled'
    BY <1>2 DEF CallsFit
  <2>5. \A n \in ToSet(down') : n.kind \in {"compare", "release"} => calls'[n.call].op = n.kind
    <3>1. \A n \in ToSet(down) : n.call \in Call
      BY BaselineElements
    <3> QED
      BY <1>1, <1>3, <1>4, <1>7, <1>9, <3>1 DEF CallsFit
  <2>6. \A x \in Call : calls'[x].op \in {"compare", "release"} => calls'[x].of \in handed'
    BY <1>2, <1>3, <1>7 DEF CallsFit
  <2> QED
    BY <1>8, <2>1, <2>2, <2>3, <2>4, <2>5, <2>6 DEF CallsFit
<1>19. \A n \in Answers : n.call \in Call /\ calls'[n.call] = calls[n.call]
  BY <1>7, <1>17, BaselineElements
<1>20. AnswersFit'
  <2>1. AnsweredOnce(up, Creations')
    <3>1. \A x \in Call : x \in Creations' => x = c \/ x \in Creations
      BY <1>7 DEF Creations
    <3>2. \A i \in DOMAIN up : up[i].kind = "answer" => up[i] \in Answers
      BY DEF Answers, ToSet
    <3>3. \A i \in DOMAIN up : up[i].kind = "answer" => up[i].call # c /\ up[i].call \in Call
      BY <1>17, <1>19, <3>2
    <3>4. AnsweredOnce(up, Creations)
      BY DEF AnswersFit
    <3> QED
      BY <3>1, <3>3, <3>4 DEF AnsweredOnce
  <2> QED
    BY <1>2, <1>11, <1>19, <2>1 DEF AnswersFit
<1>21. YoungFit'
  <2>1. ToSet(records) \subseteq Call /\ outbox \subseteq Call /\ handed \subseteq Call
    BY BaselineElements
  <2>2. ASSUME NEW x \in Call, calls'[x].op = "none" \/ Note("create", x) \in ToSet(down') \/ tasks'[x] # "none"
        PROVE  calls[x].op = "none" \/ Note("create", x) \in ToSet(down) \/ tasks[x] # "none"
    BY <1>1, <1>2, <1>7, <1>10, <2>2
  <2> QED
    BY <1>2, <1>7, <1>11, <1>17, <2>1, <2>2 DEF YoungFit
<1>22. WaitedFor'
  <2>1. \A x \in Call : x \in Awaited => x = c \/ x \in Awaited'
    BY <1>7 DEF Awaited
  <2>2. op = "create" => c \in Awaited'
    BY <1>3, <1>7 DEF Awaited
  <2>3. tasks[c] = "none" /\ c \notin ToSet(records)
    BY <1>1, <1>17 DEF CallsFit
  <2>4. Note("create", c) \notin ToSet(down)
    BY <1>1 DEF CallsFit
  <2> QED
    BY <1>2, <1>10, <2>1, <2>2, <2>3, <2>4 DEF WaitedFor
<1> QED
  BY <1>12, <1>13, <1>14, <1>15, <1>18, <1>20, <1>21, <1>22

\* The daemon takes what is first under way to it.
LEMMA UpTaken ==
  ASSUME BaselineInv, up # <<>>, up' = Tail(up)
  PROVE  /\ up' \in Seq(UpNote) /\ Head(up) \in UpNote /\ ToSet(up) = {Head(up)} \union ToSet(up')
         /\ link # "off" /\ GoneLast(up', link)
         /\ Head(up).kind = "gone" => link = "lost" /\ up' = <<>>
         /\ AnsweredOnce(up', Creations)
         /\ Head(up).kind = "answer" /\ Head(up).call \in Creations => \A n \in Answers' : n.call # Head(up).call
         /\ Answers' \subseteq Answers /\ (Head(up).kind = "answer" => Head(up) \in Answers)
         /\ Announced(up', IF Head(up).kind = "access" THEN Head(up).grant ELSE seen, told, ToSet(records) \ lapsed)
         /\ told # 0 /\ Head(up).kind = "access" /\ (Head(up).grant = 0 \/ Head(up).grant # seen) =>
              \A id \in ToSet(records) \ lapsed : \E n \in ToSet(up') : Brings(n, id)
<1> USE DEF BaselineInv
<1>1. up \in Seq(UpNote)
  BY DEF BaselineTypes
<1>2. up' \in Seq(UpNote) /\ Head(up) \in UpNote /\ ToSet(up) = {Head(up)} \union ToSet(up')
  BY <1>1, TailElements
<1>3. link # "off"
  BY DEF GrantFits
<1>4. GoneLast(up', link) /\ (Head(up).kind = "gone" => link = "lost" /\ up' = <<>>)
  BY <1>1, GoneLastLess DEF GrantFits
<1>5. /\ AnsweredOnce(up', Creations)
      /\ Head(up).kind = "answer" /\ Head(up).call \in Creations =>
           \A n \in ToSet(up') : n.kind = "answer" => n.call # Head(up).call
  BY <1>1, AnsweredOnceLess DEF AnswersFit
<1>6. Answers' \subseteq Answers /\ (Head(up).kind = "answer" => Head(up) \in Answers)
  BY <1>2 DEF Answers
<1>7. /\ Announced(up', IF Head(up).kind = "access" THEN Head(up).grant ELSE seen, told, ToSet(records) \ lapsed)
      /\ told # 0 /\ Head(up).kind = "access" /\ (Head(up).grant = 0 \/ Head(up).grant # seen) =>
              \A id \in ToSet(records) \ lapsed : \E n \in ToSet(up') : Brings(n, id)
  BY <1>1, AnnouncedLess DEF HeardOf
<1> QED
  BY <1>2, <1>3, <1>4, <1>5, <1>6, <1>7 DEF Answers

\* A registry that is cleared forgets only what an answer still under way will tell.
LEMMA AccessKeeps ==
  ASSUME BaselineInv, up # <<>>, up' = Tail(up), Head(up).kind = "access", Access(Head(up).grant),
         UNCHANGED <<handed, browserVars>>
  PROVE  BaselineInv'
<1> USE DEF BaselineInv
<1> DEFINE g == Head(up).grant
           wiped == g = 0 \/ g # seen
<1>1. /\ seen' = g
      /\ wiped => owners' = <<>> /\ abandoned' = <<>> /\ lapsed' = lapsed \union ToSet(abandoned)
      /\ ~wiped => UNCHANGED <<owners, abandoned, lapsed>>
      /\ UNCHANGED <<calls, outbox, link, down, handed>>
      /\ UNCHANGED <<records, tasks, grant, told, closing, grants, spoiled>>
  BY DEF Access, browserVars
<1>2. /\ up' \in Seq(UpNote) /\ Head(up) \in UpNote /\ ToSet(up) = {Head(up)} \union ToSet(up')
      /\ link # "off" /\ GoneLast(up', link) /\ AnsweredOnce(up', Creations) /\ Answers' \subseteq Answers
      /\ Announced(up', g, told, ToSet(records) \ lapsed)
      /\ told # 0 /\ wiped => \A id \in ToSet(records) \ lapsed : \E n \in ToSet(up') : Brings(n, id)
  BY UpTaken
<1>3. g \in Nat
  BY <1>2 DEF UpNote
<1> HIDE DEF g, wiped
<1>4. Creations' = Creations /\ Awaited' = Awaited
  BY <1>1 DEF Creations, Awaited
<1>5. lapsed \subseteq lapsed' /\ ToSet(records') \ lapsed' \subseteq ToSet(records) \ lapsed
  BY <1>1
<1>6. <<>> \in Seq(Call)
  OBVIOUS
<1>7. BaselineTypes'
  BY <1>1, <1>2, <1>3, <1>6 DEF BaselineTypes
<1>8. GrantFits' /\ LostFit' /\ Scoped'
  BY <1>1, <1>2, <1>5 DEF GrantFits, LostFit, Scoped
<1>9. HeardOf'
  BY <1>1, <1>2, <1>5, AnnouncedOfLess DEF HeardOf
<1>10. \A id : Brings(Head(up), id) => FALSE
  BY DEF Brings
<1>11. AccountedFor'
  <2>1. CASE wiped
    BY <1>1, <1>2, <1>5, <2>1 DEF AccountedFor
  <2>2. CASE ~wiped
    BY <1>1, <1>2, <1>5, <1>10, <2>2 DEF AccountedFor
  <2> QED
    BY <2>1, <2>2
<1>12. ReachedStill'
  <2>1. ASSUME wiped, NEW id \in (handed \union outbox) \intersect (ToSet(records) \ lapsed)
        PROVE  FALSE
    <3>1. told # 0
      BY <2>1 DEF GrantFits
    <3>2. PICK n \in ToSet(up') : Brings(n, id)
      BY <1>2, <2>1, <3>1
    <3>3. n \in Answers /\ n.call = id
      BY <1>2, <3>2 DEF Answers, Brings
    <3>4. calls[id].op = "create"
      BY <2>1 DEF YoungFit
    <3> QED
      BY <2>1, <3>3, <3>4 DEF AnswersFit
  <2>2. CASE wiped
    BY <1>1, <1>5, <2>1, <2>2 DEF ReachedStill
  <2>3. CASE ~wiped
    BY <1>1, <2>3 DEF ReachedStill
  <2> QED
    BY <2>2, <2>3
<1>13. CallsFit'
  BY <1>1 DEF CallsFit
<1>14. AnswersFit'
  BY <1>1, <1>2, <1>4 DEF AnswersFit
<1>15. YoungFit'
  BY <1>1, <1>2 DEF YoungFit
<1>16. WaitedFor'
  <2>1. ToSet(abandoned) \subseteq ToSet(abandoned') \union lapsed'
    BY <1>1
  <2> QED
    BY <1>1, <1>2, <1>4, <1>5, <2>1 DEF WaitedFor
<1> QED
  BY <1>7, <1>8, <1>9, <1>11, <1>12, <1>13, <1>14, <1>15, <1>16

\* With the connection, everything under way and every record known is gone.
LEMMA GoneKeeps ==
  ASSUME BaselineInv, up # <<>>, up' = Tail(up), Head(up).kind = "gone", Gone, UNCHANGED <<handed, browserVars>>
  PROVE  BaselineInv'
<1> USE DEF BaselineInv
<1>1. /\ link' = "off" /\ owners' = <<>> /\ abandoned' = <<>> /\ seen' = 0 /\ Ended(Call)
      /\ UNCHANGED <<outbox, down, lapsed, handed>>
      /\ UNCHANGED <<records, tasks, grant, told, closing, grants, spoiled>>
  BY DEF Gone, browserVars
<1>2. link = "lost" /\ up' = <<>> /\ up' \in Seq(UpNote)
  BY UpTaken
<1>3. told = 0 /\ down = <<>> /\ ToSet(records) \ lapsed = {}
  BY <1>2 DEF GrantFits
<1>4. /\ calls' \in [Call -> CallRecord]
      /\ \A c \in Call : calls'[c].op = calls[c].op /\ calls'[c].of = calls[c].of
      /\ Creations' = Creations
  BY <1>1, EndedHas DEF BaselineTypes
<1>5. ToSet(up') = {} /\ Answers' = {} /\ ToSet(down') = {}
  BY <1>1, <1>2, <1>3, NothingUnderWay DEF Answers
<1>6. <<>> \in Seq(Call)
  OBVIOUS
<1>7. BaselineTypes'
  BY <1>1, <1>2, <1>4, <1>6 DEF BaselineTypes
<1>8. GrantFits'
  BY <1>1, <1>2, <1>3, NothingUnderWay DEF GrantFits
<1>9. HeardOf'
  BY <1>1, <1>2, <1>3, NothingUnderWay DEF HeardOf
<1>10. AccountedFor' /\ ReachedStill' /\ Scoped'
  BY <1>1, <1>3 DEF AccountedFor, ReachedStill, Scoped
<1>11. CallsFit'
  BY <1>1, <1>4, <1>5 DEF CallsFit
<1>12. AnswersFit'
  BY <1>1, <1>2, <1>5, NothingUnderWay DEF AnswersFit
<1>13. YoungFit'
  <2>1. ToSet(records) \subseteq Call /\ outbox \subseteq Call /\ handed \subseteq Call
    BY BaselineElements
  <2> QED
    BY <1>1, <1>4, <1>5, <2>1 DEF YoungFit
<1>14. LostFit'
  BY <1>1, <1>2 DEF LostFit
<1>15. WaitedFor'
  BY <1>1, <1>2, <1>3, <1>5 DEF WaitedFor, LostFit
<1> QED
  BY <1>7, <1>8, <1>9, <1>10, <1>11, <1>12, <1>13, <1>14, <1>15

\* Each way an answer is taken keeps the owners of what the browser still has, and
\* makes or releases what a creation brings.
LEMMA AnswerKeeps ==
  ASSUME BaselineInv, up # <<>>, up' = Tail(up), Head(up).kind = "answer",
         Answer(Head(up).call, Head(up).ok, Head(up).evicted), UNCHANGED <<handed, browserVars>>
  PROVE  BaselineInv'
<1> USE DEF BaselineInv
<1> DEFINE note == Head(up)
           c == note.call
           orphan == Note("orphan", c)
           held == ToSet(records) \ lapsed
<1>1. /\ UNCHANGED <<seen, link, handed>>
      /\ UNCHANGED <<records, tasks, grant, told, closing, grants, spoiled>>
  BY DEF Answer, browserVars
<1>2. /\ up' \in Seq(UpNote) /\ ToSet(up) = {note} \union ToSet(up')
      /\ link # "off" /\ GoneLast(up', link) /\ AnsweredOnce(up', Creations)
      /\ Answers' \subseteq Answers /\ note \in Answers
      /\ c \in Creations => \A n \in Answers' : n.call # c
      /\ Announced(up', seen, told, ToSet(records) \ lapsed)
  BY UpTaken
<1>3. /\ c \in Call /\ note.kind = "answer" /\ note \in ToSet(up)
      /\ note.evicted \subseteq Call /\ note.ok \in {"ok", "failed", "missing"}
  BY <1>2, BaselineElements
<1>4. \A id : Brings(note, id) <=> id = c /\ note.ok = "ok"
  BY <1>3 DEF Brings
<1>5. /\ calls[c].op # "none" /\ note.evicted \intersect ToSet(records) = {}
      /\ c \in Creations => c \notin outbox \union handed
      /\ c \notin Creations /\ (note.ok = "missing" \/ (note.ok = "ok" /\ calls[c].op = "release")) =>
           calls[c].of \notin ToSet(records)
  BY <1>2, <1>3 DEF AnswersFit, Creations
<1>6. Note("create", c) \notin ToSet(down) /\ tasks[c] = "none"
  BY <1>2, <1>3 DEF YoungFit
<1>7. c \in ToSet(records) => c \in Creations
  BY <1>3 DEF YoungFit, Creations
<1>8. orphan \in DownNote /\ orphan.kind = "orphan" /\ orphan.call = c
  BY <1>3, NoteType
<1>9. <<orphan>> \in Seq(DownNote) /\ SentOnce(<<orphan>>) /\ ToSet(<<orphan>>) = {orphan}
  BY <1>8, OneNote
<1>10. down \in Seq(DownNote) /\ SentOnce(down) /\ <<>> \in Seq(DownNote) /\ SentOnce(<<>>) /\ ToSet(<<>>) = {}
  BY NothingUnderWay DEF BaselineTypes, CallsFit
<1>11. ASSUME NEW notes, notes = <<orphan>> \/ notes = <<>>, Down(notes)
       PROVE  /\ down' \in Seq(DownNote) /\ SentOnce(down') /\ (link # "on" => down' = down)
              /\ ToSet(down) \subseteq ToSet(down') /\ ToSet(down') \subseteq ToSet(down) \union {orphan}
              /\ link = "on" /\ notes = <<orphan>> => orphan \in ToSet(down')
  <2> HIDE DEF orphan
  <2>1. notes \in Seq(DownNote) /\ SentOnce(notes) /\ \A n \in ToSet(notes) : n.kind # "create"
    BY <1>8, <1>9, <1>10, <1>11
  <2>2. /\ down' \in Seq(DownNote) /\ (link # "on" => down' = down) /\ SentOnce(down')
        /\ link = "on" => ToSet(down') = ToSet(down) \union ToSet(notes)
        /\ ToSet(down) \subseteq ToSet(down') /\ ToSet(down') \subseteq ToSet(down) \union ToSet(notes)
    BY <1>10, <1>11, <2>1, DownAdds
  <2> QED
    BY <1>9, <1>10, <1>11, <2>2
<1>12. told # 0 => link = "on"
  BY DEF GrantFits
<1>13. calls \in [Call -> CallRecord] /\ owners \in Seq(Call) /\ abandoned \in Seq(Call)
  BY DEF BaselineTypes
<1>14. c \in Awaited <=> Pending(c)
  BY <1>3 DEF Awaited, Pending
<1> DEFINE Effect ==
             /\ calls' \in [Call -> CallRecord] /\ Creations' = Creations /\ Awaited \ {c} \subseteq Awaited'
             /\ \A x \in Call : calls'[x].op = calls[x].op /\ calls'[x].of = calls[x].of
             /\ down' \in Seq(DownNote) /\ SentOnce(down') /\ (link # "on" => down' = down)
             /\ ToSet(down) \subseteq ToSet(down') /\ ToSet(down') \subseteq ToSet(down) \union {orphan}
             /\ owners' \in Seq(Call) /\ lapsed \subseteq lapsed'
             /\ \A x \in held \ lapsed' : x \in ToSet(owners) => x \in ToSet(owners')
             /\ abandoned' \in Seq(Call) /\ ToSet(abandoned) \ {c} \subseteq ToSet(abandoned')
             /\ outbox' = outbox \/ (outbox' = outbox \union {c} /\ c \in Creations /\ c \in ToSet(owners'))
             /\ told # 0 /\ note.ok = "ok" /\ c \in held => c \in ToSet(owners') \/ orphan \in ToSet(down')
<1>15. ASSUME ~Pending(c) PROVE Effect
  <2> DEFINE notes == IF c \in ToSet(abandoned) /\ note.ok = "ok" THEN <<orphan>> ELSE <<>>
  <2>1. abandoned' = Without(abandoned, {c}) /\ Down(notes) /\ UNCHANGED <<calls, owners, outbox, lapsed>>
    BY <1>15 DEF Answer
  <2>2. abandoned' \in Seq(Call) /\ ToSet(abandoned') = ToSet(abandoned) \ {c}
    BY <1>13, <2>1, WithoutHas
  <2>3. Creations' = Creations /\ Awaited' = Awaited
    BY <2>1 DEF Creations, Awaited
  <2>4. notes = <<orphan>> \/ notes = <<>>
    OBVIOUS
  <2>5. c \in held /\ note.ok = "ok" => c \in ToSet(abandoned)
    BY <1>3, <1>4, <1>14, <1>15 DEF WaitedFor
  <2>6. c \in held /\ note.ok = "ok" => notes = <<orphan>>
    BY <2>5
  <2> HIDE DEF notes, orphan, held
  <2>7. /\ down' \in Seq(DownNote) /\ SentOnce(down') /\ (link # "on" => down' = down)
        /\ ToSet(down) \subseteq ToSet(down') /\ ToSet(down') \subseteq ToSet(down) \union {orphan}
        /\ link = "on" /\ notes = <<orphan>> => orphan \in ToSet(down')
    BY <1>11, <2>1, <2>4
  <2> QED
    BY <1>12, <1>13, <2>1, <2>2, <2>3, <2>6, <2>7
<1>16. ASSUME Pending(c) PROVE Effect
  <2>1. Ended({c}) /\ abandoned' = abandoned
    BY <1>16 DEF Answer
  <2>2. /\ calls' \in [Call -> CallRecord] /\ Creations' = Creations /\ Awaited' = Awaited \ {c}
        /\ \A x \in Call : calls'[x].op = calls[x].op /\ calls'[x].of = calls[x].of
    BY <1>13, <2>1, EndedHas
  <2>3. \A gone : Without(owners, gone) \in Seq(Call) /\ ToSet(Without(owners, gone)) = ToSet(owners) \ gone
    BY <1>13, WithoutHas
  <2>4. CASE calls[c].op # "create"
    <3>1. /\ owners' = IF note.ok = "missing" \/ (note.ok = "ok" /\ calls[c].op = "release")
                       THEN Without(owners, {calls[c].of}) ELSE owners
          /\ UNCHANGED <<down, outbox, lapsed>>
      BY <1>16, <2>4 DEF Answer
    <3>2. c \notin Creations
      BY <2>4 DEF Creations
    <3>3. owners' \in Seq(Call) /\ \A x \in held : x \in ToSet(owners) => x \in ToSet(owners')
      BY <1>5, <1>13, <2>3, <3>1, <3>2
    <3>4. c \notin held
      BY <1>7, <3>2
    <3> HIDE DEF orphan, held
    <3> QED
      BY <1>10, <1>13, <2>1, <2>2, <3>1, <3>3, <3>4
  <2>5. CASE calls[c].op = "create" /\ note.ok # "ok"
    <3>1. UNCHANGED <<owners, down, outbox, lapsed>>
      BY <1>16, <2>5 DEF Answer
    <3> HIDE DEF orphan, held
    <3> QED
      BY <1>10, <1>13, <2>1, <2>2, <2>5, <3>1
  <2>6. CASE calls[c].op = "create" /\ note.ok = "ok"
    <3> DEFINE kept == Without(owners, note.evicted)
               crowd == Crowded(kept)
               left == Without(kept, crowd)
    <3>1. /\ lapsed' = lapsed \union crowd
          /\ \/ owners' = Append(left, c) /\ outbox' = outbox \union {c} /\ down' = down
             \/ owners' = left /\ outbox' = outbox /\ Down(<<orphan>>)
      BY <1>16, <2>6 DEF Answer
    <3>2. kept \in Seq(Call) /\ ToSet(kept) = ToSet(owners) \ note.evicted
      BY <2>3
    <3> HIDE DEF kept, crowd
    <3>3. left \in Seq(Call) /\ ToSet(left) = ToSet(kept) \ crowd
      BY <3>2, WithoutHas
    <3> HIDE DEF left
    <3>4. c \in Creations
      BY <1>3, <2>6 DEF Creations
    <3>5. \A x \in held \ lapsed' : x \in ToSet(owners) => x \in ToSet(left)
      BY <1>5, <3>1, <3>2, <3>3
    <3> HIDE DEF orphan, held
    <3>6. CASE owners' = Append(left, c) /\ outbox' = outbox \union {c} /\ down' = down
      <4>1. owners' \in Seq(Call) /\ ToSet(owners') = ToSet(left) \union {c}
        BY <1>3, <3>3, <3>6, AppendElements
      <4> QED
        BY <1>10, <1>13, <2>1, <2>2, <3>1, <3>4, <3>5, <3>6, <4>1
    <3>7. CASE owners' = left /\ outbox' = outbox /\ Down(<<orphan>>)
      <4>1. /\ down' \in Seq(DownNote) /\ SentOnce(down') /\ (link # "on" => down' = down)
            /\ ToSet(down) \subseteq ToSet(down') /\ ToSet(down') \subseteq ToSet(down) \union {orphan}
            /\ link = "on" => orphan \in ToSet(down')
        BY <1>11, <3>7
      <4> QED
        BY <1>12, <1>13, <2>1, <2>2, <3>1, <3>3, <3>5, <3>7, <4>1
    <3> QED
      BY <3>1, <3>6, <3>7
  <2> QED
    BY <2>4, <2>5, <2>6
<1>17. Effect
  BY <1>15, <1>16
<1>18. \A n \in ToSet(down') : n \in ToSet(down) \/ n.kind = "orphan"
  BY <1>8, <1>17
<1>19. \A x \in Call : Note("create", x) \in ToSet(down') <=> Note("create", x) \in ToSet(down)
  BY <1>17, <1>18, NoteType
<1>20. BaselineTypes'
  BY <1>1, <1>2, <1>3, <1>17 DEF BaselineTypes
<1>21. GrantFits' /\ HeardOf' /\ LostFit' /\ Scoped'
  <2>1. ToSet(records') \ lapsed' \subseteq ToSet(records) \ lapsed
    BY <1>1, <1>17
  <2> HIDE DEF c, Effect
  <2>2. GrantFits' /\ LostFit' /\ Scoped'
    BY <1>1, <1>2, <1>17, <2>1 DEF GrantFits, LostFit, Scoped, Effect
  <2>3. HeardOf'
    BY <1>1, <1>2, <2>1, AnnouncedOfLess DEF HeardOf
  <2> QED
    BY <2>2, <2>3
<1>22. AccountedFor'
  <2> SUFFICES ASSUME told # 0, ~closing, NEW id \in held \ lapsed'
               PROVE  \/ id \in ToSet(owners') \/ (\E n \in ToSet(up') : Brings(n, id))
                      \/ Note("orphan", id) \in ToSet(down')
    BY <1>1, <1>17 DEF AccountedFor
  <2>1. id \in ToSet(owners) \/ (\E n \in ToSet(up) : Brings(n, id)) \/ Note("orphan", id) \in ToSet(down)
    BY DEF AccountedFor
  <2> QED
    BY <1>2, <1>4, <1>17, <2>1
<1>23. ReachedStill'
  <2> SUFFICES ASSUME NEW id \in (handed \union outbox') \intersect (held \ lapsed')
               PROVE  id \in ToSet(owners') \/ \E x \in Call : calls'[x].op = "release" /\ calls'[x].of = id
    BY <1>1, <1>17 DEF ReachedStill
  <2> HIDE DEF orphan
  <2>1. CASE id \in outbox \union handed
    <3>1. id \in ToSet(owners) \/ \E x \in Call : calls[x].op = "release" /\ calls[x].of = id
      BY <2>1 DEF ReachedStill
    <3> QED
      BY <1>17, <3>1
  <2>2. CASE id \notin outbox \union handed
    BY <1>17, <2>2
  <2> QED
    BY <2>1, <2>2
<1>24. CallsFit'
  <2>1. \A n \in ToSet(down) : n.call \in Call
    BY BaselineElements
  <2> HIDE DEF orphan, c
  <2> QED
    BY <1>1, <1>17, <1>18, <1>19, <2>1 DEF CallsFit
<1>25. \A n \in Answers' : n.call \in Call /\ n \in Answers /\ calls'[n.call].op = calls[n.call].op
         /\ calls'[n.call].of = calls[n.call].of
  BY <1>2, <1>17, BaselineElements
<1>26. AnswersFit'
  <2>1. \A n \in Answers' : calls'[n.call].op # "none" /\ n.evicted \intersect ToSet(records') = {}
    BY <1>1, <1>25 DEF AnswersFit
  <2>2. \A n \in Answers' : calls'[n.call].op = "create" => n.call \notin outbox' \union handed'
    <3>1. \A n \in Answers' : calls'[n.call].op = "create" => n.call \notin outbox \union handed
      BY <1>25 DEF AnswersFit
    <3> HIDE DEF c
    <3> QED
      BY <1>1, <1>2, <1>17, <3>1
  <2>3. \A n \in Answers' : calls'[n.call].op # "create"
          /\ (n.ok = "missing" \/ (n.ok = "ok" /\ calls'[n.call].op = "release")) =>
             calls'[n.call].of \notin ToSet(records')
    BY <1>1, <1>25 DEF AnswersFit
  <2>4. outbox' \intersect handed' = {}
    BY <1>1, <1>5, <1>17 DEF AnswersFit
  <2> QED
    BY <1>2, <1>17, <2>1, <2>2, <2>3, <2>4 DEF AnswersFit
<1>27. YoungFit'
  <2>1. ToSet(records) \subseteq Call /\ outbox \subseteq Call /\ handed \subseteq Call
    BY BaselineElements
  <2>2. ASSUME NEW x \in Call, calls'[x].op = "none" \/ Note("create", x) \in ToSet(down') \/ tasks'[x] # "none"
        PROVE  calls[x].op = "none" \/ Note("create", x) \in ToSet(down) \/ tasks[x] # "none"
    BY <1>1, <1>17, <1>19, <2>2
  <2>3. (outbox' \subseteq outbox \union {c} /\ calls'[c].op = "create") \/ outbox' = outbox
    BY <1>17 DEF Creations
  <2>4. calls[c].op # "none" /\ Note("create", c) \notin ToSet(down) /\ tasks[c] = "none"
    BY <1>5, <1>6
  <2>5. \A x \in Call : calls'[x].op = calls[x].op
    BY <1>17
  <2> HIDE DEF c, Effect
  <2> QED
    BY <1>1, <1>2, <2>1, <2>2, <2>3, <2>4, <2>5 DEF YoungFit
<1>28. WaitedFor'
  <2>1. c \in ToSet(records) => \A n \in ToSet(up') : ~Brings(n, c)
    BY <1>2, <1>7 DEF Brings, Answers
  <2>2. Awaited \ {c} \subseteq Awaited' /\ ToSet(abandoned) \ {c} \subseteq ToSet(abandoned')
    BY <1>17
  <2>3. lapsed \subseteq lapsed'
    BY <1>17
  <2> HIDE DEF c, Effect
  <2> QED
    BY <1>1, <1>2, <1>6, <1>19, <2>1, <2>2, <2>3 DEF WaitedFor
<1> QED
  BY <1>20, <1>21, <1>22, <1>23, <1>24, <1>26, <1>27, <1>28

-----------------------------------------------------------------------------
(* The browser's actions. *)

\* The browser takes what is first under way to it.
LEMMA DownTaken ==
  ASSUME BaselineInv, down # <<>>, down' = Tail(down)
  PROVE  /\ down' \in Seq(DownNote) /\ ToSet(down) = {Head(down)} \union ToSet(down') /\ link = "on"
         /\ Head(down) = Note(Head(down).kind, Head(down).call) /\ Head(down) \in DownNote /\ Head(down).call \in Call
         /\ SentOnce(down') /\ (Head(down).kind = "create" => Head(down) \notin ToSet(down'))
<1> USE DEF BaselineInv
<1>1. down \in Seq(DownNote)
  BY DEF BaselineTypes
<1>2. down' \in Seq(DownNote) /\ Head(down) \in DownNote /\ ToSet(down) = {Head(down)} \union ToSet(down')
  BY <1>1, TailElements
<1>3. SentOnce(down') /\ (Head(down).kind = "create" => Head(down) \notin ToSet(down'))
  BY <1>1, SentOnceLess DEF CallsFit
<1>4. link = "on"
  BY DEF GrantFits
<1>5. Head(down) = Note(Head(down).kind, Head(down).call) /\ Head(down).call \in Call
  BY <1>2, BaselineElements
<1> QED
  BY <1>2, <1>3, <1>4, <1>5

AnswerNote(c, ok, evicted) == [kind |-> "answer", call |-> c, ok |-> ok, evicted |-> evicted]

\* What a reply adds to what is under way.
LEMMA ReplyHas ==
  ASSUME BaselineInv, NEW c \in Call, NEW ok \in {"ok", "failed", "missing"}, NEW evicted \in SUBSET Call,
         Reply(c, ok, evicted)
  PROVE  LET n == AnswerNote(c, ok, evicted)
             held == ToSet(records) \ lapsed
         IN  /\ up' \in Seq(UpNote) /\ GoneLast(up', link)
             /\ link = "on" => n \in ToSet(up')
             /\ link # "on" => up' = up
             /\ ToSet(up) \subseteq ToSet(up') /\ ToSet(up') \subseteq ToSet(up) \union {n}
             /\ Answers' \subseteq Answers \union {n}
             /\ c \notin Creations \/ (\A m \in Answers : m.call # c) => AnsweredOnce(up', Creations)
             /\ \A more : (\A id \in more : id \in held \/ (id = c /\ ok = "ok")) => Announced(up', seen, told, more)
             /\ n.kind = "answer" /\ n.call = c /\ n.ok = ok /\ n.evicted = evicted
             /\ \A id : Brings(n, id) <=> id = c /\ ok = "ok"
<1> USE DEF BaselineInv
<1> DEFINE n == AnswerNote(c, ok, evicted)
           held == ToSet(records) \ lapsed
<1>1. n \in UpNote
  BY DEF UpNote, AnswerNote
<1>2. n.kind = "answer" /\ n.call = c /\ n.ok = ok /\ n.evicted = evicted
  BY DEF AnswerNote
<1>3. \A id : Brings(n, id) <=> id = c /\ ok = "ok"
  BY <1>2 DEF Brings
<1>4. Post(n) /\ up \in Seq(UpNote)
  BY DEF Reply, AnswerNote, BaselineTypes
<1> HIDE DEF n
<1>5. /\ up' \in Seq(UpNote)
      /\ link = "on" => up' = Append(up, n) /\ ToSet(up') = ToSet(up) \union {n}
      /\ link # "on" => up' = up
      /\ ToSet(up) \subseteq ToSet(up') /\ ToSet(up') \subseteq ToSet(up) \union {n}
  BY <1>1, <1>4, PostAdds
<1>6. GoneLast(up', link)
  <2>1. GoneLast(up, link)
    BY DEF GrantFits
  <2>2. CASE link = "on"
    BY <1>1, <1>2, <1>4, <1>5, <2>1, <2>2, GoneLastMore
  <2>3. CASE link # "on"
    BY <1>5, <2>1, <2>3
  <2> QED
    BY <2>2, <2>3
<1>7. Answers' \subseteq Answers \union {n}
  BY <1>5 DEF Answers
<1>8. ASSUME c \notin Creations \/ (\A m \in Answers : m.call # c) PROVE AnsweredOnce(up', Creations)
  <2>1. AnsweredOnce(up, Creations)
    BY DEF AnswersFit
  <2>2. \A m \in ToSet(up) : n.kind = "answer" /\ n.call \in Creations /\ m.kind = "answer" => m.call # n.call
    BY <1>2, <1>8 DEF Answers
  <2>3. AnsweredOnce(Append(up, n), Creations)
    BY <1>1, <1>4, <2>1, <2>2, AnsweredOnceMore
  <2> QED
    BY <1>5, <2>1, <2>3
<1>9. ASSUME NEW more, \A id \in more : id \in held \/ (id = c /\ ok = "ok")
      PROVE  Announced(up', seen, told, more)
  <2>1. CASE link = "on"
    <3>1. Announced(up, seen, told, held)
      BY DEF HeardOf
    <3>2. \A id \in more : id \in held \/ Brings(n, id)
      BY <1>3, <1>9
    <3>3. n.kind = "access" => n.grant = told
      BY <1>2
    <3> HIDE DEF held
    <3>4. Announced(Append(up, n), seen, told, more)
      BY <1>1, <1>4, <3>1, <3>2, <3>3, AnnouncedMore
    <3> QED
      BY <1>5, <2>1, <3>4
  <2>2. CASE link # "on"
    BY <2>2 DEF GrantFits, Announced
  <2> QED
    BY <2>1, <2>2
<1> QED
  BY <1>2, <1>3, <1>5, <1>6, <1>7, <1>8, <1>9 DEF n

\* A creation fails, at its start or with its capture.
LEMMA CreationFails ==
  ASSUME BaselineInv, NEW c \in Call, Note("create", c) \in ToSet(down) \/ tasks[c] # "none", Reply(c, "failed", {}),
         tasks' = [tasks EXCEPT ![c] = "none"],
         down' \in Seq(DownNote), SentOnce(down'), link # "on" => down' = down, Note("create", c) \notin ToSet(down'),
         ToSet(down') \subseteq ToSet(down), \A n \in ToSet(down) : n \in ToSet(down') \/ n = Note("create", c),
         UNCHANGED <<daemonVars, records, replaced, grant, told, closing, grants, spoiled, link, lapsed>>
  PROVE  BaselineInv'
<1> USE DEF BaselineInv
<1>1. /\ UNCHANGED <<calls, outbox, owners, abandoned, seen, handed>>
      /\ UNCHANGED <<records, grant, told, closing, grants, spoiled, link, lapsed>>
  BY DEF daemonVars
<1>2. {} \in SUBSET Call
  OBVIOUS
<1> DEFINE n == AnswerNote(c, "failed", {})
           held == ToSet(records) \ lapsed
<1>3. calls[c].op = "create" /\ c \in Creations
  BY DEF CallsFit, Creations
<1>4. c \notin ToSet(records) \union outbox \union handed /\ \A m \in Answers : m.call # c
  BY DEF YoungFit
<1>5. /\ up' \in Seq(UpNote) /\ GoneLast(up', link) /\ (link # "on" => up' = up)
      /\ ToSet(up) \subseteq ToSet(up') /\ ToSet(up') \subseteq ToSet(up) \union {n}
      /\ Answers' \subseteq Answers \union {n}
      /\ AnsweredOnce(up', Creations) /\ Announced(up', seen, told, held)
      /\ n.kind = "answer" /\ n.call = c /\ n.ok = "failed" /\ n.evicted = {}
      /\ \A id : ~Brings(n, id)
  BY <1>2, <1>4, ReplyHas
<1> HIDE DEF n
<1>6. /\ tasks' \in [Call -> {"none", "capturing", "changed", "aborted"}] /\ tasks'[c] = "none"
      /\ \A x \in Call : x # c => tasks'[x] = tasks[x]
  BY DEF BaselineTypes
<1>7. Creations' = Creations /\ Awaited' = Awaited
  BY <1>1 DEF Creations, Awaited
<1>8. Note("orphan", c) # Note("create", c) /\ \A id : Note("orphan", id) # Note("create", c)
  BY DEF Note
<1>9. BaselineTypes'
  BY <1>1, <1>5, <1>6 DEF BaselineTypes
<1>10. GrantFits' /\ HeardOf' /\ Scoped'
  BY <1>1, <1>5 DEF GrantFits, HeardOf, Scoped
<1>11. AccountedFor'
  BY <1>1, <1>5, <1>8 DEF AccountedFor
<1>12. ReachedStill'
  BY <1>1 DEF ReachedStill
<1>13. CallsFit'
  BY <1>1, <1>6 DEF CallsFit
<1>14. AnswersFit'
  BY <1>1, <1>3, <1>4, <1>5, <1>7 DEF AnswersFit
<1>15. YoungFit'
  BY <1>1, <1>3, <1>5, <1>6 DEF YoungFit
<1>16. WaitedFor'
  BY <1>1, <1>5, <1>6, <1>7 DEF WaitedFor
<1>17. LostFit'
  BY <1>1, <1>6 DEF LostFit
<1> QED
  BY <1>9, <1>10, <1>11, <1>12, <1>13, <1>14, <1>15, <1>16, <1>17

LEMMA CaptureFailsKeeps == ASSUME BaselineInv, NEW c \in Call, CaptureFails(c) PROVE BaselineInv'
<1>1. /\ tasks[c] # "none" /\ Reply(c, "failed", {}) /\ tasks' = [tasks EXCEPT ![c] = "none"] /\ down' = down
      /\ UNCHANGED <<daemonVars, records, replaced, grant, told, closing, grants, spoiled, link, lapsed>>
  BY DEF CaptureFails
<1>2. down' \in Seq(DownNote) /\ SentOnce(down') /\ Note("create", c) \notin ToSet(down')
  BY <1>1 DEF BaselineInv, BaselineTypes, CallsFit
<1> QED
  BY <1>1, <1>2, CreationFails

\* A creation begins or is refused; a cancellation aborts its task.
LEMMA BeginsKeeps ==
  ASSUME BaselineInv, down # <<>>, down' = Tail(down), Head(down).kind = "create", Begins(Head(down)),
         UNCHANGED <<daemonVars, grant, told, closing, grants, spoiled, link, turns, lapsed>>
  PROVE  BaselineInv'
<1> USE DEF BaselineInv
<1> DEFINE c == Head(down).call
<1>1. /\ down' \in Seq(DownNote) /\ ToSet(down) = {Note("create", c)} \union ToSet(down') /\ link = "on"
      /\ c \in Call /\ SentOnce(down') /\ Note("create", c) \notin ToSet(down')
  BY DownTaken
<1>2. /\ grant = 0 => Reply(c, "failed", {}) /\ UNCHANGED tasks
      /\ grant # 0 => tasks' = [tasks EXCEPT ![c] = "capturing"] /\ UNCHANGED up
      /\ UNCHANGED <<records, replaced>>
  BY DEF Begins
<1> HIDE DEF c
<1>3. tasks[c] = "none" /\ c \notin spoiled /\ calls[c].op = "create"
  BY <1>1 DEF CallsFit
<1>4. CASE grant = 0
  <2>1. tasks' = [tasks EXCEPT ![c] = "none"]
    BY <1>2, <1>3, <1>4 DEF BaselineTypes
  <2>2. /\ Note("create", c) \in ToSet(down) \/ tasks[c] # "none"
        /\ Reply(c, "failed", {}) /\ (link # "on" => down' = down)
        /\ ToSet(down') \subseteq ToSet(down) /\ \A n \in ToSet(down) : n \in ToSet(down') \/ n = Note("create", c)
        /\ UNCHANGED <<daemonVars, records, replaced, grant, told, closing, grants, spoiled, link, lapsed>>
    BY <1>1, <1>2, <1>4
  <2> QED
    BY <1>1, <2>1, <2>2, CreationFails
<1>5. CASE grant # 0
  <2>1. /\ UNCHANGED <<calls, outbox, owners, abandoned, seen, handed, up>>
        /\ UNCHANGED <<records, grant, told, closing, grants, spoiled, link, lapsed>>
    BY <1>2, <1>5 DEF daemonVars
  <2>2. /\ tasks' \in [Call -> {"none", "capturing", "changed", "aborted"}] /\ tasks'[c] = "capturing"
        /\ \A x \in Call : x # c => tasks'[x] = tasks[x]
    BY <1>1, <1>2, <1>5 DEF BaselineTypes
  <2>3. Creations' = Creations /\ Awaited' = Awaited /\ Answers' = Answers
    BY <2>1 DEF Creations, Awaited, Answers
  <2>4. BaselineTypes'
    BY <1>1, <2>1, <2>2 DEF BaselineTypes
  <2>5. GrantFits' /\ HeardOf' /\ Scoped' /\ ReachedStill'
    BY <1>1, <2>1 DEF GrantFits, HeardOf, Scoped, ReachedStill
  <2>6. AccountedFor'
    <3>1. \A id : Note("orphan", id) # Note("create", c)
      BY DEF Note
    <3> QED
      BY <1>1, <2>1, <3>1 DEF AccountedFor
  <2>7. CallsFit'
    BY <1>1, <1>3, <2>1, <2>2 DEF CallsFit
  <2>8. AnswersFit'
    BY <2>1, <2>3 DEF AnswersFit
  <2>9. YoungFit'
    BY <1>1, <2>1, <2>2, <2>3 DEF YoungFit
  <2>10. WaitedFor'
    BY <1>1, <2>1, <2>2, <2>3 DEF WaitedFor
  <2>11. LostFit'
    BY <1>1, <2>1 DEF LostFit
  <2> QED
    BY <2>4, <2>5, <2>6, <2>7, <2>8, <2>9, <2>10, <2>11
<1> QED
  BY <1>4, <1>5

LEMMA CancelTakenKeeps ==
  ASSUME BaselineInv, down # <<>>, down' = Tail(down), Head(down).kind = "cancel", Aborted({Head(down).call}),
         UNCHANGED <<records, replaced, up>>,
         UNCHANGED <<daemonVars, grant, told, closing, grants, spoiled, link, turns, lapsed>>
  PROVE  BaselineInv'
<1> USE DEF BaselineInv
<1> DEFINE note == Head(down)
<1>1. /\ down' \in Seq(DownNote) /\ ToSet(down) = {note} \union ToSet(down') /\ link = "on" /\ SentOnce(down')
  BY DownTaken
<1>2. \A id : note # Note("create", id) /\ note # Note("orphan", id)
  BY DEF Note
<1>3. /\ UNCHANGED <<calls, outbox, owners, abandoned, seen, handed, up>>
      /\ UNCHANGED <<records, grant, told, closing, grants, spoiled, link, lapsed>>
  BY DEF daemonVars
<1>4. /\ tasks' \in [Call -> {"none", "capturing", "changed", "aborted"}]
      /\ \A x \in Call : tasks'[x] = tasks[x] \/ (tasks[x] # "none" /\ tasks'[x] = "aborted")
  BY DEF BaselineTypes, Aborted
<1> HIDE DEF note
<1>5. Creations' = Creations /\ Awaited' = Awaited /\ Answers' = Answers
  BY <1>3 DEF Creations, Awaited, Answers
<1>6. BaselineTypes'
  BY <1>1, <1>3, <1>4 DEF BaselineTypes
<1>7. GrantFits' /\ HeardOf' /\ Scoped' /\ ReachedStill' /\ LostFit'
  BY <1>1, <1>3 DEF GrantFits, HeardOf, Scoped, ReachedStill, LostFit
<1>8. AccountedFor'
  BY <1>1, <1>2, <1>3 DEF AccountedFor
<1>9. CallsFit'
  BY <1>1, <1>2, <1>3, <1>4 DEF CallsFit
<1>10. AnswersFit'
  BY <1>3, <1>5 DEF AnswersFit
<1>11. YoungFit'
  BY <1>1, <1>3, <1>4, <1>5 DEF YoungFit
<1>12. WaitedFor'
  BY <1>1, <1>3, <1>4, <1>5 DEF WaitedFor
<1> QED
  BY <1>6, <1>7, <1>8, <1>9, <1>10, <1>11, <1>12

\* A comparison, a description, a release or an orphan finds its record or does not.
LEMMA LookupsKeeps ==
  ASSUME BaselineInv, down # <<>>, down' = Tail(down), Head(down).kind \in {"compare", "release", "orphan"},
         Lookups(Head(down)),
         UNCHANGED <<daemonVars, grant, told, closing, grants, spoiled, link, turns, lapsed>>
  PROVE  BaselineInv'
<1> USE DEF BaselineInv
<1> DEFINE note == Head(down)
           c == note.call
           id == IF note.kind = "orphan" THEN c ELSE calls[c].of
           denied == Lookup(id) = "ok" /\ grant = 0
           ok == IF denied THEN "failed" ELSE IF note.kind = "release" THEN "ok" ELSE Lookup(id)
           held == ToSet(records) \ lapsed
           n == AnswerNote(c, ok, {})
<1>1. /\ down' \in Seq(DownNote) /\ ToSet(down) = {note} \union ToSet(down') /\ link = "on" /\ SentOnce(down')
      /\ note = Note(note.kind, c) /\ c \in Call
  BY DownTaken
<1>2. /\ UNCHANGED <<calls, outbox, owners, abandoned, seen, handed, tasks>>
      /\ UNCHANGED <<grant, told, closing, grants, spoiled, link, lapsed>>
  BY DEF daemonVars, Lookups
<1>3. /\ note.kind = "compare" \/ denied => records' = records
      /\ ~(note.kind = "compare" \/ denied) => Drops({id})
      /\ note.kind = "orphan" => up' = up
      /\ note.kind # "orphan" => Reply(c, ok, {})
  BY DEF Lookups
<1>4. ok \in {"ok", "failed", "missing"} /\ (ok = "missing" => note.kind = "compare" \/ note.kind = "orphan")
      /\ (ok = "missing" => id \notin ToSet(records)) /\ (note.kind = "release" /\ ok = "ok" => ~denied)
  BY DEF Lookup
<1>5. denied => grant = 0
  OBVIOUS
<1>6. note.kind # "orphan" => calls[c].op = note.kind /\ id = calls[c].of
  BY <1>1 DEF CallsFit
<1>7. note.kind = "orphan" => id = c
  OBVIOUS
<1>8. note.kind \in {"compare", "release", "orphan"} /\ {} \in SUBSET Call
  OBVIOUS
<1> HIDE DEF id, denied, ok, note, n, c
<1>9. records' \in Seq(Call) /\ ToSet(records') \subseteq ToSet(records)
      /\ (note.kind # "compare" /\ ~denied => id \notin ToSet(records'))
  <2>1. CASE note.kind = "compare" \/ denied
    BY <1>3, <2>1 DEF BaselineTypes
  <2>2. CASE ~(note.kind = "compare" \/ denied)
    <3>1. records' = Without(records, {id})
      BY <1>3, <2>2 DEF Drops
    <3>2. records' \in Seq(Call) /\ ToSet(records') = ToSet(records) \ {id}
      BY <3>1, WithoutHas DEF BaselineTypes
    <3> QED
      BY <3>2
  <2> QED
    BY <2>1, <2>2
<1>10. ToSet(records') \ lapsed' \subseteq held
  BY <1>2, <1>9
<1>11. note.kind # "orphan" => c \notin Creations
  BY <1>6, <1>8 DEF Creations
<1>12. /\ up' \in Seq(UpNote) /\ GoneLast(up', link)
       /\ ToSet(up) \subseteq ToSet(up')
       /\ Answers' \subseteq Answers \/ (note.kind # "orphan" /\ Answers' \subseteq Answers \union {n})
       /\ AnsweredOnce(up', Creations) /\ Announced(up', seen, told, held)
       /\ n.call = c /\ n.ok = ok /\ n.evicted = {}
  <2>1. n.call = c /\ n.ok = ok /\ n.evicted = {}
    BY DEF n, AnswerNote
  <2>2. CASE note.kind = "orphan"
    <3>1. up' = up
      BY <1>3, <2>2
    <3> QED
      BY <2>1, <3>1 DEF BaselineTypes, GrantFits, AnswersFit, HeardOf, Answers
  <2>3. CASE note.kind # "orphan"
    <3>1. Reply(c, ok, {})
      BY <1>3, <2>3
    <3> QED
      BY <1>1, <1>4, <1>8, <1>11, <2>1, <2>3, <3>1, ReplyHas DEF n
  <2> QED
    BY <2>2, <2>3
<1>13. Creations' = Creations /\ Awaited' = Awaited
  BY <1>2 DEF Creations, Awaited
<1>14. BaselineTypes'
  BY <1>1, <1>2, <1>9, <1>12 DEF BaselineTypes
<1>15. GrantFits'
  BY <1>1, <1>2, <1>10, <1>12 DEF GrantFits
<1>16. HeardOf'
  BY <1>2, <1>10, <1>12, AnnouncedOfLess DEF HeardOf
<1>17. Scoped'
  BY <1>2, <1>9 DEF Scoped
<1>18. AccountedFor'
  <2> SUFFICES ASSUME told # 0, ~closing, NEW x \in ToSet(records') \ lapsed
               PROVE  \/ x \in ToSet(owners) \/ (\E m \in ToSet(up') : Brings(m, x))
                      \/ Note("orphan", x) \in ToSet(down')
    BY <1>2 DEF AccountedFor
  <2>1. \/ x \in ToSet(owners) \/ (\E m \in ToSet(up) : Brings(m, x)) \/ Note("orphan", x) \in ToSet(down)
    BY <1>2, <1>9 DEF AccountedFor
  <2>2. note # Note("orphan", x)
    <3> SUFFICES ASSUME note = Note("orphan", x) PROVE FALSE
      OBVIOUS
    <3>1. note.kind = "orphan" /\ c = x
      BY DEF Note, c
    <3>2. id = x
      BY <1>7, <3>1
    <3>3. ~denied
      BY <1>5 DEF GrantFits
    <3> QED
      BY <1>9, <3>1, <3>2, <3>3
  <2> QED
    BY <1>1, <1>12, <2>1, <2>2
<1>19. ReachedStill'
  BY <1>2, <1>10 DEF ReachedStill
<1>20. ToSet(down') \subseteq ToSet(down)
  BY <1>1
<1>21. CallsFit'
  BY <1>1, <1>2, <1>20 DEF CallsFit
<1>22. AnswersFit'
  <2>1. \A m \in Answers' : m \in Answers \/ (m = n /\ note.kind # "orphan")
    BY <1>12
  <2>2. calls[c].of \notin ToSet(records') \/ ~(ok = "missing" \/ (ok = "ok" /\ calls[c].op = "release"))
        \/ note.kind = "orphan"
    BY <1>4, <1>6, <1>8, <1>9
  <2>3. note.kind # "orphan" => calls[c].op # "none" /\ calls[c].op # "create"
    BY <1>6, <1>8
  <2>4. \A m \in Answers' : calls[m.call].op # "none" /\ m.evicted \intersect ToSet(records') = {}
    BY <1>9, <1>12, <2>1, <2>3 DEF AnswersFit
  <2>5. \A m \in Answers' : calls[m.call].op = "create" => m.call \notin outbox \union handed
    BY <1>12, <2>1, <2>3 DEF AnswersFit
  <2>6. \A m \in Answers' : calls[m.call].op # "create"
          /\ (m.ok = "missing" \/ (m.ok = "ok" /\ calls[m.call].op = "release")) =>
             calls[m.call].of \notin ToSet(records')
    BY <1>9, <1>12, <2>1, <2>2 DEF AnswersFit
  <2> QED
    BY <1>2, <1>12, <1>13, <2>4, <2>5, <2>6 DEF AnswersFit
<1>23. YoungFit'
  <2>1. \A m \in Answers' : m \in Answers \/ (m = n /\ note.kind # "orphan")
    BY <1>12
  <2>2. note.kind # "orphan" => calls[c].op # "none" /\ Note("create", c) \notin ToSet(down) /\ tasks[c] = "none"
    BY <1>1, <1>6, <1>8 DEF CallsFit
  <2> QED
    BY <1>2, <1>9, <1>12, <1>20, <2>1, <2>2 DEF YoungFit
<1>24. WaitedFor'
  <2>1. \A m \in ToSet(up') : \A x \in ToSet(records) : Brings(m, x) => m \in ToSet(up)
    <3> SUFFICES ASSUME NEW m \in ToSet(up'), NEW x \in ToSet(records), Brings(m, x) PROVE m \in ToSet(up)
      OBVIOUS
    <3>1. m \in Answers' /\ m.call = x
      BY DEF Brings, Answers
    <3>2. x \in Creations
      <4>1. x \in Call
        BY BaselineElements
      <4> QED
        BY <4>1 DEF YoungFit, Creations
    <3>3. m \in Answers
      BY <1>11, <1>12, <3>1, <3>2
    <3> QED
      BY <3>3 DEF Answers
  <2> QED
    BY <1>2, <1>9, <1>13, <1>20, <2>1 DEF WaitedFor
<1>25. LostFit'
  BY <1>2 DEF LostFit
<1> QED
  BY <1>14, <1>15, <1>16, <1>17, <1>18, <1>19, <1>21, <1>22, <1>23, <1>24, <1>25

\* Only records are evicted.
LEMMA EvictedAreRecords == ASSUME BaselineTypes, NEW t PROVE Evicted(t) \subseteq ToSet(records)
<1> DEFINE places == {i \in DOMAIN records : calls[records[i]].tab = t}
           own == Picked(records, places)
           fromTab == IF Len(own) >= MaxPerTab THEN {Head(own)} ELSE {}
           rest == Without(records, fromTab)
           over == IF Len(rest) >= MaxRecords THEN {Head(rest)} ELSE {}
<1>1. records \in Seq(Call)
  BY DEF BaselineTypes
<1>2. Evicted(t) = fromTab \union over
  BY DEF Evicted
<1>3. own \in Seq(Call) /\ ToSet(own) \subseteq ToSet(records)
  <2>1. places \in SUBSET (DOMAIN records)
    OBVIOUS
  <2>2. {records[i] : i \in places} \subseteq ToSet(records)
    BY DEF ToSet
  <2> HIDE DEF places
  <2>3. Picked(records, places) \in Seq(Call) /\ ToSet(Picked(records, places)) = {records[i] : i \in places}
    BY <1>1, <2>1, PickedHas
  <2> QED
    BY <2>2, <2>3
<1>4. ASSUME NEW q \in Seq(Call), NEW m \in Nat \ {0}, Len(q) >= m PROVE Head(q) \in ToSet(q)
  <2>1. q # <<>>
    BY <1>4
  <2> QED
    BY <2>1, TailElements
<1>5. fromTab \subseteq ToSet(records)
  <2> HIDE DEF own
  <2> QED
    BY <1>3, <1>4, BaselineAssumption
<1>6. rest \in Seq(Call) /\ ToSet(rest) \subseteq ToSet(records)
  <2> HIDE DEF fromTab
  <2> QED
    BY <1>1, WithoutHas
<1>7. over \subseteq ToSet(records)
  <2> HIDE DEF rest
  <2> QED
    BY <1>4, <1>6, BaselineAssumption
<1> QED
  BY <1>2, <1>5, <1>7

\* A record is made under an announced grant, and its answer is sent with it, or the
\* daemon loses sight of it.
LEMMA CapturedKeeps == ASSUME BaselineInv, NEW c \in Call, Captured(c) PROVE BaselineInv'
<1> USE DEF BaselineInv
<1>1. /\ tasks[c] # "none" /\ tasks' = [tasks EXCEPT ![c] = "none"] /\ down' = down
      /\ UNCHANGED <<daemonVars, replaced, grant, told, closing, grants, spoiled, link>>
  BY DEF Captured
<1>2. CASE ~Unchanged(c)
  <2>1. Reply(c, "failed", {}) /\ UNCHANGED <<records, lapsed>>
    BY <1>2 DEF Captured
  <2>2. down' \in Seq(DownNote) /\ SentOnce(down') /\ Note("create", c) \notin ToSet(down')
    BY <1>1 DEF BaselineTypes, CallsFit
  <2>3. /\ Note("create", c) \in ToSet(down) \/ tasks[c] # "none"
        /\ link # "on" => down' = down
        /\ ToSet(down') \subseteq ToSet(down) /\ \A n \in ToSet(down) : n \in ToSet(down') \/ n = Note("create", c)
        /\ UNCHANGED <<daemonVars, records, replaced, grant, told, closing, grants, spoiled, link, lapsed>>
    BY <1>1, <2>1
  <2>4. tasks' = [tasks EXCEPT ![c] = "none"]
    BY <1>1
  <2> QED
    BY <2>1, <2>2, <2>3, <2>4, CreationFails
<1>3. CASE Unchanged(c)
  <2> DEFINE evicted == Evicted(calls[c].tab)
             n == AnswerNote(c, "ok", evicted)
             held == ToSet(records) \ lapsed
             kept == Without(records, evicted)
  <2>1. /\ records' = Append(kept, c) /\ Reply(c, "ok", evicted)
        /\ lapsed' = (IF told = grant THEN lapsed ELSE lapsed \union {c})
    BY <1>3 DEF Captured
  <2>2. /\ UNCHANGED <<calls, outbox, owners, abandoned, seen, handed, down>>
        /\ UNCHANGED <<grant, told, closing, grants, spoiled, link>>
    BY <1>1 DEF daemonVars
  <2>3. tasks[c] = "capturing" /\ grant # 0
    BY <1>3 DEF Unchanged
  <2>4. evicted \subseteq ToSet(records) /\ ToSet(records) \subseteq Call
    BY EvictedAreRecords, BaselineElements
  <2>5. calls[c].op = "create" /\ c \in Creations /\ c \notin spoiled /\ Note("create", c) \notin ToSet(down)
    BY <2>3 DEF CallsFit, Creations
  <2>6. c \notin ToSet(records) \union outbox \union handed /\ \A m \in Answers : m.call # c /\ c \notin m.evicted
    BY <2>3 DEF YoungFit
  <2>7. ~closing /\ (told = 0 \/ told = grant) /\ (told # 0 => link = "on") /\ (told = 0 => held = {})
    BY <2>3 DEF GrantFits, BaselineTypes
  <2>8. link # "on" => c \in lapsed
    BY <2>3 DEF LostFit
  <2>9. c \in Awaited \/ c \in ToSet(abandoned) \/ c \in lapsed
    BY <2>3 DEF WaitedFor
  <2> HIDE DEF evicted, n
  <2>10. kept \in Seq(Call) /\ ToSet(kept) = ToSet(records) \ evicted
    BY WithoutHas DEF BaselineTypes
  <2> HIDE DEF kept
  <2>11. records' \in Seq(Call) /\ ToSet(records') = (ToSet(records) \ evicted) \union {c}
    BY <2>1, <2>10, AppendElements
  <2>12. /\ lapsed \subseteq lapsed' /\ lapsed' \subseteq lapsed \union {c}
         /\ ToSet(records') \ lapsed' \subseteq held \union {c}
         /\ told = 0 => c \in lapsed'
    BY <2>1, <2>3, <2>11
  <2>13. /\ up' \in Seq(UpNote) /\ GoneLast(up', link) /\ (link # "on" => up' = up)
         /\ (link = "on" => n \in ToSet(up'))
         /\ ToSet(up) \subseteq ToSet(up') /\ ToSet(up') \subseteq ToSet(up) \union {n}
         /\ Answers' \subseteq Answers \union {n}
         /\ AnsweredOnce(up', Creations)
         /\ Announced(up', seen, told, held \union {c})
         /\ n.kind = "answer" /\ n.call = c /\ n.ok = "ok" /\ n.evicted = evicted
         /\ \A id : Brings(n, id) <=> id = c
    <3>1. evicted \in SUBSET Call
      BY <2>4
    <3> QED
      BY <2>1, <2>6, <3>1, ReplyHas DEF n
  <2>14. /\ tasks' \in [Call -> {"none", "capturing", "changed", "aborted"}] /\ tasks'[c] = "none"
         /\ \A x \in Call : x # c => tasks'[x] = tasks[x]
    BY <1>1 DEF BaselineTypes
  <2>15. Creations' = Creations /\ Awaited' = Awaited
    BY <2>2 DEF Creations, Awaited
  <2>16. BaselineTypes'
    BY <2>2, <2>11, <2>13, <2>14 DEF BaselineTypes
  <2>17. GrantFits'
    BY <2>2, <2>7, <2>12, <2>13 DEF GrantFits
  <2>18. HeardOf'
    BY <2>2, <2>12, <2>13, AnnouncedOfLess DEF HeardOf
  <2>19. AccountedFor'
    BY <2>2, <2>7, <2>12, <2>13 DEF AccountedFor
  <2>20. ReachedStill'
    BY <2>2, <2>6, <2>12 DEF ReachedStill
  <2>21. CallsFit'
    BY <2>2, <2>14 DEF CallsFit
  <2>22. AnswersFit'
    <3>1. \A m \in Answers' : m \in Answers \/ m = n
      BY <2>13
    <3>2. c \notin evicted
      BY <2>4, <2>6
    <3>3. \A m \in Answers' : calls[m.call].op # "none" /\ m.evicted \intersect ToSet(records') = {}
      BY <2>5, <2>6, <2>11, <2>13, <3>1, <3>2 DEF AnswersFit
    <3>4. \A m \in Answers' : calls[m.call].op = "create" => m.call \notin outbox \union handed
      BY <2>6, <2>13, <3>1 DEF AnswersFit
    <3>5. ASSUME NEW m \in Answers', calls[m.call].op # "create",
                 m.ok = "missing" \/ (m.ok = "ok" /\ calls[m.call].op = "release")
          PROVE  calls[m.call].of \notin ToSet(records')
      <4>1. m \in Answers /\ m.call \in Call
        BY <2>5, <2>13, <3>1, <3>5, BaselineElements
      <4>2. calls[m.call].of \notin ToSet(records)
        BY <3>5, <4>1 DEF AnswersFit
      <4>3. calls[m.call].op \in {"compare", "release"}
        <5>1. calls[m.call] \in CallRecord
          BY <4>1 DEF BaselineTypes
        <5>2. calls[m.call].op # "none"
          BY <4>1 DEF AnswersFit
        <5> QED
          BY <3>5, <5>1, <5>2 DEF CallRecord
      <4>4. calls[m.call].of \in handed
        BY <4>1, <4>3 DEF CallsFit
      <4> QED
        BY <2>6, <2>11, <4>2, <4>4
    <3>6. outbox \intersect handed = {}
      BY DEF AnswersFit
    <3> QED
      BY <2>2, <2>13, <2>15, <3>3, <3>4, <3>5, <3>6 DEF AnswersFit
  <2>23. YoungFit'
    BY <2>2, <2>4, <2>5, <2>11, <2>13, <2>14 DEF YoungFit
  <2>24. WaitedFor'
    <3>1. \A m \in ToSet(up') : \A x : Brings(m, x) => m \in ToSet(up) \/ x = c
      BY <2>13
    <3> QED
      BY <2>2, <2>9, <2>11, <2>12, <2>14, <2>15, <3>1 DEF WaitedFor
  <2>25. LostFit' /\ Scoped'
    BY <2>2, <2>5, <2>11, <2>12, <2>14 DEF LostFit, Scoped
  <2> QED
    BY <2>16, <2>17, <2>18, <2>19, <2>20, <2>21, <2>22, <2>23, <2>24, <2>25
<1> QED
  BY <1>2, <1>3

\* What is dropped of a page that is replaced was made, or is being made, for it.
LEMMA NavigatesKeeps == ASSUME BaselineInv, NEW t \in Tab, Navigates(t) PROVE BaselineInv'
<1> USE DEF BaselineInv
<1> DEFINE old == {c \in ToSet(records) : calls[c].tab = t}
           busy == Working(t)
<1>1. /\ records' = Without(records, old) /\ spoiled' = spoiled \union old \union busy
      /\ UNCHANGED <<calls, outbox, owners, abandoned, seen, handed, down, up>>
      /\ UNCHANGED <<grant, told, closing, grants, link, lapsed>>
  BY DEF Navigates, Drops, daemonVars
<1>2. /\ tasks' \in [Call -> {"none", "capturing", "changed", "aborted"}]
      /\ \A x \in Call : tasks'[x] = tasks[x] \/ (tasks[x] # "none" /\ tasks'[x] = "changed")
      /\ \A x \in busy : tasks'[x] # "capturing"
      /\ \A x \in busy : x \in Call /\ tasks[x] # "none"
  BY DEF Navigates, BaselineTypes, Working
<1>3. old \subseteq ToSet(records)
  OBVIOUS
<1> HIDE DEF old, busy
<1>4. records' \in Seq(Call) /\ ToSet(records') = ToSet(records) \ old
  BY <1>1, WithoutHas DEF BaselineTypes
<1>5. Creations' = Creations /\ Awaited' = Awaited /\ Answers' = Answers
  BY <1>1 DEF Creations, Awaited, Answers
<1>6. ToSet(records') \ lapsed' \subseteq ToSet(records) \ lapsed
  BY <1>1, <1>4
<1>7. BaselineTypes'
  BY <1>1, <1>2, <1>4 DEF BaselineTypes
<1>8. GrantFits' /\ AccountedFor' /\ ReachedStill'
  BY <1>1, <1>6 DEF GrantFits, AccountedFor, ReachedStill
<1>9. HeardOf'
  BY <1>1, <1>6, AnnouncedOfLess DEF HeardOf
<1>10. CallsFit'
  <2>1. \A x \in Call : calls[x].op = "none" \/ Note("create", x) \in ToSet(down) \/ tasks[x] # "none" => x \notin old
    BY <1>3 DEF YoungFit
  <2>2. \A x \in Call : calls[x].op = "none" \/ Note("create", x) \in ToSet(down) => x \notin busy
    BY <1>2 DEF CallsFit
  <2>3. \A x \in Call : tasks'[x] = "capturing" => tasks[x] = "capturing" /\ x \notin busy
    BY <1>2
  <2> QED
    BY <1>1, <1>2, <2>1, <2>2, <2>3 DEF CallsFit
<1>11. AnswersFit'
  BY <1>1, <1>4, <1>5 DEF AnswersFit
<1>12. YoungFit'
  BY <1>1, <1>2, <1>4, <1>5 DEF YoungFit
<1>13. WaitedFor'
  BY <1>1, <1>2, <1>4, <1>5 DEF WaitedFor
<1>14. LostFit'
  BY <1>1, <1>2 DEF LostFit
<1>15. Scoped'
  <2>1. ToSet(records) \subseteq Call
    BY BaselineElements
  <2>2. \A x \in ToSet(records) : x \notin busy
    BY <1>2, <2>1 DEF YoungFit
  <2> QED
    BY <1>1, <1>4, <2>2 DEF Scoped
<1> QED
  BY <1>7, <1>8, <1>9, <1>10, <1>11, <1>12, <1>13, <1>14, <1>15

\* The grant begins, ends and is announced.
LEMMA EnablesKeeps == ASSUME BaselineInv, Enables PROVE BaselineInv'
<1> USE DEF BaselineInv
<1>1. /\ grant = 0 /\ ~closing /\ grant' = grants + 1 /\ grants' = grants + 1
      /\ UNCHANGED <<calls, outbox, owners, abandoned, seen, handed, down, up>>
      /\ UNCHANGED <<records, tasks, told, closing, spoiled, link, lapsed>>
  BY DEF Enables, daemonVars
<1>2. told = 0
  BY <1>1 DEF GrantFits
<1>3. Creations' = Creations /\ Awaited' = Awaited /\ Answers' = Answers
  BY <1>1 DEF Creations, Awaited, Answers
<1>4. BaselineTypes'
  BY <1>1 DEF BaselineTypes
<1>5. GrantFits'
  BY <1>1, <1>2 DEF GrantFits
<1>6. HeardOf' /\ AccountedFor' /\ ReachedStill' /\ CallsFit' /\ LostFit' /\ Scoped'
  BY <1>1 DEF HeardOf, AccountedFor, ReachedStill, CallsFit, LostFit, Scoped
<1>7. AnswersFit' /\ YoungFit' /\ WaitedFor'
  BY <1>1, <1>3 DEF AnswersFit, YoungFit, WaitedFor
<1> QED
  BY <1>4, <1>5, <1>6, <1>7

LEMMA DisablesKeeps == ASSUME BaselineInv, Disables PROVE BaselineInv'
<1> USE DEF BaselineInv
<1>1. /\ grant # 0 /\ told = grant /\ grant' = 0 /\ closing' = TRUE
      /\ UNCHANGED <<calls, outbox, owners, abandoned, seen, handed, down, up>>
      /\ UNCHANGED <<records, tasks, told, grants, spoiled, link, lapsed>>
  BY DEF Disables, daemonVars
<1>2. Creations' = Creations /\ Awaited' = Awaited /\ Answers' = Answers
  BY <1>1 DEF Creations, Awaited, Answers
<1>3. BaselineTypes'
  BY <1>1 DEF BaselineTypes
<1>4. GrantFits'
  BY <1>1 DEF GrantFits
<1>5. HeardOf' /\ AccountedFor' /\ ReachedStill' /\ CallsFit' /\ LostFit' /\ Scoped'
  BY <1>1 DEF HeardOf, AccountedFor, ReachedStill, CallsFit, LostFit, Scoped
<1>6. AnswersFit' /\ YoungFit' /\ WaitedFor'
  BY <1>1, <1>2 DEF AnswersFit, YoungFit, WaitedFor
<1> QED
  BY <1>3, <1>4, <1>5, <1>6

\* An announcement of a grant or of none, as far as answers are concerned.
LEMMA AccessPosted ==
  ASSUME BaselineInv, NEW g \in Nat, Post([kind |-> "access", grant |-> g])
  PROVE  /\ up' \in Seq(UpNote) /\ GoneLast(up', link) /\ (link # "on" => up' = up)
         /\ ToSet(up) \subseteq ToSet(up') /\ \A n \in ToSet(up') : n \in ToSet(up) \/ n.kind = "access"
         /\ Answers' = Answers /\ AnsweredOnce(up', Creations)
         /\ link = "on" => Announced(up', seen, g, {})
         /\ told = g => Announced(up', seen, g, ToSet(records) \ lapsed)
<1> USE DEF BaselineInv
<1> DEFINE n == [kind |-> "access", grant |-> g]
           held == ToSet(records) \ lapsed
<1>1. n \in UpNote /\ n.kind = "access" /\ n.grant = g
  BY DEF UpNote
<1>2. up \in Seq(UpNote) /\ GoneLast(up, link) /\ AnsweredOnce(up, Creations) /\ Announced(up, seen, told, held)
  BY DEF BaselineTypes, GrantFits, AnswersFit, HeardOf
<1>3. Post(n)
  OBVIOUS
<1> HIDE DEF n, held
<1>4. /\ up' \in Seq(UpNote) /\ (link # "on" => up' = up)
      /\ link = "on" => up' = Append(up, n)
      /\ ToSet(up) \subseteq ToSet(up') /\ ToSet(up') \subseteq ToSet(up) \union {n}
  BY <1>1, <1>2, <1>3, PostAdds
<1>5. \A m \in ToSet(up') : m \in ToSet(up) \/ m.kind = "access"
  BY <1>1, <1>4
<1>6. Answers' = Answers
  BY <1>4, <1>5 DEF Answers
<1>7. CASE link = "on"
  <2>1. GoneLast(Append(up, n), "on")
    BY <1>1, <1>2, <1>7, GoneLastMore
  <2>2. AnsweredOnce(Append(up, n), Creations)
    BY <1>1, <1>2, AnsweredOnceMore
  <2>3. Announced(Append(up, n), seen, g, {})
    BY <1>1, <1>2, AnnouncedNow
  <2>4. told = g => Announced(Append(up, n), seen, g, held)
    BY <1>1, <1>2, AnnouncedMore
  <2> QED
    BY <1>4, <1>5, <1>6, <1>7, <2>1, <2>2, <2>3, <2>4 DEF held
<1>8. CASE link # "on"
  BY <1>2, <1>4, <1>5, <1>6, <1>8 DEF held
<1> QED
  BY <1>7, <1>8

LEMMA AnnouncesKeeps == ASSUME BaselineInv, Announces PROVE BaselineInv'
<1> USE DEF BaselineInv
<1>1. /\ grant # 0 /\ link = "on" /\ told' = grant /\ Post([kind |-> "access", grant |-> grant])
      /\ UNCHANGED <<calls, outbox, owners, abandoned, seen, handed, down>>
      /\ UNCHANGED <<records, tasks, grant, closing, grants, spoiled, link, lapsed>>
  BY DEF Announces, daemonVars
<1>2. grant \in Nat
  BY DEF BaselineTypes
<1>3. /\ up' \in Seq(UpNote) /\ GoneLast(up', link)
      /\ ToSet(up) \subseteq ToSet(up') /\ \A n \in ToSet(up') : n \in ToSet(up) \/ n.kind = "access"
      /\ Answers' = Answers /\ AnsweredOnce(up', Creations) /\ Announced(up', seen, grant, {})
      /\ told = grant => Announced(up', seen, grant, ToSet(records) \ lapsed)
  BY <1>1, <1>2, AccessPosted
<1>4. ~closing /\ (told = grant \/ (told = 0 /\ ToSet(records) \ lapsed = {}))
  BY <1>1 DEF GrantFits, BaselineTypes
<1>5. Creations' = Creations /\ Awaited' = Awaited
  BY <1>1 DEF Creations, Awaited
<1>6. \A n \in ToSet(up') : \A id : Brings(n, id) => n \in ToSet(up)
  BY <1>3 DEF Brings
<1>7. BaselineTypes'
  BY <1>1, <1>2, <1>3 DEF BaselineTypes
<1>8. GrantFits'
  BY <1>1, <1>3, <1>4 DEF GrantFits
<1>9. HeardOf'
  BY <1>1, <1>3, <1>4 DEF HeardOf
<1>10. AccountedFor'
  BY <1>1, <1>3, <1>4 DEF AccountedFor
<1>11. ReachedStill' /\ CallsFit' /\ LostFit' /\ Scoped'
  BY <1>1 DEF ReachedStill, CallsFit, LostFit, Scoped
<1>12. AnswersFit' /\ YoungFit'
  BY <1>1, <1>3, <1>5 DEF AnswersFit, YoungFit
<1>13. WaitedFor'
  BY <1>1, <1>5, <1>6 DEF WaitedFor
<1> QED
  BY <1>7, <1>8, <1>9, <1>10, <1>11, <1>12, <1>13

LEMMA ClearsKeeps == ASSUME BaselineInv, Clears PROVE BaselineInv'
<1> USE DEF BaselineInv
<1>1. /\ closing /\ closing' = FALSE /\ Post([kind |-> "access", grant |-> 0]) /\ told' = 0 /\ records' = <<>>
      /\ spoiled' = spoiled \union ToSet(records) \union {c \in Call : tasks[c] # "none"}
      /\ UNCHANGED <<calls, outbox, owners, abandoned, seen, handed, down, grant, grants, link, lapsed>>
  BY DEF Clears, daemonVars
<1>2. /\ tasks' \in [Call -> {"none", "capturing", "changed", "aborted"}]
      /\ \A x \in Call : tasks'[x] # "capturing" /\ (tasks[x] = "none" <=> tasks'[x] = "none")
  BY DEF Clears, Aborted, BaselineTypes
<1>3. /\ up' \in Seq(UpNote) /\ GoneLast(up', link) /\ (link # "on" => up' = up)
      /\ Answers' = Answers /\ AnsweredOnce(up', Creations)
  BY <1>1, AccessPosted
<1>4. Creations' = Creations /\ Awaited' = Awaited
  BY <1>1 DEF Creations, Awaited
<1>5. ToSet(records') = {} /\ records' \in Seq(Call)
  BY <1>1, NothingUnderWay
<1>6. BaselineTypes'
  BY <1>1, <1>2, <1>3, <1>5 DEF BaselineTypes
<1>7. GrantFits'
  BY <1>1, <1>3, <1>5 DEF GrantFits
<1>8. HeardOf' /\ AccountedFor' /\ ReachedStill' /\ Scoped'
  BY <1>1, <1>5 DEF HeardOf, Announced, AccountedFor, ReachedStill, Scoped
<1>9. CallsFit'
  <2>1. \A x \in Call : calls[x].op = "none" \/ Note("create", x) \in ToSet(down) => x \notin ToSet(records)
    BY DEF YoungFit
  <2> QED
    BY <1>1, <1>2, <2>1 DEF CallsFit
<1>10. AnswersFit'
  BY <1>1, <1>3, <1>4, <1>5 DEF AnswersFit
<1>11. YoungFit'
  BY <1>1, <1>2, <1>3, <1>5 DEF YoungFit
<1>12. WaitedFor' /\ LostFit'
  BY <1>1, <1>2, <1>4, <1>5 DEF WaitedFor, LostFit
<1> QED
  BY <1>6, <1>7, <1>8, <1>9, <1>10, <1>11, <1>12

\* The connection is lost and made again.
LEMMA LosesKeeps == ASSUME BaselineInv, Loses PROVE BaselineInv'
<1> USE DEF BaselineInv
<1> DEFINE n == [kind |-> "gone"]
<1>1. /\ link = "on" /\ link' = "lost" /\ told' = 0 /\ down' = <<>> /\ up' = Append(up, n)
      /\ UNCHANGED <<calls, outbox, owners, abandoned, seen, handed, grant, closing, grants, spoiled>>
  BY DEF Loses, daemonVars
<1>2. n \in UpNote /\ n.kind = "gone"
  BY DEF UpNote
<1>3. up \in Seq(UpNote) /\ GoneLast(up, "on") /\ AnsweredOnce(up, Creations)
  BY <1>1 DEF BaselineTypes, GrantFits, AnswersFit
<1> HIDE DEF n
<1>4. up' \in Seq(UpNote) /\ ToSet(up') = ToSet(up) \union {n}
  BY <1>1, <1>2, <1>3, AppendElements
<1>5. GoneLast(up', "lost") /\ AnsweredOnce(up', Creations)
  BY <1>1, <1>2, <1>3, GoneLastMore, AnsweredOnceMore
<1>6. Answers' = Answers /\ Creations' = Creations /\ Awaited' = Awaited
  BY <1>1, <1>2, <1>4 DEF Answers, Creations, Awaited
<1>7. ToSet(down') = {} /\ down' \in Seq(DownNote) /\ SentOnce(down')
  BY <1>1, NothingUnderWay
<1>8. /\ records' \in Seq(Call) /\ ToSet(records') \subseteq ToSet(records) /\ lapsed \subseteq lapsed'
      /\ ToSet(records') \ lapsed' = {}
      /\ tasks' \in [Call -> {"none", "capturing", "changed", "aborted"}]
      /\ \A x \in Call : tasks'[x] = tasks[x] \/ (tasks[x] # "none" /\ tasks'[x] = "aborted")
      /\ \A x \in Call : tasks'[x] = "capturing" => x \in lapsed'
  <2>1. CASE records' = <<>> /\ Aborted(Call) /\ UNCHANGED lapsed
    <3>1. ToSet(records') = {} /\ records' \in Seq(Call)
      BY <2>1, NothingUnderWay
    <3> QED
      BY <2>1, <3>1 DEF BaselineTypes, Aborted
  <2>2. CASE told = 0 /\ UNCHANGED <<records, replaced, tasks>> /\ lapsed' = lapsed \union {c \in Call : tasks[c] # "none"}
    <3>1. ToSet(records) \ lapsed = {}
      BY <2>2 DEF GrantFits
    <3> QED
      BY <2>2, <3>1 DEF BaselineTypes
  <2> QED
    BY <2>1, <2>2 DEF Loses
<1>9. BaselineTypes'
  BY <1>1, <1>4, <1>7, <1>8 DEF BaselineTypes
<1>10. GrantFits'
  BY <1>1, <1>5, <1>8 DEF GrantFits
<1>11. HeardOf' /\ AccountedFor' /\ ReachedStill' /\ Scoped'
  BY <1>1, <1>8 DEF HeardOf, Announced, AccountedFor, ReachedStill, Scoped
<1>12. CallsFit'
  BY <1>1, <1>7, <1>8 DEF CallsFit
<1>13. AnswersFit'
  BY <1>1, <1>5, <1>6, <1>8 DEF AnswersFit
<1>14. YoungFit'
  BY <1>1, <1>6, <1>7, <1>8 DEF YoungFit
<1>15. WaitedFor' /\ LostFit'
  BY <1>7, <1>8 DEF WaitedFor, LostFit
<1> QED
  BY <1>9, <1>10, <1>11, <1>12, <1>13, <1>14, <1>15

LEMMA ReconnectsKeeps == ASSUME BaselineInv, Reconnects PROVE BaselineInv'
<1> USE DEF BaselineInv
<1>1. /\ link = "off" /\ link' = "on"
      /\ UNCHANGED <<calls, outbox, owners, abandoned, seen, handed, down, up>>
      /\ UNCHANGED <<records, tasks, grant, told, closing, grants, spoiled, lapsed>>
  BY DEF Reconnects, daemonVars, browserVars
<1>2. up = <<>>
  BY <1>1 DEF GrantFits
<1>3. Creations' = Creations /\ Awaited' = Awaited /\ Answers' = Answers
  BY <1>1 DEF Creations, Awaited, Answers
<1>4. BaselineTypes'
  BY <1>1 DEF BaselineTypes
<1>5. GrantFits'
  BY <1>1, <1>2, NothingUnderWay DEF GrantFits
<1>6. HeardOf' /\ AccountedFor' /\ ReachedStill' /\ CallsFit' /\ LostFit' /\ Scoped'
  BY <1>1 DEF HeardOf, AccountedFor, ReachedStill, CallsFit, LostFit, Scoped
<1>7. AnswersFit' /\ YoungFit' /\ WaitedFor'
  BY <1>1, <1>3 DEF AnswersFit, YoungFit, WaitedFor
<1> QED
  BY <1>4, <1>5, <1>6, <1>7

LEMMA BaselineStutters == ASSUME BaselineInv, UNCHANGED baselineVars PROVE BaselineInv'
<1> USE DEF BaselineInv
<1>1. /\ UNCHANGED <<calls, outbox, owners, abandoned, seen, handed, down, up>>
      /\ UNCHANGED <<records, tasks, grant, told, closing, grants, spoiled, link, lapsed>>
  BY DEF baselineVars, daemonVars, browserVars
<1>2. Creations' = Creations /\ Awaited' = Awaited /\ Answers' = Answers
  BY <1>1 DEF Creations, Awaited, Answers
<1>3. BaselineTypes'
  BY <1>1 DEF BaselineTypes
<1>4. GrantFits' /\ HeardOf' /\ AccountedFor' /\ ReachedStill' /\ CallsFit' /\ LostFit' /\ Scoped'
  BY <1>1 DEF GrantFits, HeardOf, AccountedFor, ReachedStill, CallsFit, LostFit, Scoped
<1>5. AnswersFit' /\ YoungFit' /\ WaitedFor'
  BY <1>1, <1>2 DEF AnswersFit, YoungFit, WaitedFor
<1> QED
  BY <1>3, <1>4, <1>5

\* Every step keeps the invariant.
LEMMA BaselineStep == ASSUME BaselineInv, [BaselinesNext]_baselineVars PROVE BaselineInv'
<1>1. ASSUME NEW a \in Agent, NEW t \in Tab, Demand(a, "create", t, 0) PROVE BaselineInv'
  BY <1>1, DemandKeeps
<1>2. ASSUME NEW a \in Agent, NEW op \in {"compare", "release"}, NEW id \in handed, Demand(a, op, calls[id].tab, id)
      PROVE  BaselineInv'
  <2>1. id \in Call /\ id \in Nat
    BY <1>2, BaselineElements DEF BaselineInv, Call
  <2>2. calls[id].tab \in Tab \union {"none"}
    <3>1. calls[id] \in CallRecord
      BY <2>1 DEF BaselineInv, BaselineTypes
    <3> QED
      BY <3>1 DEF CallRecord
  <2>3. op \in {"create", "compare", "release"}
    OBVIOUS
  <2> QED
    BY <1>2, <2>1, <2>2, <2>3, DemandKeeps
<1>3. CASE DaemonTakes
  <2>1. up # <<>> /\ up' = Tail(up) /\ UNCHANGED <<handed, browserVars>>
    BY <1>3 DEF DaemonTakes
  <2>2. \/ Head(up).kind = "answer" /\ Answer(Head(up).call, Head(up).ok, Head(up).evicted)
        \/ Head(up).kind = "access" /\ Access(Head(up).grant)
        \/ Head(up).kind = "gone" /\ Gone
    BY <1>3 DEF DaemonTakes
  <2> QED
    BY <2>1, <2>2, AnswerKeeps, AccessKeeps, GoneKeeps
<1>4. CASE BrowserTakes
  <2>1. /\ down # <<>> /\ down' = Tail(down)
        /\ UNCHANGED <<daemonVars, grant, told, closing, grants, spoiled, link, turns, lapsed>>
    BY <1>4 DEF BrowserTakes
  <2>2. \/ Head(down).kind = "create" /\ Begins(Head(down))
        \/ Head(down).kind \in {"compare", "release", "orphan"} /\ Lookups(Head(down))
        \/ /\ Head(down).kind = "cancel" /\ Aborted({Head(down).call})
           /\ UNCHANGED <<records, replaced, up>>
    BY <1>4 DEF BrowserTakes
  <2> QED
    BY <2>1, <2>2, BeginsKeeps, LookupsKeeps, CancelTakenKeeps
<1>5. ASSUME NEW a \in Agent, AgentCloses(a) \/ AgentLeaves(a) PROVE BaselineInv'
  BY <1>5, AgentClosesKeeps, AgentLeavesKeeps
<1>6. ASSUME NEW c \in Call, \/ Timeout(c) \/ Cancel(c) \/ Written(c) \/ WriteFails(c)
                             \/ Captured(c) \/ CaptureFails(c)
      PROVE  BaselineInv'
  BY <1>6, TimeoutKeeps, CancelKeeps, WrittenKeeps, WriteFailsKeeps, CapturedKeeps, CaptureFailsKeeps
<1>7. ASSUME NEW t \in Tab, Navigates(t) PROVE BaselineInv'
  BY <1>7, NavigatesKeeps
<1>8. CASE Enables \/ Announces \/ Disables \/ Clears \/ Loses \/ Reconnects
  BY <1>8, EnablesKeeps, AnnouncesKeeps, DisablesKeeps, ClearsKeeps, LosesKeeps, ReconnectsKeeps
<1>9. CASE UNCHANGED baselineVars
  BY <1>9, BaselineStutters
<1> QED
  BY <1>1, <1>2, <1>3, <1>4, <1>5, <1>6, <1>7, <1>8, <1>9 DEF BaselinesNext

\* For any number of agents, tabs and calls and any limits, those of owners and of
\* abandoned calls included, the records of the browser and the registry of the daemon
\* agree, but for what the daemon loses sight of (the exceptions of BaselinesAgree): a
\* record is routed to, announced, released or about to be cleared, an agent reaches what
\* it was told of, and a record belongs to the document and the grant it was asked under
\* (register, abandon, clear, baselineResponse, finish, handle).
THEOREM RegistriesAgree == BaselinesSpec => []BaselinesAgree
<1>1. BaselinesInit => BaselineInv
  BY BaselineStart
<1>2. BaselineInv /\ [BaselinesNext]_baselineVars => BaselineInv'
  BY BaselineStep
<1>3. BaselineInv => BaselinesAgree
  BY BaselinesAgreeThen
<1> QED
  BY <1>1, <1>2, <1>3, PTL DEF BaselinesSpec
=============================================================================
