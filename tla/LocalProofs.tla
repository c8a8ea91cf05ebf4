------------------------------ MODULE LocalProofs ------------------------------
(***************************************************************************)
(* Proofs about parts that act for themselves: the npm launcher              *)
(* (NativeLauncher), a website's tools in a tab (WebTools), a sequence of    *)
(* input steps with the outcomes it watches for (PerformOutcomes), and       *)
(* visual baselines (VisualBaselines).                                       *)
(***************************************************************************)
EXTENDS WebTools, NativeLauncher, PerformOutcomes, VisualBaselines, FiniteSetTheorems,
        SequenceTheorems, WellFoundedInduction, TLAPS

-----------------------------------------------------------------------------
(* The npm launcher.                                                        *)

\* Where a process is that has taken the lock, and the states there are.
Within == {"holding", "downloading", "verifying", "releasing", "giving"}
LauncherState ==
    Within \union {"new", "locking", "aging", "breaking", "ran", "failed", "dead"}

\* What LaunchesPinned needs to be inductive: the lock belongs to a process that is
\* within or dead, and everybody within owns it as long as no lock was broken.
LaunchesInv ==
    /\ launchers \in [Launcher -> LauncherState]
    /\ launchPast \in [broken : BOOLEAN, damaged : BOOLEAN]
    /\ installLock \in [by : Launcher \union {NoLauncher}, old : BOOLEAN]
    /\ temporaries \subseteq Launcher \X BOOLEAN
    /\ Locked => installLock.by \in Launcher /\ launchers[installLock.by] \in Within \union {"dead"}
    /\ ~launchPast.broken => \A p \in Launcher : launchers[p] \in Within => installLock.by = p
    /\ binary \in {"none", "whole", "damaged"}
    /\ binary = "damaged" => launchPast.damaged
    /\ \A p \in Launcher : launchers[p] \in {"ran", "releasing"} => binary # "none"
    /\ \A t \in temporaries : launchers[t[1]] \in {"verifying", "dead"}

\* It holds at the start.
LEMMA LaunchesBegin == LaunchInit => LaunchesInv
  BY LauncherAssumption DEF LaunchInit, LaunchesInv, Unlocked, Locked, LauncherState, Within

\* Every step of a process, and what happens to the lock and the cache, keeps it.
LEMMA LaunchesGoOn == LaunchesInv /\ [LaunchNext]_launchVars => LaunchesInv'
<1> SUFFICES ASSUME LaunchesInv, [LaunchNext]_launchVars PROVE LaunchesInv'
  OBVIOUS
<1> USE LauncherAssumption DEF Locked, Unlocked
<1>1. ASSUME NEW p \in Launcher, Looks(p) PROVE LaunchesInv'
  BY <1>1 DEF Looks, LaunchGoes, Cached, LaunchesInv, LauncherState, Within
<1>2. ASSUME NEW p \in Launcher, TakesLock(p) PROVE LaunchesInv'
  BY <1>2 DEF TakesLock, LaunchGoes, LaunchesInv, LauncherState, Within
<1>3. ASSUME NEW p \in Launcher, Waits(p) PROVE LaunchesInv'
  BY <1>3 DEF Waits, LaunchGoes, Cached, LaunchesInv, LauncherState, Within
<1>4. ASSUME NEW p \in Launcher, NEW expired \in BOOLEAN, Ages(p, expired) PROVE LaunchesInv'
  BY <1>4 DEF Ages, LaunchGoes, LaunchesInv, LauncherState, Within
<1>5. ASSUME NEW p \in Launcher, Breaks(p) PROVE LaunchesInv'
  BY <1>5 DEF Breaks, LaunchGoes, LaunchesInv, LauncherState, Within
<1>6. ASSUME NEW p \in Launcher, Holds(p) PROVE LaunchesInv'
  BY <1>6 DEF Holds, LaunchGoes, Cached, LaunchesInv, LauncherState, Within
<1>7. ASSUME NEW p \in Launcher, NEW right \in BOOLEAN, Downloads(p, right) PROVE LaunchesInv'
  BY <1>7 DEF Downloads, LaunchGoes, LaunchesInv, LauncherState, Within
<1>8. ASSUME NEW p \in Launcher, Installs(p) PROVE LaunchesInv'
  BY <1>8 DEF Installs, Verified, TemporaryOf, LaunchGoes, LaunchesInv, LauncherState, Within
<1>9. ASSUME NEW p \in Launcher, Releases(p) PROVE LaunchesInv'
  BY <1>9 DEF Releases, LaunchGoes, LaunchesInv, LauncherState, Within
<1>10. ASSUME NEW p \in Launcher, Retries(p) PROVE LaunchesInv'
  BY <1>10 DEF Retries, LaunchGoes, LaunchesInv, LauncherState, Within
<1>11. ASSUME NEW p \in Launcher, Crashes(p) PROVE LaunchesInv'
  BY <1>11 DEF Crashes, LaunchesInv, LauncherState, Within
<1>12. CASE LockAges
  BY <1>12 DEF LockAges, LaunchesInv
<1>13. CASE CacheDamaged
  BY <1>13 DEF CacheDamaged, LaunchesInv
<1>14. CASE UNCHANGED launchVars
  BY <1>14 DEF launchVars, LaunchesInv
<1> QED
  BY <1>1, <1>2, <1>3, <1>4, <1>5, <1>6, <1>7, <1>8, <1>9, <1>10, <1>11, <1>12, <1>13, <1>14
  DEF LaunchNext

\* It says what LaunchesPinned says.
LEMMA LaunchesHold == LaunchesInv => LaunchesPinned
<1> SUFFICES ASSUME LaunchesInv PROVE LaunchesPinned
  OBVIOUS
<1> DEFINE busy == {p \in Launcher : launchers[p] \in {"holding", "downloading", "verifying"}}
<1>1. ~launchPast.broken => Cardinality(busy) <= 1
  <2> SUFFICES ASSUME ~launchPast.broken PROVE Cardinality(busy) <= 1
    OBVIOUS
  <2>1. busy \subseteq {installLock.by}
    BY DEF LaunchesInv, Within
  <2>2. IsFiniteSet({installLock.by}) /\ Cardinality({installLock.by}) = 1
    BY FS_Singleton
  <2> QED
    BY <2>1, <2>2, FS_Subset
<1>2. Locked => launchers[installLock.by] \notin {"new", "locking", "ran", "failed"}
  BY DEF LaunchesInv, Within
<1>3. /\ binary = "damaged" => launchPast.damaged
      /\ \A p \in Launcher : launchers[p] \in {"ran", "releasing"} => binary # "none"
      /\ \A t \in temporaries : launchers[t[1]] \in {"verifying", "dead"}
  BY DEF LaunchesInv
<1> QED
  BY <1>1, <1>2, <1>3 DEF LaunchesPinned

\* LaunchesPinned for any number of processes: as long as no lock was taken from a live
\* owner, one process downloads at a time and the lock is its owner's; what runs is the
\* pinned binary as it was verified, unless the cache was damaged after (runtime.js:112-263).
THEOREM PinnedBinaryRuns == Launches => []LaunchesPinned
  BY LaunchesBegin, LaunchesGoOn, LaunchesHold, PTL DEF Launches

-----------------------------------------------------------------------------
(* What the invariant is made of.                                           *)

CallState == {"new", "resolving", "sent", "list", "get", "got", "approving", "rechecking",
              "execute", "running", "done"}
Answer == {"none", "refused", "busy", "denied", "cancelled", "uncertain", "unavailable", "listed",
           "stale", "completed", "timeout"}
Call == [at : CallState, op : {"none", "list", "execute"}, ref : Nat, key : Seq(Nat), url : Nat,
         doc : Nat, tool : Nat, rev : Nat, read : BOOLEAN, seen : Nat, answer : Answer]
Reference == [id : Nat, tool : Nat, key : Seq(Nat)]
Script == [part : {"clear", "list", "get", "execute"}, call : WebCall \union {NoWebCall}, pin : Nat]
Use == WebCall \X Nat \X Nat

CallsOK == webCalls \in [WebCall -> Call]
WorkerOK == webWorker \in [run : Nat, executing : BOOLEAN, touched : BOOLEAN]
PopupsOK == popups \in [opening : SUBSET WebCall, open : SUBSET WebCall]
SiteOK == site \in [doc : Nat, url : {1, 2}, tool : Nat, told : BOOLEAN, rev : Nat, refs : SUBSET Reference,
                 active : WebCall \union {NoWebCall}, aborted : BOOLEAN]
ScriptsOK == scripts \in Seq(Script)
ScopeOK == scope \in [on : BOOLEAN, grant : Nat, connection : Nat, cleanup : BOOLEAN]
PastOK == webPast \in [approved : SUBSET Use, dispatched : Seq(Use), canceled : SUBSET WebCall,
                    dropped : SUBSET WebCall]
CountsOK == webRefs \in Nat /\ siteTurns \in Nat
WebTypeOK ==
    /\ CallsOK /\ WorkerOK /\ PopupsOK /\ SiteOK /\ ScriptsOK /\ ScopeOK /\ PastOK /\ CountsOK

\* Where a call is says what it is and whose: its operation, tool, session.
InSession == {"sent", "list", "get", "got", "approving", "rechecking", "execute", "running"}
Known(k) == k # <<>> /\ k[2] \in Nat /\ k[2] <= scope.grant
CallAgrees(q) ==
    LET c == webCalls[q]
    IN  /\ c.at = "new" <=> c.key = <<>>
        /\ c.at # "done" => c.answer = "none"
        /\ c.key # <<>> => /\ c.key[1] \in Nat /\ c.key[1] <= webWorker.run
                           /\ q \in webPast.dropped <=> c.key[1] # webWorker.run
        /\ c.key = <<>> => q \notin webPast.dropped
        /\ c.at \in InSession => Known(c.key)
        /\ c.at \in {"resolving", "approving", "rechecking"} => Of(q)
        /\ c.at # "new" => c.op # "none"
        /\ c.at = "list" => c.op = "list"
        /\ c.at \in {"get", "got", "approving", "rechecking", "execute", "running"} => c.op = "execute"
        /\ c.at \in {"new", "resolving", "list", "get"} => c.tool = NoTool
        /\ c.at \in {"got", "approving", "rechecking", "execute", "running"} => c.tool # NoTool
        /\ c.tool # NoTool => c.op = "execute" /\ c.doc >= 1
        /\ c.at \in InDocument => c.doc = site.doc /\ c.rev <= site.rev
        /\ c.ref <= webRefs
CallsAgree == \A q \in WebCall : CallAgrees(q)

\* The script that waits for the document belongs to a call that waits for it.
PartOf(c) == IF c.op = "list" THEN "list" ELSE IF c.tool = NoTool THEN "get" ELSE "execute"
ScriptsAgree ==
    /\ \A i \in DOMAIN scripts : scripts[i].part # "clear" =>
         /\ scripts[i].call \in WebCall
         /\ LET c == webCalls[scripts[i].call]
            IN  /\ c.at = "sent" /\ scripts[i].part = PartOf(c)
                /\ scripts[i].pin = IF PartOf(c) = "execute" THEN c.doc ELSE 0
    /\ \A i, j \in DOMAIN scripts :
         scripts[i].part # "clear" /\ scripts[j].part # "clear" /\ scripts[i].call = scripts[j].call => i = j

\* A reference is one tool's for good, and the tool a call asks for is its reference's.
ReferencesAgree ==
    /\ \A r \in site.refs : r.id <= webRefs /\ r.tool # NoTool /\ Known(r.key) /\ r.key[1] \in Nat /\ r.key[1] <= webWorker.run
    /\ \A r, s \in site.refs : r.id = s.id => r = s
    /\ \A q \in WebCall : webCalls[q].tool # NoTool =>
         \A r \in site.refs : r.id = webCalls[q].ref => r.tool = webCalls[q].tool
    /\ site.doc >= 1

\* What was approved, dispatched and canceled.
Dispatched == {webPast.dispatched[i][1] : i \in DOMAIN webPast.dispatched}
DispatchesAgree ==
    /\ \A q \in WebCall : webCalls[q].at \in {"rechecking", "sent", "execute", "running"} /\ webCalls[q].tool # NoTool
         => <<q, webCalls[q].tool, webCalls[q].doc>> \in webPast.approved
    /\ IsFiniteSet(Dispatched) /\ Len(webPast.dispatched) = Cardinality(Dispatched)
    /\ \A i \in DOMAIN webPast.dispatched : webPast.dispatched[i] \in webPast.approved
    /\ \A q \in Dispatched : /\ webCalls[q].at \in {"running", "done"}
                             /\ webCalls[q].answer \in {"none", "completed", "uncertain", "timeout", "cancelled"}
    /\ \A q \in WebCall : webCalls[q].at = "running" \/ webCalls[q].answer \in {"completed", "timeout", "cancelled"}
         => q \in Dispatched
    /\ \A q \in webPast.canceled :
         /\ q \notin Dispatched
         /\ \/ webCalls[q].at \in {"resolving", "get", "got", "rechecking", "done"}
            \/ webCalls[q].at = "sent" /\ PartOf(webCalls[q]) = "get"

\* The callback that runs is the call's that waits for it.
RunningAgrees ==
    /\ \A q \in WebCall : webCalls[q].at = "running" => site.active = q /\ ~site.aborted
    /\ site.active # NoWebCall /\ ~site.aborted => webCalls[site.active].at = "running"

\* The tab is taken by one execution of the worker, a prompt up is that of a call that waits.
Busy(q) == Of(q) /\ webCalls[q].op = "execute" /\ ~At(q, "resolving") /\ ~At(q, "done")
TabAgrees ==
    /\ webWorker.executing <=> \E q \in WebCall : Busy(q)
    /\ \A p, q \in WebCall : Busy(p) /\ Busy(q) => p = q
PromptsAgree == \A q \in popups.open : At(q, "approving") \/ q \in webPast.dropped

\* What a session leaves behind that has ended, or in a tab the worker counts as
\* unused, waits for its clearing.
ClearingAfter(n) == \E i \in DOMAIN scripts : i > n /\ scripts[i].part = "clear"
LeftBehind(k) ==
    /\ k[1] = webWorker.run
    /\ ~webWorker.touched \/ (~scope.cleanup /\ (k[2] # scope.grant \/ ~scope.on))
LeftoversCleared ==
    /\ \A q \in WebCall : At(q, "running") /\ LeftBehind(webCalls[q].key) => ClearingAfter(0)
    /\ \A q \in WebCall : At(q, "list") /\ CatalogStands(q) /\ LeftBehind(webCalls[q].key) => ClearingAfter(0)
    /\ \A i \in DOMAIN scripts : scripts[i].part = "list" /\ LeftBehind(webCalls[scripts[i].call].key)
         => ClearingAfter(i)
    /\ \A r \in site.refs : LeftBehind(r.key) => ClearingAfter(0)

WebToolsInv ==
    /\ WebTypeOK /\ CallsAgree /\ ScriptsAgree /\ ReferencesAgree /\ DispatchesAgree
    /\ RunningAgrees /\ TabAgrees /\ PromptsAgree /\ LeftoversCleared

-----------------------------------------------------------------------------
(* Calls, records and scripts that change.                                  *)

\* A call that has ended, or goes on, or learns something keeps everything else.
Same(c, d) ==
    /\ d.op = c.op /\ d.ref = c.ref /\ d.key = c.key /\ d.url = c.url
    /\ d.doc = c.doc /\ d.tool = c.tool /\ d.rev = c.rev
LEMMA EndedIs ==
  ASSUME NEW c \in Call, NEW a \in Answer
  PROVE  /\ Ended(c, a) \in Call /\ Same(c, Ended(c, a))
         /\ Ended(c, a).at = "done" /\ Ended(c, a).answer = a
         /\ Ended(c, a).read = c.read /\ Ended(c, a).seen = c.seen
  BY DEF Ended, Call, CallState, Same

\* A call that moves on.
LEMMA MovedIs ==
  ASSUME NEW c \in Call, NEW to \in CallState
  PROVE  LET d == [c EXCEPT !.at = to]
         IN  d \in Call /\ Same(c, d) /\ d.at = to /\ d.answer = c.answer /\ d.read = c.read /\ d.seen = c.seen
  BY DEF Call, Same

SentAs(c, key, url) == [c EXCEPT !.at = "sent", !.key = key, !.url = url]
\* A call whose target is resolved: session and address.
LEMMA ResolvedIs ==
  ASSUME NEW c \in Call, NEW key \in Seq(Nat), NEW url \in Nat, NEW d, d = SentAs(c, key, url)
  PROVE  /\ d \in Call /\ d.at = "sent" /\ d.key = key /\ d.op = c.op /\ d.ref = c.ref
         /\ d.doc = c.doc /\ d.tool = c.tool /\ d.answer = c.answer
  BY DEF Call, CallState, SentAs

RunAs(c, to, doc, rev) == [c EXCEPT !.at = to, !.doc = doc, !.rev = rev, !.read = FALSE]
\* A call whose script runs in the document.
LEMMA ScriptIs ==
  ASSUME NEW c \in Call, NEW to \in CallState, NEW doc \in Nat, NEW rev \in Nat, NEW d,
         d = RunAs(c, to, doc, rev)
  PROVE  /\ d \in Call /\ d.at = to /\ d.doc = doc /\ d.rev = rev /\ d.op = c.op /\ d.ref = c.ref
         /\ d.key = c.key /\ d.tool = c.tool /\ d.answer = c.answer
  BY DEF Call, RunAs

Seen(c, seen) == [c EXCEPT !.read = TRUE, !.seen = seen]
\* A call that has read the page's tools.
LEMMA ReadIs ==
  ASSUME NEW c \in Call, NEW seen \in Nat, NEW d, d = Seen(c, seen)
  PROVE  d \in Call /\ Same(c, d) /\ d.at = c.at /\ d.answer = c.answer
  BY DEF Call, Same, Seen

Got(c, tool) == [c EXCEPT !.at = "got", !.tool = tool]
\* A call that has its tool.
LEMMA GotIs ==
  ASSUME NEW c \in Call, NEW tool \in Nat, NEW d, d = Got(c, tool)
  PROVE  /\ d \in Call /\ d.at = "got" /\ d.tool = tool /\ d.op = c.op /\ d.ref = c.ref
         /\ d.key = c.key /\ d.doc = c.doc /\ d.answer = c.answer
  BY DEF Call, CallState, Got

CalledAs(op, ref, run) == [Unused EXCEPT !.at = "resolving", !.op = op, !.ref = ref, !.key = <<run>>]
\* A call that begins.
LEMMA CalledIs ==
  ASSUME NEW op \in {"list", "execute"}, NEW ref \in Nat, NEW run \in Nat, NEW d, d = CalledAs(op, ref, run)
  PROVE  /\ d \in Call /\ d.at = "resolving" /\ d.op = op /\ d.ref = ref /\ d.key = <<run>>
         /\ d.tool = NoTool /\ d.answer = "none"
<1>1. <<>> \in Seq(Nat) /\ <<run>> \in Seq(Nat) /\ 0 \in Nat /\ FALSE \in BOOLEAN
  OBVIOUS
<1>2. "new" \in CallState /\ "none" \in Answer /\ "none" \in {"none", "list", "execute"}
  BY DEF CallState, Answer
<1>3. Unused \in Call
  BY <1>1, <1>2, ZenonT(30) DEF Unused, Call, NoTool
<1>4. Unused.tool = NoTool /\ Unused.answer = "none"
  BY DEF Unused
<1> HIDE DEF Unused
<1> QED
  BY <1>1, <1>3, <1>4 DEF Call, CallState, CalledAs

\* Calls that end, or one that goes on: the rest of a call stays, and so do the others.
CallsEnd(qs, answers) ==
    \A p \in WebCall :
      IF p \in qs THEN /\ Same(webCalls[p], webCalls'[p])
                       /\ webCalls'[p].at = "done" /\ webCalls'[p].answer \in answers
      ELSE webCalls'[p] = webCalls[p]
CallGoes(q, to) ==
    /\ \A p \in WebCall \ {q} : webCalls'[p] = webCalls[p]
    /\ Same(webCalls[q], webCalls'[q])
    /\ webCalls'[q].at = to /\ webCalls'[q].answer = webCalls[q].answer
TabGiven(qs) ==
    /\ webWorker'.executing <=> webWorker.executing /\ ~\E q \in qs : webCalls[q].op = "execute" /\ Of(q)
    /\ webWorker'.run = webWorker.run /\ webWorker'.touched = webWorker.touched

\* One call is replaced, the others stay.
LEMMA TurnedIs ==
  ASSUME CallsOK, NEW q \in WebCall, NEW d \in Call, webCalls' = [webCalls EXCEPT ![q] = d]
  PROVE  CallsOK' /\ webCalls'[q] = d /\ \A p \in WebCall \ {q} : webCalls'[p] = webCalls[p]
  BY DEF CallsOK

\* What the end of a call does.
LEMMA EndsDoes ==
  ASSUME CallsOK, WorkerOK, NEW q \in WebCall, NEW answer \in Answer, CallEnds(q, answer)
  PROVE  CallsOK' /\ WorkerOK' /\ CallsEnd({q}, {answer}) /\ TabGiven({q})
<1> DEFINE d == Ended(webCalls[q], answer)
<1>1. webCalls[q] \in Call
  BY DEF CallsOK
<1>2. d \in Call /\ Same(webCalls[q], d) /\ d.at = "done" /\ d.answer = answer
  BY <1>1, EndedIs
<1>3. webCalls' = [webCalls EXCEPT ![q] = d]
  BY DEF CallEnds
<1> HIDE DEF d
<1>4. CallsOK' /\ webCalls'[q] = d /\ \A p \in WebCall \ {q} : webCalls'[p] = webCalls[p]
  BY <1>2, <1>3, TurnedIs
<1>5. WorkerOK'
  BY DEF CallEnds, WorkerOK
<1>6. TabGiven({q})
  BY DEF CallEnds, WorkerOK, TabGiven
<1> QED
  BY <1>2, <1>4, <1>5, <1>6 DEF CallsEnd

\* What a call's way on does.
LEMMA GoesDoes ==
  ASSUME CallsOK, NEW q \in WebCall, NEW to \in CallState, webCalls' = [webCalls EXCEPT ![q].at = to]
  PROVE  CallsOK' /\ CallGoes(q, to)
<1> DEFINE d == [webCalls[q] EXCEPT !.at = to]
<1>1. webCalls[q] \in Call
  BY DEF CallsOK
<1>2. d \in Call /\ Same(webCalls[q], d) /\ d.at = to /\ d.answer = webCalls[q].answer
  BY <1>1, MovedIs
<1>3. webCalls' = [webCalls EXCEPT ![q] = d]
  OBVIOUS
<1> HIDE DEF d
<1>4. CallsOK' /\ webCalls'[q] = d /\ \A p \in WebCall \ {q} : webCalls'[p] = webCalls[p]
  BY <1>2, <1>3, TurnedIs
<1> QED
  BY <1>2, <1>4 DEF CallGoes

\* What a denial does.
LEMMA DeniedDoes ==
  ASSUME CallsOK, WorkerOK, PopupsOK, NEW qs \in SUBSET WebCall, Denied(qs),
         NEW asked, asked = {q \in qs : At(q, "approving") /\ Of(q)}
  PROVE  /\ CallsOK' /\ WorkerOK' /\ PopupsOK' /\ CallsEnd(asked, {"denied"})
         /\ webWorker'.executing <=> webWorker.executing /\ asked = {}
         /\ webWorker'.run = webWorker.run /\ webWorker'.touched = webWorker.touched
         /\ popups'.open = popups.open \ asked
<1>1. webCalls' = [q \in WebCall |-> IF q \in asked THEN Ended(webCalls[q], "denied") ELSE webCalls[q]]
  BY DEF Denied
<1>2. webWorker' = IF asked = {} THEN webWorker ELSE [webWorker EXCEPT !.executing = FALSE]
  BY DEF Denied
<1>3. popups' = [popups EXCEPT !.open = @ \ asked]
  BY DEF Denied
<1>4. asked \subseteq WebCall
  OBVIOUS
<1>5. \A q \in WebCall : /\ Ended(webCalls[q], "denied") \in Call /\ Same(webCalls[q], Ended(webCalls[q], "denied"))
                        /\ Ended(webCalls[q], "denied").at = "done" /\ Ended(webCalls[q], "denied").answer = "denied"
  BY EndedIs DEF CallsOK, Answer
<1>6. CallsOK'
  BY <1>1, <1>5 DEF CallsOK
<1>7. CallsEnd(asked, {"denied"})
  BY <1>1, <1>5 DEF CallsEnd
<1>8. /\ WorkerOK'
      /\ webWorker'.executing <=> webWorker.executing /\ asked = {}
      /\ webWorker'.run = webWorker.run /\ webWorker'.touched = webWorker.touched
  BY <1>2 DEF WorkerOK
<1>9. PopupsOK' /\ popups'.open = popups.open \ asked
  BY <1>3, <1>4 DEF PopupsOK
<1> QED
  BY <1>6, <1>7, <1>8, <1>9

-----------------------------------------------------------------------------
(* What the actions do.                                                     *)

\* What a script appended to the others, or the end of the first one, does to them.
LEMMA AppendedIs ==
  ASSUME ScriptsOK, NEW x \in Script, scripts' = Append(scripts, x)
  PROVE  /\ ScriptsOK' /\ Len(scripts) \in Nat /\ Len(scripts') = Len(scripts) + 1
         /\ DOMAIN scripts = 1..Len(scripts) /\ DOMAIN scripts' = 1..Len(scripts')
         /\ \A i \in DOMAIN scripts : scripts'[i] = scripts[i]
         /\ scripts'[Len(scripts) + 1] = x
  BY DEF ScriptsOK

LEMMA TailIs ==
  ASSUME ScriptsOK, scripts # <<>>, scripts' = Tail(scripts)
  PROVE  /\ ScriptsOK' /\ Len(scripts) \in Nat /\ Len(scripts') = Len(scripts) - 1
         /\ DOMAIN scripts = 1..Len(scripts) /\ DOMAIN scripts' = 1..Len(scripts')
         /\ \A i \in DOMAIN scripts' : scripts'[i] = scripts[i + 1] /\ i + 1 \in DOMAIN scripts
         /\ 1 \in DOMAIN scripts /\ Head(scripts) = scripts[1] /\ scripts[1] \in Script
         /\ \A i \in DOMAIN scripts : i = 1 \/ i - 1 \in DOMAIN scripts'
  BY DEF ScriptsOK

\* What each action does, in terms the invariant needs.
LEMMA CallsDoes ==
  ASSUME WebTypeOK, NEW q \in WebCall, NEW op \in {"list", "execute"}, NEW ref \in Nat, Calls(q, op, ref)
  PROVE  /\ WebTypeOK' /\ At(q, "new")
         /\ op = "execute" => ref <= webRefs
         /\ \A p \in WebCall \ {q} : webCalls'[p] = webCalls[p]
         /\ webCalls'[q].at = "resolving" /\ webCalls'[q].op = op /\ webCalls'[q].ref = ref
         /\ webCalls'[q].key = <<webWorker.run>> /\ webCalls'[q].tool = NoTool
         /\ webCalls'[q].answer = "none"
         /\ UNCHANGED <<webWorker, popups, site, scripts, scope, webPast, webRefs, siteTurns>>
<1> DEFINE d == CalledAs(op, ref, webWorker.run)
<1>1. webWorker.run \in Nat
  BY DEF WebTypeOK, WorkerOK
<1>2. /\ d \in Call /\ d.at = "resolving" /\ d.op = op /\ d.ref = ref /\ d.key = <<webWorker.run>>
      /\ d.tool = NoTool /\ d.answer = "none"
  BY <1>1, CalledIs
<1>3. webCalls' = [webCalls EXCEPT ![q] = d] /\ At(q, "new") /\ (op = "execute" => ref \in 1..webRefs)
  BY DEF Calls, CalledAs
<1>4. UNCHANGED <<webWorker, popups, site, scripts, scope, webPast, webRefs, siteTurns>>
  BY DEF Calls
<1> HIDE DEF d
<1>5. CallsOK' /\ webCalls'[q] = d /\ \A p \in WebCall \ {q} : webCalls'[p] = webCalls[p]
  BY <1>2, <1>3, TurnedIs DEF WebTypeOK
<1>6. WebTypeOK'
  BY <1>4, <1>5 DEF WebTypeOK, WorkerOK, PopupsOK, SiteOK, ScriptsOK, ScopeOK, PastOK, CountsOK
<1>7. op = "execute" => ref <= webRefs
  BY <1>3 DEF WebTypeOK, CountsOK
<1> QED
  BY <1>2, <1>3, <1>4, <1>5, <1>6, <1>7

\* A call that has been resolved is refused, finds the tab taken, or sends its script.
LEMMA ResolvedDoes ==
  ASSUME WebTypeOK, NEW q \in WebCall, Resolved(q)
  PROVE  /\ WebTypeOK' /\ At(q, "resolving") /\ Of(q)
         /\ UNCHANGED <<popups, site, scope, webPast, webRefs, siteTurns>>
         /\ \/ CallsEnd({q}, {"refused"}) /\ UNCHANGED <<webWorker, scripts>>
            \/ /\ CallsEnd({q}, {"busy"}) /\ UNCHANGED scripts
               /\ webWorker'.run = webWorker.run /\ webWorker'.touched
               /\ webWorker'.executing <=> webWorker.executing
            \/ /\ Admits(q) /\ ~(webCalls[q].op = "execute" /\ webWorker.executing)
               /\ \A p \in WebCall \ {q} : webCalls'[p] = webCalls[p]
               /\ webCalls'[q].at = "sent" /\ webCalls'[q].key = SessionKey
               /\ webCalls'[q].op = webCalls[q].op /\ webCalls'[q].ref = webCalls[q].ref
               /\ webCalls'[q].doc = webCalls[q].doc /\ webCalls'[q].tool = webCalls[q].tool
               /\ webCalls'[q].answer = webCalls[q].answer
               /\ webWorker'.run = webWorker.run /\ webWorker'.touched
               /\ webWorker'.executing <=> webWorker.executing \/ webCalls[q].op = "execute"
               /\ Sends(q, IF webCalls[q].op = "list" THEN "list" ELSE "get", 0)
<1> USE DEF WebTypeOK
<1>1. At(q, "resolving") /\ Of(q) /\ UNCHANGED <<popups, site, scope, webPast, webRefs, siteTurns>>
  BY DEF Resolved
<1>2. PopupsOK' /\ SiteOK' /\ ScopeOK' /\ PastOK' /\ CountsOK'
  BY <1>1 DEF PopupsOK, SiteOK, ScopeOK, PastOK, CountsOK
<1>3. webCalls[q] \in Call
  BY DEF CallsOK
<1>4. CASE ~Admits(q)
  <2> DEFINE d == Ended(webCalls[q], "refused")
  <2>1. webCalls' = [webCalls EXCEPT ![q] = d] /\ UNCHANGED <<webWorker, scripts>>
    BY <1>4 DEF Resolved
  <2>2. d \in Call /\ Same(webCalls[q], d) /\ d.at = "done" /\ d.answer = "refused"
    BY <1>3, EndedIs DEF Answer
  <2> HIDE DEF d
  <2>3. CallsOK' /\ CallsEnd({q}, {"refused"})
    BY <2>1, <2>2, TurnedIs DEF CallsEnd
  <2>4. WorkerOK' /\ ScriptsOK'
    BY <2>1 DEF WorkerOK, ScriptsOK
  <2> QED
    BY <1>1, <1>2, <2>1, <2>3, <2>4
<1>5. CASE Admits(q) /\ webCalls[q].op = "execute" /\ webWorker.executing
  <2> DEFINE d == Ended(webCalls[q], "busy")
  <2>1. webCalls' = [webCalls EXCEPT ![q] = d] /\ UNCHANGED scripts
    BY <1>5 DEF Resolved
  <2>2. webWorker' = [webWorker EXCEPT !.touched = TRUE]
    BY <1>5 DEF Resolved
  <2>3. d \in Call /\ Same(webCalls[q], d) /\ d.at = "done" /\ d.answer = "busy"
    BY <1>3, EndedIs DEF Answer
  <2> HIDE DEF d
  <2>4. CallsOK' /\ CallsEnd({q}, {"busy"})
    BY <2>1, <2>3, TurnedIs DEF CallsEnd
  <2>5. /\ WorkerOK' /\ ScriptsOK' /\ webWorker'.run = webWorker.run /\ webWorker'.touched
    BY <2>1, <2>2 DEF WorkerOK, ScriptsOK
  <2>6. webWorker'.executing <=> webWorker.executing
    BY <2>2 DEF WorkerOK
  <2> QED
    BY <1>1, <1>2, <2>1, <2>4, <2>5, <2>6
<1>6. CASE Admits(q) /\ ~(webCalls[q].op = "execute" /\ webWorker.executing)
  <2> DEFINE d == SentAs(webCalls[q], SessionKey, site.url)
  <2>1. webCalls' = [webCalls EXCEPT ![q] = d]
    BY <1>6 DEF Resolved, SentAs
  <2>2. Sends(q, IF webCalls[q].op = "list" THEN "list" ELSE "get", 0)
    BY <1>6 DEF Resolved
  <2>3. webWorker' = [webWorker EXCEPT !.touched = TRUE, !.executing = @ \/ webCalls[q].op = "execute"]
    BY <1>6 DEF Resolved
  <2>4. SessionKey \in Seq(Nat) /\ site.url \in Nat
    BY DEF SessionKey, WorkerOK, ScopeOK, SiteOK
  <2>5. /\ d \in Call /\ d.at = "sent" /\ d.key = SessionKey /\ d.op = webCalls[q].op
        /\ d.ref = webCalls[q].ref /\ d.doc = webCalls[q].doc /\ d.tool = webCalls[q].tool
        /\ d.answer = webCalls[q].answer
    BY <1>3, <2>4, ResolvedIs
  <2> HIDE DEF d
  <2>6. CallsOK' /\ webCalls'[q] = d /\ \A p \in WebCall \ {q} : webCalls'[p] = webCalls[p]
    BY <2>1, <2>5, TurnedIs
  <2>7. /\ WorkerOK' /\ webWorker'.run = webWorker.run /\ webWorker'.touched
    BY <2>3 DEF WorkerOK
  <2>8. webWorker'.executing <=> webWorker.executing \/ webCalls[q].op = "execute"
    BY <2>3 DEF WorkerOK
  <2>9. ScriptsOK'
    BY <2>2, AppendedIs DEF Sends, Script
  <2> QED
    BY <1>1, <1>2, <1>6, <2>2, <2>5, <2>6, <2>7, <2>8, <2>9
<1> QED
  BY <1>4, <1>5, <1>6

\* What stays of the tab, its tool aside.
SiteKeeps ==
    /\ site'.doc = site.doc /\ site'.rev = site.rev /\ site'.refs = site.refs
    /\ site'.active = site.active /\ (site'.aborted <=> site.aborted)

\* approve
LEMMA AsksUserDoes ==
  ASSUME WebTypeOK, NEW q \in WebCall, AsksUser(q)
  PROVE  /\ WebTypeOK' /\ At(q, "got") /\ Of(q) /\ popups'.open = popups.open
         /\ UNCHANGED <<site, scripts, scope, webPast, webRefs, siteTurns>>
         /\ \/ CallsEnd({q}, {"denied"}) /\ TabGiven({q})
            \/ q \notin webPast.canceled /\ CallGoes(q, "approving") /\ UNCHANGED webWorker
<1> USE DEF WebTypeOK
<1>1. At(q, "got") /\ Of(q) /\ UNCHANGED <<site, scripts, scope, webPast, webRefs, siteTurns>>
  BY DEF AsksUser
<1>2. SiteOK' /\ ScriptsOK' /\ ScopeOK' /\ PastOK' /\ CountsOK'
  BY <1>1 DEF SiteOK, ScriptsOK, ScopeOK, PastOK, CountsOK
<1>3. CASE q \in webPast.canceled
  <2>1. CallEnds(q, "denied") /\ UNCHANGED popups
    BY <1>3 DEF AsksUser
  <2>2. CallsOK' /\ WorkerOK' /\ CallsEnd({q}, {"denied"}) /\ TabGiven({q})
    BY <2>1, EndsDoes DEF Answer
  <2> QED
    BY <1>1, <1>2, <2>1, <2>2 DEF PopupsOK
<1>4. CASE q \notin webPast.canceled
  <2>1. /\ webCalls' = [webCalls EXCEPT ![q].at = "approving"] /\ UNCHANGED webWorker
        /\ popups' = [popups EXCEPT !.opening = @ \union {q}]
    BY <1>4 DEF AsksUser
  <2>2. CallsOK' /\ CallGoes(q, "approving")
    BY <2>1, GoesDoes DEF CallState
  <2>3. WorkerOK' /\ PopupsOK' /\ popups'.open = popups.open
    BY <2>1 DEF WorkerOK, PopupsOK
  <2> QED
    BY <1>1, <1>2, <1>4, <2>1, <2>2, <2>3
<1> QED
  BY <1>3, <1>4

\* The window of a prompt.
LEMMA PopupOpensDoes ==
  ASSUME WebTypeOK, NEW q \in WebCall, PopupOpens(q)
  PROVE  /\ WebTypeOK' /\ (popups'.open = popups.open \/ (popups'.open = popups.open \union {q} /\ At(q, "approving")))
         /\ UNCHANGED <<webCalls, webWorker, site, scripts, scope, webPast, webRefs, siteTurns>>
<1>1. UNCHANGED <<webCalls, webWorker, site, scripts, scope, webPast, webRefs, siteTurns>>
  BY DEF PopupOpens
<1>2. CASE At(q, "approving")
  <2>1. popups' = [opening |-> popups.opening \ {q}, open |-> popups.open \union {q}]
    BY <1>2 DEF PopupOpens
  <2>2. PopupsOK' /\ popups'.open = popups.open \union {q}
    BY <2>1 DEF WebTypeOK, PopupsOK
  <2> QED
    BY <1>1, <1>2, <2>2 DEF WebTypeOK, CallsOK, WorkerOK, SiteOK, ScriptsOK, ScopeOK, PastOK, CountsOK
<1>3. CASE ~At(q, "approving")
  <2>1. popups' = [opening |-> popups.opening \ {q}, open |-> popups.open]
    BY <1>3 DEF PopupOpens
  <2>2. PopupsOK' /\ popups'.open = popups.open
    BY <2>1 DEF WebTypeOK, PopupsOK
  <2> QED
    BY <1>1, <2>2 DEF WebTypeOK, CallsOK, WorkerOK, SiteOK, ScriptsOK, ScopeOK, PastOK, CountsOK
<1> QED
  BY <1>2, <1>3

\* The user approves.
LEMMA ApprovesDoes ==
  ASSUME WebTypeOK, NEW q \in WebCall, Approves(q)
  PROVE  /\ WebTypeOK' /\ At(q, "approving") /\ Of(q) /\ CallGoes(q, "rechecking")
         /\ popups'.open = popups.open \ {q}
         /\ webPast'.approved = webPast.approved \union {<<q, webCalls[q].tool, webCalls[q].doc>>}
         /\ webPast'.dispatched = webPast.dispatched /\ webPast'.canceled = webPast.canceled
         /\ webPast'.dropped = webPast.dropped
         /\ UNCHANGED <<webWorker, site, scripts, scope, webRefs, siteTurns>>
<1> USE DEF WebTypeOK
<1>1. At(q, "approving") /\ Of(q) /\ UNCHANGED <<webWorker, site, scripts, scope, webRefs, siteTurns>>
  BY DEF Approves
<1>2. WorkerOK' /\ SiteOK' /\ ScriptsOK' /\ ScopeOK' /\ CountsOK'
  BY <1>1 DEF WorkerOK, SiteOK, ScriptsOK, ScopeOK, CountsOK
<1>3. CallsOK' /\ CallGoes(q, "rechecking")
  BY GoesDoes DEF Approves, CallState
<1>4. PopupsOK' /\ popups'.open = popups.open \ {q}
  BY DEF Approves, PopupsOK
<1>5. webCalls[q].tool \in Nat /\ webCalls[q].doc \in Nat
  BY DEF CallsOK, Call
<1>6. <<q, webCalls[q].tool, webCalls[q].doc>> \in Use
  BY <1>5 DEF Use
<1>7. PICK u \in Use : u = <<q, webCalls[q].tool, webCalls[q].doc>>
  BY <1>6
<1>8. webPast' = [webPast EXCEPT !.approved = @ \union {u}]
  BY <1>7 DEF Approves
<1>9. /\ PastOK' /\ webPast'.approved = webPast.approved \union {u}
      /\ webPast'.dispatched = webPast.dispatched /\ webPast'.canceled = webPast.canceled
      /\ webPast'.dropped = webPast.dropped
  BY <1>8 DEF PastOK
<1> QED
  BY <1>1, <1>2, <1>3, <1>4, <1>7, <1>9

\* Approvals that are denied, of the user's wish or with other things that end.
DenialOf(asked) ==
    /\ CallsEnd(asked, {"denied"}) /\ popups'.open = popups.open \ asked
    /\ webWorker'.executing <=> webWorker.executing /\ asked = {}
    /\ webWorker'.run = webWorker.run /\ webWorker'.touched = webWorker.touched
Asked(qs) == {q \in qs : At(q, "approving") /\ Of(q)}
CanceledOf(qs) ==
    /\ webPast'.canceled = webPast.canceled \union {q \in qs : Cancelable(q)}
    /\ webPast'.approved = webPast.approved /\ webPast'.dispatched = webPast.dispatched
    /\ webPast'.dropped = webPast.dropped

LEMMA DenialIs ==
  ASSUME CallsOK, WorkerOK, PopupsOK, NEW qs \in SUBSET WebCall, Denied(qs)
  PROVE  CallsOK' /\ WorkerOK' /\ PopupsOK' /\ DenialOf(Asked(qs))
  BY DeniedDoes DEF DenialOf, Asked

\* Cancellations that come in time.
LEMMA CanceledIs ==
  ASSUME PastOK, NEW qs \in SUBSET WebCall, webPast' = CanceledNow(qs)
  PROVE  PastOK' /\ CanceledOf(qs)
<1> DEFINE new == {q \in qs : Cancelable(q)}
<1>1. webPast' = [webPast EXCEPT !.canceled = @ \union new] /\ new \subseteq WebCall
  BY DEF CanceledNow
<1> HIDE DEF new
<1>2. /\ PastOK' /\ webPast'.canceled = webPast.canceled \union new
      /\ webPast'.approved = webPast.approved /\ webPast'.dispatched = webPast.dispatched
      /\ webPast'.dropped = webPast.dropped
  BY <1>1 DEF PastOK
<1> QED
  BY <1>2 DEF CanceledOf, new

LEMMA DeclinesDoes ==
  ASSUME WebTypeOK, NEW q \in WebCall, Declines(q)
  PROVE  /\ WebTypeOK' /\ DenialOf(Asked({q}))
         /\ UNCHANGED <<site, scripts, scope, webPast, webRefs, siteTurns>>
<1>1. Denied({q}) /\ UNCHANGED <<site, scripts, scope, webPast, webRefs, siteTurns>>
  BY DEF Declines
<1>2. CallsOK' /\ WorkerOK' /\ PopupsOK' /\ DenialOf(Asked({q}))
  BY <1>1, DenialIs DEF WebTypeOK
<1> QED
  BY <1>1, <1>2 DEF WebTypeOK, SiteOK, ScriptsOK, ScopeOK, PastOK, CountsOK

LEMMA CancelsDoes ==
  ASSUME WebTypeOK, NEW q \in WebCall, Cancels(q)
  PROVE  /\ WebTypeOK' /\ DenialOf(Asked({q})) /\ CanceledOf({q}) /\ ~At(q, "new") /\ ~At(q, "done")
         /\ UNCHANGED <<site, scripts, scope, webRefs>>
<1>1. /\ Denied({q}) /\ webPast' = CanceledNow({q}) /\ UNCHANGED <<site, scripts, scope, webRefs>>
      /\ ~At(q, "new") /\ ~At(q, "done") /\ siteTurns' = siteTurns + 1
  BY DEF Cancels, SiteTurn
<1>2. CallsOK' /\ WorkerOK' /\ PopupsOK' /\ DenialOf(Asked({q}))
  BY <1>1, DenialIs DEF WebTypeOK
<1>3. PastOK' /\ CanceledOf({q})
  BY <1>1, CanceledIs DEF WebTypeOK
<1> QED
  BY <1>1, <1>2, <1>3 DEF WebTypeOK, SiteOK, ScriptsOK, ScopeOK, CountsOK

LEMMA EndsAccessDoes ==
  ASSUME WebTypeOK, EndsAccess
  PROVE  /\ WebTypeOK' /\ DenialOf(Asked(WebCall)) /\ CanceledOf(WebCall)
         /\ scope'.cleanup /\ scope'.grant = scope.grant /\ UNCHANGED <<site, scripts, webRefs>>
<1>1. /\ Denied(WebCall) /\ webPast' = CanceledNow(WebCall) /\ UNCHANGED <<site, scripts, webRefs>>
      /\ siteTurns' = siteTurns + 1 /\ scope' = [scope EXCEPT !.on = FALSE, !.cleanup = TRUE]
  BY DEF EndsAccess, SiteTurn
<1>2. CallsOK' /\ WorkerOK' /\ PopupsOK' /\ DenialOf(Asked(WebCall))
  BY <1>1, DenialIs DEF WebTypeOK
<1>3. PastOK' /\ CanceledOf(WebCall)
  BY <1>1, CanceledIs DEF WebTypeOK
<1>4. ScopeOK' /\ scope'.cleanup /\ scope'.grant = scope.grant
  BY <1>1 DEF WebTypeOK, ScopeOK
<1> QED
  BY <1>1, <1>2, <1>3, <1>4 DEF WebTypeOK, SiteOK, ScriptsOK, CountsOK

LEMMA ReconnectsDoes ==
  ASSUME WebTypeOK, Reconnects
  PROVE  /\ WebTypeOK' /\ DenialOf(Asked(WebCall)) /\ CanceledOf(WebCall)
         /\ (scope'.cleanup <=> scope.cleanup) /\ (scope'.on <=> scope.on) /\ scope'.grant = scope.grant
         /\ UNCHANGED <<site, scripts, webRefs>>
<1>1. /\ Denied(WebCall) /\ webPast' = CanceledNow(WebCall) /\ UNCHANGED <<site, scripts, webRefs>>
      /\ siteTurns' = siteTurns + 1 /\ scope' = [scope EXCEPT !.connection = @ + 1]
  BY DEF Reconnects, SiteTurn
<1>2. CallsOK' /\ WorkerOK' /\ PopupsOK' /\ DenialOf(Asked(WebCall))
  BY <1>1, DenialIs DEF WebTypeOK
<1>3. PastOK' /\ CanceledOf(WebCall)
  BY <1>1, CanceledIs DEF WebTypeOK
<1>4. ScopeOK' /\ scope'.grant = scope.grant
  BY <1>1 DEF WebTypeOK, ScopeOK
<1>5. (scope'.cleanup <=> scope.cleanup) /\ (scope'.on <=> scope.on)
  BY <1>1 DEF WebTypeOK, ScopeOK
<1> QED
  BY <1>1, <1>2, <1>3, <1>4, <1>5 DEF WebTypeOK, SiteOK, ScriptsOK, CountsOK

\* An approval is checked once more: the script is sent, or the call denied.
LEMMA RechecksDoes ==
  ASSUME WebTypeOK, NEW q \in WebCall, Rechecks(q)
  PROVE  /\ WebTypeOK' /\ At(q, "rechecking") /\ Of(q)
         /\ UNCHANGED <<popups, site, scope, webPast, webRefs, siteTurns>>
         /\ \/ /\ Admits(q) /\ CallGoes(q, "sent") /\ Sends(q, "execute", webCalls[q].doc)
               /\ UNCHANGED webWorker
            \/ CallsEnd({q}, {"denied"}) /\ TabGiven({q}) /\ UNCHANGED scripts
<1> USE DEF WebTypeOK
<1>1. At(q, "rechecking") /\ Of(q) /\ UNCHANGED <<popups, site, scope, webPast, webRefs, siteTurns>>
  BY DEF Rechecks
<1>2. PopupsOK' /\ SiteOK' /\ ScopeOK' /\ PastOK' /\ CountsOK'
  BY <1>1 DEF PopupsOK, SiteOK, ScopeOK, PastOK, CountsOK
<1> DEFINE stands == Admits(q) /\ webCalls[q].key = SessionKey /\ webCalls[q].url = site.url
<1>3. CASE stands
  <2>1. /\ webCalls' = [webCalls EXCEPT ![q].at = "sent"] /\ UNCHANGED webWorker
        /\ Sends(q, "execute", webCalls[q].doc)
    BY <1>3 DEF Rechecks
  <2>2. CallsOK' /\ CallGoes(q, "sent")
    BY <2>1, GoesDoes DEF CallState
  <2>3. webCalls[q].doc \in Nat
    BY DEF CallsOK, Call
  <2>4. ScriptsOK'
    BY <2>1, <2>3, AppendedIs DEF Sends, Script
  <2> QED
    BY <1>1, <1>2, <1>3, <2>1, <2>2, <2>4 DEF WorkerOK
<1>4. CASE ~stands
  <2>1. CallEnds(q, "denied") /\ UNCHANGED scripts
    BY <1>4 DEF Rechecks
  <2>2. CallsOK' /\ WorkerOK' /\ CallsEnd({q}, {"denied"}) /\ TabGiven({q})
    BY <2>1, EndsDoes DEF Answer
  <2> QED
    BY <1>1, <1>2, <2>1, <2>2 DEF ScriptsOK
<1> QED
  BY <1>3, <1>4

\* The document: getTools, lists, references, execution.
LEMMA GetsToolsDoes ==
  ASSUME WebTypeOK, NEW q \in WebCall, NEW answers \in BOOLEAN, GetsTools(q, answers)
  PROVE  /\ WebTypeOK' /\ webCalls[q].at \in InDocument
         /\ UNCHANGED <<popups, site, scripts, scope, webPast, webRefs, siteTurns>>
         /\ \/ CallGoes(q, webCalls[q].at) /\ UNCHANGED webWorker
            \/ CallsEnd({q}, {"unavailable"}) /\ TabGiven({q})
<1> USE DEF WebTypeOK
<1>1. /\ webCalls[q].at \in InDocument
      /\ UNCHANGED <<popups, site, scripts, scope, webPast, webRefs, siteTurns>>
  BY DEF GetsTools
<1>2. PopupsOK' /\ SiteOK' /\ ScriptsOK' /\ ScopeOK' /\ PastOK' /\ CountsOK'
  BY <1>1 DEF PopupsOK, SiteOK, ScriptsOK, ScopeOK, PastOK, CountsOK
<1>3. CASE answers
  <2> DEFINE d == Seen(webCalls[q], site.tool)
  <2>1. webCalls' = [webCalls EXCEPT ![q] = d] /\ UNCHANGED webWorker
    BY <1>3 DEF GetsTools, Seen
  <2>2. webCalls[q] \in Call /\ site.tool \in Nat
    BY DEF CallsOK, SiteOK
  <2>3. d \in Call /\ Same(webCalls[q], d) /\ d.at = webCalls[q].at /\ d.answer = webCalls[q].answer
    BY <2>2, ReadIs
  <2> HIDE DEF d
  <2>4. CallsOK' /\ CallGoes(q, webCalls[q].at)
    BY <2>1, <2>3, TurnedIs DEF CallGoes
  <2> QED
    BY <1>1, <1>2, <2>1, <2>4 DEF WorkerOK
<1>4. CASE ~answers
  <2>1. CallEnds(q, "unavailable")
    BY <1>4 DEF GetsTools
  <2>2. CallsOK' /\ WorkerOK' /\ CallsEnd({q}, {"unavailable"}) /\ TabGiven({q})
    BY <2>1, EndsDoes DEF Answer
  <2> QED
    BY <1>1, <1>2, <2>2
<1> QED
  BY <1>3, <1>4

LEMMA ListsDoes ==
  ASSUME WebTypeOK, NEW q \in WebCall, Lists(q)
  PROVE  /\ WebTypeOK' /\ At(q, "list") /\ CallsEnd({q}, {"listed", "stale"}) /\ TabGiven({q})
         /\ UNCHANGED <<popups, scripts, scope, webPast, siteTurns>>
         /\ \/ UNCHANGED <<site, webRefs>>
            \/ /\ CatalogStands(q) /\ webRefs' = webRefs + 1
               /\ site'.doc = site.doc /\ site'.rev = site.rev /\ site'.active = site.active
               /\ site'.aborted <=> site.aborted
               /\ \E r \in Reference : /\ r.id = webRefs + 1 /\ r.tool # NoTool /\ r.key = webCalls[q].key
                                       /\ site'.refs = site.refs \union {r}
<1> USE DEF WebTypeOK
<1> DEFINE a == IF CatalogStands(q) THEN "listed" ELSE "stale"
           r == [id |-> webRefs + 1, tool |-> ToolSeen(q), key |-> webCalls[q].key]
           known == \E s \in site.refs : s.tool = r.tool /\ s.key = r.key
<1>1. At(q, "list") /\ CallEnds(q, a) /\ UNCHANGED <<popups, scripts, scope, webPast, siteTurns>>
  BY DEF Lists, Has
<1>2. PopupsOK' /\ ScriptsOK' /\ ScopeOK' /\ PastOK'
  BY <1>1 DEF PopupsOK, ScriptsOK, ScopeOK, PastOK
<1>3. a \in {"listed", "stale"} /\ a \in Answer
  BY DEF Answer
<1>4. CallsOK' /\ WorkerOK' /\ CallsEnd({q}, {a}) /\ TabGiven({q})
  BY <1>1, <1>3, EndsDoes
<1>5. CallsEnd({q}, {"listed", "stale"})
  BY <1>3, <1>4 DEF CallsEnd
<1>6. CASE CatalogStands(q) /\ r.tool # NoTool /\ ~known
  <2>1. webRefs' = webRefs + 1 /\ site' = [site EXCEPT !.refs = @ \union {r}]
    BY <1>6 DEF Lists
  <2>2. webCalls[q].key \in Seq(Nat) /\ ToolSeen(q) \in Nat /\ webRefs + 1 \in Nat
    BY DEF CallsOK, Call, CountsOK, ToolSeen
  <2>3. r \in Reference /\ r.id = webRefs + 1 /\ r.tool # NoTool /\ r.key = webCalls[q].key
    BY <1>6, <2>2 DEF Reference
  <2> HIDE DEF r
  <2>4. /\ SiteOK' /\ site'.refs = site.refs \union {r}
        /\ site'.doc = site.doc /\ site'.rev = site.rev /\ site'.active = site.active
    BY <2>1, <2>3 DEF SiteOK
  <2>5. site'.aborted <=> site.aborted
    BY <2>1 DEF SiteOK
  <2>6. CountsOK'
    BY <1>1, <2>1 DEF CountsOK
  <2> QED
    BY <1>1, <1>2, <1>4, <1>5, <1>6, <2>1, <2>3, <2>4, <2>5, <2>6
<1>7. CASE ~(CatalogStands(q) /\ r.tool # NoTool /\ ~known)
  <2>1. UNCHANGED <<site, webRefs>>
    BY <1>7 DEF Lists
  <2>2. SiteOK' /\ CountsOK'
    BY <1>1, <2>1 DEF SiteOK, CountsOK
  <2> QED
    BY <1>1, <1>2, <1>4, <1>5, <2>1, <2>2
<1> QED
  BY <1>6, <1>7

LEMMA GetsToolDoes ==
  ASSUME WebTypeOK, NEW q \in WebCall, GetsTool(q)
  PROVE  /\ WebTypeOK' /\ At(q, "get")
         /\ UNCHANGED <<webWorker, popups, site, scripts, scope, webPast, webRefs, siteTurns>>
         /\ \A p \in WebCall \ {q} : webCalls'[p] = webCalls[p]
         /\ webCalls'[q].at = "got" /\ webCalls'[q].op = webCalls[q].op
         /\ webCalls'[q].ref = webCalls[q].ref /\ webCalls'[q].key = webCalls[q].key
         /\ webCalls'[q].doc = webCalls[q].doc /\ webCalls'[q].answer = webCalls[q].answer
         /\ \E r \in site.refs : r.id = webCalls[q].ref /\ webCalls'[q].tool = r.tool
<1> USE DEF WebTypeOK
<1>1. /\ At(q, "get") /\ Entry(q) # {}
      /\ UNCHANGED <<webWorker, popups, site, scripts, scope, webPast, webRefs, siteTurns>>
  BY DEF GetsTool, Has
<1>2. WorkerOK' /\ PopupsOK' /\ SiteOK' /\ ScriptsOK' /\ ScopeOK' /\ PastOK' /\ CountsOK'
  BY <1>1 DEF WorkerOK, PopupsOK, SiteOK, ScriptsOK, ScopeOK, PastOK, CountsOK
<1>3. PICK r \in site.refs : r.id = webCalls[q].ref /\ r.tool = ToolSeen(q)
  BY <1>1 DEF Entry
<1> DEFINE d == Got(webCalls[q], ToolSeen(q))
<1>4. webCalls' = [webCalls EXCEPT ![q] = d]
  BY DEF GetsTool, Got
<1>5. webCalls[q] \in Call /\ ToolSeen(q) \in Nat
  BY DEF CallsOK, ToolSeen, Call
<1>6. /\ d \in Call /\ d.at = "got" /\ d.tool = ToolSeen(q) /\ d.op = webCalls[q].op /\ d.ref = webCalls[q].ref
      /\ d.key = webCalls[q].key /\ d.doc = webCalls[q].doc /\ d.answer = webCalls[q].answer
  BY <1>5, GotIs
<1> HIDE DEF d
<1>7. CallsOK' /\ webCalls'[q] = d /\ \A p \in WebCall \ {q} : webCalls'[p] = webCalls[p]
  BY <1>4, <1>6, TurnedIs
<1> QED
  BY <1>1, <1>2, <1>3, <1>6, <1>7

LEMMA IsStaleDoes ==
  ASSUME WebTypeOK, NEW q \in WebCall, IsStale(q)
  PROVE  /\ WebTypeOK' /\ (At(q, "get") \/ At(q, "execute")) /\ CallsEnd({q}, {"stale"}) /\ TabGiven({q})
         /\ site'.doc = site.doc /\ site'.rev = site.rev /\ site'.active = site.active
         /\ site'.aborted <=> site.aborted
         /\ site'.refs \subseteq site.refs
         /\ UNCHANGED <<popups, scripts, scope, webPast, webRefs, siteTurns>>
<1> USE DEF WebTypeOK
<1>1. /\ At(q, "get") \/ At(q, "execute")
      /\ CallEnds(q, "stale") /\ UNCHANGED <<popups, scripts, scope, webPast, webRefs, siteTurns>>
      /\ site' = IF CatalogStands(q) THEN [site EXCEPT !.refs = {r \in @ : r.id # webCalls[q].ref}] ELSE site
  BY DEF IsStale, Has
<1>2. CallsOK' /\ WorkerOK' /\ CallsEnd({q}, {"stale"}) /\ TabGiven({q})
  BY <1>1, EndsDoes DEF Answer
<1>3. PopupsOK' /\ ScriptsOK' /\ ScopeOK' /\ PastOK' /\ CountsOK'
  BY <1>1 DEF PopupsOK, ScriptsOK, ScopeOK, PastOK, CountsOK
<1>4. PICK rest \in SUBSET site.refs : rest = {r \in site.refs : r.id # webCalls[q].ref}
  OBVIOUS
<1>5. site' = [site EXCEPT !.refs = rest] \/ site' = site
  BY <1>1, <1>4
<1>6. /\ SiteOK' /\ site'.doc = site.doc /\ site'.rev = site.rev /\ site'.active = site.active
      /\ site'.refs \subseteq site.refs
  BY <1>4, <1>5 DEF SiteOK
<1>7. site'.aborted <=> site.aborted
  BY <1>4, <1>5 DEF SiteOK
<1> QED
  BY <1>1, <1>2, <1>3, <1>6, <1>7

\* An execution finds an earlier callback at work, or starts its own.
LEMMA ExecutesDoes ==
  ASSUME WebTypeOK, NEW q \in WebCall, Executes(q)
  PROVE  /\ WebTypeOK' /\ At(q, "execute") /\ CatalogStands(q)
         /\ UNCHANGED <<popups, scripts, scope, webRefs, siteTurns>>
         /\ \/ /\ CallsEnd({q}, {"busy"}) /\ TabGiven({q}) /\ UNCHANGED <<site, webPast>>
            \/ /\ site.active = NoWebCall /\ CallGoes(q, "running") /\ UNCHANGED webWorker
               /\ site'.doc = site.doc /\ site'.rev = site.rev /\ site'.refs = site.refs
               /\ site'.active = q /\ ~site'.aborted
               /\ webPast'.approved = webPast.approved /\ webPast'.canceled = webPast.canceled
               /\ webPast'.dropped = webPast.dropped
               /\ \E r \in site.refs :
                    /\ r.id = webCalls[q].ref /\ r.key = webCalls[q].key
                    /\ <<q, r.tool, site.doc>> \in Use
                    /\ webPast'.dispatched = Append(webPast.dispatched, <<q, r.tool, site.doc>>)
<1> USE DEF WebTypeOK
<1>1. /\ At(q, "execute") /\ CatalogStands(q) /\ Entry(q) # {}
      /\ UNCHANGED <<popups, scripts, scope, webRefs, siteTurns>>
  BY DEF Executes, Has
<1>2. PopupsOK' /\ ScriptsOK' /\ ScopeOK' /\ CountsOK'
  BY <1>1 DEF PopupsOK, ScriptsOK, ScopeOK, CountsOK
<1>3. CASE site.active # NoWebCall
  <2>1. CallEnds(q, "busy") /\ UNCHANGED <<site, webPast>>
    BY <1>3 DEF Executes
  <2>2. CallsOK' /\ WorkerOK' /\ CallsEnd({q}, {"busy"}) /\ TabGiven({q})
    BY <2>1, EndsDoes DEF Answer
  <2> QED
    BY <1>1, <1>2, <2>1, <2>2 DEF SiteOK, PastOK
<1>4. CASE site.active = NoWebCall
  <2>1. /\ webCalls' = [webCalls EXCEPT ![q].at = "running"] /\ UNCHANGED webWorker
        /\ site' = [site EXCEPT !.active = q, !.aborted = FALSE]
        /\ webPast' = [webPast EXCEPT !.dispatched = Append(@, <<q, ToolSeen(q), site.doc>>)]
    BY <1>4 DEF Executes
  <2>2. CallsOK' /\ CallGoes(q, "running")
    BY <2>1, GoesDoes DEF CallState
  <2>3. PICK r \in site.refs : r.id = webCalls[q].ref /\ r.key = webCalls[q].key /\ r.tool = ToolSeen(q)
    BY <1>1 DEF Entry
  <2>4. ToolSeen(q) \in Nat /\ site.doc \in Nat
    BY DEF CallsOK, ToolSeen, Call, SiteOK
  <2>5. <<q, ToolSeen(q), site.doc>> \in Use
    BY <2>4 DEF Use
  <2>6. PICK u \in Use : u = <<q, ToolSeen(q), site.doc>>
    BY <2>5
  <2>7. /\ PastOK' /\ webPast'.dispatched = Append(webPast.dispatched, u)
        /\ webPast'.approved = webPast.approved /\ webPast'.canceled = webPast.canceled
        /\ webPast'.dropped = webPast.dropped
    <3>1. Append(webPast.dispatched, u) \in Seq(Use)
      BY DEF PastOK
    <3>2. PICK new \in Seq(Use) : new = Append(webPast.dispatched, u)
      BY <3>1
    <3>3. webPast' = [webPast EXCEPT !.dispatched = new]
      BY <2>1, <2>6, <3>2
    <3> QED
      BY <3>2, <3>3 DEF PastOK
  <2>8. /\ SiteOK' /\ site'.doc = site.doc /\ site'.rev = site.rev /\ site'.refs = site.refs
        /\ site'.active = q /\ ~site'.aborted
    BY <2>1 DEF SiteOK
  <2> QED
    BY <1>1, <1>2, <1>4, <2>1, <2>2, <2>3, <2>5, <2>6, <2>7, <2>8 DEF WorkerOK
<1> QED
  BY <1>3, <1>4

\* The first script is done; the others move up.
FirstGone ==
    /\ scripts # <<>> /\ scripts' = Tail(scripts)
    /\ 1 \in DOMAIN scripts /\ Head(scripts) = scripts[1]
LEMMA FirstGoneIs ==
  ASSUME ScriptsOK, scripts # <<>>, scripts' = Tail(scripts)
  PROVE  ScriptsOK' /\ FirstGone /\ scripts[1] \in Script
  BY TailIs DEF FirstGone

LEMMA ClearRunsDoes ==
  ASSUME WebTypeOK, ClearRuns
  PROVE  /\ WebTypeOK' /\ FirstGone /\ scripts[1].part = "clear"
         /\ UNCHANGED <<popups, scope, webPast, webRefs, siteTurns>>
         /\ site'.doc = site.doc /\ site'.rev = site.rev + 1 /\ site'.refs = {} /\ site'.active = site.active
         /\ site'.aborted <=> site.active # NoWebCall
         /\ \/ /\ site.active # NoWebCall /\ ~site.aborted /\ site.active \in WebCall
               /\ CallsEnd({site.active}, {"cancelled"}) /\ TabGiven({site.active})
            \/ (site.active = NoWebCall \/ site.aborted) /\ UNCHANGED <<webCalls, webWorker>>
<1> USE DEF WebTypeOK
<1>1. /\ scripts # <<>> /\ Head(scripts).part = "clear" /\ scripts' = Tail(scripts)
      /\ UNCHANGED <<popups, scope, webPast, webRefs, siteTurns>>
      /\ site' = [Invalidated(site) EXCEPT !.aborted = site.active # NoWebCall]
  BY DEF ClearRuns
<1>2. ScriptsOK' /\ FirstGone
  BY <1>1, FirstGoneIs
<1>3. scripts[1].part = "clear"
  BY <1>1, <1>2 DEF FirstGone
<1>4. PopupsOK' /\ ScopeOK' /\ PastOK' /\ CountsOK'
  BY <1>1 DEF PopupsOK, ScopeOK, PastOK, CountsOK
<1>5. PICK n \in Nat : n = site.rev + 1
  BY DEF SiteOK
<1>6. PICK ends \in BOOLEAN : ends <=> site.active # NoWebCall
  OBVIOUS
<1>7. site' = [[site EXCEPT !.refs = {}, !.rev = n] EXCEPT !.aborted = ends]
  BY <1>1, <1>5, <1>6 DEF Invalidated
<1>8. SiteOK' /\ site'.doc = site.doc /\ site'.rev = n /\ site'.refs = {} /\ site'.active = site.active
  BY <1>7 DEF SiteOK
<1>9. site'.aborted <=> ends
  BY <1>7 DEF SiteOK
<1>10. CASE site.active # NoWebCall /\ ~site.aborted
  <2>1. site.active \in WebCall /\ CallEnds(site.active, "cancelled")
    BY <1>10 DEF ClearRuns, SiteOK
  <2>2. PICK q \in WebCall : q = site.active
    BY <2>1
  <2>3. CallsOK' /\ WorkerOK' /\ CallsEnd({q}, {"cancelled"}) /\ TabGiven({q})
    BY <2>1, <2>2, EndsDoes DEF Answer
  <2> QED
    BY <1>1, <1>2, <1>3, <1>4, <1>5, <1>6, <1>8, <1>9, <1>10, <2>1, <2>2, <2>3
<1>11. CASE site.active = NoWebCall \/ site.aborted
  <2>1. UNCHANGED <<webCalls, webWorker>>
    BY <1>11 DEF ClearRuns
  <2> QED
    BY <1>1, <1>2, <1>3, <1>4, <1>5, <1>6, <1>8, <1>9, <1>11, <2>1 DEF CallsOK, WorkerOK
<1> QED
  BY <1>10, <1>11

LEMMA ScriptRunsDoes ==
  ASSUME WebTypeOK, ScriptRuns, NEW q \in WebCall, q = scripts[1].call
  PROVE  /\ WebTypeOK' /\ FirstGone /\ scripts[1].part # "clear"
         /\ UNCHANGED <<popups, site, scope, webPast, webRefs, siteTurns>>
         /\ \/ /\ scripts[1].pin \in {0, site.doc} /\ UNCHANGED webWorker
               /\ \A p \in WebCall \ {q} : webCalls'[p] = webCalls[p]
               /\ webCalls'[q].at = scripts[1].part /\ webCalls'[q].doc = site.doc
               /\ webCalls'[q].rev = site.rev /\ webCalls'[q].op = webCalls[q].op
               /\ webCalls'[q].ref = webCalls[q].ref /\ webCalls'[q].key = webCalls[q].key
               /\ webCalls'[q].tool = webCalls[q].tool /\ webCalls'[q].answer = webCalls[q].answer
            \/ CallsEnd({q}, {"uncertain"}) /\ TabGiven({q})
<1> USE DEF WebTypeOK
<1>1. /\ scripts # <<>> /\ Head(scripts).part # "clear" /\ scripts' = Tail(scripts)
      /\ UNCHANGED <<popups, site, scope, webPast, webRefs, siteTurns>>
  BY DEF ScriptRuns
<1>2. ScriptsOK' /\ FirstGone /\ scripts[1] \in Script
  BY <1>1, FirstGoneIs
<1>3. scripts[1].part # "clear" /\ scripts[1].part \in {"list", "get", "execute"}
  BY <1>1, <1>2 DEF FirstGone, Script
<1>4. PopupsOK' /\ SiteOK' /\ ScopeOK' /\ PastOK' /\ CountsOK'
  BY <1>1 DEF PopupsOK, SiteOK, ScopeOK, PastOK, CountsOK
<1>5. Head(scripts) = scripts[1]
  BY <1>2 DEF FirstGone
<1>6. CASE scripts[1].pin \in {0, site.doc}
  <2> DEFINE d == RunAs(webCalls[q], scripts[1].part, site.doc, site.rev)
  <2>1. webCalls' = [webCalls EXCEPT ![q] = d] /\ UNCHANGED webWorker
    BY <1>5, <1>6 DEF ScriptRuns, RunAs
  <2>2. /\ webCalls[q] \in Call /\ scripts[1].part \in CallState
        /\ site.doc \in Nat /\ site.rev \in Nat
    BY <1>3 DEF CallsOK, CallState, SiteOK
  <2>3. /\ d \in Call /\ d.at = scripts[1].part /\ d.doc = site.doc /\ d.rev = site.rev
        /\ d.op = webCalls[q].op /\ d.ref = webCalls[q].ref /\ d.key = webCalls[q].key
        /\ d.tool = webCalls[q].tool /\ d.answer = webCalls[q].answer
    <3>1. PICK c \in Call, to \in CallState, doc \in Nat, rev \in Nat :
            c = webCalls[q] /\ to = scripts[1].part /\ doc = site.doc /\ rev = site.rev
      BY <2>2
    <3>2. PICK e : e = d
      OBVIOUS
    <3>3. e = RunAs(c, to, doc, rev)
      BY <3>1, <3>2
    <3> HIDE DEF d
    <3>4. /\ e \in Call /\ e.at = to /\ e.doc = doc /\ e.rev = rev /\ e.op = c.op /\ e.ref = c.ref
          /\ e.key = c.key /\ e.tool = c.tool /\ e.answer = c.answer
      BY <3>3, ScriptIs
    <3> QED
      BY <3>1, <3>2, <3>4
  <2> HIDE DEF d
  <2>4. CallsOK' /\ webCalls'[q] = d /\ \A p \in WebCall \ {q} : webCalls'[p] = webCalls[p]
    BY <2>1, <2>3, TurnedIs
  <2> QED
    BY <1>1, <1>2, <1>3, <1>4, <1>6, <2>1, <2>3, <2>4 DEF WorkerOK
<1>7. CASE scripts[1].pin \notin {0, site.doc}
  <2>1. CallEnds(q, "uncertain")
    BY <1>5, <1>7 DEF ScriptRuns
  <2>2. CallsOK' /\ WorkerOK' /\ CallsEnd({q}, {"uncertain"}) /\ TabGiven({q})
    BY <2>1, EndsDoes DEF Answer
  <2> QED
    BY <1>1, <1>2, <1>3, <1>4, <2>2
<1> QED
  BY <1>6, <1>7

\* The callback's end.
LEMMA SettlesDoes ==
  ASSUME WebTypeOK, NEW answer \in {"completed", "uncertain"}, CallbackSettles(answer)
  PROVE  /\ WebTypeOK' /\ site.active \in WebCall /\ site.active # NoWebCall
         /\ UNCHANGED <<popups, scripts, scope, webPast, webRefs, siteTurns>>
         /\ site'.doc = site.doc /\ site'.rev = site.rev /\ site'.refs = site.refs
         /\ site'.active = NoWebCall /\ ~site'.aborted
         /\ \/ site.aborted /\ UNCHANGED <<webCalls, webWorker>>
            \/ /\ ~site.aborted /\ CallsEnd({site.active}, {"completed", "uncertain"})
               /\ TabGiven({site.active})
<1> USE DEF WebTypeOK
<1>1. /\ site.active \in WebCall /\ site.active # NoWebCall
      /\ UNCHANGED <<popups, scripts, scope, webPast, webRefs, siteTurns>>
      /\ site' = [site EXCEPT !.active = NoWebCall, !.aborted = FALSE]
  BY DEF CallbackSettles, SiteOK
<1>2. PopupsOK' /\ ScriptsOK' /\ ScopeOK' /\ PastOK' /\ CountsOK'
  BY <1>1 DEF PopupsOK, ScriptsOK, ScopeOK, PastOK, CountsOK
<1>3. /\ SiteOK' /\ site'.doc = site.doc /\ site'.rev = site.rev /\ site'.refs = site.refs
      /\ site'.active = NoWebCall /\ ~site'.aborted
  BY <1>1 DEF SiteOK
<1>4. CASE site.aborted
  <2>1. UNCHANGED <<webCalls, webWorker>>
    BY <1>4 DEF CallbackSettles
  <2> QED
    BY <1>1, <1>2, <1>3, <1>4, <2>1 DEF CallsOK, WorkerOK
<1>5. CASE ~site.aborted
  <2>1. CallEnds(site.active, answer)
    BY <1>5 DEF CallbackSettles
  <2>2. PICK q \in WebCall : q = site.active
    BY <1>1
  <2>3. CallsOK' /\ WorkerOK' /\ CallsEnd({q}, {answer}) /\ TabGiven({q})
    BY <2>1, <2>2, EndsDoes DEF Answer
  <2>4. CallsEnd({q}, {"completed", "uncertain"})
    BY <2>3 DEF CallsEnd
  <2> QED
    BY <1>1, <1>2, <1>3, <1>5, <2>2, <2>3, <2>4
<1> QED
  BY <1>4, <1>5

LEMMA TimesOutDoes ==
  ASSUME WebTypeOK, TimesOut
  PROVE  /\ WebTypeOK' /\ site.active \in WebCall /\ site.active # NoWebCall /\ ~site.aborted
         /\ UNCHANGED <<popups, scripts, scope, webPast, webRefs, siteTurns>>
         /\ site'.doc = site.doc /\ site'.rev = site.rev /\ site'.refs = site.refs
         /\ site'.active = site.active /\ site'.aborted
         /\ CallsEnd({site.active}, {"timeout"}) /\ TabGiven({site.active})
<1> USE DEF WebTypeOK
<1>1. /\ site.active \in WebCall /\ site.active # NoWebCall /\ ~site.aborted
      /\ UNCHANGED <<popups, scripts, scope, webPast, webRefs, siteTurns>>
      /\ site' = [site EXCEPT !.aborted = TRUE] /\ CallEnds(site.active, "timeout")
  BY DEF TimesOut, SiteOK
<1>2. PopupsOK' /\ ScriptsOK' /\ ScopeOK' /\ PastOK' /\ CountsOK'
  BY <1>1 DEF PopupsOK, ScriptsOK, ScopeOK, PastOK, CountsOK
<1>3. /\ SiteOK' /\ site'.doc = site.doc /\ site'.rev = site.rev /\ site'.refs = site.refs
      /\ site'.active = site.active /\ site'.aborted
  BY <1>1 DEF SiteOK
<1>4. PICK q \in WebCall : q = site.active
  BY <1>1
<1>5. CallsOK' /\ WorkerOK' /\ CallsEnd({q}, {"timeout"}) /\ TabGiven({q})
  BY <1>1, <1>4, EndsDoes DEF Answer
<1> QED
  BY <1>1, <1>2, <1>3, <1>4, <1>5

\* The page, the browser and the user.
LEMMA ToolChangesDoes ==
  ASSUME WebTypeOK, ToolChanges
  PROVE  WebTypeOK' /\ SiteKeeps /\ UNCHANGED <<webCalls, webWorker, popups, scripts, scope, webPast, webRefs>>
<1> USE DEF WebTypeOK
<1>1. /\ UNCHANGED <<webCalls, webWorker, popups, scripts, scope, webPast, webRefs>>
      /\ siteTurns' = siteTurns + 1
  BY DEF ToolChanges, SiteTurn
<1>2. PICK tool \in Nat : site' = [site EXCEPT !.tool = tool, !.told = FALSE]
  BY DEF ToolChanges, NoTool
<1>3. /\ SiteOK' /\ site'.doc = site.doc /\ site'.rev = site.rev /\ site'.refs = site.refs
      /\ site'.active = site.active
  BY <1>2 DEF SiteOK
<1>4. site'.aborted <=> site.aborted
  BY <1>2 DEF SiteOK
<1> QED
  BY <1>1, <1>3, <1>4 DEF SiteKeeps, CallsOK, WorkerOK, PopupsOK, ScriptsOK, ScopeOK, PastOK, CountsOK

LEMMA ToolToldDoes ==
  ASSUME WebTypeOK, ToolTold
  PROVE  /\ WebTypeOK' /\ site'.doc = site.doc /\ site'.rev = site.rev + 1 /\ site'.refs = {}
         /\ site'.active = site.active
         /\ site'.aborted <=> site.aborted
         /\ UNCHANGED <<webCalls, webWorker, popups, scripts, scope, webPast, webRefs, siteTurns>>
<1> USE DEF WebTypeOK
<1>1. UNCHANGED <<webCalls, webWorker, popups, scripts, scope, webPast, webRefs, siteTurns>>
  BY DEF ToolTold
<1>2. PICK n \in Nat : n = site.rev + 1
  BY DEF SiteOK
<1>3. site' = [[site EXCEPT !.refs = {}, !.rev = n] EXCEPT !.told = TRUE]
  BY <1>2 DEF ToolTold, Invalidated
<1>4. SiteOK' /\ site'.doc = site.doc /\ site'.rev = n /\ site'.refs = {} /\ site'.active = site.active
  BY <1>3 DEF SiteOK
<1>5. site'.aborted <=> site.aborted
  BY <1>3 DEF SiteOK
<1> QED
  BY <1>1, <1>2, <1>4, <1>5 DEF CallsOK, WorkerOK, PopupsOK, ScriptsOK, ScopeOK, PastOK, CountsOK

\* A load ends what runs in the document, and what it was asked for.
InPage(q, loads) == loads /\ webCalls[q].at \in {"running", "execute", "list", "get"}
LEMMA NavigatesDoes ==
  ASSUME WebTypeOK, NEW moves \in BOOLEAN, NEW loads \in BOOLEAN, Navigates(moves, loads),
         NEW gone, gone = {q \in WebCall : InPage(q, loads)}
  PROVE  /\ WebTypeOK' /\ UNCHANGED <<popups, scripts, webPast, webRefs>>
         /\ scope'.cleanup /\ scope'.grant = scope.grant
         /\ CallsEnd(gone, {"uncertain", "unavailable"}) /\ TabGiven(gone)
         /\ \A q \in gone : webCalls[q].at = "running" => webCalls'[q].answer = "uncertain"
         /\ \/ /\ loads /\ site'.doc = site.doc + 1 /\ site'.rev = 0 /\ site'.refs = {}
               /\ site'.active = NoWebCall /\ ~site'.aborted
            \/ ~loads /\ SiteKeeps
<1> USE DEF WebTypeOK
<1> DEFINE left == {q \in WebCall : loads /\ (At(q, "running") \/ At(q, "execute"))}
           lost == {q \in WebCall : loads /\ (At(q, "list") \/ At(q, "get"))}
           url == IF moves THEN 3 - site.url ELSE site.url
<1>1. /\ UNCHANGED <<popups, scripts, webPast, webRefs>> /\ siteTurns' = siteTurns + 1
      /\ scope' = [scope EXCEPT !.cleanup = TRUE]
      /\ site' = IF loads THEN Document(site.doc + 1, url, 1) ELSE [site EXCEPT !.url = url]
      /\ webCalls' = [q \in WebCall |-> CASE q \in left -> Ended(webCalls[q], "uncertain")
                                          [] q \in lost -> Ended(webCalls[q], "unavailable")
                                          [] OTHER -> webCalls[q]]
      /\ webWorker' = [webWorker EXCEPT !.executing =
             @ /\ ~\E q \in left \union lost : Of(q) /\ webCalls[q].op = "execute"]
  BY DEF Navigates, SiteTurn
<1>2. PopupsOK' /\ ScriptsOK' /\ PastOK' /\ CountsOK'
  BY <1>1 DEF PopupsOK, ScriptsOK, PastOK, CountsOK
<1>3. ScopeOK' /\ scope'.cleanup /\ scope'.grant = scope.grant
  BY <1>1 DEF ScopeOK
<1>4. gone = left \union lost /\ left \cap lost = {}
  BY DEF InPage, At
<1>5. url \in {1, 2}
  BY DEF SiteOK
<1>6. SiteOK' /\ (\/ /\ loads /\ site'.doc = site.doc + 1 /\ site'.rev = 0 /\ site'.refs = {}
                     /\ site'.active = NoWebCall /\ ~site'.aborted
                  \/ ~loads /\ SiteKeeps)
  <2> HIDE DEF url, left, lost
  <2>1. CASE loads
    <3>1. PICK n \in Nat : n = site.doc + 1
      BY DEF SiteOK
    <3>2. site' = [doc |-> n, url |-> url, tool |-> 1, told |-> TRUE, rev |-> 0, refs |-> {},
                   active |-> NoWebCall, aborted |-> FALSE]
      BY <1>1, <2>1, <3>1 DEF Document
    <3> QED
      BY <1>5, <2>1, <3>1, <3>2 DEF SiteOK
  <2>2. CASE ~loads
    <3>1. site' = [site EXCEPT !.url = url]
      BY <1>1, <2>2
    <3>2. /\ SiteOK' /\ site'.doc = site.doc /\ site'.rev = site.rev /\ site'.refs = site.refs
          /\ site'.active = site.active
      BY <1>5, <3>1 DEF SiteOK
    <3>3. site'.aborted <=> site.aborted
      BY <3>1 DEF SiteOK
    <3> QED
      BY <2>2, <3>2, <3>3 DEF SiteKeeps
  <2> QED
    BY <2>1, <2>2
<1>7. PICK given \in BOOLEAN : given <=> ~\E q \in gone : Of(q) /\ webCalls[q].op = "execute"
  OBVIOUS
<1>8. webWorker' = [webWorker EXCEPT !.executing = @ /\ given]
  BY <1>1, <1>4, <1>7
<1>9. WorkerOK' /\ webWorker'.run = webWorker.run
  BY <1>8 DEF WorkerOK
<1>10. webWorker'.executing <=> webWorker.executing /\ given
  BY <1>8 DEF WorkerOK
<1>11. webWorker'.touched = webWorker.touched
  BY <1>8 DEF WorkerOK
<1>12. TabGiven(gone)
  BY <1>7, <1>9, <1>10, <1>11 DEF TabGiven
<1>13. \A q \in WebCall, a \in {"uncertain", "unavailable"} :
         /\ Ended(webCalls[q], a) \in Call /\ Same(webCalls[q], Ended(webCalls[q], a))
         /\ Ended(webCalls[q], a).at = "done" /\ Ended(webCalls[q], a).answer = a
  BY EndedIs DEF CallsOK, Answer
<1>14. /\ CallsOK' /\ CallsEnd(gone, {"uncertain", "unavailable"})
       /\ \A q \in gone : webCalls[q].at = "running" => webCalls'[q].answer = "uncertain"
  <2>0. \A q \in gone : q \in WebCall /\ (webCalls[q].at = "running" => q \in left)
    BY DEF InPage, At
  <2> HIDE DEF left, lost
  <2>1. \A q \in WebCall : webCalls'[q] = IF q \in left THEN Ended(webCalls[q], "uncertain")
                                          ELSE IF q \in lost THEN Ended(webCalls[q], "unavailable")
                                          ELSE webCalls[q]
    BY <1>1, <1>4
  <2>2. CallsEnd(gone, {"uncertain", "unavailable"})
    BY <1>4, <1>13, <2>1 DEF CallsEnd
  <2>3. \A q \in WebCall : webCalls'[q] \in Call
    BY <1>13, <2>1 DEF CallsOK
  <2>4. CallsOK'
    BY <1>1, <2>3 DEF CallsOK
  <2>5. \A q \in gone : webCalls[q].at = "running" => webCalls'[q].answer = "uncertain"
    BY <1>13, <2>0, <2>1
  <2> QED
    BY <2>2, <2>4, <2>5
<1> QED
  BY <1>1, <1>2, <1>3, <1>6, <1>9, <1>12, <1>14

LEMMA GrantsAccessDoes ==
  ASSUME WebTypeOK, GrantsAccess
  PROVE  /\ WebTypeOK' /\ ~scope.on /\ scope'.grant = scope.grant + 1
         /\ scope'.cleanup <=> scope.cleanup
         /\ UNCHANGED <<webCalls, webWorker, popups, site, scripts, webPast, webRefs>>
<1> USE DEF WebTypeOK
<1>1. /\ ~scope.on /\ UNCHANGED <<webCalls, webWorker, popups, site, scripts, webPast, webRefs>>
      /\ siteTurns' = siteTurns + 1
  BY DEF GrantsAccess, SiteTurn
<1>2. PICK n \in Nat : n = scope.grant + 1
  BY DEF ScopeOK
<1>3. scope' = [scope EXCEPT !.on = TRUE, !.grant = n]
  BY <1>2 DEF GrantsAccess
<1>4. ScopeOK' /\ scope'.grant = n
  BY <1>3 DEF ScopeOK
<1>5. scope'.cleanup <=> scope.cleanup
  BY <1>3 DEF ScopeOK
<1> QED
  BY <1>1, <1>2, <1>4, <1>5 DEF CallsOK, WorkerOK, PopupsOK, SiteOK, ScriptsOK, PastOK, CountsOK

LEMMA ClearsTabDoes ==
  ASSUME WebTypeOK, ClearsTab
  PROVE  /\ WebTypeOK' /\ scope.cleanup /\ ~scope'.cleanup /\ scope'.grant = scope.grant
         /\ scope'.on <=> scope.on
         /\ UNCHANGED <<site, webPast, webRefs, siteTurns>>
         /\ CallsEnd(Asked(WebCall), {"denied"}) /\ popups'.open = popups.open \ Asked(WebCall)
         /\ webWorker'.executing <=> webWorker.executing /\ Asked(WebCall) = {}
         /\ webWorker'.run = webWorker.run /\ ~webWorker'.touched
         /\ IF webWorker.touched THEN Sends(NoWebCall, "clear", 0) ELSE UNCHANGED scripts
<1> USE DEF WebTypeOK
<1> DEFINE asked == Asked(WebCall)
<1>1. /\ scope.cleanup /\ scope' = [scope EXCEPT !.cleanup = FALSE]
      /\ webCalls' = [q \in WebCall |-> IF q \in asked THEN Ended(webCalls[q], "denied") ELSE webCalls[q]]
      /\ webWorker' = [webWorker EXCEPT !.executing = @ /\ asked = {}, !.touched = FALSE]
      /\ popups' = [popups EXCEPT !.open = @ \ asked]
      /\ IF webWorker.touched THEN Sends(NoWebCall, "clear", 0) ELSE UNCHANGED scripts
      /\ UNCHANGED <<site, webPast, webRefs, siteTurns>>
  BY DEF ClearsTab, Asked
<1>2. asked \subseteq WebCall
  BY DEF Asked
<1> HIDE DEF asked
<1>3. SiteOK' /\ PastOK' /\ CountsOK'
  BY <1>1 DEF SiteOK, PastOK, CountsOK
<1>4. ScopeOK' /\ ~scope'.cleanup /\ scope'.grant = scope.grant
  BY <1>1 DEF ScopeOK
<1>5. scope'.on <=> scope.on
  BY <1>1 DEF ScopeOK
<1>6. PICK none \in BOOLEAN : none <=> asked = {}
  OBVIOUS
<1>7. webWorker' = [webWorker EXCEPT !.executing = @ /\ none, !.touched = FALSE]
  BY <1>1, <1>6
<1>8. WorkerOK' /\ webWorker'.run = webWorker.run /\ ~webWorker'.touched
  BY <1>7 DEF WorkerOK
<1>9. webWorker'.executing <=> webWorker.executing /\ none
  BY <1>7 DEF WorkerOK
<1>10. PopupsOK' /\ popups'.open = popups.open \ asked
  BY <1>1, <1>2 DEF PopupsOK
<1>11. \A q \in WebCall : /\ Ended(webCalls[q], "denied") \in Call /\ Same(webCalls[q], Ended(webCalls[q], "denied"))
                        /\ Ended(webCalls[q], "denied").at = "done" /\ Ended(webCalls[q], "denied").answer = "denied"
  BY EndedIs DEF CallsOK, Answer
<1>12. CallsOK'
  BY <1>1, <1>11 DEF CallsOK
<1>13. CallsEnd(asked, {"denied"})
  BY <1>1, <1>11 DEF CallsEnd
<1>14. ScriptsOK'
  <2>1. CASE webWorker.touched
    BY <1>1, <2>1, AppendedIs DEF Sends, Script
  <2>2. CASE ~webWorker.touched
    BY <1>1, <2>2 DEF ScriptsOK
  <2> QED
    BY <2>1, <2>2
<1> QED
  BY <1>1, <1>3, <1>4, <1>5, <1>6, <1>8, <1>9, <1>10, <1>12, <1>13, <1>14 DEF asked

\* Calls the worker is at end with it; what was sent is still to come.
LEMMA WorkerStopsDoes ==
  ASSUME WebTypeOK, WorkerStops,
         NEW gone, gone = {q \in WebCall : webCalls[q].at \in {"resolving", "got", "approving", "rechecking"}}
  PROVE  /\ WebTypeOK' /\ UNCHANGED <<site, scripts, webRefs>>
         /\ CallsEnd(gone, {"none"}) /\ popups'.open = popups.open
         /\ webWorker'.run = webWorker.run + 1 /\ ~webWorker'.executing
         /\ webPast'.dropped = webPast.dropped \union {q \in WebCall : ~At(q, "new")}
         /\ webPast'.approved = webPast.approved /\ webPast'.dispatched = webPast.dispatched
         /\ webPast'.canceled = webPast.canceled /\ scope'.grant = scope.grant
<1> USE DEF WebTypeOK
<1> DEFINE old == {q \in WebCall : ~At(q, "new")}
<1>1. /\ UNCHANGED <<site, scripts, webRefs>> /\ siteTurns' = siteTurns + 1
      /\ webCalls' = [q \in WebCall |-> IF q \in gone THEN Ended(webCalls[q], "none") ELSE webCalls[q]]
      /\ webWorker' = [run |-> webWorker.run + 1, executing |-> FALSE, touched |-> FALSE]
      /\ webPast' = [webPast EXCEPT !.dropped = @ \union old]
      /\ popups' = [popups EXCEPT !.opening = {}] /\ scope' = [scope EXCEPT !.cleanup = FALSE]
  BY DEF WorkerStops, SiteTurn
<1>2. old \subseteq WebCall /\ gone \subseteq WebCall
  OBVIOUS
<1>3. SiteOK' /\ ScriptsOK' /\ CountsOK'
  BY <1>1 DEF SiteOK, ScriptsOK, CountsOK
<1> HIDE DEF old
<1>4. /\ PastOK' /\ webPast'.dropped = webPast.dropped \union old /\ webPast'.approved = webPast.approved
      /\ webPast'.dispatched = webPast.dispatched /\ webPast'.canceled = webPast.canceled
  BY <1>1, <1>2 DEF PastOK
<1>5. PopupsOK' /\ popups'.open = popups.open
  BY <1>1 DEF PopupsOK
<1>6. ScopeOK' /\ scope'.grant = scope.grant
  BY <1>1 DEF ScopeOK
<1>7. WorkerOK' /\ webWorker'.run = webWorker.run + 1 /\ ~webWorker'.executing
  BY <1>1 DEF WorkerOK
<1>8. \A q \in WebCall : /\ Ended(webCalls[q], "none") \in Call /\ Same(webCalls[q], Ended(webCalls[q], "none"))
                        /\ Ended(webCalls[q], "none").at = "done" /\ Ended(webCalls[q], "none").answer = "none"
  BY EndedIs DEF CallsOK, Answer
<1>9. CallsOK'
  BY <1>1, <1>8 DEF CallsOK
<1>10. CallsEnd(gone, {"none"})
  BY <1>1, <1>8 DEF CallsEnd
<1> QED
  BY <1>1, <1>3, <1>4, <1>5, <1>6, <1>7, <1>9, <1>10 DEF old

-----------------------------------------------------------------------------
(* Calls keep what they are.                                                *)

\* What the calls that stay need of a step: sessions grow older, references more, and
\* the document of those that are in it stays.
FrameKeeps ==
    /\ webWorker'.run = webWorker.run /\ scope'.grant >= scope.grant
    /\ webPast'.dropped = webPast.dropped /\ webRefs' >= webRefs
DocumentKeeps == site'.doc = site.doc /\ site'.rev >= site.rev

\* What the types say of counters, and of a call.
LEMMA CountsTyped ==
  ASSUME WebTypeOK
  PROVE  /\ webWorker.run \in Nat /\ scope.grant \in Nat /\ site.rev \in Nat /\ site.doc \in Nat
         /\ webRefs \in Nat
  BY DEF WebTypeOK, WorkerOK, ScopeOK, SiteOK, CountsOK

LEMMA CallTyped ==
  ASSUME WebTypeOK, NEW q \in WebCall
  PROVE  /\ webCalls[q] \in Call /\ webCalls[q].ref \in Nat /\ webCalls[q].rev \in Nat
         /\ webCalls[q].doc \in Nat /\ webCalls[q].tool \in Nat /\ webCalls[q].at \in CallState
         /\ webCalls[q].op \in {"none", "list", "execute"}
  BY DEF WebTypeOK, CallsOK, Call

\* A call that stays, one that ends and one that goes on keep what it is.
LEMMA OthersFit ==
  ASSUME WebTypeOK, WebTypeOK', FrameKeeps, NEW p \in WebCall, CallAgrees(p),
         webCalls'[p] = webCalls[p], webCalls[p].at \in InDocument => DocumentKeeps
  PROVE  CallAgrees(p)'
<1>1. scope'.grant \in Nat /\ site'.rev \in Nat /\ webRefs' \in Nat
  BY DEF WebTypeOK, ScopeOK, SiteOK, CountsOK
<1>2. PICK c : c = webCalls[p]
  OBVIOUS
<1>3. c.ref \in Nat /\ c.rev \in Nat
  BY <1>2, CallTyped
<1>4. webCalls'[p] = c
  BY <1>2
<1>5. Of(p) => Of(p)'
  BY DEF Of, FrameKeeps
<1>6. Known(c.key) => Known(c.key)'
  BY <1>1, CountsTyped DEF Known, FrameKeeps
<1>7. c.ref <= webRefs => c.ref <= webRefs'
  BY <1>1, <1>3, CountsTyped DEF FrameKeeps
<1>8. c.rev <= site.rev /\ DocumentKeeps => c.rev <= site'.rev
  BY <1>1, <1>3, CountsTyped DEF DocumentKeeps
<1>9. c.at \in InDocument => DocumentKeeps
  BY <1>2
<1> QED
  BY <1>2, <1>4, <1>5, <1>6, <1>7, <1>8, <1>9 DEF CallAgrees, FrameKeeps, DocumentKeeps

LEMMA EndedFit ==
  ASSUME WebTypeOK, WebTypeOK', FrameKeeps, NEW p \in WebCall, CallAgrees(p),
         webCalls[p].at # "new", webCalls'[p].at = "done", Same(webCalls[p], webCalls'[p])
  PROVE  CallAgrees(p)'
<1>1. webRefs' \in Nat /\ webCalls[p].ref <= webRefs'
  BY CallTyped, CountsTyped DEF WebTypeOK, CountsOK, FrameKeeps, CallAgrees
<1> QED
  BY <1>1 DEF CallAgrees, FrameKeeps, InSession, InDocument, Same

\* A call that goes on to a state of the same kind.
LEMMA GoneOnFits ==
  ASSUME WebTypeOK, WebTypeOK', FrameKeeps, NEW q \in WebCall, CallAgrees(q), NEW to, CallGoes(q, to),
         \/ /\ webCalls[q].at \in {"got", "approving", "rechecking", "execute"}
            /\ to \in {"approving", "rechecking", "sent", "running"}
            /\ to \in {"approving", "rechecking"} => Of(q)
         \/ to = webCalls[q].at /\ to \in InDocument /\ DocumentKeeps
  PROVE  CallAgrees(q)'
<1>1. scope'.grant \in Nat /\ site'.rev \in Nat /\ webRefs' \in Nat
  BY DEF WebTypeOK, ScopeOK, SiteOK, CountsOK
<1>2. PICK c, d : c = webCalls[q] /\ d = webCalls'[q]
  OBVIOUS
<1>3. c.ref \in Nat /\ c.rev \in Nat
  BY <1>2, CallTyped
<1>4. Same(c, d) /\ d.at = to /\ d.answer = c.answer
  BY <1>2 DEF CallGoes
<1>5. Of(q) => Of(q)'
  BY <1>2, <1>4 DEF Of, FrameKeeps, Same
<1>6. Known(c.key) => Known(d.key)'
  BY <1>1, <1>4, CountsTyped DEF Known, FrameKeeps, Same
<1>7. c.ref <= webRefs => d.ref <= webRefs'
  BY <1>1, <1>3, <1>4, CountsTyped DEF FrameKeeps, Same
<1>8. c.rev <= site.rev /\ DocumentKeeps => d.rev <= site'.rev
  BY <1>1, <1>3, <1>4, CountsTyped DEF DocumentKeeps, Same
<1> QED
  BY <1>2, <1>4, <1>5, <1>6, <1>7, <1>8 DEF CallAgrees, FrameKeeps, DocumentKeeps, Same, InSession, InDocument

LEMMA FrameSame ==
  ASSUME WebTypeOK, webWorker'.run = webWorker.run, scope'.grant = scope.grant,
         webPast'.dropped = webPast.dropped, webRefs' = webRefs
  PROVE  FrameKeeps
  BY CountsTyped DEF FrameKeeps

LEMMA DocumentSame ==
  ASSUME WebTypeOK, site'.doc = site.doc, site'.rev = site.rev
  PROVE  DocumentKeeps
  BY CountsTyped DEF DocumentKeeps

-----------------------------------------------------------------------------
(* Scripts, references and leftovers.                                       *)

\* A step that sends and runs no script, makes no reference and starts no callback.
Fades == \A k : LeftBehind(k)' => LeftBehind(k)
Quiet ==
    /\ scripts' = scripts /\ site'.refs \subseteq site.refs /\ site'.doc >= 1
    /\ \A p \in WebCall :
         /\ webCalls[p].at = "sent" => webCalls'[p] = webCalls[p]
         /\ webCalls'[p].tool # NoTool =>
              webCalls'[p].tool = webCalls[p].tool /\ webCalls'[p].ref = webCalls[p].ref
         /\ webCalls'[p].at \in {"running", "list"} =>
              webCalls'[p].at = webCalls[p].at /\ webCalls'[p].key = webCalls[p].key
         /\ webCalls'[p].at = "list" /\ webCalls'[p].rev = site'.rev => webCalls[p].rev = site.rev
    /\ Fades

LEMMA KnownStays ==
  ASSUME WebTypeOK, WebTypeOK', FrameKeeps, NEW k, Known(k)
  PROVE  Known(k)'
<1>1. scope'.grant \in Nat
  BY DEF WebTypeOK, ScopeOK
<1>2. PICK g \in Nat, h \in Nat : g = scope.grant /\ h = scope'.grant /\ h >= g
  BY <1>1, CountsTyped DEF FrameKeeps
<1>3. k # <<>> /\ k[2] \in Nat /\ k[2] <= g
  BY <1>2 DEF Known
<1>4. k[2] <= h
  BY <1>2, <1>3
<1> QED
  BY <1>2, <1>3, <1>4 DEF Known

\* References that stay are still one tool's.
LEMMA ReferencesStay ==
  ASSUME WebTypeOK, WebTypeOK', FrameKeeps, ReferencesAgree,
         site'.refs \subseteq site.refs, site'.doc >= 1,
         \A p \in WebCall : webCalls'[p].tool # NoTool =>
           webCalls'[p].tool = webCalls[p].tool /\ webCalls'[p].ref = webCalls[p].ref
  PROVE  ReferencesAgree'
<1>1. ASSUME NEW r \in site'.refs
      PROVE  /\ r.id <= webRefs' /\ r.tool # NoTool /\ Known(r.key)' /\ r.key[1] \in Nat
             /\ r.key[1] <= webWorker'.run
  <2>1. r \in site.refs
    OBVIOUS
  <2>2. r.id <= webRefs /\ r.tool # NoTool /\ Known(r.key) /\ r.key[1] \in Nat /\ r.key[1] <= webWorker.run
    BY <2>1 DEF ReferencesAgree
  <2>3. r.id \in Nat /\ webRefs' \in Nat
    BY <2>1 DEF WebTypeOK, SiteOK, Reference, CountsOK
  <2>4. r.id <= webRefs'
    BY <2>2, <2>3, CountsTyped DEF FrameKeeps
  <2>5. Known(r.key)'
    <3>1. PICK k : k = r.key
      OBVIOUS
    <3>2. Known(k)'
      BY <2>2, <3>1, KnownStays
    <3> QED
      BY <3>1, <3>2 DEF Known
  <2> QED
    BY <2>2, <2>4, <2>5 DEF FrameKeeps
<1>2. \A r, s \in site'.refs : r.id = s.id => r = s
  BY DEF ReferencesAgree
<1>3. \A q \in WebCall : webCalls'[q].tool # NoTool =>
        \A r \in site'.refs : r.id = webCalls'[q].ref => r.tool = webCalls'[q].tool
  BY DEF ReferencesAgree
<1> QED
  BY <1>1, <1>2, <1>3 DEF ReferencesAgree

LEMMA QuietKeeps ==
  ASSUME WebToolsInv, WebTypeOK', FrameKeeps, Quiet
  PROVE  ScriptsAgree' /\ ReferencesAgree' /\ LeftoversCleared'
<1> USE DEF WebToolsInv
<1>1. ScriptsAgree'
  BY DEF ScriptsAgree, Quiet
<1>2. ReferencesAgree'
  BY ReferencesStay DEF Quiet
<1>3. ClearingAfter(0) => ClearingAfter(0)'
  BY DEF ClearingAfter, Quiet
<1>4. ASSUME NEW q \in WebCall, At(q, "running")', LeftBehind(webCalls[q].key)'
      PROVE  ClearingAfter(0)'
  <2>1. At(q, "running") /\ webCalls'[q].key = webCalls[q].key
    BY <1>4 DEF Quiet, At
  <2>2. LeftBehind(webCalls[q].key)
    BY <1>4, <2>1 DEF Quiet, Fades
  <2> QED
    BY <1>3, <2>1, <2>2 DEF LeftoversCleared
<1>5. ASSUME NEW q \in WebCall, At(q, "list")', CatalogStands(q)', LeftBehind(webCalls[q].key)'
      PROVE  ClearingAfter(0)'
  <2>1. At(q, "list") /\ CatalogStands(q) /\ webCalls'[q].key = webCalls[q].key
    BY <1>5 DEF Quiet, At, CatalogStands
  <2>2. LeftBehind(webCalls[q].key)
    BY <1>5, <2>1 DEF Quiet, Fades
  <2> QED
    BY <1>3, <2>1, <2>2 DEF LeftoversCleared
<1>6. ASSUME NEW i \in DOMAIN scripts', scripts'[i].part = "list", LeftBehind(webCalls[scripts[i].call].key)'
      PROVE  ClearingAfter(i)'
  <2>1. i \in DOMAIN scripts /\ scripts' = scripts
    BY DEF Quiet
  <2>2. webCalls'[scripts[i].call] = webCalls[scripts[i].call]
    BY <1>6, <2>1 DEF Quiet, ScriptsAgree
  <2>3. LeftBehind(webCalls[scripts[i].call].key)
    BY <1>6, <2>1, <2>2 DEF Quiet, Fades
  <2>4. ClearingAfter(i)
    BY <1>6, <2>1, <2>3 DEF LeftoversCleared
  <2> QED
    BY <2>1, <2>4 DEF ClearingAfter
<1>7. ASSUME NEW r \in site'.refs, LeftBehind(r.key)' PROVE ClearingAfter(0)'
  BY <1>3, <1>7 DEF Quiet, Fades, LeftoversCleared
<1>8. LeftoversCleared'
  BY <1>4, <1>5, <1>6, <1>7 DEF LeftoversCleared
<1> QED
  BY <1>1, <1>2, <1>8

\* Nothing more is left behind by a step that keeps the worker's run and the tab's use.
LEMMA FadesIf ==
  ASSUME webWorker'.run = webWorker.run, webWorker.touched => webWorker'.touched,
         \/ scope'.cleanup
         \/ scope' = scope
         \/ (scope'.cleanup <=> scope.cleanup) /\ (scope'.on <=> scope.on) /\ scope'.grant = scope.grant
         \/ (scope'.cleanup <=> scope.cleanup) /\ ~scope.on
  PROVE  Fades
BY DEF Fades, LeftBehind

\* Calls only end, none that waits for a script.
LEMMA EndsQuiet ==
  ASSUME WebToolsInv, NEW qs, NEW answers, CallsEnd(qs, answers), \A p \in qs : webCalls[p].at # "sent",
         scripts' = scripts, site'.refs \subseteq site.refs, site'.doc >= 1,
         \A p \in WebCall \ qs : webCalls[p].at = "list" /\ webCalls[p].rev = site'.rev => webCalls[p].rev = site.rev,
         Fades
  PROVE  Quiet
<1> USE DEF WebToolsInv
<1>1. ASSUME NEW p \in WebCall
      PROVE  /\ webCalls[p].at = "sent" => webCalls'[p] = webCalls[p]
             /\ webCalls'[p].tool # NoTool =>
                  webCalls'[p].tool = webCalls[p].tool /\ webCalls'[p].ref = webCalls[p].ref
             /\ webCalls'[p].at \in {"running", "list"} =>
                  webCalls'[p].at = webCalls[p].at /\ webCalls'[p].key = webCalls[p].key
             /\ webCalls'[p].at = "list" /\ webCalls'[p].rev = site'.rev => webCalls[p].rev = site.rev
  <2>1. CASE p \in qs
    BY <2>1 DEF CallsEnd, Same
  <2>2. CASE p \notin qs
    BY <2>2 DEF CallsEnd
  <2> QED
    BY <2>1, <2>2
<1> QED
  BY <1>1 DEF Quiet

LEMMA GoesQuiet ==
  ASSUME WebToolsInv, NEW q \in WebCall, NEW to, CallGoes(q, to), webCalls[q].at # "sent",
         to \in {"running", "list"} => to = webCalls[q].at,
         scripts' = scripts, site' = site, Fades
  PROVE  Quiet
<1> USE DEF WebToolsInv
<1>1. ASSUME NEW p \in WebCall
      PROVE  /\ webCalls[p].at = "sent" => webCalls'[p] = webCalls[p]
             /\ webCalls'[p].tool # NoTool =>
                  webCalls'[p].tool = webCalls[p].tool /\ webCalls'[p].ref = webCalls[p].ref
             /\ webCalls'[p].at \in {"running", "list"} =>
                  webCalls'[p].at = webCalls[p].at /\ webCalls'[p].key = webCalls[p].key
             /\ webCalls'[p].at = "list" /\ webCalls'[p].rev = site'.rev => webCalls[p].rev = site.rev
  <2>1. CASE p = q
    BY <2>1 DEF CallGoes, Same
  <2>2. CASE p # q
    BY <2>2 DEF CallGoes
  <2> QED
    BY <2>1, <2>2
<1> QED
  BY <1>1 DEF Quiet, ReferencesAgree

-----------------------------------------------------------------------------
(* The tab, the prompts and the dispatches.                                 *)

\* The tab is given back by the calls that end.
LEMMA TabOfEnds ==
  ASSUME TabAgrees, NEW qs \in SUBSET WebCall, NEW answers, CallsEnd(qs, answers), webWorker'.run = webWorker.run,
         webWorker'.executing <=> webWorker.executing /\ ~\E q \in qs : Busy(q)
  PROVE  TabAgrees'
<1>1. ASSUME NEW p \in WebCall PROVE Busy(p)' <=> Busy(p) /\ p \notin qs
  <2>1. CASE p \in qs
    BY <2>1 DEF CallsEnd, Busy, At
  <2>2. CASE p \notin qs
    BY <2>2 DEF CallsEnd, Busy, Of, At
  <2> QED
    BY <2>1, <2>2
<1>2. \A p, q \in WebCall : Busy(p)' /\ Busy(q)' => p = q
  BY <1>1 DEF TabAgrees
<1>3. webWorker'.executing <=> \E q \in WebCall : Busy(q)'
  BY <1>1 DEF TabAgrees
<1> QED
  BY <1>2, <1>3 DEF TabAgrees

LEMMA TabOfGiven ==
  ASSUME TabAgrees, NEW qs \in SUBSET WebCall, NEW answers, CallsEnd(qs, answers), TabGiven(qs),
         \A q \in qs : webCalls[q].at \notin {"resolving", "done"}
  PROVE  TabAgrees'
<1>1. \A q \in qs : Busy(q) <=> webCalls[q].op = "execute" /\ Of(q)
  BY DEF Busy, At
<1>2. /\ webWorker'.run = webWorker.run
      /\ webWorker'.executing <=> webWorker.executing /\ ~\E q \in qs : Busy(q)
  BY <1>1 DEF TabGiven
<1> QED
  BY <1>2, TabOfEnds

\* A denial gives the tab back: whoever is asked holds it.
LEMMA TabOfDenial ==
  ASSUME WebToolsInv, NEW qs \in SUBSET WebCall, CallsEnd(Asked(qs), {"denied"}), webWorker'.run = webWorker.run,
         webWorker'.executing <=> webWorker.executing /\ Asked(qs) = {}
  PROVE  TabAgrees'
<1> USE DEF WebToolsInv
<1>1. PICK asked \in SUBSET WebCall : asked = Asked(qs)
  BY DEF Asked
<1>2. \A q \in asked : Busy(q)
  BY <1>1 DEF Asked, CallsAgree, CallAgrees, Busy, At
<1>3. webWorker'.executing <=> webWorker.executing /\ ~\E q \in asked : Busy(q)
  BY <1>1, <1>2
<1> QED
  BY <1>1, <1>3, TabOfEnds

\* A call that goes on keeps the tab.
LEMMA TabOfGoing ==
  ASSUME TabAgrees, NEW q \in WebCall, NEW to, CallGoes(q, to), webCalls[q].at \notin {"resolving", "done"},
         to \notin {"resolving", "done"}, UNCHANGED webWorker
  PROVE  TabAgrees'
<1>1. ASSUME NEW p \in WebCall PROVE Busy(p)' <=> Busy(p)
  <2>1. CASE p = q
    BY <2>1 DEF CallGoes, Same, Busy, Of, At
  <2>2. CASE p # q
    BY <2>2 DEF CallGoes, Busy, Of, At
  <2> QED
    BY <2>1, <2>2
<1> QED
  BY <1>1 DEF TabAgrees

\* Prompts go with the calls that are asked; other calls leave them up.
LEMMA PromptsStay ==
  ASSUME PromptsAgree, PopupsOK, popups'.open \subseteq popups.open, webPast.dropped \subseteq webPast'.dropped,
         \A p \in popups'.open : webCalls[p].at = "approving" =>
           webCalls'[p].at = "approving" \/ p \in webPast'.dropped
  PROVE  PromptsAgree'
BY DEF PromptsAgree, At, PopupsOK

\* What a call's end, or its way on, means for the history.
OutcomesOf == {"completed", "timeout", "cancelled"}
LEMMA DispatchesOfEnds ==
  ASSUME WebToolsInv, NEW qs \in SUBSET WebCall, NEW answers, CallsEnd(qs, answers),
         \A q \in qs : webCalls[q].at \in {"running", "done"} =>
                         webCalls'[q].answer \in OutcomesOf \union {"none", "uncertain"},
         \A q \in qs : webCalls[q].at # "running" => webCalls'[q].answer \notin OutcomesOf,
         webPast.approved \subseteq webPast'.approved, webPast'.dispatched = webPast.dispatched,
         webPast'.canceled \subseteq webPast.canceled \union {q \in WebCall : Cancelable(q)},
         \A q \in webPast'.canceled : webCalls[q].at = "approving" => q \in qs
  PROVE  DispatchesAgree'
<1> USE DEF WebToolsInv
<1>1. Dispatched' = Dispatched
  BY DEF Dispatched
<1>2. /\ IsFiniteSet(Dispatched) /\ Len(webPast.dispatched) = Cardinality(Dispatched)
      /\ \A i \in DOMAIN webPast.dispatched : webPast.dispatched[i] \in webPast'.approved
  BY DEF DispatchesAgree
<1>3. ASSUME NEW q \in WebCall, webCalls'[q].at \in {"rechecking", "sent", "execute", "running"},
             webCalls'[q].tool # NoTool
      PROVE  <<q, webCalls'[q].tool, webCalls'[q].doc>> \in webPast'.approved
  <2>1. webCalls'[q] = webCalls[q]
    BY <1>3 DEF CallsEnd
  <2> QED
    BY <1>3, <2>1 DEF DispatchesAgree
<1>4. ASSUME NEW q \in Dispatched
      PROVE  /\ webCalls'[q].at \in {"running", "done"}
             /\ webCalls'[q].answer \in {"none", "completed", "uncertain", "timeout", "cancelled"}
  <2>1. /\ webCalls[q].at \in {"running", "done"}
        /\ webCalls[q].answer \in {"none", "completed", "uncertain", "timeout", "cancelled"}
        /\ q \in WebCall
    BY DEF DispatchesAgree, Dispatched, WebTypeOK, PastOK, Use
  <2>2. CASE q \in qs
    BY <2>1, <2>2 DEF CallsEnd, OutcomesOf
  <2>3. CASE q \notin qs
    BY <2>1, <2>3 DEF CallsEnd
  <2> QED
    BY <2>2, <2>3
<1>5. ASSUME NEW q \in WebCall, webCalls'[q].at = "running" \/ webCalls'[q].answer \in OutcomesOf
      PROVE  q \in Dispatched
  <2>1. CASE q \in qs
    BY <1>5, <2>1 DEF CallsEnd, DispatchesAgree
  <2>2. CASE q \notin qs
    BY <1>5, <2>2 DEF CallsEnd, DispatchesAgree, OutcomesOf
  <2> QED
    BY <2>1, <2>2
<1>6. ASSUME NEW q \in webPast'.canceled
      PROVE  /\ q \notin Dispatched
             /\ \/ webCalls'[q].at \in {"resolving", "get", "got", "rechecking", "done"}
                \/ webCalls'[q].at = "sent" /\ PartOf(webCalls'[q]) = "get"
  <2>1. q \in WebCall
    BY DEF WebTypeOK, PastOK
  <2>2. /\ q \notin Dispatched
        /\ \/ webCalls[q].at \in {"resolving", "get", "got", "approving", "rechecking", "done"}
           \/ webCalls[q].at = "sent" /\ PartOf(webCalls[q]) = "get"
    <3>1. CASE q \in webPast.canceled
      BY <3>1 DEF DispatchesAgree
    <3>2. CASE Cancelable(q)
      <4>1. \/ webCalls[q].at \in {"resolving", "get", "got", "approving", "rechecking"}
            \/ webCalls[q].at = "sent" /\ PartOf(webCalls[q]) = "get"
        BY <3>2 DEF Cancelable, ScriptsAgree
      <4> QED
        BY <4>1 DEF DispatchesAgree
    <3> QED
      BY <3>1, <3>2
  <2>3. CASE q \in qs
    BY <2>2, <2>3 DEF CallsEnd
  <2>4. CASE q \notin qs
    BY <2>1, <2>2, <2>4 DEF CallsEnd
  <2> QED
    BY <2>2, <2>3, <2>4
<1> QED
  BY <1>1, <1>2, <1>3, <1>4, <1>5, <1>6 DEF DispatchesAgree, OutcomesOf

LEMMA DispatchesOfGoing ==
  ASSUME WebToolsInv, NEW q \in WebCall, \A p \in WebCall \ {q} : webCalls'[p] = webCalls[p],
         webCalls[q].at \notin {"running", "done"}, webCalls'[q].at # "running",
         webCalls'[q].answer = webCalls[q].answer,
         webCalls'[q].at \in {"rechecking", "sent", "execute"} /\ webCalls'[q].tool # NoTool =>
           <<q, webCalls'[q].tool, webCalls'[q].doc>> \in webPast'.approved,
         q \in webPast.canceled => webCalls'[q].at \in {"resolving", "get", "got", "rechecking"},
         webPast.approved \subseteq webPast'.approved, webPast'.dispatched = webPast.dispatched,
         webPast'.canceled = webPast.canceled
  PROVE  DispatchesAgree'
<1> USE DEF WebToolsInv
<1>1. Dispatched' = Dispatched
  BY DEF Dispatched
<1>2. /\ IsFiniteSet(Dispatched) /\ Len(webPast.dispatched) = Cardinality(Dispatched)
      /\ \A i \in DOMAIN webPast.dispatched : webPast.dispatched[i] \in webPast'.approved
  BY DEF DispatchesAgree
<1>3. q \notin Dispatched /\ webCalls'[q].answer = "none"
  BY DEF DispatchesAgree, CallsAgree, CallAgrees
<1>4. \A p \in Dispatched : p \in WebCall /\ webCalls'[p] = webCalls[p]
  BY <1>3 DEF Dispatched, WebTypeOK, PastOK, Use
<1>5. ASSUME NEW p \in WebCall, webCalls'[p].at \in {"rechecking", "sent", "execute", "running"},
             webCalls'[p].tool # NoTool
      PROVE  <<p, webCalls'[p].tool, webCalls'[p].doc>> \in webPast'.approved
  <2>1. CASE p = q
    BY <1>5, <2>1
  <2>2. CASE p # q
    <3>1. webCalls'[p] = webCalls[p]
      BY <2>2
    <3> QED
      BY <1>5, <3>1 DEF DispatchesAgree
  <2> QED
    BY <2>1, <2>2
<1>6. \A p \in Dispatched : /\ webCalls'[p].at \in {"running", "done"}
                            /\ webCalls'[p].answer \in {"none", "completed", "uncertain", "timeout", "cancelled"}
  BY <1>4 DEF DispatchesAgree
<1>7. \A p \in WebCall : webCalls'[p].at = "running" \/ webCalls'[p].answer \in {"completed", "timeout", "cancelled"}
        => p \in Dispatched
  BY <1>3 DEF DispatchesAgree
<1>8. ASSUME NEW p \in webPast'.canceled
      PROVE  /\ p \notin Dispatched
             /\ \/ webCalls'[p].at \in {"resolving", "get", "got", "rechecking", "done"}
                \/ webCalls'[p].at = "sent" /\ PartOf(webCalls'[p]) = "get"
  <2>1. CASE p = q
    BY <1>3, <2>1
  <2>2. CASE p # q
    <3>1. webCalls'[p] = webCalls[p]
      BY <2>2 DEF WebTypeOK, PastOK
    <3> QED
      BY <3>1 DEF DispatchesAgree
  <2> QED
    BY <2>1, <2>2
<1> QED
  BY <1>1, <1>2, <1>5, <1>6, <1>7, <1>8 DEF DispatchesAgree

-----------------------------------------------------------------------------
(* The forms of a step.                                                     *)

Rest == ScriptsAgree /\ ReferencesAgree /\ DispatchesAgree /\ TabAgrees /\ PromptsAgree /\ LeftoversCleared
PastSame ==
    /\ webPast'.approved = webPast.approved /\ webPast'.dispatched = webPast.dispatched
    /\ webPast'.canceled = webPast.canceled /\ webPast'.dropped = webPast.dropped
SiteSmaller ==
    /\ site'.refs \subseteq site.refs /\ site'.doc >= 1
    /\ \A p \in WebCall : webCalls'[p].at = "list" /\ webCalls'[p].rev = site'.rev => webCalls[p].rev = site.rev

\* Calls end that hold the tab or only use the document, no one that is asked.
LEMMA EachEndKeeps ==
  ASSUME WebToolsInv, WebTypeOK', FrameKeeps, Fades, SiteSmaller, scripts' = scripts, PastSame,
         NEW qs \in SUBSET WebCall, NEW answers, CallsEnd(qs, answers), TabGiven(qs),
         \A q \in qs : webCalls[q].at \notin {"resolving", "sent", "approving", "done"},
         \A q \in qs : IF webCalls[q].at = "running" THEN webCalls'[q].answer \in OutcomesOf \union {"uncertain"}
                                                     ELSE webCalls'[q].answer \notin OutcomesOf,
         \A p \in popups'.open : p \in popups.open \/ webCalls[p].at = "approving"
  PROVE  Rest'
<1> USE DEF WebToolsInv
<1>1. Quiet
  <2>1. \A p \in WebCall \ qs : webCalls[p].at = "list" /\ webCalls[p].rev = site'.rev => webCalls[p].rev = site.rev
    BY DEF SiteSmaller, CallsEnd
  <2> QED
    BY <2>1, EndsQuiet DEF SiteSmaller
<1>2. ScriptsAgree' /\ ReferencesAgree' /\ LeftoversCleared'
  BY <1>1, QuietKeeps
<1>3. DispatchesAgree'
  <2>1. \A q \in qs : webCalls[q].at \in {"running", "done"} =>
                        webCalls'[q].answer \in OutcomesOf \union {"none", "uncertain"}
    OBVIOUS
  <2>2. \A q \in qs : webCalls[q].at # "running" => webCalls'[q].answer \notin OutcomesOf
    OBVIOUS
  <2>3. \A q \in webPast'.canceled : webCalls[q].at = "approving" => q \in qs
    BY DEF PastSame, DispatchesAgree
  <2> QED
    BY <2>1, <2>2, <2>3, DispatchesOfEnds DEF PastSame
<1>4. TabAgrees'
  BY TabOfGiven
<1>5. PromptsAgree'
  <2>1. \A p \in WebCall : webCalls[p].at = "approving" => webCalls'[p].at = "approving"
    BY DEF CallsEnd
  <2>2. popups.open \subseteq WebCall /\ popups'.open \subseteq WebCall
    BY DEF WebTypeOK, PopupsOK
  <2> QED
    BY <2>1, <2>2 DEF PromptsAgree, PastSame, At
<1> QED
  BY <1>2, <1>3, <1>4, <1>5 DEF Rest

LEMMA EndsKeeps ==
  ASSUME WebToolsInv, WebTypeOK', FrameKeeps, Fades, SiteSmaller, scripts' = scripts, PastSame,
         NEW qs \in SUBSET WebCall, NEW answers, CallsEnd(qs, answers), TabGiven(qs),
         \A q \in qs : webCalls[q].at \notin {"resolving", "sent", "approving", "done"},
         \A q \in qs : IF webCalls[q].at = "running" THEN answers \subseteq OutcomesOf \union {"uncertain"}
                                                     ELSE answers \cap OutcomesOf = {},
         \A p \in popups'.open : p \in popups.open \/ webCalls[p].at = "approving"
  PROVE  Rest'
<1>1. \A q \in qs : webCalls'[q].answer \in answers
  BY DEF CallsEnd
<1>2. \A q \in qs : IF webCalls[q].at = "running" THEN webCalls'[q].answer \in OutcomesOf \union {"uncertain"}
                                                    ELSE webCalls'[q].answer \notin OutcomesOf
  BY <1>1
<1> QED
  BY <1>2, EachEndKeeps

\* Whoever is asked is denied.
LEMMA DenialKeeps ==
  ASSUME WebToolsInv, WebTypeOK', FrameKeeps, Fades, site' = site, scripts' = scripts,
         NEW qs \in SUBSET WebCall, DenialOf(Asked(qs)), PastSame \/ CanceledOf(qs)
  PROVE  Rest'
<1> USE DEF WebToolsInv
<1>1. /\ CallsEnd(Asked(qs), {"denied"}) /\ popups'.open = popups.open \ Asked(qs)
      /\ webWorker'.executing <=> webWorker.executing /\ Asked(qs) = {}
      /\ webWorker'.run = webWorker.run
  BY DEF DenialOf
<1>2. PICK asked \in SUBSET WebCall : asked = Asked(qs)
  BY DEF Asked
<1>3. \A p \in asked : webCalls[p].at = "approving"
  BY <1>2 DEF Asked, At
<1>4. Quiet
  BY <1>1, <1>2, <1>3, EndsQuiet DEF ReferencesAgree
<1>5. ScriptsAgree' /\ ReferencesAgree' /\ LeftoversCleared'
  BY <1>4, QuietKeeps
<1>6. DispatchesAgree'
  <2>1. \A q \in asked : webCalls[q].at \notin {"running", "done"}
    BY <1>3
  <2>2. \A q \in asked : webCalls'[q].answer \notin OutcomesOf
    BY <1>1, <1>2 DEF CallsEnd, OutcomesOf
  <2>3. /\ webPast'.approved = webPast.approved /\ webPast'.dispatched = webPast.dispatched
        /\ webPast'.canceled \subseteq webPast.canceled \union {q \in qs : Cancelable(q)}
    BY DEF PastSame, CanceledOf
  <2>4. \A q \in webPast'.canceled : webCalls[q].at = "approving" => q \in asked
    <3> TAKE q \in webPast'.canceled
    <3> HAVE webCalls[q].at = "approving"
    <3>1. q \in qs
      BY <2>3 DEF DispatchesAgree
    <3>2. Of(q)
      BY <3>1 DEF CallsAgree, CallAgrees
    <3> QED
      BY <1>2, <3>1, <3>2 DEF Asked, At
  <2>5. webPast'.canceled \subseteq webPast.canceled \union {q \in WebCall : Cancelable(q)}
    BY <2>3
  <2> QED
    BY <1>1, <1>2, <2>1, <2>2, <2>3, <2>4, <2>5, DispatchesOfEnds
<1>7. TabAgrees'
  BY <1>1, TabOfDenial
<1>8. PromptsAgree'
  <2>1. webPast'.dropped = webPast.dropped
    BY DEF PastSame, CanceledOf
  <2>2. popups.open \subseteq WebCall
    BY DEF WebTypeOK, PopupsOK
  <2> QED
    BY <1>1, <1>2, <2>1, <2>2 DEF PromptsAgree, CallsEnd, At
<1> QED
  BY <1>5, <1>6, <1>7, <1>8 DEF Rest

\* One call goes on, in the worker or in the document.
LEMMA GoesKeeps ==
  ASSUME WebToolsInv, WebTypeOK', FrameKeeps, Fades, site' = site, scripts' = scripts, UNCHANGED webWorker,
         NEW q \in WebCall, NEW to, CallGoes(q, to),
         webCalls[q].at \notin {"resolving", "sent", "running", "done"},
         to \notin {"resolving", "sent", "running", "done"}, to = "list" => webCalls[q].at = "list",
         to \in {"rechecking", "execute"} /\ webCalls[q].tool # NoTool =>
           <<q, webCalls[q].tool, webCalls[q].doc>> \in webPast'.approved,
         q \in webPast.canceled => to \in {"get", "got", "rechecking"},
         webPast.approved \subseteq webPast'.approved, webPast'.dispatched = webPast.dispatched,
         webPast'.canceled = webPast.canceled, webPast'.dropped = webPast.dropped,
         popups'.open \subseteq popups.open, webCalls[q].at = "approving" => q \notin popups'.open
  PROVE  Rest'
<1> USE DEF WebToolsInv
<1>1. Quiet
  BY GoesQuiet
<1>2. ScriptsAgree' /\ ReferencesAgree' /\ LeftoversCleared'
  BY <1>1, QuietKeeps
<1>3. /\ \A p \in WebCall \ {q} : webCalls'[p] = webCalls[p]
      /\ webCalls'[q].at = to /\ webCalls'[q].answer = webCalls[q].answer
      /\ webCalls'[q].tool = webCalls[q].tool /\ webCalls'[q].doc = webCalls[q].doc
  BY DEF CallGoes, Same
<1>4. DispatchesAgree'
  BY <1>3, DispatchesOfGoing
<1>5. TabAgrees'
  BY TabOfGoing
<1>6. PromptsAgree'
  <2>1. popups.open \subseteq WebCall
    BY DEF WebTypeOK, PopupsOK
  <2> QED
    BY <1>3, <2>1, PromptsStay DEF WebTypeOK
<1> QED
  BY <1>2, <1>4, <1>5, <1>6 DEF Rest

\* A step that sends and runs no script; what starts, or becomes known, of a session
\* that has ended waits for its clearing.
Still ==
    /\ scripts' = scripts
    /\ \A p \in WebCall : webCalls[p].at = "sent" => webCalls'[p] = webCalls[p]
    /\ \A r \in site'.refs : LeftBehind(r.key) => ClearingAfter(0)
    /\ \A p \in WebCall : \A k :
         k = webCalls'[p].key /\ LeftBehind(k)
         /\ (webCalls'[p].at = "running" \/ (webCalls'[p].at = "list" /\ webCalls'[p].rev = site'.rev))
         => ClearingAfter(0)
    /\ Fades

LEMMA StillKeeps ==
  ASSUME WebToolsInv, Still
  PROVE  ScriptsAgree' /\ LeftoversCleared'
<1> USE DEF WebToolsInv
<1>1. ScriptsAgree'
  BY DEF ScriptsAgree, Still
<1>2. ClearingAfter(0) => ClearingAfter(0)'
  BY DEF ClearingAfter, Still
<1>3. ASSUME NEW q \in WebCall, At(q, "running")' \/ (At(q, "list") /\ CatalogStands(q))', LeftBehind(webCalls[q].key)'
      PROVE  ClearingAfter(0)'
  <2>1. PICK k : k = webCalls'[q].key
    OBVIOUS
  <2>2. LeftBehind(k)'
    BY <1>3, <2>1 DEF LeftBehind
  <2>3. LeftBehind(k)
    BY <2>2 DEF Still, Fades
  <2>4. ClearingAfter(0)
    BY <1>3, <2>1, <2>3 DEF Still, At, CatalogStands
  <2> QED
    BY <1>2, <2>4
<1>4. ASSUME NEW i \in DOMAIN scripts', scripts'[i].part = "list", LeftBehind(webCalls[scripts[i].call].key)'
      PROVE  ClearingAfter(i)'
  <2>1. i \in DOMAIN scripts /\ scripts' = scripts
    BY DEF Still
  <2>2. webCalls'[scripts[i].call] = webCalls[scripts[i].call]
    BY <1>4, <2>1 DEF Still, ScriptsAgree
  <2>3. LeftBehind(webCalls[scripts[i].call].key)
    BY <1>4, <2>1, <2>2 DEF Still, Fades
  <2>4. ClearingAfter(i)
    BY <1>4, <2>1, <2>3 DEF LeftoversCleared
  <2> QED
    BY <2>1, <2>4 DEF ClearingAfter
<1>5. ASSUME NEW r \in site'.refs, LeftBehind(r.key)' PROVE ClearingAfter(0)'
  BY <1>2, <1>5 DEF Still, Fades
<1>6. LeftoversCleared'
  BY <1>3, <1>4, <1>5 DEF LeftoversCleared
<1> QED
  BY <1>1, <1>6

\* A call sends its script, behind the others.
LEMMA SendsKeeps ==
  ASSUME WebToolsInv, WebTypeOK', FrameKeeps, Fades, site' = site,
         NEW q \in WebCall, \A p \in WebCall \ {q} : webCalls'[p] = webCalls[p],
         webCalls[q].at # "sent", webCalls'[q].at = "sent",
         webCalls'[q].tool = webCalls[q].tool, webCalls'[q].ref = webCalls[q].ref,
         NEW x \in Script, x.call = q, x.part = PartOf(webCalls'[q]),
         x.pin = IF x.part = "execute" THEN webCalls'[q].doc ELSE 0, scripts' = Append(scripts, x),
         x.part = "list" => ~LeftBehind(webCalls[q].key)'
  PROVE  ScriptsAgree' /\ ReferencesAgree' /\ LeftoversCleared'
<1> USE DEF WebToolsInv
<1>1. PICK n \in Nat : n = Len(scripts)
  BY AppendedIs DEF WebTypeOK
<1>2. /\ DOMAIN scripts = 1..n /\ DOMAIN scripts' = 1..(n + 1)
      /\ \A i \in 1..n : scripts'[i] = scripts[i]
      /\ scripts'[n + 1] = x
  BY <1>1, AppendedIs DEF WebTypeOK
<1>3. \A i \in 1..(n + 1) : i \in 1..n \/ i = n + 1
  OBVIOUS
<1>4. ASSUME NEW i \in 1..n, scripts[i].part # "clear"
      PROVE  /\ scripts[i].call \in WebCall /\ scripts[i].call # q
             /\ webCalls'[scripts[i].call] = webCalls[scripts[i].call]
             /\ webCalls[scripts[i].call].at = "sent" /\ scripts[i].part = PartOf(webCalls[scripts[i].call])
             /\ scripts[i].pin = IF PartOf(webCalls[scripts[i].call]) = "execute"
                                 THEN webCalls[scripts[i].call].doc ELSE 0
  BY <1>2, <1>4 DEF ScriptsAgree
<1>5. ScriptsAgree'
  <2>1. ASSUME NEW i \in 1..(n + 1), scripts'[i].part # "clear"
        PROVE  /\ scripts'[i].call \in WebCall
               /\ webCalls'[scripts'[i].call].at = "sent" /\ scripts'[i].part = PartOf(webCalls'[scripts'[i].call])
               /\ scripts'[i].pin = IF PartOf(webCalls'[scripts'[i].call]) = "execute"
                                    THEN webCalls'[scripts'[i].call].doc ELSE 0
    <3>1. CASE i \in 1..n
      <4>1. scripts'[i] = scripts[i]
        BY <1>2, <3>1
      <4> QED
        BY <1>4, <2>1, <3>1, <4>1
    <3>2. CASE i = n + 1
      BY <1>2, <3>2
    <3> QED
      BY <1>3, <3>1, <3>2
  <2>2. ASSUME NEW i \in 1..(n + 1), NEW j \in 1..(n + 1), scripts'[i].part # "clear", scripts'[j].part # "clear",
               scripts'[i].call = scripts'[j].call
        PROVE  i = j
    <3>1. CASE i \in 1..n /\ j \in 1..n
      BY <1>2, <2>2, <3>1 DEF ScriptsAgree
    <3>2. CASE i \in 1..n /\ j = n + 1
      BY <1>2, <1>4, <2>2, <3>2
    <3>3. CASE i = n + 1 /\ j \in 1..n
      BY <1>2, <1>4, <2>2, <3>3
    <3> QED
      BY <1>3, <3>1, <3>2, <3>3
  <2> QED
    BY <1>2, <2>1, <2>2 DEF ScriptsAgree
<1>6. ReferencesAgree'
  BY ReferencesStay DEF ReferencesAgree
<1>7. \A m \in Nat : ClearingAfter(m) => ClearingAfter(m)'
  <2> TAKE m \in Nat
  <2> HAVE ClearingAfter(m)
  <2>1. PICK i \in 1..n : i > m /\ scripts[i].part = "clear"
    BY <1>2 DEF ClearingAfter
  <2>2. i \in 1..(n + 1) /\ scripts'[i].part = "clear"
    BY <1>2, <2>1
  <2> QED
    BY <1>2, <2>1, <2>2 DEF ClearingAfter
<1>8. ASSUME NEW p \in WebCall, At(p, "running")' \/ (At(p, "list") /\ CatalogStands(p))', LeftBehind(webCalls[p].key)'
      PROVE  ClearingAfter(0)'
  <2>1. p # q
    BY <1>8 DEF At
  <2>2. webCalls'[p] = webCalls[p]
    BY <2>1
  <2>3. LeftBehind(webCalls[p].key)
    BY <1>8, <2>2 DEF Fades
  <2>4. ClearingAfter(0)
    BY <1>8, <2>2, <2>3 DEF LeftoversCleared, At, CatalogStands
  <2> QED
    BY <1>7, <2>4
<1>9. ASSUME NEW i \in DOMAIN scripts', scripts'[i].part = "list", LeftBehind(webCalls[scripts[i].call].key)'
      PROVE  ClearingAfter(i)'
  <2>1. CASE i \in 1..n
    <3>1. scripts'[i] = scripts[i]
      BY <1>2, <2>1
    <3>2. webCalls'[scripts[i].call] = webCalls[scripts[i].call]
      BY <1>4, <1>9, <2>1, <3>1
    <3>3. LeftBehind(webCalls[scripts[i].call].key)
      BY <1>9, <3>1, <3>2 DEF Fades
    <3>4. ClearingAfter(i)
      BY <1>2, <1>9, <2>1, <3>1, <3>3 DEF LeftoversCleared
    <3> QED
      BY <1>7, <2>1, <3>4
  <2>2. CASE i = n + 1
    BY <1>2, <1>9, <2>2
  <2> QED
    BY <1>2, <1>3, <2>1, <2>2
<1>10. ASSUME NEW r \in site'.refs, LeftBehind(r.key)' PROVE ClearingAfter(0)'
  BY <1>7, <1>10 DEF Fades, LeftoversCleared
<1>11. LeftoversCleared'
  BY <1>8, <1>9, <1>10 DEF LeftoversCleared
<1> QED
  BY <1>5, <1>6, <1>11

\* The first script is gone; what waits for a clearing behind it still does.
LEMMA FirstGoneKeeps ==
  ASSUME WebToolsInv, WebTypeOK', FirstGone, Fades,
         \A p \in WebCall : webCalls[p].at = "sent" =>
           webCalls'[p] = webCalls[p] \/ (scripts[1].part # "clear" /\ p = scripts[1].call)
  PROVE  /\ ScriptsAgree'
         /\ ClearingAfter(1) => ClearingAfter(0)'
         /\ scripts[1].part # "clear" /\ ClearingAfter(0) => ClearingAfter(0)'
         /\ \A i \in DOMAIN scripts' : scripts'[i].part = "list" /\ LeftBehind(webCalls[scripts[i].call].key)'
              => ClearingAfter(i)'
<1> USE DEF WebToolsInv
<1>1. PICK n \in Nat : /\ DOMAIN scripts = 1..(n + 1) /\ DOMAIN scripts' = 1..n
                       /\ \A i \in 1..n : scripts'[i] = scripts[i + 1] /\ i + 1 \in 1..(n + 1)
  <2>1. scripts \in Seq(Script) /\ scripts # <<>> /\ scripts' = Tail(scripts)
    BY DEF WebTypeOK, ScriptsOK, FirstGone
  <2> DEFINE m == Len(scripts) - 1
  <2>2. m \in Nat /\ DOMAIN scripts = 1..(m + 1) /\ DOMAIN scripts' = 1..m
    BY <2>1
  <2>3. \A i \in 1..m : scripts'[i] = scripts[i + 1] /\ i + 1 \in 1..(m + 1)
    BY <2>1
  <2> HIDE DEF m
  <2> QED
    BY <2>2, <2>3
<1>2. ASSUME NEW i \in 1..n, scripts'[i].part # "clear"
      PROVE  /\ scripts'[i].call \in WebCall
             /\ webCalls'[scripts'[i].call] = webCalls[scripts'[i].call]
             /\ webCalls[scripts'[i].call].at = "sent" /\ scripts'[i].part = PartOf(webCalls[scripts'[i].call])
             /\ scripts'[i].pin = IF PartOf(webCalls[scripts'[i].call]) = "execute"
                                  THEN webCalls[scripts'[i].call].doc ELSE 0
  <2>1. scripts'[i] = scripts[i + 1] /\ i + 1 \in DOMAIN scripts /\ 1 \in DOMAIN scripts /\ i + 1 # 1
    BY <1>1
  <2>2. /\ scripts[i + 1].call \in WebCall
        /\ webCalls[scripts[i + 1].call].at = "sent" /\ scripts[i + 1].part = PartOf(webCalls[scripts[i + 1].call])
        /\ scripts[i + 1].pin = IF PartOf(webCalls[scripts[i + 1].call]) = "execute"
                                THEN webCalls[scripts[i + 1].call].doc ELSE 0
    BY <1>2, <2>1 DEF ScriptsAgree
  <2>3. ~(scripts[1].part # "clear" /\ scripts[i + 1].call = scripts[1].call)
    BY <1>2, <2>1 DEF ScriptsAgree
  <2> QED
    BY <2>1, <2>2, <2>3
<1>3. ScriptsAgree'
  <2>1. ASSUME NEW i \in 1..n, NEW j \in 1..n, scripts'[i].part # "clear", scripts'[j].part # "clear",
               scripts'[i].call = scripts'[j].call
        PROVE  i = j
    <3>1. /\ scripts'[i] = scripts[i + 1] /\ i + 1 \in DOMAIN scripts
          /\ scripts'[j] = scripts[j + 1] /\ j + 1 \in DOMAIN scripts
      BY <1>1
    <3>2. i + 1 = j + 1
      BY <2>1, <3>1 DEF ScriptsAgree
    <3> QED
      BY <3>2
  <2> QED
    BY <1>1, <1>2, <2>1 DEF ScriptsAgree
<1>4. ASSUME NEW m \in Nat, ClearingAfter(m + 1) PROVE ClearingAfter(m)'
  <2>1. PICK j \in 1..(n + 1) : j > m + 1 /\ scripts[j].part = "clear"
    BY <1>1, <1>4 DEF ClearingAfter
  <2>2. PICK i \in 1..n : i > m /\ j = i + 1
    BY <2>1
  <2> QED
    BY <1>1, <2>1, <2>2 DEF ClearingAfter
<1>5. ClearingAfter(1) => ClearingAfter(0)'
  <2>1. 0 \in Nat /\ 0 + 1 = 1
    OBVIOUS
  <2> QED
    BY <1>4, <2>1
<1>6. scripts[1].part # "clear" /\ ClearingAfter(0) => ClearingAfter(1)
  BY <1>1 DEF ClearingAfter
<1>7. ASSUME NEW i \in DOMAIN scripts', scripts'[i].part = "list", LeftBehind(webCalls[scripts[i].call].key)'
      PROVE  ClearingAfter(i)'
  <2>1. i \in 1..n /\ i \in Nat /\ scripts'[i] = scripts[i + 1] /\ i + 1 \in DOMAIN scripts
    BY <1>1
  <2>2. webCalls'[scripts[i + 1].call] = webCalls[scripts[i + 1].call]
    BY <1>2, <1>7, <2>1
  <2>3. LeftBehind(webCalls[scripts[i + 1].call].key)
    BY <1>7, <2>1, <2>2 DEF Fades
  <2>4. ClearingAfter(i + 1)
    BY <1>7, <2>1, <2>3 DEF LeftoversCleared
  <2> QED
    BY <1>4, <2>1, <2>4
<1> QED
  BY <1>3, <1>5, <1>6, <1>7

-----------------------------------------------------------------------------
(* Every action keeps the invariant.                                        *)

LEMMA CallsKeeps ==
  ASSUME WebToolsInv, NEW q \in WebCall, NEW op \in {"list", "execute"}, NEW ref \in Nat, Calls(q, op, ref), op = "list" => ref = 0
  PROVE  WebToolsInv'
<1> USE WebAssumption DEF WebToolsInv
<1>1. WebTypeOK'
  BY CallsDoes
<1>2. FrameKeeps /\ DocumentKeeps
  <2>1. webWorker'.run = webWorker.run
    BY CallsDoes DEF TabGiven, DenialOf
  <2>2. /\ scope'.grant = scope.grant /\ webPast'.dropped = webPast.dropped /\ webRefs' = webRefs
        /\ site'.doc = site.doc /\ site'.rev = site.rev
    BY CallsDoes DEF TabGiven, DenialOf
  <2> QED
    BY <2>1, <2>2, FrameSame, DocumentSame
<1>3. CallsAgree'
  <2>1. \A p \in WebCall \ {q} : CallAgrees(p)'
    BY <1>1, <1>2, CallsDoes, OthersFit DEF CallsAgree
  <2>2. /\ webCalls[q].at = "new" /\ webCalls[q].key = <<>> /\ q \notin webPast.dropped
    BY CallsDoes DEF At, CallsAgree, CallAgrees
  <2>8. webWorker.run \in Nat
    BY CountsTyped
  <2>9. PICK run \in Nat : run = webWorker.run
    BY <2>8
  <2>10. PICK d : d = webCalls'[q]
    OBVIOUS
  <2>3. d = webCalls'[q] /\ run = webWorker.run
    BY <2>9, <2>10
  <2>4. /\ d.at = "resolving" /\ d.op = op /\ d.ref = ref /\ d.key = <<run>> /\ d.tool = NoTool
        /\ d.answer = "none" /\ webWorker'.run = run /\ webPast' = webPast /\ webRefs' = webRefs
        /\ ref <= webRefs
    BY <2>3, CallsDoes, CountsTyped
  <2>5. d.key # <<>> /\ d.key[1] = run
    BY <2>4
  <2> QED
    BY <2>1, <2>2, <2>3, <2>4, <2>5 DEF CallsAgree, CallAgrees, Of, InSession, InDocument
<1>4. Fades
  BY CallsDoes, FadesIf DEF TabGiven, DenialOf
<1>6. Rest'
  <2>1. /\ \A p \in WebCall \ {q} : webCalls'[p] = webCalls[p]
        /\ webCalls[q].at = "new" /\ webCalls[q].key = <<>> /\ webCalls[q].answer = "none"
        /\ q \notin webPast.dropped
        /\ webCalls'[q].at = "resolving" /\ webCalls'[q].tool = NoTool /\ webCalls'[q].answer = "none"
        /\ UNCHANGED <<webWorker, popups, site, scripts, scope, webPast>>
    BY CallsDoes DEF At, CallsAgree, CallAgrees
  <2>2. Quiet
    <3>1. ASSUME NEW p \in WebCall
          PROVE  /\ webCalls[p].at = "sent" => webCalls'[p] = webCalls[p]
                 /\ webCalls'[p].tool # NoTool =>
                      webCalls'[p].tool = webCalls[p].tool /\ webCalls'[p].ref = webCalls[p].ref
                 /\ webCalls'[p].at \in {"running", "list"} =>
                      webCalls'[p].at = webCalls[p].at /\ webCalls'[p].key = webCalls[p].key
                 /\ webCalls'[p].at = "list" /\ webCalls'[p].rev = site'.rev => webCalls[p].rev = site.rev
      <4>1. CASE p = q
        BY <2>1, <4>1
      <4>2. CASE p # q
        BY <2>1, <4>2
      <4> QED
        BY <4>1, <4>2
    <3> QED
      BY <1>4, <2>1, <3>1 DEF Quiet, ReferencesAgree
  <2>3. ScriptsAgree' /\ ReferencesAgree' /\ LeftoversCleared'
    BY <1>1, <1>2, <2>2, QuietKeeps
  <2>4. DispatchesAgree'
    BY <2>1, DispatchesOfGoing
  <2>5. TabAgrees'
    <3>1. ASSUME NEW p \in WebCall PROVE Busy(p)' <=> Busy(p)
      <4>1. CASE p = q
        BY <2>1, <4>1 DEF Busy, Of, At
      <4>2. CASE p # q
        BY <2>1, <4>2 DEF Busy, Of, At
      <4> QED
        BY <4>1, <4>2
    <3> QED
      BY <2>1, <3>1 DEF TabAgrees
  <2>6. PromptsAgree'
    BY <2>1 DEF PromptsAgree, At, WebTypeOK, PopupsOK
  <2> QED
    BY <2>3, <2>4, <2>5, <2>6 DEF Rest
<1>9. RunningAgrees'
  BY CallsDoes DEF CallsEnd, CallGoes, TabGiven, Same, At, Of, RunningAgrees, WebTypeOK, SiteOK, InDocument
<1> QED
  BY <1>1, <1>3, <1>6, <1>9 DEF Rest

LEMMA ResolvedKeeps ==
  ASSUME WebToolsInv, NEW q \in WebCall, Resolved(q)
  PROVE  WebToolsInv'
<1> USE WebAssumption DEF WebToolsInv
<1>1. WebTypeOK'
  BY ResolvedDoes
<1>2. FrameKeeps /\ DocumentKeeps
  <2>1. webWorker'.run = webWorker.run
    BY ResolvedDoes DEF TabGiven, DenialOf
  <2>2. /\ scope'.grant = scope.grant /\ webPast'.dropped = webPast.dropped /\ webRefs' = webRefs
        /\ site'.doc = site.doc /\ site'.rev = site.rev
    BY ResolvedDoes DEF TabGiven, DenialOf
  <2> QED
    BY <2>1, <2>2, FrameSame, DocumentSame
<1>3. CallsAgree'
  <2>1. \A p \in WebCall \ {q} : CallAgrees(p)'
    BY <1>1, <1>2, ResolvedDoes, OthersFit DEF CallsAgree, CallsEnd
  <2>2. CASE webCalls'[q].at = "done"
    <3>1. Same(webCalls[q], webCalls'[q]) /\ webCalls[q].at # "new"
      BY <2>2, ResolvedDoes DEF CallsEnd, At
    <3> QED
      BY <1>1, <1>2, <2>1, <2>2, <3>1, EndedFit DEF CallsAgree
  <2>3. CASE webCalls'[q].at # "done"
    <3>6. webWorker.run \in Nat /\ scope.grant \in Nat
      BY CountsTyped
    <3>7. PICK run \in Nat, grant \in Nat : run = webWorker.run /\ grant = scope.grant
      BY <3>6
    <3>8. PICK c, d : c = webCalls[q] /\ d = webCalls'[q]
      OBVIOUS
    <3>1. c = webCalls[q] /\ d = webCalls'[q] /\ run = webWorker.run /\ grant = scope.grant
      BY <3>7, <3>8
    <3>2. /\ d.at = "sent" /\ d.key = <<run, grant, scope.connection>> /\ d.op = c.op /\ d.ref = c.ref
          /\ d.doc = c.doc /\ d.tool = c.tool /\ d.answer = c.answer
          /\ webWorker'.run = run /\ webPast' = webPast /\ webRefs' = webRefs /\ scope' = scope
          /\ c.at = "resolving" /\ Of(q)
      BY <2>3, <3>1, ResolvedDoes DEF CallsEnd, SessionKey, At
    <3>3. d.key # <<>> /\ d.key[1] = run /\ d.key[2] = grant
      BY <3>2
    <3>4. CallAgrees(q) /\ q \notin webPast.dropped
      BY <3>2 DEF CallsAgree, CallAgrees, Of
    <3>5. Known(d.key)'
      <4>1. scope'.grant = grant /\ grant <= grant
        BY <3>1, <3>2
      <4> QED
        BY <3>3, <4>1 DEF Known
    <3>9. d.op # "none" /\ d.tool = NoTool /\ d.answer = "none" /\ d.ref <= webRefs'
      BY <3>1, <3>2, <3>4 DEF CallAgrees
    <3>10. CallAgrees(q)'
      BY <3>1, <3>2, <3>3, <3>4, <3>5, <3>9 DEF CallAgrees, InSession, InDocument
    <3> QED
      BY <2>1, <3>10 DEF CallsAgree
  <2> QED
    BY <2>2, <2>3
<1>4. Fades
  <2>1. webWorker'.run = webWorker.run /\ (webWorker.touched => webWorker'.touched) /\ scope' = scope
    BY ResolvedDoes
  <2> QED
    BY <2>1, FadesIf
<1>6. Rest'
  <2>1. /\ webCalls[q].at = "resolving" /\ Of(q) /\ UNCHANGED <<popups, site, scope, webPast>>
        /\ webWorker'.run = webWorker.run /\ webCalls[q].tool = NoTool
    BY ResolvedDoes DEF At, CallsAgree, CallAgrees
  <2>2. PromptsAgree'
    <3>1. q \notin popups.open
      BY <2>1 DEF PromptsAgree, At, CallsAgree, CallAgrees, Of
    <3>2. \A p \in WebCall \ {q} : webCalls'[p] = webCalls[p]
      BY ResolvedDoes DEF CallsEnd
    <3> QED
      BY <2>1, <3>1, <3>2 DEF PromptsAgree, At, WebTypeOK, PopupsOK
  <2>3. ASSUME NEW answer \in {"refused", "busy"}, CallsEnd({q}, {answer}), scripts' = scripts,
               webWorker'.executing <=> webWorker.executing
        PROVE  Rest'
    <3>1. Quiet
      BY <1>4, <2>1, <2>3, EndsQuiet DEF ReferencesAgree
    <3>2. ScriptsAgree' /\ ReferencesAgree' /\ LeftoversCleared'
      BY <1>1, <1>2, <3>1, QuietKeeps
    <3>3. webCalls'[q].answer \notin OutcomesOf
      BY <2>3 DEF CallsEnd, OutcomesOf
    <3>4. \A p \in webPast.canceled : webCalls[p].at # "approving"
      BY DEF DispatchesAgree
    <3>5. DispatchesAgree'
      BY <2>1, <2>3, <3>3, <3>4, DispatchesOfEnds
    <3>6. ~Busy(q)
      BY <2>1 DEF Busy, At
    <3>7. TabAgrees'
      BY <2>1, <2>3, <3>6, TabOfEnds
    <3> QED
      BY <2>2, <3>2, <3>5, <3>7 DEF Rest
  <2>4. ASSUME Admits(q), ~(webCalls[q].op = "execute" /\ webWorker.executing),
               \A p \in WebCall \ {q} : webCalls'[p] = webCalls[p],
               webCalls'[q].at = "sent", webCalls'[q].key = SessionKey,
               webCalls'[q].op = webCalls[q].op, webCalls'[q].ref = webCalls[q].ref,
               webCalls'[q].tool = webCalls[q].tool, webCalls'[q].answer = webCalls[q].answer,
               webWorker'.touched, webWorker'.executing <=> webWorker.executing \/ webCalls[q].op = "execute",
               Sends(q, IF webCalls[q].op = "list" THEN "list" ELSE "get", 0)
        PROVE  Rest'
    <3>1. PICK x : /\ x = [part |-> IF webCalls[q].op = "list" THEN "list" ELSE "get", call |-> q, pin |-> 0]
                   /\ scripts' = Append(scripts, x)
      BY <2>4 DEF Sends
    <3>2. /\ x \in Script /\ x.call = q /\ x.part # "execute" /\ x.pin = 0
          /\ x.part = IF webCalls[q].op = "list" THEN "list" ELSE "get"
      BY <3>1 DEF Script
    <3>3. x.part = PartOf(webCalls'[q])
      BY <2>1, <2>4, <3>2 DEF PartOf
    <3>4. ~LeftBehind(webCalls[q].key)'
      <4>1. PICK k : k = webCalls'[q].key
        OBVIOUS
      <4>2. k[2] = scope.grant /\ scope.on
        BY <2>4, <4>1 DEF SessionKey, Admits
      <4>3. ~LeftBehind(k)'
        BY <2>1, <2>4, <4>2 DEF LeftBehind
      <4> QED
        BY <4>1, <4>3 DEF LeftBehind
    <3>5. ScriptsAgree' /\ ReferencesAgree' /\ LeftoversCleared'
      BY <1>1, <1>2, <1>4, <2>1, <2>4, <3>1, <3>2, <3>3, <3>4, SendsKeeps
    <3>6. DispatchesAgree'
      BY <2>1, <2>4, DispatchesOfGoing DEF Admits
    <3>7. TabAgrees'
      <4>1. \A p \in WebCall \ {q} : Busy(p)' <=> Busy(p)
        BY <2>1, <2>4 DEF Busy, Of, At
      <4>2. Busy(q)' <=> webCalls[q].op = "execute"
        <5>1. PICK k : k = webCalls'[q].key
          OBVIOUS
        <5>2. k # <<>> /\ k[1] = webWorker'.run
          BY <2>1, <2>4, <5>1 DEF SessionKey
        <5> QED
          BY <2>4, <5>1, <5>2 DEF Busy, Of, At
      <4>3. ~Busy(q)
        BY <2>1 DEF Busy, At
      <4>4. webCalls[q].op = "execute" => \A p \in WebCall : ~Busy(p)
        BY <2>4 DEF TabAgrees
      <4>5. webWorker'.executing <=> \E p \in WebCall : Busy(p)'
        BY <2>4, <4>1, <4>2, <4>3 DEF TabAgrees
      <4>6. ASSUME NEW p \in WebCall, NEW r \in WebCall, Busy(p)', Busy(r)' PROVE p = r
        BY <4>1, <4>2, <4>4, <4>6 DEF TabAgrees
      <4> QED
        BY <4>5, <4>6 DEF TabAgrees
    <3> QED
      BY <2>2, <3>5, <3>6, <3>7 DEF Rest
  <2> QED
    BY <2>1, <2>3, <2>4, ResolvedDoes
<1>9. RunningAgrees'
  BY ResolvedDoes DEF CallsEnd, CallGoes, TabGiven, Same, At, Of, Admits, SessionKey, RunningAgrees, WebTypeOK, SiteOK, InDocument
<1> QED
  BY <1>1, <1>3, <1>6, <1>9 DEF Rest

LEMMA AsksUserKeeps ==
  ASSUME WebToolsInv, NEW q \in WebCall, AsksUser(q)
  PROVE  WebToolsInv'
<1> USE WebAssumption DEF WebToolsInv
<1>1. WebTypeOK'
  BY AsksUserDoes
<1>2. FrameKeeps /\ DocumentKeeps
  <2>1. webWorker'.run = webWorker.run
    BY AsksUserDoes DEF TabGiven, DenialOf
  <2>2. /\ scope'.grant = scope.grant /\ webPast'.dropped = webPast.dropped /\ webRefs' = webRefs
        /\ site'.doc = site.doc /\ site'.rev = site.rev
    BY AsksUserDoes DEF TabGiven, DenialOf
  <2> QED
    BY <2>1, <2>2, FrameSame, DocumentSame
<1>3. CallsAgree'
  <2>1. \A p \in WebCall \ {q} : CallAgrees(p)'
    BY <1>1, <1>2, AsksUserDoes, OthersFit DEF CallsAgree, CallsEnd, CallGoes
  <2>2. CallAgrees(q)'
    BY <1>1, <1>2, AsksUserDoes, GoneOnFits, EndedFit, CountsTyped DEF CallsAgree, At, CallsEnd, InSession, InDocument, FrameKeeps, DocumentKeeps, Of, CallAgrees, CallState, Known, SessionKey
  <2> QED
    BY <2>1, <2>2 DEF CallsAgree
<1>4. Fades
  BY AsksUserDoes, FadesIf DEF TabGiven, DenialOf
<1>6. Rest'
  <2>1. /\ PastSame /\ scripts' = scripts /\ popups'.open = popups.open /\ site' = site
        /\ webCalls[q].at = "got"
    BY AsksUserDoes DEF PastSame, At
  <2>2. CASE CallsEnd({q}, {"denied"}) /\ TabGiven({q})
    <3>1. SiteSmaller
      BY <2>1, <2>2 DEF SiteSmaller, CallsEnd, ReferencesAgree
    <3> QED
      BY <1>1, <1>2, <1>4, <2>1, <2>2, <3>1, EndsKeeps DEF OutcomesOf
  <2>3. CASE q \notin webPast.canceled /\ CallGoes(q, "approving") /\ UNCHANGED webWorker
    BY <1>1, <1>2, <1>4, <2>1, <2>3, GoesKeeps DEF PastSame
  <2> QED
    BY <2>2, <2>3, AsksUserDoes
<1>9. RunningAgrees'
  BY AsksUserDoes DEF CallsEnd, CallGoes, TabGiven, Same, At, Of, RunningAgrees, WebTypeOK, SiteOK, InDocument
<1> QED
  BY <1>1, <1>3, <1>6, <1>9 DEF Rest

LEMMA PopupOpensKeeps ==
  ASSUME WebToolsInv, NEW q \in WebCall, PopupOpens(q)
  PROVE  WebToolsInv'
<1> USE WebAssumption DEF WebToolsInv
<1>1. WebTypeOK'
  BY PopupOpensDoes
<1>2. FrameKeeps /\ DocumentKeeps
  <2>1. webWorker'.run = webWorker.run
    BY PopupOpensDoes DEF TabGiven, DenialOf
  <2>2. /\ scope'.grant = scope.grant /\ webPast'.dropped = webPast.dropped /\ webRefs' = webRefs
        /\ site'.doc = site.doc /\ site'.rev = site.rev
    BY PopupOpensDoes DEF TabGiven, DenialOf
  <2> QED
    BY <2>1, <2>2, FrameSame, DocumentSame
<1>3. CallsAgree'
  BY <1>1, <1>2, PopupOpensDoes, OthersFit, EndedFit DEF CallsAgree, CallsEnd
<1>4. Fades
  BY PopupOpensDoes, FadesIf DEF TabGiven, DenialOf
<1>5. SiteSmaller
  BY PopupOpensDoes DEF SiteSmaller, ReferencesAgree, SiteKeeps
<1>6. Rest'
  <2>1. CallsEnd({}, {}) /\ TabGiven({})
    BY PopupOpensDoes DEF CallsEnd, TabGiven
  <2>2. PastSame /\ scripts' = scripts
    BY PopupOpensDoes DEF PastSame
  <2>3. \A p \in popups'.open : p \in popups.open \/ webCalls[p].at = "approving"
    BY PopupOpensDoes DEF At
  <2> QED
    BY <1>1, <1>2, <1>4, <1>5, <2>1, <2>2, <2>3, EndsKeeps
<1>9. RunningAgrees'
  BY PopupOpensDoes DEF CallsEnd, CallGoes, TabGiven, Same, At, Of, RunningAgrees, WebTypeOK, SiteOK, InDocument
<1> QED
  BY <1>1, <1>3, <1>6, <1>9 DEF Rest

LEMMA ApprovesKeeps ==
  ASSUME WebToolsInv, NEW q \in WebCall, Approves(q)
  PROVE  WebToolsInv'
<1> USE WebAssumption DEF WebToolsInv
<1>1. WebTypeOK'
  BY ApprovesDoes
<1>2. FrameKeeps /\ DocumentKeeps
  <2>1. webWorker'.run = webWorker.run
    BY ApprovesDoes DEF TabGiven, DenialOf
  <2>2. /\ scope'.grant = scope.grant /\ webPast'.dropped = webPast.dropped /\ webRefs' = webRefs
        /\ site'.doc = site.doc /\ site'.rev = site.rev
    BY ApprovesDoes DEF TabGiven, DenialOf
  <2> QED
    BY <2>1, <2>2, FrameSame, DocumentSame
<1>3. CallsAgree'
  <2>1. \A p \in WebCall \ {q} : CallAgrees(p)'
    BY <1>1, <1>2, ApprovesDoes, OthersFit DEF CallsAgree, CallsEnd, CallGoes
  <2>2. CallAgrees(q)'
    BY <1>1, <1>2, ApprovesDoes, GoneOnFits, EndedFit, CountsTyped DEF CallsAgree, At, CallsEnd, InSession, InDocument, FrameKeeps, DocumentKeeps, Of, CallAgrees, CallState, Known, SessionKey
  <2> QED
    BY <2>1, <2>2 DEF CallsAgree
<1>4. Fades
  BY ApprovesDoes, FadesIf DEF TabGiven, DenialOf
<1>6. Rest'
  <2>1. /\ scripts' = scripts /\ popups'.open = popups.open \ {q} /\ site' = site /\ UNCHANGED webWorker
        /\ webCalls[q].at = "approving" /\ CallGoes(q, "rechecking")
    BY ApprovesDoes DEF At
  <2>2. /\ webPast'.approved = webPast.approved \union {<<q, webCalls[q].tool, webCalls[q].doc>>}
        /\ webPast'.dispatched = webPast.dispatched /\ webPast'.canceled = webPast.canceled
        /\ webPast'.dropped = webPast.dropped
    BY ApprovesDoes
  <2> QED
    BY <1>1, <1>2, <1>4, <2>1, <2>2, GoesKeeps
<1>9. RunningAgrees'
  BY ApprovesDoes DEF CallsEnd, CallGoes, TabGiven, Same, At, Of, RunningAgrees, WebTypeOK, SiteOK, InDocument
<1> QED
  BY <1>1, <1>3, <1>6, <1>9 DEF Rest

LEMMA DeclinesKeeps ==
  ASSUME WebToolsInv, NEW q \in WebCall, Declines(q)
  PROVE  WebToolsInv'
<1> USE WebAssumption DEF WebToolsInv
<1>1. WebTypeOK'
  BY DeclinesDoes
<1>2. FrameKeeps /\ DocumentKeeps
  <2>1. webWorker'.run = webWorker.run
    BY DeclinesDoes DEF TabGiven, DenialOf
  <2>2. /\ scope'.grant = scope.grant /\ webPast'.dropped = webPast.dropped /\ webRefs' = webRefs
        /\ site'.doc = site.doc /\ site'.rev = site.rev
    BY DeclinesDoes DEF TabGiven, DenialOf
  <2> QED
    BY <2>1, <2>2, FrameSame, DocumentSame
<1>3. CallsAgree'
  BY <1>1, <1>2, DeclinesDoes, OthersFit, EndedFit DEF DenialOf, Asked, At, CallsAgree, CallsEnd
<1>4. Fades
  BY DeclinesDoes, FadesIf DEF TabGiven, DenialOf
<1>5. Rest'
  <2>1. DenialOf(Asked({q})) /\ PastSame /\ site' = site /\ scripts' = scripts
    BY DeclinesDoes DEF PastSame
  <2> QED
    BY <1>1, <1>2, <1>4, <2>1, DenialKeeps
<1>9. RunningAgrees'
  BY DeclinesDoes DEF CallsEnd, CallGoes, TabGiven, Same, At, Of, DenialOf, Asked, RunningAgrees, WebTypeOK, SiteOK, InDocument
<1> QED
  BY <1>1, <1>3, <1>5, <1>9 DEF Rest

LEMMA RechecksKeeps ==
  ASSUME WebToolsInv, NEW q \in WebCall, Rechecks(q)
  PROVE  WebToolsInv'
<1> USE WebAssumption DEF WebToolsInv
<1>1. WebTypeOK'
  BY RechecksDoes
<1>2. FrameKeeps /\ DocumentKeeps
  <2>1. webWorker'.run = webWorker.run
    BY RechecksDoes DEF TabGiven, DenialOf
  <2>2. /\ scope'.grant = scope.grant /\ webPast'.dropped = webPast.dropped /\ webRefs' = webRefs
        /\ site'.doc = site.doc /\ site'.rev = site.rev
    BY RechecksDoes DEF TabGiven, DenialOf
  <2> QED
    BY <2>1, <2>2, FrameSame, DocumentSame
<1>3. CallsAgree'
  <2>1. \A p \in WebCall \ {q} : CallAgrees(p)'
    BY <1>1, <1>2, RechecksDoes, OthersFit DEF CallsAgree, CallsEnd, CallGoes
  <2>2. CallAgrees(q)'
    BY <1>1, <1>2, RechecksDoes, GoneOnFits, EndedFit, CountsTyped DEF CallsAgree, At, CallsEnd, InSession, InDocument, FrameKeeps, DocumentKeeps, Of, CallAgrees, CallState, Known, SessionKey
  <2> QED
    BY <2>1, <2>2 DEF CallsAgree
<1>4. Fades
  BY RechecksDoes, FadesIf DEF TabGiven, DenialOf
<1>6. Rest'
  <2>1. /\ webCalls[q].at = "rechecking" /\ UNCHANGED <<popups, site, scope, webPast>>
        /\ webCalls[q].op = "execute" /\ webCalls[q].tool # NoTool
    BY RechecksDoes DEF At, CallsAgree, CallAgrees
  <2>2. CASE CallsEnd({q}, {"denied"}) /\ TabGiven({q}) /\ scripts' = scripts
    <3>1. SiteSmaller
      BY <2>1, <2>2 DEF SiteSmaller, CallsEnd, ReferencesAgree
    <3>2. PastSame
      BY <2>1 DEF PastSame
    <3> QED
      BY <1>1, <1>2, <1>4, <2>1, <2>2, <3>1, <3>2, EndsKeeps DEF OutcomesOf
  <2>3. CASE Admits(q) /\ CallGoes(q, "sent") /\ Sends(q, "execute", webCalls[q].doc) /\ UNCHANGED webWorker
    <3>1. PICK x : /\ x = [part |-> "execute", call |-> q, pin |-> webCalls[q].doc]
                   /\ scripts' = Append(scripts, x)
      BY <2>3 DEF Sends
    <3>2. x \in Script /\ x.call = q /\ x.part = "execute" /\ x.pin = webCalls[q].doc
      BY <3>1, CallTyped DEF Script
    <3>3. /\ \A p \in WebCall \ {q} : webCalls'[p] = webCalls[p]
          /\ webCalls'[q].at = "sent" /\ webCalls'[q].answer = webCalls[q].answer
          /\ webCalls'[q].tool = webCalls[q].tool /\ webCalls'[q].doc = webCalls[q].doc
          /\ webCalls'[q].ref = webCalls[q].ref /\ webCalls'[q].op = webCalls[q].op
      BY <2>3 DEF CallGoes, Same
    <3>4. x.part = PartOf(webCalls'[q])
      BY <2>1, <3>2, <3>3 DEF PartOf
    <3>5. ScriptsAgree' /\ ReferencesAgree' /\ LeftoversCleared'
      BY <1>1, <1>2, <1>4, <2>1, <3>1, <3>2, <3>3, <3>4, SendsKeeps
    <3>6. <<q, webCalls[q].tool, webCalls[q].doc>> \in webPast.approved
      BY <2>1 DEF DispatchesAgree
    <3>7. DispatchesAgree'
      BY <2>1, <2>3, <3>3, <3>6, DispatchesOfGoing DEF Admits
    <3>8. TabAgrees'
      BY <2>1, <2>3, TabOfGoing
    <3>9. PromptsAgree'
      BY <2>1, <3>3, PromptsStay DEF WebTypeOK, PopupsOK
    <3> QED
      BY <3>5, <3>7, <3>8, <3>9 DEF Rest
  <2> QED
    BY <2>2, <2>3, RechecksDoes
<1>9. RunningAgrees'
  BY RechecksDoes DEF CallsEnd, CallGoes, TabGiven, Same, At, Of, Admits, RunningAgrees, WebTypeOK, SiteOK, InDocument
<1> QED
  BY <1>1, <1>3, <1>6, <1>9 DEF Rest

LEMMA GetsToolsKeeps ==
  ASSUME WebToolsInv, NEW q \in WebCall, NEW answers \in BOOLEAN, GetsTools(q, answers)
  PROVE  WebToolsInv'
<1> USE WebAssumption DEF WebToolsInv
<1>1. WebTypeOK'
  BY GetsToolsDoes
<1>2. FrameKeeps /\ DocumentKeeps
  <2>1. webWorker'.run = webWorker.run
    BY GetsToolsDoes DEF TabGiven, DenialOf
  <2>2. /\ scope'.grant = scope.grant /\ webPast'.dropped = webPast.dropped /\ webRefs' = webRefs
        /\ site'.doc = site.doc /\ site'.rev = site.rev
    BY GetsToolsDoes DEF TabGiven, DenialOf
  <2> QED
    BY <2>1, <2>2, FrameSame, DocumentSame
<1>3. CallsAgree'
  <2>0. CallGoes(q, webCalls[q].at) \/ CallsEnd({q}, {"unavailable"})
    BY GetsToolsDoes
  <2>1. \A p \in WebCall \ {q} : webCalls'[p] = webCalls[p]
    BY <2>0 DEF CallsEnd, CallGoes
  <2>2. \A p \in WebCall \ {q} : CallAgrees(p)'
    BY <1>1, <1>2, <2>1, OthersFit DEF CallsAgree
  <2>3. CallAgrees(q) /\ webCalls[q].at \in InDocument
    BY GetsToolsDoes DEF CallsAgree
  <2>4. CASE CallGoes(q, webCalls[q].at)
    <3>1. PICK to : to = webCalls[q].at
      OBVIOUS
    <3>2. CallAgrees(q)'
      BY <1>1, <1>2, <2>3, <2>4, <3>1, GoneOnFits
    <3> QED
      BY <2>2, <3>2 DEF CallsAgree
  <2>5. CASE CallsEnd({q}, {"unavailable"})
    <3>1. webCalls'[q].at = "done" /\ Same(webCalls[q], webCalls'[q]) /\ webCalls[q].at # "new"
      BY <2>3, <2>5 DEF CallsEnd, InDocument
    <3>2. CallAgrees(q)'
      BY <1>1, <1>2, <2>3, <3>1, EndedFit
    <3> QED
      BY <2>2, <3>2 DEF CallsAgree
  <2> QED
    BY <2>4, <2>5, GetsToolsDoes
<1>4. Fades
  BY GetsToolsDoes, FadesIf DEF TabGiven, DenialOf
<1>6. Rest'
  <2>1. /\ PastSame /\ scripts' = scripts /\ popups'.open = popups.open /\ site' = site
        /\ webCalls[q].at \in {"list", "get", "execute"}
    BY GetsToolsDoes DEF PastSame, InDocument
  <2>2. CASE CallsEnd({q}, {"unavailable"}) /\ TabGiven({q})
    <3>1. SiteSmaller
      BY <2>1, <2>2 DEF SiteSmaller, CallsEnd, ReferencesAgree
    <3> QED
      BY <1>1, <1>2, <1>4, <2>1, <2>2, <3>1, EndsKeeps DEF OutcomesOf
  <2>3. CASE CallGoes(q, webCalls[q].at) /\ UNCHANGED webWorker
    <3>1. PICK to : to = webCalls[q].at
      OBVIOUS
    <3>2. to = "execute" /\ webCalls[q].tool # NoTool => <<q, webCalls[q].tool, webCalls[q].doc>> \in webPast.approved
      BY <3>1 DEF DispatchesAgree
    <3>3. q \in webPast.canceled => to = "get"
      BY <2>1, <3>1 DEF DispatchesAgree
    <3> QED
      BY <1>1, <1>2, <1>4, <2>1, <2>3, <3>1, <3>2, <3>3, GoesKeeps DEF PastSame
  <2> QED
    BY <2>2, <2>3, GetsToolsDoes
<1>9. RunningAgrees'
  BY GetsToolsDoes DEF CallsEnd, CallGoes, TabGiven, Same, At, Of, RunningAgrees, WebTypeOK, SiteOK, InDocument
<1> QED
  BY <1>1, <1>3, <1>6, <1>9 DEF Rest

LEMMA ListsKeeps ==
  ASSUME WebToolsInv, NEW q \in WebCall, Lists(q)
  PROVE  WebToolsInv'
<1> USE WebAssumption DEF WebToolsInv
<1>1. WebTypeOK'
  BY ListsDoes
<1>2. FrameKeeps /\ DocumentKeeps
  <2>1. /\ webWorker'.run = webWorker.run /\ scope'.grant = scope.grant /\ webPast'.dropped = webPast.dropped
        /\ webRefs' = webRefs \/ webRefs' = webRefs + 1
        /\ site'.doc = site.doc /\ site'.rev = site.rev
    BY ListsDoes DEF TabGiven
  <2>2. scope'.grant >= scope.grant /\ webRefs' >= webRefs
    BY <2>1, CountsTyped
  <2> QED
    BY <2>1, <2>2, DocumentSame DEF FrameKeeps
<1>3. CallsAgree'
  BY <1>1, <1>2, ListsDoes, OthersFit, EndedFit DEF At, CallsAgree, CallsEnd
<1>4. Fades
  BY ListsDoes, FadesIf DEF TabGiven, DenialOf
<1>6. Rest'
  <2>1. /\ webCalls[q].at = "list" /\ UNCHANGED <<popups, scripts, scope, webPast>>
        /\ CallsEnd({q}, {"listed", "stale"}) /\ TabGiven({q})
    BY ListsDoes DEF At
  <2>2. PastSame
    BY <2>1 DEF PastSame
  <2>3. CASE site' = site /\ webRefs' = webRefs
    <3>1. SiteSmaller
      BY <2>1, <2>3 DEF SiteSmaller, CallsEnd, ReferencesAgree
    <3> QED
      BY <1>1, <1>2, <1>4, <2>1, <2>2, <3>1, EndsKeeps DEF OutcomesOf
  <2>4. ASSUME CatalogStands(q), webRefs' = webRefs + 1, site'.doc = site.doc, site'.rev = site.rev,
               NEW r \in Reference, r.id = webRefs + 1, r.tool # NoTool, r.key = webCalls[q].key,
               site'.refs = site.refs \union {r}
        PROVE  Rest'
    <3>1. LeftBehind(r.key) => ClearingAfter(0)
      BY <2>1, <2>4 DEF LeftoversCleared, At
    <3>2. Still
      <4>1. ASSUME NEW p \in WebCall, NEW k, k = webCalls'[p].key, LeftBehind(k),
                   webCalls'[p].at = "running" \/ (webCalls'[p].at = "list" /\ webCalls'[p].rev = site'.rev)
            PROVE  ClearingAfter(0)
        <5>1. webCalls'[p] = webCalls[p]
          BY <2>1, <4>1 DEF CallsEnd
        <5> QED
          BY <2>4, <4>1, <5>1 DEF LeftoversCleared, At, CatalogStands
      <4>2. \A p \in WebCall : webCalls[p].at = "sent" => webCalls'[p] = webCalls[p]
        BY <2>1 DEF CallsEnd
      <4>3. \A s \in site'.refs : LeftBehind(s.key) => ClearingAfter(0)
        BY <2>4, <3>1 DEF LeftoversCleared
      <4> QED
        BY <1>4, <2>1, <4>1, <4>2, <4>3 DEF Still
    <3>3. ScriptsAgree' /\ LeftoversCleared'
      BY <3>2, StillKeeps
    <3>4. ReferencesAgree'
      <4>1. Known(r.key) /\ r.key[1] \in Nat /\ r.key[1] <= webWorker.run
        BY <2>1, <2>4 DEF CallsAgree, CallAgrees, InSession, Known
      <4>2. webRefs \in Nat /\ \A s \in site.refs : s.id \in Nat /\ s.id <= webRefs
        BY CountsTyped DEF ReferencesAgree, WebTypeOK, SiteOK, Reference
      <4>3. ASSUME NEW s \in site'.refs
            PROVE  /\ s.id <= webRefs' /\ s.tool # NoTool /\ Known(s.key)' /\ s.key[1] \in Nat
                   /\ s.key[1] <= webWorker'.run
        <5>1. Known(s.key) /\ s.tool # NoTool /\ s.key[1] \in Nat /\ s.key[1] <= webWorker.run /\ s.id <= webRefs'
          BY <2>4, <4>1, <4>2 DEF ReferencesAgree
        <5>2. PICK k : k = s.key
          OBVIOUS
        <5>3. Known(k)'
          BY <1>1, <1>2, <5>1, <5>2, KnownStays
        <5> QED
          BY <1>2, <5>1, <5>2, <5>3 DEF Known, FrameKeeps
      <4>4. ASSUME NEW s \in site'.refs, NEW t \in site'.refs, s.id = t.id PROVE s = t
        BY <2>4, <4>2, <4>4 DEF ReferencesAgree
      <4>5. ASSUME NEW p \in WebCall, webCalls'[p].tool # NoTool, NEW s \in site'.refs, s.id = webCalls'[p].ref
            PROVE  s.tool = webCalls'[p].tool
        <5>1. webCalls'[p].tool = webCalls[p].tool /\ webCalls'[p].ref = webCalls[p].ref
          BY <2>1 DEF CallsEnd, Same
        <5>2. webCalls[p].ref \in Nat /\ webCalls[p].ref <= webRefs
          BY CallTyped DEF CallsAgree, CallAgrees
        <5>3. s \in site.refs
          BY <2>4, <4>2, <4>5, <5>1, <5>2
        <5> QED
          BY <4>5, <5>1, <5>3 DEF ReferencesAgree
      <4>6. site'.doc >= 1
        BY <2>4 DEF ReferencesAgree
      <4> QED
        BY <4>3, <4>4, <4>5, <4>6 DEF ReferencesAgree
    <3>5. DispatchesAgree'
      <4>1. webCalls'[q].answer \notin OutcomesOf
        BY <2>1 DEF CallsEnd, OutcomesOf
      <4>2. \A p \in webPast.canceled : webCalls[p].at # "approving"
        BY DEF DispatchesAgree
      <4> QED
        BY <2>1, <4>1, <4>2, DispatchesOfEnds
    <3>6. TabAgrees'
      BY <2>1, TabOfGiven
    <3>7. PromptsAgree'
      <4>1. \A p \in WebCall : webCalls[p].at = "approving" => webCalls'[p].at = "approving"
        BY <2>1 DEF CallsEnd
      <4> QED
        BY <2>1, <4>1 DEF PromptsAgree, At, WebTypeOK, PopupsOK
    <3> QED
      BY <3>3, <3>4, <3>5, <3>6, <3>7 DEF Rest
  <2> QED
    BY <2>3, <2>4, ListsDoes
<1>9. RunningAgrees'
  BY ListsDoes DEF CallsEnd, CallGoes, TabGiven, Same, At, Of, RunningAgrees, WebTypeOK, SiteOK, InDocument
<1> QED
  BY <1>1, <1>3, <1>6, <1>9 DEF Rest

LEMMA GetsToolKeeps ==
  ASSUME WebToolsInv, NEW q \in WebCall, GetsTool(q)
  PROVE  WebToolsInv'
<1> USE WebAssumption DEF WebToolsInv
<1>1. WebTypeOK'
  BY GetsToolDoes
<1>2. FrameKeeps /\ DocumentKeeps
  <2>1. webWorker'.run = webWorker.run
    BY GetsToolDoes DEF TabGiven, DenialOf
  <2>2. /\ scope'.grant = scope.grant /\ webPast'.dropped = webPast.dropped /\ webRefs' = webRefs
        /\ site'.doc = site.doc /\ site'.rev = site.rev
    BY GetsToolDoes DEF TabGiven, DenialOf
  <2> QED
    BY <2>1, <2>2, FrameSame, DocumentSame
<1>3. CallsAgree'
  <2>1. \A p \in WebCall \ {q} : CallAgrees(p)'
    BY <1>1, <1>2, GetsToolDoes, OthersFit DEF CallsAgree
  <2>2. PICK r \in site.refs : r.id = webCalls[q].ref /\ webCalls'[q].tool = r.tool
    BY GetsToolDoes
  <2>3. r.tool # NoTool
    BY DEF ReferencesAgree
  <2>4. PICK c, d : c = webCalls[q] /\ d = webCalls'[q]
    OBVIOUS
  <2>5. /\ c.at = "get" /\ d.at = "got" /\ d.op = c.op /\ d.ref = c.ref /\ d.key = c.key /\ d.doc = c.doc
        /\ d.answer = c.answer /\ d.tool = r.tool
        /\ UNCHANGED <<webWorker, scope, site, webPast, webRefs>>
    BY <2>2, <2>4, GetsToolDoes DEF At
  <2>6. CallAgrees(q) /\ site.doc >= 1
    BY DEF CallsAgree, ReferencesAgree
  <2>7. Known(c.key) => Known(d.key)'
    BY <2>5 DEF Known
  <2> QED
    BY <2>1, <2>3, <2>4, <2>5, <2>6, <2>7 DEF CallsAgree, CallAgrees, Of, InSession, InDocument
<1>4. Fades
  BY GetsToolDoes, FadesIf DEF TabGiven, DenialOf
<1>6. Rest'
  <2>1. /\ webCalls[q].at = "get" /\ UNCHANGED <<webWorker, popups, site, scripts, scope, webPast, webRefs>>
        /\ \A p \in WebCall \ {q} : webCalls'[p] = webCalls[p]
        /\ webCalls'[q].at = "got" /\ webCalls'[q].op = webCalls[q].op /\ webCalls'[q].ref = webCalls[q].ref
        /\ webCalls'[q].key = webCalls[q].key /\ webCalls'[q].answer = webCalls[q].answer
    BY GetsToolDoes DEF At
  <2>2. PICK r \in site.refs : r.id = webCalls[q].ref /\ webCalls'[q].tool = r.tool
    BY GetsToolDoes
  <2>3. Still
    <3>1. ASSUME NEW p \in WebCall, NEW k, k = webCalls'[p].key, LeftBehind(k),
                 webCalls'[p].at = "running" \/ (webCalls'[p].at = "list" /\ webCalls'[p].rev = site'.rev)
          PROVE  ClearingAfter(0)
      <4>1. webCalls'[p] = webCalls[p]
        BY <2>1, <3>1
      <4> QED
        BY <2>1, <3>1, <4>1 DEF LeftoversCleared, At, CatalogStands
    <3>2. \A p \in WebCall : webCalls[p].at = "sent" => webCalls'[p] = webCalls[p]
      BY <2>1
    <3> QED
      BY <1>4, <2>1, <3>1, <3>2 DEF Still, LeftoversCleared
  <2>4. ScriptsAgree' /\ LeftoversCleared'
    BY <2>3, StillKeeps
  <2>5. ReferencesAgree'
    <3>1. \A s \in site'.refs : /\ s.id <= webRefs' /\ s.tool # NoTool /\ Known(s.key)' /\ s.key[1] \in Nat
                                /\ s.key[1] <= webWorker'.run
      BY <2>1 DEF ReferencesAgree, Known
    <3>2. ASSUME NEW p \in WebCall, webCalls'[p].tool # NoTool, NEW s \in site.refs, s.id = webCalls'[p].ref
          PROVE  s.tool = webCalls'[p].tool
      <4>1. CASE p = q
        BY <2>1, <2>2, <3>2, <4>1 DEF ReferencesAgree
      <4>2. CASE p # q
        <5>1. webCalls'[p] = webCalls[p]
          BY <2>1, <4>2
        <5> QED
          BY <3>2, <5>1 DEF ReferencesAgree
      <4> QED
        BY <4>1, <4>2
    <3> QED
      BY <2>1, <3>1, <3>2 DEF ReferencesAgree
  <2>6. DispatchesAgree'
    BY <2>1, DispatchesOfGoing
  <2>7. TabAgrees'
    <3>1. ASSUME NEW p \in WebCall PROVE Busy(p)' <=> Busy(p)
      <4>1. CASE p = q
        BY <2>1, <4>1 DEF Busy, Of, At
      <4>2. CASE p # q
        BY <2>1, <4>2 DEF Busy, Of, At
      <4> QED
        BY <4>1, <4>2
    <3> QED
      BY <2>1, <3>1 DEF TabAgrees
  <2>8. PromptsAgree'
    BY <2>1 DEF PromptsAgree, At, WebTypeOK, PopupsOK
  <2> QED
    BY <2>4, <2>5, <2>6, <2>7, <2>8 DEF Rest
<1>9. RunningAgrees'
  BY GetsToolDoes DEF CallsEnd, CallGoes, TabGiven, Same, At, Of, RunningAgrees, WebTypeOK, SiteOK, InDocument
<1> QED
  BY <1>1, <1>3, <1>6, <1>9 DEF Rest

LEMMA IsStaleKeeps ==
  ASSUME WebToolsInv, NEW q \in WebCall, IsStale(q)
  PROVE  WebToolsInv'
<1> USE WebAssumption DEF WebToolsInv
<1>1. WebTypeOK'
  BY IsStaleDoes
<1>2. FrameKeeps /\ DocumentKeeps
  <2>1. webWorker'.run = webWorker.run
    BY IsStaleDoes DEF TabGiven, DenialOf
  <2>2. /\ scope'.grant = scope.grant /\ webPast'.dropped = webPast.dropped /\ webRefs' = webRefs
        /\ site'.doc = site.doc /\ site'.rev = site.rev
    BY IsStaleDoes DEF TabGiven, DenialOf
  <2> QED
    BY <2>1, <2>2, FrameSame, DocumentSame
<1>3. CallsAgree'
  BY <1>1, <1>2, IsStaleDoes, OthersFit, EndedFit DEF At, CallsAgree, CallsEnd
<1>4. Fades
  BY IsStaleDoes, FadesIf DEF TabGiven, DenialOf
<1>5. SiteSmaller
  BY IsStaleDoes DEF SiteSmaller, CallsEnd, ReferencesAgree, SiteKeeps
<1>6. Rest'
  <2>1. CallsEnd({q}, {"stale"}) /\ TabGiven({q})
    BY IsStaleDoes
  <2>2. PastSame /\ scripts' = scripts /\ popups'.open = popups.open
    BY IsStaleDoes DEF PastSame
  <2> QED
    BY <1>1, <1>2, <1>4, <1>5, <2>1, <2>2, IsStaleDoes, EndsKeeps DEF OutcomesOf, At, InDocument
<1>9. RunningAgrees'
  BY IsStaleDoes DEF CallsEnd, CallGoes, TabGiven, Same, At, Of, RunningAgrees, WebTypeOK, SiteOK, InDocument
<1> QED
  BY <1>1, <1>3, <1>6, <1>9 DEF Rest

LEMMA ExecutesKeeps ==
  ASSUME WebToolsInv, NEW q \in WebCall, Executes(q)
  PROVE  WebToolsInv'
<1> USE WebAssumption DEF WebToolsInv
<1>1. WebTypeOK'
  BY ExecutesDoes
<1>2. FrameKeeps /\ DocumentKeeps
  <2>1. webWorker'.run = webWorker.run
    BY ExecutesDoes DEF TabGiven, DenialOf
  <2>2. /\ scope'.grant = scope.grant /\ webPast'.dropped = webPast.dropped /\ webRefs' = webRefs
        /\ site'.doc = site.doc /\ site'.rev = site.rev
    BY ExecutesDoes DEF TabGiven, DenialOf
  <2> QED
    BY <2>1, <2>2, FrameSame, DocumentSame
<1>3. CallsAgree'
  <2>1. \A p \in WebCall \ {q} : CallAgrees(p)'
    BY <1>1, <1>2, ExecutesDoes, OthersFit DEF CallsAgree, CallsEnd, CallGoes
  <2>2. CallAgrees(q)'
    BY <1>1, <1>2, ExecutesDoes, GoneOnFits, EndedFit, CountsTyped DEF CallsAgree, At, CallsEnd, InSession, InDocument, FrameKeeps, DocumentKeeps, Of, CallAgrees, CallState, Known, SessionKey
  <2> QED
    BY <2>1, <2>2 DEF CallsAgree
<1>4. Fades
  BY ExecutesDoes, FadesIf DEF TabGiven, DenialOf
<1>6. Rest'
  <2>1. /\ webCalls[q].at = "execute" /\ UNCHANGED <<popups, scripts, scope, webRefs>>
        /\ webCalls[q].tool # NoTool /\ webCalls[q].doc = site.doc /\ webCalls[q].answer = "none"
    BY ExecutesDoes DEF At, CallsAgree, CallAgrees, InDocument
  <2>2. CASE CallsEnd({q}, {"busy"}) /\ TabGiven({q}) /\ site' = site /\ webPast' = webPast
    <3>1. SiteSmaller
      BY <2>1, <2>2 DEF SiteSmaller, CallsEnd, ReferencesAgree
    <3>2. PastSame
      BY <2>2 DEF PastSame
    <3> QED
      BY <1>1, <1>2, <1>4, <2>1, <2>2, <3>1, <3>2, EndsKeeps DEF OutcomesOf
  <2>3. ASSUME CallGoes(q, "running"), UNCHANGED webWorker,
               site'.doc = site.doc, site'.rev = site.rev, site'.refs = site.refs,
               webPast'.approved = webPast.approved, webPast'.canceled = webPast.canceled,
               webPast'.dropped = webPast.dropped,
               NEW r \in site.refs, r.id = webCalls[q].ref, r.key = webCalls[q].key,
               <<q, r.tool, site.doc>> \in Use,
               webPast'.dispatched = Append(webPast.dispatched, <<q, r.tool, site.doc>>)
        PROVE  Rest'
    <3>1. /\ \A p \in WebCall \ {q} : webCalls'[p] = webCalls[p]
          /\ webCalls'[q].at = "running" /\ webCalls'[q].answer = "none" /\ webCalls'[q].key = webCalls[q].key
          /\ webCalls'[q].tool = webCalls[q].tool /\ webCalls'[q].doc = webCalls[q].doc
          /\ webCalls'[q].ref = webCalls[q].ref
      BY <2>1, <2>3 DEF CallGoes, Same
    <3>2. Still
      <4>1. ASSUME NEW p \in WebCall, NEW k, k = webCalls'[p].key, LeftBehind(k),
                   webCalls'[p].at = "running" \/ (webCalls'[p].at = "list" /\ webCalls'[p].rev = site'.rev)
            PROVE  ClearingAfter(0)
        <5>1. CASE p = q
          BY <2>3, <3>1, <4>1, <5>1 DEF LeftoversCleared
        <5>2. CASE p # q
          <6>1. webCalls'[p] = webCalls[p]
            BY <3>1, <5>2
          <6> QED
            BY <2>3, <4>1, <6>1 DEF LeftoversCleared, At, CatalogStands
        <5> QED
          BY <5>1, <5>2
      <4>2. \A p \in WebCall : webCalls[p].at = "sent" => webCalls'[p] = webCalls[p]
        BY <2>1, <3>1
      <4> QED
        BY <1>4, <2>1, <2>3, <4>1, <4>2 DEF Still, LeftoversCleared
    <3>3. ScriptsAgree' /\ LeftoversCleared'
      BY <3>2, StillKeeps
    <3>4. ReferencesAgree'
      <4>1. \A p \in WebCall : webCalls'[p].tool = webCalls[p].tool /\ webCalls'[p].ref = webCalls[p].ref
        BY <3>1
      <4> QED
        BY <1>1, <1>2, <2>3, <4>1, ReferencesStay DEF ReferencesAgree
    <3>5. DispatchesAgree'
      <4>1. PICK u \in Use : u = <<q, r.tool, site.doc>>
        BY <2>3
      <4>2. PICK d \in Seq(Use), n \in Nat : d = webPast.dispatched /\ n = Len(d) /\ DOMAIN d = 1..n
        BY DEF WebTypeOK, PastOK
      <4>3. webPast'.dispatched = Append(d, u) /\ u[1] = q
        BY <2>3, <4>1, <4>2
      <4>4. /\ DOMAIN webPast'.dispatched = 1..(n + 1) /\ Len(webPast'.dispatched) = n + 1
            /\ \A i \in 1..n : webPast'.dispatched[i] = d[i]
            /\ webPast'.dispatched[n + 1] = u
        BY <4>2, <4>3
      <4>5. \A i \in 1..(n + 1) : i \in 1..n \/ i = n + 1
        OBVIOUS
      <4>6. 1..n \subseteq 1..(n + 1) /\ n + 1 \in 1..(n + 1)
        OBVIOUS
      <4>7. Dispatched' = Dispatched \union {q}
        <5>1. Dispatched = {d[i][1] : i \in 1..n}
          BY <4>2 DEF Dispatched
        <5>2. Dispatched' = {webPast'.dispatched[i][1] : i \in 1..(n + 1)}
          BY <4>4 DEF Dispatched
        <5>3. \A p \in Dispatched' : p \in Dispatched \union {q}
          BY <4>3, <4>4, <4>5, <5>1, <5>2
        <5>4. \A p \in Dispatched : p \in Dispatched'
          BY <4>4, <4>6, <5>1, <5>2
        <5>5. q \in Dispatched'
          BY <4>3, <4>4, <4>6, <5>2
        <5> QED
          BY <5>3, <5>4, <5>5
      <4>8. q \notin Dispatched
        BY <2>1 DEF DispatchesAgree
      <4>9. IsFiniteSet(Dispatched') /\ Len(webPast'.dispatched) = Cardinality(Dispatched')
        <5>1. IsFiniteSet(Dispatched) /\ n = Cardinality(Dispatched)
          BY <4>2 DEF DispatchesAgree
        <5>2. IsFiniteSet(Dispatched \union {q}) /\ Cardinality(Dispatched \union {q}) = n + 1
          BY <4>8, <5>1, FS_AddElement
        <5> QED
          BY <4>4, <4>7, <5>2
      <4>10. u \in webPast'.approved
        <5>1. r.tool = webCalls[q].tool
          BY <2>1, <2>3 DEF ReferencesAgree
        <5>2. <<q, webCalls[q].tool, webCalls[q].doc>> \in webPast.approved
          BY <2>1 DEF DispatchesAgree
        <5> QED
          BY <2>1, <2>3, <4>1, <5>1, <5>2
      <4>11. \A i \in DOMAIN webPast'.dispatched : webPast'.dispatched[i] \in webPast'.approved
        <5>1. \A i \in 1..n : d[i] \in webPast'.approved
          BY <2>3, <4>2 DEF DispatchesAgree
        <5> QED
          BY <4>4, <4>5, <4>10, <5>1
      <4>12. ASSUME NEW p \in WebCall, webCalls'[p].at \in {"rechecking", "sent", "execute", "running"},
                    webCalls'[p].tool # NoTool
             PROVE  <<p, webCalls'[p].tool, webCalls'[p].doc>> \in webPast'.approved
        <5>1. CASE p = q
          BY <2>1, <2>3, <3>1, <5>1 DEF DispatchesAgree
        <5>2. CASE p # q
          <6>1. webCalls'[p] = webCalls[p]
            BY <3>1, <5>2
          <6> QED
            BY <2>3, <4>12, <6>1 DEF DispatchesAgree
        <5> QED
          BY <5>1, <5>2
      <4>13. \A p \in Dispatched' : /\ webCalls'[p].at \in {"running", "done"}
                                    /\ webCalls'[p].answer \in {"none", "completed", "uncertain", "timeout", "cancelled"}
        <5>1. \A p \in Dispatched : p \in WebCall \ {q}
          BY <4>8 DEF Dispatched, WebTypeOK, PastOK, Use
        <5> QED
          BY <3>1, <4>7, <5>1 DEF DispatchesAgree
      <4>14. \A p \in WebCall : webCalls'[p].at = "running" \/ webCalls'[p].answer \in {"completed", "timeout", "cancelled"}
               => p \in Dispatched'
        BY <3>1, <4>7 DEF DispatchesAgree
      <4>15. ASSUME NEW p \in webPast'.canceled
             PROVE  /\ p \notin Dispatched'
                    /\ \/ webCalls'[p].at \in {"resolving", "get", "got", "rechecking", "done"}
                       \/ webCalls'[p].at = "sent" /\ PartOf(webCalls'[p]) = "get"
        <5>1. p \in webPast.canceled /\ p \in WebCall /\ p # q
          BY <2>1, <2>3 DEF DispatchesAgree, WebTypeOK, PastOK
        <5>2. webCalls'[p] = webCalls[p]
          BY <3>1, <5>1
        <5> QED
          BY <4>7, <5>1, <5>2 DEF DispatchesAgree
      <4> QED
        BY <4>9, <4>11, <4>12, <4>13, <4>14, <4>15 DEF DispatchesAgree, Dispatched
    <3>6. TabAgrees'
      BY <2>1, <2>3, TabOfGoing
    <3>7. PromptsAgree'
      BY <2>1, <2>3, <3>1 DEF PromptsAgree, At, WebTypeOK, PopupsOK
    <3> QED
      BY <3>3, <3>4, <3>5, <3>6, <3>7 DEF Rest
  <2> QED
    BY <2>2, <2>3, ExecutesDoes
<1>9. RunningAgrees'
  BY ExecutesDoes DEF CallsEnd, CallGoes, TabGiven, Same, At, Of, RunningAgrees, WebTypeOK, SiteOK, InDocument
<1> QED
  BY <1>1, <1>3, <1>6, <1>9 DEF Rest

LEMMA CancelsKeeps ==
  ASSUME WebToolsInv, NEW q \in WebCall, Cancels(q)
  PROVE  WebToolsInv'
<1> USE WebAssumption DEF WebToolsInv
<1>1. WebTypeOK'
  BY CancelsDoes
<1>2. FrameKeeps /\ DocumentKeeps
  <2>1. webWorker'.run = webWorker.run
    BY CancelsDoes DEF TabGiven, DenialOf
  <2>2. /\ scope'.grant = scope.grant /\ webPast'.dropped = webPast.dropped /\ webRefs' = webRefs
        /\ site'.doc = site.doc /\ site'.rev = site.rev
    BY CancelsDoes DEF TabGiven, DenialOf, CanceledOf
  <2> QED
    BY <2>1, <2>2, FrameSame, DocumentSame
<1>3. CallsAgree'
  BY <1>1, <1>2, CancelsDoes, OthersFit, EndedFit DEF DenialOf, Asked, At, CallsAgree, CallsEnd
<1>4. Fades
  BY CancelsDoes, FadesIf DEF TabGiven, DenialOf
<1>5. Rest'
  <2>1. DenialOf(Asked({q})) /\ CanceledOf({q}) /\ site' = site /\ scripts' = scripts
    BY CancelsDoes DEF PastSame
  <2> QED
    BY <1>1, <1>2, <1>4, <2>1, DenialKeeps
<1>9. RunningAgrees'
  BY CancelsDoes DEF CallsEnd, CallGoes, TabGiven, Same, At, Of, DenialOf, Asked, CanceledOf, Cancelable, RunningAgrees, WebTypeOK, SiteOK, InDocument
<1> QED
  BY <1>1, <1>3, <1>5, <1>9 DEF Rest

LEMMA ClearRunsKeeps ==
  ASSUME WebToolsInv, ClearRuns
  PROVE  WebToolsInv'
<1> USE WebAssumption DEF WebToolsInv
<1>1. WebTypeOK'
  BY ClearRunsDoes
<1>2. FrameKeeps /\ DocumentKeeps
  BY ClearRunsDoes, CountsTyped DEF FrameKeeps, DocumentKeeps, TabGiven, DenialOf
<1>3. CallsAgree'
  BY <1>1, <1>2, ClearRunsDoes, OthersFit, EndedFit DEF RunningAgrees, CallsAgree, CallsEnd
<1>4. Fades
  BY ClearRunsDoes, FadesIf DEF TabGiven, DenialOf
<1>6. Rest'
  <2>1. /\ FirstGone /\ scripts[1].part = "clear" /\ UNCHANGED <<popups, scope, webPast>>
        /\ site'.refs = {} /\ site'.rev = site.rev + 1 /\ site'.doc = site.doc
    BY ClearRunsDoes
  <2>2. PICK qs \in SUBSET WebCall :
          /\ CallsEnd(qs, {"cancelled"}) /\ TabGiven(qs)
          /\ \A p \in WebCall : p \in qs <=> webCalls[p].at = "running"
    <3>1. CASE site.active # NoWebCall /\ ~site.aborted
      BY <3>1, ClearRunsDoes DEF RunningAgrees
    <3>2. CASE site.active = NoWebCall \/ site.aborted
      <4>1. CallsEnd({}, {"cancelled"}) /\ TabGiven({})
        BY <3>2, ClearRunsDoes DEF CallsEnd, TabGiven
      <4>2. \A p \in WebCall : webCalls[p].at # "running"
        BY <3>2 DEF RunningAgrees
      <4> QED
        BY <4>1, <4>2
    <3> QED
      BY <3>1, <3>2
  <2>3. \A p \in WebCall : webCalls[p].at # "running" => webCalls'[p] = webCalls[p]
    BY <2>2 DEF CallsEnd
  <2>4. /\ ScriptsAgree'
        /\ \A i \in DOMAIN scripts' : scripts'[i].part = "list" /\ LeftBehind(webCalls[scripts[i].call].key)'
             => ClearingAfter(i)'
    BY <1>1, <1>4, <2>1, <2>3, FirstGoneKeeps
  <2>5. LeftoversCleared'
    <3>1. \A p \in WebCall : webCalls'[p].at # "running"
      BY <2>2 DEF CallsEnd
    <3>2. ASSUME NEW p \in WebCall, webCalls'[p].at = "list" PROVE webCalls'[p].rev # site'.rev
      <4>1. webCalls'[p] = webCalls[p]
        BY <2>2, <3>2 DEF CallsEnd
      <4>2. webCalls[p].rev <= site.rev
        BY <3>2, <4>1 DEF CallsAgree, CallAgrees, InDocument
      <4> QED
        BY <2>1, <4>1, <4>2, CallTyped, CountsTyped
    <3> QED
      BY <2>1, <2>4, <3>1, <3>2 DEF LeftoversCleared, At, CatalogStands
  <2>6. ReferencesAgree'
    <3>1. \A p \in WebCall : webCalls'[p].tool = webCalls[p].tool /\ webCalls'[p].ref = webCalls[p].ref
      BY <2>2 DEF CallsEnd, Same
    <3> QED
      BY <1>1, <1>2, <2>1, <3>1, ReferencesStay DEF ReferencesAgree
  <2>7. DispatchesAgree'
    <3>1. \A p \in qs : webCalls[p].at = "running" /\ webCalls'[p].answer \in OutcomesOf
      BY <2>2 DEF CallsEnd, OutcomesOf
    <3>2. \A p \in webPast.canceled : webCalls[p].at # "approving"
      BY DEF DispatchesAgree
    <3> QED
      BY <2>1, <2>2, <3>1, <3>2, DispatchesOfEnds
  <2>8. TabAgrees'
    BY <2>2, TabOfGiven
  <2>9. PromptsAgree'
    BY <2>1, <2>3 DEF PromptsAgree, At, WebTypeOK, PopupsOK
  <2> QED
    BY <2>4, <2>5, <2>6, <2>7, <2>8, <2>9 DEF Rest
<1>9. RunningAgrees'
  BY ClearRunsDoes DEF CallsEnd, CallGoes, TabGiven, Same, At, Of, RunningAgrees, WebTypeOK, SiteOK, InDocument
<1> QED
  BY <1>1, <1>3, <1>6, <1>9 DEF Rest

LEMMA ScriptRunsKeeps ==
  ASSUME WebToolsInv, ScriptRuns, NEW q \in WebCall, q = scripts[1].call
  PROVE  WebToolsInv'
<1> USE WebAssumption DEF WebToolsInv
<1>1. WebTypeOK'
  BY ScriptRunsDoes
<1>2. FrameKeeps /\ DocumentKeeps
  <2>1. webWorker'.run = webWorker.run
    BY ScriptRunsDoes DEF TabGiven, DenialOf
  <2>2. /\ scope'.grant = scope.grant /\ webPast'.dropped = webPast.dropped /\ webRefs' = webRefs
        /\ site'.doc = site.doc /\ site'.rev = site.rev
    BY ScriptRunsDoes DEF TabGiven, DenialOf
  <2> QED
    BY <2>1, <2>2, FrameSame, DocumentSame
<1>3. CallsAgree'
  <2>0. CallsEnd({q}, {"uncertain"}) \/ \A p \in WebCall \ {q} : webCalls'[p] = webCalls[p]
    BY ScriptRunsDoes
  <2>1. \A p \in WebCall \ {q} : webCalls'[p] = webCalls[p]
    BY <2>0 DEF CallsEnd
  <2>2. \A p \in WebCall \ {q} : CallAgrees(p)'
    BY <1>1, <1>2, <2>1, OthersFit DEF CallsAgree
  <2>3. /\ CallAgrees(q) /\ webCalls[q].at = "sent" /\ scripts[1].part = PartOf(webCalls[q])
        /\ scripts[1].pin = IF PartOf(webCalls[q]) = "execute" THEN webCalls[q].doc ELSE 0
    BY ScriptRunsDoes DEF CallsAgree, ScriptsAgree, FirstGone
  <2>4. CASE webCalls'[q].at = "done"
    <3>1. Same(webCalls[q], webCalls'[q])
      BY <2>3, <2>4, ScriptRunsDoes DEF CallsEnd, PartOf
    <3>2. CallAgrees(q)'
      BY <1>1, <1>2, <2>3, <2>4, <3>1, EndedFit
    <3> QED
      BY <2>2, <3>2 DEF CallsAgree
  <2>5. CASE webCalls'[q].at # "done"
    <3>1. PICK c, d : c = webCalls[q] /\ d = webCalls'[q]
      OBVIOUS
    <3>2. /\ d.at = PartOf(c) /\ d.doc = site.doc /\ d.rev = site.rev /\ d.op = c.op /\ d.ref = c.ref
          /\ d.key = c.key /\ d.tool = c.tool /\ d.answer = c.answer
          /\ UNCHANGED <<webWorker, site, scope, webPast, webRefs>>
      BY <2>3, <2>5, <3>1, ScriptRunsDoes DEF CallsEnd
    <3>3. c.op \in {"none", "list", "execute"}
      BY <3>1, CallTyped
    <3>4. Known(c.key) => Known(d.key)'
      BY <3>2 DEF Known
    <3>5. site.doc >= 1 /\ site.rev <= site.rev
      BY CountsTyped DEF ReferencesAgree
    <3>6. c.op # "none"
      BY <2>3, <3>1 DEF CallAgrees
    <3>8. /\ d.at \in {"list", "get", "execute"}
          /\ d.at = "list" => d.op = "list"
          /\ d.at \in {"get", "execute"} => d.op = "execute"
          /\ d.at \in {"list", "get"} => d.tool = NoTool
          /\ d.at = "execute" => d.tool # NoTool
      BY <3>2, <3>3, <3>6, <2>3, <3>1 DEF PartOf, CallAgrees
    <3>9. /\ d.key # <<>> /\ Known(d.key)' /\ d.answer = "none" /\ d.ref <= webRefs'
          /\ d.key[1] \in Nat /\ d.key[1] <= webWorker'.run
          /\ q \in webPast'.dropped <=> d.key[1] # webWorker'.run
      BY <2>3, <3>1, <3>2, <3>4 DEF CallAgrees, InSession, Known
    <3>10. d.doc = site'.doc /\ d.rev <= site'.rev /\ d.doc >= 1
      BY <3>2, <3>5
    <3>7. CallAgrees(q)'
      BY <3>1, <3>8, <3>9, <3>10 DEF CallAgrees, InSession, InDocument
    <3> QED
      BY <2>2, <3>7 DEF CallsAgree
  <2> QED
    BY <2>4, <2>5
<1>4. Fades
  BY ScriptRunsDoes, FadesIf DEF TabGiven, DenialOf
<1>6. Rest'
  <2>1. /\ FirstGone /\ scripts[1].part # "clear" /\ UNCHANGED <<popups, site, scope, webPast, webRefs>>
        /\ 1 \in DOMAIN scripts
    BY ScriptRunsDoes DEF FirstGone
  <2>2. /\ webCalls[q].at = "sent" /\ scripts[1].part = PartOf(webCalls[q])
        /\ scripts[1].pin = IF PartOf(webCalls[q]) = "execute" THEN webCalls[q].doc ELSE 0
    BY <2>1 DEF ScriptsAgree
  <2>3. \A p \in WebCall \ {q} : webCalls'[p] = webCalls[p]
    <3>1. CallsEnd({q}, {"uncertain"}) \/ \A p \in WebCall \ {q} : webCalls'[p] = webCalls[p]
      BY ScriptRunsDoes
    <3> QED
      BY <3>1 DEF CallsEnd
  <2>4. /\ ScriptsAgree'
        /\ ClearingAfter(1) => ClearingAfter(0)'
        /\ ClearingAfter(0) => ClearingAfter(0)'
        /\ \A i \in DOMAIN scripts' : scripts'[i].part = "list" /\ LeftBehind(webCalls[scripts[i].call].key)'
             => ClearingAfter(i)'
    BY <1>1, <1>4, <2>1, <2>3, FirstGoneKeeps
  <2>5. webCalls'[q].key = webCalls[q].key /\ webCalls'[q].tool = webCalls[q].tool /\ webCalls'[q].ref = webCalls[q].ref
        /\ webCalls'[q].op = webCalls[q].op /\ webCalls'[q].at # "running"
    BY <2>2, ScriptRunsDoes DEF CallsEnd, Same, PartOf
  <2>6. webCalls'[q].at = "list" => scripts[1].part = "list"
    BY ScriptRunsDoes DEF CallsEnd
  <2>7. LeftoversCleared'
    <3>1. ASSUME NEW p \in WebCall, At(p, "running")' \/ (At(p, "list") /\ CatalogStands(p))', LeftBehind(webCalls[p].key)'
          PROVE  ClearingAfter(0)'
      <4>1. webCalls'[p].key = webCalls[p].key
        BY <2>3, <2>5
      <4>2. LeftBehind(webCalls[p].key)
        BY <1>4, <3>1, <4>1 DEF Fades
      <4>3. CASE p = q
        <5>1. scripts[1].part = "list"
          BY <2>5, <2>6, <3>1, <4>3 DEF At
        <5>2. ClearingAfter(1)
          BY <2>1, <4>2, <4>3, <5>1 DEF LeftoversCleared
        <5> QED
          BY <2>4, <5>2
      <4>4. CASE p # q
        <5>1. webCalls'[p] = webCalls[p]
          BY <2>3, <4>4
        <5> QED
          BY <2>1, <2>4, <3>1, <4>2, <5>1 DEF LeftoversCleared, At, CatalogStands
      <4> QED
        BY <4>3, <4>4
    <3>2. \A r \in site'.refs : LeftBehind(r.key)' => ClearingAfter(0)'
      BY <1>4, <2>1, <2>4 DEF Fades, LeftoversCleared
    <3> QED
      BY <2>4, <3>1, <3>2 DEF LeftoversCleared
  <2>8. ReferencesAgree'
    <3>1. \A p \in WebCall : webCalls'[p].tool = webCalls[p].tool /\ webCalls'[p].ref = webCalls[p].ref
      BY <2>3, <2>5
    <3> QED
      BY <1>1, <1>2, <2>1, <3>1, ReferencesStay DEF ReferencesAgree
  <2>9. PromptsAgree'
    BY <2>1, <2>2, <2>3 DEF PromptsAgree, At, WebTypeOK, PopupsOK
  <2>10. CASE CallsEnd({q}, {"uncertain"}) /\ TabGiven({q})
    <3>1. webCalls'[q].answer \notin OutcomesOf
      BY <2>10 DEF CallsEnd, OutcomesOf
    <3>2. \A p \in webPast.canceled : webCalls[p].at # "approving"
      BY DEF DispatchesAgree
    <3>3. DispatchesAgree'
      BY <2>1, <2>2, <2>10, <3>1, <3>2, DispatchesOfEnds
    <3>4. TabAgrees'
      BY <2>2, <2>10, TabOfGiven
    <3> QED
      BY <2>4, <2>7, <2>8, <2>9, <3>3, <3>4 DEF Rest
  <2>11. CASE /\ scripts[1].pin \in {0, site.doc} /\ UNCHANGED webWorker
              /\ webCalls'[q].at = scripts[1].part /\ webCalls'[q].doc = site.doc
              /\ webCalls'[q].answer = webCalls[q].answer
    <3>1. PartOf(webCalls[q]) = "execute" => webCalls[q].tool # NoTool /\ webCalls[q].doc >= 1 /\ webCalls[q].doc # 0
      BY CallTyped DEF PartOf, CallsAgree, CallAgrees
    <3>2. PartOf(webCalls[q]) = "execute" => webCalls[q].doc = site.doc
      BY <2>2, <2>11, <3>1
    <3>3. <<q, webCalls[q].tool, webCalls[q].doc>> \in webPast.approved \/ webCalls[q].tool = NoTool
      BY <2>2 DEF DispatchesAgree
    <3>4. webCalls[q].tool # NoTool => PartOf(webCalls[q]) = "execute"
      BY DEF PartOf, CallsAgree, CallAgrees
    <3>5. webCalls'[q].tool # NoTool => <<q, webCalls'[q].tool, webCalls'[q].doc>> \in webPast.approved
      BY <2>5, <2>11, <3>2, <3>3, <3>4
    <3>6. q \in webPast.canceled => webCalls'[q].at = "get"
      BY <2>2, <2>11 DEF DispatchesAgree
    <3>7. DispatchesAgree'
      BY <2>1, <2>2, <2>3, <2>5, <2>11, <3>5, <3>6, DispatchesOfGoing
    <3>8. TabAgrees'
      <4>1. ASSUME NEW p \in WebCall PROVE Busy(p)' <=> Busy(p)
        <5>1. CASE p = q
          <6>1. webCalls'[q].at \notin {"resolving", "done"}
            BY <2>2, <2>11 DEF PartOf
          <6> QED
            BY <2>2, <2>5, <2>11, <5>1, <6>1 DEF Busy, Of, At
        <5>2. CASE p # q
          BY <2>3, <2>11, <5>2 DEF Busy, Of, At
        <5> QED
          BY <5>1, <5>2
      <4> QED
        BY <2>11, <4>1 DEF TabAgrees
    <3> QED
      BY <2>4, <2>7, <2>8, <2>9, <3>7, <3>8 DEF Rest
  <2> QED
    BY <2>10, <2>11, ScriptRunsDoes
<1>9. RunningAgrees'
  <2>1. webCalls[q].at = "sent" /\ webCalls'[q].at # "running" /\ site' = site
    BY ScriptRunsDoes DEF ScriptsAgree, FirstGone, CallsEnd, PartOf
  <2>0. CallsEnd({q}, {"uncertain"}) \/ \A p \in WebCall \ {q} : webCalls'[p] = webCalls[p]
    BY ScriptRunsDoes
  <2>2. \A p \in WebCall \ {q} : webCalls'[p] = webCalls[p]
    BY <2>0 DEF CallsEnd
  <2> QED
    BY <2>1, <2>2 DEF RunningAgrees, WebTypeOK, SiteOK
<1> QED
  BY <1>1, <1>3, <1>6, <1>9 DEF Rest

LEMMA TimesOutKeeps ==
  ASSUME WebToolsInv, TimesOut
  PROVE  WebToolsInv'
<1> USE WebAssumption DEF WebToolsInv
<1>1. WebTypeOK'
  BY TimesOutDoes
<1>2. FrameKeeps /\ DocumentKeeps
  <2>1. webWorker'.run = webWorker.run
    BY TimesOutDoes DEF TabGiven, DenialOf
  <2>2. /\ scope'.grant = scope.grant /\ webPast'.dropped = webPast.dropped /\ webRefs' = webRefs
        /\ site'.doc = site.doc /\ site'.rev = site.rev
    BY TimesOutDoes DEF TabGiven, DenialOf
  <2> QED
    BY <2>1, <2>2, FrameSame, DocumentSame
<1>3. CallsAgree'
  BY <1>1, <1>2, TimesOutDoes, OthersFit, EndedFit DEF RunningAgrees, CallsAgree, CallsEnd
<1>4. Fades
  BY TimesOutDoes, FadesIf DEF TabGiven, DenialOf
<1>5. SiteSmaller
  BY TimesOutDoes DEF SiteSmaller, CallsEnd, ReferencesAgree
<1>6. Rest'
  <2>1. PICK q \in WebCall : q = site.active /\ webCalls[q].at = "running"
    BY TimesOutDoes DEF RunningAgrees
  <2>2. PastSame /\ scripts' = scripts /\ popups'.open = popups.open
    BY TimesOutDoes DEF PastSame
  <2>3. CallsEnd({q}, {"timeout"}) /\ TabGiven({q})
    BY <2>1, TimesOutDoes
  <2> QED
    BY <1>1, <1>2, <1>4, <1>5, <2>1, <2>2, <2>3, EndsKeeps DEF OutcomesOf
<1>9. RunningAgrees'
  BY TimesOutDoes DEF CallsEnd, CallGoes, TabGiven, Same, At, Of, RunningAgrees, WebTypeOK, SiteOK, InDocument
<1> QED
  BY <1>1, <1>3, <1>6, <1>9 DEF Rest

LEMMA SettlesKeeps ==
  ASSUME WebToolsInv, NEW answer \in {"completed", "uncertain"}, CallbackSettles(answer)
  PROVE  WebToolsInv'
<1> USE WebAssumption DEF WebToolsInv
<1>1. WebTypeOK'
  BY SettlesDoes
<1>2. FrameKeeps /\ DocumentKeeps
  <2>1. webWorker'.run = webWorker.run
    BY SettlesDoes DEF TabGiven, DenialOf
  <2>2. /\ scope'.grant = scope.grant /\ webPast'.dropped = webPast.dropped /\ webRefs' = webRefs
        /\ site'.doc = site.doc /\ site'.rev = site.rev
    BY SettlesDoes DEF TabGiven, DenialOf
  <2> QED
    BY <2>1, <2>2, FrameSame, DocumentSame
<1>3. CallsAgree'
  BY <1>1, <1>2, SettlesDoes, OthersFit, EndedFit DEF RunningAgrees, CallsAgree, CallsEnd
<1>4. Fades
  BY SettlesDoes, FadesIf DEF TabGiven, DenialOf
<1>5. SiteSmaller
  BY SettlesDoes DEF SiteSmaller, CallsEnd, ReferencesAgree
<1>6. Rest'
  <2>1. PastSame /\ scripts' = scripts /\ popups'.open = popups.open
    BY SettlesDoes DEF PastSame
  <2>2. CASE site.aborted
    <3>1. CallsEnd({}, {}) /\ TabGiven({})
      BY <2>2, SettlesDoes DEF CallsEnd, TabGiven
    <3> QED
      BY <1>1, <1>2, <1>4, <1>5, <2>1, <3>1, EndsKeeps
  <2>3. CASE ~site.aborted
    <3>1. PICK q \in WebCall : q = site.active /\ webCalls[q].at = "running"
      BY <2>3, SettlesDoes DEF RunningAgrees
    <3>2. CallsEnd({q}, {"completed", "uncertain"}) /\ TabGiven({q})
      BY <2>3, <3>1, SettlesDoes
    <3> QED
      BY <1>1, <1>2, <1>4, <1>5, <2>1, <3>1, <3>2, EndsKeeps DEF OutcomesOf
  <2> QED
    BY <2>2, <2>3
<1>9. RunningAgrees'
  BY SettlesDoes DEF CallsEnd, CallGoes, TabGiven, Same, At, Of, RunningAgrees, WebTypeOK, SiteOK, InDocument
<1> QED
  BY <1>1, <1>3, <1>6, <1>9 DEF Rest

LEMMA ToolChangesKeeps ==
  ASSUME WebToolsInv, ToolChanges
  PROVE  WebToolsInv'
<1> USE WebAssumption DEF WebToolsInv
<1>1. WebTypeOK'
  BY ToolChangesDoes
<1>2. FrameKeeps /\ DocumentKeeps
  <2>1. webWorker'.run = webWorker.run
    BY ToolChangesDoes DEF TabGiven, DenialOf
  <2>2. /\ scope'.grant = scope.grant /\ webPast'.dropped = webPast.dropped /\ webRefs' = webRefs
        /\ site'.doc = site.doc /\ site'.rev = site.rev
    BY ToolChangesDoes DEF TabGiven, DenialOf, SiteKeeps
  <2> QED
    BY <2>1, <2>2, FrameSame, DocumentSame
<1>3. CallsAgree'
  BY <1>1, <1>2, ToolChangesDoes, OthersFit, EndedFit DEF CallsAgree, CallsEnd
<1>4. Fades
  BY ToolChangesDoes, FadesIf DEF TabGiven, DenialOf
<1>5. SiteSmaller
  BY ToolChangesDoes DEF SiteSmaller, ReferencesAgree, SiteKeeps
<1>6. Rest'
  <2>1. CallsEnd({}, {}) /\ TabGiven({})
    BY ToolChangesDoes DEF CallsEnd, TabGiven
  <2>2. PastSame /\ scripts' = scripts
    BY ToolChangesDoes DEF PastSame
  <2>3. \A p \in popups'.open : p \in popups.open \/ webCalls[p].at = "approving"
    BY ToolChangesDoes DEF At
  <2> QED
    BY <1>1, <1>2, <1>4, <1>5, <2>1, <2>2, <2>3, EndsKeeps
<1>9. RunningAgrees'
  BY ToolChangesDoes DEF CallsEnd, CallGoes, TabGiven, Same, At, Of, SiteKeeps, RunningAgrees, WebTypeOK, SiteOK, InDocument
<1> QED
  BY <1>1, <1>3, <1>6, <1>9 DEF Rest

LEMMA ToolToldKeeps ==
  ASSUME WebToolsInv, ToolTold
  PROVE  WebToolsInv'
<1> USE WebAssumption DEF WebToolsInv
<1>1. WebTypeOK'
  BY ToolToldDoes
<1>2. FrameKeeps /\ DocumentKeeps
  BY ToolToldDoes, CountsTyped DEF FrameKeeps, DocumentKeeps, TabGiven, DenialOf
<1>3. CallsAgree'
  BY <1>1, <1>2, ToolToldDoes, OthersFit, EndedFit DEF CallsAgree, CallsEnd
<1>4. Fades
  BY ToolToldDoes, FadesIf DEF TabGiven, DenialOf
<1>5. SiteSmaller
  <2>1. site'.doc = site.doc /\ site'.rev = site.rev + 1 /\ site'.refs = {} /\ webCalls' = webCalls
    BY ToolToldDoes
  <2>2. ASSUME NEW p \in WebCall, webCalls[p].at = "list" PROVE webCalls[p].rev # site.rev + 1
    <3>1. webCalls[p].rev <= site.rev
      BY <2>2 DEF CallsAgree, CallAgrees, InDocument
    <3> QED
      BY <3>1, CallTyped, CountsTyped
  <2> QED
    BY <2>1, <2>2 DEF SiteSmaller, ReferencesAgree
<1>6. Rest'
  <2>1. CallsEnd({}, {}) /\ TabGiven({})
    BY ToolToldDoes DEF CallsEnd, TabGiven
  <2>2. PastSame /\ scripts' = scripts
    BY ToolToldDoes DEF PastSame
  <2>3. \A p \in popups'.open : p \in popups.open \/ webCalls[p].at = "approving"
    BY ToolToldDoes DEF At
  <2> QED
    BY <1>1, <1>2, <1>4, <1>5, <2>1, <2>2, <2>3, EndsKeeps
<1>9. RunningAgrees'
  BY ToolToldDoes DEF CallsEnd, CallGoes, TabGiven, Same, At, Of, RunningAgrees, WebTypeOK, SiteOK, InDocument
<1> QED
  BY <1>1, <1>3, <1>6, <1>9 DEF Rest

LEMMA NavigatesKeeps ==
  ASSUME WebToolsInv, NEW moves \in BOOLEAN, NEW loads \in BOOLEAN, Navigates(moves, loads), NEW gone, gone = {q \in WebCall : InPage(q, loads)}
  PROVE  WebToolsInv'
<1> USE WebAssumption DEF WebToolsInv
<1>1. WebTypeOK'
  BY NavigatesDoes
<1>2. FrameKeeps
  <2>1. /\ webWorker'.run = webWorker.run /\ scope'.grant = scope.grant /\ webPast'.dropped = webPast.dropped
        /\ webRefs' = webRefs
    BY NavigatesDoes DEF TabGiven
  <2> QED
    BY <2>1, FrameSame
<1>3. CallsAgree'
  <2>1. CallsEnd(gone, {"uncertain", "unavailable"})
    BY NavigatesDoes
  <2>2. ~loads => DocumentKeeps
    <3>1. ~loads => SiteKeeps
      BY NavigatesDoes
    <3> QED
      BY <3>1, DocumentSame DEF SiteKeeps
  <2>3. ASSUME NEW p \in WebCall, p \in gone PROVE CallAgrees(p)'
    <3>1. webCalls[p].at # "new"
      BY <2>3 DEF InPage
    <3>2. Same(webCalls[p], webCalls'[p]) /\ webCalls'[p].at = "done"
      BY <2>1, <2>3 DEF CallsEnd
    <3> QED
      BY <1>1, <1>2, <3>1, <3>2, EndedFit DEF CallsAgree
  <2>4. ASSUME NEW p \in WebCall, p \notin gone PROVE CallAgrees(p)'
    <3>1. webCalls'[p] = webCalls[p]
      BY <2>1, <2>4 DEF CallsEnd
    <3>2. webCalls[p].at \in InDocument => DocumentKeeps
      BY <2>2, <2>4 DEF InPage, InDocument
    <3> QED
      BY <1>1, <1>2, <3>1, <3>2, OthersFit DEF CallsAgree
  <2> QED
    BY <2>3, <2>4 DEF CallsAgree
<1>4. Fades
  BY NavigatesDoes, FadesIf DEF TabGiven, DenialOf
<1>5. SiteSmaller
  <2>1. CallsEnd(gone, {"uncertain", "unavailable"}) /\ (loads \/ SiteKeeps)
    BY NavigatesDoes
  <2>2. CASE loads
    <3>1. site'.doc = site.doc + 1 /\ site'.refs = {}
      BY <2>2, NavigatesDoes
    <3>2. site'.doc >= 1
      BY <3>1, CountsTyped
    <3>3. \A p \in WebCall : webCalls'[p].at # "list"
      BY <2>1, <2>2 DEF CallsEnd, InPage
    <3> QED
      BY <3>1, <3>2, <3>3 DEF SiteSmaller
  <2>3. CASE SiteKeeps
    BY <2>1, <2>3 DEF SiteSmaller, CallsEnd, ReferencesAgree, SiteKeeps
  <2> QED
    BY <2>1, <2>2, <2>3
<1>6. Rest'
  <2>1. CallsEnd(gone, {"uncertain", "unavailable"}) /\ TabGiven(gone)
    BY NavigatesDoes
  <2>2. PastSame /\ scripts' = scripts /\ popups'.open = popups.open
    BY NavigatesDoes DEF PastSame
  <2>3. gone \in SUBSET WebCall /\ \A p \in gone : webCalls[p].at \in {"running", "execute", "list", "get"}
    BY DEF InPage
  <2>4. {"uncertain", "unavailable"} \cap OutcomesOf = {}
    BY DEF OutcomesOf
  <2>5. \A p \in gone : webCalls[p].at = "running" => webCalls'[p].answer = "uncertain"
    BY NavigatesDoes
  <2>6. \A p \in gone : webCalls'[p].answer \in {"uncertain", "unavailable"}
    BY <2>1, <2>3 DEF CallsEnd
  <2> QED
    BY <1>1, <1>2, <1>4, <1>5, <2>1, <2>2, <2>3, <2>4, <2>5, <2>6, EachEndKeeps
<1>9. RunningAgrees'
  <2>1. CallsEnd(gone, {"uncertain", "unavailable"})
    BY NavigatesDoes
  <2>2. CASE loads
    <3>1. site'.active = NoWebCall
      BY <2>2, NavigatesDoes
    <3>2. \A p \in WebCall : webCalls'[p].at # "running"
      BY <2>1, <2>2 DEF CallsEnd, InPage
    <3> QED
      BY <3>1, <3>2 DEF RunningAgrees
  <2>3. CASE ~loads
    <3>1. SiteKeeps
      BY <2>3, NavigatesDoes
    <3>2. \A p \in WebCall : webCalls'[p] = webCalls[p]
      BY <2>1, <2>3 DEF CallsEnd, InPage
    <3> QED
      BY <3>1, <3>2 DEF RunningAgrees, SiteKeeps, WebTypeOK, SiteOK
  <2> QED
    BY <2>2, <2>3
<1> QED
  BY <1>1, <1>3, <1>6, <1>9 DEF Rest

LEMMA EndsAccessKeeps ==
  ASSUME WebToolsInv, EndsAccess
  PROVE  WebToolsInv'
<1> USE WebAssumption DEF WebToolsInv
<1>1. WebTypeOK'
  BY EndsAccessDoes
<1>2. FrameKeeps /\ DocumentKeeps
  <2>1. webWorker'.run = webWorker.run
    BY EndsAccessDoes DEF TabGiven, DenialOf
  <2>2. /\ scope'.grant = scope.grant /\ webPast'.dropped = webPast.dropped /\ webRefs' = webRefs
        /\ site'.doc = site.doc /\ site'.rev = site.rev
    BY EndsAccessDoes DEF TabGiven, DenialOf, CanceledOf
  <2> QED
    BY <2>1, <2>2, FrameSame, DocumentSame
<1>3. CallsAgree'
  BY <1>1, <1>2, EndsAccessDoes, OthersFit, EndedFit DEF DenialOf, Asked, At, CallsAgree, CallsEnd
<1>4. Fades
  BY EndsAccessDoes, FadesIf DEF TabGiven, DenialOf
<1>5. Rest'
  <2>1. DenialOf(Asked(WebCall)) /\ CanceledOf(WebCall) /\ site' = site /\ scripts' = scripts
    BY EndsAccessDoes DEF PastSame
  <2> QED
    BY <1>1, <1>2, <1>4, <2>1, DenialKeeps
<1>9. RunningAgrees'
  BY EndsAccessDoes DEF CallsEnd, CallGoes, TabGiven, Same, At, Of, DenialOf, Asked, CanceledOf, Cancelable, RunningAgrees, WebTypeOK, SiteOK, InDocument
<1> QED
  BY <1>1, <1>3, <1>5, <1>9 DEF Rest

LEMMA GrantsAccessKeeps ==
  ASSUME WebToolsInv, GrantsAccess
  PROVE  WebToolsInv'
<1> USE WebAssumption DEF WebToolsInv
<1>1. WebTypeOK'
  BY GrantsAccessDoes
<1>2. FrameKeeps /\ DocumentKeeps
  BY GrantsAccessDoes, CountsTyped DEF FrameKeeps, DocumentKeeps, TabGiven, DenialOf
<1>3. CallsAgree'
  BY <1>1, <1>2, GrantsAccessDoes, OthersFit, EndedFit DEF CallsAgree, CallsEnd
<1>4. Fades
  BY GrantsAccessDoes, FadesIf DEF TabGiven, DenialOf
<1>5. SiteSmaller
  BY GrantsAccessDoes DEF SiteSmaller, ReferencesAgree, SiteKeeps
<1>6. Rest'
  <2>1. CallsEnd({}, {}) /\ TabGiven({})
    BY GrantsAccessDoes DEF CallsEnd, TabGiven
  <2>2. PastSame /\ scripts' = scripts
    BY GrantsAccessDoes DEF PastSame
  <2>3. \A p \in popups'.open : p \in popups.open \/ webCalls[p].at = "approving"
    BY GrantsAccessDoes DEF At
  <2> QED
    BY <1>1, <1>2, <1>4, <1>5, <2>1, <2>2, <2>3, EndsKeeps
<1>9. RunningAgrees'
  BY GrantsAccessDoes DEF CallsEnd, CallGoes, TabGiven, Same, At, Of, RunningAgrees, WebTypeOK, SiteOK, InDocument
<1> QED
  BY <1>1, <1>3, <1>6, <1>9 DEF Rest

LEMMA ReconnectsKeeps ==
  ASSUME WebToolsInv, Reconnects
  PROVE  WebToolsInv'
<1> USE WebAssumption DEF WebToolsInv
<1>1. WebTypeOK'
  BY ReconnectsDoes
<1>2. FrameKeeps /\ DocumentKeeps
  <2>1. webWorker'.run = webWorker.run
    BY ReconnectsDoes DEF TabGiven, DenialOf
  <2>2. /\ scope'.grant = scope.grant /\ webPast'.dropped = webPast.dropped /\ webRefs' = webRefs
        /\ site'.doc = site.doc /\ site'.rev = site.rev
    BY ReconnectsDoes DEF TabGiven, DenialOf, CanceledOf
  <2> QED
    BY <2>1, <2>2, FrameSame, DocumentSame
<1>3. CallsAgree'
  BY <1>1, <1>2, ReconnectsDoes, OthersFit, EndedFit DEF DenialOf, Asked, At, CallsAgree, CallsEnd
<1>4. Fades
  BY ReconnectsDoes, FadesIf DEF TabGiven, DenialOf
<1>5. Rest'
  <2>1. DenialOf(Asked(WebCall)) /\ CanceledOf(WebCall) /\ site' = site /\ scripts' = scripts
    BY ReconnectsDoes DEF PastSame
  <2> QED
    BY <1>1, <1>2, <1>4, <2>1, DenialKeeps
<1>9. RunningAgrees'
  BY ReconnectsDoes DEF CallsEnd, CallGoes, TabGiven, Same, At, Of, DenialOf, Asked, CanceledOf, Cancelable, RunningAgrees, WebTypeOK, SiteOK, InDocument
<1> QED
  BY <1>1, <1>3, <1>5, <1>9 DEF Rest

LEMMA ClearsTabKeeps ==
  ASSUME WebToolsInv, ClearsTab
  PROVE  WebToolsInv'
<1> USE WebAssumption DEF WebToolsInv
<1>1. WebTypeOK'
  BY ClearsTabDoes
<1>2. FrameKeeps /\ DocumentKeeps
  <2>1. webWorker'.run = webWorker.run
    BY ClearsTabDoes DEF TabGiven, DenialOf
  <2>2. /\ scope'.grant = scope.grant /\ webPast'.dropped = webPast.dropped /\ webRefs' = webRefs
        /\ site'.doc = site.doc /\ site'.rev = site.rev
    BY ClearsTabDoes DEF TabGiven, DenialOf
  <2> QED
    BY <2>1, <2>2, FrameSame, DocumentSame
<1>3. CallsAgree'
  BY <1>1, <1>2, ClearsTabDoes, OthersFit, EndedFit DEF Asked, At, CallsAgree, CallsEnd
<1>6. Rest'
  <2>1. /\ UNCHANGED <<site, webPast, webRefs>> /\ webWorker'.run = webWorker.run /\ ~webWorker'.touched
        /\ CallsEnd(Asked(WebCall), {"denied"}) /\ popups'.open = popups.open \ Asked(WebCall)
        /\ webWorker'.executing <=> webWorker.executing /\ Asked(WebCall) = {}
    BY ClearsTabDoes
  <2>2. CASE ~webWorker.touched
    <3>1. scripts' = scripts
      BY <2>2, ClearsTabDoes
    <3>2. Fades
      BY <2>1, <2>2 DEF Fades, LeftBehind
    <3>3. PastSame
      BY <2>1 DEF PastSame
    <3>4. webWorker'.touched = webWorker.touched
      <4>1. webWorker.touched \in BOOLEAN /\ webWorker'.touched \in BOOLEAN
        BY <1>1 DEF WebTypeOK, WorkerOK
      <4> QED
        BY <2>1, <2>2, <4>1
    <3>5. DenialOf(Asked(WebCall))
      BY <2>1, <3>4 DEF DenialOf
    <3> QED
      BY <1>1, <1>2, <2>1, <3>1, <3>2, <3>3, <3>5, DenialKeeps
  <2>3. CASE webWorker.touched
    <3>1. PICK x : x = [part |-> "clear", call |-> NoWebCall, pin |-> 0] /\ scripts' = Append(scripts, x)
      BY <2>3, ClearsTabDoes DEF Sends
    <3>2. x \in Script /\ x.part = "clear"
      BY <3>1 DEF Script
    <3>3. PICK n \in Nat : /\ n = Len(scripts) /\ DOMAIN scripts = 1..n /\ DOMAIN scripts' = 1..(n + 1)
                           /\ \A i \in 1..n : scripts'[i] = scripts[i]
                           /\ scripts'[n + 1] = x
      BY <3>1, <3>2, AppendedIs DEF WebTypeOK
    <3>4. \A i \in 1..(n + 1) : i \in 1..n \/ i = n + 1
      OBVIOUS
    <3>5. \A p \in WebCall : webCalls[p].at # "approving" => webCalls'[p] = webCalls[p]
      BY <2>1 DEF CallsEnd, Asked, At
    <3>6. ScriptsAgree'
      <4>1. ASSUME NEW i \in 1..(n + 1), scripts'[i].part # "clear"
            PROVE  /\ i \in 1..n /\ scripts'[i] = scripts[i] /\ scripts[i].call \in WebCall
                   /\ webCalls'[scripts[i].call] = webCalls[scripts[i].call]
        <5>1. i \in 1..n /\ scripts'[i] = scripts[i]
          BY <3>2, <3>3, <3>4, <4>1
        <5>2. scripts[i].call \in WebCall /\ webCalls[scripts[i].call].at = "sent"
          BY <3>3, <4>1, <5>1 DEF ScriptsAgree
        <5> QED
          BY <3>5, <5>1, <5>2
      <4> QED
        BY <3>3, <4>1 DEF ScriptsAgree
    <3>7. ReferencesAgree'
      <4>1. \A p \in WebCall : webCalls'[p].tool = webCalls[p].tool /\ webCalls'[p].ref = webCalls[p].ref
        BY <2>1 DEF CallsEnd, Same
      <4> QED
        BY <1>1, <1>2, <2>1, <4>1, ReferencesStay DEF ReferencesAgree
    <3>8. LeftoversCleared'
      <4>1. ASSUME NEW i \in Nat, i < n + 1 PROVE ClearingAfter(i)'
        <5>1. n + 1 \in 1..(n + 1) /\ n + 1 > i
          BY <4>1
        <5> QED
          BY <3>2, <3>3, <5>1 DEF ClearingAfter
      <4>2. ClearingAfter(0)'
        BY <4>1
      <4>3. \A i \in DOMAIN scripts' : scripts'[i].part = "list" => ClearingAfter(i)'
        <5> TAKE i \in DOMAIN scripts'
        <5> HAVE scripts'[i].part = "list"
        <5>1. i \in 1..n
          BY <3>2, <3>3, <3>4
        <5> QED
          BY <4>1, <5>1
      <4> QED
        BY <4>2, <4>3 DEF LeftoversCleared
    <3>9. \A p \in webPast.canceled : webCalls[p].at # "approving"
      BY DEF DispatchesAgree
    <3>10. PICK asked \in SUBSET WebCall : asked = Asked(WebCall)
      BY DEF Asked
    <3>11. \A p \in asked : webCalls[p].at = "approving" /\ webCalls'[p].answer \notin OutcomesOf
      BY <2>1, <3>10 DEF CallsEnd, Asked, At, OutcomesOf
    <3>12. DispatchesAgree'
      BY <2>1, <3>9, <3>10, <3>11, DispatchesOfEnds
    <3>13. TabAgrees'
      BY <2>1, TabOfDenial
    <3>14. PromptsAgree'
      <4>1. ASSUME NEW p \in popups'.open, p \notin webPast.dropped PROVE At(p, "approving")'
        <5>1. p \in popups.open /\ p \notin Asked(WebCall) /\ p \in WebCall
          BY <2>1 DEF WebTypeOK, PopupsOK
        <5>2. webCalls'[p] = webCalls[p]
          BY <2>1, <5>1 DEF CallsEnd
        <5> QED
          BY <4>1, <5>1, <5>2 DEF PromptsAgree, At
      <4> QED
        BY <2>1, <4>1 DEF PromptsAgree
    <3> QED
      BY <3>6, <3>7, <3>8, <3>12, <3>13, <3>14 DEF Rest
  <2> QED
    BY <2>2, <2>3
<1>9. RunningAgrees'
  BY ClearsTabDoes DEF CallsEnd, CallGoes, TabGiven, Same, At, Of, DenialOf, Asked, RunningAgrees, WebTypeOK, SiteOK, InDocument
<1> QED
  BY <1>1, <1>3, <1>6, <1>9 DEF Rest

LEMMA WorkerStopsKeeps ==
  ASSUME WebToolsInv, WorkerStops, NEW gone, gone = {q \in WebCall : webCalls[q].at \in {"resolving", "got", "approving", "rechecking"}}
  PROVE  WebToolsInv'
<1> USE WebAssumption DEF WebToolsInv
<1>1. WebTypeOK'
  BY WorkerStopsDoes
<1>3. CallsAgree'
  <2>1. /\ CallsEnd(gone, {"none"}) /\ webWorker'.run = webWorker.run + 1 /\ scope'.grant = scope.grant
        /\ webPast'.dropped = webPast.dropped \union {p \in WebCall : ~At(p, "new")}
        /\ UNCHANGED <<site, webRefs>>
    BY WorkerStopsDoes
  <2>2. ASSUME NEW p \in WebCall PROVE CallAgrees(p)'
    <3>8. webWorker.run \in Nat
      BY CountsTyped
    <3>9. PICK run \in Nat : run = webWorker.run
      BY <3>8
    <3>10. PICK c, d : c = webCalls[p] /\ d = webCalls'[p]
      OBVIOUS
    <3>1. c = webCalls[p] /\ d = webCalls'[p] /\ run = webWorker.run
      BY <3>9, <3>10
    <3>2. \/ d = c /\ c.at \notin {"resolving", "got", "approving", "rechecking"}
          \/ d.at = "done" /\ Same(c, d) /\ c.at # "new"
      BY <2>1, <3>1 DEF CallsEnd
    <3>3. Known(c.key) => Known(d.key)'
      BY <2>1, <3>2 DEF Known, Same
    <3>4. CallAgrees(p) /\ webWorker'.run = run + 1
      BY <2>1, <3>1 DEF CallsAgree
    <3>5. p \in webPast'.dropped <=> c.at # "new"
      BY <2>1, <3>1, <3>4 DEF CallAgrees, At
    <3>6. CASE d = c /\ c.at \notin {"resolving", "got", "approving", "rechecking"}
      BY <2>1, <3>1, <3>3, <3>4, <3>5, <3>6 DEF CallAgrees, Of, InDocument, InSession
    <3>7. CASE d.at = "done" /\ Same(c, d) /\ c.at # "new"
      BY <2>1, <3>1, <3>4, <3>5, <3>7 DEF CallAgrees, Of, InDocument, InSession, Same
    <3> QED
      BY <3>2, <3>6, <3>7
  <2> QED
    BY <2>2 DEF CallsAgree
<1>6. Rest'
  <2>1. /\ UNCHANGED <<site, scripts, webRefs>> /\ CallsEnd(gone, {"none"}) /\ popups'.open = popups.open
        /\ webWorker'.run = webWorker.run + 1 /\ ~webWorker'.executing
        /\ webPast'.dropped = webPast.dropped \union {p \in WebCall : ~At(p, "new")}
        /\ webPast'.approved = webPast.approved /\ webPast'.dispatched = webPast.dispatched
        /\ webPast'.canceled = webPast.canceled /\ scope'.grant = scope.grant
    BY WorkerStopsDoes
  <2>2. \A k : k[1] \in Nat /\ k[1] <= webWorker.run => ~LeftBehind(k)' /\ k[1] # webWorker'.run
    BY <2>1, CountsTyped DEF LeftBehind
  <2>3. \A p \in WebCall : p \notin gone => webCalls'[p] = webCalls[p]
    BY <2>1 DEF CallsEnd
  <2>4. \A p \in WebCall : Same(webCalls[p], webCalls'[p])
    BY <2>1 DEF CallsEnd, Same
  <2>5. ASSUME NEW p \in WebCall, webCalls[p].key # <<>> PROVE ~LeftBehind(webCalls[p].key)' /\ ~Of(p)'
    <3>1. PICK k : k = webCalls'[p].key
      OBVIOUS
    <3>2. k = webCalls[p].key
      BY <2>4, <3>1 DEF Same
    <3>3. k[1] \in Nat /\ k[1] <= webWorker.run
      BY <2>5, <3>2 DEF CallsAgree, CallAgrees
    <3>4. ~LeftBehind(k)' /\ k[1] # webWorker'.run
      BY <2>2, <3>3
    <3> QED
      BY <3>1, <3>4 DEF LeftBehind, Of
  <2>6. ScriptsAgree'
    BY <2>1, <2>3 DEF ScriptsAgree
  <2>7. ReferencesAgree'
    <3>1. \A r \in site'.refs : /\ r.id <= webRefs' /\ r.tool # NoTool /\ Known(r.key)' /\ r.key[1] \in Nat
                                /\ r.key[1] <= webWorker'.run
      BY <2>1, CountsTyped DEF ReferencesAgree, Known
    <3>2. \A p \in WebCall : webCalls'[p].tool = webCalls[p].tool /\ webCalls'[p].ref = webCalls[p].ref
      BY <2>4 DEF Same
    <3> QED
      BY <2>1, <3>1, <3>2 DEF ReferencesAgree
  <2>8. LeftoversCleared'
    <3>1. ASSUME NEW p \in WebCall, webCalls'[p].at \in {"running", "list"} PROVE ~LeftBehind(webCalls[p].key)'
      <4>1. webCalls[p].at \in {"running", "list"}
        BY <2>1, <3>1 DEF CallsEnd
      <4>2. webCalls[p].key # <<>>
        BY <4>1 DEF CallsAgree, CallAgrees
      <4> QED
        BY <2>5, <4>2
    <3>2. ASSUME NEW i \in DOMAIN scripts, scripts[i].part = "list"
          PROVE  ~LeftBehind(webCalls[scripts[i].call].key)'
      <4>1. scripts[i].call \in WebCall /\ webCalls[scripts[i].call].at = "sent"
        BY <3>2 DEF ScriptsAgree
      <4>2. webCalls[scripts[i].call].key # <<>>
        BY <4>1 DEF CallsAgree, CallAgrees
      <4>3. PICK p \in WebCall : p = scripts[i].call
        BY <4>1
      <4>4. ~LeftBehind(webCalls[p].key)'
        BY <2>5, <4>2, <4>3
      <4> QED
        BY <2>1, <4>3, <4>4 DEF LeftBehind
    <3>3. \A r \in site'.refs : ~LeftBehind(r.key)'
      BY <2>1, <2>2 DEF ReferencesAgree
    <3> QED
      BY <2>1, <3>1, <3>2, <3>3 DEF LeftoversCleared, At
  <2>9. DispatchesAgree'
    <3>1. gone \in SUBSET WebCall /\ \A p \in gone : webCalls[p].at \notin {"running", "done"}
      OBVIOUS
    <3>2. \A p \in gone : webCalls'[p].answer \notin OutcomesOf
      BY <2>1 DEF CallsEnd, OutcomesOf
    <3>3. \A p \in webPast.canceled : webCalls[p].at # "approving"
      BY DEF DispatchesAgree
    <3> QED
      BY <2>1, <3>1, <3>2, <3>3, DispatchesOfEnds
  <2>10. TabAgrees'
    <3>1. ASSUME NEW p \in WebCall PROVE ~Busy(p)'
      <4>1. CASE webCalls[p].key # <<>>
        BY <2>5, <4>1 DEF Busy
      <4>2. CASE webCalls[p].key = <<>>
        BY <2>4, <4>2 DEF Busy, Of, Same
      <4> QED
        BY <4>1, <4>2
    <3> QED
      BY <2>1, <3>1 DEF TabAgrees
  <2>11. PromptsAgree'
    BY <2>1 DEF PromptsAgree, At, WebTypeOK, PopupsOK
  <2> QED
    BY <2>6, <2>7, <2>8, <2>9, <2>10, <2>11 DEF Rest
<1>9. RunningAgrees'
  <2>1. CallsEnd(gone, {"none"}) /\ site' = site
    BY WorkerStopsDoes
  <2>2. \A p \in WebCall : /\ webCalls'[p].at = "running" => webCalls[p].at = "running"
                           /\ webCalls[p].at = "running" => webCalls'[p] = webCalls[p]
    BY <2>1 DEF CallsEnd
  <2> QED
    BY <2>1, <2>2 DEF RunningAgrees, WebTypeOK, SiteOK
<1> QED
  BY <1>1, <1>3, <1>6, <1>9 DEF Rest

-----------------------------------------------------------------------------
(* The theorem.                                                             *)

LEMMA WebInitKeeps ==
  ASSUME WebInit
  PROVE  WebToolsInv
<1>1. WebTypeOK
  <2>1. CallsOK
    <3>1. <<>> \in Seq(Nat) /\ 0 \in Nat /\ FALSE \in BOOLEAN
      OBVIOUS
    <3>2. "new" \in CallState /\ "none" \in Answer /\ "none" \in {"none", "list", "execute"}
      BY DEF CallState, Answer
    <3>3. Unused \in Call
      BY <3>1, <3>2, ZenonT(30) DEF Unused, Call, NoTool
    <3> QED
      BY <3>3 DEF WebInit, CallsOK
  <2>2. WorkerOK /\ PopupsOK /\ ScopeOK /\ CountsOK
    BY DEF WebInit, WorkerOK, PopupsOK, ScopeOK, CountsOK
  <2>3. SiteOK
    BY DEF WebInit, SiteOK, Document
  <2>4. ScriptsOK
    BY DEF WebInit, ScriptsOK
  <2>5. PastOK
    <3>1. <<>> \in Seq(Use)
      OBVIOUS
    <3> QED
      BY <3>1 DEF WebInit, PastOK
  <2> QED
    BY <2>1, <2>2, <2>3, <2>4, <2>5 DEF WebTypeOK
<1>2. /\ \A q \in WebCall : webCalls[q] = Unused
      /\ scripts = <<>> /\ webPast.approved = {} /\ webPast.dispatched = <<>> /\ webPast.canceled = {}
      /\ webPast.dropped = {} /\ webWorker.run = 1 /\ ~webWorker.executing /\ popups.open = {}
      /\ site.doc = 1 /\ site.refs = {} /\ site.active = NoWebCall /\ webRefs = 0
  BY DEF WebInit, Document
<1>3. /\ Unused.at = "new" /\ Unused.key = <<>> /\ Unused.answer = "none" /\ Unused.tool = NoTool
      /\ Unused.ref = 0
  BY DEF Unused
<1>4. DOMAIN scripts = {} /\ DOMAIN webPast.dispatched = {} /\ Len(webPast.dispatched) = 0
  BY <1>2
<1> HIDE DEF Unused
<1>5. CallsAgree
  BY <1>2, <1>3 DEF CallsAgree, CallAgrees, InSession, InDocument
<1>6. ScriptsAgree
  BY <1>4 DEF ScriptsAgree
<1>7. ReferencesAgree
  BY <1>2, <1>3 DEF ReferencesAgree
<1>8. DispatchesAgree
  <2>1. Dispatched = {}
    BY <1>4 DEF Dispatched
  <2>2. IsFiniteSet({}) /\ Cardinality({}) = 0
    BY FS_EmptySet
  <2>3. Cardinality(Dispatched) = 0 /\ IsFiniteSet(Dispatched)
    BY <2>1, <2>2
  <2> QED
    BY <1>2, <1>3, <1>4, <2>1, <2>3 DEF DispatchesAgree
<1>9. RunningAgrees
  BY <1>2, <1>3 DEF RunningAgrees
<1>10. TabAgrees
  BY <1>2, <1>3 DEF TabAgrees, Busy, Of
<1>11. PromptsAgree
  BY <1>2 DEF PromptsAgree
<1>12. LeftoversCleared
  BY <1>2, <1>3, <1>4 DEF LeftoversCleared, At
<1> QED
  BY <1>1, <1>5, <1>6, <1>7, <1>8, <1>9, <1>10, <1>11, <1>12 DEF WebToolsInv

LEMMA WebNextKeeps ==
  ASSUME WebToolsInv, [WebNext]_webVars
  PROVE  WebToolsInv'
<1>1. ASSUME NEW q \in WebCall, Calls(q, "list", 0) PROVE WebToolsInv'
  BY <1>1, CallsKeeps
<1>2. ASSUME NEW q \in WebCall, NEW ref \in 1..MaxWebRefs, Calls(q, "execute", ref) PROVE WebToolsInv'
  <2>1. ref \in Nat
    OBVIOUS
  <2> QED
    BY <1>2, <2>1, CallsKeeps
<1>3. ASSUME NEW q \in WebCall,
             \/ Resolved(q) \/ AsksUser(q) \/ PopupOpens(q) \/ Approves(q) \/ Declines(q) \/ Rechecks(q)
             \/ \E answers \in BOOLEAN : GetsTools(q, answers)
             \/ Lists(q) \/ GetsTool(q) \/ IsStale(q) \/ Executes(q) \/ Cancels(q)
      PROVE  WebToolsInv'
  BY <1>3, ResolvedKeeps, AsksUserKeeps, PopupOpensKeeps, ApprovesKeeps, DeclinesKeeps, RechecksKeeps,
     GetsToolsKeeps, ListsKeeps, GetsToolKeeps, IsStaleKeeps, ExecutesKeeps, CancelsKeeps
<1>4. CASE ScriptRuns
  <2>1. scripts # <<>> /\ Head(scripts).part # "clear"
    BY <1>4 DEF ScriptRuns
  <2>2. Head(scripts) = scripts[1] /\ 1 \in DOMAIN scripts
    BY <2>1 DEF WebToolsInv, WebTypeOK, ScriptsOK
  <2>3. scripts[1].call \in WebCall
    BY <2>1, <2>2 DEF WebToolsInv, ScriptsAgree
  <2> QED
    BY <1>4, <2>3, ScriptRunsKeeps
<1>5. CASE ClearRuns \/ TimesOut \/ (\E answer \in {"completed", "uncertain"} : CallbackSettles(answer))
  BY <1>5, ClearRunsKeeps, TimesOutKeeps, SettlesKeeps
<1>6. CASE \/ ToolChanges \/ ToolTold \/ EndsAccess \/ GrantsAccess \/ Reconnects \/ ClearsTab
  BY <1>6, ToolChangesKeeps, ToolToldKeeps, EndsAccessKeeps, GrantsAccessKeeps, ReconnectsKeeps, ClearsTabKeeps
<1>7. ASSUME NEW moves \in BOOLEAN, NEW loads \in BOOLEAN, Navigates(moves, loads) PROVE WebToolsInv'
  BY <1>7, NavigatesKeeps
<1>8. CASE WorkerStops
  BY <1>8, WorkerStopsKeeps
<1>9. CASE UNCHANGED webVars
  BY <1>9 DEF webVars, WebToolsInv, WebTypeOK, CallsOK, WorkerOK, PopupsOK, SiteOK, ScriptsOK, ScopeOK, PastOK,
     CountsOK, CallsAgree, CallAgrees, Known, Of, ScriptsAgree, ReferencesAgree, DispatchesAgree, Dispatched,
     RunningAgrees, TabAgrees, Busy, At, PromptsAgree, LeftoversCleared, LeftBehind, ClearingAfter, CatalogStands
<1> QED
  BY <1>1, <1>2, <1>3, <1>4, <1>5, <1>6, <1>7, <1>8, <1>9 DEF WebNext

LEMMA WebInvSays ==
  ASSUME WebToolsInv
  PROVE  WebToolsKept
<1> USE WebAssumption DEF WebToolsInv
<1> DEFINE dispatched == {webPast.dispatched[i][1] : i \in DOMAIN webPast.dispatched}
           mine == {q \in WebCall : Of(q) /\ webCalls[q].op = "execute" /\ ~At(q, "done")}
           holders == {q \in mine : ~At(q, "resolving")}
<1>1. dispatched = Dispatched
  BY DEF Dispatched
<1>2. \A q \in WebCall : q \in holders <=> Busy(q)
  BY DEF Busy
<1>3. Len(webPast.dispatched) = Cardinality(dispatched)
  BY <1>1 DEF DispatchesAgree
<1>4. ToSet(webPast.dispatched) \subseteq webPast.approved
  BY DEF DispatchesAgree, ToSet
<1>5. /\ \A q \in dispatched : webCalls[q].answer \in {"none", "completed", "uncertain", "timeout", "cancelled"}
      /\ \A q \in WebCall : webCalls[q].answer \in {"completed", "timeout", "cancelled"} => q \in dispatched
      /\ dispatched \cap webPast.canceled = {}
  BY <1>1 DEF DispatchesAgree
<1>6. popups.open \ webPast.dropped \subseteq {q \in mine : At(q, "approving")}
  <2>1. ASSUME NEW q \in popups.open, q \notin webPast.dropped PROVE q \in mine /\ At(q, "approving")
    <3>1. q \in WebCall /\ At(q, "approving")
      BY <2>1 DEF PromptsAgree, WebTypeOK, PopupsOK
    <3>2. Of(q) /\ webCalls[q].op = "execute" /\ ~At(q, "done")
      BY <3>1 DEF CallsAgree, CallAgrees, At
    <3> QED
      BY <3>1, <3>2
  <2> QED
    BY <2>1
<1>7. webWorker.executing <=> \E q \in mine : ~At(q, "resolving")
  <2>1. webWorker.executing <=> \E q \in WebCall : Busy(q)
    BY DEF TabAgrees
  <2> QED
    BY <1>2, <2>1
<1>8. Cardinality(holders) <= 1
  <2>1. CASE holders = {}
    <3>1. Cardinality({}) = 0
      BY FS_EmptySet
    <3>2. Cardinality(holders) = 0
      BY <2>1, <3>1
    <3> QED
      BY <3>2
  <2>2. CASE holders # {}
    <3>1. PICK q \in holders : TRUE
      BY <2>2
    <3>2. holders = {q}
      BY <1>2, <3>1 DEF TabAgrees
    <3>3. Cardinality({q}) = 1
      BY FS_Singleton
    <3>4. Cardinality(holders) = 1
      BY <3>2, <3>3
    <3> QED
      BY <3>4
  <2> QED
    BY <2>1, <2>2
<1>9. ASSUME site.active # NoWebCall, site.active \notin webPast.dropped, ~scope.cleanup,
             ~\E i \in DOMAIN scripts : scripts[i].part = "clear",
             webCalls[site.active].key[2] # scope.grant \/ ~scope.on, ~site.aborted
      PROVE  FALSE
  <2>1. PICK q \in WebCall : q = site.active
    BY <1>9 DEF WebTypeOK, SiteOK
  <2>2. webCalls[q].at = "running"
    BY <1>9, <2>1 DEF RunningAgrees
  <2>3. webCalls[q].key[1] = webWorker.run
    BY <1>9, <2>1, <2>2 DEF CallsAgree, CallAgrees
  <2>4. LeftBehind(webCalls[q].key)
    BY <1>9, <2>1, <2>3 DEF LeftBehind
  <2>5. ClearingAfter(0)
    BY <2>2, <2>4 DEF LeftoversCleared, At
  <2> QED
    BY <1>9, <2>5 DEF ClearingAfter
<1> QED
  BY <1>3, <1>4, <1>5, <1>6, <1>7, <1>8, <1>9 DEF WebToolsKept

\* WebToolsKept for any number of calls, references, documents, grants and workers: every
\* dispatch of a website's tool is the only one of its call and as the user approved it, what
\* was refused, stale, busy or canceled has dispatched nothing, one prompt is up at a time
\* and the tab is given back; and once access has ended and the tab is cleared no callback
\* runs on (background-webmcp.ts:191-270, webmcp-document.ts:20-300).
THEOREM ToolsRunAsApproved == WebSpec => []WebToolsKept
  BY WebInitKeeps, WebNextKeeps, WebInvSays, PTL DEF WebSpec

-----------------------------------------------------------------------------
(* input.perform and its network outcome.                                    *)

PageRequest == [sequence : Nat, hit : Hits]
PageEntry == [sequence : Nat, hit : Hits, order : Nat]
PageRecord ==
    [here : BOOLEAN, on : BOOLEAN, epoch : Nat, next : Nat, gen : Nat, evicted : Int, completed : Nat,
     buffer : Seq(PageEntry), flying : SUBSET PageRequest, all : SUBSET PageRequest]

\* The page's record: requests have the numbers given out, the buffer what has ended.
RecordOK ==
    /\ record \in PageRecord
    /\ \A q \in record.flying \union record.all : q.sequence < record.next
    /\ \A q \in record.all : q.hit # "other"
    /\ \A i \in DOMAIN record.buffer : record.buffer[i].hit # "other" =>
         [sequence |-> record.buffer[i].sequence, hit |-> record.buffer[i].hit] \in record.all

PerformTypeOK ==
    /\ perform \in [at : {"none", "arming", "steps", "step", "outcomes", "over"}, step : Nat,
                    stubborn : BOOLEAN, dom : {"pending", "matched", "missed"},
                    reply : {"none", "failed", "verified", "not met"}]
    /\ watch \in [at : {"off", "reads", "over"}, epoch : Nat, next : Nat, gen : Nat, order : Nat,
                  result : {"pending", "matched", "failed", "interrupted", "timeout"},
                  blind : BOOLEAN, known : SUBSET PageRequest]

\* The watch looks at the record it was armed on, in the same generation.
SameRecord == watch.at = "reads" /\ record.epoch = watch.epoch
SameBuffer == SameRecord /\ record.gen = watch.gen /\ ~watch.blind

\* An entry of request q that the watch has not read.
Unread(q) ==
    \E i \in DOMAIN record.buffer :
        /\ record.buffer[i].sequence = q.sequence /\ record.buffer[i].hit = q.hit
        /\ record.buffer[i].order > watch.order

\* While the buffer is the one of the baseline, a matching request that is over is still
\* to be read or was pushed out, which lostFresh tells.
WatchFollows ==
    /\ watch.at = "reads" => watch.epoch <= record.epoch
    /\ SameRecord => /\ record.here /\ watch.gen <= record.gen /\ watch.next <= record.next
                     /\ watch.order <= record.completed
    /\ SameBuffer => record.on
    /\ SameBuffer => \A q \in record.all : q.sequence >= watch.next =>
                        Unread(q) \/ record.evicted >= q.sequence

\* What the watch and the reply stand for.
Outcome ==
    /\ perform.at \in {"none", "arming"} => watch.at = "off"
    /\ watch.at = "off" => watch.result = "pending" /\ watch.known = {}
    /\ watch.at = "reads" => watch.result = "pending" /\ (watch.known = {} \/ watch.blind)
    /\ watch.result \in {"matched", "failed"} =>
         \E q \in watch.known : q.hit = (IF watch.result = "matched" THEN "good" ELSE "bad")
    /\ watch.result = "timeout" => watch.known = {} \/ watch.blind
    /\ perform.at = "outcomes" => perform.step > Steps
    /\ perform.reply = "verified" =>
         perform.at = "over" /\ perform.step > Steps /\ watch.result = "matched"

PerformInv == RecordOK /\ PerformTypeOK /\ WatchFollows /\ Outcome

LEMMA PerformBegins == PerformInit => PerformInv
<1> SUFFICES ASSUME PerformInit PROVE PerformInv
  OBVIOUS
<1> USE DEF PerformInit
<1>1. RecordOK
  BY DEF RecordOK, NoRecord, PageRecord
<1>2. PerformTypeOK
  BY DEF PerformTypeOK
<1>3. WatchFollows
  BY DEF WatchFollows, SameRecord, SameBuffer
<1>4. Outcome
  BY DEF Outcome
<1> QED
  BY <1>1, <1>2, <1>3, <1>4 DEF PerformInv

\* A step of the page or of another call leaves the watch what it knows.
LEMMA RecordMoves ==
  ASSUME PerformInv, RecordOK', PerformTypeOK', WatchFollows',
         \/ UNCHANGED perform
         \/ perform.at = "none" /\ perform'.at = "arming" /\ perform'.reply = perform.reply,
         \/ UNCHANGED watch
         \/ watch' = [watch EXCEPT !.blind = TRUE]
  PROVE  PerformInv'
<1>1. /\ watch'.at = watch.at /\ watch'.result = watch.result /\ watch'.known = watch.known
      /\ watch.blind => watch'.blind
  BY DEF PerformInv, PerformTypeOK
<1>2. Outcome'
  BY <1>1 DEF PerformInv, Outcome
<1> QED
  BY <1>2 DEF PerformInv

LEMMA StartsKeep == ASSUME PerformInv, NEW hit \in Hits, RequestStarts(hit) PROVE PerformInv'
<1> DEFINE q == [sequence |-> record.next, hit |-> hit]
           r == record'
<1>1. /\ r.here = record.here /\ r.on = record.on /\ r.epoch = record.epoch /\ r.next = record.next + 1
      /\ r.gen = record.gen /\ r.evicted = record.evicted /\ r.completed = record.completed
      /\ r.buffer = record.buffer /\ r.flying = record.flying \union {q} /\ r.all = record.all
      /\ r \in PageRecord
  <2>1. record \in PageRecord /\ q \in PageRequest
    BY DEF PerformInv, RecordOK, PageRecord, PageRequest
  <2> DEFINE f == record.flying \union {q}
             m == record.next + 1
  <2>2. f \in SUBSET PageRequest /\ m \in Nat
    BY <2>1 DEF PageRecord
  <2>3. r = [record EXCEPT !.next = m, !.flying = f]
    BY DEF RequestStarts
  <2> HIDE DEF f, m, r
  <2>4. /\ r \in PageRecord /\ r.here = record.here /\ r.on = record.on /\ r.epoch = record.epoch /\ r.next = m
        /\ r.gen = record.gen /\ r.evicted = record.evicted /\ r.completed = record.completed
        /\ r.buffer = record.buffer /\ r.flying = f /\ r.all = record.all
    BY <2>1, <2>2, <2>3 DEF PageRecord
  <2> QED
    BY <2>4 DEF f, m
<1>2. UNCHANGED perform /\ UNCHANGED watch
  BY DEF RequestStarts
<1> HIDE DEF r
<1>3. /\ r.next \in Nat /\ record.next \in Nat /\ record.next < r.next
      /\ \A p \in record.flying \union record.all : p.sequence \in Nat
  BY <1>1 DEF PerformInv, RecordOK, PageRecord, PageRequest
<1>4. \A p \in r.flying \union r.all : p.sequence < r.next
  BY <1>1, <1>3 DEF PerformInv, RecordOK
<1>5. RecordOK'
  BY <1>1, <1>4 DEF PerformInv, RecordOK, r
<1>6. WatchFollows'
  <2>1. watch.next \in Nat
    BY DEF PerformInv, PerformTypeOK
  <2> QED
    BY <1>1, <1>2, <1>3, <2>1 DEF PerformInv, WatchFollows, SameRecord, SameBuffer, Unread, r
<1> QED
  <2>1. PerformTypeOK'
    BY <1>2 DEF PerformInv, PerformTypeOK
  <2> QED
    BY <1>2, <1>5, <1>6, <2>1, RecordMoves

LEMMA EndsKeep == ASSUME PerformInv, NEW q \in record.flying, RequestEnds(q) PROVE PerformInv'
<1> DEFINE entry == [sequence |-> q.sequence, hit |-> q.hit, order |-> record.completed + 1]
           full == Append(record.buffer, entry)
           over == Len(full) > MaxBuffer
           all == IF q.hit = "other" THEN record.all ELSE record.all \union {q}
           r == record'
<1>0. UNCHANGED perform /\ UNCHANGED watch
  BY DEF RequestEnds
<1>1. /\ record \in PageRecord
      /\ q \in PageRequest /\ q.sequence \in Nat /\ q.hit \in Hits /\ q.sequence < record.next
      /\ q = [sequence |-> q.sequence, hit |-> q.hit]
  BY DEF PerformInv, RecordOK, PageRecord, PageRequest
<1>2. entry \in PageEntry
  BY <1>1 DEF PageEntry, PageRecord
<1>3. /\ full \in Seq(PageEntry) /\ Len(full) = Len(record.buffer) + 1 /\ Len(record.buffer) \in Nat
      /\ DOMAIN full = 1..Len(full) /\ DOMAIN record.buffer = 1..Len(record.buffer)
      /\ full[Len(full)] = entry /\ \A i \in 1..Len(record.buffer) : full[i] = record.buffer[i]
      /\ full # <<>> /\ full[1] \in PageEntry /\ full[1].sequence \in Nat
  <2>1. record.buffer \in Seq(PageEntry)
    BY <1>1 DEF PageRecord
  <2> HIDE DEF entry
  <2>2. /\ full \in Seq(PageEntry) /\ Len(full) = Len(record.buffer) + 1 /\ Len(record.buffer) \in Nat
        /\ DOMAIN full = 1..Len(full) /\ DOMAIN record.buffer = 1..Len(record.buffer)
        /\ full[Len(full)] = entry /\ \A i \in 1..Len(record.buffer) : full[i] = record.buffer[i]
    BY <1>2, <2>1
  <2> HIDE DEF full
  <2>3. full # <<>> /\ full[1] \in PageEntry
    BY <2>2
  <2> QED
    BY <2>2, <2>3 DEF PageEntry
<1>4. /\ Tail(full) \in Seq(PageEntry) /\ DOMAIN Tail(full) = 1..(Len(full) - 1)
      /\ \A i \in 1..(Len(full) - 1) : Tail(full)[i] = full[i + 1]
  BY <1>3
<1>5. /\ r.here = record.here /\ r.on = record.on /\ r.epoch = record.epoch /\ r.next = record.next
      /\ r.gen = record.gen /\ r.flying = record.flying \ {q} /\ r.all = all
      /\ ~record.on => r.evicted = record.evicted /\ r.completed = record.completed /\ r.buffer = record.buffer
      /\ record.on => /\ r.completed = record.completed + 1
                      /\ r.buffer = IF over THEN Tail(full) ELSE full
                      /\ r.evicted = IF over /\ full[1].sequence > record.evicted
                                     THEN full[1].sequence ELSE record.evicted
      /\ r \in PageRecord
  <2> HIDE DEF full, over
  <2>1. record' = (IF ~record.on THEN [record EXCEPT !.flying = @ \ {q}, !.all = all]
                   ELSE [record EXCEPT !.flying = @ \ {q}, !.all = all, !.completed = @ + 1,
                              !.buffer = IF over THEN Tail(full) ELSE full,
                              !.evicted = IF over /\ full[1].sequence > @
                                          THEN full[1].sequence ELSE @])
    BY <1>1 DEF RequestEnds, full, over
  <2> DEFINE f == record.flying \ {q}
             c == record.completed + 1
             s == IF over THEN Tail(full) ELSE full
             v == IF over /\ full[1].sequence > record.evicted THEN full[1].sequence ELSE record.evicted
  <2>2. all \in SUBSET PageRequest /\ f \in SUBSET PageRequest /\ c \in Nat /\ s \in Seq(PageEntry) /\ v \in Int
    BY <1>1, <1>3, <1>4 DEF PageRecord
  <2>3. r = (IF ~record.on THEN [record EXCEPT !.flying = f, !.all = all]
             ELSE [record EXCEPT !.flying = f, !.all = all, !.completed = c, !.buffer = s, !.evicted = v])
    BY <2>1
  <2> HIDE DEF all, entry, f, c, s, v, r
  <2>4. CASE ~record.on
    BY <1>1, <2>2, <2>3, <2>4 DEF f, PageRecord
  <2>5. CASE record.on
    <3>1. /\ r \in PageRecord /\ r.here = record.here /\ r.on = record.on /\ r.epoch = record.epoch
          /\ r.next = record.next /\ r.gen = record.gen /\ r.flying = f /\ r.all = all
          /\ r.completed = c /\ r.buffer = s /\ r.evicted = v
      BY <1>1, <2>2, <2>3, <2>5 DEF PageRecord
    <3> QED
      BY <3>1, <2>5 DEF f, c, s, v
  <2> QED
    BY <2>4, <2>5
<1> HIDE DEF r, entry, full, over, all
<1>6. /\ record.all \subseteq all /\ (q.hit # "other" => q \in all)
      /\ \A p \in all : p \in record.all \/ (p = q /\ q.hit # "other")
  BY DEF all
<1>7. RecordOK'
  <2>1. \A p \in r.flying \union r.all : p.sequence < r.next
    BY <1>1, <1>5, <1>6 DEF PerformInv, RecordOK
  <2>2. \A p \in r.all : p.hit # "other"
    BY <1>5, <1>6 DEF PerformInv, RecordOK
  <2>3. \A i \in DOMAIN full : full[i].hit # "other" => [sequence |-> full[i].sequence, hit |-> full[i].hit] \in all
    <3> TAKE i \in DOMAIN full
    <3>1. CASE i = Len(full)
      BY <3>1, <1>1, <1>3, <1>6 DEF entry
    <3>2. CASE i # Len(full)
      <4>1. i \in DOMAIN record.buffer /\ full[i] = record.buffer[i]
        BY <3>2, <1>3
      <4> QED
        BY <4>1, <1>6 DEF PerformInv, RecordOK
    <3> QED
      BY <3>1, <3>2
  <2>4. \A i \in DOMAIN Tail(full) : Tail(full)[i].hit # "other" =>
          [sequence |-> Tail(full)[i].sequence, hit |-> Tail(full)[i].hit] \in all
    <3> TAKE i \in DOMAIN Tail(full)
    <3>1. i + 1 \in DOMAIN full /\ Tail(full)[i] = full[i + 1]
      BY <1>3, <1>4
    <3> QED
      BY <3>1, <2>3
  <2>5. \A i \in DOMAIN record.buffer : record.buffer[i].hit # "other" =>
          [sequence |-> record.buffer[i].sequence, hit |-> record.buffer[i].hit] \in all
    BY <1>6 DEF PerformInv, RecordOK
  <2>6. \A i \in DOMAIN r.buffer : r.buffer[i].hit # "other" =>
          [sequence |-> r.buffer[i].sequence, hit |-> r.buffer[i].hit] \in r.all
    <3>1. r.buffer \in {full, Tail(full), record.buffer} /\ r.all = all
      BY <1>5
    <3>2. CASE r.buffer = full
      BY <3>1, <3>2, <2>3
    <3>3. CASE r.buffer = Tail(full)
      BY <3>1, <3>3, <2>4
    <3>4. CASE r.buffer = record.buffer
      BY <3>1, <3>4, <2>5
    <3> QED
      BY <3>1, <3>2, <3>3, <3>4
  <2> QED
    BY <1>5, <2>1, <2>2, <2>6 DEF RecordOK, r
<1>8. WatchFollows'
  <2>0. /\ watch.next \in Nat /\ watch.order \in Nat /\ watch.epoch \in Nat /\ watch.gen \in Nat
        /\ r.evicted \in Int /\ record.evicted \in Int /\ record.completed \in Nat
        /\ watch' = watch /\ full[1].sequence \in Nat
    BY <1>0, <1>1, <1>3, <1>5 DEF PerformInv, PerformTypeOK, PageRecord
  <2>1. (SameRecord <=> SameRecord') /\ (SameBuffer <=> SameBuffer')
    BY <1>0, <1>5 DEF SameRecord, SameBuffer, r
  <2>2. /\ watch'.at = "reads" => watch'.epoch <= record'.epoch
        /\ SameRecord' => /\ record'.here /\ watch'.gen <= record'.gen /\ watch'.next <= record'.next
                          /\ watch'.order <= record'.completed
        /\ SameBuffer' => record'.on
    <3>1. r.completed = record.completed \/ r.completed = record.completed + 1
      BY <1>5
    <3> QED
      BY <2>0, <2>1, <3>1, <1>5 DEF PerformInv, WatchFollows, r
  <2>3. ASSUME SameBuffer', NEW p \in record'.all, p.sequence >= watch'.next
        PROVE  Unread(p)' \/ record'.evicted >= p.sequence
    <3>1. record.on /\ watch.order <= record.completed
      BY <2>1, <2>3 DEF PerformInv, WatchFollows, SameBuffer
    <3>2. p \in all /\ p.sequence >= watch.next /\ p.sequence \in Nat
      BY <2>3, <2>0, <1>5 DEF r, PageRequest, PageRecord
    <3>3. \/ record.evicted >= p.sequence
          \/ \E i \in DOMAIN full : /\ full[i].sequence = p.sequence /\ full[i].hit = p.hit
                                    /\ full[i].order > watch.order
      <4>1. CASE p = q
        <5>1. /\ Len(full) \in DOMAIN full /\ full[Len(full)].sequence = p.sequence
              /\ full[Len(full)].hit = p.hit /\ full[Len(full)].order = record.completed + 1
          BY <4>1, <1>3 DEF entry
        <5>2. record.completed + 1 > watch.order
          BY <3>1, <2>0
        <5> QED
          BY <5>1, <5>2
      <4>2. CASE p # q
        <5>1. p \in record.all
          BY <4>2, <3>2, <1>6
        <5>2. Unread(p) \/ record.evicted >= p.sequence
          BY <5>1, <3>2, <2>1, <2>3 DEF PerformInv, WatchFollows
        <5> QED
          BY <5>2, <1>3 DEF Unread
      <4> QED
        BY <4>1, <4>2
    <3>4. r.evicted >= record.evicted /\ (over => r.evicted >= full[1].sequence)
      <4> DEFINE v == IF over /\ full[1].sequence > record.evicted THEN full[1].sequence ELSE record.evicted
      <4>1. r.evicted = v
        BY <1>5, <3>1
      <4>2. CASE over /\ full[1].sequence > record.evicted
        BY <4>1, <4>2, <2>0
      <4>3. CASE ~(over /\ full[1].sequence > record.evicted)
        BY <4>1, <4>3, <2>0
      <4> QED
        BY <4>2, <4>3
    <3>5. CASE record.evicted >= p.sequence
      BY <3>5, <3>4, <3>2, <2>0 DEF r
    <3>6. ASSUME NEW i \in DOMAIN full, full[i].sequence = p.sequence, full[i].hit = p.hit,
                 full[i].order > watch.order
          PROVE  Unread(p)' \/ r.evicted >= p.sequence
      <4>1. CASE ~over
        <5>1. r.buffer = full
          BY <4>1, <1>5, <3>1
        <5> QED
          BY <5>1, <3>6, <2>0 DEF Unread, r
      <4>2. CASE over /\ i = 1
        BY <4>2, <3>4, <3>6
      <4>3. CASE over /\ i # 1
        <5>1. r.buffer = Tail(full)
          BY <4>3, <1>5, <3>1
        <5>2. i - 1 \in DOMAIN Tail(full) /\ Tail(full)[i - 1] = full[i]
          <6>1. i - 1 \in 1..(Len(full) - 1) /\ (i - 1) + 1 = i
            BY <4>3, <1>3
          <6> QED
            BY <6>1, <1>4
        <5> QED
          BY <5>1, <5>2, <3>6, <2>0 DEF Unread, r
      <4> QED
        BY <4>1, <4>2, <4>3
    <3> QED
      BY <3>3, <3>5, <3>6 DEF r
  <2> QED
    BY <2>2, <2>3 DEF WatchFollows
<1> QED
  <2>1. PerformTypeOK'
    BY <1>0 DEF PerformInv, PerformTypeOK
  <2> QED
    BY <1>0, <1>7, <1>8, <2>1, RecordMoves

\* What other calls, cleanups and loads make of the record: a new one, or the old one with
\* the same requests, in a new generation unless the buffer is as it was or the capture off.
Moves(n) ==
    /\ n \in PageRecord
    /\ \A q \in n.flying \union n.all : q.sequence < n.next
    /\ \A q \in n.all : q.hit # "other"
    /\ \A i \in DOMAIN n.buffer : n.buffer[i].hit # "other" =>
         [sequence |-> n.buffer[i].sequence, hit |-> n.buffer[i].hit] \in n.all
    /\ \/ n.epoch = record.epoch + 1
       \/ /\ n.epoch = record.epoch /\ n.gen \in {record.gen, record.gen + 1} /\ n.next = record.next
          /\ n.completed = record.completed /\ n.all = record.all /\ n.evicted = record.evicted
          /\ record.here => n.here
          /\ n.gen = record.gen => \/ n.buffer = record.buffer /\ (record.on => n.on)
                                   \/ n = [record EXCEPT !.on = FALSE, !.buffer = <<>>]

LEMMA Moved ==
  ASSUME PerformInv, NEW n,
         n \in {Ensured(record), [record EXCEPT !.buffer = <<>>, !.gen = @ + 1],
                [record EXCEPT !.on = FALSE, !.buffer = <<>>], NoRecord(record.epoch + 1)}
  PROVE  Moves(n)
<1>1. RecordOK /\ record \in PageRecord
  BY DEF PerformInv, RecordOK
<1>2. CASE n = NoRecord(record.epoch + 1)
  <2>1. /\ n \in PageRecord /\ n.epoch = record.epoch + 1 /\ n.flying = {} /\ n.all = {} /\ n.buffer = <<>>
    BY <1>1, <1>2 DEF NoRecord, PageRecord
  <2>2. DOMAIN n.buffer = {}
    BY <2>1
  <2> QED
    BY <2>1, <2>2 DEF Moves
\* Whatever empties the buffer leaves the requests as they are.
<1>3. ASSUME NEW here \in BOOLEAN, NEW on \in BOOLEAN, NEW gen \in {record.gen, record.gen + 1},
             record.here => here,
             n = [record EXCEPT !.here = here, !.on = on, !.buffer = <<>>, !.gen = gen],
             gen = record.gen => n = [record EXCEPT !.on = FALSE, !.buffer = <<>>]
      PROVE  Moves(n)
  <2>1. gen \in Nat
    BY <1>1 DEF PageRecord
  <2>2. /\ n \in PageRecord /\ n.here = here /\ n.on = on /\ n.epoch = record.epoch /\ n.next = record.next
        /\ n.gen = gen /\ n.evicted = record.evicted /\ n.completed = record.completed
        /\ n.buffer = <<>> /\ n.flying = record.flying /\ n.all = record.all
    <3> DEFINE e == <<>>
    <3>1. e \in Seq(PageEntry)
      OBVIOUS
    <3> HIDE DEF e
    <3>2. n = [record EXCEPT !.here = here, !.on = on, !.buffer = e, !.gen = gen]
      BY <1>3 DEF e
    <3>3. /\ n \in PageRecord /\ n.here = here /\ n.on = on /\ n.epoch = record.epoch /\ n.next = record.next
          /\ n.gen = gen /\ n.evicted = record.evicted /\ n.completed = record.completed
          /\ n.buffer = e /\ n.flying = record.flying /\ n.all = record.all
      BY <3>1, <3>2, <2>1, <1>1 DEF PageRecord
    <3> QED
      BY <3>3 DEF e
  <2>3. DOMAIN n.buffer = {}
    BY <2>2
  <2> QED
    <3>1. \A q \in n.flying \union n.all : q.sequence < n.next
      BY <2>2, <1>1 DEF RecordOK
    <3>2. \A q \in n.all : q.hit # "other"
      BY <2>2, <1>1 DEF RecordOK
    <3>3. /\ n.epoch = record.epoch /\ n.gen \in {record.gen, record.gen + 1} /\ n.next = record.next
          /\ n.completed = record.completed /\ n.all = record.all /\ n.evicted = record.evicted
          /\ record.here => n.here
          /\ n.gen = record.gen => n = [record EXCEPT !.on = FALSE, !.buffer = <<>>]
      BY <2>2, <1>3
    <3> QED
      BY <2>2, <2>3, <3>1, <3>2, <3>3 DEF Moves
<1>4. CASE n = [record EXCEPT !.on = FALSE, !.buffer = <<>>]
  <2>1. n = [record EXCEPT !.here = record.here, !.on = FALSE, !.buffer = <<>>, !.gen = record.gen]
    BY <1>1, <1>4 DEF PageRecord
  <2>2. record.here \in BOOLEAN
    BY <1>1 DEF PageRecord
  <2> QED
    BY <2>1, <2>2, <1>3, <1>4
<1>5. CASE n = [record EXCEPT !.buffer = <<>>, !.gen = @ + 1]
  <2>1. n = [record EXCEPT !.here = record.here, !.on = record.on, !.buffer = <<>>, !.gen = record.gen + 1]
    BY <1>1, <1>5 DEF PageRecord
  <2>2. record.here \in BOOLEAN /\ record.on \in BOOLEAN /\ record.gen + 1 # record.gen
    BY <1>1 DEF PageRecord
  <2> QED
    BY <2>1, <2>2, <1>3
<1>6. CASE n = Ensured(record)
  <2>1. CASE ~record.here
    <3>1. n = [record EXCEPT !.here = TRUE, !.on = TRUE]
      BY <1>6, <2>1 DEF Ensured
    <3>2. /\ n \in PageRecord /\ n.here = TRUE /\ n.on = TRUE /\ n.epoch = record.epoch /\ n.next = record.next
          /\ n.gen = record.gen /\ n.evicted = record.evicted /\ n.completed = record.completed
          /\ n.buffer = record.buffer /\ n.flying = record.flying /\ n.all = record.all
      BY <1>1, <3>1 DEF PageRecord
    <3> QED
      BY <3>2, <1>1 DEF RecordOK, Moves
  <2>2. CASE record.here /\ record.on
    <3>1. n = record
      BY <1>6, <2>2 DEF Ensured
    <3> QED
      BY <3>1, <1>1 DEF RecordOK, Moves
  <2>3. CASE record.here /\ ~record.on
    <3>1. n = [record EXCEPT !.here = TRUE, !.on = TRUE, !.buffer = <<>>, !.gen = record.gen + 1]
      BY <1>1, <1>6, <2>3 DEF Ensured, PageRecord
    <3>2. record.gen + 1 # record.gen
      BY <1>1 DEF PageRecord
    <3> QED
      BY <3>1, <3>2, <1>3
  <2> QED
    BY <2>1, <2>2, <2>3
<1> QED
  BY <1>2, <1>4, <1>5, <1>6

LEMMA MovedFollows ==
  ASSUME PerformInv,
         record' \in {Ensured(record), [record EXCEPT !.buffer = <<>>, !.gen = @ + 1],
                      [record EXCEPT !.on = FALSE, !.buffer = <<>>], NoRecord(record.epoch + 1)},
         \/ UNCHANGED watch /\ (record' = [record EXCEPT !.on = FALSE, !.buffer = <<>>] => watch.blind)
         \/ watch' = [watch EXCEPT !.blind = TRUE]
  PROVE  RecordOK' /\ WatchFollows'
<1> DEFINE n == record'
<1>1. Moves(n)
  BY Moved
<1>2. RecordOK'
  BY <1>1 DEF RecordOK, Moves
<1>3. /\ watch'.at = watch.at /\ watch'.epoch = watch.epoch /\ watch'.next = watch.next
      /\ watch'.gen = watch.gen /\ watch'.order = watch.order /\ (watch.blind => watch'.blind)
      /\ watch'.blind \/ UNCHANGED watch
      /\ watch.epoch \in Nat /\ watch.gen \in Nat
  BY DEF PerformInv, PerformTypeOK
<1>4. record.epoch \in Nat /\ record.gen \in Nat
  BY DEF PerformInv, RecordOK, PageRecord
<1> HIDE DEF n
<1>5. CASE n.epoch = record.epoch + 1
  <2>1. ~SameRecord' /\ (watch'.at = "reads" => watch'.epoch <= n.epoch)
    BY <1>3, <1>4, <1>5 DEF PerformInv, WatchFollows, SameRecord, n
  <2> QED
    BY <1>2, <2>1 DEF WatchFollows, SameBuffer, n
<1>6. CASE n.epoch = record.epoch
  <2>1. /\ n.epoch = record.epoch /\ n.gen \in {record.gen, record.gen + 1} /\ n.next = record.next
        /\ n.completed = record.completed /\ n.all = record.all /\ n.evicted = record.evicted
        /\ record.here => n.here
        /\ n.gen = record.gen => \/ n.buffer = record.buffer /\ (record.on => n.on)
                                 \/ n = [record EXCEPT !.on = FALSE, !.buffer = <<>>]
    BY <1>1, <1>4, <1>6 DEF Moves
  <2>2. SameRecord' <=> SameRecord
    BY <2>1, <1>3 DEF SameRecord, n
  <2>3. SameBuffer' => SameBuffer /\ n.gen = record.gen /\ n.buffer = record.buffer /\ (record.on => n.on)
    <3> SUFFICES ASSUME SameBuffer' PROVE SameBuffer /\ n.gen = record.gen /\ n.buffer = record.buffer /\ (record.on => n.on)
      OBVIOUS
    <3>1. ~watch'.blind /\ UNCHANGED watch /\ n.gen = watch.gen /\ SameRecord
      BY <2>2, <1>3 DEF SameBuffer, n
    <3>2. n.gen = record.gen
      BY <3>1, <2>1, <1>3, <1>4 DEF PerformInv, WatchFollows
    <3>3. n # [record EXCEPT !.on = FALSE, !.buffer = <<>>]
      <4> SUFFICES ASSUME n = [record EXCEPT !.on = FALSE, !.buffer = <<>>] PROVE FALSE
        OBVIOUS
      <4>1. ~watch.blind
        BY <3>1
      <4>2. watch' # [watch EXCEPT !.blind = TRUE]
        BY <3>1, <4>1 DEF PerformInv, PerformTypeOK
      <4> QED
        BY <4>1, <4>2 DEF n
    <3> QED
      BY <3>1, <3>2, <3>3, <2>1 DEF SameBuffer
  <2>4. ASSUME SameBuffer', NEW p \in record'.all, p.sequence >= watch'.next
        PROVE  Unread(p)' \/ record'.evicted >= p.sequence
    <3>1. SameBuffer /\ p \in record.all /\ p.sequence >= watch.next /\ n.buffer = record.buffer
      BY <2>1, <2>3, <2>4, <1>3 DEF n
    <3>2. Unread(p) \/ record.evicted >= p.sequence
      BY <3>1 DEF PerformInv, WatchFollows
    <3> QED
      BY <3>1, <3>2, <2>1, <1>3 DEF Unread, n
  <2>5. /\ watch'.at = "reads" => watch'.epoch <= record'.epoch
        /\ SameRecord' => /\ record'.here /\ watch'.gen <= record'.gen /\ watch'.next <= record'.next
                          /\ watch'.order <= record'.completed
        /\ SameBuffer' => record'.on
    BY <2>1, <2>2, <2>3, <1>3, <1>4 DEF PerformInv, WatchFollows, n
  <2> QED
    BY <1>2, <2>4, <2>5 DEF WatchFollows
<1> QED
  BY <1>1, <1>5, <1>6 DEF Moves

LEMMA OthersKeep == ASSUME PerformInv, OthersUse PROVE PerformInv'
<1>1. UNCHANGED perform
  BY DEF OthersUse
<1>2. /\ record' \in {Ensured(record), [record EXCEPT !.buffer = <<>>, !.gen = @ + 1],
                      [record EXCEPT !.on = FALSE, !.buffer = <<>>], NoRecord(record.epoch + 1)}
      /\ \/ UNCHANGED watch /\ record' # [record EXCEPT !.on = FALSE, !.buffer = <<>>]
         \/ watch' = [watch EXCEPT !.blind = TRUE]
  <2>1. RecordOK
    BY DEF PerformInv
  <2>2. /\ Ensured(record) # [record EXCEPT !.on = FALSE, !.buffer = <<>>]
        /\ [record EXCEPT !.buffer = <<>>, !.gen = @ + 1] # [record EXCEPT !.on = FALSE, !.buffer = <<>>]
        /\ NoRecord(record.epoch + 1) # [record EXCEPT !.on = FALSE, !.buffer = <<>>]
    <3>1. Ensured(record).on /\ ~[record EXCEPT !.on = FALSE, !.buffer = <<>>].on
      BY <2>1 DEF RecordOK, Ensured, PageRecord
    <3>2. /\ [record EXCEPT !.buffer = <<>>, !.gen = @ + 1].gen = record.gen + 1
          /\ [record EXCEPT !.on = FALSE, !.buffer = <<>>].gen = record.gen /\ record.gen \in Nat
      BY <2>1 DEF RecordOK, PageRecord
    <3>3. /\ NoRecord(record.epoch + 1).epoch = record.epoch + 1
          /\ [record EXCEPT !.on = FALSE, !.buffer = <<>>].epoch = record.epoch /\ record.epoch \in Nat
      BY <2>1 DEF RecordOK, NoRecord, PageRecord
    <3>4. \A x, y : x = y => x.on = y.on /\ x.gen = y.gen /\ x.epoch = y.epoch
      OBVIOUS
    <3>5. record.gen + 1 # record.gen /\ record.epoch + 1 # record.epoch
      BY <3>2, <3>3
    <3> QED
      BY <3>1, <3>2, <3>3, <3>4, <3>5
  <2> QED
    BY <2>2 DEF OthersUse
<1>3. RecordOK' /\ WatchFollows'
  BY <1>2, MovedFollows
<1>4. PerformTypeOK'
  BY <1>1, <1>2 DEF PerformInv, PerformTypeOK
<1> QED
  BY <1>1, <1>2, <1>3, <1>4, RecordMoves

LEMMA ArmsKeep == ASSUME PerformInv, Arms PROVE PerformInv'
<1>1. /\ perform.at = "none" /\ perform' = [perform EXCEPT !.at = "arming"]
      /\ record' = Ensured(record) /\ UNCHANGED watch
  BY DEF Arms
<1>2. Ensured(record) # [record EXCEPT !.on = FALSE, !.buffer = <<>>]
  <2>1. Ensured(record).on /\ ~[record EXCEPT !.on = FALSE, !.buffer = <<>>].on
    BY DEF PerformInv, RecordOK, Ensured, PageRecord
  <2> QED
    BY <2>1
<1>3. RecordOK' /\ WatchFollows'
  BY <1>1, <1>2, MovedFollows
<1>4. /\ PerformTypeOK'
      /\ perform'.at = "arming" /\ perform'.reply = perform.reply
  BY <1>1 DEF PerformInv, PerformTypeOK
<1> QED
  BY <1>1, <1>3, <1>4, RecordMoves

\* A step of the sequence or of the watch leaves the record alone.
LEMMA WatchMoves ==
  ASSUME PerformInv, UNCHANGED record, PerformTypeOK', WatchFollows', Outcome' PROVE PerformInv'
  BY DEF PerformInv, RecordOK

LEMMA NotBelow == (\A x, y \in Nat : x < y => ~(x >= y)) /\ (\A x \in Nat : x <= x)
  OBVIOUS

LEMMA ArmedKeeps == ASSUME PerformInv, Armed PROVE PerformInv'
<1> USE DEF PerformInv, PerformTypeOK
<1>1. UNCHANGED record /\ perform.at = "arming"
  BY DEF Armed
<1>2. CASE ~record.here \/ late \/ ~performable
  <2>1. perform' = [perform EXCEPT !.at = "over", !.reply = "failed"] /\ UNCHANGED watch
    BY <1>2 DEF Armed, Replies
  <2>2. PerformTypeOK' /\ perform'.at = "over" /\ perform'.reply = "failed"
    BY <2>1
  <2>3. WatchFollows'
    BY <1>1, <2>1 DEF WatchFollows, SameRecord, SameBuffer, Unread
  <2>4. Outcome'
    BY <2>1, <2>2 DEF Outcome
  <2> QED
    BY <1>1, <2>2, <2>3, <2>4, WatchMoves
<1>3. CASE ~(~record.here \/ late \/ ~performable)
  <2>1. /\ perform' = [perform EXCEPT !.at = "steps"] /\ record.here
        /\ watch' = [watch EXCEPT !.at = "reads", !.epoch = record.epoch, !.blind = ~record.on,
                                   !.next = record.next, !.gen = record.gen, !.order = record.completed]
    BY <1>3 DEF Armed
  <2>2. record.epoch \in Nat /\ record.next \in Nat /\ record.gen \in Nat /\ record.completed \in Nat
        /\ record.on \in BOOLEAN
    BY DEF RecordOK, PageRecord
  <2>3. /\ PerformTypeOK' /\ perform'.at = "steps" /\ perform'.reply = perform.reply
        /\ watch'.at = "reads" /\ watch'.epoch = record.epoch /\ (~watch'.blind => record.on)
        /\ watch'.next = record.next /\ watch'.gen = record.gen /\ watch'.order = record.completed
        /\ watch'.result = watch.result /\ watch'.known = watch.known
    BY <2>1, <2>2
  <2>4. WatchFollows'
    <3>1. \A q \in record.all : ~(q.sequence >= record.next)
      <4>1. \A q \in record.all : q.sequence < record.next /\ q.sequence \in Nat
        BY DEF RecordOK, PageRecord, PageRequest
      <4> QED
        BY <4>1, <2>2, NotBelow
    <3> QED
      <4>1. /\ watch'.epoch <= record.epoch /\ record.here /\ watch'.gen <= record.gen
            /\ watch'.next <= record.next /\ watch'.order <= record.completed
        <5>1. record.here
          BY <2>1
        <5> QED
          BY <5>1, <2>2, <2>3, NotBelow, Zenon
      <4>2. SameBuffer' => record.on
        BY <2>3 DEF SameBuffer
      <4>3. \A q \in record.all : ~(q.sequence >= watch'.next)
        BY <3>1, <2>3
      <4> QED
        BY <1>1, <4>1, <4>2, <4>3 DEF WatchFollows
  <2>5. Outcome'
    BY <1>1, <2>3 DEF Outcome
  <2> QED
    BY <1>1, <2>3, <2>4, <2>5, WatchMoves
<1> QED
  BY <1>2, <1>3

\* The watch is over, with the result of a read or without one.
LEMMA WatchEnds ==
  ASSUME PerformInv, UNCHANGED record, PerformTypeOK',
         watch'.at = "over",
         perform'.at \notin {"none", "arming"},
         perform'.at = "outcomes" => perform'.step > Steps,
         watch'.result \in {"matched", "failed"} =>
           \E q \in watch'.known : q.hit = (IF watch'.result = "matched" THEN "good" ELSE "bad"),
         watch'.result = "timeout" => watch'.known = {} \/ watch'.blind,
         perform'.reply = "verified" =>
           perform'.at = "over" /\ perform'.step > Steps /\ watch'.result = "matched"
  PROVE  PerformInv'
<1>1. WatchFollows'
  BY DEF WatchFollows, SameRecord, SameBuffer
<1>2. Outcome'
  BY DEF Outcome
<1> QED
  BY <1>1, <1>2, WatchMoves

\* Natural numbers have a least one.
LEMMA SmallestOrder ==
  ASSUME NEW S, S \subseteq Nat, S # {} PROVE \E i \in S : \A j \in S : i <= j
<1>1. \E i \in S : \A j \in S : ~(<<j, i>> \in OpToRel(<, Nat))
  BY NatLessThanWellFounded, WFMin, Zenon
<1>2. \A i, j \in Nat : <<i, j>> \in OpToRel(<, Nat) <=> i < j
  BY DEF OpToRel
<1>3. \E i \in S : \A j \in S : ~(j < i)
  BY <1>1, <1>2, Zenon
<1> QED
  BY <1>3

LEMMA ReadsKeep == ASSUME PerformInv, perform.at # "over", Reads PROVE PerformInv'
<1> DEFINE known == IF record.epoch = watch.epoch THEN Matching(record) ELSE watch.known
           fresh == FreshHits(record)
           first == CHOOSE e \in fresh : \A f \in fresh : e.order <= f.order
           result == IF Gap(record) THEN "interrupted"
                     ELSE IF fresh = {} THEN watch.result
                     ELSE IF first.hit = "good" THEN "matched" ELSE "failed"
           w == watch'
<1>1. /\ watch.at = "reads" /\ UNCHANGED record /\ UNCHANGED perform
      /\ watch' = [watch EXCEPT !.known = known, !.order = record.completed,
                     !.at = IF Gap(record) \/ fresh # {} THEN "over" ELSE "reads", !.result = result]
  BY DEF Reads
<1>2. /\ RecordOK /\ PerformTypeOK /\ WatchFollows /\ Outcome
      /\ record.completed \in Nat /\ watch.result = "pending"
      /\ perform.reply # "verified" /\ perform.at \notin {"none", "arming"}
  BY <1>1 DEF PerformInv, RecordOK, PageRecord, Outcome
<1>3. Matching(record) \subseteq record.all /\ Matching(record) \subseteq PageRequest
  BY <1>2 DEF Matching, RecordOK, PageRecord
<1>4. known \in SUBSET PageRequest
  BY <1>2, <1>3 DEF PerformTypeOK
\* An entry that is read is one of a request that is over.
<1>5. \A e \in fresh : /\ e \in PageEntry /\ e.hit \in {"good", "bad"} /\ e.sequence >= watch.next
                       /\ [sequence |-> e.sequence, hit |-> e.hit] \in record.all
  <2>1. ASSUME NEW e \in fresh
        PROVE  /\ e \in PageEntry /\ e.hit \in {"good", "bad"} /\ e.sequence >= watch.next
               /\ [sequence |-> e.sequence, hit |-> e.hit] \in record.all
    <3>1. e \in ToSet(record.buffer) /\ e.hit # "other" /\ e.sequence >= watch.next
      BY DEF FreshHits
    <3>2. PICK i \in DOMAIN record.buffer : record.buffer[i] = e
      BY <3>1 DEF ToSet
    <3>3. record.buffer \in Seq(PageEntry)
      BY <1>2 DEF RecordOK, PageRecord
    <3>4. e \in PageEntry
      BY <3>2, <3>3
    <3> QED
      BY <3>1, <3>2, <3>4, <1>2 DEF RecordOK, PageEntry, Hits
  <2> QED
    BY <2>1
<1>6. fresh # {} => first \in fresh
  <2> SUFFICES ASSUME fresh # {} PROVE \E e \in fresh : \A f \in fresh : e.order <= f.order
    OBVIOUS
  <2> HIDE DEF fresh
  <2> DEFINE orders == {e.order : e \in fresh}
  <2>1. orders \subseteq Nat /\ orders # {}
    BY <1>5 DEF PageEntry
  <2>2. PICK i \in orders : \A j \in orders : i <= j
    BY <2>1, SmallestOrder
  <2> QED
    BY <2>2
<1> HIDE DEF fresh, first
<1>7. /\ PerformTypeOK' /\ w.known = known /\ w.order = record.completed /\ w.result = result
      /\ w.at = IF Gap(record) \/ fresh # {} THEN "over" ELSE "reads"
      /\ w.epoch = watch.epoch /\ w.next = watch.next /\ w.gen = watch.gen /\ w.blind = watch.blind
  <2>1. result \in {"pending", "matched", "failed", "interrupted", "timeout"}
    BY <1>2
  <2> HIDE DEF result, known
  <2> QED
    BY <1>1, <1>2, <1>4, <2>1 DEF PerformTypeOK
<1>8. CASE Gap(record) \/ fresh # {}
  <2>1. w.at = "over" /\ result \in {"interrupted", "matched", "failed"}
    BY <1>7, <1>8
  <2>2. ASSUME result \in {"matched", "failed"}
        PROVE  \E q \in known : q.hit = (IF result = "matched" THEN "good" ELSE "bad")
    <3>1. ~Gap(record) /\ fresh # {} /\ first \in fresh /\ result = IF first.hit = "good" THEN "matched" ELSE "failed"
      BY <2>2, <1>8, <1>6
    <3>2. record.epoch = watch.epoch
      BY <3>1 DEF Gap
    <3>3. /\ [sequence |-> first.sequence, hit |-> first.hit] \in record.all
          /\ first.sequence >= watch.next /\ first.hit \in {"good", "bad"}
      BY <3>1, <1>5
    <3>4. [sequence |-> first.sequence, hit |-> first.hit] \in known
      BY <3>2, <3>3 DEF Matching
    <3> HIDE DEF known, result
    <3> QED
      BY <3>1, <3>3, <3>4
  <2> HIDE DEF known, result
  <2>3. UNCHANGED record /\ UNCHANGED perform
    BY <1>1
  <2>4. perform.at = "outcomes" => perform.step > Steps
    BY <1>2 DEF Outcome
  <2> QED
    BY <1>2, <1>7, <2>1, <2>2, <2>3, <2>4, WatchEnds DEF w
<1>9. CASE ~Gap(record) /\ fresh = {}
  <2>1. /\ record.here /\ record.epoch = watch.epoch /\ record.gen = watch.gen
        /\ ~(record.evicted >= watch.next) /\ SameRecord
    BY <1>9, <1>1 DEF Gap, LostFresh, SameRecord
  \* Nothing that matches is over: it would have been read, or its loss been told.
  <2>2. watch.blind \/ Matching(record) = {}
    <3> SUFFICES ASSUME ~watch.blind, NEW q \in Matching(record) PROVE FALSE
      OBVIOUS
    <3>1. q \in record.all /\ q.sequence >= watch.next /\ q.hit # "other" /\ q.sequence \in Nat
      BY <1>2, <1>3 DEF Matching, RecordOK, PageRecord, PageRequest
    <3>2. Unread(q) \/ record.evicted >= q.sequence
      BY <2>1, <3>1, <1>2 DEF SameBuffer, WatchFollows
    <3>3. watch.next \in Nat /\ record.evicted \in Int
      BY <1>2 DEF RecordOK, PageRecord, PerformTypeOK
    <3>4. Unread(q)
      BY <3>1, <3>2, <3>3, <2>1
    <3>5. PICK i \in DOMAIN record.buffer : /\ record.buffer[i].sequence = q.sequence
                                            /\ record.buffer[i].hit = q.hit
                                            /\ record.buffer[i].order > watch.order
      BY <3>4 DEF Unread
    <3>6. record.buffer[i] \in fresh
      BY <3>1, <3>5 DEF fresh, FreshHits, ToSet
    <3> QED
      BY <3>6, <1>9
  <2>3. w.at = "reads" /\ w.result = "pending" /\ (w.known = {} \/ w.blind)
    BY <1>7, <1>9, <1>2, <2>1, <2>2
  <2>4. WatchFollows'
    <3>1. SameRecord' /\ (SameBuffer' => SameBuffer)
      BY <1>1, <1>7, <2>1, <2>3 DEF SameRecord, SameBuffer
    <3>2. SameBuffer' => \A q \in record.all : ~(q.sequence >= watch.next)
      BY <2>2, <1>7, <3>1 DEF SameBuffer, Matching
    <3> QED
      BY <1>1, <1>2, <1>7, <3>1, <3>2, <2>1 DEF WatchFollows
  <2>5. Outcome'
    BY <1>1, <1>2, <2>3 DEF Outcome
  <2> QED
    BY <1>1, <1>7, <2>4, <2>5, WatchMoves
<1> QED
  BY <1>8, <1>9

LEMMA StopsKeep ==
  ASSUME PerformInv, perform.at # "over", ReadFails \/ StopsWatching PROVE PerformInv'
<1>1. /\ watch.at = "reads" /\ UNCHANGED record /\ UNCHANGED perform
      /\ \E how \in {"interrupted", "timeout"} : watch' = [watch EXCEPT !.at = "over", !.result = how]
  BY DEF ReadFails, StopsWatching
<1>2. PICK how \in {"interrupted", "timeout"} : watch' = [watch EXCEPT !.at = "over", !.result = how]
  BY <1>1
<1>3. /\ PerformTypeOK' /\ watch'.at = "over" /\ watch'.result = how
      /\ watch'.known = watch.known /\ watch'.blind = watch.blind
  BY <1>1, <1>2 DEF PerformInv, PerformTypeOK
<1>4. /\ watch.known = {} \/ watch.blind
      /\ perform.at \notin {"none", "arming"} /\ perform.reply # "verified"
      /\ perform.at = "outcomes" => perform.step > Steps
  BY <1>1 DEF PerformInv, Outcome
<1> QED
  BY <1>1, <1>3, <1>4, WatchEnds

\* The sequence goes on beside its watch.
LEMMA StepsKeep ==
  ASSUME PerformInv, UNCHANGED record, UNCHANGED watch, perform.at \in {"steps", "step", "outcomes"},
         PerformTypeOK', perform'.at \in {"steps", "step", "outcomes", "over"},
         perform'.at = "outcomes" => perform'.step > Steps,
         perform'.reply = "verified" =>
            perform'.at = "over" /\ perform'.step > Steps /\ watch.result = "matched"
  PROVE  PerformInv'
<1>1. WatchFollows'
  BY DEF PerformInv, WatchFollows, SameRecord, SameBuffer, Unread
<1>2. Outcome'
  BY DEF PerformInv, Outcome
<1> QED
  BY <1>1, <1>2, WatchMoves

\* A reply that the sequence failed stops the watch.
LEMMA FailureKeeps ==
  ASSUME PerformInv, UNCHANGED record, perform.at \in {"steps", "step"}, Replies("failed"),
         watch' = Stopped(watch)
  PROVE  PerformInv'
<1>1. /\ perform' = [perform EXCEPT !.at = "over", !.reply = "failed"]
      /\ watch' = IF watch.result = "pending" THEN [watch EXCEPT !.at = "over", !.result = "interrupted"]
                  ELSE [watch EXCEPT !.at = "over"]
  BY DEF Replies, Stopped
<1>2. /\ PerformTypeOK' /\ perform'.at = "over" /\ perform'.reply = "failed" /\ watch'.at = "over"
      /\ watch'.known = watch.known /\ watch'.blind = watch.blind
      /\ watch'.result = watch.result \/ watch'.result = "interrupted"
  BY <1>1 DEF PerformInv, PerformTypeOK
<1>3. Outcome
  BY DEF PerformInv
<1> QED
  BY <1>2, <1>3, WatchEnds DEF Outcome

LEMMA SameParts ==
  ASSUME PerformInv, UNCHANGED record, UNCHANGED perform, UNCHANGED watch PROVE PerformInv'
<1>0. RecordOK'
  BY DEF PerformInv, RecordOK
<1>1. PerformTypeOK'
  BY DEF PerformInv, PerformTypeOK
<1>2. Outcome'
  BY DEF PerformInv, Outcome
<1>3. WatchFollows'
  BY DEF PerformInv, WatchFollows, SameRecord, SameBuffer, Unread
<1> QED
  BY <1>0, <1>1, <1>2, <1>3 DEF PerformInv

LEMMA PerformGoesOn == PerformInv /\ [PerformNext]_performVars => PerformInv'
<1> SUFFICES ASSUME PerformInv, [PerformNext]_performVars PROVE PerformInv'
  OBVIOUS
<1>1. CASE UNCHANGED performVars
  BY <1>1, SameParts DEF performVars
<1>t. PerformTypeOK /\ Outcome
  BY DEF PerformInv
<1>2. CASE DispatchesStep
  <2>1. /\ perform.at = "steps" /\ perform' = [perform EXCEPT !.at = "step"]
        /\ UNCHANGED record /\ UNCHANGED watch
    BY <1>2 DEF DispatchesStep
  <2>2. PerformTypeOK' /\ perform'.at = "step" /\ perform'.reply = perform.reply
    BY <1>t, <2>1 DEF PerformTypeOK
  <2> QED
    BY <2>1, <2>2, <1>t, StepsKeep DEF Outcome
<1>3. CASE StepRefused
  BY <1>3, FailureKeeps DEF StepRefused
<1>4. CASE StepEnds
  <2>1. UNCHANGED record /\ perform.at = "step"
    BY <1>4 DEF StepEnds
  <2>2. CASE Replies("failed") /\ watch' = Stopped(watch)
    BY <2>1, <2>2, FailureKeeps
  <2>3. CASE perform' = [perform EXCEPT !.at = "steps", !.step = @ + 1] /\ UNCHANGED watch
    <3> DEFINE next == perform.step + 1
    <3>0. next \in Nat
      <4>1. perform.step \in Nat
        BY <1>t DEF PerformTypeOK
      <4> QED
        BY <4>1
    <3>2. perform' = [perform EXCEPT !.at = "steps", !.step = next]
      BY <2>3
    <3> HIDE DEF next
    <3>1. PerformTypeOK' /\ perform'.at = "steps" /\ perform'.reply = perform.reply
      BY <1>t, <2>3, <3>0, <3>2 DEF PerformTypeOK
    <3> QED
      BY <2>1, <2>3, <3>1, <1>t, StepsKeep DEF Outcome
  <2> QED
    BY <1>4, <2>2, <2>3 DEF StepEnds
<1>5. CASE WaitsForOutcomes
  <2> DEFINE dom == IF perform.dom = "pending" /\ (late \/ ~performable) THEN "missed" ELSE perform.dom
  <2>1. /\ perform.at = "steps" /\ perform.step > Steps
        /\ perform' = [perform EXCEPT !.at = "outcomes", !.dom = dom]
        /\ UNCHANGED record /\ UNCHANGED watch
    BY <1>5, <1>t DEF WaitsForOutcomes, PerformTypeOK
  <2>2. dom \in {"pending", "matched", "missed"}
    BY <1>t DEF PerformTypeOK
  <2> HIDE DEF dom
  <2>3. /\ PerformTypeOK' /\ perform'.at = "outcomes" /\ perform'.reply = perform.reply
        /\ perform'.step = perform.step
    BY <1>t, <2>1, <2>2 DEF PerformTypeOK
  <2> QED
    BY <2>1, <2>3, <1>t, StepsKeep DEF Outcome
<1>6. CASE DomOutcome
  <2>1. PICK how \in {"matched", "missed"} : perform' = [perform EXCEPT !.dom = how]
    BY <1>6 DEF DomOutcome
  <2>2. perform.at = "outcomes" /\ UNCHANGED record /\ UNCHANGED watch
    BY <1>6 DEF DomOutcome
  <2>3. /\ PerformTypeOK' /\ perform'.at = "outcomes" /\ perform'.reply = perform.reply
        /\ perform'.step = perform.step
    BY <1>t, <2>1, <2>2 DEF PerformTypeOK
  <2> QED
    BY <2>2, <2>3, <1>t, StepsKeep DEF Outcome
<1>7. CASE Concludes
  <2> DEFINE how == IF ~performable THEN "failed"
                    ELSE IF watch.result = "matched" /\ perform.dom = "matched" THEN "verified"
                    ELSE "not met"
  <2>1. /\ perform.at = "outcomes" /\ UNCHANGED record /\ UNCHANGED watch
        /\ perform' = [perform EXCEPT !.at = "over", !.reply = how]
    BY <1>7 DEF Concludes, Replies
  <2>2. how \in {"failed", "verified", "not met"} /\ (how = "verified" => watch.result = "matched")
    OBVIOUS
  <2> HIDE DEF how
  <2>3. /\ PerformTypeOK' /\ perform'.at = "over" /\ perform'.reply = how
        /\ perform'.step = perform.step
    BY <1>t, <2>1, <2>2 DEF PerformTypeOK
  <2> QED
    BY <2>1, <2>2, <2>3, <1>t, StepsKeep DEF Outcome
<1>8. CASE DeadlinePasses \/ AccessLost
  BY <1>8, SameParts DEF DeadlinePasses, AccessLost
<1>9. PerformNext => perform.at # "over"
  BY DEF PerformNext
<1> QED
  BY <1>1, <1>2, <1>3, <1>4, <1>5, <1>6, <1>7, <1>8, <1>9, ReadsKeep, StopsKeep, ArmsKeep, ArmedKeeps,
     OthersKeep, StartsKeep, EndsKeep
  DEF PerformNext

\* OutcomesTrue for any number of steps, requests, surprises and any size of the page's
\* buffer: a result names a request that started after the baseline and is over, a timeout
\* means that none was over at the last read unless the capture was off, and a verified
\* sequence ran to its end (background-outcomes.ts:116-180, background-perform.ts).
THEOREM OutcomesProved == PerformSpec => []OutcomesTrue
<1>1. PerformInv => OutcomesTrue
  BY DEF PerformInv, Outcome, OutcomesTrue
<1> QED
  BY <1>1, PerformBegins, PerformGoesOn, PTL DEF PerformSpec

-----------------------------------------------------------------------------
(* Visual baselines.                                                        *)

VisualAnswer ==
    {"none", "given up", "left", "failed", "invalidated", "disconnected", "created", "compared"}
Baseline == [id : VCall, of : VCall, tab : Page, doc : Nat, scrolled : BOOLEAN, early : BOOLEAN]
VisualCall ==
    [op : {"none", "create", "compare", "advance"}, tab : SUBSET Page, of : SUBSET Baseline,
     epoch : Nat, pending : BOOLEAN, answer : VisualAnswer]
Frame == [call : VCall, tab : Page, doc : Nat, scrolled : BOOLEAN, early : BOOLEAN]
VisualNote ==
    [kind : {"frame"}, frame : Frame, ok : BOOLEAN] \union [kind : {"invalid"}, tab : Page]
      \union [kind : {"access"}, on : BOOLEAN] \union [kind : {"gone"}]
Pages ==
    [doc : [Page -> Nat], scrolled : SUBSET Page, loading : SUBSET Page, granted : BOOLEAN,
     linked : BOOLEAN]

DaemonVisualsOK ==
    /\ visuals \subseteq Baseline /\ IsFiniteSet(visuals)
    /\ vcalls \in [VCall -> VisualCall]
    /\ vaccess \in [on : BOOLEAN, epoch : Nat]
    /\ vjobs \in Seq(Frame)
    /\ vout \in [queued : SUBSET VCall, handed : SUBSET VCall, open : BOOLEAN]
    /\ spoilt \subseteq VCall
BrowserVisualsOK ==
    /\ frames \subseteq Frame /\ wire \in Seq(VisualNote) /\ scene \in Pages

\* A call that was made and is over stays so.
Over(c) == vcalls[c].op # "none" /\ ~vcalls[c].pending

\* What a call is, and what it refers to.
VisualCallsAgree ==
    \A c \in VCall :
      /\ vcalls[c].epoch <= vaccess.epoch
      /\ vcalls[c].pending => vcalls[c].op # "none" /\ vcalls[c].answer = "none"
      /\ vcalls[c].op \in {"none", "create"} => vcalls[c].of = {}
      /\ vcalls[c].op \in {"compare", "advance"} =>
           \E v \in Baseline : vcalls[c].of = {v} /\ vcalls[c].tab = {v.tab} /\ Over(v.of)

\* A call that was overtaken has ended, or the access it was made under has, or the
\* baseline it refers to.
SpoiltFail ==
    \A c \in spoilt :
      /\ vcalls[c].op # "none"
      /\ vcalls[c].answer \notin {"created", "compared"}
      /\ vcalls[c].pending =>
           vcalls[c].epoch # vaccess.epoch \/ \E v \in vcalls[c].of : v \notin visuals

\* A note to the daemon that ends what it keeps of tab t.
Ends(note, t) == note.kind \in {"access", "gone"} \/ (note.kind = "invalid" /\ note.tab = t)

\* Pixels are of the document of their tab, which is not being replaced.
Current(p) == p.early \/ (p.doc = scene.doc[p.tab] /\ p.tab \notin scene.loading)
Fresh(p) == Current(p) \/ \E j \in DOMAIN wire : Ends(wire[j], p.tab)
FreshBehind(p, i) == Current(p) \/ \E j \in DOMAIN wire : j > i /\ Ends(wire[j], p.tab)

OfCall(f) == vcalls[f.call].op # "none" /\ vcalls[f.call].tab = {f.tab}

\* Every frame is of the page its call asked for; one that comes to be used is fresh,
\* or what makes it stale arrives behind it.
JobAgrees(i) ==
    /\ OfCall(vjobs[i])
    /\ vcalls[vjobs[i].call].pending /\ vcalls[vjobs[i].call].epoch = vaccess.epoch =>
         Fresh(vjobs[i])
NoteAgrees(i) ==
    wire[i].kind = "frame" =>
      OfCall(wire[i].frame) /\ (wire[i].ok => FreshBehind(wire[i].frame, i))
CapturesAgree ==
    /\ \A f \in frames : OfCall(f)
    /\ \A i \in DOMAIN vjobs : JobAgrees(i)
    /\ \A i \in DOMAIN wire : NoteAgrees(i)

PixelsAgree ==
    \A v \in visuals :
      vaccess.on /\ Fresh(v) /\ Over(v.of) /\ v.id \in vout.handed \union vout.queued

\* A connection that is lost says so last; once the daemon knows, it keeps nothing.
LinkAgrees ==
    ~scene.linked =>
      IF wire = <<>> THEN ~vaccess.on /\ visuals = {} /\ Awaited = {}
                     ELSE wire[Len(wire)].kind = "gone"

OfPage(t) == {v \in visuals : v.tab = t}
WithinLimits ==
    Cardinality(visuals) <= MaxPixels /\ \A t \in Page : Cardinality(OfPage(t)) <= MaxPagePixels

\* What PixelsInScope needs to be inductive.
VisualInv ==
    /\ DaemonVisualsOK /\ BrowserVisualsOK
    /\ VisualCallsAgree /\ SpoiltFail /\ CapturesAgree /\ PixelsAgree /\ LinkAgrees /\ WithinLimits

\* PixelsInScope follows.
LEMMA VisualInvSays == VisualInv => PixelsInScope
<1> SUFFICES ASSUME VisualInv PROVE PixelsInScope
  OBVIOUS
<1>1. ASSUME NEW v \in visuals PROVE v.doc = scene.doc[v.tab] \/ v.early \/ Underway(v.tab)
  BY DEF VisualInv, PixelsAgree, Fresh, Current, Ends, Underway
<1>2. \A v \in visuals : vaccess.on /\ v.id \in vout.handed \union vout.queued
  BY DEF VisualInv, PixelsAgree
<1>3. \A c \in spoilt : vcalls[c].answer \notin {"created", "compared"}
  BY DEF VisualInv, SpoiltFail
<1>4. /\ Cardinality(visuals) <= MaxPixels
      /\ \A t \in Page : Cardinality({v \in visuals : v.tab = t}) <= MaxPagePixels
  BY DEF VisualInv, WithinLimits, OfPage
<1> QED
  BY <1>1, <1>2, <1>3, <1>4 DEF PixelsInScope

\* It holds at the start.
LEMMA VisualsBegin == VisualInit => VisualInv
<1> SUFFICES ASSUME VisualInit PROVE VisualInv
  OBVIOUS
<1>1. NoVCall \in VisualCall
  BY DEF NoVCall, VisualCall, VisualAnswer
<1>2. DaemonVisualsOK
  BY <1>1, FS_EmptySet DEF VisualInit, DaemonVisualsOK
<1>3. BrowserVisualsOK
  BY DEF VisualInit, BrowserVisualsOK, Pages
<1>4. \A c \in VCall : vcalls[c] = NoVCall
  BY DEF VisualInit
<1>5. VisualCallsAgree
  BY <1>4 DEF VisualCallsAgree, NoVCall, VisualInit
<1>6. SpoiltFail /\ CapturesAgree /\ PixelsAgree /\ LinkAgrees
  BY DEF VisualInit, SpoiltFail, CapturesAgree, PixelsAgree, LinkAgrees
<1>7. WithinLimits
  <2>1. visuals = {} /\ \A t \in Page : OfPage(t) = {}
    BY DEF VisualInit, OfPage
  <2> QED
    BY <2>1, FS_EmptySet, VisualAssumption DEF WithinLimits
<1> QED
  BY <1>2, <1>3, <1>5, <1>6, <1>7 DEF VisualInv

-----------------------------------------------------------------------------
\* Calls go on, or are over.
CallsStay ==
    \A c \in VCall :
      /\ vcalls'[c].op = vcalls[c].op /\ vcalls'[c].tab = vcalls[c].tab
      /\ vcalls'[c].of = vcalls[c].of /\ vcalls'[c].epoch = vcalls[c].epoch
      /\ vcalls'[c].pending => vcalls[c].pending /\ vcalls'[c].answer = vcalls[c].answer

\* EndVisuals does that.
LEMMA EndVisualsIs ==
  ASSUME DaemonVisualsOK, NEW some \in SUBSET VCall, NEW a \in VisualAnswer,
         vcalls' = EndVisuals(some, a)
  PROVE  /\ vcalls' \in [VCall -> VisualCall] /\ CallsStay
         /\ \A c \in VCall : /\ vcalls'[c].pending <=> vcalls[c].pending /\ c \notin some
                             /\ vcalls'[c].answer = IF c \in some THEN a ELSE vcalls[c].answer
<1>1. \A c \in VCall : vcalls[c] \in VisualCall
  BY DEF DaemonVisualsOK
<1>2. \A c \in VCall : vcalls'[c] = IF c \in some THEN [vcalls[c] EXCEPT !.pending = FALSE, !.answer = a]
                                    ELSE vcalls[c]
  BY DEF EndVisuals
<1>3. ASSUME NEW c \in VCall
      PROVE  /\ vcalls'[c] \in VisualCall
             /\ vcalls'[c].op = vcalls[c].op /\ vcalls'[c].tab = vcalls[c].tab
             /\ vcalls'[c].of = vcalls[c].of /\ vcalls'[c].epoch = vcalls[c].epoch
             /\ vcalls'[c].pending <=> vcalls[c].pending /\ c \notin some
             /\ vcalls'[c].answer = IF c \in some THEN a ELSE vcalls[c].answer
  <2>1. CASE c \in some
    BY <1>1, <1>2, <2>1 DEF VisualCall
  <2>2. CASE c \notin some
    BY <1>1, <1>2, <2>2
  <2> QED
    BY <2>1, <2>2
<1>4. vcalls' \in [VCall -> VisualCall]
  BY <1>3 DEF EndVisuals
<1>5. CallsStay
  BY <1>3 DEF CallsStay
<1> QED
  BY <1>3, <1>4, <1>5

\* What is kept is within the limits if there is less of it.
LEMMA LimitsShrink ==
  ASSUME IsFiniteSet(visuals), WithinLimits, visuals' \subseteq visuals
  PROVE  WithinLimits' /\ IsFiniteSet(visuals')
<1>1. IsFiniteSet(visuals') /\ Cardinality(visuals') <= Cardinality(visuals)
  BY FS_Subset
<1>2. Cardinality(visuals) \in Nat /\ Cardinality(visuals') \in Nat
  BY <1>1, FS_CardinalityType
<1>3. Cardinality(visuals') <= MaxPixels
  BY <1>1, <1>2, VisualAssumption DEF WithinLimits
<1>4. ASSUME NEW t \in Page PROVE Cardinality(OfPage(t)') <= MaxPagePixels
  <2>1. OfPage(t)' \subseteq OfPage(t) /\ OfPage(t) \subseteq visuals
    BY DEF OfPage
  <2>2. IsFiniteSet(OfPage(t))
    BY <2>1, FS_Subset
  <2>3. IsFiniteSet(OfPage(t)') /\ Cardinality(OfPage(t)') <= Cardinality(OfPage(t))
    BY <2>1, <2>2, FS_Subset
  <2>4. Cardinality(OfPage(t)) \in Nat /\ Cardinality(OfPage(t)') \in Nat
    BY <2>2, <2>3, FS_CardinalityType
  <2> QED
    BY <2>3, <2>4, VisualAssumption DEF WithinLimits
<1> QED
  BY <1>1, <1>3, <1>4 DEF WithinLimits

LEMMA CallsAgreeStay ==
  ASSUME VisualCallsAgree, CallsStay, vcalls \in [VCall -> VisualCall], vaccess.epoch \in Nat,
         vaccess'.epoch \in Nat, vaccess.epoch <= vaccess'.epoch
  PROVE  VisualCallsAgree'
<1> SUFFICES ASSUME NEW c \in VCall
             PROVE  /\ vcalls'[c].epoch <= vaccess'.epoch
                    /\ vcalls'[c].pending => vcalls'[c].op # "none" /\ vcalls'[c].answer = "none"
                    /\ vcalls'[c].op \in {"none", "create"} => vcalls'[c].of = {}
                    /\ vcalls'[c].op \in {"compare", "advance"} =>
                         \E v \in Baseline : /\ vcalls'[c].of = {v} /\ vcalls'[c].tab = {v.tab}
                                             /\ Over(v.of)'
  BY DEF VisualCallsAgree
<1>1. vcalls[c].epoch \in Nat
  BY DEF VisualCall
<1>2. vcalls'[c].epoch <= vaccess'.epoch
  BY <1>1 DEF VisualCallsAgree, CallsStay
<1>3. \A d \in VCall : Over(d) => Over(d)'
  BY DEF Over, CallsStay
<1>4. \A v \in Baseline : v.of \in VCall
  BY DEF Baseline
<1> QED
  BY <1>2, <1>3, <1>4 DEF VisualCallsAgree, CallsStay

\* What is overtaken stays overtaken: a baseline that is gone does not return.
LEMMA SpoiltStay ==
  ASSUME VisualCallsAgree, SpoiltFail, CallsStay, vcalls \in [VCall -> VisualCall], spoilt \subseteq VCall,
         vaccess.epoch \in Nat, vaccess'.epoch \in Nat, vaccess.epoch <= vaccess'.epoch,
         \A v \in visuals' : v \in visuals \/ ~Over(v.of),
         \A c \in spoilt' : vcalls'[c].answer \notin {"created", "compared"},
         \A c \in spoilt' : c \in spoilt \/
           (/\ c \in Awaited
            /\ vcalls'[c].pending =>
                 vcalls[c].epoch # vaccess'.epoch \/ \E v \in vcalls[c].of : v \notin visuals')
  PROVE  SpoiltFail'
<1> SUFFICES ASSUME NEW c \in spoilt'
             PROVE  /\ vcalls'[c].op # "none"
                    /\ vcalls'[c].pending =>
                         vcalls'[c].epoch # vaccess'.epoch \/ \E v \in vcalls'[c].of : v \notin visuals'
  BY DEF SpoiltFail
<1>1. CASE c \in spoilt
  <2>1. c \in VCall /\ vcalls[c].op # "none" /\ vcalls'[c].op # "none" /\ vcalls[c].epoch \in Nat
    BY <1>1 DEF SpoiltFail, CallsStay, VisualCall
  <2>2. SUFFICES ASSUME vcalls'[c].pending
                 PROVE  vcalls'[c].epoch # vaccess'.epoch \/ \E v \in vcalls'[c].of : v \notin visuals'
    BY <2>1
  <2>3. vcalls[c].epoch # vaccess.epoch \/ \E v \in vcalls[c].of : v \notin visuals
    BY <1>1, <2>1, <2>2 DEF SpoiltFail, CallsStay
  <2>4. CASE vcalls[c].epoch # vaccess.epoch
    BY <2>1, <2>4 DEF VisualCallsAgree, CallsStay
  <2>5. CASE \E v \in vcalls[c].of : v \notin visuals
    <3>1. PICK v \in vcalls[c].of : v \notin visuals
      BY <2>5
    <3>2. vcalls[c].op \in {"compare", "advance"}
      BY <2>1, <3>1 DEF VisualCallsAgree, VisualCall
    <3>3. Over(v.of)
      BY <2>1, <3>1, <3>2 DEF VisualCallsAgree
    <3>4. v \notin visuals'
      BY <3>1, <3>3
    <3> QED
      BY <2>1, <3>1, <3>4 DEF CallsStay
  <2> QED
    BY <2>3, <2>4, <2>5
<1>2. CASE c \notin spoilt
  <2>1. c \in Awaited /\ c \in VCall
    BY <1>2 DEF Awaited
  <2> QED
    BY <1>2, <2>1 DEF Awaited, VisualCallsAgree, CallsStay
<1> QED
  BY <1>1, <1>2

LEMMA OfCallStays ==
  ASSUME CallsStay, NEW f \in Frame, OfCall(f) PROVE OfCall(f)'
  BY DEF OfCall, CallsStay, Frame

\* A step of the daemon or an agent that takes no message.
LEMMA DaemonKeeps ==
  ASSUME VisualInv, DaemonVisualsOK', CallsStay, UNCHANGED <<vaccess, frames, wire, scene>>,
         vjobs' = vjobs \/ (vjobs # <<>> /\ vjobs' = Tail(vjobs)),
         \A v \in visuals' : /\ \/ v \in visuals
                                \/ ~Over(v.of) /\ Over(v.of)' /\ vaccess.on /\ Fresh(v) /\ visuals' # {}
                             /\ v.id \in vout'.handed \union vout'.queued,
         visuals = {} /\ Awaited = {} => visuals' = {},
         WithinLimits',
         \A c \in spoilt' : vcalls'[c].answer \notin {"created", "compared"},
         \A c \in spoilt' : c \in spoilt \/
           (c \in Awaited /\ (vcalls'[c].pending => \E v \in vcalls[c].of : v \notin visuals'))
  PROVE  VisualInv'
<1> USE DEF VisualInv
<1>1. /\ vcalls \in [VCall -> VisualCall] /\ vaccess.epoch \in Nat /\ vaccess'.epoch = vaccess.epoch
      /\ vaccess'.on = vaccess.on /\ spoilt \subseteq VCall /\ vjobs \in Seq(Frame)
      /\ visuals \subseteq Baseline /\ visuals' \subseteq Baseline
  BY DEF DaemonVisualsOK
<1>2. vaccess.epoch <= vaccess'.epoch
  BY <1>1
<1>3. BrowserVisualsOK'
  BY DEF BrowserVisualsOK
<1>4. VisualCallsAgree'
  BY <1>1, <1>2, CallsAgreeStay
<1>5. SpoiltFail'
  <2>1. \A v \in visuals' : v \in visuals \/ ~Over(v.of)
    OBVIOUS
  <2>2. \A c \in spoilt' : c \in spoilt \/
           (/\ c \in Awaited
            /\ vcalls'[c].pending =>
                 vcalls[c].epoch # vaccess'.epoch \/ \E v \in vcalls[c].of : v \notin visuals')
    OBVIOUS
  <2> QED
    BY <1>1, <1>2, <2>1, <2>2, SpoiltStay
<1>6. \A p : Fresh(p)' <=> Fresh(p)
  BY DEF Fresh, Current
<1>7. CapturesAgree'
  <2>1. \A f \in frames' : OfCall(f)'
    BY OfCallStays DEF CapturesAgree, BrowserVisualsOK
  <2>2. ASSUME NEW i \in DOMAIN vjobs'
        PROVE  \E k \in DOMAIN vjobs : vjobs'[i] = vjobs[k] /\ vjobs[k] \in Frame
    <3>1. CASE vjobs' = vjobs
      BY <1>1, <3>1
    <3>2. CASE vjobs # <<>> /\ vjobs' = Tail(vjobs)
      <4>1. i \in 1..(Len(vjobs) - 1) /\ Tail(vjobs)[i] = vjobs[i + 1] /\ i + 1 \in DOMAIN vjobs
        BY <1>1, <3>2, HeadTailProperties
      <4> QED
        BY <1>1, <3>2, <4>1
    <3> QED
      BY <3>1, <3>2
  <2>3. ASSUME NEW i \in DOMAIN vjobs' PROVE JobAgrees(i)'
    <3>1. PICK k \in DOMAIN vjobs : vjobs'[i] = vjobs[k] /\ vjobs[k] \in Frame
      BY <2>2
    <3>2. PICK f \in Frame : f = vjobs[k]
      BY <3>1
    <3>3. f.call \in VCall
      BY <3>2 DEF Frame
    <3>4. OfCall(f) /\ (vcalls[f.call].pending /\ vcalls[f.call].epoch = vaccess.epoch => Fresh(f))
      BY <3>2 DEF CapturesAgree, JobAgrees
    <3>5. OfCall(f)'
      BY <3>4, OfCallStays
    <3>6. vcalls'[f.call].pending /\ vcalls'[f.call].epoch = vaccess'.epoch => Fresh(f)'
      BY <1>1, <1>6, <3>3, <3>4 DEF CallsStay
    <3> QED
      BY <3>1, <3>2, <3>5, <3>6 DEF JobAgrees
  <2>4. ASSUME NEW i \in DOMAIN wire' PROVE NoteAgrees(i)'
    <3>1. SUFFICES ASSUME wire[i].kind = "frame"
                   PROVE  OfCall(wire[i].frame)' /\ (wire[i].ok => FreshBehind(wire[i].frame, i)')
      BY DEF NoteAgrees, OfCall, FreshBehind, Current
    <3>2. i \in DOMAIN wire /\ wire[i] \in VisualNote
      BY DEF BrowserVisualsOK
    <3>3. PICK f \in Frame : f = wire[i].frame
      BY <3>1, <3>2 DEF VisualNote
    <3>4. OfCall(f) /\ (wire[i].ok => FreshBehind(f, i))
      BY <3>1, <3>2, <3>3 DEF CapturesAgree, NoteAgrees
    <3>5. OfCall(f)'
      BY <3>3, <3>4, OfCallStays
    <3>6. FreshBehind(f, i) => FreshBehind(f, i)'
      BY DEF FreshBehind, Current
    <3> QED
      BY <3>3, <3>4, <3>5, <3>6 DEF OfCall, FreshBehind, Current
  <2> QED
    BY <2>1, <2>3, <2>4 DEF CapturesAgree
<1>8. PixelsAgree'
  <2>1. ASSUME NEW v \in visuals'
        PROVE  vaccess'.on /\ Fresh(v)' /\ Over(v.of)' /\ v.id \in vout'.handed \union vout'.queued
    <3>1. CASE v \in visuals
      <4>1. vaccess.on /\ Fresh(v) /\ Over(v.of) /\ v.of \in VCall
        BY <1>1, <3>1 DEF PixelsAgree, Baseline
      <4> QED
        BY <1>1, <1>6, <4>1 DEF Over, CallsStay
    <3>2. CASE v \notin visuals
      BY <1>1, <1>6, <3>2
    <3> QED
      BY <3>1, <3>2
  <2> QED
    BY <2>1 DEF PixelsAgree
<1>9. LinkAgrees'
  <2>1. Awaited' \subseteq Awaited
    BY DEF Awaited, CallsStay
  <2> QED
    BY <1>1, <2>1 DEF LinkAgrees
<1> QED
  BY <1>3, <1>4, <1>5, <1>7, <1>8, <1>9

\* A step of the browser.
LEMMA BrowserKeeps ==
  ASSUME VisualInv, BrowserVisualsOK', UNCHANGED <<visuals, vcalls, vaccess, vjobs, vout, spoilt>>,
         \A f \in frames' : OfCall(f),
         \/ wire' = wire
         \/ \E n \in VisualNote :
              /\ wire' = Append(wire, n)
              /\ n.kind = "frame" => OfCall(n.frame) /\ (n.ok => Current(n.frame)'),
         \A t \in Page : \/ t \notin scene.loading => t \notin scene'.loading /\ scene'.doc[t] = scene.doc[t]
                         \/ wire' # <<>> /\ Ends(wire'[Len(wire')], t)
                         \/ wire' = <<>> /\ visuals = {} /\ Awaited = {},
         LinkAgrees'
  PROVE  VisualInv'
<1> USE DEF VisualInv
<1>1. /\ wire \in Seq(VisualNote) /\ wire' \in Seq(VisualNote)
      /\ Len(wire) <= Len(wire') /\ \A i \in DOMAIN wire : i \in DOMAIN wire' /\ wire'[i] = wire[i]
  <2>1. wire \in Seq(VisualNote) /\ wire' \in Seq(VisualNote)
    BY DEF BrowserVisualsOK
  <2>2. CASE wire' = wire
    BY <2>1, <2>2
  <2>3. CASE \E n \in VisualNote : wire' = Append(wire, n)
    BY <2>1, <2>3, AppendProperties
  <2> QED
    BY <2>1, <2>2, <2>3
<1>2. DaemonVisualsOK' /\ VisualCallsAgree' /\ SpoiltFail' /\ WithinLimits'
  BY DEF DaemonVisualsOK, VisualCallsAgree, SpoiltFail, WithinLimits, OfPage, Over
<1>3. \A f : OfCall(f)' <=> OfCall(f)
  BY DEF OfCall
<1>4. DOMAIN wire' = 1..Len(wire') /\ (wire' # <<>> => Len(wire') \in DOMAIN wire')
  BY <1>1
\* A frame that is current stays so, or what ends it is the last note.
<1>5. ASSUME NEW p, p.tab \in Page, Current(p)
      PROVE  \/ Current(p)' \/ (wire' # <<>> /\ Ends(wire'[Len(wire')], p.tab))
             \/ wire' = <<>> /\ visuals = {} /\ Awaited = {}
  BY <1>5 DEF Current
<1>6. ASSUME NEW p, p.tab \in Page, Fresh(p)
      PROVE  Fresh(p)' \/ (wire' = <<>> /\ visuals = {} /\ Awaited = {})
  <2>1. CASE Current(p)
    BY <1>4, <1>5, <1>6, <2>1 DEF Fresh
  <2>2. CASE \E j \in DOMAIN wire : Ends(wire[j], p.tab)
    BY <1>1, <2>2 DEF Fresh
  <2> QED
    BY <1>6, <2>1, <2>2 DEF Fresh
<1>7. CapturesAgree'
  <2>1. \A f \in frames' : OfCall(f)'
    BY <1>3
  <2>2. ASSUME NEW i \in DOMAIN vjobs' PROVE JobAgrees(i)'
    <3>1. vjobs'[i] = vjobs[i] /\ i \in DOMAIN vjobs /\ vjobs[i] \in Frame
      BY DEF DaemonVisualsOK
    <3>2. PICK f \in Frame : f = vjobs[i]
      BY <3>1
    <3>3. f.tab \in Page /\ f.call \in VCall
      BY DEF Frame
    <3>4. OfCall(f) /\ (vcalls[f.call].pending /\ vcalls[f.call].epoch = vaccess.epoch => Fresh(f))
      BY <3>1, <3>2 DEF CapturesAgree, JobAgrees
    <3>5. vcalls[f.call].pending => Awaited # {}
      BY <3>3 DEF Awaited
    <3>6. vcalls[f.call].pending /\ vcalls[f.call].epoch = vaccess.epoch => Fresh(f)'
      BY <3>3, <3>4, <3>5, <1>6
    <3>7. OfCall(f)'
      BY <3>4, <1>3
    <3> QED
      BY <3>1, <3>2, <3>6, <3>7 DEF JobAgrees
  <2>3. ASSUME NEW i \in DOMAIN wire' PROVE NoteAgrees(i)'
    <3>1. PICK m \in VisualNote : m = wire'[i]
      BY <1>1
    <3>2. CASE m.kind # "frame"
      BY <3>1, <3>2 DEF NoteAgrees
    <3>3. CASE m.kind = "frame"
      <4>1. PICK f \in Frame : f = m.frame
        BY <3>3 DEF VisualNote
      <4>2. f.tab \in Page /\ i \in 1..Len(wire') /\ wire' # <<>> /\ Len(wire') \in DOMAIN wire'
        <5>1. f.tab \in Page
          BY DEF Frame
        <5>2. i \in 1..Len(wire')
          BY <1>4
        <5>3. wire' # <<>>
          BY <5>2
        <5> QED
          BY <1>4, <5>1, <5>2, <5>3
      <4>3. OfCall(f) /\ (m.ok => FreshBehind(f, i)')
        <5>1. CASE i \in DOMAIN wire
          <6>1. wire[i] = m
            BY <1>1, <3>1, <5>1
          <6>2. OfCall(f) /\ (m.ok => FreshBehind(f, i))
            BY <6>1, <3>3, <4>1, <5>1 DEF CapturesAgree, NoteAgrees
          <6>3. ASSUME Current(f) PROVE FreshBehind(f, i)'
            <7>1. Current(f)' \/ Ends(wire'[Len(wire')], f.tab)
              BY <1>5, <4>2, <6>3
            <7>2. CASE Ends(wire'[Len(wire')], f.tab)
              <8>1. Len(wire') # i
                BY <3>1, <3>3, <7>2 DEF Ends
              <8>2. Len(wire') > i
                BY <8>1, <4>2
              <8> QED
                BY <7>2, <8>2, <4>2 DEF FreshBehind
            <7> QED
              BY <7>1, <7>2 DEF FreshBehind
          <6>4. ASSUME NEW j \in DOMAIN wire, j > i, Ends(wire[j], f.tab) PROVE FreshBehind(f, i)'
            BY <1>1, <6>4 DEF FreshBehind
          <6> QED
            BY <6>2, <6>3, <6>4 DEF FreshBehind
        <5>2. CASE i \notin DOMAIN wire
          <6>1. PICK n \in VisualNote : /\ wire' = Append(wire, n)
                                        /\ n.kind = "frame" => OfCall(n.frame) /\ (n.ok => Current(n.frame)')
            BY <5>2, <4>2
          <6>2. m = n
            BY <6>1, <4>2, <5>2, <1>1, <3>1, AppendProperties
          <6> QED
            BY <6>1, <6>2, <3>3, <4>1 DEF FreshBehind
        <5> QED
          BY <5>1, <5>2
      <4>4. OfCall(f)'
        BY <4>3, <1>3
      <4> QED
        BY <3>1, <4>1, <4>3, <4>4 DEF NoteAgrees
    <3> QED
      BY <3>2, <3>3
  <2> QED
    BY <2>1, <2>2, <2>3 DEF CapturesAgree
<1>8. PixelsAgree'
  <2>1. ASSUME NEW v \in visuals'
        PROVE  vaccess'.on /\ Fresh(v)' /\ Over(v.of)' /\ v.id \in vout'.handed \union vout'.queued
    <3>1. v \in visuals /\ v.tab \in Page
      BY DEF DaemonVisualsOK, Baseline
    <3>2. vaccess.on /\ Fresh(v) /\ Over(v.of) /\ v.id \in vout.handed \union vout.queued
      BY <3>1 DEF PixelsAgree
    <3>3. Fresh(v)'
      BY <3>1, <3>2, <1>6
    <3> QED
      BY <3>2, <3>3 DEF Over
  <2> QED
    BY <2>1 DEF PixelsAgree
<1> QED
  BY <1>2, <1>7, <1>8

LEMMA FirstNote ==
  ASSUME BrowserVisualsOK, wire # <<>>
  PROVE  /\ Head(wire) = wire[1] /\ Head(wire) \in VisualNote /\ Tail(wire) \in Seq(VisualNote)
         /\ Len(wire) \in Nat \ {0} /\ Len(Tail(wire)) = Len(wire) - 1
         /\ DOMAIN wire = 1..Len(wire) /\ DOMAIN Tail(wire) = 1..(Len(wire) - 1)
         /\ \A i \in 1..(Len(wire) - 1) : Tail(wire)[i] = wire[i + 1]
<1>1. wire \in Seq(VisualNote)
  BY DEF BrowserVisualsOK
<1>2. Len(wire) \in Nat \ {0} /\ DOMAIN wire = 1..Len(wire) /\ Head(wire) = wire[1]
  BY <1>1, EmptySeq, HeadTailProperties
<1>3. /\ Tail(wire) \in Seq(VisualNote) /\ Len(Tail(wire)) = Len(wire) - 1
      /\ \A i \in 1..(Len(wire) - 1) : Tail(wire)[i] = wire[i + 1]
  BY <1>1, HeadTailProperties
<1>4. DOMAIN Tail(wire) = 1..(Len(wire) - 1)
  BY <1>3
<1>5. wire[1] \in VisualNote
  BY <1>1, <1>2
<1> QED
  BY <1>2, <1>3, <1>4, <1>5

\* The daemon takes the first message.
LEMMA TakesKeeps ==
  ASSUME VisualInv, DaemonVisualsOK', CallsStay, wire # <<>>, wire' = Tail(wire),
         UNCHANGED <<scene, frames, vout>>, vaccess.epoch <= vaccess'.epoch,
         visuals' \subseteq visuals, visuals' # {} => vaccess'.on,
         \A v \in visuals' : ~Ends(Head(wire), v.tab),
         \A i \in DOMAIN vjobs' :
           /\ vjobs'[i] \in Frame /\ OfCall(vjobs'[i])
           /\ vcalls'[vjobs'[i].call].pending /\ vcalls'[vjobs'[i].call].epoch = vaccess'.epoch =>
                \/ Fresh(vjobs'[i]) /\ ~Ends(Head(wire), vjobs'[i].tab)
                \/ FreshBehind(vjobs'[i], 1),
         \A c \in spoilt' : vcalls'[c].answer \notin {"created", "compared"},
         \A c \in spoilt' : c \in spoilt \/
           (c \in Awaited /\ (vcalls'[c].pending => vcalls[c].epoch # vaccess'.epoch)),
         ~scene.linked /\ Head(wire).kind = "gone" => ~vaccess'.on /\ visuals' = {} /\ Awaited' = {}
  PROVE  VisualInv'
<1> USE DEF VisualInv
<1>1. /\ vcalls \in [VCall -> VisualCall] /\ vaccess.epoch \in Nat /\ vaccess'.epoch \in Nat
      /\ spoilt \subseteq VCall /\ visuals \subseteq Baseline /\ IsFiniteSet(visuals)
  BY DEF DaemonVisualsOK
<1>2. /\ Head(wire) = wire[1] /\ Head(wire) \in VisualNote /\ wire' \in Seq(VisualNote)
      /\ Len(wire) \in Nat \ {0} /\ Len(wire') = Len(wire) - 1
      /\ DOMAIN wire = 1..Len(wire) /\ DOMAIN wire' = 1..(Len(wire) - 1)
      /\ \A i \in 1..(Len(wire) - 1) : wire'[i] = wire[i + 1]
  BY FirstNote
<1>3. BrowserVisualsOK'
  BY <1>2 DEF BrowserVisualsOK
<1>4. VisualCallsAgree'
  BY <1>1, CallsAgreeStay
<1>5. SpoiltFail'
  <2>1. \A v \in visuals' : v \in visuals \/ ~Over(v.of)
    OBVIOUS
  <2>2. \A c \in spoilt' : c \in spoilt \/
           (/\ c \in Awaited
            /\ vcalls'[c].pending =>
                 vcalls[c].epoch # vaccess'.epoch \/ \E v \in vcalls[c].of : v \notin visuals')
    OBVIOUS
  <2> QED
    BY <1>1, <2>1, <2>2, SpoiltStay
<1>6. \A p : Current(p)' <=> Current(p)
  BY DEF Current
<1>7. ASSUME NEW p, FreshBehind(p, 1) \/ (Fresh(p) /\ ~Ends(wire[1], p.tab)) PROVE Fresh(p)'
  <2>1. CASE Current(p)
    BY <2>1, <1>6 DEF Fresh
  <2>2. CASE ~Current(p)
    <3>1. PICK j \in DOMAIN wire : Ends(wire[j], p.tab) /\ j # 1
      BY <1>2, <1>7, <2>2 DEF Fresh, FreshBehind
    <3>2. j - 1 \in DOMAIN wire' /\ wire'[j - 1] = wire[j]
      BY <1>2, <3>1
    <3>3. Ends(wire'[j - 1], p.tab)
      BY <3>1, <3>2
    <3> QED
      BY <3>2, <3>3 DEF Fresh
  <2> QED
    BY <2>1, <2>2
<1>8. CapturesAgree'
  <2>1. \A f \in frames' : OfCall(f)'
    BY OfCallStays DEF CapturesAgree, BrowserVisualsOK
  <2>2. ASSUME NEW i \in DOMAIN vjobs' PROVE JobAgrees(i)'
    <3>1. PICK f \in Frame : f = vjobs'[i]
      OBVIOUS
    <3>2. OfCall(f)'
      BY <3>1, OfCallStays
    <3>3. vcalls'[f.call].pending /\ vcalls'[f.call].epoch = vaccess'.epoch => Fresh(f)'
      BY <3>1, <1>2, <1>7
    <3> QED
      BY <3>1, <3>2, <3>3 DEF JobAgrees
  <2>3. ASSUME NEW i \in DOMAIN wire' PROVE NoteAgrees(i)'
    <3>1. i + 1 \in DOMAIN wire /\ wire'[i] = wire[i + 1] /\ wire[i + 1] \in VisualNote
      BY <1>2 DEF BrowserVisualsOK
    <3>2. PICK m \in VisualNote : m = wire[i + 1] /\ m = wire'[i]
      BY <3>1
    <3>3. CASE m.kind # "frame"
      BY <3>2, <3>3 DEF NoteAgrees
    <3>4. CASE m.kind = "frame"
      <4>1. PICK f \in Frame : f = m.frame
        BY <3>4 DEF VisualNote
      <4>2. OfCall(f) /\ (m.ok => FreshBehind(f, i + 1))
        BY <3>1, <3>2, <3>4, <4>1 DEF CapturesAgree, NoteAgrees
      <4>3. OfCall(f)'
        BY <4>2, OfCallStays
      <4>4. ASSUME NEW j \in DOMAIN wire, j > i + 1, Ends(wire[j], f.tab) PROVE FreshBehind(f, i)'
        <5>1. j - 1 \in DOMAIN wire' /\ j - 1 > i /\ wire'[j - 1] = wire[j]
          BY <1>2, <3>1, <4>4
        <5> QED
          BY <4>4, <5>1 DEF FreshBehind
      <4>5. Current(f) => FreshBehind(f, i)'
        BY <1>6 DEF FreshBehind
      <4>6. FreshBehind(f, i + 1) => FreshBehind(f, i)'
        BY <4>4, <4>5 DEF FreshBehind
      <4> QED
        BY <3>2, <4>1, <4>2, <4>3, <4>6 DEF NoteAgrees
    <3> QED
      BY <3>3, <3>4
  <2> QED
    BY <2>1, <2>2, <2>3 DEF CapturesAgree
<1>9. PixelsAgree'
  <2>1. ASSUME NEW v \in visuals'
        PROVE  vaccess'.on /\ Fresh(v)' /\ Over(v.of)' /\ v.id \in vout'.handed \union vout'.queued
    <3>1. v \in visuals /\ Fresh(v) /\ Over(v.of) /\ v.of \in VCall /\ v.id \in vout.handed \union vout.queued
      BY <1>1 DEF PixelsAgree, Baseline
    <3>2. Fresh(v)'
      BY <1>2, <1>7, <3>1
    <3>3. Over(v.of)'
      BY <3>1 DEF Over, CallsStay
    <3> QED
      BY <3>1, <3>2, <3>3
  <2> QED
    BY <2>1 DEF PixelsAgree
<1>10. LinkAgrees'
  <2> SUFFICES ASSUME ~scene'.linked
               PROVE  IF wire' = <<>> THEN ~vaccess'.on /\ visuals' = {} /\ Awaited' = {}
                                      ELSE wire'[Len(wire')].kind = "gone"
    BY DEF LinkAgrees
  <2>1. ~scene.linked /\ wire[Len(wire)].kind = "gone"
    BY DEF LinkAgrees
  <2>2. CASE wire' = <<>>
    <3>1. Len(wire) = 1
      BY <1>2, <2>2
    <3> QED
      BY <1>2, <2>1, <2>2, <3>1
  <2>3. CASE wire' # <<>>
    <3>1. Len(wire') \in Nat \ {0} /\ Len(wire') = Len(wire) - 1
      BY <1>2, <2>3, EmptySeq
    <3>2. Len(wire') \in 1..(Len(wire) - 1) /\ Len(wire') + 1 = Len(wire)
      BY <1>2, <3>1
    <3>3. wire'[Len(wire')] = wire[Len(wire)]
      BY <1>2, <3>2
    <3> QED
      BY <2>1, <2>3, <3>3
  <2> QED
    BY <2>2, <2>3
<1>11. WithinLimits'
  BY <1>1, LimitsShrink
<1> QED
  BY <1>3, <1>4, <1>5, <1>8, <1>9, <1>10, <1>11

\* An agent asks for a baseline, or for a comparison with one that is kept.
LEMMA AsksKeeps ==
  ASSUME VisualInv, NEW c \in VCall, NEW call \in VisualCall, AsksVisual(c, call), call.answer = "none",
         \/ call.op = "create" /\ call.of = {}
         \/ /\ call.op \in {"compare", "advance"}
            /\ \E v \in visuals : call.of = {v} /\ call.tab = {v.tab}
  PROVE  VisualInv'
<1> USE DEF VisualInv
<1>1. /\ vcalls[c].op = "none" /\ vaccess.on
      /\ vcalls' = [vcalls EXCEPT ![c] = [call EXCEPT !.pending = TRUE, !.epoch = vaccess.epoch]]
      /\ UNCHANGED <<visuals, vaccess, vjobs, vout, frames, wire, scene, spoilt>>
  BY DEF AsksVisual
<1>2. vcalls \in [VCall -> VisualCall] /\ vaccess.epoch \in Nat
  BY DEF DaemonVisualsOK
<1>3. PICK new \in VisualCall :
        /\ new = [call EXCEPT !.pending = TRUE, !.epoch = vaccess.epoch]
        /\ new.op = call.op /\ new.of = call.of /\ new.tab = call.tab /\ new.answer = "none"
        /\ new.pending /\ new.epoch = vaccess.epoch
  <2> DEFINE made == [call EXCEPT !.pending = TRUE, !.epoch = vaccess.epoch]
  <2>1. /\ made \in VisualCall /\ made.op = call.op /\ made.of = call.of /\ made.tab = call.tab
        /\ made.answer = call.answer /\ made.pending /\ made.epoch = vaccess.epoch
    BY <1>2 DEF VisualCall
  <2> HIDE DEF made
  <2>2. made = [call EXCEPT !.pending = TRUE, !.epoch = vaccess.epoch]
    BY DEF made
  <2> QED
    BY <2>1, <2>2
<1>4. /\ vcalls' \in [VCall -> VisualCall] /\ vcalls'[c] = new
      /\ \A d \in VCall : d # c => vcalls'[d] = vcalls[d]
  BY <1>1, <1>2, <1>3
<1>5. \A d \in VCall : vcalls[d].op # "none" => vcalls'[d] = vcalls[d]
  BY <1>1, <1>4
<1>6. \A d \in VCall : Over(d) => Over(d)'
  BY <1>5 DEF Over
<1>7. \A p : (Fresh(p)' <=> Fresh(p)) /\ (Current(p)' <=> Current(p))
  BY <1>1 DEF Fresh, Current
<1>8. ASSUME NEW f \in Frame, OfCall(f) PROVE OfCall(f)' /\ vcalls'[f.call] = vcalls[f.call]
  BY <1>5, <1>8 DEF OfCall, Frame
<1>9. DaemonVisualsOK' /\ BrowserVisualsOK' /\ WithinLimits'
  BY <1>1, <1>4 DEF DaemonVisualsOK, BrowserVisualsOK, WithinLimits, OfPage
<1>10. VisualCallsAgree'
  <2> SUFFICES ASSUME NEW d \in VCall
               PROVE  /\ vcalls'[d].epoch <= vaccess'.epoch
                      /\ vcalls'[d].pending => vcalls'[d].op # "none" /\ vcalls'[d].answer = "none"
                      /\ vcalls'[d].op \in {"none", "create"} => vcalls'[d].of = {}
                      /\ vcalls'[d].op \in {"compare", "advance"} =>
                           \E v \in Baseline : /\ vcalls'[d].of = {v} /\ vcalls'[d].tab = {v.tab}
                                               /\ Over(v.of)'
    BY DEF VisualCallsAgree
  <2>1. \A v \in Baseline : v.of \in VCall
    BY DEF Baseline
  <2>2. CASE d = c
    <3>1. new.op \in {"compare", "advance"} => \E v \in visuals : new.of = {v} /\ new.tab = {v.tab}
      BY <1>3
    <3>2. \A v \in visuals : v \in Baseline /\ Over(v.of)'
      BY <1>6, <2>1 DEF DaemonVisualsOK, PixelsAgree
    <3> QED
      BY <1>1, <1>2, <1>3, <1>4, <2>2, <3>1, <3>2
  <2>3. CASE d # c
    BY <1>1, <1>4, <1>6, <2>1, <2>3 DEF VisualCallsAgree
  <2> QED
    BY <2>2, <2>3
<1>11. SpoiltFail'
  BY <1>1, <1>5 DEF SpoiltFail, DaemonVisualsOK
<1>12. CapturesAgree'
  <2>1. \A f \in frames' : OfCall(f)'
    BY <1>1, <1>8 DEF CapturesAgree, BrowserVisualsOK
  <2>2. ASSUME NEW i \in DOMAIN vjobs' PROVE JobAgrees(i)'
    <3>1. PICK f \in Frame : f = vjobs'[i] /\ f = vjobs[i] /\ i \in DOMAIN vjobs
      BY <1>1 DEF DaemonVisualsOK
    <3>2. OfCall(f) /\ (vcalls[f.call].pending /\ vcalls[f.call].epoch = vaccess.epoch => Fresh(f))
      BY <3>1 DEF CapturesAgree, JobAgrees
    <3> QED
      BY <1>1, <1>7, <1>8, <3>1, <3>2 DEF JobAgrees
  <2>3. ASSUME NEW i \in DOMAIN wire' PROVE NoteAgrees(i)'
    <3>1. PICK m \in VisualNote : m = wire[i] /\ i \in DOMAIN wire
      BY <1>1 DEF BrowserVisualsOK
    <3>2. CASE m.kind # "frame"
      BY <1>1, <3>1, <3>2 DEF NoteAgrees
    <3>3. CASE m.kind = "frame"
      <4>1. PICK f \in Frame : f = m.frame
        BY <3>3 DEF VisualNote
      <4>2. OfCall(f) /\ (m.ok => FreshBehind(f, i))
        BY <3>1, <3>3, <4>1 DEF CapturesAgree, NoteAgrees
      <4>3. OfCall(f)' /\ (m.ok => FreshBehind(f, i)')
        BY <1>1, <1>7, <1>8, <4>2 DEF FreshBehind
      <4> QED
        BY <1>1, <3>1, <4>1, <4>3 DEF NoteAgrees
    <3> QED
      BY <3>2, <3>3
  <2> QED
    BY <2>1, <2>2, <2>3 DEF CapturesAgree
<1>13. PixelsAgree'
  <2>1. \A v \in visuals : v.of \in VCall
    BY DEF DaemonVisualsOK, Baseline
  <2> QED
    BY <1>1, <1>6, <1>7, <2>1 DEF PixelsAgree
<1>14. LinkAgrees'
  BY <1>1 DEF LinkAgrees
<1> QED
  BY <1>9, <1>10, <1>11, <1>12, <1>13, <1>14

LEMMA CreatesKeep ==
  ASSUME VisualInv, NEW c \in VCall, NEW t \in Page, CreateVisual(c, t) PROVE VisualInv'
<1> DEFINE call == [NoVCall EXCEPT !.op = "create", !.tab = {t}]
<1>1. AsksVisual(c, call)
  BY DEF CreateVisual
<1>2. call \in VisualCall /\ call.answer = "none" /\ call.op = "create" /\ call.of = {}
  BY DEF VisualCall, VisualAnswer, NoVCall
<1> HIDE DEF call
<1> QED
  BY <1>1, <1>2, AsksKeeps

LEMMA ComparisonsKeep ==
  ASSUME VisualInv, NEW c \in VCall, NEW v \in visuals, NEW op \in {"compare", "advance"},
         CompareVisual(c, v, op)
  PROVE  VisualInv'
<1> DEFINE call == [NoVCall EXCEPT !.op = op, !.of = {v}, !.tab = {v.tab}]
<1>1. AsksVisual(c, call)
  BY DEF CompareVisual
<1>2. v \in Baseline /\ v.tab \in Page
  BY DEF VisualInv, DaemonVisualsOK, Baseline
<1>3. /\ call \in VisualCall /\ call.answer = "none" /\ call.op \in {"compare", "advance"}
      /\ call.of = {v} /\ call.tab = {v.tab}
  BY <1>2 DEF VisualCall, VisualAnswer, NoVCall
<1> HIDE DEF call
<1> QED
  BY <1>1, <1>3, AsksKeeps

LEMMA NothingSpoilt ==
  ASSUME VisualInv, DaemonVisualsOK', CallsStay, UNCHANGED <<vaccess, frames, wire, scene, spoilt>>,
         vjobs' = vjobs \/ (vjobs # <<>> /\ vjobs' = Tail(vjobs)),
         visuals' \subseteq visuals,
         \A v \in visuals' : v.id \in vout'.handed \union vout'.queued,
         \A c \in spoilt : vcalls'[c].answer \notin {"created", "compared"}
  PROVE  VisualInv'
<1>1. WithinLimits'
  BY LimitsShrink DEF VisualInv, DaemonVisualsOK
<1>2. /\ \A v \in visuals' : v \in visuals
      /\ visuals = {} /\ Awaited = {} => visuals' = {}
  OBVIOUS
<1>3. \A v \in visuals' : /\ \/ v \in visuals
                             \/ ~Over(v.of) /\ Over(v.of)' /\ vaccess.on /\ Fresh(v) /\ visuals' # {}
                          /\ v.id \in vout'.handed \union vout'.queued
  BY <1>2
<1>4. /\ \A c \in spoilt' : vcalls'[c].answer \notin {"created", "compared"}
      /\ \A c \in spoilt' : c \in spoilt \/
           (c \in Awaited /\ (vcalls'[c].pending => \E v \in vcalls[c].of : v \notin visuals'))
  OBVIOUS
<1> QED
  BY <1>1, <1>2, <1>3, <1>4, DaemonKeeps

\* A baseline is released: whoever compares with it will be refused.
LEMMA ForgettingKeeps ==
  ASSUME VisualInv, NEW v \in visuals, ForgetVisual(v) PROVE VisualInv'
<1>1. /\ visuals' = visuals \ {v} /\ spoilt' = spoilt \union Relying(v)
      /\ UNCHANGED <<vcalls, vaccess, vjobs, vout, frames, wire, scene>>
  BY DEF ForgetVisual
<1>2. Relying(v) \subseteq Awaited /\ Awaited \subseteq VCall /\ \A c \in Relying(v) : v \in vcalls[c].of
  BY DEF Relying, Awaited
<1>3. IsFiniteSet(visuals') /\ WithinLimits'
  BY <1>1, LimitsShrink DEF VisualInv, DaemonVisualsOK
<1>4. DaemonVisualsOK' /\ CallsStay
  BY <1>1, <1>2, <1>3 DEF VisualInv, DaemonVisualsOK, CallsStay
<1>5. \A c \in Awaited : vcalls[c].answer = "none"
  BY DEF VisualInv, VisualCallsAgree, Awaited
<1>6. \A c \in spoilt' : vcalls'[c].answer \notin {"created", "compared"}
  BY <1>1, <1>2, <1>5 DEF VisualInv, SpoiltFail
<1>7. \A c \in spoilt' : c \in spoilt \/
         (c \in Awaited /\ (vcalls'[c].pending => \E w \in vcalls[c].of : w \notin visuals'))
  BY <1>1, <1>2
<1>8. \A w \in visuals' : /\ \/ w \in visuals
                             \/ ~Over(w.of) /\ Over(w.of)' /\ vaccess.on /\ Fresh(w) /\ visuals' # {}
                          /\ w.id \in vout'.handed \union vout'.queued
  BY <1>1 DEF VisualInv, PixelsAgree
<1>9. visuals = {} /\ Awaited = {} => visuals' = {}
  BY <1>1
<1> QED
  BY <1>1, <1>3, <1>4, <1>6, <1>7, <1>8, <1>9, DaemonKeeps

\* A request runs out, or its agent leaves.
LEMMA EndingKeeps ==
  ASSUME VisualInv, NEW some \in SUBSET Awaited, NEW a \in VisualAnswer \ {"created", "compared"},
         vcalls' = EndVisuals(some, a), UNCHANGED <<visuals, vaccess, frames, wire, scene, spoilt>>,
         vjobs' = vjobs \/ (vjobs # <<>> /\ vjobs' = Tail(vjobs)),
         \/ UNCHANGED vout
         \/ vout' = [vout EXCEPT !.open = FALSE]
  PROVE  VisualInv'
<1>1. some \in SUBSET VCall /\ a \in VisualAnswer
  BY DEF Awaited
<1>2. DaemonVisualsOK
  BY DEF VisualInv
<1>3. /\ vcalls' \in [VCall -> VisualCall] /\ CallsStay
      /\ \A c \in VCall : vcalls'[c].answer = IF c \in some THEN a ELSE vcalls[c].answer
  BY <1>1, <1>2, EndVisualsIs
<1>4. vjobs' \in Seq(Frame)
  BY <1>2, HeadTailProperties DEF DaemonVisualsOK
<1>5. /\ vout' \in [queued : SUBSET VCall, handed : SUBSET VCall, open : BOOLEAN]
      /\ vout'.queued = vout.queued /\ vout'.handed = vout.handed
  BY <1>2 DEF DaemonVisualsOK
<1>6. DaemonVisualsOK'
  BY <1>2, <1>3, <1>4, <1>5 DEF DaemonVisualsOK
<1>7. \A v \in visuals' : v.id \in vout'.handed \union vout'.queued
  BY <1>5 DEF VisualInv, PixelsAgree
<1>8. \A c \in spoilt : vcalls'[c].answer \notin {"created", "compared"}
  BY <1>2, <1>3 DEF VisualInv, SpoiltFail, DaemonVisualsOK
<1> QED
  BY <1>3, <1>6, <1>7, <1>8, NothingSpoilt

LEMMA GivingUpKeeps ==
  ASSUME VisualInv, NEW c \in VCall, VisualGivenUp(c) PROVE VisualInv'
<1>1. "given up" \in VisualAnswer \ {"created", "compared"}
  BY DEF VisualAnswer
<1>2. {c} \in SUBSET Awaited
  BY DEF VisualGivenUp
<1> QED
  BY <1>1, <1>2, EndingKeeps DEF VisualGivenUp

LEMMA LeavingKeeps ==
  ASSUME VisualInv, VisualAgentLeaves PROVE VisualInv'
<1>1. "left" \in VisualAnswer \ {"created", "compared"}
  BY DEF VisualAnswer
<1>2. Awaited \in SUBSET Awaited
  OBVIOUS
<1> QED
  BY <1>1, <1>2, EndingKeeps DEF VisualAgentLeaves

\* An answer that is not written takes its baseline back.
LEMMA WritingKeeps ==
  ASSUME VisualInv, NEW id \in VCall, VisualWritten(id) PROVE VisualInv'
<1>1. /\ vout' = [vout EXCEPT !.queued = @ \ {id}, !.handed = IF vout.open THEN @ \union {id} ELSE @]
      /\ visuals' = IF vout.open THEN visuals ELSE {v \in visuals : v.id # id}
      /\ UNCHANGED <<vcalls, vaccess, vjobs, frames, wire, scene, spoilt>>
  BY DEF VisualWritten
<1>2. DaemonVisualsOK /\ visuals' \subseteq visuals
  BY <1>1 DEF VisualInv
<1>3. /\ vout' \in [queued : SUBSET VCall, handed : SUBSET VCall, open : BOOLEAN]
      /\ vout'.queued = vout.queued \ {id}
      /\ vout'.handed = IF vout.open THEN vout.handed \union {id} ELSE vout.handed
  BY <1>1, <1>2 DEF DaemonVisualsOK
<1>4. IsFiniteSet(visuals')
  BY <1>2, FS_Subset DEF DaemonVisualsOK
<1>5. DaemonVisualsOK' /\ CallsStay
  BY <1>1, <1>2, <1>3, <1>4 DEF DaemonVisualsOK, CallsStay
<1>6. \A v \in visuals' : v.id \in vout'.handed \union vout'.queued
  BY <1>1, <1>3 DEF VisualInv, PixelsAgree
<1>7. \A c \in spoilt : vcalls'[c].answer \notin {"created", "compared"}
  BY <1>1 DEF VisualInv, SpoiltFail
<1> QED
  BY <1>1, <1>2, <1>5, <1>6, <1>7, NothingSpoilt

-----------------------------------------------------------------------------
\* The browser.
LEMMA BrowserTyped ==
  ASSUME VisualInv
  PROVE  /\ frames \subseteq Frame /\ wire \in Seq(VisualNote) /\ scene.doc \in [Page -> Nat]
         /\ scene.scrolled \subseteq Page /\ scene.loading \subseteq Page
         /\ scene.granted \in BOOLEAN /\ scene.linked \in BOOLEAN /\ scene \in Pages
  BY DEF VisualInv, BrowserVisualsOK, Pages

\* What the browser posts is behind everything, if there is a connection.
LEMMA Posts ==
  ASSUME VisualInv, NEW n \in VisualNote, PostVisual(n)
  PROVE  /\ wire' \in Seq(VisualNote)
         /\ scene.linked => wire' = Append(wire, n) /\ wire' # <<>> /\ wire'[Len(wire')] = n
         /\ ~scene.linked => wire' = wire
<1>1. wire \in Seq(VisualNote)
  BY BrowserTyped
<1>2. PICK s : s = Append(wire, n)
  OBVIOUS
<1>3. s \in Seq(VisualNote) /\ Len(s) = Len(wire) + 1 /\ s[Len(s)] = n /\ Len(wire) \in Nat
  BY <1>1, <1>2, AppendProperties
<1>4. s # <<>>
  BY <1>3
<1> QED
  BY <1>1, <1>2, <1>3, <1>4 DEF PostVisual

LEMMA SampleTyped ==
  ASSUME VisualInv, NEW c \in VCall, NEW t \in Page
  PROVE  /\ Sample(c, t) \in Frame /\ Sample(c, t).call = c /\ Sample(c, t).tab = t
         /\ Sample(c, t).doc = scene.doc[t] /\ (Sample(c, t).early <=> t \in scene.loading)
<1>1. scene.doc[t] \in Nat
  BY BrowserTyped
<1>2. \A d \in Nat : \A x, y \in BOOLEAN :
        LET f == [call |-> c, tab |-> t, doc |-> d, scrolled |-> x, early |-> y]
        IN  f \in Frame /\ f.call = c /\ f.tab = t /\ f.doc = d /\ f.early = y
  BY DEF Frame
<1>3. (t \in scene.scrolled) \in BOOLEAN /\ (t \in scene.loading) \in BOOLEAN
  OBVIOUS
<1>4. /\ Sample(c, t) \in Frame /\ Sample(c, t).call = c /\ Sample(c, t).tab = t
      /\ Sample(c, t).doc = scene.doc[t] /\ Sample(c, t).early = (t \in scene.loading)
  BY <1>1, <1>2, <1>3, Zenon DEF Sample
<1> QED
  BY <1>4

LEMMA BeginningKeeps ==
  ASSUME VisualInv, NEW c \in VCall, NEW t \in Page, CaptureBegins(c, t) PROVE VisualInv'
<1>1. /\ c \in Awaited /\ vcalls[c].tab = {t} /\ frames' = frames \union {Sample(c, t)}
      /\ UNCHANGED <<visuals, vcalls, vaccess, vjobs, vout, wire, scene, spoilt>>
  BY DEF CaptureBegins
<1>2. vcalls[c].op # "none"
  BY <1>1 DEF Awaited, VisualInv, VisualCallsAgree
<1>3. OfCall(Sample(c, t))
  BY <1>1, <1>2, SampleTyped DEF OfCall
<1>4. BrowserVisualsOK' /\ LinkAgrees'
  BY <1>1, SampleTyped DEF VisualInv, BrowserVisualsOK, LinkAgrees, Awaited
<1>5. \A f \in frames' : OfCall(f)
  BY <1>1, <1>3 DEF VisualInv, CapturesAgree
<1> QED
  BY <1>1, <1>4, <1>5, BrowserKeeps

\* A frame is sent on if both samples agree.
LEMMA EndingCaptureKeeps ==
  ASSUME VisualInv, NEW f \in frames, CaptureEnds(f) PROVE VisualInv'
<1>0. PICK now : now = Sample(f.call, f.tab)
  OBVIOUS
<1>1. /\ frames' = frames \ {f}
      /\ PostVisual([kind |-> "frame", frame |-> [f EXCEPT !.early = @ \/ now.early],
                     ok |-> now.doc = f.doc /\ now.scrolled = f.scrolled])
      /\ UNCHANGED <<visuals, vcalls, vaccess, vjobs, vout, scene, spoilt>>
  BY <1>0 DEF CaptureEnds
<1>2. f \in Frame /\ f.call \in VCall /\ f.tab \in Page
  BY BrowserTyped DEF Frame
<1>3. now.doc = scene.doc[f.tab] /\ (now.early <=> f.tab \in scene.loading) /\ now.early \in BOOLEAN
  BY <1>0, <1>2, SampleTyped DEF Frame
<1>4. PICK sent \in Frame :
        /\ sent = [f EXCEPT !.early = @ \/ now.early]
        /\ sent.call = f.call /\ sent.tab = f.tab /\ sent.doc = f.doc
        /\ (sent.early <=> f.early \/ now.early)
  <2> DEFINE s == [f EXCEPT !.early = @ \/ now.early]
  <2>1. /\ s \in Frame /\ s.call = f.call /\ s.tab = f.tab /\ s.doc = f.doc
        /\ (s.early <=> f.early \/ now.early)
    BY <1>2, <1>3 DEF Frame
  <2> QED
    BY <2>1
<1>5. PICK n \in VisualNote :
        /\ PostVisual(n)
        /\ n.kind = "frame" /\ n.frame = sent /\ (n.ok => now.doc = f.doc)
  <2> DEFINE m == [kind |-> "frame", frame |-> sent, ok |-> now.doc = f.doc /\ now.scrolled = f.scrolled]
  <2>1. m \in VisualNote /\ m.kind = "frame" /\ m.frame = sent /\ (m.ok => now.doc = f.doc)
    BY DEF VisualNote
  <2>2. PostVisual(m)
    BY <1>1, <1>4
  <2> HIDE DEF m
  <2> QED
    BY <2>1, <2>2
<1>6. OfCall(sent)
  BY <1>4 DEF VisualInv, CapturesAgree, OfCall
<1>7. n.ok => Current(sent)
  BY <1>3, <1>4, <1>5 DEF Current
<1>8. n.ok => Current(sent)'
  BY <1>1, <1>7 DEF Current
<1>9. /\ wire' \in Seq(VisualNote) /\ (scene.linked => wire' = Append(wire, n))
      /\ (~scene.linked => wire' = wire)
  BY <1>5, Posts
<1>10. \/ wire' = wire
       \/ \E m \in VisualNote :
            /\ wire' = Append(wire, m)
            /\ m.kind = "frame" => OfCall(m.frame) /\ (m.ok => Current(m.frame)')
  BY <1>5, <1>6, <1>8, <1>9
<1>11. BrowserVisualsOK'
  BY <1>1, <1>9 DEF VisualInv, BrowserVisualsOK
<1>12. LinkAgrees'
  BY <1>1, <1>9 DEF VisualInv, LinkAgrees, Awaited
<1>13. \A g \in frames' : OfCall(g)
  BY <1>1 DEF VisualInv, CapturesAgree
<1> QED
  BY <1>1, <1>10, <1>11, <1>12, <1>13, BrowserKeeps

\* A load is announced; without a connection, the daemon knows nothing of the page, or
\* will hear that it was lost.
LEMMA LoadingKeeps ==
  ASSUME VisualInv, NEW t \in Page, VisualPageLoads(t) PROVE VisualInv'
<1> DEFINE n == [kind |-> "invalid", tab |-> t]
<1>1. /\ scene' = [scene EXCEPT !.loading = @ \union {t}] /\ PostVisual(n)
      /\ UNCHANGED <<visuals, vcalls, vaccess, vjobs, vout, frames, spoilt>>
  BY DEF VisualPageLoads
<1>2. n \in VisualNote /\ n.kind = "invalid" /\ n.tab = t
  BY DEF VisualNote
<1> HIDE DEF n
<1>3. /\ wire' \in Seq(VisualNote)
      /\ scene.linked => wire' = Append(wire, n) /\ wire' # <<>> /\ wire'[Len(wire')] = n
      /\ ~scene.linked => wire' = wire
  BY <1>1, <1>2, Posts
<1>4. /\ scene' \in Pages /\ scene'.doc = scene.doc /\ scene'.loading = scene.loading \union {t}
      /\ scene'.linked = scene.linked
  BY <1>1, BrowserTyped DEF Pages
<1>5. BrowserVisualsOK' /\ LinkAgrees'
  BY <1>1, <1>3, <1>4 DEF VisualInv, BrowserVisualsOK, LinkAgrees, Awaited
<1>6. ASSUME NEW p \in Page
      PROVE  \/ p \notin scene.loading => p \notin scene'.loading /\ scene'.doc[p] = scene.doc[p]
             \/ wire' # <<>> /\ Ends(wire'[Len(wire')], p)
             \/ wire' = <<>> /\ visuals = {} /\ Awaited = {}
  <2>1. CASE p # t
    BY <1>4, <2>1
  <2>2. CASE scene.linked /\ p = t
    BY <1>2, <1>3, <2>2 DEF Ends
  <2>3. CASE ~scene.linked
    BY <1>3, <2>3 DEF VisualInv, LinkAgrees, Ends
  <2> QED
    BY <2>1, <2>2, <2>3
<1>7. \/ wire' = wire
      \/ \E m \in VisualNote :
           /\ wire' = Append(wire, m)
           /\ m.kind = "frame" => OfCall(m.frame) /\ (m.ok => Current(m.frame)')
  BY <1>2, <1>3
<1>8. \A f \in frames' : OfCall(f)
  BY <1>1 DEF VisualInv, CapturesAgree
<1> QED
  BY <1>1, <1>5, <1>6, <1>7, <1>8, BrowserKeeps

LEMMA CommittingKeeps ==
  ASSUME VisualInv, NEW t \in Page, VisualPageCommits(t) PROVE VisualInv'
<1>1. /\ t \in scene.loading
      /\ scene' = [scene EXCEPT !.loading = @ \ {t}, !.doc[t] = @ + 1, !.scrolled = @ \ {t}]
      /\ UNCHANGED <<visuals, vcalls, vaccess, vjobs, vout, frames, wire, spoilt>>
  BY DEF VisualPageCommits
<1>2. /\ scene' \in Pages /\ scene'.doc = [scene.doc EXCEPT ![t] = @ + 1]
      /\ scene'.loading = scene.loading \ {t} /\ scene'.linked = scene.linked
  <2>1. PICK doc : doc = [scene.doc EXCEPT ![t] = @ + 1]
    OBVIOUS
  <2>2. doc \in [Page -> Nat]
    BY <2>1, BrowserTyped
  <2>3. scene' = [scene EXCEPT !.loading = scene.loading \ {t}, !.doc = doc,
                               !.scrolled = scene.scrolled \ {t}]
    BY <1>1, <2>1, BrowserTyped DEF Pages
  <2> QED
    BY <2>1, <2>2, <2>3, BrowserTyped DEF Pages
<1>3. BrowserVisualsOK' /\ LinkAgrees'
  BY <1>1, <1>2 DEF VisualInv, BrowserVisualsOK, LinkAgrees, Awaited
<1>4. \A p \in Page : p \notin scene.loading => p \notin scene'.loading /\ scene'.doc[p] = scene.doc[p]
  BY <1>1, <1>2, BrowserTyped
<1>5. \A f \in frames' : OfCall(f)
  BY <1>1 DEF VisualInv, CapturesAgree
<1> QED
  BY <1>1, <1>3, <1>4, <1>5, BrowserKeeps

LEMMA ScrollingKeeps ==
  ASSUME VisualInv, NEW t \in Page, VisualPageScrolls(t) PROVE VisualInv'
<1>1. /\ scene' = [scene EXCEPT !.scrolled = @ \union {t}]
      /\ UNCHANGED <<visuals, vcalls, vaccess, vjobs, vout, frames, wire, spoilt>>
  BY DEF VisualPageScrolls
<1>2. /\ scene' \in Pages /\ scene'.doc = scene.doc /\ scene'.loading = scene.loading
      /\ scene'.linked = scene.linked
  BY <1>1, BrowserTyped DEF Pages
<1>3. BrowserVisualsOK' /\ LinkAgrees'
  BY <1>1, <1>2 DEF VisualInv, BrowserVisualsOK, LinkAgrees, Awaited
<1>4. \A p \in Page : p \notin scene.loading => p \notin scene'.loading /\ scene'.doc[p] = scene.doc[p]
  BY <1>2
<1>5. \A f \in frames' : OfCall(f)
  BY <1>1 DEF VisualInv, CapturesAgree
<1> QED
  BY <1>1, <1>3, <1>4, <1>5, BrowserKeeps

LEMMA GrantingKeeps ==
  ASSUME VisualInv, NEW on \in BOOLEAN, VisualGrantChanges(on) PROVE VisualInv'
<1> DEFINE n == [kind |-> "access", on |-> on]
<1>1. /\ scene.linked /\ scene' = [scene EXCEPT !.granted = on] /\ PostVisual(n)
      /\ UNCHANGED <<visuals, vcalls, vaccess, vjobs, vout, frames, spoilt>>
  BY DEF VisualGrantChanges
<1>2. n \in VisualNote /\ n.kind = "access"
  BY DEF VisualNote
<1> HIDE DEF n
<1>3. wire' \in Seq(VisualNote) /\ wire' = Append(wire, n)
  BY <1>1, <1>2, Posts
<1>4. /\ scene' \in Pages /\ scene'.doc = scene.doc /\ scene'.loading = scene.loading
      /\ scene'.linked = scene.linked
  BY <1>1, BrowserTyped DEF Pages
<1>5. BrowserVisualsOK' /\ LinkAgrees'
  BY <1>1, <1>3, <1>4 DEF VisualInv, BrowserVisualsOK, LinkAgrees
<1>6. \A p \in Page : p \notin scene.loading => p \notin scene'.loading /\ scene'.doc[p] = scene.doc[p]
  BY <1>4
<1>7. \E m \in VisualNote :
           /\ wire' = Append(wire, m)
           /\ m.kind = "frame" => OfCall(m.frame) /\ (m.ok => Current(m.frame)')
  BY <1>2, <1>3
<1>8. \A f \in frames' : OfCall(f)
  BY <1>1 DEF VisualInv, CapturesAgree
<1> QED
  BY <1>1, <1>5, <1>6, <1>7, <1>8, BrowserKeeps

LEMMA LosingKeeps ==
  ASSUME VisualInv, VisualLinkLost PROVE VisualInv'
<1> DEFINE n == [kind |-> "gone"]
<1>1. /\ scene' = [scene EXCEPT !.linked = FALSE, !.granted = FALSE] /\ wire' = Append(wire, n)
      /\ scene.linked /\ frames' = {}
      /\ UNCHANGED <<visuals, vcalls, vaccess, vjobs, vout, spoilt>>
  BY DEF VisualLinkLost
<1>2. n \in VisualNote /\ n.kind = "gone"
  BY DEF VisualNote
<1> HIDE DEF n
<1>3. PostVisual(n)
  BY <1>1 DEF PostVisual
<1>4. wire' \in Seq(VisualNote) /\ wire' # <<>> /\ wire'[Len(wire')] = n
  BY <1>1, <1>2, <1>3, Posts
<1>5. scene' \in Pages /\ scene'.doc = scene.doc /\ scene'.loading = scene.loading
  BY <1>1, BrowserTyped DEF Pages
<1>6. BrowserVisualsOK' /\ LinkAgrees'
  BY <1>1, <1>2, <1>4, <1>5 DEF BrowserVisualsOK, LinkAgrees
<1>7. \A p \in Page : p \notin scene.loading => p \notin scene'.loading /\ scene'.doc[p] = scene.doc[p]
  BY <1>5
<1>8. \E m \in VisualNote :
           /\ wire' = Append(wire, m)
           /\ m.kind = "frame" => OfCall(m.frame) /\ (m.ok => Current(m.frame)')
  BY <1>1, <1>2
<1>9. \A f \in frames' : OfCall(f)
  BY <1>1
<1> QED
  BY <1>1, <1>6, <1>7, <1>8, <1>9, BrowserKeeps

LEMMA LinkingKeeps ==
  ASSUME VisualInv, VisualLinkMade PROVE VisualInv'
<1>1. /\ scene' = [scene EXCEPT !.linked = TRUE]
      /\ UNCHANGED <<visuals, vcalls, vaccess, vjobs, vout, frames, wire, spoilt>>
  BY DEF VisualLinkMade
<1>2. /\ scene' \in Pages /\ scene'.doc = scene.doc /\ scene'.loading = scene.loading /\ scene'.linked
  BY <1>1, BrowserTyped DEF Pages
<1>3. BrowserVisualsOK' /\ LinkAgrees'
  BY <1>1, <1>2 DEF VisualInv, BrowserVisualsOK, LinkAgrees
<1>4. \A p \in Page : p \notin scene.loading => p \notin scene'.loading /\ scene'.doc[p] = scene.doc[p]
  BY <1>2
<1>5. \A f \in frames' : OfCall(f)
  BY <1>1 DEF VisualInv, CapturesAgree
<1> QED
  BY <1>1, <1>3, <1>4, <1>5, BrowserKeeps

-----------------------------------------------------------------------------
\* The daemon and the messages.
LEMMA JobTyped ==
  ASSUME VisualInv, NEW i \in DOMAIN vjobs
  PROVE  \E f \in Frame : /\ f = vjobs[i] /\ f.call \in VCall /\ f.tab \in Page /\ OfCall(f)
                          /\ vcalls[f.call].pending /\ vcalls[f.call].epoch = vaccess.epoch => Fresh(f)
<1>1. vjobs[i] \in Frame
  BY DEF VisualInv, DaemonVisualsOK
<1>2. vjobs[i].call \in VCall /\ vjobs[i].tab \in Page
  BY <1>1 DEF Frame
<1> QED
  BY <1>1, <1>2 DEF VisualInv, CapturesAgree, JobAgrees

LEMMA FrameTaken ==
  ASSUME VisualInv, wire # <<>>, wire' = Tail(wire), Head(wire).kind = "frame", TakesFrame(Head(wire)),
         UNCHANGED <<visuals, vaccess, spoilt, vout, frames, scene>>
  PROVE  VisualInv'
<1>1. /\ Head(wire) = wire[1] /\ Head(wire) \in VisualNote /\ 1 \in DOMAIN wire
  BY FirstNote DEF VisualInv
<1>2. PICK m \in VisualNote : m = Head(wire)
  BY <1>1
<1>3. PICK f \in Frame : f = m.frame /\ m.kind = "frame"
  BY <1>2 DEF VisualNote
<1>4. f.call \in VCall /\ f.tab \in Page
  BY <1>3 DEF Frame
<1>5. OfCall(f) /\ (m.ok => FreshBehind(f, 1))
  BY <1>1, <1>2, <1>3 DEF VisualInv, CapturesAgree, NoteAgrees
<1>6. \/ UNCHANGED <<vcalls, vjobs>>
      \/ m.ok /\ vjobs' = Append(vjobs, f) /\ UNCHANGED vcalls
      \/ vcalls' = EndVisuals({f.call}, "failed") /\ UNCHANGED vjobs
  BY <1>2, <1>3 DEF TakesFrame
<1>7. DaemonVisualsOK /\ vjobs \in Seq(Frame) /\ vaccess.epoch \in Nat
  BY DEF VisualInv, DaemonVisualsOK
<1>8. "failed" \in VisualAnswer /\ {f.call} \in SUBSET VCall
  BY <1>4 DEF VisualAnswer
<1>9. /\ vcalls' \in [VCall -> VisualCall] /\ CallsStay
      /\ \A c \in VCall : vcalls'[c].answer = vcalls[c].answer \/ vcalls'[c].answer = "failed"
  <2>1. CASE UNCHANGED vcalls
    BY <1>7, <2>1 DEF CallsStay, DaemonVisualsOK
  <2>2. CASE vcalls' = EndVisuals({f.call}, "failed")
    <3>1. PICK some \in SUBSET VCall : some = {f.call}
      BY <1>8
    <3>2. vcalls' = EndVisuals(some, "failed")
      BY <2>2, <3>1
    <3>3. /\ vcalls' \in [VCall -> VisualCall] /\ CallsStay
          /\ \A c \in VCall : /\ vcalls'[c].pending <=> vcalls[c].pending /\ c \notin some
                              /\ vcalls'[c].answer = IF c \in some THEN "failed" ELSE vcalls[c].answer
      BY <1>7, <1>8, <3>2, EndVisualsIs
    <3> QED
      BY <3>3
  <2> QED
    BY <1>6, <2>1, <2>2
<1>10. /\ vjobs' \in Seq(Frame)
       /\ \A i \in DOMAIN vjobs' : (i \in DOMAIN vjobs /\ vjobs'[i] = vjobs[i]) \/ (m.ok /\ vjobs'[i] = f)
  <2>1. CASE UNCHANGED vjobs
    BY <1>7, <2>1
  <2>2. CASE m.ok /\ vjobs' = Append(vjobs, f)
    BY <1>7, <2>2, AppendProperties
  <2> QED
    BY <1>6, <2>1, <2>2
<1>11. DaemonVisualsOK'
  BY <1>7, <1>9, <1>10 DEF DaemonVisualsOK
<1>12. ASSUME NEW i \in DOMAIN vjobs'
       PROVE  /\ vjobs'[i] \in Frame /\ OfCall(vjobs'[i])
              /\ vcalls'[vjobs'[i].call].pending /\ vcalls'[vjobs'[i].call].epoch = vaccess'.epoch =>
                   \/ Fresh(vjobs'[i]) /\ ~Ends(Head(wire), vjobs'[i].tab)
                   \/ FreshBehind(vjobs'[i], 1)
  <2>1. CASE i \in DOMAIN vjobs /\ vjobs'[i] = vjobs[i]
    <3>1. PICK g \in Frame : /\ g = vjobs[i] /\ g.call \in VCall /\ g.tab \in Page /\ OfCall(g)
                             /\ vcalls[g.call].pending /\ vcalls[g.call].epoch = vaccess.epoch => Fresh(g)
      BY <2>1, JobTyped
    <3>2. ~Ends(Head(wire), g.tab)
      BY DEF Ends
    <3> QED
      BY <2>1, <3>1, <3>2, <1>9 DEF CallsStay
  <2>2. CASE m.ok /\ vjobs'[i] = f
    BY <1>5, <2>2
  <2> QED
    BY <1>10, <2>1, <2>2
<1>13. \A v \in visuals' : ~Ends(Head(wire), v.tab)
  BY DEF Ends
<1>14. \A c \in spoilt' : vcalls'[c].answer \notin {"created", "compared"}
  BY <1>7, <1>9 DEF VisualInv, SpoiltFail, DaemonVisualsOK
<1>15. vaccess.epoch <= vaccess'.epoch /\ (visuals' # {} => vaccess'.on) /\ visuals' \subseteq visuals
  BY <1>7 DEF VisualInv, PixelsAgree
<1> QED
  BY <1>9, <1>11, <1>12, <1>13, <1>14, <1>15, TakesKeeps

\* The page is being replaced: what is kept of it goes, and its requests fail.
LEMMA InvalidTaken ==
  ASSUME VisualInv, wire # <<>>, wire' = Tail(wire), Head(wire).kind = "invalid",
         InvalidatesTab(Head(wire).tab), UNCHANGED <<vaccess, vjobs, vout, frames, scene>>
  PROVE  VisualInv'
<1> DEFINE t == Head(wire).tab
           hit == {c \in Awaited : vcalls[c].tab = {t}}
<1>1. /\ visuals' = {v \in visuals : v.tab # t} /\ vcalls' = EndVisuals(hit, "invalidated")
      /\ spoilt' = spoilt \union hit
  BY DEF InvalidatesTab
<1>2. hit \subseteq Awaited /\ hit \in SUBSET VCall /\ "invalidated" \in VisualAnswer
  BY DEF Awaited, VisualAnswer
<1>3. DaemonVisualsOK /\ vaccess.epoch \in Nat /\ spoilt \subseteq VCall
  BY DEF VisualInv, DaemonVisualsOK
<1>4. /\ vcalls' \in [VCall -> VisualCall] /\ CallsStay
      /\ \A c \in VCall : /\ vcalls'[c].pending <=> vcalls[c].pending /\ c \notin hit
                          /\ vcalls'[c].answer = IF c \in hit THEN "invalidated" ELSE vcalls[c].answer
  <2> HIDE DEF hit, t
  <2> QED
    BY <1>1, <1>2, <1>3, EndVisualsIs
<1>5. visuals' \subseteq visuals /\ IsFiniteSet(visuals')
  BY <1>1, <1>3, FS_Subset DEF DaemonVisualsOK
<1>6. DaemonVisualsOK'
  BY <1>1, <1>2, <1>3, <1>4, <1>5 DEF DaemonVisualsOK
<1>7. \A p : Ends(Head(wire), p) <=> p = t
  BY DEF Ends
<1>8. ASSUME NEW i \in DOMAIN vjobs'
      PROVE  /\ vjobs'[i] \in Frame /\ OfCall(vjobs'[i])
             /\ vcalls'[vjobs'[i].call].pending /\ vcalls'[vjobs'[i].call].epoch = vaccess'.epoch =>
                  \/ Fresh(vjobs'[i]) /\ ~Ends(Head(wire), vjobs'[i].tab)
                  \/ FreshBehind(vjobs'[i], 1)
  <2>1. PICK g \in Frame : /\ g = vjobs[i] /\ g.call \in VCall /\ g.tab \in Page /\ OfCall(g)
                           /\ vcalls[g.call].pending /\ vcalls[g.call].epoch = vaccess.epoch => Fresh(g)
    BY JobTyped
  <2>2. vcalls'[g.call].pending => vcalls[g.call].pending /\ g.tab # t
    BY <2>1, <1>4 DEF OfCall, Awaited
  <2>3. vcalls'[g.call].epoch = vcalls[g.call].epoch
    BY <2>1, <1>4 DEF CallsStay
  <2> HIDE DEF t, hit
  <2> QED
    BY <2>1, <2>2, <2>3, <1>7
<1>9. \A v \in visuals' : ~Ends(Head(wire), v.tab)
  BY <1>1, <1>7
<1>10. \A c \in spoilt' : vcalls'[c].answer \notin {"created", "compared"}
  BY <1>1, <1>2, <1>3, <1>4 DEF VisualInv, SpoiltFail
<1>11. \A c \in spoilt' : c \in spoilt \/
           (c \in Awaited /\ (vcalls'[c].pending => vcalls[c].epoch # vaccess'.epoch))
  BY <1>1, <1>2, <1>4
<1>12. vaccess.epoch <= vaccess'.epoch /\ (visuals' # {} => vaccess'.on)
  BY <1>3, <1>5 DEF VisualInv, PixelsAgree
<1> HIDE DEF t, hit
<1> QED
  BY <1>4, <1>5, <1>6, <1>8, <1>9, <1>10, <1>11, <1>12, TakesKeeps

\* The access changes, or the browser is gone: whatever was asked under it is stale.
LEMMA ClearingTaken ==
  ASSUME VisualInv, wire # <<>>, wire' = Tail(wire), NEW on \in BOOLEAN, ClearsVisuals(on),
         UNCHANGED <<vjobs, vout, frames, scene>>,
         \/ Head(wire).kind = "access" /\ UNCHANGED vcalls
         \/ Head(wire).kind = "gone" /\ on = FALSE /\ vcalls' = EndVisuals(Awaited, "disconnected")
  PROVE  VisualInv'
<1>1. /\ visuals' = {} /\ spoilt' = spoilt \union Awaited
      /\ vaccess' = [on |-> on, epoch |-> vaccess.epoch + 1]
  BY DEF ClearsVisuals
<1>2. DaemonVisualsOK /\ vaccess.epoch \in Nat /\ spoilt \subseteq VCall
  BY DEF VisualInv, DaemonVisualsOK
<1>3. Awaited \in SUBSET VCall /\ "disconnected" \in VisualAnswer
  BY DEF Awaited, VisualAnswer
<1>4. /\ vcalls' \in [VCall -> VisualCall] /\ CallsStay
      /\ \A c \in VCall : vcalls'[c].answer = vcalls[c].answer \/ vcalls'[c].answer = "disconnected"
      /\ Head(wire).kind = "gone" => \A c \in VCall : ~vcalls'[c].pending
  <2>1. CASE Head(wire).kind = "access" /\ UNCHANGED vcalls
    BY <1>2, <2>1 DEF CallsStay, DaemonVisualsOK
  <2>2. CASE Head(wire).kind = "gone" /\ vcalls' = EndVisuals(Awaited, "disconnected")
    <3>1. /\ vcalls' \in [VCall -> VisualCall] /\ CallsStay
          /\ \A c \in VCall : /\ vcalls'[c].pending <=> vcalls[c].pending /\ c \notin Awaited
                              /\ vcalls'[c].answer = IF c \in Awaited THEN "disconnected" ELSE vcalls[c].answer
      BY <1>2, <1>3, <2>2, EndVisualsIs
    <3> QED
      BY <3>1 DEF Awaited
  <2> QED
    BY <2>1, <2>2
<1>5. vaccess'.on = on /\ vaccess'.epoch = vaccess.epoch + 1 /\ vaccess'.epoch \in Nat
  BY <1>1, <1>2
<1>6. DaemonVisualsOK'
  BY <1>1, <1>2, <1>3, <1>4, FS_EmptySet DEF DaemonVisualsOK
<1>7. \A c \in VCall : vcalls[c].epoch # vaccess'.epoch /\ vcalls'[c].epoch # vaccess'.epoch
  <2>1. \A c \in VCall : vcalls[c].epoch <= vaccess.epoch /\ vcalls[c].epoch \in Nat
    BY <1>2 DEF VisualInv, VisualCallsAgree, DaemonVisualsOK, VisualCall
  <2> QED
    BY <2>1, <1>2, <1>4, <1>5 DEF CallsStay
<1>8. ASSUME NEW i \in DOMAIN vjobs'
      PROVE  /\ vjobs'[i] \in Frame /\ OfCall(vjobs'[i])
             /\ vcalls'[vjobs'[i].call].pending /\ vcalls'[vjobs'[i].call].epoch = vaccess'.epoch =>
                  \/ Fresh(vjobs'[i]) /\ ~Ends(Head(wire), vjobs'[i].tab)
                  \/ FreshBehind(vjobs'[i], 1)
  <2>1. PICK g \in Frame : /\ g = vjobs[i] /\ g.call \in VCall /\ g.tab \in Page /\ OfCall(g)
                           /\ vcalls[g.call].pending /\ vcalls[g.call].epoch = vaccess.epoch => Fresh(g)
    BY JobTyped
  <2> QED
    BY <2>1, <1>7
<1>9. \A c \in spoilt' : c \in VCall /\ vcalls'[c].answer \notin {"created", "compared"}
  <2>1. \A c \in spoilt : vcalls[c].answer \notin {"created", "compared"}
    BY DEF VisualInv, SpoiltFail
  <2>2. \A c \in Awaited : vcalls[c].answer = "none"
    BY DEF VisualInv, VisualCallsAgree, Awaited
  <2> QED
    BY <1>1, <1>2, <1>3, <1>4, <2>1, <2>2
<1>10. \A c \in spoilt' : c \in spoilt \/
           (c \in Awaited /\ (vcalls'[c].pending => vcalls[c].epoch # vaccess'.epoch))
  BY <1>1, <1>3, <1>7
<1>11. ~scene.linked /\ Head(wire).kind = "gone" => ~vaccess'.on /\ visuals' = {} /\ Awaited' = {}
  BY <1>1, <1>4, <1>5 DEF Awaited
<1>12. vaccess.epoch <= vaccess'.epoch /\ visuals' \subseteq visuals
  BY <1>1, <1>2, <1>5
<1> QED
  BY <1>1, <1>4, <1>6, <1>8, <1>9, <1>10, <1>11, <1>12, TakesKeeps

LEMMA TakingKeeps ==
  ASSUME VisualInv, DaemonTakesVisual PROVE VisualInv'
<1>1. wire # <<>> /\ wire' = Tail(wire) /\ UNCHANGED <<vout, frames, scene>>
  BY DEF DaemonTakesVisual
<1>2. CASE Head(wire).kind = "frame" /\ TakesFrame(Head(wire)) /\ UNCHANGED <<visuals, vaccess, spoilt>>
  BY <1>1, <1>2, FrameTaken
<1>3. CASE Head(wire).kind = "invalid" /\ InvalidatesTab(Head(wire).tab) /\ UNCHANGED <<vaccess, vjobs>>
  BY <1>1, <1>3, InvalidTaken
<1>4. CASE Head(wire).kind = "access" /\ ClearsVisuals(Head(wire).on) /\ UNCHANGED <<vcalls, vjobs>>
  <2>1. PICK m \in VisualNote : m = Head(wire)
    BY <1>1, FirstNote DEF VisualInv
  <2>2. m.on \in BOOLEAN
    BY <1>4, <2>1 DEF VisualNote
  <2> QED
    BY <1>1, <1>4, <2>1, <2>2, ClearingTaken
<1>5. CASE /\ Head(wire).kind = "gone" /\ ClearsVisuals(FALSE)
           /\ vcalls' = EndVisuals(Awaited, "disconnected") /\ UNCHANGED vjobs
  BY <1>1, <1>5, ClearingTaken
<1> QED
  BY <1>2, <1>3, <1>4, <1>5 DEF DaemonTakesVisual

-----------------------------------------------------------------------------
\* The disk worker's results.
LEMMA PixelsTyped ==
  ASSUME NEW id \in VCall, NEW f \in Frame
  PROVE  /\ Pixels(id, f) \in Baseline /\ Pixels(id, f).id = id /\ Pixels(id, f).of = f.call
         /\ Pixels(id, f).tab = f.tab /\ Pixels(id, f).doc = f.doc /\ Pixels(id, f).early = f.early
         /\ (Fresh(f) => Fresh(Pixels(id, f)))
<1>1. /\ Pixels(id, f) \in Baseline /\ Pixels(id, f).id = id /\ Pixels(id, f).of = f.call
      /\ Pixels(id, f).tab = f.tab /\ Pixels(id, f).doc = f.doc /\ Pixels(id, f).early = f.early
  BY DEF Pixels, Baseline, Frame
<1> QED
  BY <1>1 DEF Fresh, Current

\* A new baseline is made if there is room for it.
LEMMA RoomKeeps ==
  ASSUME IsFiniteSet(visuals), WithinLimits, NEW x, Room(x.tab), visuals' = visuals \union {x}
  PROVE  WithinLimits' /\ IsFiniteSet(visuals')
<1>0. ASSUME NEW S, IsFiniteSet(S)
      PROVE  IsFiniteSet(S \union {x}) /\ Cardinality(S \union {x}) <= Cardinality(S) + 1
  <2>1. Cardinality(S) \in Nat
    BY <1>0, FS_CardinalityType
  <2>2. /\ IsFiniteSet(S \union {x})
        /\ \/ Cardinality(S \union {x}) = Cardinality(S)
           \/ Cardinality(S \union {x}) = Cardinality(S) + 1
    BY <1>0, FS_AddElement
  <2> QED
    BY <2>1, <2>2
<1>1. IsFiniteSet(visuals') /\ Cardinality(visuals') <= Cardinality(visuals) + 1
  BY <1>0
<1>2. Cardinality(visuals) \in Nat /\ Cardinality(visuals') \in Nat
  BY <1>1, FS_CardinalityType
<1>3. Cardinality(visuals') <= MaxPixels
  BY <1>1, <1>2, VisualAssumption DEF Room
<1>4. ASSUME NEW t \in Page PROVE Cardinality(OfPage(t)') <= MaxPagePixels
  <2>1. IsFiniteSet(OfPage(t))
    BY FS_Subset DEF OfPage
  <2>2. Cardinality(OfPage(t)) \in Nat /\ Cardinality(OfPage(t)) <= MaxPagePixels
    BY <2>1, FS_CardinalityType DEF WithinLimits
  <2>3. CASE x.tab = t
    <3>1. OfPage(t)' = OfPage(t) \union {x} /\ Cardinality(OfPage(t)) < MaxPagePixels
      BY <2>3 DEF OfPage, Room
    <3>2. /\ IsFiniteSet(OfPage(t) \union {x})
          /\ Cardinality(OfPage(t) \union {x}) <= Cardinality(OfPage(t)) + 1
      BY <1>0, <2>1
    <3>3. Cardinality(OfPage(t) \union {x}) \in Nat
      BY <3>2, FS_CardinalityType
    <3> QED
      BY <2>2, <3>1, <3>2, <3>3, VisualAssumption
  <2>4. CASE x.tab # t
    <3>1. OfPage(t)' = OfPage(t)
      BY <2>4 DEF OfPage
    <3> QED
      BY <2>2, <3>1
  <2> QED
    BY <2>3, <2>4
<1> QED
  BY <1>1, <1>3, <1>4 DEF WithinLimits

\* One baseline for another of its tab leaves as many.
LEMMA SwapKeeps ==
  ASSUME IsFiniteSet(visuals), WithinLimits, NEW y \in visuals, NEW x, x.tab = y.tab,
         visuals' = (visuals \ {y}) \union {x}
  PROVE  WithinLimits' /\ IsFiniteSet(visuals')
<1>1. ASSUME NEW S, IsFiniteSet(S), y \in S
      PROVE  LET T == (S \ {y}) \union {x}
             IN  IsFiniteSet(T) /\ Cardinality(T) \in Nat /\ Cardinality(S) \in Nat
                   /\ Cardinality(T) <= Cardinality(S)
  <2> DEFINE R == S \ {y}
             T == R \union {x}
  <2>1. IsFiniteSet(R) /\ Cardinality(R) = Cardinality(S) - 1 /\ Cardinality(S) \in Nat
    BY <1>1, FS_RemoveElement, FS_CardinalityType
  <2>2. Cardinality(R) \in Nat
    BY <2>1, FS_CardinalityType
  <2> HIDE DEF R
  <2>3. IsFiniteSet(T) /\ Cardinality(T) <= Cardinality(R) + 1
    <3>1. /\ IsFiniteSet(T)
          /\ Cardinality(T) = Cardinality(R) \/ Cardinality(T) = Cardinality(R) + 1
      BY <2>1, FS_AddElement
    <3> HIDE DEF T
    <3> QED
      BY <2>2, <3>1
  <2>4. Cardinality(T) \in Nat
    BY <2>3, FS_CardinalityType
  <2>5. Cardinality(T) <= Cardinality(S)
    <3> HIDE DEF T
    <3> QED
      BY <2>1, <2>2, <2>3, <2>4
  <2> QED
    BY <2>1, <2>3, <2>4, <2>5 DEF R
<1>2. IsFiniteSet(visuals') /\ Cardinality(visuals') <= MaxPixels
  <2>1. /\ IsFiniteSet(visuals') /\ Cardinality(visuals') \in Nat /\ Cardinality(visuals) \in Nat
        /\ Cardinality(visuals') <= Cardinality(visuals)
    BY <1>1
  <2> QED
    BY <2>1, VisualAssumption DEF WithinLimits
<1>3. ASSUME NEW t \in Page PROVE Cardinality(OfPage(t)') <= MaxPagePixels
  <2>1. IsFiniteSet(OfPage(t))
    BY FS_Subset DEF OfPage
  <2>2. Cardinality(OfPage(t)) \in Nat /\ Cardinality(OfPage(t)) <= MaxPagePixels
    BY <2>1, FS_CardinalityType DEF WithinLimits
  <2>3. CASE y.tab = t
    <3>1. OfPage(t)' = (OfPage(t) \ {y}) \union {x} /\ y \in OfPage(t)
      BY <2>3 DEF OfPage
    <3>2. Cardinality(OfPage(t)') \in Nat /\ Cardinality(OfPage(t)') <= Cardinality(OfPage(t))
      BY <1>1, <2>1, <3>1
    <3> QED
      BY <2>2, <3>2, VisualAssumption
  <2>4. CASE y.tab # t
    <3>1. OfPage(t)' = OfPage(t)
      BY <2>4 DEF OfPage
    <3> QED
      BY <2>2, <3>1
  <2> QED
    BY <2>3, <2>4
<1> QED
  BY <1>2, <1>3 DEF WithinLimits

\* The frame the worker has looked at, and its call, which is still awaited.
LEMMA FirstJob ==
  ASSUME VisualInv, vjobs # <<>>
  PROVE  \E f \in Frame : /\ f = Head(vjobs) /\ f.call \in VCall /\ f.tab \in Page /\ OfCall(f)
                          /\ vcalls[f.call].pending /\ SameAccess(f.call) => Fresh(f)
<1>1. vjobs \in Seq(Frame)
  BY DEF VisualInv, DaemonVisualsOK
<1>2. 1 \in DOMAIN vjobs /\ Head(vjobs) = vjobs[1]
  BY <1>1, EmptySeq, HeadTailProperties
<1>3. PICK f \in Frame : /\ f = vjobs[1] /\ f.call \in VCall /\ f.tab \in Page /\ OfCall(f)
                         /\ vcalls[f.call].pending /\ vcalls[f.call].epoch = vaccess.epoch => Fresh(f)
  BY <1>2, JobTyped
<1>4. SameAccess(f.call) => vcalls[f.call].epoch = vaccess.epoch
  BY DEF SameAccess
<1> QED
  BY <1>2, <1>3, <1>4

LEMMA RegisteringKeeps ==
  ASSUME VisualInv, NEW f \in Frame, f.call \in VCall, f.tab \in Page, vcalls[f.call].pending,
         vaccess.on, Fresh(f), vcalls[f.call].epoch = vaccess.epoch, vcalls[f.call].op = "create",
         Registers(f), vjobs # <<>>, vjobs' = Tail(vjobs),
         UNCHANGED <<vaccess, frames, wire, scene>>
  PROVE  VisualInv'
<1> DEFINE c == f.call
           p == Pixels(c, f)
<1>1. /\ DaemonVisualsOK /\ vjobs' \in Seq(Frame) /\ IsFiniteSet(visuals) /\ c \in VCall
      /\ vcalls \in [VCall -> VisualCall]
  BY HeadTailProperties DEF VisualInv, DaemonVisualsOK
<1>2. vcalls[c].of = {} /\ vcalls[c].op # "none" /\ vcalls[c].answer = "none"
  BY DEF VisualInv, VisualCallsAgree
<1>3. c \notin spoilt
  BY <1>2 DEF VisualInv, SpoiltFail
<1>4. CASE ~Room(f.tab)
  <2>1. /\ vcalls' = EndVisuals({c}, "failed") /\ UNCHANGED <<visuals, vout, spoilt>>
    BY <1>4 DEF Registers
  <2>2. "failed" \in VisualAnswer \ {"created", "compared"} /\ {c} \in SUBSET Awaited
    BY <1>1 DEF VisualAnswer, Awaited
  <2> HIDE DEF c
  <2> QED
    BY <2>1, <2>2, EndingKeeps
<1>5. CASE Room(f.tab)
  <2>1. /\ vcalls' = EndVisuals({c}, "created") /\ visuals' = visuals \union {p}
        /\ vout' = [vout EXCEPT !.queued = @ \union {c}] /\ UNCHANGED spoilt
    BY <1>5 DEF Registers
  <2>2. "created" \in VisualAnswer /\ {c} \in SUBSET VCall
    BY <1>1 DEF VisualAnswer
  <2>3. /\ p \in Baseline /\ p.id = c /\ p.of = c /\ p.tab = f.tab /\ Fresh(p)
    BY <1>1, PixelsTyped
  <2> HIDE DEF c, p
  <2>4. /\ vcalls' \in [VCall -> VisualCall] /\ CallsStay
        /\ \A d \in VCall : /\ vcalls'[d].pending <=> vcalls[d].pending /\ d \notin {c}
                            /\ vcalls'[d].answer = IF d \in {c} THEN "created" ELSE vcalls[d].answer
    BY <1>1, <2>1, <2>2, EndVisualsIs
  <2>5. /\ vout' \in [queued : SUBSET VCall, handed : SUBSET VCall, open : BOOLEAN]
        /\ vout'.queued = vout.queued \union {c} /\ vout'.handed = vout.handed
    BY <1>1, <2>1 DEF DaemonVisualsOK
  <2>6. WithinLimits' /\ IsFiniteSet(visuals')
    BY <1>1, <1>5, <2>1, <2>3, RoomKeeps DEF VisualInv
  <2>7. DaemonVisualsOK'
    BY <1>1, <2>1, <2>3, <2>4, <2>5, <2>6 DEF DaemonVisualsOK
  <2>8. ~Over(c) /\ Over(c)'
    BY <1>1, <1>2, <2>4 DEF Over, CallsStay, c
  <2>9. \A v \in visuals' : /\ \/ v \in visuals
                               \/ ~Over(v.of) /\ Over(v.of)' /\ vaccess.on /\ Fresh(v) /\ visuals' # {}
                            /\ v.id \in vout'.handed \union vout'.queued
    <3>1. \A v \in visuals : v.id \in vout.handed \union vout.queued
      BY DEF VisualInv, PixelsAgree
    <3>2. ASSUME NEW v \in visuals', v = p
          PROVE ~Over(v.of) /\ Over(v.of)' /\ Fresh(v)
      <4>1. v.of = c
        BY <2>3, <3>2
      <4> QED
        BY <2>3, <2>8, <3>2, <4>1 DEF Over, Fresh, Current
    <3> QED
      BY <2>1, <2>3, <2>5, <3>1, <3>2
  <2>10. \A d \in spoilt' : vcalls'[d].answer \notin {"created", "compared"}
    BY <1>1, <1>3, <2>1, <2>4 DEF VisualInv, SpoiltFail, DaemonVisualsOK
  <2>11. c \in Awaited
    BY <1>1 DEF Awaited, c
  <2> QED
    BY <2>1, <2>4, <2>6, <2>7, <2>9, <2>10, <2>11, DaemonKeeps
<1> QED
  BY <1>4, <1>5

LEMMA ComparingKeeps ==
  ASSUME VisualInv, NEW f \in Frame, f.call \in VCall, f.tab \in Page, OfCall(f),
         vcalls[f.call].pending, vaccess.on, Fresh(f), vcalls[f.call].epoch = vaccess.epoch,
         vcalls[f.call].op \in {"compare", "advance"}, NEW evidence \in BOOLEAN, Compares(f, evidence),
         vjobs # <<>>, vjobs' = Tail(vjobs), UNCHANGED <<vaccess, frames, wire, scene>>
  PROVE  VisualInv'
<1> DEFINE c == f.call
<1>1. /\ DaemonVisualsOK /\ vjobs' \in Seq(Frame) /\ IsFiniteSet(visuals) /\ c \in VCall
      /\ vcalls \in [VCall -> VisualCall] /\ spoilt \subseteq VCall /\ visuals \subseteq Baseline
  BY HeadTailProperties DEF VisualInv, DaemonVisualsOK
<1>2. PICK ref \in Baseline : vcalls[c].of = {ref} /\ vcalls[c].tab = {ref.tab} /\ Over(ref.of)
  BY DEF VisualInv, VisualCallsAgree
<1>3. (CHOOSE v \in vcalls[c].of : TRUE) = ref /\ ref.id \in VCall /\ ref.tab = f.tab /\ ref.of \in VCall
  <2>1. (CHOOSE v \in vcalls[c].of : TRUE) \in vcalls[c].of
    BY <1>2
  <2> QED
    BY <1>2, <2>1 DEF Baseline, OfCall
<1>4. ~Over(c) /\ c \in Awaited
  BY <1>1 DEF Over, Awaited
<1>5. ref \in visuals => c \notin spoilt
  BY <1>2 DEF VisualInv, SpoiltFail
<1> DEFINE p == Pixels(ref.id, f)
<1>6. p \in Baseline /\ p.id = ref.id /\ p.of = c /\ p.tab = ref.tab /\ Fresh(p)
  BY <1>1, <1>3, PixelsTyped
<1>7. PICK a \in VisualAnswer :
        /\ vcalls' = EndVisuals({c}, a)
        /\ a \in {"invalidated", "compared"}
        /\ a = "compared" => ref \in visuals
        /\ \/ visuals' = visuals
           \/ visuals' = visuals \ {ref}
           \/ ref \in visuals /\ visuals' = (visuals \ {ref}) \union {p}
        /\ spoilt' = IF visuals' = visuals THEN spoilt ELSE spoilt \union (Relying(ref) \ {c})
        /\ UNCHANGED vout
  <2>1. "invalidated" \in VisualAnswer /\ "compared" \in VisualAnswer
    BY DEF VisualAnswer
  <2>2. CASE ref \notin visuals \/ ref.doc # f.doc
    <3>1. /\ vcalls' = EndVisuals({c}, "invalidated") /\ visuals' = visuals \ {ref}
          /\ spoilt' = IF visuals' = visuals THEN spoilt ELSE spoilt \union (Relying(ref) \ {c})
          /\ UNCHANGED vout
      BY <1>3, <2>2 DEF Compares
    <3> QED
      BY <2>1, <3>1
  <2>3. CASE ~(ref \notin visuals \/ ref.doc # f.doc)
    <3>1. /\ vcalls' = EndVisuals({c}, "compared")
          /\ visuals' = CASE ~Comparable(ref, f) -> visuals \ {ref}
                          [] Replaces(ref, f, vcalls[c].op, evidence) -> (visuals \ {ref}) \union {p}
                          [] OTHER -> visuals
          /\ spoilt' = IF visuals' = visuals THEN spoilt ELSE spoilt \union (Relying(ref) \ {c})
          /\ UNCHANGED vout
      BY <1>3, <2>3 DEF Compares
    <3>2. \/ visuals' = visuals
          \/ visuals' = visuals \ {ref}
          \/ visuals' = (visuals \ {ref}) \union {p}
      <4> HIDE DEF c, p
      <4> QED
        BY <3>1
    <3> QED
      BY <2>1, <2>3, <3>1, <3>2
  <2> QED
    BY <2>2, <2>3
<1> HIDE DEF c, p
<1>8. /\ vcalls' \in [VCall -> VisualCall] /\ CallsStay
      /\ \A d \in VCall : /\ vcalls'[d].pending <=> vcalls[d].pending /\ d \notin {c}
                          /\ vcalls'[d].answer = IF d \in {c} THEN a ELSE vcalls[d].answer
  <2>1. PICK some \in SUBSET VCall : some = {c}
    BY <1>1
  <2>2. vcalls' = EndVisuals(some, a)
    BY <1>7, <2>1
  <2>3. /\ vcalls' \in [VCall -> VisualCall] /\ CallsStay
        /\ \A d \in VCall : /\ vcalls'[d].pending <=> vcalls[d].pending /\ d \notin some
                            /\ vcalls'[d].answer = IF d \in some THEN a ELSE vcalls[d].answer
    BY <1>1, <2>2, EndVisualsIs
  <2> QED
    BY <2>1, <2>3
<1>9. Over(c)'
  BY <1>1, <1>4, <1>8 DEF Over, CallsStay, Awaited, VisualInv, VisualCallsAgree
<1>10. WithinLimits' /\ IsFiniteSet(visuals')
  <2>1. WithinLimits
    BY DEF VisualInv
  <2>2. CASE visuals' \subseteq visuals
    BY <1>1, <2>1, <2>2, LimitsShrink
  <2>3. CASE ref \in visuals /\ visuals' = (visuals \ {ref}) \union {p}
    BY <1>1, <1>6, <2>1, <2>3, SwapKeeps
  <2> QED
    BY <1>7, <2>2, <2>3
<1>11. Relying(ref) \subseteq Awaited /\ Awaited \subseteq VCall /\ \A d \in Relying(ref) : vcalls[d].of = {ref}
  BY DEF Relying, Awaited
<1>12. DaemonVisualsOK'
  BY <1>1, <1>6, <1>7, <1>8, <1>10, <1>11 DEF DaemonVisualsOK
<1>13. p # ref
  BY <1>2, <1>4, <1>6 DEF Over
<1>14. \A v \in visuals' : /\ \/ v \in visuals
                              \/ ~Over(v.of) /\ Over(v.of)' /\ vaccess.on /\ Fresh(v) /\ visuals' # {}
                           /\ v.id \in vout'.handed \union vout'.queued
  <2>1. \A v \in visuals : v.id \in vout.handed \union vout.queued
    BY DEF VisualInv, PixelsAgree
  <2>2. ASSUME NEW v, v = p PROVE ~Over(v.of) /\ Over(v.of)' /\ Fresh(v)
    <3>1. v.of = c
      BY <1>6, <2>2
    <3> QED
      BY <1>4, <1>6, <1>9, <2>2, <3>1 DEF Over
  <2> QED
    BY <1>6, <1>7, <2>1, <2>2
<1>15. visuals = {} /\ Awaited = {} => visuals' = {}
  BY <1>4
<1>16. \A d \in Awaited : vcalls[d].answer = "none"
  BY DEF VisualInv, VisualCallsAgree, Awaited
<1>17. \A d \in spoilt' : vcalls'[d].answer \notin {"created", "compared"}
  <2> SUFFICES ASSUME NEW d \in spoilt' PROVE vcalls'[d].answer \notin {"created", "compared"}
    OBVIOUS
  <2>1. d \in VCall /\ (d \in spoilt \/ d \in Relying(ref) \ {c})
    BY <1>1, <1>7, <1>11
  <2>2. CASE d = c
    BY <1>5, <1>7, <1>8, <2>1, <2>2
  <2>3. CASE d # c
    <3>1. vcalls[d].answer \notin {"created", "compared"}
      BY <2>1, <1>11, <1>16 DEF VisualInv, SpoiltFail
    <3> QED
      BY <1>8, <2>1, <2>3, <3>1
  <2> QED
    BY <2>2, <2>3
<1>18. \A d \in spoilt' : d \in spoilt \/
           (d \in Awaited /\ (vcalls'[d].pending => \E v \in vcalls[d].of : v \notin visuals'))
  <2> SUFFICES ASSUME NEW d \in spoilt', d \notin spoilt
               PROVE  d \in Awaited /\ \E v \in vcalls[d].of : v \notin visuals'
    OBVIOUS
  <2>1. visuals' # visuals /\ d \in Relying(ref)
    BY <1>7
  <2>2. ref \notin visuals'
    BY <1>7, <1>13, <2>1
  <2> QED
    BY <1>11, <2>1, <2>2
<1> QED
  BY <1>8, <1>10, <1>12, <1>14, <1>15, <1>17, <1>18, DaemonKeeps

LEMMA SettlingKeeps ==
  ASSUME VisualInv, NEW evidence \in BOOLEAN, VisualSettles(evidence) PROVE VisualInv'
<1>1. vjobs # <<>> /\ vjobs' = Tail(vjobs) /\ UNCHANGED <<vaccess, frames, wire, scene>>
  BY DEF VisualSettles
<1>2. PICK f \in Frame : /\ f = Head(vjobs) /\ f.call \in VCall /\ f.tab \in Page /\ OfCall(f)
                         /\ vcalls[f.call].pending /\ SameAccess(f.call) => Fresh(f)
  BY <1>1, FirstJob
<1>3. DaemonVisualsOK /\ vjobs' \in Seq(Frame) /\ vcalls[f.call] \in VisualCall
  BY <1>1, <1>2, HeadTailProperties DEF VisualInv, DaemonVisualsOK
<1>4. CASE ~vcalls[f.call].pending
  <2>1. UNCHANGED <<visuals, vcalls, vout, spoilt>>
    BY <1>2, <1>4 DEF VisualSettles
  <2>2. DaemonVisualsOK' /\ CallsStay
    BY <1>1, <1>3, <2>1 DEF DaemonVisualsOK, CallsStay
  <2>3. /\ \A v \in visuals' : v.id \in vout'.handed \union vout'.queued
        /\ \A c \in spoilt : vcalls'[c].answer \notin {"created", "compared"}
        /\ visuals' \subseteq visuals
    BY <2>1 DEF VisualInv, PixelsAgree, SpoiltFail
  <2> QED
    BY <1>1, <2>1, <2>2, <2>3, NothingSpoilt
<1>5. CASE vcalls[f.call].pending /\ ~SameAccess(f.call)
  <2>1. vcalls' = EndVisuals({f.call}, "failed") /\ UNCHANGED <<visuals, vout, spoilt>>
    BY <1>2, <1>5 DEF VisualSettles
  <2>2. "failed" \in VisualAnswer \ {"created", "compared"} /\ {f.call} \in SUBSET Awaited
    BY <1>2, <1>5 DEF VisualAnswer, Awaited
  <2> QED
    BY <1>1, <2>1, <2>2, EndingKeeps
<1>6. CASE vcalls[f.call].pending /\ SameAccess(f.call)
  <2>1. IF vcalls[f.call].op = "create" THEN Registers(f) ELSE Compares(f, evidence)
    BY <1>2, <1>6 DEF VisualSettles
  <2>2. Fresh(f) /\ vaccess.on /\ vcalls[f.call].epoch = vaccess.epoch
    BY <1>2, <1>6 DEF SameAccess
  <2>3. vcalls[f.call].op \in {"create", "compare", "advance"}
    BY <1>2, <1>3 DEF OfCall, VisualCall
  <2>4. CASE vcalls[f.call].op = "create"
    BY <1>1, <1>2, <1>6, <2>1, <2>2, <2>4, RegisteringKeeps
  <2>5. CASE vcalls[f.call].op # "create"
    BY <1>1, <1>2, <1>6, <2>1, <2>2, <2>3, <2>5, ComparingKeeps
  <2> QED
    BY <2>4, <2>5
<1> QED
  BY <1>4, <1>5, <1>6

LEMMA VisualsGoOn == VisualInv /\ [VisualNext]_visualVars => VisualInv'
<1> SUFFICES ASSUME VisualInv, [VisualNext]_visualVars PROVE VisualInv'
  OBVIOUS
<1>1. CASE UNCHANGED visualVars
  <2>1. UNCHANGED <<visuals, vcalls, vaccess, vjobs, vout, frames, wire, scene, spoilt>>
    BY <1>1 DEF visualVars
  <2>2. BrowserVisualsOK' /\ LinkAgrees'
    BY <2>1 DEF VisualInv, BrowserVisualsOK, LinkAgrees, Awaited
  <2>3. \A p \in Page : p \notin scene.loading => p \notin scene'.loading /\ scene'.doc[p] = scene.doc[p]
    BY <2>1
  <2>4. \A f \in frames' : OfCall(f)
    BY <2>1 DEF VisualInv, CapturesAgree
  <2> QED
    BY <2>1, <2>2, <2>3, <2>4, BrowserKeeps
<1>2. ASSUME NEW c \in VCall, NEW t \in Page, CreateVisual(c, t) \/ CaptureBegins(c, t) PROVE VisualInv'
  BY <1>2, CreatesKeep, BeginningKeeps
<1>3. ASSUME NEW c \in VCall, NEW v \in visuals, NEW op \in {"compare", "advance"}, CompareVisual(c, v, op)
      PROVE  VisualInv'
  BY <1>3, ComparisonsKeep
<1>4. ASSUME NEW c \in VCall, VisualGivenUp(c) \/ VisualWritten(c) PROVE VisualInv'
  BY <1>4, GivingUpKeeps, WritingKeeps
<1>5. ASSUME NEW v \in visuals, ForgetVisual(v) PROVE VisualInv'
  BY <1>5, ForgettingKeeps
<1>6. ASSUME NEW f \in frames, CaptureEnds(f) PROVE VisualInv'
  BY <1>6, EndingCaptureKeeps
<1>7. ASSUME NEW t \in Page, VisualPageLoads(t) \/ VisualPageCommits(t) \/ VisualPageScrolls(t)
      PROVE  VisualInv'
  BY <1>7, LoadingKeeps, CommittingKeeps, ScrollingKeeps
<1>8. CASE VisualAgentLeaves \/ VisualLinkLost \/ VisualLinkMade
  BY <1>8, LeavingKeeps, LosingKeeps, LinkingKeeps
<1>9. CASE DaemonTakesVisual
  BY <1>9, TakingKeeps
<1>10. ASSUME NEW b \in BOOLEAN, VisualGrantChanges(b) \/ VisualSettles(b) PROVE VisualInv'
  BY <1>10, GrantingKeeps, SettlingKeeps
<1> QED
  BY <1>1, <1>2, <1>3, <1>4, <1>5, <1>6, <1>7, <1>8, <1>9, <1>10 DEF VisualNext

\* Whatever pages, the grant, the connection and agents do while a frame is captured,
\* travels or is looked at, no call they overtook is answered with a baseline or a
\* comparison, and the pixels kept are of the page, the access and an agent they were
\* taken for, within the limits (visual_baseline.go).
THEOREM PixelsKept == VisualSpec => []PixelsInScope
<1>1. VisualInit => VisualInv
  BY VisualsBegin
<1>2. VisualInv /\ [VisualNext]_visualVars => VisualInv'
  BY VisualsGoOn
<1>3. VisualInv => PixelsInScope
  BY VisualInvSays
<1> QED
  BY <1>1, <1>2, <1>3, PTL DEF VisualSpec
=============================================================================
